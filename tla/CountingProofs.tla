--------------------------- MODULE CountingProofs ---------------------------
(***************************************************************************)
(* Lemmas for invariants that count: the marked elements of a queue, and   *)
(* the marked places of a table, when one of them changes.                 *)
(***************************************************************************)
EXTENDS Integers, Sequences, FiniteSets, FiniteSetTheorems, FunctionTheorems,
        SequenceTheorems, TLAPS

(* The positions of queue s that hold an element of K.                     *)
Marked(s, K) == {n \in DOMAIN s : s[n] \in K}

(* The places in D that table f maps into K.                               *)
Placed(f, D, K) == {x \in D : f[x] \in K}

One(b) == IF b THEN 1 ELSE 0

LEMMA MarkedFinite ==
    ASSUME NEW T, NEW s \in Seq(T), NEW K
    PROVE  IsFiniteSet(Marked(s, K)) /\ Cardinality(Marked(s, K)) \in Nat
<1>1. IsFiniteSet(1..Len(s))
  <2>1. Len(s) \in Nat
    BY LenProperties
  <2> QED BY <2>1, FS_Interval
<1>2. Marked(s, K) \in SUBSET (1..Len(s))
  BY LenProperties DEF Marked
<1> QED BY <1>1, <1>2, FS_Subset, FS_CardinalityType

(* A marked element at the end of a queue counts.                          *)
LEMMA CountAppend ==
    ASSUME NEW T, NEW s \in Seq(T), NEW x \in T, NEW K
    PROVE  Cardinality(Marked(Append(s, x), K)) =
               Cardinality(Marked(s, K)) + One(x \in K)
<1> DEFINE n == Len(s) + 1
<1>1. /\ DOMAIN Append(s, x) = 1..n /\ DOMAIN s = 1..(n - 1) /\ n \in Nat
      /\ Append(s, x)[n] = x
      /\ \A m \in 1..(n - 1) : Append(s, x)[m] = s[m]
  BY AppendProperties, LenProperties
<1> HIDE DEF n
<1>2. n \notin Marked(s, K)
  BY <1>1 DEF Marked
<1>3. Marked(Append(s, x), K) = IF x \in K THEN Marked(s, K) \cup {n} ELSE Marked(s, K)
  BY <1>1 DEF Marked
<1>4. IsFiniteSet(Marked(s, K)) /\ Cardinality(Marked(s, K)) \in Nat
  BY MarkedFinite
<1>5. Cardinality(Marked(s, K) \cup {n}) = Cardinality(Marked(s, K)) + 1
  BY <1>2, <1>4, FS_AddElement
<1>6. CASE x \in K
  BY <1>3, <1>4, <1>5, <1>6 DEF One
<1>7. CASE x \notin K
  BY <1>3, <1>4, <1>7 DEF One
<1> QED BY <1>6, <1>7

(* So does one that leaves it.                                             *)
LEMMA CountTail ==
    ASSUME NEW T, NEW s \in Seq(T), s # <<>>, NEW K
    PROVE  Cardinality(Marked(s, K)) =
               Cardinality(Marked(Tail(s), K)) + One(Head(s) \in K)
<1> DEFINE n == Len(s)
           Rest == Marked(s, K) \ {1}
           f == [m \in Marked(Tail(s), K) |-> m + 1]
<1>1. /\ n \in Nat \ {0} /\ DOMAIN s = 1..n /\ DOMAIN Tail(s) = 1..(n - 1)
      /\ Head(s) = s[1] /\ Tail(s) \in Seq(T)
      /\ \A m \in 1..(n - 1) : Tail(s)[m] = s[m + 1]
  BY HeadTailProperties, LenProperties, EmptySeq
<1> HIDE DEF n
<1>2. f \in Bijection(Marked(Tail(s), K), Rest)
  <2>1. \A m \in Marked(Tail(s), K) : m \in 1..(n - 1) /\ m + 1 \in Rest
    BY <1>1 DEF Marked
  <2>2. \A a, b \in Marked(Tail(s), K) : f[a] = f[b] => a = b
    BY <2>1
  <2>3. \A m \in Rest : /\ m - 1 \in Marked(Tail(s), K)
                        /\ f[m - 1] = m
    BY <1>1 DEF Marked
  <2> QED BY <2>1, <2>2, <2>3, Fun_IsBij
<1> HIDE DEF f
<1>3. IsFiniteSet(Marked(Tail(s), K)) /\ IsFiniteSet(Marked(s, K))
  BY <1>1, MarkedFinite
<1>4. ExistsBijection(Marked(Tail(s), K), Rest)
  BY <1>2 DEF ExistsBijection
<1> HIDE DEF Rest
<1>5. Cardinality(Rest) = Cardinality(Marked(Tail(s), K)) /\ IsFiniteSet(Rest)
  BY <1>3, <1>4, FS_Bijection
<1>6. Marked(s, K) = IF Head(s) \in K THEN Rest \cup {1} ELSE Rest
  BY <1>1 DEF Marked, Rest
<1>7. Cardinality(Rest \cup {1}) = Cardinality(Rest) + 1 /\ Cardinality(Rest) \in Nat
  BY <1>5, FS_AddElement, FS_CardinalityType DEF Rest
<1>8. CASE Head(s) \in K
  BY <1>5, <1>6, <1>7, <1>8 DEF One
<1>9. CASE Head(s) \notin K
  BY <1>5, <1>6, <1>7, <1>9 DEF One
<1> QED BY <1>8, <1>9

LEMMA PlacedFinite ==
    ASSUME NEW D, IsFiniteSet(D), NEW f, NEW K
    PROVE  IsFiniteSet(Placed(f, D, K)) /\ Cardinality(Placed(f, D, K)) \in Nat
<1>1. Placed(f, D, K) \in SUBSET D
  BY DEF Placed
<1> QED BY <1>1, FS_Subset, FS_CardinalityType

(* A place whose entry changes may start or cease to count.                *)
LEMMA CountPlace ==
    ASSUME NEW D, IsFiniteSet(D), NEW f, NEW g, NEW K, NEW x \in D,
           \A y \in D \ {x} : g[y] = f[y]
    PROVE  Cardinality(Placed(g, D, K)) =
               Cardinality(Placed(f, D, K)) + One(g[x] \in K) - One(f[x] \in K)
<1> DEFINE Others == Placed(f, D, K) \ {x}
<1>1. IsFiniteSet(Others) /\ x \notin Others
  BY PlacedFinite, FS_RemoveElement
<1>2. Placed(f, D, K) = IF f[x] \in K THEN Others \cup {x} ELSE Others
  BY DEF Placed
<1>3. Placed(g, D, K) = IF g[x] \in K THEN Others \cup {x} ELSE Others
  BY DEF Placed
<1> HIDE DEF Others
<1>4. /\ Cardinality(Others) \in Nat
      /\ Cardinality(Others \cup {x}) = Cardinality(Others) + 1
  BY <1>1, FS_AddElement, FS_CardinalityType
<1>5. CASE f[x] \in K /\ g[x] \in K
  BY <1>2, <1>3, <1>4, <1>5 DEF One
<1>6. CASE f[x] \in K /\ g[x] \notin K
  BY <1>2, <1>3, <1>4, <1>6 DEF One
<1>7. CASE f[x] \notin K /\ g[x] \in K
  BY <1>2, <1>3, <1>4, <1>7 DEF One
<1>8. CASE f[x] \notin K /\ g[x] \notin K
  BY <1>2, <1>3, <1>4, <1>8 DEF One
<1> QED BY <1>5, <1>6, <1>7, <1>8
=============================================================================
