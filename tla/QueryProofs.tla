----------------------------- MODULE QueryProofs -----------------------------
(***************************************************************************)
(* Proofs about one request, in HttpData and in MySqlHttpData, for any     *)
(* texts: of any items in any order, with any lengths and with an '&'      *)
(* missing anywhere.  That the lengths of a text are numbers is assumed    *)
(* (LengthsAreNumbers), since LenIn is recursive.                          *)
(***************************************************************************)
EXTENDS MySqlHttpData, TLAPS, SequenceTheorems

-----------------------------------------------------------------------------
Parsing    == pc \in {"ParseRecvBuf", "ParseQuery"} \cup Items
Asked      == sendflag \in {"kQueryAuthSum", "kQueryAuthState"}
Activation == text.head = "Activate" \/ (text.head = "Query" /\ text.type = "1")

(* What the method that comes next may rely on.                            *)
Flow ==
    /\ pc \in {"ParseQuery"} \cup Items => text.head = "Query"
    /\ pc \in Items => text.type = "0"
    /\ Parsing => sendflag = "kNullFlag" /\ errorcode = "kNullError"
    /\ sendflag = "kErrorFlag" <=> errorcode # "kNullError"
    /\ sendflag = "kNullFlag" => Parsing \/ Activation

(* An item behind which the parser is, or the whole query, was checked.    *)
Behind(i) == Asked \/ (pc = "VendorID" /\ i = "ProjectID") \/ pc \in {"STBID", "ChipID", "MAC"}

IdsChecked ==
    /\ Asked => text.head = "Query" /\ text.type = "0"
    /\ \A i \in {"ProjectID", "VendorID"} :
          Behind(i) => value[i] # 0 /\ ItemLen(i) \in 1..8
    /\ sendflag = "kQueryAuthState" =>
          \E i \in {"STBID", "ChipID", "MAC"} : value[i] # 0

ErrorsTrue ==
    /\ errorcode = "kProjectIDTooLong" => ItemLen("ProjectID") > 8
    /\ errorcode = "kVendorIDTooLong" =>
          ItemLen("VendorID") > 8 /\ ItemLen("ProjectID") \in 1..8
    /\ errorcode = "kSTBIDTooLong" =>
          ItemLen("STBID") > 32 /\ ItemLen("VendorID") \in 1..8
    /\ errorcode = "kChipIDTooLong" =>
          ItemLen("ChipID") > 32 /\ ItemLen("VendorID") \in 1..8
    /\ errorcode = "kMACLenIsWrong" =>
          ItemLen("MAC") \notin {0, 12} /\ ItemLen("VendorID") \in 1..8

Connected == pc = "connected" => class = "MySqlHttpData" /\ (Asked => found = "table")

(* The payload: one part that the flags ask for, or none.                  *)
PartAsked(part) ==
    \/ part \in AuthParts /\ Asked
    \/ part = errorcode /\ errorcode # "kNullError"

Answered ==
    /\ pc # "done" => payloadbuf = <<>> /\ result = "none"
    /\ \/ payloadbuf = <<>> /\ result # "TRUE"
       \/ \E part \in AuthParts \cup ErrorCodes : payloadbuf = <<part>> /\ PartAsked(part)
    /\ Asked /\ payloadbuf # <<>> /\ class = "MySqlHttpData" => found = "table"
    /\ class = "HttpData" /\ result = "FALSE" => Activation

QueryInv ==
    MySqlTypeOK /\ BuffersFit /\ Flow /\ IdsChecked /\ ErrorsTrue /\ Connected /\ Answered

-----------------------------------------------------------------------------
(* The static side of a request.                                           *)
LEMMA Lengths ==
    ASSUME LengthsAreNumbers, text \in Texts
    PROVE  \A i \in Items : ItemLen(i) \in Nat
BY DEF LengthsAreNumbers, ItemLen

(* The checks of ParseQueryAuth let an empty string through, and nothing   *)
(* that is longer than its member.                                         *)
LEMMA FitsMeans ==
    ASSUME NEW i \in Items, NEW n \in Nat
    PROVE  /\ n = 0 => Fits(i, n)
           /\ Fits(i, n) => n <= Capacity[i]
           /\ i \in {"ProjectID", "VendorID"} => Capacity[i] = 8 /\ Missing(i) # {}
<1>1. CASE i = "ProjectID"
  BY <1>1 DEF Fits, Capacity, Missing
<1>2. CASE i = "VendorID"
  BY <1>2 DEF Fits, Capacity, Missing
<1>3. CASE i = "STBID"
  BY <1>3 DEF Fits, Capacity
<1>4. CASE i = "ChipID"
  BY <1>4 DEF Fits, Capacity
<1>5. CASE i = "MAC"
  BY <1>5 DEF Fits, Capacity
<1> QED BY <1>1, <1>2, <1>3, <1>4, <1>5 DEF Items

LEMMA QueryInit == ASSUME MySqlInit PROVE QueryInv
<1> USE DEF MySqlInit, Init
<1>1. MySqlTypeOK
  <2>1. <<>> \in Seq(AuthParts \cup (ErrorCodes \ {"kNullError"}))
    OBVIOUS
  <2> QED BY <2>1 DEF MySqlTypeOK, TypeOK, SendFlags, ErrorCodes, Items
<1>2. BuffersFit
  BY DEF BuffersFit, Capacity, Items
<1>3. Flow /\ IdsChecked
  BY DEF Flow, IdsChecked, Behind, Asked, Parsing, Items
<1>4. ErrorsTrue /\ Connected /\ Answered
  BY DEF ErrorsTrue, Connected, Answered
<1> QED BY <1>1, <1>2, <1>3, <1>4 DEF QueryInv

(* Steps of the parser leave the payload empty and the lookup undone.      *)
LEMMA ParserKeeps ==
    ASSUME QueryInv, Parsing, pc' # "done", pc' # "connected",
           UNCHANGED <<text, class, payloadbuf, result, found>>
    PROVE  Connected' /\ Answered'
<1>1. pc # "done"
  BY DEF Parsing, Items
<1> QED BY <1>1 DEF QueryInv, Connected, Answered

LEMMA HeadStep ==
    ASSUME QueryInv, ParseRecvBuf \/ ParseQuery, UNCHANGED found PROVE QueryInv'
<1> USE DEF QueryInv
<1>1. /\ Parsing /\ UNCHANGED <<text, class, value, payloadbuf, result, found>>
      /\ pc' \in {"ParseQuery", "ProjectID", "parsed"}
      /\ \/ UNCHANGED <<sendflag, errorcode>>
         \/ /\ pc' = "parsed" /\ sendflag' = "kErrorFlag"
            /\ errorcode' \in {"kNoField", "kQueryLenIsWrong", "kQueryNumberUndefine"}
  BY DEF ParseRecvBuf, ParseQuery, Error, Parsing
<1>2. sendflag = "kNullFlag" /\ errorcode = "kNullError"
  BY <1>1 DEF Flow
<1>3. MySqlTypeOK' /\ BuffersFit'
  BY <1>1 DEF MySqlTypeOK, TypeOK, SendFlags, ErrorCodes, Items, BuffersFit
<1>4. Flow'
  <2>1. CASE ParseRecvBuf
    BY <1>2, <2>1 DEF ParseRecvBuf, Error, Flow, Parsing, Activation, Items
  <2>2. CASE ParseQuery
    BY <1>2, <2>2 DEF ParseQuery, TypesScanned, Error, Flow, Parsing, Activation, Items
  <2> QED BY <2>1, <2>2
<1>5. IdsChecked'
  <2>1. ~Asked' /\ pc' \notin {"VendorID", "STBID", "ChipID", "MAC"}
    BY <1>1, <1>2 DEF Asked
  <2> QED BY <2>1 DEF IdsChecked, Behind, Asked
<1>6. ErrorsTrue'
  BY <1>1, <1>2 DEF ErrorsTrue
<1>7. Connected' /\ Answered'
  BY <1>1, ParserKeeps
<1> QED BY <1>3, <1>4, <1>5, <1>6, <1>7

-----------------------------------------------------------------------------
(* An item that is too long, or missing where it must not be.              *)
LEMMA ItemError ==
    ASSUME QueryInv, LengthsAreNumbers, NEW i \in Items, pc = i, NEW e, Error(e),
           UNCHANGED <<text, class, payloadbuf, result, found>>,
           value' \in [Items -> Nat], BuffersFit',
           \/ e = TooLong(i) /\ ~Fits(i, ItemLen(i))
           \/ e \in Missing(i)
    PROVE  QueryInv'
<1> USE DEF QueryInv
<1>1. /\ pc' = "parsed" /\ sendflag' = "kErrorFlag" /\ errorcode' = e
      /\ Parsing /\ ItemLen(i) \in Nat
  BY Lengths DEF Error, Parsing, MySqlTypeOK, TypeOK
<1>2. e \in ErrorCodes \ {"kNullError"}
  BY DEF TooLong, Missing, ErrorCodes, Items
<1>3. MySqlTypeOK'
  BY <1>1, <1>2 DEF MySqlTypeOK, TypeOK, SendFlags
<1>4. Flow' /\ IdsChecked'
  BY <1>1, <1>2 DEF Flow, IdsChecked, Behind, Asked, Parsing, Items
<1>5. \A j \in Items : ItemLen(j)' = ItemLen(j)
  BY DEF ItemLen
<1>6. i \in {"VendorID", "STBID", "ChipID", "MAC"} => ItemLen("ProjectID") \in 1..8
  BY DEF IdsChecked, Behind
<1>7. i \in {"STBID", "ChipID", "MAC"} => ItemLen("VendorID") \in 1..8
  BY DEF IdsChecked, Behind
<1>8. ErrorsTrue'
  <2>1. CASE e = TooLong(i) /\ ~Fits(i, ItemLen(i))
    BY <1>1, <1>5, <1>6, <1>7, <2>1 DEF TooLong, Fits, ErrorsTrue, Items
  <2>2. CASE e \in Missing(i)
    BY <1>1, <2>2 DEF Missing, ErrorsTrue
  <2> QED BY <2>1, <2>2
<1>9. Connected' /\ Answered'
  BY <1>1, ParserKeeps
<1> QED BY <1>3, <1>4, <1>8, <1>9

(* An item that is copied, and the parser goes on to the next.             *)
LEMMA ItemCopied ==
    ASSUME QueryInv, LengthsAreNumbers, NEW i \in Items, pc = i,
           NEW n \in {ItemLen(i), 0}, Fits(i, n), n # 0 \/ Missing(i) = {},
           value' = [value EXCEPT ![i] = n],
           pc' = NextItem[i],
           sendflag' = IF i # "MAC" THEN sendflag
                       ELSE IF \A j \in {"STBID", "ChipID", "MAC"} : value'[j] = 0
                            THEN "kQueryAuthSum" ELSE "kQueryAuthState",
           UNCHANGED <<text, class, payloadbuf, result, errorcode, found>>,
           value' \in [Items -> Nat], BuffersFit'
    PROVE  QueryInv'
<1> USE DEF QueryInv
<1>1. Parsing /\ ItemLen(i) \in Nat /\ n \in Nat
  BY Lengths DEF Parsing, MySqlTypeOK, TypeOK
<1>2. sendflag = "kNullFlag" /\ errorcode = "kNullError" /\ text.head = "Query" /\ text.type = "0"
  BY <1>1 DEF Flow
<1>3. /\ pc' \in {"VendorID", "STBID", "ChipID", "MAC", "parsed"}
      /\ pc' = "parsed" <=> i = "MAC"
      /\ pc' = "VendorID" <=> i = "ProjectID"
      /\ pc' = "STBID" <=> i = "VendorID"
  BY DEF NextItem, Items
<1>4. /\ i # "MAC" => sendflag' = "kNullFlag"
      /\ i = "MAC" => sendflag' \in {"kQueryAuthSum", "kQueryAuthState"}
  BY <1>2
<1>5. MySqlTypeOK'
  BY <1>3, <1>4 DEF MySqlTypeOK, TypeOK, SendFlags, Items
<1>6. Flow'
  BY <1>2, <1>3, <1>4 DEF Flow, Parsing, Items
<1>7. \A j \in Items : ItemLen(j)' = ItemLen(j) /\ (j # i => value'[j] = value[j])
  BY DEF ItemLen, MySqlTypeOK, TypeOK
<1>8. i \in {"ProjectID", "VendorID"} => value'[i] # 0 /\ ItemLen(i) \in 1..8
  <2>1. ASSUME i \in {"ProjectID", "VendorID"} PROVE n # 0 /\ n <= 8
    BY <1>1, <2>1, FitsMeans
  <2>2. value'[i] = n
    BY DEF MySqlTypeOK, TypeOK
  <2> QED BY <1>1, <2>1, <2>2
<1>9. ASSUME NEW j \in {"ProjectID", "VendorID"}, Behind(j)'
      PROVE  value'[j] # 0 /\ ItemLen(j)' \in 1..8
  <2>1. CASE j = i
    BY <1>7, <1>8, <2>1
  <2>2. CASE j # i
    <3>1. Behind(j)
      BY <1>3, <1>4, <1>9, <2>2 DEF Behind, Asked, Items
    <3> QED BY <1>7, <2>2, <3>1 DEF IdsChecked, Items
  <2> QED BY <2>1, <2>2
<1>10. IdsChecked'
  BY <1>2, <1>4, <1>9 DEF IdsChecked, Asked
<1>11. ErrorsTrue'
  BY <1>2 DEF ErrorsTrue
<1>12. Connected' /\ Answered'
  BY <1>1, <1>3, ParserKeeps
<1> QED BY <1>5, <1>6, <1>10, <1>11, <1>12

LEMMA ItemStep ==
    ASSUME QueryInv, LengthsAreNumbers, NEW i \in Items, ParseItem(i), UNCHANGED found
    PROVE  QueryInv'
<1> USE DEF QueryInv
<1>1. \A j \in Items : ItemLen(j) \in Nat
  BY Lengths DEF MySqlTypeOK, TypeOK
<1>2. PICK n \in {ItemLen(i), 0} :
        \/ ~Fits(i, n) /\ Error(TooLong(i)) /\ UNCHANGED value
        \/ /\ Fits(i, n)
           /\ value' = [value EXCEPT ![i] = n]
           /\ IF n = 0 /\ Missing(i) # {}
              THEN \E e \in Missing(i) : Error(e)
              ELSE /\ pc' = NextItem[i]
                   /\ sendflag' =
                        IF i # "MAC" THEN sendflag
                        ELSE IF \A j \in {"STBID", "ChipID", "MAC"} : value'[j] = 0
                             THEN "kQueryAuthSum" ELSE "kQueryAuthState"
                   /\ UNCHANGED errorcode
  BY DEF ParseItem, Scanned
<1>3. pc = i /\ UNCHANGED <<text, class, payloadbuf, result>>
  BY DEF ParseItem
<1>4. CASE ~Fits(i, n)
  <2>1. Error(TooLong(i)) /\ UNCHANGED value
    BY <1>2, <1>4
  <2>2. n = ItemLen(i)
    BY <1>4, FitsMeans
  <2>3. value' \in [Items -> Nat] /\ BuffersFit'
    BY <2>1 DEF MySqlTypeOK, TypeOK, BuffersFit
  <2> QED BY <1>3, <1>4, <2>1, <2>2, <2>3, ItemError
<1>5. CASE Fits(i, n)
  <2>1. value' = [value EXCEPT ![i] = n]
    BY <1>2, <1>5
  <2>2. n \in Nat /\ value' \in [Items -> Nat]
    BY <1>1, <2>1 DEF MySqlTypeOK, TypeOK
  <2>3. n <= Capacity[i]
    BY <1>5, <2>2, FitsMeans
  <2>4. BuffersFit'
    BY <2>1, <2>3 DEF BuffersFit, MySqlTypeOK, TypeOK
  <2>5. CASE n = 0 /\ Missing(i) # {}
    <3>1. PICK e \in Missing(i) : Error(e)
      BY <1>2, <1>5, <2>5
    <3> QED BY <1>3, <2>2, <2>4, <3>1, ItemError
  <2>6. CASE ~(n = 0 /\ Missing(i) # {})
    <3>1. /\ pc' = NextItem[i]
          /\ sendflag' = IF i # "MAC" THEN sendflag
                         ELSE IF \A j \in {"STBID", "ChipID", "MAC"} : value'[j] = 0
                              THEN "kQueryAuthSum" ELSE "kQueryAuthState"
          /\ UNCHANGED errorcode
      BY <1>2, <1>5, <2>6
    <3> QED BY <1>3, <1>5, <2>1, <2>2, <2>4, <2>6, <3>1, ItemCopied
  <2> QED BY <2>5, <2>6
<1> QED BY <1>4, <1>5

-----------------------------------------------------------------------------
LEMMA QueryLookup ==
    ASSUME QueryInv, ConnectDatabase PROVE QueryInv'
<1> USE DEF QueryInv
<1>1. /\ class = "MySqlHttpData" /\ pc = "parsed" /\ pc' \in {"connected", "done"}
      /\ UNCHANGED <<text, class, value, payloadbuf>>
      /\ found' \in {"none", "project", "table"}
      /\ pc' = "connected" => result' = result
      /\ pc' = "done" => result' = "FALSE"
      /\ \/ UNCHANGED <<sendflag, errorcode>>
         \/ /\ sendflag' = "kErrorFlag"
            /\ errorcode' \in {"kProjectIDIsWrong", "kVendorIDIsWrong"}
      /\ pc' = "connected" /\ sendflag' # "kErrorFlag" => found' = "table"
  BY DEF ConnectDatabase, NotFound
<1>2. payloadbuf = <<>> /\ result = "none" /\ pc \notin Items /\ ~Parsing /\ ~Parsing'
  BY <1>1 DEF Answered, Parsing, Items
<1>3. MySqlTypeOK' /\ BuffersFit'
  BY <1>1, <1>2 DEF MySqlTypeOK, TypeOK, SendFlags, ErrorCodes, BuffersFit
<1>4. Flow'
  BY <1>1, <1>2 DEF Flow, Activation, Items, Parsing
<1>5. IdsChecked'
  <2>1. (Asked' => Asked) /\ \A j \in Items : ItemLen(j)' = ItemLen(j)
    BY <1>1 DEF Asked, ItemLen
  <2>2. \A j \in Items : Behind(j)' => Behind(j)
    BY <1>1, <2>1 DEF Behind
  <2> QED BY <1>1, <2>1, <2>2 DEF IdsChecked, Items
<1>6. ErrorsTrue'
  BY <1>1 DEF ErrorsTrue, ItemLen
<1>7. Connected' /\ Answered'
  BY <1>1, <1>2 DEF Connected, Answered, Asked
<1> QED BY <1>3, <1>4, <1>5, <1>6, <1>7

(* A payload is built: nothing and a failure, or one part that was asked   *)
(* for.                                                                    *)
LEMMA QueryReturns ==
    ASSUME QueryInv, Ready, NEW parts, NEW r \in {"TRUE", "FALSE"}, Return(parts, r),
           \/ parts = <<>> /\ r = "FALSE"
           \/ \E part \in AuthParts \cup (ErrorCodes \ {"kNullError"}) :
                  parts = <<part>> /\ PartAsked(part),
           class = "HttpData" /\ r = "FALSE" => Activation,
           UNCHANGED found
    PROVE  QueryInv'
<1> USE DEF QueryInv
<1>1. /\ pc \in {"parsed", "connected"} /\ pc' = "done"
      /\ class = "MySqlHttpData" => pc = "connected"
      /\ UNCHANGED <<text, class, sendflag, errorcode, value>>
      /\ payloadbuf = <<>> /\ payloadbuf' = payloadbuf \o parts /\ result' = r
  BY DEF Ready, Return, Answered
<1>2. payloadbuf' = parts
  <2> DEFINE Parts == AuthParts \cup (ErrorCodes \ {"kNullError"})
  <2>1. CASE parts = <<>>
    <3>1. <<>> \in Seq(Parts) /\ payloadbuf' = <<>> \o <<>>
      BY <1>1, <2>1
    <3> QED BY <2>1, <3>1, ConcatEmptySeq
  <2>2. ASSUME NEW part \in Parts, parts = <<part>> PROVE payloadbuf' = parts
    <3>1. parts \in Seq(Parts)
      BY <2>2
    <3>2. payloadbuf' = <<>> \o parts
      BY <1>1
    <3> QED BY <3>1, <3>2, ConcatEmptySeq
  <2> QED BY <2>1, <2>2
<1>3. MySqlTypeOK' /\ BuffersFit'
  <2>1. payloadbuf' \in Seq(AuthParts \cup (ErrorCodes \ {"kNullError"}))
    <3>1. CASE parts = <<>>
      BY <1>2, <3>1
    <3>2. ASSUME NEW part \in AuthParts \cup (ErrorCodes \ {"kNullError"}),
                 parts = <<part>>
          PROVE  payloadbuf' \in Seq(AuthParts \cup (ErrorCodes \ {"kNullError"}))
      BY <1>2, <3>2
    <3> QED BY <3>1, <3>2
  <2> QED BY <1>1, <2>1 DEF MySqlTypeOK, TypeOK, BuffersFit
<1>4. Flow'
  BY <1>1 DEF Flow, Activation, Items, Parsing
<1>5. IdsChecked'
  <2>1. (Asked' <=> Asked) /\ \A j \in Items : ItemLen(j)' = ItemLen(j)
    BY <1>1 DEF Asked, ItemLen
  <2>2. \A j \in Items : Behind(j)' => Behind(j)
    BY <1>1, <2>1 DEF Behind
  <2> QED BY <1>1, <2>1, <2>2 DEF IdsChecked, Items
<1>6. ErrorsTrue'
  BY <1>1 DEF ErrorsTrue, ItemLen
<1>7. Connected'
  BY <1>1 DEF Connected
<1>8. Answered'
  <2>1. Asked /\ class = "MySqlHttpData" => found = "table"
    BY <1>1 DEF Connected
  <2>2. \A part : PartAsked(part)' <=> PartAsked(part)
    BY <1>1 DEF PartAsked, Asked
  <2>3. (Activation' <=> Activation) /\ (Asked' <=> Asked)
    BY <1>1 DEF Activation, Asked
  <2>4. \/ payloadbuf' = <<>> /\ result' # "TRUE"
        \/ \E part \in AuthParts \cup ErrorCodes :
              payloadbuf' = <<part>> /\ PartAsked(part)'
    BY <1>1, <1>2, <2>2
  <2> QED BY <1>1, <2>1, <2>3, <2>4 DEF Answered
<1> QED BY <1>3, <1>4, <1>5, <1>6, <1>7, <1>8

LEMMA ByItemPart ==
    \/ ByItem = <<>> /\ \A i \in {"STBID", "ChipID", "MAC"} : value[i] = 0
    \/ \E i \in {"STBID", "ChipID", "MAC"} : ByItem = <<i>>
BY DEF ByItem, Sent

LEMMA BuildStep ==
    ASSUME QueryInv, Build, UNCHANGED found PROVE QueryInv'
<1> USE DEF QueryInv
<1>1. CASE BuildErrorPayLoad
  <2>1. sendflag = "kErrorFlag" /\ errorcode # "kNullError" /\ errorcode \in ErrorCodes /\ Ready
    BY <1>1 DEF BuildErrorPayLoad, Flow, MySqlTypeOK, TypeOK
  <2>2. Return(<<errorcode>>, "TRUE")
    BY <1>1, <2>1 DEF BuildErrorPayLoad
  <2>3. PartAsked(errorcode)
    BY <2>1 DEF PartAsked
  <2> QED BY <2>1, <2>2, <2>3, QueryReturns
<1>2. CASE BuildNothing
  <2>1. Ready /\ sendflag = "kNullFlag" /\ Return(<<>>, "FALSE") /\ ~Parsing
    BY <1>2 DEF BuildNothing, Ready, Parsing, Items
  <2> QED BY <2>1, QueryReturns DEF Flow
<1>3. CASE BuildSum
  <2>1. Ready /\ Return(<<"AuthSum">>, "TRUE") /\ PartAsked("AuthSum")
    BY <1>3 DEF BuildSum, PartAsked, AuthParts, Asked
  <2> QED BY <2>1, QueryReturns DEF AuthParts
<1>4. CASE BuildState
  <2>1. /\ Ready /\ sendflag = "kQueryAuthState"
        /\ Return(ByItem, IF ByItem = <<>> THEN "FALSE" ELSE "TRUE")
    BY <1>4 DEF BuildState
  <2>2. PICK i \in {"STBID", "ChipID", "MAC"} : ByItem = <<i>>
    BY <2>1, ByItemPart DEF IdsChecked
  <2>3. Return(<<i>>, "TRUE")
    BY <2>1, <2>2
  <2>4. PartAsked(i) /\ i \in AuthParts
    BY <2>1 DEF PartAsked, AuthParts, Asked
  <2> QED BY <2>1, <2>3, <2>4, QueryReturns
<1> QED BY <1>1, <1>2, <1>3, <1>4 DEF Build

LEMMA CountedStep ==
    ASSUME QueryInv, MySqlBuildSum \/ BuildStateByStbId PROVE QueryInv'
<1>1. PICK part \in {"AuthSum", "STBID"} :
        Ready /\ class = "MySqlHttpData" /\ Asked /\ Counted(part) /\ UNCHANGED found
  BY DEF MySqlBuildSum, BuildStateByStbId, Asked
<1>2. PartAsked(part) /\ part \in AuthParts
  BY <1>1 DEF PartAsked, AuthParts
<1>3. CASE Return(<<>>, "FALSE")
  BY <1>1, <1>3, QueryReturns
<1>4. ASSUME NEW r \in {"TRUE", "FALSE"}, Return(<<part>>, r) PROVE QueryInv'
  BY <1>1, <1>2, <1>4, QueryReturns
<1> QED BY <1>1, <1>3, <1>4 DEF Counted

LEMMA QueryNext ==
    ASSUME LengthsAreNumbers, QueryInv, [Next]_allvars PROVE QueryInv'
<1>1. CASE UNCHANGED allvars
  BY <1>1 DEF allvars, vars, QueryInv, MySqlTypeOK, TypeOK, BuffersFit, Flow, IdsChecked,
     ErrorsTrue, Connected, Answered, Parsing, Asked, Activation, Behind, PartAsked, ItemLen
<1>2. CASE Parse /\ UNCHANGED found
  BY <1>2, HeadStep, ItemStep DEF Parse
<1>3. CASE Build /\ UNCHANGED found
  BY <1>3, BuildStep
<1>4. CASE ConnectDatabase
  BY <1>4, QueryLookup
<1>5. CASE MySqlBuildSum \/ BuildStateByStbId
  BY <1>5, CountedStep
<1> QED BY <1>1, <1>2, <1>3, <1>4, <1>5 DEF Next, Done, allvars

LEMMA QueryAlways == ASSUME LengthsAreNumbers PROVE Spec => []QueryInv
<1>1. MySqlInit => QueryInv
  BY QueryInit
<1>2. QueryInv /\ [Next]_allvars => QueryInv'
  BY QueryNext
<1> QED BY <1>1, <1>2, PTL DEF Spec

-----------------------------------------------------------------------------
(* Well-typed after any text and any failing call.                         *)
THEOREM QueryTypeCorrect == ASSUME LengthsAreNumbers PROVE Spec => []MySqlTypeOK
<1>1. QueryInv => MySqlTypeOK
  BY DEF QueryInv
<1> QED BY <1>1, QueryAlways, PTL

(* No text of any length overruns a member.                                *)
THEOREM NoOverrun == ASSUME LengthsAreNumbers PROVE Spec => []BuffersFit
<1>1. QueryInv => BuffersFit
  BY DEF QueryInv
<1> QED BY <1>1, QueryAlways, PTL

(* A handled request has one answer, however many items it names.          *)
THEOREM HandledOnce == ASSUME LengthsAreNumbers PROVE Spec => []OneAnswer
<1>1. QueryInv => OneAnswer
  BY DEF QueryInv, Answered, OneAnswer
<1> QED BY <1>1, QueryAlways, PTL

(* A length error is true of the text.                                     *)
THEOREM TrueErrors == ASSUME LengthsAreNumbers PROVE Spec => []LengthErrorTrue
<1>1. QueryInv => LengthErrorTrue
  <2> SUFFICES ASSUME QueryInv PROVE LengthErrorTrue
    OBVIOUS
  <2>1. ASSUME NEW e \in ErrorCodes, payloadbuf = <<e>> PROVE errorcode = e
    BY <2>1 DEF QueryInv, Answered, PartAsked, AuthParts, ErrorCodes
  <2> QED BY <2>1 DEF QueryInv, ErrorsTrue, LengthErrorTrue, ErrorCodes
<1> QED BY <1>1, QueryAlways, PTL

(* Nobody learns a sum or a state without a proper project and vendor.     *)
THEOREM IdsNeeded == ASSUME LengthsAreNumbers PROVE Spec => []AuthNeedsIds
<1>1. QueryInv => AuthNeedsIds
  <2> SUFFICES ASSUME QueryInv, NEW n \in DOMAIN payloadbuf, payloadbuf[n] \in AuthParts
               PROVE  Asked
    BY DEF AuthNeedsIds, QueryInv, IdsChecked, Behind
  <2>1. PICK part : payloadbuf = <<part>> /\ PartAsked(part)
    BY DEF QueryInv, Answered
  <2>2. part \in AuthParts
    BY <2>1
  <2> QED BY <2>1, <2>2 DEF PartAsked, QueryInv, MySqlTypeOK, TypeOK, AuthParts, ErrorCodes
<1> QED BY <1>1, QueryAlways, PTL

(* ... and a MySqlHttpData tells only what its lookup found.               *)
THEOREM FromTable == ASSUME LengthsAreNumbers PROVE Spec => []AnswerFromTable
<1>1. QueryInv => AnswerFromTable
  <2> SUFFICES ASSUME QueryInv, NEW n \in DOMAIN payloadbuf, payloadbuf[n] \in AuthParts
               PROVE  Asked /\ payloadbuf # <<>>
    BY DEF AnswerFromTable, QueryInv, IdsChecked, Behind, Answered
  <2>1. PICK part : payloadbuf = <<part>> /\ PartAsked(part)
    BY DEF QueryInv, Answered
  <2>2. part \in AuthParts
    BY <2>1
  <2> QED BY <2>1, <2>2 DEF PartAsked, QueryInv, MySqlTypeOK, TypeOK, AuthParts, ErrorCodes
<1> QED BY <1>1, QueryAlways, PTL

(* HttpData leaves only activation requests without an answer.             *)
THEOREM SilentActivation == ASSUME LengthsAreNumbers PROVE Spec => []SilentOnlyActivation
<1>1. QueryInv => SilentOnlyActivation
  BY DEF QueryInv, Answered, Activation, SilentOnlyActivation
<1> QED BY <1>1, QueryAlways, PTL
=============================================================================
