------------------------------ MODULE HttpData ------------------------------
(***************************************************************************)
(* One request of a set-top box: the text behind the '?' of its GET is     *)
(* parsed item by item, and a payload is chosen.  Values are modelled by   *)
(* their lengths; the items and their order in the text matter, and where  *)
(* an '&' is missing, since a value extends to the next '&'.               *)
(*                                                                         *)
(* sscanf_s is called without the size of its buffer.  Whatever it finds   *)
(* instead is large enough or not, and then it stores an empty string.     *)
(***************************************************************************)
EXTENDS Naturals, Sequences

CONSTANTS Texts,     \* the texts that clients send
          Classes    \* HttpData, or its derived class MySqlHttpData

Items == {"ProjectID", "VendorID", "STBID", "ChipID", "MAC"}

(* head: what the text starts with.  type: the value of Query=, followed   *)
(* by an '&' or not.  fields: the rest.                                    *)
Field == [item: Items, len: Nat, amp: BOOLEAN]
Text  == [head: {"Query", "Activate", "other"}, type: {"", "0", "1", "9", "00"},
          amp: BOOLEAN, fields: Seq(Field)]

ASSUME TextAssumption ==
    /\ \A t \in Texts : t \in Text
    /\ Classes \subseteq {"HttpData", "MySqlHttpData"}

VARIABLES text, class,
          pc,          \* the method that comes next
          sendflag, errorcode,
          value,       \* length of the string in projectid ... macaddr
          payloadbuf,  \* the parts of the payload
          result       \* what HandleHttpData returns

vars == <<text, class, pc, sendflag, errorcode, value, payloadbuf, result>>

SendFlags  == {"kErrorFlag", "kQueryAuthState", "kQueryAuthSum", "kNullFlag"}
ErrorCodes == {"kNoField", "kQueryLenIsWrong", "kQueryNumberUndefine",
               "kNoProjectID", "kProjectIDIsWrong", "kNoVendorID",
               "kVendorIDIsWrong", "kProjectIDTooLong", "kVendorIDTooLong",
               "kSTBIDTooLong", "kChipIDTooLong", "kMACLenIsWrong", "kNullError"}
AuthParts  == {"AuthSum", "STBID", "ChipID", "MAC"}

Init ==
    /\ text \in Texts /\ class \in Classes
    /\ pc = "ParseRecvBuf"
    /\ sendflag = "kNullFlag" /\ errorcode = "kNullError"
    /\ value = [i \in Items |-> 0]
    /\ payloadbuf = <<>>
    /\ result = "none"

TypeOK ==
    /\ text \in Texts /\ class \in Classes
    /\ pc \in {"ParseRecvBuf", "ParseQuery", "parsed", "connected", "done"} \cup Items
    /\ sendflag \in SendFlags /\ errorcode \in ErrorCodes
    /\ value \in [Items -> Nat]
    /\ payloadbuf \in Seq(AuthParts \cup (ErrorCodes \ {"kNullError"}))
    /\ result \in {"none", "TRUE", "FALSE"}

-----------------------------------------------------------------------------
(* The bytes the members hold besides the closing NUL.                     *)
Capacity == [ProjectID |-> 8, VendorID |-> 8, STBID |-> 32, ChipID |-> 32, MAC |-> 12]

(* Length of "ProjectID=" and so on.                                       *)
NameLen == [ProjectID |-> 10, VendorID |-> 9, STBID |-> 6, ChipID |-> 7, MAC |-> 4]

(* Length of the value that starts in field n: up to the next '&'.         *)
ValueLen(fs) ==
    LET f[n \in 1..Len(fs)] ==
            IF fs[n].amp \/ n = Len(fs) THEN fs[n].len
            ELSE fs[n].len + NameLen[fs[n + 1].item] + f[n + 1]
    IN f

(* strstr finds the first field of the name, also inside another value.    *)
LenIn(t, i) ==
    LET fs == t.fields
        at == {n \in DOMAIN fs : fs[n].item = i}
    IN IF at = {} THEN 0
       ELSE ValueLen(fs)[CHOOSE n \in at : \A m \in at : n <= m]

ItemLen(i) == LenIn(text, i)

(* So it is of any Text: a sum of lengths of values and names.             *)
LengthsAreNumbers == \A t \in Texts, i \in Items : LenIn(t, i) \in Nat

(* What sscanf_s makes of a value of length n.                             *)
Scanned(n) == {n, 0}

-----------------------------------------------------------------------------
(* The parser ends with an error.                                          *)
Error(e) == sendflag' = "kErrorFlag" /\ errorcode' = e /\ pc' = "parsed"

(* Mutant: an unknown head sets no error.                                  *)
ParseRecvBufSilent ==
    /\ pc = "ParseRecvBuf"
    /\ pc' = IF text.head = "Query" THEN "ParseQuery" ELSE "parsed"
    /\ UNCHANGED <<text, class, sendflag, errorcode, value, payloadbuf, result>>

(* ParseActivate is empty.                                                 *)
ParseRecvBuf ==
    /\ pc = "ParseRecvBuf"
    /\ \/ /\ text.head = "Query"
          /\ pc' = "ParseQuery" /\ UNCHANGED <<sendflag, errorcode>>
       \/ /\ text.head = "Activate"
          /\ pc' = "parsed" /\ UNCHANGED <<sendflag, errorcode>>
       \/ text.head = "other" /\ Error("kNoField")
    /\ UNCHANGED <<text, class, value, payloadbuf, result>>

(* The type as sscanf_s reads it; "00" stands for any longer text.         *)
TypesScanned ==
    {"", IF text.amp \/ text.fields = <<>> THEN text.type ELSE "00"}

(* ParseQueryActivate is empty.                                            *)
ParseQuery ==
    /\ pc = "ParseQuery"
    /\ \E type \in TypesScanned :
          \/ type \in {"", "00"} /\ Error("kQueryLenIsWrong")
          \/ type = "0" /\ pc' = "ProjectID" /\ UNCHANGED <<sendflag, errorcode>>
          \/ type = "1" /\ pc' = "parsed" /\ UNCHANGED <<sendflag, errorcode>>
          \/ type = "9" /\ Error("kQueryNumberUndefine")
    /\ UNCHANGED <<text, class, value, payloadbuf, result>>

-----------------------------------------------------------------------------
(* The limits that ParseQueryAuth compares with.                           *)
FitsOffByOne(i, n) == IF i = "MAC" THEN n \in {0, 12} ELSE n <= Capacity[i] + 1
Fits(i, n) ==
    CASE i \in {"ProjectID", "VendorID"} -> ~(8 < n)
      [] i \in {"STBID", "ChipID"}       -> ~(32 < n)
      [] i = "MAC"                       -> ~(12 # n /\ 0 # n)

(* Mutant: the code of the item above.                                     *)
TooLongOfProject(i) == IF i = "MAC" THEN "kMACLenIsWrong" ELSE "kProjectIDTooLong"

TooLong(i) ==
    CASE i = "ProjectID" -> "kProjectIDTooLong"
      [] i = "VendorID"  -> "kVendorIDTooLong"
      [] i = "STBID"     -> "kSTBIDTooLong"
      [] i = "ChipID"    -> "kChipIDTooLong"
      [] i = "MAC"       -> "kMACLenIsWrong"

(* Mutant: an empty VendorID is no error.                                  *)
MissingProject(i) == IF i = "ProjectID" THEN {"kNoProjectID"} ELSE {}

(* The error of an empty item, if it must not be empty.                    *)
Missing(i) == CASE i = "ProjectID" -> {"kNoProjectID"}
                [] i = "VendorID"  -> {"kNoVendorID"}
                [] OTHER           -> {}

NextItem == [ProjectID |-> "VendorID", VendorID |-> "STBID",
             STBID |-> "ChipID", ChipID |-> "MAC", MAC |-> "parsed"]

(* ParseQueryAuth, one item: ParseItem into a temporary buffer, the length *)
(* checks, the copy; after the last one, what the client wants to know.    *)
ParseItem(i) ==
    /\ pc = i
    /\ \E n \in Scanned(ItemLen(i)) :
          \/ ~Fits(i, n) /\ Error(TooLong(i)) /\ UNCHANGED value
          \/ /\ Fits(i, n)
             /\ value' = [value EXCEPT ![i] = n]
             /\ IF n = 0 /\ Missing(i) # {}
                THEN \E e \in Missing(i) : Error(e)
                ELSE /\ pc' = NextItem[i]
                     /\ sendflag' =
                          IF i # "MAC" THEN sendflag
                          ELSE IF \A j \in {"STBID", "ChipID", "MAC"} : value'[j] = 0
                               THEN "kQueryAuthSum" ELSE "kQueryAuthState"
                     /\ UNCHANGED errorcode
    /\ UNCHANGED <<text, class, payloadbuf, result>>

-----------------------------------------------------------------------------
(* The parser is done, and so is the lookup of a class that has one.       *)
Ready == pc = IF class = "MySqlHttpData" THEN "connected" ELSE "parsed"

Return(parts, r) ==
    /\ payloadbuf' = payloadbuf \o parts
    /\ result' = r
    /\ pc' = "done"
    /\ UNCHANGED <<text, class, sendflag, errorcode, value>>

BuildErrorPayLoad ==
    /\ Ready
    /\ sendflag = "kErrorFlag"
    /\ IF errorcode = "kNullError" THEN Return(<<>>, "FALSE")
                                   ELSE Return(<<errorcode>>, "TRUE")

(* Mutant: no flag is answered as an error.                                *)
BuildNothingAsError ==
    /\ Ready
    /\ sendflag = "kNullFlag"
    /\ Return(<<errorcode>>, "TRUE")

(* BuildPayLoad for a flag that the parser left as it was.                 *)
BuildNothing ==
    /\ Ready
    /\ sendflag = "kNullFlag"
    /\ Return(<<>>, "FALSE")

(* BuildQueryAuthSumPayLoad.                                               *)
BuildSum ==
    /\ Ready /\ class = "HttpData"
    /\ sendflag = "kQueryAuthSum"
    /\ Return(<<"AuthSum">>, "TRUE")

Sent(i) == IF value[i] # 0 THEN <<i>> ELSE <<>>

(* Mutant: the returns between the items are missing.                      *)
ByItemAll == Sent("STBID") \o Sent("ChipID") \o Sent("MAC")

(* BuildQueryAuthStatePayLoad answers by the first item that was sent.     *)
ByItem == IF value["STBID"] # 0 THEN Sent("STBID")
          ELSE IF value["ChipID"] # 0 THEN Sent("ChipID") ELSE Sent("MAC")

(* By STBID, a MySqlHttpData asks its database.                            *)
BuildState ==
    /\ Ready
    /\ sendflag = "kQueryAuthState"
    /\ class = "HttpData" \/ ByItem # <<"STBID">>
    /\ Return(ByItem, IF ByItem = <<>> THEN "FALSE" ELSE "TRUE")

Parse == ParseRecvBuf \/ ParseQuery \/ \E i \in Items : ParseItem(i)
Build == BuildErrorPayLoad \/ BuildNothing \/ BuildSum \/ BuildState
Done  == pc = "done" /\ UNCHANGED vars

-----------------------------------------------------------------------------
(* Every string fits the member it is copied into, after any text and      *)
(* whatever sscanf_s makes of it.                                          *)
BuffersFit == \A i \in Items : value[i] <= Capacity[i]

(* A request that HandleHttpData reports as handled has exactly one part   *)
(* in its payload: an error, a sum, or the state by one item.              *)
OneAnswer == result = "TRUE" => Len(payloadbuf) = 1

(* A length error in the answer is true of the text that was sent, and the *)
(* items that BuildPayLoad would have needed before it were fine.          *)
LengthErrorTrue ==
    LET Answer(e) == payloadbuf = <<e>>
    IN /\ Answer("kProjectIDTooLong") => ItemLen("ProjectID") > 8
       /\ Answer("kVendorIDTooLong") =>
            ItemLen("VendorID") > 8 /\ ItemLen("ProjectID") \in 1..8
       /\ Answer("kSTBIDTooLong") =>
            ItemLen("STBID") > 32 /\ ItemLen("VendorID") \in 1..8
       /\ Answer("kChipIDTooLong") =>
            ItemLen("ChipID") > 32 /\ ItemLen("VendorID") \in 1..8
       /\ Answer("kMACLenIsWrong") =>
            ItemLen("MAC") \notin {0, 12} /\ ItemLen("VendorID") \in 1..8

(* Only a query with a proper project and vendor gets to know a sum or a   *)
(* state, whatever else is in its text and wherever an '&' is missing.     *)
AuthNeedsIds ==
    (\E n \in DOMAIN payloadbuf : payloadbuf[n] \in AuthParts) =>
        /\ text.head = "Query" /\ text.type = "0"
        /\ ItemLen("ProjectID") \in 1..8 /\ ItemLen("VendorID") \in 1..8

(* HttpServer, which has no database, closes nothing and sends nothing     *)
(* when HandleHttpData fails; that is so for activation requests only.     *)
SilentOnlyActivation ==
    class = "HttpData" /\ result = "FALSE" =>
        text.head = "Activate" \/ (text.head = "Query" /\ text.type = "1")
=============================================================================
