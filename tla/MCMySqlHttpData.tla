--------------------------- MODULE MCMySqlHttpData ---------------------------
(* Texts with every item absent, empty, at its limit and past it, in the   *)
(* documented order or with MAC after ProjectID, and at most one '&' gone. *)
EXTENDS MySqlHttpData

CONSTANT Absent

Lens == [ProjectID |-> {Absent, 0, 1, 8, 9}, VendorID |-> {Absent, 0, 8, 9},
         STBID |-> {Absent, 32, 33}, ChipID |-> {Absent, 32, 33},
         MAC |-> {Absent, 3, 12, 13}]

Orders == {<<"ProjectID", "VendorID", "STBID", "ChipID", "MAC">>,
           <<"ProjectID", "MAC", "VendorID", "STBID", "ChipID">>}

(* The fields of the items that are present; the gone-th has no '&'.       *)
FieldsOf(order, len, gone) ==
    LET present == SelectSeq(order, LAMBDA i : len[i] # Absent)
    IN [n \in DOMAIN present |->
          [item |-> present[n], len |-> len[present[n]], amp |-> n # gone]]

Choices == {len \in [Items -> UNION {Lens[i] : i \in Items}] :
               \A i \in Items : len[i] \in Lens[i]}

AuthTexts ==
    {[head |-> "Query", type |-> "0", amp |-> TRUE, fields |-> FieldsOf(o, len, gone)] :
        o \in Orders, len \in Choices, gone \in 0..4}

(* Every head and type before a good list of items and before none.        *)
HeadTexts ==
    LET good == FieldsOf(<<"ProjectID", "VendorID">>, [i \in Items |-> 8], 0)
    IN [head : {"Query", "Activate", "other"}, type : {"", "0", "1", "9", "00"},
        amp : BOOLEAN, fields : {<<>>, good}]

MCTexts == AuthTexts \cup HeadTexts

ASSUME MCLengths == LengthsAreNumbers
=============================================================================
