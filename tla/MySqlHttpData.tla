---------------------------- MODULE MySqlHttpData ----------------------------
(***************************************************************************)
(* HttpData on a MySQL database.  The database of the project and the      *)
(* table of the vendor are looked up before the payload is built; the sum  *)
(* and the state by STBID are counted in that table.  Any call may fail.   *)
(***************************************************************************)
EXTENDS HttpData

VARIABLE found    \* which names the lookup found: "none", "project", "table"

allvars == <<vars, found>>

MySqlInit   == Init /\ found = "none"
MySqlTypeOK == TypeOK /\ found \in {"none", "project", "table"}

(* Mutant: names that are not found leave the flags alone.                 *)
NotFoundIgnored(e) == UNCHANGED <<sendflag, errorcode>>

(* An unknown project or vendor replaces what the parser found out.        *)
NotFound(e) == sendflag' = "kErrorFlag" /\ errorcode' = e

(* It connects whatever the parser found.  The query for the table is not  *)
(* restricted to the project's database.                                   *)
ConnectDatabase ==
    /\ class = "MySqlHttpData" /\ pc = "parsed"
    /\ \/ /\ pc' = "connected"
          /\ \/ found' = "none"    /\ NotFound("kProjectIDIsWrong")
             \/ found' = "project" /\ NotFound("kVendorIDIsWrong")
             \/ found' = "table"   /\ UNCHANGED <<sendflag, errorcode>>
          /\ UNCHANGED result
       \/ /\ pc' = "done" /\ result' = "FALSE"
          /\ found' \in {"none", "project"}
          /\ UNCHANGED <<sendflag, errorcode>>
    /\ UNCHANGED <<text, class, value, payloadbuf>>

(* Nothing on a failed call; the name without a number when _itoa_s finds  *)
(* the number too long.                                                    *)
Counted(part) ==
    \/ Return(<<>>, "FALSE")
    \/ Return(<<part>>, "FALSE")
    \/ Return(<<part>>, "TRUE")

MySqlBuildSum ==
    /\ Ready /\ class = "MySqlHttpData"
    /\ sendflag = "kQueryAuthSum"
    /\ Counted("AuthSum") /\ UNCHANGED found

(* BuildQueryAuthPayLoadByStbId.  No row is a failure too.                 *)
BuildStateByStbId ==
    /\ Ready /\ class = "MySqlHttpData"
    /\ sendflag = "kQueryAuthState" /\ ByItem = <<"STBID">>
    /\ Counted("STBID") /\ UNCHANGED found

Next ==
    \/ (Parse \/ Build) /\ UNCHANGED found
    \/ ConnectDatabase
    \/ MySqlBuildSum
    \/ BuildStateByStbId
    \/ Done /\ UNCHANGED found

Spec == MySqlInit /\ [][Next]_allvars

-----------------------------------------------------------------------------
(* What a MySqlHttpData says about authorisation comes from a project and  *)
(* a vendor that the lookup found and the parser accepted.                 *)
AnswerFromTable ==
    class = "MySqlHttpData" /\ (\E n \in DOMAIN payloadbuf : payloadbuf[n] \in AuthParts)
        => found = "table" /\ value["ProjectID"] # 0 /\ value["VendorID"] # 0
=============================================================================
