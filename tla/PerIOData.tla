------------------------------ MODULE PerIOData ------------------------------
(***************************************************************************)
(* The heap of PerIOData objects: one overlapped structure, its operation  *)
(* type, its buffer and (for an accept) its pre-created socket.  A cell is *)
(* an address the allocator can hand out: a freed cell can be handed out   *)
(* again at once, also when a completion packet still leads to it.         *)
(*                                                                         *)
(* Buffers hold tokens, not characters.  A request is a head token and     *)
(* "END" (the \r\n\r\n that closes it): "GET" heads a GET that HttpData    *)
(* answers, "ACT" a GET of an activation query, which it does not answer   *)
(* (its handlers are empty), "RAW" text without GET.                       *)
(***************************************************************************)
EXTENDS Naturals, Sequences

CONSTANTS Cells,    \* addresses of PerIOData objects
          Socks,    \* SOCKET values
          NoSock    \* INVALID_SOCKET

ASSUME HeapAssumption == Cells # {} /\ NoSock \notin Socks

VARIABLES live,          \* cells that are allocated
          op,            \* operationtype of each cell
          buf,           \* databuf of each cell
          acceptsocket   \* acceptsocket of each cell

heapVars == <<live, op, buf, acceptsocket>>

ACCEPT_POSTED == "ACCEPT_POSTED"
RECV_POSTED   == "RECV_POSTED"
SEND_POSTED   == "SEND_POSTED"
NULL_POSTED   == "NULL_POSTED"

OpTypes == {ACCEPT_POSTED, RECV_POSTED, SEND_POSTED, NULL_POSTED}
Heads   == {"GET", "ACT", "RAW"}
Tokens  == Heads \cup {"END"}

HeapInit ==
    /\ live = {}
    /\ op = [c \in Cells |-> NULL_POSTED]
    /\ buf = [c \in Cells |-> <<>>]
    /\ acceptsocket = [c \in Cells |-> NoSock]

HeapTypeOK ==
    /\ live \subseteq Cells
    /\ op \in [Cells -> OpTypes]
    /\ buf \in [Cells -> Seq(Tokens)]
    /\ acceptsocket \in [Cells -> Socks \cup {NoSock}]

-----------------------------------------------------------------------------
(* new PerIOData(): a zeroed buffer.  The caller posts an operation on the *)
(* object at once and so gives it its operationtype and acceptsocket.      *)
GetNewIOData(c) ==
    /\ live' = live \cup {c}
    /\ buf' = [buf EXCEPT ![c] = <<>>]

(* delete periodata, under the heap mutex: the fields stay in the block.   *)
RemoveIOData(c) ==
    /\ live' = live \ {c}
    /\ UNCHANGED <<op, buf, acceptsocket>>

(* What reading operationtype through a pointer to c can give: the field   *)
(* of the object that is there now, which need not be the one the pointer  *)
(* was made for; in a freed block the field as it was left or the fill     *)
(* pattern of the allocator, no known type.                                *)
TypeRead(c) == IF c \in live THEN {op[c]} ELSE {op[c], NULL_POSTED}
=============================================================================
