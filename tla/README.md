# A TLA+ model of AMSServer

AMSServer is a Windows program: an MFC window that starts and stops a small
HTTP server built on an I/O completion port. Set-top boxes ask it, with a GET
whose query names a project and a vendor, whether they are authorised.

This directory holds TLA+ modules that model its core, TLC configurations that
check them on small instances, and proofs checked by TLAPS.

## 1. Inventory

| Part | State | Operations | Talks to |
|---|---|---|---|
| `PerIOData`, `SocketHandle` | one heap object per overlapped operation: OVERLAPPED, operation type, buffer, received length, accept socket; one `SocketHandle` per socket, the completion key | constructor, `ResetIOBuf`, `ResetOverLapped`, `GetNewIOData`, `RemoveIOData` | handlers; the kernel, through the overlapped structure |
| `IOCPServer` | completion port, listen socket, worker threads | `Start`, `Stop`, `WorkerThread`, `PostAcceptEx`, `DoAcceptEx`, `PostRecv`, (overridden) `DoRecv`, `PostSend` | the kernel through the port; the GUI thread that starts and stops it |
| `HttpServer` | none of its own | `DoRecv`, `CheckRecvBufEnd`, `BuildSend`, `PostSend` | `HttpData` for the payload |
| `HttpData` | the parsed query of one request | `ParseRecvBuf` and the parsers below it, `BuildPayLoad` | `HttpServer` |
| `MySqlHttpData` | a database connection per request | `ConnectDatabase`, `BuildQueryAuth...` | MySQL; derived from `HttpData`, not created by `HttpServer` |
| `MFCMainGUI`, `MFCLoginGUI`, `MFCAPP` | `serverruning`, the buttons, the input fields | start, stop, submit, choose file, close; login | `IOCPServer::Start` and `Stop`, on the GUI thread |
| `_tmain`, `FileLog`, `HeapProtectMutex` | two singletons, the log file with its pointer, two mutexes and their owners | create, open, delete; log a line; lock around some new and delete | every thread |
| `SSLserver`, `MySqlHandle` | | unfinished, not called | |

What is hard in it, and what makes each part correct:

* **Ownership without locks.** Up to eight workers take packets off one port.
  Handlers lock neither the connection nor the `PerIOData` object. They are
  apart only because each object is named by one outstanding operation, or by
  one packet, or held by one handler. `PostSend` breaks the rule that an
  object in use by the kernel is not released: it deletes the object while its
  send is under way, and right after it `DoRecv` allocates another of the same
  size in the same thread. The packet of the send then names a block that is
  free, or holds another object. If that object is a receive or an accept, the
  packet is *misread*: a handler runs that nobody asked for. `reuse` shows what
  follows, a crash, and section 3 what else. That nothing else in the code leads there is the
  core property: until the first packet is misread, ownership holds
  (`ExclusiveIO`), only sends ever lose their object (`OnlySendsDangle`), and a
  crash needs a misread packet (`CrashNeedsMisread`). All three are proved.
* **Loops that must not break.** Each accept is posted by the handler of the
  one before (`AcceptPool`, `ClientAccepted`), and each receive by the handler
  of the one before (`ReceivesOnce`, `RequestAnswered`). Every early return and
  every failed call is a place to lose a turn, and every extra post a place to
  double one.
* **One answer per request**, at most (`AtMostOneReply`), and one at all when
  nothing fails (`RequestAnswered`).
* **Stopping.** `Stop` posts one exit packet per worker into the same FIFO
  queue as the I/O, and waits for all workers without a limit on the GUI
  thread. Workers read the `completeport` field anew in each turn, and a failed
  or repeated `Start` overwrites it (`ImplementsLifecycle`, `ExitPerWorker`,
  `StopReturns`, `RunningServes`, `JoinsHandles`, `NoWorkerLeft`). And there is
  a way around `Stop`: `OnOk`, meant to swallow Enter, does not override the
  framework's `OnOK`, so Enter ends the dialog with the server running
  (`SingletonsAlive`).
* **Two mutexes and two singletons for all threads.** Whoever logs holds the
  log mutex over a seek and a write that may fail; the accept and receive
  paths hold the heap mutex over some of their new and delete, and log in
  between. A mutex that is kept, or a singleton deleted too early, stops or
  ends the process (`OwnersInside`, `SingletonsAlive`), and `Stop` must still
  return (`KeepsLifecycle`). Only some new and delete are
  under the mutex that shall protect all of them (`HeapSerialized`).
* **The query.** A value ends at the next `&`, wherever that is, and is copied
  into a member of 8, 12 or 32 bytes (`BuffersFit`). Each item has an error of
  its own (`LengthErrorTrue`), at most one item decides the answer
  (`OneAnswer`), nobody learns of an authorisation without a proper project
  and vendor (`AuthNeedsIds`, `AnswerFromTable`), and only activation requests,
  which are unfinished, stay without an answer (`SilentOnlyActivation`).

`PROJECT.json` lists the hazards at their lines, each with the properties that
cover it or the reason why none does.

## 2. Modules

```
PerIOData  <-  CompletionPort  <-  IOCPServer  <-  HttpServer  <-  MCHttpServer
                                                       ^
                                               HttpServerProofs   (types)
                                                       ^
                                               OwnershipProofs    (ownership)
                                                       ^
                              CountingProofs  <-  LoopProofs      (the two loops)
                                                       ^
                                                RequestProofs     (one request)

ServerLifecycle  <- (refinement) -  MFCMainGUI  <-  MCMFCMainGUI
                                      ^      ^
             CountingProofs  <-  MFCMainGUIProofs
                                      |      |
                                      |  AMSServer  <-  MCAMSServer
                                      |      ^
                                   ProcessProofs

HttpData  <-  MySqlHttpData  <-  MCMySqlHttpData
                   ^
              QueryProofs
```

The arrows of the first chain are EXTENDS: `HttpServer` derives from
`IOCPServer` in the code too, and the chain composes all of them with the
kernel and the clients into one next-state relation, `HttpServer!Next`.

**PerIOData** is the heap. A cell is an address; `live` says whether it is
allocated, and a freed cell keeps its fields, as a freed block does until it is
reused. Buffers hold tokens: the head of a
request (`GET`, `ACT` for an activation query, `RAW` for text without GET) and
`END` for the empty line that closes it.

**CompletionPort** is external: the kernel and the clients. An `Irp` is an
outstanding overlapped operation; `Complete` turns it into a packet at the end
of the FIFO port. Operations complete in any order, receives with a part of the
bytes that arrived (`split`) or all of them, with 0 bytes after a close, with
an error after a reset. `Fresh` is the allocator: any free block, also one that
an operation or a packet still names. A packet records which operation it
completes (`kind`), which the server cannot see.

**IOCPServer** is the worker loop up to its `switch` (`WorkerThread`), the
accept path and `PostRecv`. A handler is cut into steps at the calls whose
effect another thread or the kernel can see: post, delete, post again. A use of
freed memory that ends the process is the action `Crash`. `StartPost` is the
loop of `Start`; it runs beside the workers. Two history variables serve the
properties and are read by no action of the server: `reused`, the objects that
live in a block that was still named when it was handed out, and `misread`,
which becomes true when a worker takes a packet for one of another operation
because its object is no longer there.

**HttpServer** is the receive path: `DoRecv` (incomplete message, message
without GET, request), `PostSend`, the deletion at its end, and the next
receive. It also holds the properties.

**MFCMainGUI** is the life of the server: the dialogs, `Start` with each call
that can fail, `Stop`, and the workers between their packets. A worker's turn
with a packet, the whole of `HttpServer`, is here one `busy` period. Each
`Start` has a number, which names the port, the listen socket and the threads
it creates, so that an old worker, a stale handle and a leaked socket can be
told apart.

**ServerLifecycle** is the abstract specification: stopped, starting, running,
stopping, and the set of workers alive. `MFCMainGUI!ImplementsLifecycle` states
that the detailed module implements it, fairness included.

**AMSServer** is the process from `_tmain` on: the log and the mutex are
created, the dialogs run, both are deleted. It EXTENDS `MFCMainGUI` with all its
failures. Each step of the dialogs, of `Start` and `Stop`, and of a worker is
the step of `MFCMainGUI` joined with the calls that the code makes in it, which
a thread has in a list `todo`: log a line, lock, unlock, use the heap. A thread
goes on when its list is empty; a thread that ends has one last line to log,
and the wait of `Stop` is for that, too. A log line is two steps (wait; seek,
write and release) and so is a use of the heap, so that threads can meet in
them. `StatusFails` is the turn of a worker on a handle that is not open, which
logs its error. A thread that waits for the port when it is closed gets the
same error (`StopReturned`).

**HttpData** is one request. Its text is a head, a query type and a list of
items with the lengths of their values; whether an `&` follows is part of the
item, and `ValueLen` lets a value run on where it is missing. One action per
parser method and per item leads to a flag, and one action per builder to the
payload, a sequence of parts. **MySqlHttpData** adds `ConnectDatabase` between
parser and builders and overrides two of them; `class` says which of the two
classes handles the request, and `found` how far the lookup came. `HttpServer`
creates `HttpData` objects only, and uses of them whether there is an answer.

## 3. Runs

| Run | Question | Bounds, and distinct states |
|---|---|---|
| `safety` | ownership, the two loops and one answer per request, calls do not fail | 2 workers, 2 accepts, 1 client with 2 messages, pipelined, activation queries, close; 149,000 |
| `faults` | every call may fail; split messages, messages without GET, close, reset | 2 workers, 1 accept, 1 client with 2 messages; 832,000 |
| `live` | every request is answered, every connection accepted, no object left behind | 2 workers, 1 accept, 2 clients with 1 request; 73,000 |
| `lifecycle` | Start and Stop without failing calls, refinement and liveness; Enter may be pressed | 2 workers, 3 starts, I/O that keeps arriving; 25,000 |
| `guifaults` | in the whole process: any call of Start or any exit packet may fail, Enter may be pressed | 2 workers, 2 starts, 1 packet in the port, one script, explored while the dialogs are open; 2,158,000 |
| `query` | which texts get which answers, from both classes | every mix of absent, fitting and too long items, one `&` missing, two orders; every head and query type |
| `process` | singletons, mutexes and progress around the life of the server | 2 workers, 2 starts, a port that cannot be created, 1 packet in the port, one script; 130,000 |
| `reuse` | "MUST not force to release" an object in use, "just do it in the end of one io here": the delete in `PostSend` | violated: a handler crashes |
| `deaf` | "re post, if failed": a message without GET ends the receive loop of its connection | violated |
| `orphan` | "main thread can exit now!" after a failed Start | violated |
| `enter` | "Do nothing for Enter key"; "the singleton is NULL, and someone is accessing it!" | violated: a worker calls a deleted singleton |
| `heap` | the mutex that protects every new and delete | violated |

*Until a packet is misread.* `operator new` may return any free block in every
run. Most properties of the server are of the form `misread \/ ...`: they say
what holds up to the first packet that is misread, and promise nothing
afterwards, since then nothing is promised by the code either. The passing runs
therefore stop exploring there (`CONSTRAINT UntilMisread`): the state with the
misread packet itself is still checked, and what comes after it satisfies the
properties by their form. The same is true of the temporal properties of
`live`, whose conclusions allow `misread`; no behaviour that stays below the
constraint is cut. `CrashNeedsMisread` is what makes the form meaningful: there
is no other way into a crash. The violation runs have no constraint.

*Are the bounds enough?* Two workers are the least that can collide; with two
connections (`live`) or two messages (`safety`, `faults`) each handler meets
one in each other stage, which the counterexamples of the mutants confirm.
`MAX_POST_ACCEPT` is 100 in the code; with one accept and two clients the
second client depends on the repost, with two the loop of `Start` overlaps
with accepts. Objects, sockets and request packets are as many as the bounded
clients can use up: when they run out the model blocks, and TLC would report a
deadlock. The theorems of section 4 hold without
these bounds.

`Requests` is what a packet can ask of a worker: all six scripts in `enter` and
`heap`, the answer to a request, with its section under the heap mutex, in
`process`, a logged packet in `guifaults`, whose properties do not look at the
calls. The other scripts are made of the same calls; that no script keeps a
mutex or calls a deleted singleton is proved for all of them (section 4). One
restart lets a second generation of workers meet what the first has left;
with all scripts or more starts the liveness check takes too long.

`query` takes the lengths at and next to each limit, since only comparisons
with the limits look at them. The two orders put each item in front of a
longer and of a shorter one; `MAC=` and three characters still fit into a
project of eight that lost its `&`, so that an item inside another is there.

`guifaults` switches the deadlock check off: there a lost exit packet makes the
program hang in `Stop`. It explores no further when the dialogs are closed
(`CONSTRAINT DialogsOpen`): they stay closed, and its two invariants speak of
open ones. The violation runs of `AMSServer` do so for the bound
on starts.

*Symmetry.* `safety` and `faults` use the permutations of the workers.
Cells, request packets and sockets are picked by CHOOSE, since which free one
is taken is immaterial, so they are not symmetric. `live` uses no symmetry.

*Fairness.* Each worker and the GUI thread are scheduled (`WF` per thread, the
operating system's promise), and the kernel completes what it can. Clients,
the user and failing calls owe nothing. In the server modules no strong
fairness is needed: a packet in the port stays there until a worker takes it.
`AMSServer` has the same: `_tmain` runs on, the GUI thread runs on inside
`Start` and `Stop`, and each worker is scheduled. Only the calls of a thread
are strongly fair, since Windows serves the waiters of a mutex in turn; weak
fairness would let the others log for ever.

*What the runs show.* Without a failing call, and until a packet is misread,
the server keeps both loops exactly and answers every client that waits for its
answer. With failing calls it loses accepts and receives but never doubles one,
and ownership stays. The early delete of `PostSend` undoes all of this as soon
as the allocator returns the block while the packet of the send is queued
(`reuse`): it is one line (`HttpServer.cpp:191`), and the only one. Stop and
start are sound when no call fails. After any failure a server that is shown as
running has its port, its listen socket, and each worker that could be created;
that may be none, and its accepts may all have failed, so that it need not serve
anybody. The mutexes never hang a thread. The log and the heap mutex outlive
the other threads when each thread was created, no Start failed behind its port,
and the dialog ends through Stop; otherwise they need not (`enter`, and below).
The five violations are disagreements between the code and its own comments; the
findings in `PROJECT.json` quote them.

Further facts have no run of their own; each can be had by changing the named
configuration.

* *Answers that cross.* With `MaxClients = 2`, `MaxMsgs = 1` and the invariant
  `AnswersWhoAsked`, `reuse` is violated too. The packet of a finished
  send brings the handle of one client with the block that now holds the
  request of another, and the answer goes to the first.
* *A lost accept.* `AcceptPool` fails in `deaf` with `Env = {}` and
  `Faults = {"assoc"}`. `WorkerThread` says "JUST re post" of a failed
  `DoAcceptEx` (`IOCPServer.cpp:363`) and only logs; the return at line 499 comes
  before the post at line 520.
* *A leak at a close.* `NoOrphanIO` fails in `deaf` with `Env = {"close"}`: the
  branch at `IOCPServer.cpp:348`, under the comment "all normal handle and io
  free here", frees nothing.
* *A thread that could not be created.* With `"thread"` in place of `"enter"`,
  `SingletonsAlive` fails in `enter`, and in place of `"socket"`, `NoWorkerLeft`
  in `orphan`. `_beginthreadex` leaves 0 in `threadhandle`
  (`IOCPServer.cpp:184`), `WaitForMultipleObjects` (line 144) fails at once, and
  `Stop` closes the port under the workers that exist and returns. They get an
  error in each turn of their loop and log it, also when the log is deleted.
* *A split message.* With `split`, `RequestAnswered` fails in `live`: the rest
  of an incomplete message is received through a descriptor outside the object.
  The connection then has two receives under way, since `DoRecv` posts one on
  the old object and one on a new one (`HttpServer.cpp:92-104`).

## 4. Proofs

Each theorem holds for every value of the constants that satisfies what the
table names, and for an allocator that reuses blocks as it likes. All of them
are invariants except the last two. They cover every invariant of the passing
runs.

| Theorem | Property | Under |
|---|---|---|
| `HttpServerProofs!TypeCorrect` | `TypeOK` | |
| `OwnershipProofs!Ownership` | `ExclusiveIO` (until a packet is misread) | |
| `OwnershipProofs!SendsDangle` | `OnlySendsDangle` (the same) | |
| `OwnershipProofs!CrashByMisread` | `CrashNeedsMisread` | |
| `LoopProofs!AcceptsBounded` | `AcceptPoolBound` (until a packet is misread) | finitely many threads and request packets |
| `LoopProofs!AcceptsKept` | `AcceptPool` (the same) | the same, no failing call, no reset |
| `LoopProofs!ReceivesKept` | `ReceivesOnce` (the same) | the same, messages whole and with a GET |
| `RequestProofs!NoSecondReply` | `AtMostOneReply` (the same) | |
| `RequestProofs!NothingLost` | `NoOrphanIO` (the same) | no failing call, clients only ask |
| `MFCMainGUIProofs!TypeCorrect` | `TypeOK` | |
| `MFCMainGUIProofs!AlwaysServes` | `RunningServes` | |
| `MFCMainGUIProofs!Joins` | `JoinsHandles` | |
| `MFCMainGUIProofs!StopEndsWorkers` | `NoWorkerLeft` | no Start fails half-way, Enter not pressed (`Benign`) |
| `MFCMainGUIProofs!StopClosesAll` | `StopReleases` | the same |
| `MFCMainGUIProofs!OneExitEach` | `ExitPerWorker` | the same, and no exit packet is lost |
| `QueryProofs`: `QueryTypeCorrect`, `NoOverrun`, `HandledOnce`, `TrueErrors`, `IdsNeeded`, `FromTable`, `SilentActivation` | `MySqlTypeOK`, `BuffersFit`, `OneAnswer`, `LengthErrorTrue`, `AuthNeedsIds`, `AnswerFromTable`, `SilentOnlyActivation` | lengths are numbers |
| `ProcessProofs`: `ProcTypeCorrect`, `OwnersAreInside` | `ProcTypeOK`, `OwnersInside` | |
| `ProcessProofs!SingletonsOutlive` | `SingletonsAlive` | every thread created, no Start fails half-way, Enter not pressed (`Benign`) |
| `ProcessProofs!ProcRefinesGUI` | the process takes only the steps of `MFCMainGUI!Spec` | |
| `MFCMainGUIProofs!RefinesLifecycle` | the safety part of `ImplementsLifecycle` | `Benign` |

`HttpServerProofs`: `TypeOK` alone is not inductive. That `DoRecv` and
`PostSend` get a connection and never the listen handle as their key depends on
what is in the port, and that on the outstanding operations; `TypeInv` adds
this for operations, packets and workers. There is one lemma per action.

`OwnershipProofs`: the inductive invariant is `TypeInv` with `OwnInv`, that is
`misread \/ Own`. `Own` says that no object is named twice by accepts, receives
and their packets (`OneIrp`, `IrpOrPacket`, `OnePacket`); what an operation or
a packet names is, for an accept or a receive, alive and of its type, and for a
send gone, replaced, or still of type SEND (`KindKept`); and the object of a
handler in the send path has the type of a send (`HeldTyped`). Here lies the
argument about the early deletion: a packet of a send names a block that is
free, whose type reads SEND or nothing known and is only logged, or one in
`reused`, and then reading another type is what `misread` records. `reused` is
what lets the invariant say so: only of the objects outside of it is it true
that a send which names them is their own. `PostNamed`, `CompleteNamed`,
`TakeNamed`, `NewNamed` and `KeepNamed` follow a name through its life;
`NewStepOwn`, `KeepStepOwn` and `PostStepOwn` are the three kinds of step a
handler takes.

`LoopProofs` counts. The code has no counter of accepts and receives: each
handler posts one for the one it took. A turn of a loop is an operation under
way, a packet or a handler, and the lemmas on counting (`CountingProofs`: the
points of a function, the positions of a sequence) say that each step moves a
turn from one of the three to the next, adds one or drops one. That an accept
is not doubled follows from a predicate on steps, `Kept`: no step but those of
`StartPost` adds one. That none is lost needs `AcceptInv`: accepts under way,
queued and in handlers have sockets of their own that nobody has associated
yet, so that the calls of the accept path succeed, which is why they may not
fail for other reasons either (`Smooth`). `Turns` says that an associated
connection that is not closed has exactly one receive, and one that is not
associated none. It is inductive together with `RecvInv`: a receive is posted
on an empty buffer for its own connection, its packet brings a whole message
or the end of a closed connection, and a handler in the receive path has a
message to answer. Each restriction of `Plain` is needed, since the code drops
the turn otherwise: `deaf` shows it for a message without GET.

`RequestProofs` follows one request. The code has no table of requests, and a
message has no identity: it is text on the wire, then text in an object, then
an answer. `Answers` bounds the sum of the three by what the client has sent:
the messages that end on the wire, the objects that are `Ready` (a whole
message in a received packet or in a handler up to its send), and the replies.
Each step moves a message from one place to the next or loses it, never copies
it. For a message that comes in pieces this needs `RecvBuffers`: a receive goes
either into an empty buffer, or, through the descriptor past the object, not
into the object at all, so that no pair of pieces makes two messages. No
finiteness is assumed: the sets that are counted are finite because every
message was sent. `NothingLost` rests on `HeldInv`: each object that lives is
named or held (`NoneLost`), no query is an activation, whose handler may drop
its object (`NoActs`), and no connection is closed (`Unclosed`), since the
packet of a closed connection is only logged and its object forgotten. With
these a handler always reaches its own delete or hands its object on.

The first half of `MFCMainGUIProofs` holds for any set of failing calls.
`ServeInv` relates the stage of the dialog to the handles: while the server is shown as running its
port and listen socket are open, no thread in the table has ended, and no exit
packet is in a port except in `Stop`. `JoinInv` says that the threads in a
complete table are either all still open or all ended; a table with a hole,
which the code keeps after a failed `Start`, is its exception, and `orphan`
shows why. The second half adds `CleanInv`: a server that is down has nothing
open and no thread alive, one that is up has exactly the port, the table and
the threads of its latest start. It allows the failures in `Benign`, the
creation of the port, which comes first in `Start`, and the posting of an exit
packet, after which `Stop` waits for ever but nothing is left behind. Every
other failure in `Start` leaves workers and a port that nobody closes
(`orphan`), and Enter leaves all of them. `RefinesLifecycle` is then one lemma
per action: it maps to the step of `ServerLifecycle` or to a stutter.
`ExitCount` counts the exit packets in the current port against the workers
alive (`WorkerStep` says which step ends one); it starts when a stop begins,
with all workers alive and, by `ExitsInStop`, no exit packet left from before.

`QueryProofs`: `QueryInv` says for each stage what the stored members, the
flags and the error have in common with the text. The length of a value is
computed by a recursive definition, of which the proofs use that it yields a
number: `LengthsAreNumbers` is an assumption of each theorem and `MCLengths`
has it evaluated for all texts of `query`.

`ProcessProofs`: `ProcRefinesGUI` comes first. Since each step of the process is
one of `MFCMainGUI` or leaves its state alone, the invariants of
`MFCMainGUIProofs` hold in the process and are used in what follows. `ProcInv`
adds what can be in a thread's list of calls at each stage of `_tmain`, and that
a thread which waits for a packet has nothing left to call. `SingletonsOutlive`
joins the two with `QuietInv`: only threads of the latest start have anything to
call, and none has once `Stop` has gone on from its wait, which is for their
last line. `OwnersInv` says that each script releases the heap mutex
once for every time it takes it and not before (`Sections`), which
`TailOfSections` carries from call to call. So a thread owns the mutex exactly
while its next heap call is a release.

The proofs rest on the named assumptions of the modules (`HeapAssumption`,
`PortAssumption`, `IdleAssumption`, `ServerAssumption`, `DescriptorAssumption`,
`GuiAssumption`, `ProcessAssumption`, `TextAssumption`), which only say that
constants have their kind.

Checked by TLC alone is what the prover cannot express: liveness
(`RequestAnswered`, `ClientAccepted`, `StopReturns`) and the fairness parts of
`ImplementsLifecycle` and `KeepsLifecycle`.

## 5. Abstractions

* Text, sizes of buffers, addresses of clients, and logging are left out.
* A freed block's operation type reads as it was left or as no type (the
  allocator's fill pattern). A block of the heap is used for `PerIOData` objects
  only: that something of another kind, or the kernel's late status of a send
  in its OVERLAPPED, lies where `operationtype` is read, is not modelled.
* After a misread packet two handlers may work on one object at once. The model
  takes their steps as a whole, although the accesses are a data race then.
  The crash of `reuse` needs no race.
* Whether the kernel reads the text of a response before the object is deleted
  is left out; answers are counted per connection, not compared.
* `sscanf_s("%*[^?]?%s")` is called without the size of its buffer; `BuildSend`
  admits what follows for a query that would get no answer: none, or the error
  for an empty text.
* A receive through a descriptor past the object is either rejected or takes
  the bytes away to somewhere else (`BadDescriptor`). What lies there is not
  modelled.
* Values of items are their lengths. What `sscanf_s` stores without a size
  (`Scanned`) is the value or an empty string. The order in `text` is the order
  in the request; a repeated item is not enumerated, since `strstr` finds the
  first one only.
* A database call has an outcome and no data: names found or not, a count that
  succeeds or fails. A failed `_itoa_s` returns, as the code expects.
* In `MFCMainGUI` a handle value is never reused after `CloseHandle`, and the
  input fields are abstracted to the choice of a valid submit.
* `AMSServer` takes the calls of a handler from the handlers' code but not its
  branches: a script is one of the sequences that a path through the handler
  makes, and log lines that follow each other directly count as one. Seek, write
  and release are one step of the owner of the log mutex.
* A worker that outlives the dialogs reads `completeport` in the server object
  that `~MFCMainGUI` has deleted. `AMSServer` lets it read the old value.
* After the end of the dialogs `MFCMainGUI` follows the server no further, and
  `AMSServer` only the threads that still run: memory and handles go with the
  process.

## 6. Not modelled

* The OpenSSL and MySQL headers under `include/`. They are the libraries' own
  and nearly 47,000 of the repository's 50,000 lines; of the calls into them,
  those of MySQL appear as `ConnectDatabase` and the queries.
* `SSLserver` and `MySqlHandle` are unfinished, and nothing calls them.
* The echo `DoRecv` and `PostSend` of `IOCPServer` are overridden by
  `HttpServer`, the only class that is instantiated; they never run.
* The builders of activation answers (`HttpData.cpp:416-482`): no call reaches
  them, as `SilentOnlyActivation` confirms from the other side.
* The sizes of the log line and of the receive buffer; the two hazards that
  depend on them are listed without a property.
* The fields, the file dialog and the layout of the windows. A submit is valid
  or is not taken.
