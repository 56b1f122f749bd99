# TLA+ verification of the IOCP server engine

The repository is a game server for Windows: IO workers on a completion port, a
pool of reference-counted sessions partitioned by state, a window of posted
accepts, and one packet worker that runs the handlers of received packets. This
directory holds the TLA+ models of it, the TLC configurations that check them and
the proofs TLAPS checks. File and line references are relative to the repository.

## The system

| Component | State | Operations | Correct when |
| --- | --- | --- | --- |
| `SparseSet` (`Common/Pool/SparseSet.hpp`) | `sparse_` (where, generation, state of a slot), `dense_`, `cursor_` | `Pop`, `Push`, `MoveToState`, `GetIndicesInState`, `IsValid`, `GetState` | the arrays stay inverse, every slot lies in the block of its state, a slot is held once, a pushed handle is invalid |
| `SparsePool`, `SharedPoolPtr`, `ObjectPool` (`Common/Pool`) | a `SparseSet` under `cs_`, a `refCount_` per slot, `postReleaseFunc_` | `Acquire`, `AddRef`, `ReleaseRef`, copy, move, `Reset` | the count is the number of pointers, the last one returns the slot once |
| `SessionManager` (`Server`) | `sessionPool_`, `sessionPtrs_` | `CreateSession`, `ConnectSession`, `DisconnectSession`, `GetSession`, `SetState`, `LogInSession`, `LogOutSession` | an entry lives exactly as long as the session is in use |
| `Session` | three `OverlappedEx` with a `SharedPoolPtr` to the session itself, `isSending_`, `listener_`, socket, ring buffers | `Connect`, `Disconnect`, `RegisterAccept/Recv/Send/Disconnect`, `OnRecv`, `OnSend`, `SendPacket`, `Reset` | one operation per OVERLAPPED, every operation keeps its session alive, one disconnect, nothing outlives the return to the pool |
| `IocpCore` | completion port, worker threads | `WorkerThread`, `HandleError`, `Dispatch*` | a completion is handled for the session that posted it |
| `Listener` | `pendingAccepts_` | `PostAccept`, `HandleAccept`, `DecrementPendingAccepts` | the count is the number of posted accepts; idle sessions do not go unused |
| `PacketHandler`, `TaskQueue` | queue of tasks, packet pool, one worker | `PostTask`, `Execute`, handlers, `Broadcast`, `Shutdown` | a task acts on the connection it came from; shutdown ends |
| Ring buffers and framing | `recvPos_`, `sendPos_` of an `OverlappedEx` | `OnRecv`, `SendPacket`, `OnSend` | packets come out whole and in order, nothing in flight is overwritten |
| `AccountManager`, `DBManager` | an in-memory SQLite database | `RegisterAccount`, `Authenticate` | the session gets the id that was authenticated |
| `ServerService`, `Main` | the members above, in order | `Start`, destruction | threads end before what they use |

How they interact: `PostAccept` takes a session from the pool and posts `AcceptEx`
with the session's `recvOv_`; the `OverlappedEx` holds a `SharedPoolPtr` to its own
session, so that the session lives while the kernel has the operation. A worker
dequeues a completion, copies that pointer, drops the one of the `OverlappedEx` and
calls the session, which posts its next operation. `Disconnect` posts
`DisconnectEx`; its completion resets the entry in `sessionPtrs_`. Whoever drops the
last pointer pushes the slot and, through `postReleaseFunc_`, calls `PostAccept`
from inside `ReleaseRef`, so `PostAccept` runs on every thread and can recurse.

What is hard to test: the order of completions of one session on several workers;
where exactly the last reference is dropped; what happens between `AcceptEx` and the
next statement; the accept window when several threads reserve at once; failures of
the socket calls; the unlocked readers of the pool and of `sessionPtrs_`. The full
list, each at its line, is in `PROJECT.json` under `hazards`.

## Modules

| Module | What it is |
| --- | --- |
| `StatePartition` | what the pool promises, without arrays: live handles, each in one state |
| `SparseSet` | `SparseSet.hpp`, one swap per step; implements `StatePartition` |
| `SparseSetScan` | the unlocked `GetIndicesInState` between any two swaps of `SparseSet` |
| `ConnectionCycle` | what the server promises of a session, without threads, references and OVERLAPPEDs: one cycle from the pool back to the pool |
| `SessionLifecycle` | `Session`, `IocpCore`, `Listener`, `SessionManager` and the reference counts, one step per point of interference; implements `ConnectionCycle` |
| `MCSessionLifecycle` | its symmetry sets for TLC |
| `PacketWorker` | `OnRecv`'s tasks and the packet worker that runs them, composed with the threads of `SessionLifecycle` |
| `MirroredRing` | `MirroredRingBuffer`: the address arithmetic of the double mapping |
| `PacketStream` | what the receive side promises: packets come out whole and in order |
| `RecvRing` | `recvOv_`: positions, framing loop, `RegisterRecv`; implements `PacketStream` |
| `ByteStream` | what the send side promises: accepted bytes go out once and in order |
| `SendRing` | `sendOv_`: `SendPacket`, `RegisterSend`, `OnSend`; implements `ByteStream` |
| `TaskQueue` | `TaskQueue` with its mutex and condition variable, the workers, the destructor |
| `SparseSetProofs`, `SparseSetScanProofs`, `SessionLifecycleProofs`, `PacketWorkerProofs`, `MirroredRingProofs`, `RecvRingProofs`, `SendRingProofs`, `TaskQueueProofs` | theorems about the module each is named after |

### SparseSet

`where_`, `generation_` and `state_` are the fields of `sparse_[who]`; `dense_` and
`cursor_` are the arrays of the code. A call begins, runs `IncrementState` or
`DecrementState` once per state boundary, and ends; `op` is the call under the pool's
`cs_`, so one is in progress at a time. `held` are the handles callers have: they
move and push only those, as `SparsePool` does. `generation_` wraps at `GenMod`.
The steps are as small as a swap because `GetState` and `GetIndicesInState` are
called without the lock; the reader is in `SparseSetScan`.

The refinement to `StatePartition` takes a move as done when it begins, a pop when
it returns, and a push when the caller gives up the handle. `StatePartition` lets a
pop return any free slot under any generation it was not last pushed with, so the
refinement shows that a handle that was pushed is not the next one given out.

### SparseSetScan

`Broadcast` lists the connected sessions without `cs_` (`SessionManager.cpp:93`).
`ScanBegin`, `Reserve`, `LoopBegin`, `LoopTest`, `PushBack` and `ScanReturn` are the
reads of `GetIndicesInState`, in order; `LockedStep` is any step of `SparseSet` in
between. The two cursors of the `reserve` are read in either order, as the compiler
likes, and their unsigned difference wraps at `IndexMod`. `missing`, `listed`, `rose`
and `fell` are history: the slots that were in the state all along and are not listed
yet, those that are, and whether a slot left the state upwards or downwards since the
listing began. What the listing can get wrong is this: a connected session is missed
only if another one starts to disconnect meanwhile (its swap moves a session behind
the reader); a session of another state is listed, or a session twice, only if one
leaves the state. That happens on every return to the pool: the `Push` of a
disconnecting session takes it through `kConnected`, and its swap out of there moves
the first connected session, already listed, to the end of the block.

### SessionLifecycle

A session has its state in the pool (`state`), `refs` (`refCount_`), `table` (its
entry in `sessionPtrs_`), `ovPtr` (which `OverlappedEx` holds a pointer), `io` (the
operations the kernel has, by `ioType_`), `listener`, `sending` and `up` (the socket
is connected). A thread has a program counter, the session whose completion it
handles (`cur`, `done`), PostAccept's local pointer (`post`) and the calls of
`PostAccept` on its stack (`frames`, `then`).

Each action is the code between two points where another thread can interfere: an
atomic, a critical section, a posted operation. Pieces that only their own thread
can observe are one step: `CreateSession` (no one else has the handle before the
session is in the table), the copy and the reset of a pointer while the thread holds
another one to the same session. `sendCs_` and `connectCs_` are held over one step.

| Code | Actions |
| --- | --- |
| `Listener::PostAccept` | `AcceptLoop`, `CreateSession`, `CreateSessionFails`, `UndoAccept`, `RegisterAccept`, `SetListener`, `DropPost` |
| `SparsePool::ReleaseRef` | `ReleaseRef` (the `fetch_sub`), `Push` |
| `IocpCore::WorkerThread`, `HandleError`, `Dispatch` | `Dequeue`, `Dispatch`, `Drop` |
| `Listener::HandleAccept`, `Session::Connect` | `Connect`, `SendWelcome`, `RegisterRecv` |
| `Session::OnRecv`, `OnSend` | `Dispatch` then `RegisterRecv`; `OnSend` |
| `Session::Disconnect` | `Disconnect`, `RegisterDisconnect` |
| `Session::Reset` | `ResetSession`, `ClearPtr` |

The environment: a posted operation completes at any time, with success or, if
`Faults` allows it, an error; `WSARecv` and `WSASend` are refused on a socket that is
not connected, and if `Faults` allows it at any time; `DisconnectEx` is refused on a
socket that is not connected; a finished disconnect leaves the socket unconnected.
A receive may bring whole packets, or be the end of the connection or a bad size.
A process that follows a null or torn pointer stops (`crashed`), so `CHECK_DEADLOCK`
is off: the server also stops when no client does anything.

`ConnectionCycle` says what all this is for: `phase` of a session, its operations and
its socket go round one cycle. The mapping is the identity on `io` and `up`; `phase`
is the state in the pool, told apart where a critical section and the operation it
leads to are two steps: a session is `taken` while `PostAccept` has it and has not
posted the accept, `ending` while a `Disconnect` has passed and not posted
`DisconnectEx`. That two workers fail at once, that the pool has four states and that
references decide when a session returns is not visible there.

What is left out here: the packet worker, which sends on sessions it holds no
completion of (`PacketWorker`); the positions in the buffers (`RecvRing`,
`SendRing`); shutdown.

### PacketWorker

The module extends `SessionLifecycle`. `AcceptStep`, `HandleStep` and `DequeueStep`
are its steps, those of the handlers guarded by `Patience` (below); `OnRecv` turns the packets of a receive into tasks before
`Dispatch` ends the loop. The packet worker runs one task at a time: `step` is its
place, `job` its task, `targets` the list of a broadcast.

| Code | Actions |
| --- | --- |
| `Session::OnRecv`, `PacketHandler::PostTask` | `OnRecv` |
| `PacketHandler::WorkerThreadFunc`, `Execute` | `PopTask` |
| `LogInSession`, `LogOutSession` | `FindSession` |
| `Session::SendPacket` of a handler | `Answer` |
| `PacketHandler::Broadcast`, `SendToSession` | `List`, `Pick`, `SendToTarget`, `DropTarget`, `BroadcastEnds` |

`List` is one step here; how the listing itself can go wrong is `SparseSetScan`.
`refused` remembers the sessions for which a `WSASend` of the packet worker failed,
until their socket serves the next client.

A task has the address of its session and no reference to it (`Session.cpp:96`), so
what the packet worker does to it is right only while the session is connected. The
module therefore models a server with clients like those of the repository's tests,
who wait for what is on its way to them before they close, and everything it says is
said of such a server. `Owed` are the sessions whose clients wait: one has a request
in the queue, or not yet answered, or a chat that is not yet listed; one is connected
while somebody's chat is to be listed, or is listed and not sent to. `Patience` says
that they are connected and no thread is about to disconnect one; it guards the steps
of the IO workers that would break it. Nobody waits for more than that. A client may
close, and its socket may fail,

* as soon as its answer is sent: a logout is answered before `LogOutSession` runs, and
  the session can disconnect, return to the pool and come back in between;
* as soon as a broadcast is sent to it, so that the packet worker's copy of its entry
  can be the last reference, and the packet worker returns it to the pool;
* at any time if nothing is on its way to it, beside whatever the packet worker does
  for others.

With that `SendPacket` is one step: `sendCs_` keeps `OnSend` and every other
`SendPacket` of the session away, the table entry of a connected session stays, and
what the IO workers do to `sendOv_` without `sendCs_` (drop its pointer when a send is
over) they do while `isSending_` is up, which keeps `SendPacket` from it. For a
session on its way to the pool it would not be: `Session::Init`
(`Session.cpp:30-37`) clears `isSending_` and `sendOv_` without `sendCs_`, and `Reset`
the entry that `RegisterSend` copies. What the code does to clients who do not wait
lies outside the model. Read from the code:

* a late answer can post on a session that waits for its next client, post twice on
  `sendOv_`, find `isSending_` cleared under it, or leave it raised with nothing out, so
  that the next client gets no welcome; or it goes to that client;
* the login of a client that closes at once follows an empty table entry
  (`SessionManager.cpp:77`), as a logout does in the run `logout_after_answer`;
* a broadcast can copy the entry of a session whose count has reached zero: `AddRef`
  revives it, and `Slot::Init` overwrites the count under the copy.

### RecvRing and SendRing

A byte is named by its position in the stream, a cell of the ring holds one, and the
addresses `a` and `a + Size` are the same cell (`MirroredRing`). In `RecvRing` a
completion brings any part of what the client sent (`Receive`), `Parse` is one round
of the framing loop of `OnRecv` (`TakePacket`, `OverrunBlock`, a bad size, or `PostRecv`,
which normalises the positions and posts the next receive), and `Reuse` is the `Reset` for
the next client. The size field is read from the ring; if the cells do not hold
one header it can be anything. A packet is copied into a `PacketBlock` of `Block` bytes
(`kMaxPacketSize`, 1024), but its size was only compared with the ring's 65536
(`Session.cpp:85-86`, `PacketHandler.cpp:87`): a greater one is written over the blocks
behind its own. That is `OverrunBlock`, where the model ends, since anything can happen
then; what the receive side promises (`PacketStream`, with `Largest`) is promised for
packets that fit, up to the first that does not. In `SendRing`, `SendPacket` appends and posts if no send is out,
`Complete` and `Fail` are the kernel, which may take fewer bytes than it was given,
and `OnSend` advances, normalises and posts what is left. `link` tells an open
connection from one whose send was refused in `SendPacket` (`stuck`: nobody
disconnects it, nobody sends again) and one that is over.

Both are one session each: that one thread at a time is in `OnRecv` and `OnSend` is
`OverlappedExclusive` of `SessionLifecycle`, and `sendCs_` makes each call one step.

### TaskQueue

A worker locks `mutex_` and evaluates the predicate (`Test`), then takes a task
(`Take`) and runs it (`Run`), or goes to sleep, which releases the mutex (`Sleep`).
`Push` holds the mutex for one step and wakes one waiter, if there is one. The
destructor of `PacketHandler` sets the flag (`SetFlag`), notifies (`NotifyAll`), both
without the mutex, and joins (`Join`). `cv_` may wake a worker for no reason.

## Runs

| Run | Configuration | What it shows |
| --- | --- | --- |
| `sparse_set` | 3 slots, 4 states, generation modulo 2, state 2 listed, cursors modulo 8 | the arrays stay consistent, exclusive handles, refinement of `StatePartition`, and what the unlocked listing can and cannot get wrong |
| `lifecycle` | 2 IO workers and the starting thread, 2 sessions, window of 2, all faults | reference counts, clean return, exclusive OVERLAPPEDs; only two races crash; refinement of `ConnectionCycle` |
| `session_returns` | 2 workers, 1 session, window of 3, fair, no refused `AcceptEx`, no failed accept or disconnect | disconnects complete, accepting resumes, `pendingAccepts_` is exact, the server never goes deaf, every session in use has an operation or a thread to bring it on |
| `packet_worker` | 1 IO worker, the packet worker and the starting thread, 2 sessions, window of 2, 1 queued task besides the one that runs, refused sends | reference counts with four places that send, also while sessions just served disconnect; nobody is muted; only a logout adds a way to crash; refinement of `ConnectionCycle` |
| `recv_ring` | ring of 6, header of 2, blocks of 4, size fields up to 7, 13 bytes per connection | every cut of a stream with good, bad and overrunning packets: framing, wrap, reuse; refinement of `PacketStream`; every packet comes out |
| `send_ring` | ring of 6, packets up to 7, 20 bytes per connection | appends at any moment of a send that completes in pieces or fails: nothing overwritten, nothing forgotten; refinement of `ByteStream`; everything goes out |
| `task_queue` | 2 workers, 5 tasks | no lost wake-up of a push, order, tasks run, when the shutdown ends |
| `listener_unset`, `torn_pointer`, `failed_accept_leaks`, `lost_shutdown`, `logout_after_answer` | the smallest that show it | disagreements between the code and what the repository says of it, below |

Bounds. Three slots let a swap displace a slot that is neither the first nor the last
of its block, four states are those of `SessionState`, and a generation modulo 2 makes
a wrap happen after two reuses. Cursors modulo 8 tell an underflow from any value a
cursor has. Two workers handle a recv and a send, or a recv
and a disconnect, of one session at once, while the starting thread is in
`PostAccept`; with two sessions a thread inside `PostAccept` can drop the last
reference to one while another thread takes the other. `MaxNest` 2 tells one level
of recursion of `PostAccept` apart from none; deeper frames only repeat the loop.
`NotDeaf` needs `MaxAccept >= Cardinality(Thread)` (the build has 1000 and one IO
worker per core) and is checked at equality, where the window is the tightest.
In `packet_worker` one IO worker is enough to race the packet worker. One queued task
besides the one that runs keeps the other session's client waiting, or lets the same
session's next receive be handled, while an answer or a broadcast is under way; two
sessions let the packet worker send to another session than the one of its task, and
one of them disconnect beside it.
The greatest packet of the code, 1024 bytes, is far below its ring of 65536: blocks of 4
in a ring of 6 keep that order and leave a size (5) that overruns a block without being
bad for the ring. The rings are smaller than the greatest packet a client may declare or the server may append, and
the streams longer than two rings, so packets straddle the end and positions are
normalised more than once. Five tasks for two workers fill the queue while one runs
and the other sleeps.

Fairness. Threads are scheduled, so every thread's next step is weakly
fair (`FairSpec` of `SessionLifecycle`). The completion queue is a FIFO the workers
return to, so a finished
operation is dequeued even if the workers are busy in between: strong fairness.
Sends and disconnects finish; a receive finishes for sure only once its socket is
down; nothing is assumed of accepts. In the rings what was sent arrives and the kernel
gets a send over, and the worker that dequeued it goes on: weak fairness of `Arrives`
and `Parse`, of `Progress`. In `TaskQueue` a worker that wants the mutex gets it in
the end, though others hold it again and again: strong fairness of `Test`; the rest of a worker's
steps and the destructor's are weakly fair; spurious wake-ups, pushes and the
decision to shut down are not.

Each property of a passing run has a mutant of the code that breaks it. The mutated
operators stand before the original in the module, marked `mutant`.

Some invariants are in no run because they are proved and another property of
the run says more: the type invariants of all modules but `SessionLifecycle` (what could
go wrong with the positions is in `ReadsInBounds` and `InsideMapping`); `ReturnedOnce`
and `CompletionHasSession` (the `Return` of `ConnectionCycle`, and
`CrashesOnlyInRaces`); `SendingFlag` of `PacketWorker`, which the other run checks;
`ListingExact` of `SparseSet` (`Partitioned` and `HeldExclusive` say most of it, and
`SparseSetScan` what happens when it does not hold); `OverrunIsSent` (the refinement of
`PacketStream` has the packets that fit; this one says the others are no mistake of the loop).

## Disagreements found

With a run that shows it:

* `PostAccept` sets `listener_` after it posts the accept (`Listener.cpp:109-117`;
  `listener_unset`).
* `GetSession` copies a table entry that another worker may be clearing
  (`SessionManager.cpp:71`, `89`; `torn_pointer`).
* `DisconnectEx` returns a `BOOL` that is compared with `SOCKET_ERROR`
  (`Session.cpp:184`): the session of a failed accept leaks
  (`failed_accept_leaks`).
* `Shutdown` sets the flag and notifies without the mutex (`TaskQueue.hpp:13-14`): a
  worker about to sleep misses it, and the join waits for ever (`lost_shutdown`).
* `HandleLogout` answers before it follows the table entry (`PacketHandler.cpp:199-201`):
  a client that closes on the answer empties the entry meanwhile
  (`logout_after_answer`).

Seen while modelling:

* `Pop(state)` does not do what its comment says (`SparseSet.hpp:24`); the unit test
  and every caller rely on what it does.
* A disconnect that completes with an error leaks the session
  (`IocpCore.cpp:106-109` leaves `disconnectOv_` its pointer), and a refused `AcceptEx`, whose `BOOL` is compared with
  `SOCKET_ERROR` (`Session.cpp:163`), leaks a session and a place in the window.
* A refused send of the packet worker leaves the connection open and silent
  (`Session.cpp:239`).
* A packet of 1025 to 65535 bytes is copied into a block of 1024 (`PacketHandler.cpp:87`,
  `OverrunBlock`), and once more for the handler (`PacketHandler.cpp:75`); a chat of more
  than 1016 bytes grows by the 8 of the sender's handle on its way into a third block
  (`PacketHandler.cpp:128-132`), which is not modelled.
* A connected session can be missed by a broadcast while another one disconnects, and
  get it twice while another one returns to the pool (`SessionManager.cpp:93`).
* Tasks left in the queue at shutdown hold blocks of the packet pool, which is
  destroyed before them (`PacketHandler.hpp:48`); the listener and the database are
  destroyed before the threads that use them (`ServerService.hpp:41-48`).
* `LogInSession` stores the account id of the request, which is 0, not the one that
  was authenticated (`SessionManager.cpp:77`); nothing reads it.
* An invalid packet id is only logged, where the test expects a close
  (`Tests/Integration/05_InvalidPackets.cpp:23-29`).

## Proofs

Every invariant and every action property of the passing runs is proved for all values
of the constants that satisfy the assumption of its module, and so are the four
refinements, that of `ConnectionCycle` also by the composition with the packet worker.
What needs more than that is said where it is needed: `acceptSync` not among the faults
for the accept window. Each
proof module has an inductive invariant, one lemma per action, and theorems that
combine them.

`SparseSetProofs`: for all `N`, `StateCount`, `GenMod` that satisfy
`SparseSetAssumption`, `SparseSet` keeps `TypeOK`, `Inverse`, `Partitioned`,
`HeldExclusive` and `ListingExact`, and implements `StatePartition`. `TypeOK` is not inductive: that the position `cursor_[next] - 1` is
inside `dense_` follows from the block of the moved slot not being empty, which is
`Partitioned`; that the slot swapped away stays in its own block follows from the
blocks being disjoint (`BlocksDisjoint`) and from `Inverse`. `IInv` is the three of
them together. `Partitioned` states that the cursors are monotone for every two
states, not only for neighbours, because an induction over the states is not
available. `HInv` adds that held slots are out of state 0 and that the call in
progress keeps them out, which is what makes Pop's slot one that nobody holds.
`LInv` adds the converse, `Covered`: a slot out of state 0 is held, or is the slot of
the Pop or Push in progress. With `BlockIsState` that is `ListingExact`. `Refines`
takes each step to the step of the same name or to a stutter; that a new handle
differs from the one last pushed is arithmetic modulo `GenMod` (`Wraps`), and needs
at least two generations.

`SessionLifecycleProofs`: for any finite sets of workers and sessions, any window,
any nesting bound and any subset of the failures, every safety invariant of the
passing runs of `SessionLifecycle` holds. Two need what their run assumes too:
`PendingAcceptsExact` and `NotDeaf` are proved for an `AcceptEx` that is not refused
(a refusal is not noticed, and its place in the window is never given back). The inductive invariant `IInv` is

* `RefSum`, which is `RefCountExact` with the holders counted by kind. It needs
  that a `Register*` finds its OverlappedEx without a pointer (or the count grows
  and the holders do not) and that `Dispatch` finds it with one (`Held`);
* `Recv`, `Send`, `Disc`: each of the three OVERLAPPEDs of a session is with the
  kernel, with one thread, or free. A completion passes it to the worker, the next
  `Register*` back. `disconnectOv_` is used once, because `Disconnect` passes once;
  `sendOv_` is free while `isSending_` is false;
* `Life`: what the states of a session allow. A connected session is in the table
  and so has a reference; a connected socket has its entry (which is why a posted
  receive is never without a pointer); a session that is being pushed has none,
  hence nothing points to it and it becomes idle clean. `New`: the session that
  `PostAccept` has just taken is known to no one else;
* `Accepts`, `Attentive`: `pendingAccepts_` is never behind the accepts that are
  posted or reserved; while a session is idle, an accept is posted or a thread in
  `PostAccept` will still look. The step that matters is the one where `AcceptLoop`
  gives up: the window is full, the other threads have reserved one accept each at
  most, so one is in the kernel;
* `Control`: what the place of a thread says of its variables.

One lemma per action shows that it preserves `IInv`, one step per conjunct. TLC has
checked `IInv` itself on the instance of `lifecycle`. Counting uses the library's theorems on finite sets.

`IInv` bounds what a session in use can have; the refinement and `NobodyStranded` need
that it has something. `Round` adds that, on top of `IInv`:

* `Alone`: until a session is connected its accept, or the one thread that handles
  it, has it to itself, so nothing overtakes the posting of the accept or `Connect`;
* `SocketUp`: the socket of a connected session is up, and so is that of a session
  about to post its disconnect, if no accept fails;
* `Followed`: unless a failure goes unnoticed (`Unnoticed`), the state of a session
  says what is next for it, in the kernel or with a thread: its accept, then its
  receive, then its disconnect; and a reference of an OverlappedEx has the operation or
  the worker that will release it;
* `Listening`, `Released`, `Failures`: an accept without `listener_` has a thread
  before its `SetListener`; a session in use whose count is zero has a thread about to
  push it; a completion reports only failures of `Faults`.

`NoneStranded` follows by state: a session that waits for its push has no reference
left, which is `RefSum`, and the others have what `Followed` names. `RacesOnly` goes
through the steps that may set `crashed`: a torn copy needs a released entry, which
`Life` gives to a thread inside `Reset`; a completion is never without its pointer
(`Held`), so the null pointer is `listener_`, and `Listening` names the thread.
`SessionsGoRound` takes the actions one by one (`PostAcceptCycles`, `RegisterIoCycles`,
`HandleCycles`, `DequeueCycles`): each is one action of `ConnectionCycle` on one
session, or leaves its variables alone. No history is needed for the mapping.

`NobodyStranded` is not liveness: it says that there is always someone whose step is
next, and the run `session_returns` that under fairness these steps lead home.

`SparseSetScanProofs`: `IncrementEffect` and `DecrementEffect` say what a locked step
does to the two boundaries of the listed state: the lower one goes up only when a
slot falls, the upper one down only when one rises. While none rises, a slot of the
state is only swapped towards the end of its block, ahead of the reader; so what is
`missing` lies at or after the position of the reader (`Ahead`). While none falls either, no slot of the state moves, and what is `listed`
lies before it (`Behind`), which is why a listing has no slot twice. It builds on `IInv`
of `SparseSetProofs`. The proofs need no order between the reads and no bound on how
many swaps happen between them.

`PacketWorkerProofs`: `PInv` is `IInv` of `SessionLifecycleProofs` and

* `Down`: a socket that waits for its accept is not up. With it a send the packet
  worker posts is on a session in the table, hence with a reference, and `IInv`
  survives it (`SendsIInv`, `RefusedIInv`, `PickIInv`). The steps of the IO
  workers keep `IInv` by the lemmas that are already there;
* `OnTask`: what the packet worker holds at each of its steps;
* `Patience`: whoever waits is connected, and nobody disconnects them. The steps of the
  packet worker only ever take somebody off `Owed`, `OnRecv` and the handlers are
  guarded by it, and for the other steps `PatienceKept` shows it: a session leaves
  `kConnected` only by a thread that is at its `Disconnect` (`StaysConnected`), and they
  lead no thread there (`NoHurry`);
* `Hush` (nothing is sent to a session before it is connected, the welcome is the
  first) and `Heard`, which is `NobodyMuted`. `Hush` is what a late answer would break.

All theorems of the module are about clients that wait (`Patience`), since `SendPacket`
is one step only for those. `Round` and the refinement carry over (`PacketRound`): a send
of the packet worker is a `Transfer` of a connected session, its copy of an entry takes
nothing from what follows for that session, and dropping the copy is a `Drop` like that
of an IO worker, the last one included. `FindsSession` says that only a logout can find
its entry gone, which with `RacesOnly` gives `OnlyRacesAndLogOutCrash`.

`MirroredRingProofs` has what `Written`, `Bytes` and `Holds` do to each other across
the end of the ring. `RecvRingProofs`: the positions (`Placed`), what was received is
handled or between them and the parser stands at the start of a packet
(`Accounted`), the packets of the client tile the stream (`Tiled`). The header at
`recvPos_` is then the client's (`FieldIsDeclared`), a full ring holds a whole packet
(`NeverOverflows`), and `TakePacket` is `PacketStream`'s `Deliver`. The size that overruns
a block is the client's too (`OverrunsAreSent`), so if no client declares more than a
block holds, none is overrun (`SmallPacketsStayInBlock`).
`SendRingProofs`: `Placed`, `Accounted` (what was accepted is out or waits; what
`OnSend` has not seen does both) and `Flagged` (`isSending_` is down only when nothing
waits, and up on an open connection only when a completion will come).

`TaskQueueProofs`: `Locked` (one holder of the mutex, and what it saw under it still
holds) and `Interval` (the queue is the last pushes, everything before was started),
with which `NoStrandedTask` is inductive: a worker can only fall asleep on an empty queue,
and a push to sleeping workers wakes one.

## Only model-checked, and not modelled

Liveness is checked by TLC only: `DisconnectCompletes`, `AcceptsResume`,
`EveryPacketComesOut`, `Drains`, `TasksRun`, `ShutdownEndsIfSeen`.

Not modelled, with the reason:

* the packet pool: the code of the session pool with one owner per block; it runs
  out at 32768 blocks (`Config.hpp:13`), and then a null pointer is followed;
* what a packet carries, and what becomes of the process after a block is overrun;
* answers, logins and broadcasts that overlap the end of their client's session (the
  section on `PacketWorker` says how the code fails there);
* the size of the build's rings, 65536, which a 16-bit size field cannot reach: there
  the `size >= GetSize()` test of the framing loop is dead. `RecvRing` does not fix the size, so
  it covers rings that are smaller too;
* the shutdown of the IO workers and the destruction of the members: one thread, in
  the fixed order of the member list;
* accounts and the database: SQL statements run by the one packet worker, whose
  result nothing reads;
* socket and library set-up, logging, critical-section wrapper, configuration;
* the test client, whose behaviour is the environment of the models;
* SQLite, which is vendored and is all but some 3,000 of the repository's lines of code.

## What is left

The packet pool as a second instance of the counted pool; a model of the copy that
revives a session at count zero, which needs the slot recycled under it; the shutdown
of the IO workers with the members destroyed around them.
