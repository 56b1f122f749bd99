--------------------------- MODULE SessionLifecycle ---------------------------
(***************************************************************************)
(* The life of the sessions of the server: PostAccept takes a session from   *)
(* the pool and posts an AcceptEx, the IO workers dequeue completions and    *)
(* drive the session through Connect, recv, send and Disconnect, and the     *)
(* last SharedPoolPtr to a session returns it to the pool, which posts the   *)
(* next accept from inside ReleaseRef.                                       *)
(*                                                                          *)
(* A thread's step is what the code does between two points where another    *)
(* thread can interfere: an atomic, a critical section, a posted operation.  *)
(* The pool's partition is used through what StatePartition promises: a      *)
(* session is in one state and CreateSession takes any idle one.             *)
(*                                                                          *)
(* The pointer WorkerThread holds (IocpCore.cpp:83) outlives the copies its  *)
(* callees make of it (IocpCore.cpp:104, 172), so it stands for all of them. *)
(***************************************************************************)
EXTENDS Integers, FiniteSets

CONSTANTS
  Worker,     \* the IO worker threads
  Main,       \* the thread that runs ServerService::Start
  Slot,       \* the sessions of the pool
  NoSlot,     \* no session
  MaxAccept,  \* Config::kMaxAccept
  MaxNest,    \* deeper recursion of PostAccept is not told apart
  Faults      \* the failures of the sockets the environment may produce

FaultKind == {"acceptSync", "acceptError", "sockopt", "recvPost", "sendPost",
              "ioError", "discSync", "discError"}

ASSUME LifecycleAssumption ==
  /\ Main \notin Worker
  /\ NoSlot \notin Slot
  /\ IsFiniteSet(Worker) /\ IsFiniteSet(Slot)
  /\ MaxAccept \in Nat \ {0}
  /\ MaxNest \in Nat \ {0}
  /\ Faults \subseteq FaultKind

Thread == Worker \cup {Main}
State == {"idle", "pending", "connected", "disconnecting"}
Ov == {"recv", "send", "disc"}  \* recvOv_, sendOv_, disconnectOv_
IoType == {"accept", "recv", "send", "disc"}
OvOf(io) == IF io = "accept" THEN "recv" ELSE io

VARIABLES
  (* of a session *)
  state,      \* its state in the pool
  refs,       \* Slot::refCount_
  table,      \* sessionPtrs_[idx]: null, set, or "released" inside its Reset
  ovPtr,      \* the OverlappedEx whose sessionPtr_ is set
  io,         \* the operations the kernel has, by ioType_
  listener,   \* listener_ is set
  sending,    \* isSending_
  up,         \* socket_ is connected
  (* of the listener *)
  pendingAccepts,
  (* of a thread *)
  pc,
  cur,        \* the session whose completion it handles, NoSlot if none
  done,       \* that completion: its ioType_ and whether it failed
  post,       \* PostAccept's sessionPtr, or the session being pushed
  frames,     \* the PostAccept calls on its stack
  then,       \* where the outermost of them returns to
  crashed     \* the process is gone

session == <<state, refs, table, ovPtr, io, listener, sending, up>>
thread == <<pc, cur, done, post, frames, then>>
vars == <<session, pendingAccepts, thread, crashed>>

PC == {"wait", "dispatch", "connect", "welcome", "registerRecv", "onSend",
       "disconnect", "registerDisc", "reset", "nulling", "drop", "push",
       "accept", "create", "undo", "registerAccept", "setListener",
       "dropPost", "finished"}
Done == [io : IoType, failed : BOOLEAN]
NoDone == [io |-> "recv", failed |-> FALSE]

TypeOK ==
  /\ state \in [Slot -> State]
  /\ refs \in [Slot -> Nat]
  /\ table \in [Slot -> {"null", "set", "released"}]
  /\ ovPtr \in [Slot -> SUBSET Ov]
  /\ io \in [Slot -> SUBSET IoType]
  /\ listener \in [Slot -> BOOLEAN]
  /\ sending \in [Slot -> BOOLEAN]
  /\ up \in [Slot -> BOOLEAN]
  /\ pendingAccepts \in Nat
  /\ pc \in [Thread -> PC]
  /\ cur \in [Thread -> Slot \cup {NoSlot}]
  /\ done \in [Thread -> Done]
  /\ post \in [Thread -> Slot \cup {NoSlot}]
  /\ frames \in [Thread -> 0 .. MaxNest]
  /\ then \in [Thread -> PC]
  /\ crashed \in BOOLEAN

(* The workers wait in GetQueuedCompletionStatus, Start calls PostAccept. *)
Init ==
  /\ state = [s \in Slot |-> "idle"]
  /\ refs = [s \in Slot |-> 0]
  /\ table = [s \in Slot |-> "null"]
  /\ ovPtr = [s \in Slot |-> {}]
  /\ io = [s \in Slot |-> {}]
  /\ listener = [s \in Slot |-> FALSE]
  /\ sending = [s \in Slot |-> FALSE]
  /\ up = [s \in Slot |-> FALSE]
  /\ pendingAccepts = 0
  /\ pc = [t \in Thread |-> IF t = Main THEN "accept" ELSE "wait"]
  /\ cur = [t \in Thread |-> NoSlot]
  /\ done = [t \in Thread |-> NoDone]
  /\ post = [t \in Thread |-> NoSlot]
  /\ frames = [t \in Thread |-> IF t = Main THEN 1 ELSE 0]
  /\ then = [t \in Thread |-> IF t = Main THEN "finished" ELSE "wait"]
  /\ crashed = FALSE

-----------------------------------------------------------------------------
(* Control of a thread. *)

At(t, here) == ~crashed /\ pc[t] = here
Goto(t, next) == pc' = [pc EXCEPT ![t] = next]

(* Call PostAccept; the outermost call returns to `next`. *)
CallPostAccept(t, next) ==
  /\ frames' = [frames EXCEPT ![t] = IF @ < MaxNest THEN @ + 1 ELSE @]
  /\ then' = [then EXCEPT ![t] = IF frames[t] = 0 THEN next ELSE @]

(* PostAccept returns.  A nested call was the destructor of its caller's      *)
(* sessionPtr, so the caller goes on with its loop.                           *)
ReturnPostAccept(t) ==
  /\ frames' = [frames EXCEPT ![t] = @ - 1]
  /\ Goto(t, IF frames[t] > 1 THEN "accept" ELSE then[t])

(* mutant: the last but one release returns the session too. *)
ReleaseRefEarly(t, s, next) ==
  /\ refs' = [refs EXCEPT ![s] = @ - 1]
  /\ IF refs[s] \in {1, 2}
     THEN /\ Goto(t, "push")
          /\ post' = [post EXCEPT ![t] = s]
          /\ CallPostAccept(t, next)
     ELSE /\ Goto(t, next)
          /\ post' = [post EXCEPT ![t] = NoSlot]
          /\ UNCHANGED <<frames, then>>

(* SharedPoolPtr::ReleaseRef up to the fetch_sub: the last one goes on with   *)
(* Push, every other one with `next`.                                         *)
ReleaseRef(t, s, next) ==
  /\ refs' = [refs EXCEPT ![s] = @ - 1]
  /\ IF refs[s] = 1
     THEN /\ Goto(t, "push")
          /\ post' = [post EXCEPT ![t] = s]
          /\ CallPostAccept(t, next)
     ELSE /\ Goto(t, next)
          /\ post' = [post EXCEPT ![t] = NoSlot]
          /\ UNCHANGED <<frames, then>>

(* mutant: the copy does not AddRef. *)
GetSessionWithoutAddRef(s, ov) ==
  /\ ovPtr' = [ovPtr EXCEPT ![s] = IF table[s] = "set" THEN @ \cup {ov} ELSE @]
  /\ UNCHANGED refs

(* sessionPtrs_[idx] is copied into the sessionPtr_ of an OverlappedEx.       *)
GetSessionInto(s, ov) ==
  \/ /\ table[s] # "set"
     /\ UNCHANGED <<refs, ovPtr>>
  \/ /\ table[s] # "null"
     /\ refs' = [refs EXCEPT ![s] = @ + 1]
     /\ ovPtr' = [ovPtr EXCEPT ![s] = @ \cup {ov}]

(* The kernel takes an operation, or refuses it: then sessionPtr_ is Reset    *)
(* (never the last reference: the calling thread holds one).                  *)
PostIo(s, k) == io' = [io EXCEPT ![s] = @ \cup {k}]

-----------------------------------------------------------------------------
(* Listener::PostAccept *)

(* The load of pendingAccepts_ and the compare_exchange. *)
AcceptLoop(t) ==
  /\ At(t, "accept")
  /\ IF pendingAccepts >= MaxAccept
     THEN ReturnPostAccept(t) /\ UNCHANGED pendingAccepts
     ELSE /\ pendingAccepts' = pendingAccepts + 1
          /\ Goto(t, "create")
          /\ UNCHANGED frames
  /\ UNCHANGED <<session, cur, done, post, then, crashed>>

(* CreateSession: Acquire initialises the session under the pool's lock, then *)
(* it enters sessionPtrs_.  Nobody else has its handle before that.           *)
CreateSession(t, s) ==
  /\ At(t, "create")
  /\ state[s] = "idle"
  /\ state' = [state EXCEPT ![s] = "pending"]
  /\ refs' = [refs EXCEPT ![s] = 2]
  /\ table' = [table EXCEPT ![s] = "set"]
  /\ ovPtr' = [ovPtr EXCEPT ![s] = {}]
  /\ listener' = [listener EXCEPT ![s] = FALSE]
  /\ sending' = [sending EXCEPT ![s] = FALSE]
  /\ post' = [post EXCEPT ![t] = s]
  /\ Goto(t, "registerAccept")
  /\ UNCHANGED <<io, up, pendingAccepts, cur, done, frames, then, crashed>>

(* mutant: the reservation is given back twice. *)
CreateSessionFailsTwice(t) ==
  /\ At(t, "create")
  /\ \A s \in Slot : state[s] # "idle"
  /\ pendingAccepts' = pendingAccepts - 1
  /\ Goto(t, "undo")
  /\ UNCHANGED <<session, cur, done, post, frames, then, crashed>>

(* mutant: the reservation is not given back. *)
CreateSessionFailsForGood(t) ==
  /\ At(t, "create")
  /\ \A s \in Slot : state[s] # "idle"
  /\ ReturnPostAccept(t)
  /\ UNCHANGED <<session, pendingAccepts, cur, done, post, then, crashed>>

CreateSessionFails(t) ==
  /\ At(t, "create")
  /\ \A s \in Slot : state[s] # "idle"
  /\ Goto(t, "undo")
  /\ UNCHANGED <<session, pendingAccepts, cur, done, post, frames, then, crashed>>

UndoAccept(t) ==
  /\ At(t, "undo")
  /\ pendingAccepts' = pendingAccepts - 1
  /\ ReturnPostAccept(t)
  /\ UNCHANGED <<session, cur, done, post, then, crashed>>

(* AcceptEx returns a BOOL that the code compares with SOCKET_ERROR: when it  *)
(* fails at once, RegisterAccept returns true all the same.                   *)
RegisterAccept(t) ==
  LET s == post[t]
  IN  /\ At(t, "registerAccept")
      /\ GetSessionInto(s, "recv")
      /\ \/ PostIo(s, "accept")
         \/ "acceptSync" \in Faults /\ UNCHANGED io
      /\ Goto(t, "setListener")
      /\ UNCHANGED <<state, table, listener, sending, up, pendingAccepts,
                     cur, done, post, frames, then, crashed>>

SetListener(t) ==
  /\ At(t, "setListener")
  /\ listener' = [listener EXCEPT ![post[t]] = TRUE]
  /\ Goto(t, "dropPost")
  /\ UNCHANGED <<state, refs, table, ovPtr, io, sending, up, pendingAccepts,
                 cur, done, post, frames, then, crashed>>

(* The sessionPtr of one round of the loop is destroyed. *)
DropPost(t) ==
  /\ At(t, "dropPost")
  /\ ReleaseRef(t, post[t], "accept")
  /\ UNCHANGED <<state, table, ovPtr, io, listener, sending, up, pendingAccepts,
                 cur, done, crashed>>

(* mutant: no postReleaseFunc_. *)
PushOnly(t) ==
  /\ At(t, "push")
  /\ state' = [state EXCEPT ![post[t]] = "idle"]
  /\ post' = [post EXCEPT ![t] = NoSlot]
  /\ ReturnPostAccept(t)
  /\ UNCHANGED <<refs, table, ovPtr, io, listener, sending, up, pendingAccepts,
                 cur, done, then, crashed>>

(* ReleaseRef after the fetch_sub: Push, then postReleaseFunc_. *)
Push(t) ==
  /\ At(t, "push")
  /\ state' = [state EXCEPT ![post[t]] = "idle"]
  /\ post' = [post EXCEPT ![t] = NoSlot]
  /\ Goto(t, "accept")
  /\ UNCHANGED <<refs, table, ovPtr, io, listener, sending, up, pendingAccepts,
                 cur, done, frames, then, crashed>>

PostAccept(t) ==
  \/ AcceptLoop(t)
  \/ \E s \in Slot : CreateSession(t, s)
  \/ CreateSessionFails(t) \/ UndoAccept(t)
  \/ RegisterAccept(t) \/ SetListener(t) \/ DropPost(t) \/ Push(t)

-----------------------------------------------------------------------------
(* IocpCore::WorkerThread *)

(* The failures a completion may report. *)
MayFail(k) ==
  CASE k = "accept" -> "acceptError" \in Faults
    [] k = "disc" -> "discError" \in Faults
    [] OTHER -> "ioError" \in Faults

(* mutant: WorkerThread uses the sessionPtr_ without copying it. *)
DequeueWithoutCopy(t, s, k, failed) ==
  /\ At(t, "wait")
  /\ k \in io[s]
  /\ failed => MayFail(k)
  /\ io' = [io EXCEPT ![s] = @ \ {k}]
  /\ up' = [up EXCEPT ![s] = IF k = "accept" THEN ~failed ELSE @]
  /\ cur' = [cur EXCEPT ![t] = s]
  /\ done' = [done EXCEPT ![t] = [io |-> k, failed |-> failed]]
  /\ Goto(t, "dispatch")
  /\ UNCHANGED <<state, refs, table, ovPtr, listener, sending, pendingAccepts,
                 post, frames, then, crashed>>

(* A completion is dequeued and its sessionPtr_ copied; an accept is counted  *)
(* off through the session's listener_, if that is set yet.                   *)
Dequeue(t, s, k, failed) ==
  /\ At(t, "wait")
  /\ k \in io[s]
  /\ failed => MayFail(k)
  /\ io' = [io EXCEPT ![s] = @ \ {k}]
  /\ up' = [up EXCEPT ![s] = CASE k = "accept" -> ~failed
                               [] k = "disc" -> FALSE
                               [] OTHER -> @]
  /\ IF OvOf(k) \notin ovPtr[s] \/ (k = "accept" /\ ~listener[s])
     THEN /\ crashed' = TRUE
          /\ UNCHANGED <<refs, pendingAccepts, thread>>
     ELSE /\ refs' = [refs EXCEPT ![s] = @ + 1]
          /\ cur' = [cur EXCEPT ![t] = s]
          /\ done' = [done EXCEPT ![t] = [io |-> k, failed |-> failed]]
          /\ IF k = "accept"
             THEN /\ pendingAccepts' = pendingAccepts - 1
                  /\ CallPostAccept(t, "dispatch")
                  /\ Goto(t, "accept")
             ELSE /\ Goto(t, "dispatch")
                  /\ UNCHANGED <<pendingAccepts, frames, then>>
          /\ UNCHANGED <<post, crashed>>
  /\ UNCHANGED <<state, table, ovPtr, listener, sending>>

(* The reference of the OverlappedEx is dropped, except by HandleError for a  *)
(* failed disconnect.                                                         *)
Dispatch(t) ==
  LET s == cur[t]
      k == done[t].io
      failed == done[t].failed
  IN  /\ At(t, "dispatch")
      /\ IF failed /\ k = "disc"
         THEN UNCHANGED <<refs, ovPtr>>
         ELSE /\ refs' = [refs EXCEPT ![s] = @ - 1]
              /\ ovPtr' = [ovPtr EXCEPT ![s] = @ \ {OvOf(k)}]
      /\ \/ k = "disc" /\ Goto(t, "reset")
         \/ k # "disc" /\ failed /\ Goto(t, "disconnect")
         \/ k = "accept" /\ ~failed /\ Goto(t, "connect")
         \/ k = "send" /\ ~failed /\ Goto(t, "onSend")
         \/ k = "recv" /\ ~failed /\ Goto(t, "registerRecv")  \* whole packets
         \/ k = "recv" /\ ~failed /\ Goto(t, "disconnect")    \* closed, bad size
      /\ UNCHANGED <<state, table, io, listener, sending, up, pendingAccepts,
                     cur, done, post, frames, then, crashed>>

(* HandleAccept up to the critical section of Connect. *)
Connect(t) ==
  LET s == cur[t]
  IN  /\ At(t, "connect")
      /\ \/ /\ state[s] = "pending"
            /\ state' = [state EXCEPT ![s] = "connected"]
            /\ Goto(t, "welcome")
         \/ /\ state[s] # "pending" \/ "sockopt" \in Faults
            /\ Goto(t, "disconnect")
            /\ UNCHANGED state
      /\ UNCHANGED <<refs, table, ovPtr, io, listener, sending, up, pendingAccepts,
                     cur, done, post, frames, then, crashed>>

PostFault(k) == IF k = "recv" THEN "recvPost" ELSE "sendPost"

(* mutant: the operation is posted without a reference. *)
RegisterIoWithoutRef(t, s, k, ok, bad) ==
  \/ up[s] /\ PostIo(s, k) /\ Goto(t, ok) /\ UNCHANGED <<refs, ovPtr>>
  \/ ~up[s] /\ Goto(t, bad) /\ UNCHANGED <<refs, ovPtr, io>>

(* Register one WSARecv or WSASend; `ok` and `bad` are where its caller goes. *)
(* A refused one leaves isSending_ as it was set.                             *)
RegisterIo(t, s, k, ok, bad) ==
  \/ /\ up[s]
     /\ GetSessionInto(s, k)
     /\ PostIo(s, k)
     /\ Goto(t, ok)
  \/ /\ ~up[s] \/ PostFault(k) \in Faults
     /\ Goto(t, bad)
     /\ UNCHANGED <<refs, ovPtr, io>>

(* Connect sends the welcome packet.  A send in progress would take it along. *)
SendWelcome(t) ==
  LET s == cur[t]
  IN  /\ At(t, "welcome")
      /\ sending' = [sending EXCEPT ![s] = TRUE]
      /\ IF sending[s]
         THEN Goto(t, "registerRecv") /\ UNCHANGED <<refs, ovPtr, io>>
         ELSE RegisterIo(t, s, "send", "registerRecv", "disconnect")
      /\ UNCHANGED <<state, table, listener, up, pendingAccepts,
                     cur, done, post, frames, then, crashed>>

RegisterRecv(t) ==
  /\ At(t, "registerRecv")
  /\ RegisterIo(t, cur[t], "recv", "drop", "disconnect")
  /\ UNCHANGED <<state, table, listener, sending, up, pendingAccepts,
                 cur, done, post, frames, then, crashed>>

(* mutant: isSending_ is cleared before the rest is sent. *)
OnSendClearsFlag(t) ==
  LET s == cur[t]
  IN  /\ At(t, "onSend")
      /\ sending' = [sending EXCEPT ![s] = FALSE]
      /\ \/ Goto(t, "drop") /\ UNCHANGED <<refs, ovPtr, io>>
         \/ RegisterIo(t, s, "send", "drop", "disconnect")
      /\ UNCHANGED <<state, table, listener, up, pendingAccepts,
                     cur, done, post, frames, then, crashed>>

(* OnSend: the buffer is drained, or it holds more and is sent again. *)
OnSend(t) ==
  LET s == cur[t]
  IN  /\ At(t, "onSend")
      /\ \/ /\ sending' = [sending EXCEPT ![s] = FALSE]
            /\ Goto(t, "drop")
            /\ UNCHANGED <<refs, ovPtr, io>>
         \/ /\ UNCHANGED sending
            /\ RegisterIo(t, s, "send", "drop", "disconnect")
      /\ UNCHANGED <<state, table, listener, up, pendingAccepts,
                     cur, done, post, frames, then, crashed>>

(* mutant: a session that disconnects already is disconnected again. *)
DisconnectAgain(t) ==
  /\ At(t, "disconnect")
  /\ state' = [state EXCEPT ![cur[t]] = "disconnecting"]
  /\ Goto(t, "registerDisc")
  /\ UNCHANGED <<refs, table, ovPtr, io, listener, sending, up, pendingAccepts,
                 cur, done, post, frames, then, crashed>>

(* The critical section of Disconnect. *)
Disconnect(t) ==
  LET s == cur[t]
  IN  /\ At(t, "disconnect")
      /\ IF state[s] \in {"pending", "connected"}
         THEN /\ state' = [state EXCEPT ![s] = "disconnecting"]
              /\ Goto(t, "registerDisc")
         ELSE Goto(t, "drop") /\ UNCHANGED state
      /\ UNCHANGED <<refs, table, ovPtr, io, listener, sending, up, pendingAccepts,
                     cur, done, post, frames, then, crashed>>

(* DisconnectEx fails at once on a socket that is not connected; its BOOL is  *)
(* compared with SOCKET_ERROR too, so the failure goes unnoticed.             *)
RegisterDisconnect(t) ==
  LET s == cur[t]
  IN  /\ At(t, "registerDisc")
      /\ GetSessionInto(s, "disc")
      /\ \/ up[s] /\ PostIo(s, "disc")
         \/ (~up[s] \/ "discSync" \in Faults) /\ UNCHANGED io
      /\ Goto(t, "drop")
      /\ UNCHANGED <<state, table, listener, sending, up, pendingAccepts,
                     cur, done, post, frames, then, crashed>>

(* mutant: the entry of sessionPtrs_ is never released. *)
ResetNothing(t) ==
  /\ At(t, "reset")
  /\ Goto(t, "drop")
  /\ UNCHANGED <<session, pendingAccepts, cur, done, post, frames, then, crashed>>

(* Session::Reset: sessionPtrs_[idx].Reset() releases first ... *)
ResetSession(t) ==
  LET s == cur[t]
  IN  /\ At(t, "reset")
      /\ IF table[s] = "set"
         THEN ReleaseRef(t, s, "nulling")
         ELSE Goto(t, "nulling") /\ UNCHANGED <<refs, post, frames, then>>
      /\ table' = [table EXCEPT ![s] = "released"]
      /\ UNCHANGED <<state, ovPtr, io, listener, sending, up, pendingAccepts,
                     cur, done, crashed>>

(* ... and clears pool_ and handle_ afterwards. *)
ClearPtr(t) ==
  /\ At(t, "nulling")
  /\ table' = [table EXCEPT ![cur[t]] = "null"]
  /\ Goto(t, "drop")
  /\ UNCHANGED <<state, refs, ovPtr, io, listener, sending, up, pendingAccepts,
                 cur, done, post, frames, then, crashed>>

(* The sessionPtr of WorkerThread is destroyed. *)
Drop(t) ==
  /\ At(t, "drop")
  /\ ReleaseRef(t, cur[t], "wait")
  /\ cur' = [cur EXCEPT ![t] = NoSlot]
  /\ done' = [done EXCEPT ![t] = NoDone]
  /\ UNCHANGED <<state, table, ovPtr, io, listener, sending, up, pendingAccepts,
                 crashed>>

(* Where a handler copies sessionPtrs_[idx] of its session. *)
GetsSession(t) ==
  \/ At(t, "registerRecv")
  \/ At(t, "welcome") /\ ~sending[cur[t]]
  \/ At(t, "onSend")
  \/ At(t, "registerDisc")

(* The copy races with Reset of sessionPtrs_[idx], which clears pool_ and     *)
(* handle_ in two stores: pool_ can be read before and handle_ after, and     *)
(* AddRef is then called for kInvalidHandle, outside the pool.                *)
TornGetSession(t) ==
  /\ GetsSession(t)
  /\ table[cur[t]] = "released"
  /\ crashed' = TRUE
  /\ UNCHANGED <<session, pendingAccepts, thread>>

Handle(t) ==
  \/ Dispatch(t) \/ Connect(t) \/ SendWelcome(t) \/ RegisterRecv(t) \/ OnSend(t)
  \/ Disconnect(t) \/ RegisterDisconnect(t) \/ ResetSession(t) \/ ClearPtr(t)
  \/ Drop(t)
  \/ TornGetSession(t)

Next ==
  \/ \E t \in Thread : PostAccept(t)
  \/ \E t \in Worker : Handle(t)
  \/ \E t \in Worker, s \in Slot, k \in IoType, failed \in BOOLEAN :
       Dequeue(t, s, k, failed)

Spec == Init /\ [][Next]_vars

-----------------------------------------------------------------------------
(* Fairness.  The scheduler runs every thread.  The completion queue is a     *)
(* FIFO the workers come back to, so a finished operation is dequeued; sends  *)
(* and disconnects finish, a receive surely does once the socket is down, an  *)
(* accept may wait for a client for ever.                                     *)
ThreadStep(t) == PostAccept(t) \/ (t \in Worker /\ Handle(t))

Completes(s, k) ==
  /\ k = "recv" => ~up[s]
  /\ k # "accept"
  /\ \E t \in Worker, failed \in BOOLEAN : Dequeue(t, s, k, failed)

FairSpec ==
  /\ Spec
  /\ \A t \in Thread : WF_vars(ThreadStep(t))
  /\ \A s \in Slot, k \in IoType : SF_vars(Completes(s, k))

-----------------------------------------------------------------------------
(* The pointers to a session that exist: the table, the OverlappedEx, the     *)
(* worker that handles a completion, the PostAccept that set it up.           *)
Holders(s) ==
  {<<"table", x>> : x \in {table[s]} \cap {"set"}}
    \cup {<<"ov", o>> : o \in ovPtr[s]}
    \cup {<<"cur", t>> : t \in {u \in Thread : cur[u] = s}}
    \cup {<<"post", t>> : t \in {u \in Thread : post[u] = s /\ pc[u] # "push"}}

(* refCount_ is the number of SharedPoolPtrs to the session, whatever order   *)
(* the workers copy, release and drop them in: none is lost or counted twice. *)
RefCountExact == \A s \in Slot : refs[s] = Cardinality(Holders(s))

(* A session goes back to the pool clean: nothing of its last connection, an  *)
(* operation in the kernel, an OverlappedEx, the table, can reach into the    *)
(* next one, whose PostAccept takes it from the pool as it is.                *)
IdleIsClean ==
  \A s \in Slot : state[s] = "idle" =>
    /\ io[s] = {} /\ ovPtr[s] = {} /\ table[s] = "null"
    /\ \A t \in Thread : cur[t] # s /\ post[t] # s

(* A session is returned once, and only after it was disconnected: no order   *)
(* of releases returns a session that is still pending or connected.          *)
ReturnedOnce ==
  \A t \in Thread : pc[t] = "push" =>
    /\ state[post[t]] = "disconnecting"
    /\ \A u \in Thread \ {t} : pc[u] = "push" => post[u] # post[t]

(* The OVERLAPPED a thread is about to zero and post, by ioType_.             *)
AboutToPost(t) ==
  CASE pc[t] = "registerAccept" -> {<<post[t], "recv">>}
    [] pc[t] = "registerRecv" -> {<<cur[t], "recv">>}
    [] pc[t] = "welcome" /\ ~sending[cur[t]] -> {<<cur[t], "send">>}
    [] pc[t] = "onSend" -> {<<cur[t], "send">>}
    [] pc[t] = "registerDisc" -> {<<cur[t], "disc">>}
    [] OTHER -> {}

(* ZeroMemory and the re-use of an OVERLAPPED never hit one the kernel still  *)
(* owns, nor one that another thread is about to post: one recv or accept,    *)
(* one send and one disconnect at a time, and one disconnect for good.        *)
OverlappedExclusive ==
  \A t \in Thread : \A p \in AboutToPost(t) :
    /\ p[2] \notin {OvOf(k) : k \in io[p[1]]}
    /\ p[2] \notin ovPtr[p[1]]
    /\ \A u \in Thread \ {t} : p \notin AboutToPost(u)

(* Every operation in the kernel keeps its session alive: the sessionPtr_ a   *)
(* worker copies from the dequeued OverlappedEx is never null.                *)
CompletionHasSession ==
  \A s \in Slot : {OvOf(k) : k \in io[s]} \subseteq ovPtr[s]

(* Session::Reset clears sessionPtrs_[idx] after releasing it.  Were that the *)
(* last reference, PostAccept would run in between, could take the session    *)
(* again, and the new entry would be wiped.                                   *)
ResetIsNotLast ==
  \A t \in Worker :
    /\ pc[t] = "reset" => refs[cur[t]] > 1
    /\ pc[t] = "nulling" => table[cur[t]] = "released"

(* The assert of OnSend and RegisterSend, and that isSending_ is never raised *)
(* again while the operation it stands for is out.                            *)
SendingFlag ==
  \A s \in Slot :
    "send" \in ovPtr[s] \/ (\E t \in Worker : cur[t] = s /\ pc[t] = "onSend")
      => sending[s]

(* The accepts that are posted or about to be. *)
Reserving == {t \in Thread : pc[t] \in {"create", "undo", "registerAccept"}}
Accepting == {s \in Slot : "accept" \in io[s]}

(* pendingAccepts_ counts the accepts in the kernel, up to the threads that   *)
(* are between its increment and AcceptEx, and stays within kMaxAccept.       *)
PendingAcceptsExact ==
  crashed \/ /\ pendingAccepts = Cardinality(Accepting) + Cardinality(Reserving)
             /\ pendingAccepts <= MaxAccept

(* The server never goes deaf: when no thread is inside PostAccept, an idle   *)
(* session means that an accept is posted.  A PostAccept that gave up because *)
(* of another thread's reservation can only do harm if all of pendingAccepts_ *)
(* were such reservations, which kMaxAccept >= number of threads excludes.    *)
NotDeaf ==
  MaxAccept >= Cardinality(Thread) =>
    ((\A t \in Thread : frames[t] = 0) /\ (\E s \in Slot : state[s] = "idle")
       => Accepting # {} \/ crashed)

(* A session in the pool is put to use again: an accept is posted for it or   *)
(* for another one, however the threads inside PostAccept overtake each other.*)
AcceptsResume ==
  MaxAccept >= Cardinality(Thread) =>
    ((\E s \in Slot : state[s] = "idle")
       ~> (Accepting # {} \/ (\A s \in Slot : state[s] # "idle") \/ crashed))

(* A session that is in use has someone to bring it back to the pool: the     *)
(* kernel has an operation of it or a thread works on it.  No order of        *)
(* completions, refusals and releases leaves it referenced by nothing but its *)
(* table entry or its own OverlappedEx, unless a failure that goes unnoticed  *)
(* (AcceptEx, DisconnectEx and their completions) does.                       *)
Unnoticed == {"acceptSync", "acceptError", "discSync", "discError"}

NobodyStranded ==
  Faults \cap Unnoticed = {} /\ ~crashed =>
    \A s \in Slot : state[s] # "idle" =>
      io[s] # {} \/ \E t \in Thread : cur[t] = s \/ post[t] = s

(* A session that starts to disconnect gets back to the pool.                 *)
DisconnectCompletes ==
  \A s \in Slot : state[s] = "disconnecting" ~> (state[s] = "idle" \/ crashed)

(* Tests/Integration/03_ConnectionStress.cpp:61 asks that the server does not *)
(* go down while clients connect and disconnect.                              *)
ServerStaysUp == ~crashed

(* There are two races in which it does: an accept that completes before its  *)
(* listener_ is set, and a copy of the table entry of the same session while  *)
(* Reset clears it.  No other step of any thread meets a null or torn pointer. *)
InRace ==
  \E t \in Thread :
    \/ pc[t] = "setListener" /\ io'[post[t]] # io[post[t]]
    \/ pc[t] = "nulling" /\ \E u \in Worker : GetsSession(u) /\ cur[u] = cur[t]

CrashesOnlyInRaces == [][crashed' /\ ~crashed => InRace]_vars

(* The same of the copies of sessionPtrs_[idx] alone.                         *)
SessionsAreReadWhole ==
  [][\A t \in Worker : ~TornGetSession(t)]_vars

-----------------------------------------------------------------------------
(* Where a session is in its cycle: a PostAccept has taken it and not posted  *)
(* the accept yet, a Disconnect has passed and not posted DisconnectEx yet,   *)
(* or its state in the pool says it.                                          *)
phase ==
  [s \in Slot |->
     CASE /\ state[s] = "pending"
          /\ \E t \in Thread : pc[t] = "registerAccept" /\ post[t] = s -> "taken"
       [] /\ state[s] = "disconnecting"
          /\ \E t \in Thread : pc[t] = "registerDisc" /\ cur[t] = s -> "ending"
       [] OTHER -> state[s]]

(* The handlers, their references and the two critical sections of a session  *)
(* amount to one state machine per session, whatever runs at the same time.   *)
Cycle == INSTANCE ConnectionCycle
GoesRoundTheCycle == Cycle!Spec
=============================================================================
