-------------------------- MODULE PacketWorkerProofs --------------------------
(***************************************************************************)
(* A packet worker that sends beside the IO workers takes nothing from what  *)
(* SessionLifecycleProofs shows of them, and leaves no packet behind.        *)
(*                                                                          *)
(* The packet worker takes references the IO workers do not know of.  That    *)
(* they are taken from a live session needs Down: a socket is up only while   *)
(* the session is in the table and not waiting for an accept.  NobodyMuted    *)
(* needs that nothing was sent to the session before it was connected         *)
(* (Hush), which is where Patience comes in: it lets the packet worker send   *)
(* to sessions that are connected and stay so, while any other session may    *)
(* disconnect, return to the pool and come back beside it.                    *)
(*                                                                          *)
(* The last part carries Round and the refinement of ConnectionCycle over: a *)
(* send of the packet worker is a Transfer, and the end of that send has a    *)
(* worker to follow it like any other.                                       *)
(***************************************************************************)
EXTENDS PacketWorker, SessionLifecycleProofs

(* A socket that waits for its accept is not up. *)
Down ==
  /\ \A s \in Slot : "accept" \in io[s] => ~up[s]
  /\ \A t \in Thread : pc[t] = "registerAccept" => ~up[post[t]]

(* The welcome is sent by the thread that connected the session. *)
Welcomed == \A t \in Thread : pc[t] = "welcome" => state[cur[t]] # "pending"

(* Nothing is sent before. *)
Hush == \A s \in Slot : state[s] = "pending" => ~sending[s]

(* What keeps a session from falling silent. *)
Tended(s) ==
  \/ "send" \in io[s]
  \/ \E t \in Io : cur[t] = s /\ \/ pc[t] = "disconnect"
                                 \/ done[t].io = "send" /\ pc[t] \in {"dispatch", "onSend"}
  \/ crashed

Covered(s) == state[s] = "connected" /\ sending[s] => Tended(s)

(* Where the packet worker is and what it works on. *)
OnTask ==
  /\ tasks \in Seq(Task)
  /\ step \in {"pop", "find", "send", "list", "pick", "copied", "release"}
  /\ IF step = "pop" THEN job = NoTask ELSE job \in Task
  /\ step \in {"list", "pick", "copied", "release"} => job.kind = "chat"
  /\ step = "find" => job.kind \in {"login", "logout"}
  /\ step \in {"copied", "release"} => pc[Packet] = "drop" /\ cur[Packet] \in Slot
  /\ step \notin {"copied", "release"} => cur[Packet] = NoSlot
  /\ targets \subseteq Slot \ {job.slot}
  /\ targets # {} => step \in {"pick", "copied", "release"}
  /\ refused \subseteq Slot

(* Nobody is silent but who was refused. *)
Heard == \A s \in Slot \ refused : Covered(s)

(* The inductive invariant. *)
PInv == IInv /\ Down /\ Welcomed /\ OnTask /\ Patience /\ Hush /\ Heard

-----------------------------------------------------------------------------
(* A step that leaves sockets, accepts and the welcome alone. *)
LEMMA DownSame ==
  ASSUME IInv, Down, Welcomed, UNCHANGED up,
         \A s \in Slot : "accept" \in io'[s] => "accept" \in io[s],
         \A s \in Slot : state'[s] = "pending" => state[s] = "pending",
         \A t \in Thread : /\ pc'[t] = "registerAccept" => /\ pc[t] = "registerAccept"
                                                          /\ post'[t] = post[t]
                           /\ pc'[t] = "welcome" => /\ pc[t] = "welcome"
                                                   /\ cur'[t] = cur[t]
  PROVE  Down' /\ Welcomed'
BY Subject DEF IInv, Down, Welcomed, HandlePC

(* No step of the server brings a socket up that waits for its accept. *)
LEMMA DownNext ==
  ASSUME IInv, Down, Welcomed, [Next]_vars
  PROVE  Down' /\ Welcomed'
<1> USE DEF At, Goto
<1>t. TypeOK
  BY DEF IInv
<1>1. ASSUME NEW t \in Thread, PostAccept(t) PROVE Down' /\ Welcomed'
  <2> USE <1>t
  <2>1. CASE AcceptLoop(t)
    BY <2>1, DownSame, Subject DEF AcceptLoop, ReturnPostAccept, session,
       TypeOK, IInv, Control, IdlePC, AcceptPC
  <2>2. ASSUME NEW s \in Slot, CreateSession(t, s) PROVE Down' /\ Welcomed'
    <3>1. table[s] = "null" /\ ~up[s] /\ \A u \in Thread : cur[u] # s
      BY <2>2 DEF CreateSession, IInv, Life, IdleIsClean
    <3> QED
      BY <2>2, <3>1, Subject DEF CreateSession, Down, Welcomed, TypeOK, IInv, HandlePC
  <2>3. CASE CreateSessionFails(t) \/ UndoAccept(t)
    BY <2>3, DownSame DEF CreateSessionFails, UndoAccept, ReturnPostAccept, session,
       TypeOK, IInv, Control, IdlePC, AcceptPC
  <2>4. CASE RegisterAccept(t)
    BY <2>4, Subject DEF RegisterAccept, PostIo, Down, Welcomed, TypeOK, IInv, PostPC
  <2>5. CASE SetListener(t)
    BY <2>5, DownSame DEF SetListener, TypeOK
  <2>6. CASE DropPost(t)
    BY <2>6, DownSame DEF DropPost, ReleaseRef, TypeOK
  <2>7. CASE Push(t)
    BY <2>7, DownSame DEF Push, TypeOK
  <2> QED
    BY <1>1, <2>1, <2>2, <2>3, <2>4, <2>5, <2>6, <2>7 DEF PostAccept
<1>2. ASSUME NEW t \in Worker, Handle(t) PROVE Down' /\ Welcomed'
  <2> USE <1>t DEF Thread
  <2>1. CASE Dispatch(t)
    BY <2>1, DownSame DEF Dispatch, TypeOK
  <2>2. CASE Connect(t)
    <3>1. cur[t] \in Slot
      BY <2>2, Subject DEF Connect, IInv, HandlePC
    <3> QED
      BY <2>2, <3>1, Subject DEF Connect, Down, Welcomed, TypeOK, IInv, HandlePC
  <2>3. CASE SendWelcome(t)
    BY <2>3, DownSame DEF SendWelcome, RegisterIo, PostIo, TypeOK
  <2>4. CASE RegisterRecv(t)
    BY <2>4, DownSame DEF RegisterRecv, RegisterIo, PostIo, TypeOK
  <2>5. CASE OnSend(t)
    BY <2>5, DownSame DEF OnSend, RegisterIo, PostIo, TypeOK
  <2>6. CASE Disconnect(t)
    BY <2>6, DownSame DEF Disconnect, TypeOK
  <2>7. CASE RegisterDisconnect(t)
    BY <2>7, DownSame DEF RegisterDisconnect, PostIo, TypeOK
  <2>8. CASE ResetSession(t)
    BY <2>8, DownSame DEF ResetSession, ReleaseRef, TypeOK
  <2>9. CASE ClearPtr(t)
    BY <2>9, DownSame DEF ClearPtr, TypeOK
  <2>10. CASE Drop(t)
    BY <2>10, DownSame DEF Drop, ReleaseRef, TypeOK
  <2>11. CASE TornGetSession(t)
    BY <2>11, DownSame DEF TornGetSession, session, thread
  <2> QED
    BY <1>2, <2>1, <2>2, <2>3, <2>4, <2>5, <2>6, <2>7, <2>8, <2>9, <2>10, <2>11 DEF Handle
<1>3. ASSUME NEW t \in Worker, NEW s \in Slot, NEW k \in IoType, NEW failed \in BOOLEAN,
             Dequeue(t, s, k, failed)
      PROVE  Down' /\ Welcomed'
  <2>1. /\ k \in io[s] /\ io' = [io EXCEPT ![s] = @ \ {k}]
        /\ up' = [up EXCEPT ![s] = CASE k = "accept" -> ~failed
                                     [] k = "disc" -> FALSE [] OTHER -> @]
    BY <1>3 DEF Dequeue
  <2>2. \A u \in Thread : pc[u] = "registerAccept" => io[post[u]] = {} /\ post[u] \in Slot
    BY Subject DEF IInv, New, PostPC
  <2>3. \A u \in Thread : /\ pc'[u] = "registerAccept" => pc[u] = "registerAccept"
                          /\ pc'[u] = "welcome" => pc[u] = "welcome" /\ cur'[u] = cur[u]
    BY <1>3, <1>t DEF Dequeue, thread, Thread, TypeOK
  <2>4. \A x \in Slot : /\ "accept" \in io'[x] => "accept" \in io[x] /\ up'[x] = up[x]
                        /\ io[x] = {} => up'[x] = up[x]
    <3>1. \A x \in Slot \ {s} : io'[x] = io[x] /\ up'[x] = up[x]
      BY <2>1, <1>t DEF TypeOK
    <3>2. "accept" \notin io'[s]
      BY <2>1, <1>t DEF TypeOK, IInv, Recv
    <3> QED
      BY <2>1, <3>1, <3>2
  <2>5. state' = state /\ post' = post
    BY <1>3 DEF Dequeue, thread
  <2>6. Down'
    BY <2>2, <2>3, <2>4, <2>5 DEF Down
  <2> QED
    BY <2>3, <2>5, <2>6 DEF Welcomed
<1>4. CASE UNCHANGED vars
  BY <1>4, DownSame DEF vars, session, thread
<1> QED
  BY <1>1, <1>2, <1>3, <1>4 DEF Next

-----------------------------------------------------------------------------
(* A step of a thread that tends to no send. *)
LEMMA CoversSame ==
  ASSUME IInv, Hush, NEW t \in Thread,
         t \in Io => pc[t] \notin {"disconnect", "dispatch", "onSend"},
         \A u \in Thread \ {t} : pc'[u] = pc[u] /\ cur'[u] = cur[u] /\ done'[u] = done[u],
         crashed => crashed',
         \A s \in Slot : state'[s] = "connected" => state[s] = "connected",
         \A s \in Slot : state'[s] = "pending" => state[s] = "pending",
         \A s \in Slot : sending'[s] => sending[s],
         \A s \in Slot : "send" \in io[s] => "send" \in io'[s]
  PROVE  Hush' /\ \A s \in Slot : Covered(s) => Covered(s)'
<1>1. \A s \in Slot : Tended(s) => Tended(s)'
  BY DEF Tended, Io, Thread
<1> QED
  BY <1>1 DEF Hush, Covered

(* PostAccept and the last drop tend to none. *)
LEMMA CoversPostAccept ==
  ASSUME IInv, Hush, NEW t \in Thread, PostAccept(t) \/ Drop(t)
  PROVE  Hush' /\ \A s \in Slot : Covered(s) => Covered(s)'
<1> USE DEF At, Goto
<1>t. TypeOK
  BY DEF IInv
<1>1. CASE AcceptLoop(t)
  BY <1>1, <1>t, CoversSame DEF AcceptLoop, ReturnPostAccept, session, TypeOK
<1>2. ASSUME NEW s \in Slot, CreateSession(t, s)
      PROVE  Hush' /\ \A x \in Slot : Covered(x) => Covered(x)'
  <2>1. /\ state' = [state EXCEPT ![s] = "pending"]
        /\ sending' = [sending EXCEPT ![s] = FALSE]
        /\ pc[t] = "create" /\ pc' = [pc EXCEPT ![t] = "registerAccept"]
        /\ io' = io /\ cur' = cur /\ done' = done /\ crashed' = crashed
    BY <1>2 DEF CreateSession
  <2>2. \A x \in Slot \ {s} : Covered(x) => Covered(x)'
    BY <2>1, <1>t DEF Covered, Tended, TypeOK, Io, Thread
  <2>3. Hush' /\ Covered(s)'
    BY <2>1, <1>t DEF Hush, Covered, TypeOK
  <2> QED
    BY <2>2, <2>3
<1>3. CASE CreateSessionFails(t) \/ UndoAccept(t)
  BY <1>3, <1>t, CoversSame
     DEF CreateSessionFails, UndoAccept, ReturnPostAccept, session, TypeOK
<1>4. CASE RegisterAccept(t)
  BY <1>4, <1>t, CoversSame, Subject DEF RegisterAccept, PostIo, TypeOK, IInv, PostPC
<1>5. CASE SetListener(t)
  BY <1>5, <1>t, CoversSame DEF SetListener, TypeOK
<1>6. CASE DropPost(t)
  BY <1>6, <1>t, CoversSame DEF DropPost, ReleaseRef, TypeOK
<1>7. CASE Push(t)
  BY <1>7, <1>t, CoversSame DEF Push, TypeOK
<1>8. CASE Drop(t)
  BY <1>8, <1>t, CoversSame DEF Drop, ReleaseRef, TypeOK
<1> QED
  BY <1>1, <1>2, <1>3, <1>4, <1>5, <1>6, <1>7, <1>8 DEF PostAccept

(* A handler that raised isSending_ posts the send or disconnects. *)
LEMMA CoversHandle ==
  ASSUME IInv, Welcomed, Hush, NEW t \in Io, Handle(t)
  PROVE  Hush' /\ \A s \in Slot : Covered(s) => Covered(s)'
<1> USE DEF At, Goto
<1>t. TypeOK /\ t \in Thread
  BY DEF IInv, Io, Thread
<1>c. pc[t] \in HandlePC => cur[t] \in Slot
  BY <1>t, Subject DEF IInv
<1>1. CASE Dispatch(t)
  <2>1. /\ pc[t] = "dispatch"
        /\ \E next \in {"disconnect", "onSend", "reset", "connect", "registerRecv"} :
             /\ pc' = [pc EXCEPT ![t] = next]
             /\ done[t].io = "send" => next \in {"disconnect", "onSend"}
        /\ state' = state /\ sending' = sending /\ io' = io
        /\ cur' = cur /\ done' = done /\ crashed' = crashed
    BY <1>1 DEF Dispatch
  <2>2. \A s \in Slot : Tended(s) => Tended(s)'
    BY <2>1, <1>t DEF Tended, TypeOK, Io, Thread
  <2> QED
    BY <2>1, <2>2 DEF Covered, Hush
<1>2. CASE Connect(t)
  <2>1. /\ pc[t] = "connect" /\ sending' = sending /\ io' = io
        /\ \A s \in Slot : state'[s] # state[s] =>
             state[s] = "pending" /\ state'[s] = "connected"
        /\ pc' = [pc EXCEPT ![t] = "welcome"] \/ pc' = [pc EXCEPT ![t] = "disconnect"]
        /\ cur' = cur /\ done' = done /\ crashed' = crashed
    BY <1>2, <1>t DEF Connect, TypeOK
  <2>2. \A s \in Slot : Tended(s) => Tended(s)'
    BY <2>1, <1>t DEF Tended, TypeOK, Io, Thread
  <2> QED
    BY <2>1, <2>2 DEF Covered, Hush
<1>3. CASE SendWelcome(t)
  <2> DEFINE s == cur[t]
  <2>1. /\ pc[t] = "welcome" /\ s \in Slot /\ state[s] # "pending"
        /\ sending' = [sending EXCEPT ![s] = TRUE]
        /\ \E next \in {"registerRecv", "disconnect"} :
             /\ pc' = [pc EXCEPT ![t] = next]
             /\ sending[s] \/ next = "disconnect" \/ "send" \in io'[s]
        /\ \A x \in Slot : "send" \in io[x] => "send" \in io'[x]
        /\ state' = state /\ cur' = cur /\ done' = done /\ crashed' = crashed
    BY <1>3, <1>t, <1>c DEF SendWelcome, RegisterIo, PostIo, TypeOK, Welcomed, HandlePC
  <2>2. \A x \in Slot : Tended(x) => Tended(x)'
    BY <2>1, <1>t DEF Tended, TypeOK, Io, Thread
  <2>3. \A x \in Slot \ {s} : sending'[x] = sending[x]
    BY <2>1, <1>t DEF TypeOK
  <2>4. sending[s] \/ Tended(s)'
    BY <2>1, <1>t DEF Tended, TypeOK
  <2> QED
    BY <2>1, <2>2, <2>3, <2>4 DEF Covered, Hush
<1>4. CASE RegisterRecv(t)
  BY <1>4, <1>t, <1>c, CoversSame DEF RegisterRecv, RegisterIo, PostIo, TypeOK, HandlePC
<1>5. CASE OnSend(t)
  <2> DEFINE s == cur[t]
  <2>1. /\ pc[t] = "onSend" /\ s \in Slot
        /\ \E next \in {"drop", "disconnect"} :
             /\ pc' = [pc EXCEPT ![t] = next]
             /\ ~sending'[s] \/ next = "disconnect" \/ "send" \in io'[s]
        /\ \A x \in Slot : /\ "send" \in io[x] => "send" \in io'[x]
                           /\ sending'[x] => sending[x]
        /\ state' = state /\ cur' = cur /\ done' = done /\ crashed' = crashed
    BY <1>5, <1>t, <1>c DEF OnSend, RegisterIo, PostIo, TypeOK, HandlePC
  <2>2. \A x \in Slot \ {s} : Tended(x) => Tended(x)'
    BY <2>1, <1>t DEF Tended, TypeOK, Io, Thread
  <2>3. ~sending'[s] \/ Tended(s)'
    BY <2>1, <1>t DEF Tended, TypeOK
  <2> QED
    BY <2>1, <2>2, <2>3 DEF Covered, Hush
<1>6. CASE Disconnect(t)
  <2> DEFINE s == cur[t]
  <2>1. /\ pc[t] = "disconnect" /\ s \in Slot
        /\ pc' = [pc EXCEPT ![t] = "registerDisc"] \/ pc' = [pc EXCEPT ![t] = "drop"]
        /\ state'[s] \notin {"pending", "connected"}
        /\ \A x \in Slot \ {s} : state'[x] = state[x]
        /\ io' = io /\ sending' = sending
        /\ cur' = cur /\ done' = done /\ crashed' = crashed
    BY <1>6, <1>t, <1>c DEF Disconnect, TypeOK, State, HandlePC
  <2>2. \A x \in Slot \ {s} : Tended(x) => Tended(x)'
    BY <2>1, <1>t DEF Tended, TypeOK, Io, Thread
  <2> QED
    BY <2>1, <2>2 DEF Covered, Hush
<1>7. CASE RegisterDisconnect(t)
  BY <1>7, <1>t, <1>c, CoversSame DEF RegisterDisconnect, PostIo, TypeOK, HandlePC
<1>8. CASE ResetSession(t)
  BY <1>8, <1>t, CoversSame DEF ResetSession, ReleaseRef, TypeOK
<1>9. CASE ClearPtr(t)
  BY <1>9, <1>t, CoversSame DEF ClearPtr, TypeOK
<1>10. CASE Drop(t)
  BY <1>10, <1>t, CoversPostAccept
<1>11. CASE TornGetSession(t)
  BY <1>11 DEF TornGetSession, session, Covered, Tended, Hush
<1> QED
  BY <1>1, <1>2, <1>3, <1>4, <1>5, <1>6, <1>7, <1>8, <1>9, <1>10, <1>11 DEF Handle

(* The worker that dequeues a send tends to it. *)
LEMMA CoversDequeue ==
  ASSUME IInv, Hush, NEW t \in Io, NEW s \in Slot, NEW k \in IoType,
         NEW failed \in BOOLEAN, Dequeue(t, s, k, failed)
  PROVE  Hush' /\ \A x \in Slot : Covered(x) => Covered(x)'
<1>t. TypeOK /\ t \in Thread
  BY DEF IInv, Io, Thread
<1>1. /\ pc[t] = "wait" /\ state' = state /\ sending' = sending
      /\ io' = [io EXCEPT ![s] = @ \ {k}]
  BY DEF Dequeue, At
<1>2. CASE crashed'
  BY <1>1, <1>2 DEF Covered, Tended, Hush
<1>3. CASE ~crashed'
  <2>1. /\ cur' = [cur EXCEPT ![t] = s]
        /\ done' = [done EXCEPT ![t] = [io |-> k, failed |-> failed]]
        /\ pc' = [pc EXCEPT ![t] = IF k = "accept" THEN "accept" ELSE "dispatch"]
        /\ crashed' = crashed
    BY <1>3 DEF Dequeue, At, Goto
  <2>2. \A x \in Slot : Tended(x) => Tended(x)'
    <3>1. \A x \in Slot : "send" \in io[x] => "send" \in io'[x] \/ (x = s /\ k = "send")
      BY <1>1, <1>t DEF TypeOK
    <3>2. k = "send" => cur'[t] = s /\ done'[t].io = "send" /\ pc'[t] = "dispatch"
      BY <2>1, <1>t DEF TypeOK
    <3> QED
      BY <1>1, <2>1, <3>1, <3>2, <1>t DEF Tended, TypeOK, Io, Thread
  <2> QED
    BY <1>1, <2>2 DEF Covered, Hush
<1> QED
  BY <1>2, <1>3

-----------------------------------------------------------------------------
(* A send from outside the handlers finds sendOv_ free and the session in the *)
(* table, if the socket is up; it takes its own reference.                    *)
LEMMA SendsIInv ==
  ASSUME IInv, Down, NEW s \in Slot, up[s], ~sending[s],
         sending' = [sending EXCEPT ![s] = TRUE],
         GetSessionInto(s, "send"), PostIo(s, "send"), Untouched
  PROVE  IInv'
<1> USE DEF IInv
<1>1. table[s] = "set" /\ "send" \notin ovPtr[s] /\ "send" \notin io[s]
  BY DEF Life, Send
<1>2. "accept" \notin io[s] /\ \A t \in Thread : pc[t] = "registerAccept" => post[t] # s
  BY DEF Down
<1>3. /\ ovPtr' = [ovPtr EXCEPT ![s] = @ \cup {"send"}]
      /\ io' = [io EXCEPT ![s] = @ \cup {"send"}]
      /\ refs' = [refs EXCEPT ![s] = @ + 1]
      /\ state' = state /\ table' = table /\ listener' = listener /\ up' = up
      /\ pendingAccepts' = pendingAccepts /\ crashed' = crashed
      /\ pc' = pc /\ cur' = cur /\ done' = done /\ post' = post
      /\ frames' = frames /\ then' = then
  BY <1>1 DEF GetSessionInto, PostIo, Untouched, thread
<1>4. RefSum' /\ refs' \in [Slot -> Nat] /\ ovPtr' \in [Slot -> SUBSET Ov]
  BY <1>1, <1>3, CopyCounted DEF Ov
<1>5. TypeOK'
  <2>1. io' \in [Slot -> SUBSET IoType] /\ sending' \in [Slot -> BOOLEAN]
    BY <1>3 DEF TypeOK, IoType
  <2> QED
    BY <1>3, <1>4, <2>1 DEF TypeOK
<1>6. /\ \A x \in Slot \ {s} : /\ io'[x] = io[x] /\ ovPtr'[x] = ovPtr[x]
                              /\ sending'[x] = sending[x] /\ refs'[x] = refs[x]
      /\ io'[s] = io[s] \cup {"send"} /\ ovPtr'[s] = ovPtr[s] \cup {"send"}
      /\ sending'[s]
  BY <1>3 DEF TypeOK
<1>7. Control'
  BY <1>3 DEF Control
<1>8. Recv'
  BY <1>2, <1>3, <1>6, Subject DEF Recv, RecvUser, Fresh, HandlePC
<1>9. Send'
  <2>1. \A t \in Thread : SendUser(t, s) => FALSE
    BY DEF Send
  <2>2. \A t \in Thread : pc[t] = "onSend" => cur[t] \in Slot /\ cur[t] # s
    BY <2>1, Subject DEF SendUser, Control, HandlePC
  <2> QED
    BY <1>3, <1>6, <2>1, <2>2 DEF Send, SendUser
<1>10. Disc'
  BY <1>3, <1>6, Subject DEF Disc, DiscUser, HandlePC
<1>11. Held'
  <2>1. CompletionHasSession'
    BY <1>3, <1>6 DEF Held, CompletionHasSession, OvOf
  <2>2. \A x \in Slot : ovPtr[x] \subseteq ovPtr'[x]
    BY <1>6
  <2>3. \A t \in Thread : Fresh(t) => cur[t] \in Slot
    BY Subject DEF Fresh, HandlePC, Control, TypeOK, AcceptPC, PostPC, IdlePC
  <2> QED
    BY <1>3, <2>1, <2>2, <2>3 DEF Held, Fresh
<1>12. Life'
  <2>1. IdleIsClean'
    BY <1>1, <1>3, <1>6 DEF Life, IdleIsClean
  <2>2. \A t \in Thread : pc[t] = "push" => post[t] \in Slot /\ post[t] # s
    <3>1. refs[s] # 0
      BY <1>1, LastHolder
    <3> QED
      BY <3>1, Subject DEF Life, PostPC
  <2> QED
    BY <1>3, <1>6, <2>1, <2>2 DEF Life
<1>13. New'
  BY <1>2, <1>3, <1>6, Subject DEF New, PostPC
<1>14. Accepts'
  BY <1>3, <1>6, AcceptsSame
<1>15. Attentive'
  BY <1>3, <1>6 DEF Attentive, Accepting
<1> QED
  BY <1>4, <1>5, <1>7, <1>8, <1>9, <1>10, <1>11, <1>12, <1>13, <1>14, <1>15

(* One that finds a send out, or is refused, changes isSending_ at most. *)
LEMMA RefusedIInv ==
  ASSUME IInv, NEW s \in Slot, sending' = [sending EXCEPT ![s] = TRUE],
         UNCHANGED <<refs, ovPtr, io>>, Untouched
  PROVE  IInv'
<1> USE DEF IInv, Untouched, thread
<1>1. TypeOK' /\ Control' /\ New'
  BY DEF TypeOK, Control, New
<1>2. RefSum'
  BY DEF RefSum, TableOf, CurOf, PostOf
<1>3. Recv' /\ Disc'
  BY DEF Recv, RecvUser, Fresh, Disc, DiscUser
<1>4. Send'
  <2>1. \A x \in Slot : sending[x] => sending'[x]
    BY DEF TypeOK
  <2> QED
    BY <2>1 DEF Send, SendUser
<1>5. Held' /\ Life'
  BY DEF Held, CompletionHasSession, Fresh, Life, IdleIsClean
<1>6. Accepts' /\ Attentive'
  BY AcceptsSame DEF Attentive, Accepting
<1> QED
  BY <1>1, <1>2, <1>3, <1>4, <1>5, <1>6

(* SendPacket leaves what the IO workers rely on, and no packet without a send. *)
LEMMA SendPacketIInv ==
  ASSUME IInv, Down, Welcomed, NEW s \in Slot, SendPacket(s), Untouched
  PROVE  /\ IInv' /\ Down' /\ Welcomed'
         /\ refused' \in {refused, refused \cup {s}}
         /\ Hush /\ state[s] = "connected" =>
              Hush' /\ \A x \in Slot \ refused' : Covered(x) => Covered(x)'
<1>t. TypeOK
  BY DEF IInv
<1>1. /\ \A x \in Slot : "send" \in io[x] => "send" \in io'[x]
      /\ \A x \in Slot : "accept" \in io'[x] => "accept" \in io[x]
      /\ sending[s] \/ "send" \in io'[s] \/ s \in refused'
      /\ refused' \in {refused, refused \cup {s}}
  BY <1>t DEF SendPacket, PostIo, TypeOK
<1>2. /\ \A x \in Slot \ {s} : sending'[x] = sending[x]
      /\ state' = state /\ up' = up /\ crashed' = crashed
      /\ pc' = pc /\ cur' = cur /\ done' = done /\ post' = post
  BY <1>t DEF SendPacket, Untouched, thread, TypeOK
<1>3. IInv'
  <2>1. CASE UNCHANGED <<refs, ovPtr, io>>
    BY <2>1, RefusedIInv DEF SendPacket
  <2>2. CASE ~sending[s] /\ up[s] /\ GetSessionInto(s, "send") /\ PostIo(s, "send")
    BY <2>2, SendsIInv DEF SendPacket
  <2> QED
    BY <2>1, <2>2 DEF SendPacket
<1>4. Down' /\ Welcomed'
  BY <1>1, <1>2, DownSame
<1>5. \A x \in Slot : Tended(x) => Tended(x)'
  BY <1>1, <1>2 DEF Tended
<1>6. s \in refused' \/ (Covered(s) => Covered(s)')
  BY <1>1, <1>2, <1>5 DEF Covered, Tended
<1>7. ASSUME Hush, state[s] = "connected"
      PROVE  Hush' /\ \A x \in Slot \ refused' : Covered(x) => Covered(x)'
  BY <1>2, <1>5, <1>6, <1>7 DEF Hush, Covered
<1> QED
  BY <1>1, <1>3, <1>4, <1>7

(* A copy of the table entry of a connected session is one reference more. *)
LEMMA PickIInv ==
  ASSUME IInv, NEW s \in Slot, Pick(s), state[s] = "connected"
  PROVE  IInv'
<1> USE PacketAssumption, LifecycleAssumption DEF IInv
<1>1. Packet \in Thread /\ pc[Packet] = "wait"
  BY DEF Pick, Running, At, Thread
<1>2. cur[Packet] = NoSlot /\ frames[Packet] = 0 /\ post[Packet] = NoSlot
  BY <1>1 DEF Control, TypeOK, AcceptPC, PostPC, IdlePC
<1>3. /\ refs' = [refs EXCEPT ![s] = @ + 1]
      /\ cur' = [cur EXCEPT ![Packet] = s]
      /\ pc' = [pc EXCEPT ![Packet] = "drop"]
      /\ state' = state /\ table' = table /\ ovPtr' = ovPtr /\ io' = io
      /\ listener' = listener /\ sending' = sending /\ up' = up
      /\ pendingAccepts' = pendingAccepts /\ crashed' = crashed
      /\ done' = done /\ post' = post /\ frames' = frames /\ then' = then
  BY DEF Pick, Goto
<1>4. /\ refs' \in [Slot -> Nat] /\ refs'[s] = refs[s] + 1
      /\ \A x \in Slot \ {s} : refs'[x] = refs[x]
  BY <1>3 DEF TypeOK
<1>5. /\ pc'[Packet] = "drop" /\ cur'[Packet] = s
      /\ \A t \in Thread \ {Packet} : pc'[t] = pc[t] /\ cur'[t] = cur[t]
  BY <1>1, <1>3 DEF TypeOK
<1>6. TypeOK'
  <2>1. pc' \in [Thread -> PC] /\ cur' \in [Thread -> Slot \cup {NoSlot}]
    BY <1>3 DEF TypeOK, PC
  <2> QED
    BY <1>3, <1>4, <2>1 DEF TypeOK
<1>7. Control'
  BY <1>1, <1>2, <1>3, <1>5 DEF Control, AcceptPC, PostPC, IdlePC
<1>8. RefSum'
  <2>1. CurOf(s)' = CurOf(s) \cup {Packet} /\ Packet \notin CurOf(s)
    BY <1>1, <1>2, <1>5 DEF CurOf
  <2>2. Cardinality(CurOf(s)') = Cardinality(CurOf(s)) + 1
    BY <2>1, Countable, CardPlus
  <2>3. \A x \in Slot \ {s} : CurOf(x)' = CurOf(x)
    BY <1>1, <1>2, <1>5 DEF CurOf
  <2>4. \A x \in Slot : TableOf(x)' = TableOf(x) /\ PostOf(x)' = PostOf(x)
    BY <1>1, <1>2, <1>3, <1>5 DEF TableOf, PostOf
  <2> SUFFICES ASSUME NEW x \in Slot
               PROVE  refs'[x] = Cardinality(TableOf(x)) + Cardinality(ovPtr[x])
                                   + Cardinality(CurOf(x)') + Cardinality(PostOf(x))
    BY <1>3, <2>4 DEF RefSum
  <2> QED
    BY <1>4, <2>2, <2>3, Countable DEF RefSum
<1>9. Recv'
  <2>1. \A x \in Slot, t \in Thread : RecvUser(t, x)' <=> RecvUser(t, x)
    BY <1>1, <1>3, <1>5 DEF RecvUser, Fresh, AcceptPC, PostPC
  <2>2. "accept" \notin io[s]
    BY DEF Recv
  <2> QED
    BY <1>1, <1>3, <1>5, <2>1, <2>2 DEF Recv
<1>10. Send'
  BY <1>1, <1>3, <1>5 DEF Send, SendUser
<1>11. Disc'
  BY <1>1, <1>3, <1>5 DEF Disc, DiscUser
<1>12. Held'
  BY <1>1, <1>3, <1>5 DEF Held, CompletionHasSession, Fresh, AcceptPC, PostPC
<1>13. Life'
  <2>1. IdleIsClean'
    BY <1>1, <1>3, <1>5 DEF Life, IdleIsClean
  <2>2. \A t \in Thread : pc[t] = "push" => post[t] \in Slot /\ post[t] # s
    BY Subject DEF Life, PostPC
  <2> QED
    BY <1>1, <1>3, <1>4, <1>5, <2>1, <2>2 DEF Life
<1>14. New'
  BY <1>1, <1>3, <1>5 DEF New
<1>15. Accepts'
  BY <1>1, <1>3, <1>5, AcceptsSame
<1>16. Attentive'
  BY <1>1, <1>3, <1>5 DEF Attentive, Accepting, AcceptPC, PostPC
<1> QED
  BY <1>6, <1>7, <1>8, <1>9, <1>10, <1>11, <1>12, <1>13, <1>14, <1>15, <1>16

-----------------------------------------------------------------------------
(* A connected session stays so while nobody disconnects it. *)
LEMMA StaysConnected ==
  ASSUME IInv, [Next]_vars, NEW s \in Slot, state[s] = "connected",
         \A t \in Thread : pc[t] = "disconnect" => cur[t] # s
  PROVE  state'[s] = "connected"
<1> USE DEF At
<1>t. TypeOK
  BY DEF IInv
<1>1. ASSUME NEW t \in Thread, PostAccept(t) PROVE state'[s] = "connected"
  <2>1. CASE Push(t)
    <3>1. post[t] \in Slot /\ state[post[t]] = "disconnecting"
      BY <2>1, Subject DEF Push, IInv, Life, PostPC
    <3> QED
      BY <2>1, <3>1, <1>t DEF Push, TypeOK
  <2>2. ASSUME NEW x \in Slot, CreateSession(t, x) PROVE state'[s] = "connected"
    BY <2>2, <1>t DEF CreateSession, TypeOK
  <2> QED
    BY <1>1, <2>1, <2>2 DEF PostAccept, AcceptLoop, CreateSessionFails, UndoAccept,
       RegisterAccept, SetListener, DropPost, session
<1>2. ASSUME NEW t \in Worker, Handle(t) PROVE state'[s] = "connected"
  <2>1. CASE Connect(t) \/ Disconnect(t)
    BY <2>1, <1>t DEF Connect, Disconnect, TypeOK, Thread
  <2> QED
    BY <1>2, <2>1 DEF Handle, Dispatch, SendWelcome, RegisterRecv, OnSend,
       RegisterDisconnect, ResetSession, ClearPtr, Drop, TornGetSession, session
<1>3. ASSUME NEW t \in Worker, NEW x \in Slot, NEW k \in IoType, NEW failed \in BOOLEAN,
             Dequeue(t, x, k, failed)
      PROVE  state'[s] = "connected"
  BY <1>3 DEF Dequeue
<1> QED
  BY <1>1, <1>2, <1>3 DEF Next, vars, session

(* A step of the server is a step of one thread. *)
LEMMA OneThread ==
  ASSUME TypeOK, NEW t \in Thread
  PROVE  /\ PostAccept(t) => /\ cur' = cur
                             /\ pc[t] \in AcceptPC
                             /\ \A u \in Thread \ {t} : pc'[u] = pc[u]
         /\ Handle(t) => \A u \in Thread \ {t} : pc'[u] = pc[u] /\ cur'[u] = cur[u]
         /\ \A s \in Slot, k \in IoType, failed \in BOOLEAN : Dequeue(t, s, k, failed) =>
              \A u \in Thread \ {t} : pc'[u] = pc[u] /\ cur'[u] = cur[u]
<1> USE DEF At, Goto, TypeOK
<1>1. ASSUME PostAccept(t)
      PROVE  /\ cur' = cur
             /\ pc[t] \in AcceptPC
             /\ \A u \in Thread \ {t} : pc'[u] = pc[u]
  BY <1>1 DEF PostAccept, AcceptLoop, CreateSession, CreateSessionFails, UndoAccept,
     RegisterAccept, SetListener, DropPost, Push, ReturnPostAccept, ReleaseRef,
     AcceptPC, PostPC
<1>2. ASSUME Handle(t)
      PROVE  \A u \in Thread \ {t} : pc'[u] = pc[u] /\ cur'[u] = cur[u]
  <2>1. CASE Dispatch(t) \/ Connect(t) \/ Disconnect(t) \/ RegisterDisconnect(t)
             \/ ResetSession(t) \/ ClearPtr(t) \/ Drop(t)
    BY <2>1 DEF Dispatch, Connect, Disconnect, RegisterDisconnect, ResetSession,
       ClearPtr, Drop, ReleaseRef
  <2>2. CASE SendWelcome(t) \/ RegisterRecv(t) \/ OnSend(t) \/ TornGetSession(t)
    BY <2>2 DEF SendWelcome, RegisterRecv, OnSend, RegisterIo, TornGetSession, thread
  <2> QED
    BY <1>2, <2>1, <2>2 DEF Handle
<1>3. ASSUME NEW s \in Slot, NEW k \in IoType, NEW failed \in BOOLEAN,
             Dequeue(t, s, k, failed)
      PROVE  \A u \in Thread \ {t} : pc'[u] = pc[u] /\ cur'[u] = cur[u]
  BY <1>3 DEF Dequeue, thread
<1> QED
  BY <1>1, <1>2, <1>3

(* Only a handler starts a disconnect or connects a session. *)
LEMMA NoHurry ==
  ASSUME IInv, NEW t \in Thread,
         \/ PostAccept(t) \/ Drop(t)
         \/ \E s \in Slot, k \in IoType, failed \in BOOLEAN : Dequeue(t, s, k, failed)
  PROVE  /\ \A u \in Thread : pc'[u] = "disconnect" => pc[u] = "disconnect" /\ cur'[u] = cur[u]
         /\ \A s \in Slot : state'[s] = "connected" => state[s] = "connected"
<1> USE DEF At, Goto, IInv, TypeOK
<1>1. CASE PostAccept(t)
  <2>1. then[t] # "disconnect"
    BY DEF Control, IdlePC
  <2>2. \A u \in Thread : pc'[u] = "disconnect" => pc[u] = "disconnect"
    BY <1>1, <2>1 DEF PostAccept, AcceptLoop, CreateSession, CreateSessionFails, UndoAccept,
       RegisterAccept, SetListener, DropPost, Push, ReturnPostAccept, ReleaseRef
  <2>3. \A s \in Slot : state'[s] = "connected" => state[s] = "connected"
    BY <1>1 DEF PostAccept, AcceptLoop, CreateSession, CreateSessionFails, UndoAccept,
       RegisterAccept, SetListener, DropPost, Push, session
  <2>4. cur' = cur
    BY <1>1, OneThread
  <2> QED
    BY <2>2, <2>3, <2>4
<1>2. CASE Drop(t)
  BY <1>2 DEF Drop, ReleaseRef
<1>3. CASE \E s \in Slot, k \in IoType, failed \in BOOLEAN : Dequeue(t, s, k, failed)
  BY <1>3 DEF Dequeue, thread
<1> QED
  BY <1>1, <1>2, <1>3

(* Who waits is a session. *)
LEMMA OwedType == OnTask => Owed \subseteq Slot
<1> SUFFICES ASSUME OnTask PROVE Owed \subseteq Slot
  OBVIOUS
<1>1. \A i \in DOMAIN tasks : tasks[i].slot \in Slot
  <2>1. tasks \in Seq(Task)
    BY DEF OnTask
  <2>2. \A i \in DOMAIN tasks : tasks[i] \in Task
    BY <2>1
  <2> QED
    BY <2>2 DEF Task
<1>2. step # "pop" => job.slot \in Slot
  BY DEF OnTask, Task
<1> QED
  BY <1>1, <1>2 DEF Owed, OnTask

(* Those who wait stay, if nobody starts to wait or to disconnect. *)
LEMMA PatienceKept ==
  ASSUME Patience, OnTask, Owed' \subseteq Owed,
         \A t \in Thread : pc'[t] = "disconnect" => pc[t] = "disconnect" /\ cur'[t] = cur[t],
         \A s \in Slot : /\ state[s] = "connected"
                         /\ \A t \in Thread : pc[t] = "disconnect" => cur[t] # s
                         => state'[s] = "connected"
  PROVE  Patience'
BY OwedType DEF Patience

-----------------------------------------------------------------------------
(* The steps that SessionLifecycle knows of. *)
LEMMA AcceptStepPInv ==
  ASSUME PInv, NEW t \in Thread, AcceptStep(t)
  PROVE  PInv'
<1> USE PacketAssumption DEF PInv
<1>1. /\ PostAccept(t) /\ [Next]_vars /\ TypeOK
      /\ tasks' = tasks /\ job' = job /\ step' = step /\ targets' = targets
      /\ refused' = refused
  BY DEF AcceptStep, packetVars, Next, IInv
<1>2. IInv' /\ Down' /\ Welcomed'
  BY <1>1, NextIInv, DownNext
<1>3. /\ cur' = cur /\ (pc[Packet] = "drop" => pc'[Packet] = "drop")
      /\ \A u \in Thread : pc'[u] = "disconnect" => pc[u] = "disconnect" /\ cur'[u] = cur[u]
      /\ \A s \in Slot : state'[s] = "connected" => state[s] = "connected"
  BY <1>1, OneThread, NoHurry DEF AcceptPC, PostPC, Thread
<1>4. OnTask'
  BY <1>1, <1>3 DEF OnTask
<1>5. Patience'
  <2>1. Owed' \subseteq Owed
    BY <1>1, <1>3 DEF Owed, ChatUnderWay
  <2> QED
    BY <1>1, <1>3, <2>1, PatienceKept, StaysConnected
<1>6. Hush' /\ Heard'
  BY <1>1, CoversPostAccept DEF Heard
<1> QED
  BY <1>2, <1>4, <1>5, <1>6

LEMMA DropTargetPInv ==
  ASSUME PInv, DropTarget
  PROVE  PInv'
<1> USE PacketAssumption DEF PInv
<1>1. /\ Drop(Packet) /\ Packet \in Thread /\ [Next]_vars /\ TypeOK
      /\ step = "release" /\ step' = "pick" /\ cur'[Packet] = NoSlot
      /\ tasks' = tasks /\ job' = job /\ targets' = targets /\ refused' = refused
  BY DEF DropTarget, Go, Next, Handle, Thread, Drop, IInv, TypeOK
<1>2. IInv' /\ Down' /\ Welcomed'
  BY <1>1, NextIInv, DownNext
<1>3. OnTask'
  BY <1>1 DEF OnTask
<1>4. Patience'
  <2>1. Owed' \subseteq Owed
    BY <1>1, NoHurry DEF Owed, ChatUnderWay
  <2> QED
    BY <1>1, <2>1, PatienceKept, StaysConnected, NoHurry
<1>5. Hush' /\ Heard'
  BY <1>1, CoversPostAccept DEF Heard
<1> QED
  BY <1>2, <1>3, <1>4, <1>5

LEMMA HandleStepPInv ==
  ASSUME PInv, NEW t \in Io, HandleStep(t)
  PROVE  PInv'
<1> USE PacketAssumption DEF PInv
<1>1. /\ Handle(t) /\ Patience' /\ [Next]_vars /\ TypeOK
      /\ t \in Thread /\ Packet \in Thread /\ Packet # t
      /\ tasks' = tasks /\ job' = job /\ step' = step /\ targets' = targets
      /\ refused' = refused
  BY DEF HandleStep, packetVars, Next, IInv, Io, Thread
<1>2. IInv' /\ Down' /\ Welcomed'
  BY <1>1, NextIInv, DownNext
<1>3. pc'[Packet] = pc[Packet] /\ cur'[Packet] = cur[Packet]
  BY <1>1, OneThread
<1>4. OnTask'
  BY <1>1, <1>3 DEF OnTask
<1>5. Hush' /\ Heard'
  BY <1>1, CoversHandle DEF Heard
<1> QED
  BY <1>1, <1>2, <1>4, <1>5

LEMMA DequeueStepPInv ==
  ASSUME PInv, NEW t \in Io, DequeueStep(t)
  PROVE  PInv'
<1> USE PacketAssumption DEF PInv
<1>0. PICK s \in Slot, k \in IoType, failed \in BOOLEAN : Dequeue(t, s, k, failed)
  BY DEF DequeueStep
<1>1. /\ [Next]_vars /\ TypeOK
      /\ t \in Thread /\ Packet \in Thread /\ Packet # t
      /\ tasks' = tasks /\ job' = job /\ step' = step /\ targets' = targets
      /\ refused' = {x \in refused : up[x] \/ ~up'[x]}
  BY <1>0 DEF DequeueStep, Next, IInv, Io, Thread
<1>2. IInv' /\ Down' /\ Welcomed'
  BY <1>1, NextIInv, DownNext
<1>3. pc'[Packet] = pc[Packet] /\ cur'[Packet] = cur[Packet]
  BY <1>0, <1>1, OneThread
<1>4. OnTask'
  BY <1>1, <1>3 DEF OnTask
<1>5. Patience'
  <2>1. Owed' \subseteq Owed
    BY <1>0, <1>1, <1>3, NoHurry DEF Owed, ChatUnderWay
  <2> QED
    BY <1>0, <1>1, <2>1, PatienceKept, StaysConnected, NoHurry
<1>6. \A x \in refused \ refused' : state'[x] = "pending"
  <2>1. /\ k \in io[s] /\ state' = state
        /\ up' = [up EXCEPT ![s] = CASE k = "accept" -> ~failed
                                     [] k = "disc" -> FALSE [] OTHER -> @]
    BY <1>0 DEF Dequeue
  <2>2. \A x \in Slot : up'[x] /\ ~up[x] => x = s /\ k = "accept"
    BY <1>1, <2>1 DEF TypeOK
  <2> QED
    BY <1>1, <2>1, <2>2 DEF IInv, Recv, OnTask
<1>7. Hush' /\ Heard'
  <2>1. Hush' /\ \A x \in Slot : Covered(x) => Covered(x)'
    BY <1>0, CoversDequeue
  <2> QED
    BY <1>6, <2>1 DEF Heard, Covered
<1> QED
  BY <1>2, <1>4, <1>5, <1>7

-----------------------------------------------------------------------------
(* The steps of the packet worker.  Those that leave the sessions and the     *)
(* threads as they are keep whatever is said of them.                         *)
LEMMA Aside ==
  ASSUME PInv, UNCHANGED <<session, pendingAccepts, thread, refused>>,
         crashed' \in BOOLEAN, crashed => crashed'
  PROVE  IInv' /\ Down' /\ Welcomed' /\ Hush' /\ Heard'
<1>1. IInv' /\ Down' /\ Welcomed'
  BY Unchanged, DownSame DEF PInv, session, thread
<1>2. Hush' /\ Heard'
  BY DEF PInv, Hush, Heard, Covered, Tended, session, thread
<1> QED
  BY <1>1, <1>2

LEMMA OnRecvPInv ==
  ASSUME PInv, NEW t \in Io, OnRecv(t)
  PROVE  PInv'
<1> USE DEF PInv
<1>1. /\ t \in Thread /\ pc[t] = "dispatch" /\ TypeOK
      /\ Patience'
      /\ job' = job /\ step' = step /\ targets' = targets /\ refused' = refused
      /\ UNCHANGED <<session, pendingAccepts, thread>> /\ crashed' = crashed
  BY DEF OnRecv, At, Io, Thread, vars, IInv
<1>2. pc' = pc /\ cur' = cur /\ state' = state
  BY <1>1 DEF session, thread
<1>3. PICK k \in Kinds : tasks' = Append(tasks, [slot |-> cur[t], kind |-> k])
  BY DEF OnRecv
<1>4. cur[t] \in Slot
  BY <1>1, Subject DEF IInv, HandlePC
<1>5. [slot |-> cur[t], kind |-> k] \in Task
  BY <1>4 DEF Task
<1>6. tasks' \in Seq(Task)
  BY <1>3, <1>5 DEF OnTask
<1>7. OnTask'
  BY <1>1, <1>2, <1>6 DEF OnTask
<1> QED
  BY <1>1, <1>7, Aside DEF IInv, TypeOK

LEMMA PopTaskPInv ==
  ASSUME PInv, PopTask
  PROVE  PInv'
<1> USE DEF PInv
<1>1. /\ step = "pop" /\ tasks # <<>>
      /\ job' = Head(tasks) /\ tasks' = Tail(tasks)
      /\ step' = CASE job'.kind = "login" -> "find"
                   [] job'.kind = "chat" -> "list"
                   [] OTHER -> "send"
      /\ targets' = targets /\ refused' = refused
      /\ UNCHANGED <<session, pendingAccepts, thread>> /\ crashed' = crashed
  BY DEF PopTask, Running, Go, vars
<1>2. /\ tasks \in Seq(Task) /\ job = NoTask /\ targets = {}
      /\ cur[Packet] = NoSlot
  BY <1>1 DEF OnTask
<1>3. pc' = pc /\ cur' = cur /\ state' = state
  BY <1>1 DEF session, thread
<1>4. job' \in Task /\ tasks' \in Seq(Task)
  BY <1>1, <1>2
<1>5. OnTask'
  BY <1>1, <1>2, <1>3, <1>4 DEF OnTask
<1>6. Owed' \subseteq Owed
  <2>1. /\ 1 \in DOMAIN tasks /\ job' = tasks[1]
        /\ \A i \in DOMAIN tasks' : i + 1 \in DOMAIN tasks /\ tasks'[i] = tasks[i + 1]
    BY <1>1, <1>2
  <2>2. ChatUnderWay' => ChatUnderWay
    BY <1>1, <2>1 DEF ChatUnderWay
  <2>3. job'.slot \in Owed
    BY <2>1 DEF Owed
  <2>4. \A i \in DOMAIN tasks' : tasks'[i].slot \in Owed
    BY <2>1 DEF Owed
  <2> QED
    BY <1>1, <1>2, <1>3, <2>2, <2>3, <2>4 DEF Owed
<1>7. Patience'
  BY <1>3, <1>6, PatienceKept
<1> QED
  BY <1>1, <1>5, <1>7, Aside DEF IInv, TypeOK

LEMMA FindSessionPInv ==
  ASSUME PInv, FindSession
  PROVE  PInv'
<1> USE DEF PInv
<1>1. /\ step = "find" /\ ~crashed /\ crashed' \in BOOLEAN
      /\ tasks' = tasks /\ targets' = targets /\ refused' = refused
      /\ UNCHANGED <<session, pendingAccepts, thread>>
      /\ \/ step' = "send" /\ job' = job /\ job.kind = "login"
         \/ step' = "pop" /\ job' = NoTask
  BY DEF FindSession, Running, At, Go, Finish
<1>2. pc' = pc /\ cur' = cur /\ state' = state
  BY <1>1 DEF session, thread
<1>3. targets = {} /\ cur[Packet] = NoSlot /\ job \in Task
  BY <1>1 DEF OnTask
<1>4. OnTask'
  BY <1>1, <1>2, <1>3 DEF OnTask
<1>5. Patience'
  <2>1. Owed' \subseteq Owed
    BY <1>1, <1>2 DEF Owed, ChatUnderWay
  <2> QED
    BY <1>2, <2>1, PatienceKept
<1> QED
  BY <1>1, <1>4, <1>5, Aside

LEMMA AnswerPInv ==
  ASSUME PInv, Answer
  PROVE  PInv'
<1> USE LifecycleAssumption DEF PInv
<1>1. /\ step = "send" /\ SendPacket(job.slot) /\ Untouched
      /\ tasks' = tasks /\ targets' = targets
      /\ \/ step' = "find" /\ job' = job /\ job.kind = "logout"
         \/ step' = "pop" /\ job' = NoTask
  BY DEF Answer, Running, Go, Finish
<1>2. /\ pc' = pc /\ cur' = cur /\ state' = state
  BY <1>1 DEF Untouched, thread
<1>3. targets = {} /\ cur[Packet] = NoSlot /\ job \in Task /\ job.slot \in Slot
  BY <1>1 DEF OnTask, Task
<1>4. state[job.slot] = "connected"
  BY <1>1 DEF Owed, Patience
<1>5. /\ IInv' /\ Down' /\ Welcomed' /\ refused' \subseteq Slot
      /\ Hush' /\ Heard'
  BY <1>1, <1>3, <1>4, SendPacketIInv DEF Heard, OnTask
<1>6. OnTask'
  BY <1>1, <1>2, <1>3, <1>5 DEF OnTask
<1>7. Patience'
  <2>1. Owed' \subseteq Owed
    BY <1>1, <1>2 DEF Owed, ChatUnderWay
  <2> QED
    BY <1>2, <2>1, PatienceKept
<1> QED
  BY <1>5, <1>6, <1>7

LEMMA ListPInv ==
  ASSUME PInv, List \/ BroadcastEnds
  PROVE  PInv'
<1> USE LifecycleAssumption DEF PInv
<1>1. /\ tasks' = tasks /\ refused' = refused
      /\ UNCHANGED <<session, pendingAccepts, thread>> /\ crashed' = crashed
      /\ \/ /\ step = "list" /\ step' = "pick" /\ job' = job
            /\ targets' = {s \in Slot : state[s] = "connected"} \ {job.slot}
         \/ /\ step = "pick" /\ step' = "pop" /\ job' = NoTask
            /\ targets = {} /\ targets' = {}
  BY DEF List, BroadcastEnds, Running, Go, Finish, vars
<1>2. pc' = pc /\ cur' = cur /\ state' = state
  BY <1>1 DEF session, thread
<1>3. cur[Packet] = NoSlot /\ job \in Task
  BY <1>1 DEF OnTask
<1>4. OnTask'
  BY <1>1, <1>2, <1>3 DEF OnTask
<1>5. Patience'
  <2>1. Owed' \subseteq Owed
    BY <1>1, <1>2 DEF Owed, ChatUnderWay
  <2> QED
    BY <1>2, <2>1, PatienceKept
<1> QED
  BY <1>1, <1>4, <1>5, Aside DEF IInv, TypeOK

LEMMA PickPInv ==
  ASSUME PInv, NEW s \in Slot, Pick(s)
  PROVE  PInv'
<1> USE PacketAssumption, LifecycleAssumption DEF PInv
<1>1. /\ step = "pick" /\ pc[Packet] = "wait" /\ s \in targets
      /\ targets' = targets \ {s} /\ step' = "copied"
      /\ cur' = [cur EXCEPT ![Packet] = s]
      /\ pc' = [pc EXCEPT ![Packet] = "drop"]
      /\ state' = state /\ io' = io /\ up' = up /\ sending' = sending
      /\ post' = post /\ done' = done /\ crashed' = crashed
      /\ tasks' = tasks /\ job' = job /\ refused' = refused
  BY DEF Pick, Running, At, Go, Goto
<1>2. TypeOK /\ Packet \in Thread /\ cur[Packet] = NoSlot
  BY <1>1 DEF IInv, Thread, OnTask
<1>3. /\ pc'[Packet] = "drop" /\ cur'[Packet] = s
      /\ \A t \in Thread \ {Packet} : pc'[t] = pc[t] /\ cur'[t] = cur[t]
  BY <1>1, <1>2 DEF TypeOK
<1>5. state[s] = "connected"
  BY <1>1 DEF Patience, Owed
<1>6. IInv' /\ Down' /\ Welcomed'
  BY <1>1, <1>3, <1>5, PickIInv, DownSame
<1>7. OnTask'
  BY <1>1, <1>3 DEF OnTask
<1>8. Patience'
  <2>1. Owed' \subseteq Owed
    BY <1>1, <1>3 DEF Owed, ChatUnderWay
  <2>2. \A t \in Thread : pc'[t] = "disconnect" => pc[t] = "disconnect" /\ cur'[t] = cur[t]
    BY <1>3
  <2> QED
    BY <1>1, <2>1, <2>2, PatienceKept
<1>9. Hush' /\ Heard'
  BY <1>1, <1>3 DEF Hush, Heard, Covered, Tended, Io, Thread
<1> QED
  BY <1>6, <1>7, <1>8, <1>9

LEMMA SendToTargetPInv ==
  ASSUME PInv, SendToTarget
  PROVE  PInv'
<1> USE LifecycleAssumption DEF PInv
<1>1. /\ step = "copied" /\ SendPacket(cur[Packet]) /\ Untouched /\ step' = "release"
      /\ tasks' = tasks /\ job' = job /\ targets' = targets
  BY DEF SendToTarget, Go
<1>2. pc' = pc /\ cur' = cur /\ state' = state
  BY <1>1 DEF Untouched, thread
<1>3. cur[Packet] \in Slot /\ state[cur[Packet]] = "connected"
  BY <1>1 DEF OnTask, Owed, Patience
<1>4. /\ IInv' /\ Down' /\ Welcomed' /\ refused' \subseteq Slot
      /\ Hush' /\ Heard'
  BY <1>1, <1>3, SendPacketIInv DEF Heard, OnTask
<1>5. OnTask'
  BY <1>1, <1>2, <1>3, <1>4 DEF OnTask
<1>6. Patience'
  <2>1. Owed' \subseteq Owed
    BY <1>1, <1>2 DEF Owed, ChatUnderWay
  <2> QED
    BY <1>2, <2>1, PatienceKept
<1> QED
  BY <1>4, <1>5, <1>6

(* The server starts without a task. *)
LEMMA InitPInv == PacketInit => PInv
<1> SUFFICES ASSUME PacketInit PROVE PInv
  OBVIOUS
<1>1. IInv
  BY InitIInv DEF PacketInit
<1>2. Down /\ Welcomed /\ Hush /\ Heard
  BY DEF PacketInit, Init, Down, Welcomed, Hush, Heard, Covered
<1>3. OnTask
  BY PacketAssumption DEF PacketInit, Init, OnTask, Thread
<1>4. Patience
  BY DEF PacketInit, Init, Patience, Owed, ChatUnderWay
<1> QED
  BY <1>1, <1>2, <1>3, <1>4 DEF PInv

LEMMA NextPInv == PInv /\ [PacketNext]_allVars => PInv'
<1> SUFFICES ASSUME PInv, [PacketNext]_allVars PROVE PInv'
  OBVIOUS
<1>1. CASE UNCHANGED allVars
  <2>1. /\ UNCHANGED <<session, pendingAccepts, thread, refused>> /\ crashed' = crashed
        /\ tasks' = tasks /\ job' = job /\ step' = step /\ targets' = targets
        /\ pc' = pc /\ cur' = cur /\ state' = state /\ refused' = refused
    BY <1>1 DEF allVars, vars, packetVars, session, thread
  <2>2. OnTask'
    BY <2>1 DEF PInv, OnTask
  <2>3. Owed' = Owed
    BY <2>1 DEF Owed, ChatUnderWay
  <2>4. Patience'
    BY <2>1, <2>3 DEF PInv, Patience
  <2> QED
    BY <2>1, <2>2, <2>4, Aside DEF PInv, IInv, TypeOK
<1>2. CASE PacketNext
  BY <1>2, AcceptStepPInv, HandleStepPInv, DequeueStepPInv, OnRecvPInv, PopTaskPInv,
     FindSessionPInv, AnswerPInv, ListPInv, PickPInv, SendToTargetPInv, DropTargetPInv
     DEF PacketNext
<1> QED
  BY <1>1, <1>2

LEMMA PacketInvariance == PacketSpec => []PInv
BY InitPInv, NextPInv, PTL DEF PacketSpec

-----------------------------------------------------------------------------
(* The packet worker stays on its task and never broadcasts to the sender. *)
THEOREM PacketTypeCorrect == PacketSpec => []PacketTypeOK
<1>1. PInv => PacketTypeOK
  BY DEF PInv, IInv, OnTask, PacketTypeOK
<1> QED
  BY <1>1, PacketInvariance, PTL

(* The references the packet worker takes and those its sends take are        *)
(* counted with those of the IO workers, also while a session it just sent to *)
(* disconnects and its copy is the last reference.                            *)
THEOREM RefCountsExactWithPackets == PacketSpec => []RefCountExact
<1>1. PInv => RefCountExact
  BY HoldersCounted DEF PInv, IInv, RefSum, RefCountExact
<1> QED
  BY <1>1, PacketInvariance, PTL

(* isSending_ is up whenever a send is out, whoever posted it: the sends of    *)
(* the packet worker go to connected sessions, whose flag no Init clears.     *)
THEOREM SendingFlagWithPackets == PacketSpec => []SendingFlag
<1>1. PInv => SendingFlag
  BY DEF PInv, IInv, SendingFlag, Send, SendUser, Control, Thread
<1> QED
  BY <1>1, PacketInvariance, PTL

(* The sends of the packet worker hold their session too: none is posted on a *)
(* sendOv_ that is out or belongs to a session on its way to the pool.        *)
THEOREM CompletionsHoldWithPackets == PacketSpec => []CompletionHasSession
<1>1. PInv => CompletionHasSession
  BY DEF PInv, IInv, Held
<1> QED
  BY <1>1, PacketInvariance, PTL

(* Answers, broadcasts, the welcome and OnSend leave no packet behind, for any *)
(* number of IO workers, sessions and tasks, as long as the clients wait.      *)
THEOREM NobodyIsMuted == PacketSpec => []NobodyMuted
<1>1. PInv => NobodyMuted
  BY DEF PInv, Heard, Covered, Tended, NobodyMuted
<1> QED
  BY <1>1, PacketInvariance, PTL

-----------------------------------------------------------------------------
(* A send of a connected session is one more operation to follow. *)
LEMMA SendPacketRound ==
  ASSUME IInv, IInv', Round, NEW s \in Slot, state[s] = "connected",
         SendPacket(s), Untouched
  PROVE  Round' /\ CycleStep
<1> USE DEF IInv, Round
<1>1. /\ UNCHANGED <<state, table, listener, up, pc, cur, done, post, then, crashed>>
      /\ table[s] = "set"
  BY DEF Untouched, thread, Life
<1>2. \/ UNCHANGED <<refs, ovPtr, io>>
      \/ /\ up[s] /\ "send" \notin io[s]
         /\ refs' = [refs EXCEPT ![s] = @ + 1]
         /\ ovPtr' = [ovPtr EXCEPT ![s] = @ \cup {"send"}]
         /\ io' = [io EXCEPT ![s] = @ \cup {"send"}]
  BY <1>1 DEF SendPacket, GetSessionInto, PostIo, Send
<1>3. /\ \A x \in Slot : io[x] \subseteq io'[x] /\ io'[x] \subseteq io[x] \cup {"send"}
      /\ \A x \in Slot \ {s} : refs'[x] = refs[x] /\ ovPtr'[x] = ovPtr[x] /\ io'[x] = io[x]
      /\ \A o \in ovPtr'[s] : o \in ovPtr[s] \/ ("send" \in io'[s] /\ o = "send")
      /\ refs'[s] = 0 => refs[s] = 0
  <2>1. CASE UNCHANGED <<refs, ovPtr, io>>
    BY <2>1
  <2>2. CASE ~UNCHANGED <<refs, ovPtr, io>>
    BY <1>2, <2>2 DEF TypeOK
  <2> QED
    BY <2>1, <2>2
<1>4. \A t \in Thread : Fresh(t)' <=> Fresh(t)
  BY <1>1 DEF Fresh
<1>5. Listening' /\ Released' /\ Failures'
  BY <1>1, <1>3 DEF Listening, Released, Failures
<1>6. \A x \in Slot : Alone(x)' /\ SocketUp(x)'
  BY <1>1, <1>3, <1>4 DEF Alone, SocketUp
<1>7. \A x \in Slot : Followed(x)'
  <2> TAKE x \in Slot
  <2>1. /\ AcceptFollowed(x) => AcceptFollowed(x)'
        /\ RecvFollowed(x) => RecvFollowed(x)'
        /\ DiscFollowed(x) => DiscFollowed(x)'
    BY <1>1, <1>3 DEF AcceptFollowed, RecvFollowed, DiscFollowed, DiscUser
  <2>2. \A o \in ovPtr[x] : OvFollowed(x, o) => OvFollowed(x, o)'
    BY <1>1, <1>3, <1>4 DEF OvFollowed
  <2>3. \A o \in ovPtr'[x] : o \in ovPtr[x] \/ OvFollowed(x, o)'
    BY <1>3 DEF OvFollowed, OvOf
  <2> QED
    BY <1>1, <2>1, <2>2, <2>3 DEF Followed
<1>8. phase' = phase
  BY <1>1, PhaseSame DEF Taken, Ending
<1>9. CycleStep
  <2>1. CASE io' = io
    BY <1>1, <1>8, <2>1 DEF CycleStep, Cycle!vars
  <2>2. CASE up[s] /\ "send" \notin io[s] /\ io' = [io EXCEPT ![s] = @ \cup {"send"}]
    <3>1. phase[s] = "connected"
      <4>1. ~Taken(s) /\ ~Ending(s)
        BY DEF New, Disc, DiscUser, Taken, Ending
      <4> QED
        BY <4>1, PhaseIs DEF Phased
    <3>2. Cycle!Transfer(s, "send")
      BY <1>1, <1>8, <2>2, <3>1 DEF Cycle!Transfer, Cycle!Starts
    <3> QED
      BY <3>2 DEF CycleStep, Cycle!Next, Cycle!Step
  <2> QED
    BY <1>2, <2>1, <2>2
<1> QED
  BY <1>5, <1>6, <1>7, <1>9

(* The copy of a connected session's entry leaves everything to follow. *)
LEMMA PickRound ==
  ASSUME IInv, IInv', Round, NEW s \in Slot, Pick(s), state[s] = "connected"
  PROVE  Round' /\ CycleStep
<1> USE DEF IInv, Round
<1>1. /\ pc[Packet] = "wait" /\ Packet \in Thread
      /\ UNCHANGED <<state, table, ovPtr, io, listener, up, done, post, then, crashed>>
      /\ pc'[Packet] = "drop" /\ cur'[Packet] = s
      /\ \A t \in Thread \ {Packet} : pc'[t] = pc[t] /\ cur'[t] = cur[t]
      /\ \A x \in Slot : refs'[x] = 0 => refs[x] = 0
  BY PacketAssumption DEF Pick, Running, At, Goto, Thread, TypeOK
<1>2. cur[Packet] \notin Slot /\ ~Fresh(Packet)
  BY <1>1, LifecycleAssumption DEF Control, IdlePC, AcceptPC, PostPC, Fresh
<1>3. \A t \in Thread \ {Packet} : Fresh(t)' <=> Fresh(t)
  BY <1>1 DEF Fresh
<1>4. Listening' /\ Released' /\ Failures'
  BY <1>1 DEF Listening, Released, Failures
<1>5. \A x \in Slot : Alone(x)' /\ SocketUp(x)'
  BY <1>1, <1>2, <1>3 DEF Alone, SocketUp
<1>6. \A x \in Slot : Followed(x)'
  <2> TAKE x \in Slot
  <2>1. /\ AcceptFollowed(x) => AcceptFollowed(x)'
        /\ RecvFollowed(x) => RecvFollowed(x)'
        /\ DiscFollowed(x) => DiscFollowed(x)'
    BY <1>1, <1>2 DEF AcceptFollowed, RecvFollowed, DiscFollowed, DiscUser
  <2>2. \A o \in ovPtr[x] : OvFollowed(x, o) => OvFollowed(x, o)'
    BY <1>1, <1>2, <1>3 DEF OvFollowed
  <2> QED
    BY <1>1, <2>1, <2>2 DEF Followed
<1>7. phase' = phase
  BY <1>1, PhaseSame DEF Taken, Ending
<1> QED
  BY <1>1, <1>4, <1>5, <1>6, <1>7 DEF CycleStep, Cycle!vars

(* A login finds its session; a logout finds it unless its client has gone.   *)
LEMMA FindsSession ==
  ASSUME PInv, FindSession, crashed', ~crashed
  PROVE  job.kind = "logout" /\ table[job.slot] # "set"
<1>1. step = "find" /\ (table[job.slot] = "set" => ~crashed')
  BY DEF FindSession, Running
<1>2. job \in Task /\ job.slot \in Slot /\ job.kind \in {"login", "logout"}
  BY <1>1 DEF PInv, OnTask, Task
<1>3. job.kind = "login" => table[job.slot] = "set"
  BY <1>1, <1>2 DEF PInv, Owed, Patience, IInv, Life
<1> QED
  BY <1>1, <1>2, <1>3

(* What a step of the packet worker is for the sessions. *)
LEMMA PacketRound ==
  ASSUME PInv, PInv', Round, [PacketNext]_allVars
  PROVE  /\ Round' /\ CycleStep
         /\ crashed' /\ ~crashed =>
              Next \/ (FindSession /\ job.kind = "logout" /\ table[job.slot] # "set")
<1> USE PacketAssumption DEF PInv
<1>1. ASSUME [Next]_vars PROVE Round' /\ CycleStep /\ (crashed' /\ ~crashed => Next)
  BY <1>1, NextRound, NextCycles DEF vars
<1>2. CASE \E t \in Thread : AcceptStep(t)
  BY <1>1, <1>2 DEF AcceptStep, Next
<1>3. CASE \E t \in Io : HandleStep(t) \/ DequeueStep(t) \/ OnRecv(t)
  BY <1>1, <1>3 DEF HandleStep, DequeueStep, OnRecv, Next, Io
<1>4. CASE PopTask \/ List \/ BroadcastEnds
  BY <1>1, <1>4 DEF PopTask, List, BroadcastEnds
<1>5. CASE FindSession
  <2>1. UNCHANGED <<session, pendingAccepts, thread>> /\ ~crashed
    BY <1>5 DEF FindSession, Running, At
  <2>2. Round'
    BY <2>1, UnchangedRound
  <2>3. CycleStep
    <3>1. UNCHANGED <<state, io, up, pc, cur, post>>
      BY <2>1 DEF session, thread
    <3>2. phase' = phase
      BY <3>1, PhaseSame DEF Taken, Ending
    <3> QED
      BY <3>1, <3>2 DEF CycleStep, Cycle!vars
  <2> QED
    BY <1>5, <2>1, <2>2, <2>3, FindsSession
<1>6. CASE Answer
  <2>1. /\ step = "send" /\ SendPacket(job.slot) /\ Untouched
    BY <1>6 DEF Answer, Running
  <2>2. job.slot \in Slot /\ state[job.slot] = "connected"
    BY <2>1 DEF OnTask, Task, Owed, Patience
  <2> QED
    BY <2>1, <2>2, SendPacketRound DEF Untouched
<1>7. CASE \E s \in Slot : Pick(s)
  <2>1. PICK s \in Slot : Pick(s)
    BY <1>7
  <2>2. state[s] = "connected" /\ crashed' = crashed
    BY <2>1 DEF Pick, Patience, Owed
  <2> QED
    BY <2>1, <2>2, PickRound
<1>8. CASE SendToTarget
  <2>1. step = "copied" /\ SendPacket(cur[Packet]) /\ Untouched
    BY <1>8 DEF SendToTarget
  <2>2. cur[Packet] \in Slot /\ state[cur[Packet]] = "connected"
    BY <2>1 DEF OnTask, Owed, Patience
  <2> QED
    BY <2>1, <2>2, SendPacketRound DEF Untouched
<1>9. CASE DropTarget
  BY <1>1, <1>9 DEF DropTarget, Next, Handle
<1>10. CASE UNCHANGED allVars
  BY <1>1, <1>10 DEF allVars
<1> QED
  BY <1>2, <1>3, <1>4, <1>5, <1>6, <1>7, <1>8, <1>9, <1>10 DEF PacketNext

LEMMA PacketRoundInvariance == PacketSpec => [](PInv /\ Round)
<1>1. PacketInit => PInv /\ Round
  BY InitPInv, InitRound DEF PacketInit
<1>2. PInv /\ Round /\ [PacketNext]_allVars => (PInv /\ Round)'
  BY NextPInv, PacketRound
<1> QED
  BY <1>1, <1>2, PTL DEF PacketSpec

(* The sessions go round the cycle beside a packet worker that answers and    *)
(* broadcasts, also those that disconnect while it works for others or has    *)
(* just worked for them.                                                      *)
THEOREM SessionsGoRoundWithPackets == PacketSpec => GoesRoundTheCycle
<1>1. PInv /\ Round /\ PInv' /\ [PacketNext]_allVars => [Cycle!Next]_(Cycle!vars)
  BY PacketRound DEF CycleStep
<1>2. PacketInit => Cycle!Init
  BY InitCycles DEF PacketInit
<1> QED
  BY <1>1, <1>2, PacketRoundInvariance, PTL DEF PacketSpec, GoesRoundTheCycle, Cycle!Spec

(* Beside the two races of the IO workers there is one way to crash, the      *)
(* LogOutSession that follows the answer of a client that has gone meanwhile: *)
(* no answer, login, broadcast or dropped copy adds another.                  *)
THEOREM OnlyRacesAndLogOutCrash == PacketSpec => CrashesOnlyInRacesOrLogOut
<1>1. PInv /\ Round /\ PInv' /\ [PacketNext]_allVars
        => [crashed' /\ ~crashed =>
              InRace \/ (FindSession /\ job.kind = "logout" /\ table[job.slot] # "set")]_allVars
  BY PacketRound, RacesOnly DEF PInv
<1> QED
  BY <1>1, PacketRoundInvariance, PTL DEF PacketSpec, CrashesOnlyInRacesOrLogOut

(* No copy or send of the packet worker leaves a session stranded. *)
THEOREM NobodyIsStrandedWithPackets == PacketSpec => []NobodyStranded
<1>1. PInv /\ Round => NobodyStranded
  BY NoneStranded DEF PInv
<1> QED
  BY <1>1, PacketRoundInvariance, PTL
=============================================================================
