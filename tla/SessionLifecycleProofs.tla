----------------------- MODULE SessionLifecycleProofs -----------------------
(***************************************************************************)
(* For any number of workers and sessions and every combination of failures, *)
(* the reference counts of the sessions are exact, a session returns to the  *)
(* pool once and clean, and each session goes round the cycle of             *)
(* ConnectionCycle.                                                          *)
(*                                                                          *)
(* RefCountExact is not inductive by itself: that Register adds a holder     *)
(* needs the OverlappedEx to be free, and that a release removes one needs it *)
(* to be set.  Both follow from who may use an OVERLAPPED: at any time either *)
(* the kernel or one thread has it.  Recv, Send and Disc state that for the  *)
(* three OverlappedEx of a session, Life what the phases of a session allow, *)
(* and Control what the place of a thread says of its variables.             *)
(*                                                                          *)
(* IInv says what a session in use may have, not that it has anything.  The  *)
(* second half of the module adds Round: who works on a session while its    *)
(* accept or its disconnect is about to be posted (Alone), when its socket is *)
(* up (SocketUp), and what comes next for it (Followed).                     *)
(***************************************************************************)
EXTENDS SessionLifecycle, FiniteSetTheorems, TLAPS

PostPC == {"registerAccept", "setListener", "dropPost", "push"}
AcceptPC == {"accept", "create", "undo"} \cup PostPC
IdlePC == {"wait", "finished"}
HandlePC == {"dispatch", "connect", "welcome", "registerRecv", "onSend",
             "disconnect", "registerDisc", "reset", "nulling", "drop"}

(* A thread has taken a completion and Dispatch is still ahead of it. *)
Fresh(t) == pc[t] = "dispatch" \/ (pc[t] \in AcceptPC /\ then[t] = "dispatch")

(* What the place of a thread says of its variables. *)
Control ==
  \A t \in Thread :
    /\ pc[t] \in AcceptPC <=> frames[t] > 0
    /\ pc[t] \in PostPC <=> post[t] # NoSlot
    /\ then[t] \in {"dispatch"} \cup IdlePC
    /\ cur[t] = NoSlot <=> \/ pc[t] \in IdlePC
                           \/ pc[t] \in AcceptPC /\ then[t] # "dispatch"
    /\ pc[t] \in AcceptPC /\ then[t] = "dispatch" => done[t].io = "accept"
    /\ pc[t] \in {"connect", "welcome"} => done[t].io = "accept"
    /\ pc[t] = "registerRecv" => done[t].io \in {"accept", "recv"}
    /\ pc[t] = "onSend" => done[t].io = "send"

(* The holders of a session by their kind. *)
TableOf(s) == {table[s]} \cap {"set"}
CurOf(s) == {t \in Thread : cur[t] = s}
PostOf(s) == {t \in Thread : post[t] = s /\ pc[t] # "push"}

(* RefCountExact, kind by kind. *)
RefSum ==
  \A s \in Slot : refs[s] = Cardinality(TableOf(s)) + Cardinality(ovPtr[s])
                              + Cardinality(CurOf(s)) + Cardinality(PostOf(s))

(* recvOv_ is with the kernel, with one worker, or free. *)
RecvUser(t, s) ==
  /\ cur[t] = s
  /\ done[t].io \in {"accept", "recv"}
  /\ Fresh(t) \/ pc[t] \in {"connect", "welcome", "registerRecv"}

Recv ==
  /\ \A s \in Slot : "accept" \in io[s] =>
       /\ io[s] = {"accept"} /\ state[s] = "pending"
       /\ \A t \in Thread : cur[t] # s
  /\ \A s \in Slot, t \in Thread : RecvUser(t, s) =>
       /\ "accept" \notin io[s] /\ "recv" \notin io[s]
       /\ \A u \in Thread : RecvUser(u, s) => u = t
  /\ \A t \in Thread : pc[t] \in {"connect", "welcome", "registerRecv"}
       => "recv" \notin ovPtr[cur[t]]

(* So is sendOv_, and isSending_ is set when it is not free. *)
SendUser(t, s) ==
  cur[t] = s /\ done[t].io = "send" /\ pc[t] \in {"dispatch", "onSend"}

Send ==
  /\ \A s \in Slot, t \in Thread : SendUser(t, s) =>
       /\ "send" \notin io[s] /\ sending[s]
       /\ \A u \in Thread : SendUser(u, s) => u = t
  /\ \A s \in Slot : "send" \in io[s] \/ "send" \in ovPtr[s] => sending[s]
  /\ \A t \in Thread : pc[t] = "onSend" => "send" \notin ovPtr[cur[t]]

(* And disconnectOv_, which is used once in a session's life. *)
DiscUser(t, s) ==
  /\ cur[t] = s
  /\ \/ pc[t] \in {"registerDisc", "reset", "nulling"}
     \/ pc[t] = "dispatch" /\ done[t].io = "disc"

Disc ==
  /\ \A s \in Slot, t \in Thread : DiscUser(t, s) =>
       /\ "disc" \notin io[s] /\ state[s] = "disconnecting"
       /\ table[s] = IF pc[t] = "nulling" THEN "released" ELSE "set"
       /\ pc[t] # "registerDisc" => ~up[s]
       /\ \A u \in Thread : DiscUser(u, s) => u = t
  /\ \A s \in Slot : "disc" \in io[s] => table[s] = "set"
  /\ \A s \in Slot : "disc" \in io[s] \/ "disc" \in ovPtr[s]
       => state[s] = "disconnecting"
  /\ \A t \in Thread : pc[t] = "registerDisc" => "disc" \notin ovPtr[cur[t]]

(* The kernel's operations and the completions taken hold their session. *)
Held ==
  /\ CompletionHasSession
  /\ \A t \in Thread : Fresh(t) => OvOf(done[t].io) \in ovPtr[cur[t]]

(* What the phases of a session allow. *)
Life ==
  /\ IdleIsClean
  /\ \A s \in Slot : state[s] \in {"pending", "connected"} => table[s] = "set"
  /\ \A s \in Slot : table[s] # "set" => ~up[s]
  /\ \A s \in Slot : table[s] = "released"
       => \E t \in Thread : cur[t] = s /\ pc[t] = "nulling"
  /\ \A t \in Thread : pc[t] = "push"
       => /\ refs[post[t]] = 0 /\ state[post[t]] = "disconnecting"
          /\ \A u \in Thread : pc[u] = "push" /\ post[u] = post[t] => u = t

(* A session that PostAccept has just taken is its own. *)
New ==
  \A t \in Thread : pc[t] = "registerAccept" =>
    /\ state[post[t]] = "pending"
    /\ ovPtr[post[t]] = {} /\ io[post[t]] = {}
    /\ \A u \in Thread : cur[u] # post[t] /\ (post[u] = post[t] => u = t)

(* pendingAccepts_ is never behind the accepts that are posted or reserved. *)
Accepts ==
  /\ pendingAccepts >= Cardinality(Accepting) + Cardinality(Reserving)
  /\ pendingAccepts <= MaxAccept
  /\ "acceptSync" \notin Faults => PendingAcceptsExact

(* While a session is idle, an accept is posted or a thread will try again. *)
Attentive ==
  "acceptSync" \notin Faults /\ MaxAccept >= Cardinality(Thread) =>
    ((\E s \in Slot : state[s] = "idle")
       => \/ Accepting # {} \/ crashed
          \/ \E t \in Thread : pc[t] \in AcceptPC \ {"undo"})

(* The inductive invariant. *)
IInv ==
  TypeOK /\ Control /\ RefSum /\ Recv /\ Send /\ Disc /\ Held /\ Life /\ New
    /\ Accepts /\ Attentive

-----------------------------------------------------------------------------
(* A thread in a handler has a session, one that sets up an accept has one. *)
LEMMA Subject ==
  ASSUME TypeOK, Control, NEW t \in Thread
  PROVE  /\ pc[t] \in PostPC => post[t] \in Slot
         /\ pc[t] \in HandlePC => cur[t] \in Slot
BY DEF TypeOK, Control, PC, AcceptPC, PostPC, IdlePC, HandlePC

(* One element more. *)
LEMMA CardPlus ==
  ASSUME NEW S, IsFiniteSet(S), NEW x, x \notin S
  PROVE  /\ IsFiniteSet(S \cup {x})
         /\ Cardinality(S \cup {x}) = Cardinality(S) + 1
BY FS_AddElement

(* One element less. *)
LEMMA CardMinus ==
  ASSUME NEW S, IsFiniteSet(S), NEW x \in S
  PROVE  /\ IsFiniteSet(S \ {x})
         /\ Cardinality(S \ {x}) = Cardinality(S) - 1
         /\ Cardinality(S) >= 1
<1>1. IsFiniteSet(S \ {x}) /\ Cardinality(S \ {x}) = Cardinality(S) - 1
  BY FS_RemoveElement
<1>2. Cardinality(S) \in Nat /\ Cardinality(S \ {x}) \in Nat
  BY <1>1, FS_CardinalityType
<1> QED
  BY <1>1, <1>2

(* Every set that is counted is finite. *)
LEMMA Countable ==
  ASSUME TypeOK
  PROVE  /\ IsFiniteSet(Accepting) /\ Cardinality(Accepting) \in Nat
         /\ IsFiniteSet(Reserving) /\ Cardinality(Reserving) \in Nat
         /\ IsFiniteSet(Thread) /\ Cardinality(Thread) \in Nat
         /\ \A s \in Slot :
              /\ IsFiniteSet(TableOf(s)) /\ Cardinality(TableOf(s)) \in Nat
              /\ IsFiniteSet(ovPtr[s]) /\ Cardinality(ovPtr[s]) \in Nat
              /\ IsFiniteSet(CurOf(s)) /\ Cardinality(CurOf(s)) \in Nat
              /\ IsFiniteSet(PostOf(s)) /\ Cardinality(PostOf(s)) \in Nat
<1>1. IsFiniteSet(Thread)
  BY LifecycleAssumption, FS_Singleton, FS_Union DEF Thread
<1>2. IsFiniteSet(Ov)
  <2>1. IsFiniteSet({}) /\ Ov = {} \cup {"recv"} \cup {"send"} \cup {"disc"}
    BY FS_EmptySet DEF Ov
  <2> QED
    BY <2>1, FS_AddElement
<1>3. Accepting \subseteq Slot /\ Reserving \subseteq Thread
  BY DEF Accepting, Reserving
<1>4. \A s \in Slot : /\ TableOf(s) \subseteq {"set"} /\ ovPtr[s] \subseteq Ov
                       /\ CurOf(s) \subseteq Thread /\ PostOf(s) \subseteq Thread
  BY DEF TypeOK, TableOf, CurOf, PostOf
<1>5. IsFiniteSet({"set"})
  BY FS_Singleton
<1>6. /\ IsFiniteSet(Accepting) /\ IsFiniteSet(Reserving)
      /\ \A s \in Slot : /\ IsFiniteSet(TableOf(s)) /\ IsFiniteSet(ovPtr[s])
                          /\ IsFiniteSet(CurOf(s)) /\ IsFiniteSet(PostOf(s))
  BY <1>1, <1>2, <1>3, <1>4, <1>5, FS_Subset, LifecycleAssumption
<1> QED
  BY <1>1, <1>6, FS_CardinalityType

(* A step that neither posts, reserves nor takes an accept. *)
LEMMA AcceptsSame ==
  ASSUME Accepts, UNCHANGED pendingAccepts, crashed => crashed',
         \A s \in Slot : "accept" \in io'[s] <=> "accept" \in io[s],
         \A t \in Thread : pc'[t] \in {"create", "undo", "registerAccept"}
                              <=> pc[t] \in {"create", "undo", "registerAccept"}
  PROVE  Accepts'
<1>1. Accepting' = Accepting /\ Reserving' = Reserving
  BY DEF Accepting, Reserving
<1> QED
  BY <1>1 DEF Accepts, PendingAcceptsExact

(* Without a reference nothing points to the session, and with one reference *)
(* only the thread that holds it does.                                       *)
LEMMA LastHolder ==
  ASSUME TypeOK, RefSum, NEW s \in Slot
  PROVE  /\ refs[s] = 0 => /\ table[s] # "set" /\ ovPtr[s] = {}
                           /\ CurOf(s) = {} /\ PostOf(s) = {}
         /\ \A t \in CurOf(s) :
              /\ refs[s] >= 1
              /\ refs[s] = 1 => /\ table[s] # "set" /\ ovPtr[s] = {}
                                /\ CurOf(s) = {t} /\ PostOf(s) = {}
         /\ \A t \in PostOf(s) :
              /\ refs[s] >= 1
              /\ refs[s] = 1 => /\ table[s] # "set" /\ ovPtr[s] = {}
                                /\ CurOf(s) = {} /\ PostOf(s) = {t}
<1> DEFINE a == Cardinality(TableOf(s))
           b == Cardinality(ovPtr[s])
           c == Cardinality(CurOf(s))
           d == Cardinality(PostOf(s))
<1>1. a \in Nat /\ b \in Nat /\ c \in Nat /\ d \in Nat
  BY Countable
<1>2. /\ a = 0 => TableOf(s) = {}
      /\ b = 0 => ovPtr[s] = {}
      /\ c = 0 => CurOf(s) = {}
      /\ d = 0 => PostOf(s) = {}
  BY Countable, FS_EmptySet
<1>3. TableOf(s) = {} => table[s] # "set"
  BY DEF TableOf
<1>4. refs[s] = a + b + c + d
  BY DEF RefSum
<1>5. \A t \in CurOf(s) : c >= 1 /\ (c = 1 => CurOf(s) = {t})
  <2> TAKE t \in CurOf(s)
  <2>1. c >= 1 /\ IsFiniteSet(CurOf(s) \ {t}) /\ Cardinality(CurOf(s) \ {t}) = c - 1
    BY Countable, CardMinus
  <2>2. c = 1 => CurOf(s) \ {t} = {}
    BY <2>1, FS_EmptySet
  <2> QED
    BY <2>1, <2>2
<1>6. \A t \in PostOf(s) : d >= 1 /\ (d = 1 => PostOf(s) = {t})
  <2> TAKE t \in PostOf(s)
  <2>1. d >= 1 /\ IsFiniteSet(PostOf(s) \ {t}) /\ Cardinality(PostOf(s) \ {t}) = d - 1
    BY Countable, CardMinus
  <2>2. d = 1 => PostOf(s) \ {t} = {}
    BY <2>1, FS_EmptySet
  <2> QED
    BY <2>1, <2>2
<1> HIDE DEF a, b, c, d
<1> QED
  BY <1>1, <1>2, <1>3, <1>4, <1>5, <1>6

(* A copy of sessionPtrs_[idx] into a free OverlappedEx adds one holder. *)
LEMMA CopyCounted ==
  ASSUME TypeOK, RefSum, NEW s \in Slot, NEW ov \in Ov, ov \notin ovPtr[s],
         table[s] = "set", GetSessionInto(s, ov), UNCHANGED <<table, cur, post>>,
         \A t \in Thread : pc[t] = "push" <=> pc'[t] = "push"
  PROVE  /\ refs' \in [Slot -> Nat]
         /\ ovPtr' \in [Slot -> SUBSET Ov]
         /\ RefSum'
<1>1. /\ refs' = [refs EXCEPT ![s] = @ + 1]
      /\ ovPtr' = [ovPtr EXCEPT ![s] = @ \cup {ov}]
  BY DEF GetSessionInto
<1>2. refs' \in [Slot -> Nat] /\ ovPtr' \in [Slot -> SUBSET Ov]
  BY <1>1 DEF TypeOK
<1>3. \A x \in Slot : /\ TableOf(x)' = TableOf(x)
                      /\ CurOf(x)' = CurOf(x)
                      /\ PostOf(x)' = PostOf(x)
  BY DEF TableOf, CurOf, PostOf
<1>4. Cardinality(ovPtr'[s]) = Cardinality(ovPtr[s]) + 1
  <2>1. ovPtr'[s] = ovPtr[s] \cup {ov}
    BY <1>1 DEF TypeOK
  <2> QED
    BY <2>1, Countable, CardPlus
<1>5. \A x \in Slot \ {s} : ovPtr'[x] = ovPtr[x] /\ refs'[x] = refs[x]
  BY <1>1 DEF TypeOK
<1>6. refs'[s] = refs[s] + 1
  BY <1>1 DEF TypeOK
<1>7. RefSum'
  <2> SUFFICES ASSUME NEW x \in Slot
               PROVE  refs'[x] = Cardinality(TableOf(x)) + Cardinality(ovPtr'[x])
                                   + Cardinality(CurOf(x)) + Cardinality(PostOf(x))
    BY <1>3 DEF RefSum
  <2> QED
    BY <1>4, <1>5, <1>6, Countable DEF RefSum
<1> QED
  BY <1>2, <1>7
(* A handler moves on to Disconnect or to its end without touching a pointer; *)
(* it may have raised isSending_.                                             *)
LEMMA MovesOn ==
  ASSUME IInv, NEW t \in Thread,
         pc[t] \in {"connect", "welcome", "registerRecv", "onSend", "disconnect"},
         NEW next \in {"disconnect", "drop"}, Goto(t, next),
         sending' \in [Slot -> BOOLEAN],
         \A s \in Slot : sending[s] => sending'[s],
         UNCHANGED <<state, refs, table, ovPtr, io, listener, up, pendingAccepts,
                     cur, done, post, frames, then, crashed>>
  PROVE  IInv'
<1> USE LifecycleAssumption DEF IInv, At, Goto, AcceptPC, PostPC, IdlePC
<1>1. TypeOK'
  BY DEF TypeOK, PC, State, Ov, IoType, Done, NoDone
<1>2. Control'
  BY DEF TypeOK, Control, IoType, Done, NoDone
<1>3. RefSum'
  BY DEF TypeOK, Control, RefSum, TableOf, CurOf, PostOf
<1>4. Recv'
  BY DEF TypeOK, Control, Recv, RecvUser, Fresh
<1>5. Send'
  BY DEF TypeOK, Control, Send, SendUser
<1>6. Disc'
  BY DEF TypeOK, Control, Disc, DiscUser, Life
<1>7. Held'
  BY DEF TypeOK, Control, Held, CompletionHasSession, Fresh, OvOf
<1>8. Life'
  BY DEF TypeOK, Control, Life, IdleIsClean
<1>9. New'
  BY DEF TypeOK, Control, New
<1>10. Accepts'
  BY AcceptsSame DEF TypeOK, Control
<1>11. Attentive'
  BY DEF TypeOK, Control, Attentive, Accepting
<1> QED
  BY <1>1, <1>2, <1>3, <1>4, <1>5, <1>6, <1>7, <1>8, <1>9, <1>10, <1>11

(* A handler posts a receive or a send whose OverlappedEx is free: the     *)
(* OverlappedEx gets a reference and passes from the thread to the kernel. *)
LEMMA Posts ==
  ASSUME IInv, NEW t \in Thread, NEW s, s = cur[t], NEW k \in {"recv", "send"},
         NEW next \in {"registerRecv", "drop"}, Goto(t, next),
         k = "recv" => pc[t] = "registerRecv" /\ next = "drop" /\ sending' = sending,
         k = "send" => /\ \/ pc[t] = "onSend" /\ next = "drop"
                          \/ pc[t] = "welcome" /\ next = "registerRecv" /\ ~sending[s]
                       /\ sending' = [sending EXCEPT ![s] = TRUE],
         up[s], GetSessionInto(s, k), PostIo(s, k),
         UNCHANGED <<state, table, listener, up, pendingAccepts,
                     cur, done, post, frames, then, crashed>>
  PROVE  IInv'
<1> USE LifecycleAssumption DEF IInv, At, Goto, AcceptPC, PostPC, IdlePC
<1>1. s \in Slot /\ refs[s] >= 1
  BY Subject, LastHolder DEF HandlePC, CurOf
<1>2. table[s] = "set" /\ k \notin ovPtr[s]
  BY <1>1 DEF Life, Recv, Send
<1>3. RefSum' /\ refs' \in [Slot -> Nat] /\ ovPtr' \in [Slot -> SUBSET Ov]
  BY <1>1, <1>2, CopyCounted DEF TypeOK, Ov
<1>4. /\ ovPtr' = [ovPtr EXCEPT ![s] = @ \cup {k}]
      /\ io' = [io EXCEPT ![s] = @ \cup {k}]
      /\ refs' = [refs EXCEPT ![s] = @ + 1]
      /\ pc' = [pc EXCEPT ![t] = next]
  BY <1>2 DEF GetSessionInto, PostIo
<1>5. TypeOK'
  <2>1. io' \in [Slot -> SUBSET IoType]
    BY <1>1, <1>4 DEF TypeOK, IoType
  <2>2. sending' \in [Slot -> BOOLEAN]
    BY DEF TypeOK
  <2>3. pc' \in [Thread -> PC]
    BY <1>4 DEF TypeOK, PC
  <2> QED
    BY <1>3, <2>1, <2>2, <2>3 DEF TypeOK
<1>6. Control'
  BY <1>1, <1>4 DEF TypeOK, Control, IoType, Done, NoDone
<1>7. RefSum'
  BY <1>3
<1>8. Recv'
  <2>1. \A u \in Thread, x \in Slot : RecvUser(u, x)' => RecvUser(u, x)
    BY <1>1, <1>4 DEF TypeOK, Control, RecvUser, Fresh
  <2>2. k = "recv" => RecvUser(t, s) /\ ~RecvUser(t, s)'
    BY <1>1, <1>4 DEF TypeOK, Control, RecvUser, Fresh
  <2>3. \A x \in Slot : "accept" \in io'[x] =>
          /\ io'[x] = {"accept"} /\ state'[x] = "pending"
          /\ \A u \in Thread : cur'[u] # x
    BY <1>1, <1>4 DEF TypeOK, Recv
  <2>4. \A x \in Slot, u \in Thread : RecvUser(u, x)' =>
          /\ "accept" \notin io'[x] /\ "recv" \notin io'[x]
          /\ \A v \in Thread : RecvUser(v, x)' => v = u
    BY <1>1, <1>4, <2>1, <2>2 DEF TypeOK, Recv
  <2>5. \A u \in Thread : pc'[u] \in {"connect", "welcome", "registerRecv"}
          => "recv" \notin ovPtr'[cur'[u]]
    <3> SUFFICES ASSUME NEW u \in Thread,
                        pc'[u] \in {"connect", "welcome", "registerRecv"}
                 PROVE  "recv" \notin ovPtr'[cur'[u]]
      OBVIOUS
    <3>1. pc[u] \in {"connect", "welcome", "registerRecv"} /\ cur'[u] = cur[u]
      BY <1>4 DEF TypeOK
    <3>2. "recv" \notin ovPtr[cur[u]] /\ RecvUser(u, cur[u])
      BY <3>1, Subject DEF Recv, RecvUser, Control, HandlePC
    <3> QED
      BY <1>1, <1>4, <2>2, <2>4, <3>1, <3>2 DEF TypeOK, Recv, RecvUser
  <2> QED
    BY <2>3, <2>4, <2>5 DEF Recv
<1>9. Send'
  BY <1>1, <1>4 DEF TypeOK, Control, Send, SendUser
<1>10. Disc'
  BY <1>1, <1>4 DEF TypeOK, Control, Disc, DiscUser, Life
<1>11. Held'
  BY <1>1, <1>4 DEF TypeOK, Control, Held, CompletionHasSession, Fresh, OvOf
<1>12. Life'
  BY <1>1, <1>4 DEF TypeOK, Control, Life, IdleIsClean
<1>13. New'
  BY <1>1, <1>4 DEF TypeOK, Control, New
<1>14. Accepts'
  BY <1>1, <1>4, AcceptsSame DEF TypeOK, Control
<1>15. Attentive'
  BY <1>1, <1>4 DEF TypeOK, Control, Attentive, Accepting
<1> QED
  BY <1>5, <1>6, <1>7, <1>8, <1>9, <1>10, <1>11, <1>12, <1>13, <1>14, <1>15

(* RegisterRecv passes recvOv_ to the kernel, or moves on to Disconnect. *)
LEMMA RegisterRecvIInv ==
  ASSUME IInv, NEW t \in Thread, RegisterRecv(t)
  PROVE  IInv'
<1> USE DEF RegisterRecv, At
<1>1. CASE /\ up[cur[t]] /\ GetSessionInto(cur[t], "recv") /\ PostIo(cur[t], "recv")
           /\ Goto(t, "drop")
  BY <1>1, Posts
<1>2. CASE Goto(t, "disconnect") /\ UNCHANGED <<refs, ovPtr, io>>
  BY <1>2, MovesOn DEF IInv, TypeOK
<1> QED
  BY <1>1, <1>2 DEF RegisterIo

(* OnSend sends the rest with the sendOv_ it was called for, or clears *)
(* isSending_ when nothing uses sendOv_ any more.                      *)
LEMMA OnSendIInv ==
  ASSUME IInv, NEW t \in Thread, OnSend(t)
  PROVE  IInv'
<1> USE DEF OnSend, At
<1>1. cur[t] \in Slot /\ sending[cur[t]]
  BY Subject DEF IInv, Control, Send, SendUser, HandlePC
<1>2. CASE /\ UNCHANGED sending /\ up[cur[t]] /\ GetSessionInto(cur[t], "send")
           /\ PostIo(cur[t], "send") /\ Goto(t, "drop")
  <2>1. sending' = [sending EXCEPT ![cur[t]] = TRUE]
    BY <1>1, <1>2 DEF IInv, TypeOK
  <2> QED
    BY <1>2, <2>1, Posts
<1>3. CASE UNCHANGED sending /\ Goto(t, "disconnect") /\ UNCHANGED <<refs, ovPtr, io>>
  BY <1>3, MovesOn DEF IInv, TypeOK
<1>4. CASE /\ sending' = [sending EXCEPT ![cur[t]] = FALSE] /\ Goto(t, "drop")
           /\ UNCHANGED <<refs, ovPtr, io>>
  <2> USE LifecycleAssumption DEF IInv, Goto, AcceptPC, PostPC, IdlePC
  <2>1. TypeOK'
    BY <1>1, <1>4 DEF TypeOK, PC, State, Ov, IoType, Done, NoDone
  <2>2. Control'
    BY <1>1, <1>4 DEF TypeOK, Control, IoType, Done, NoDone
  <2>3. RefSum'
    BY <1>1, <1>4 DEF TypeOK, Control, RefSum, TableOf, CurOf, PostOf
  <2>4. Recv'
    BY <1>1, <1>4 DEF TypeOK, Control, Recv, RecvUser, Fresh
  <2>5. Send'
    BY <1>1, <1>4 DEF TypeOK, Control, Send, SendUser
  <2>6. Disc'
    BY <1>1, <1>4 DEF TypeOK, Control, Disc, DiscUser, Life
  <2>7. Held'
    BY <1>1, <1>4 DEF TypeOK, Control, Held, CompletionHasSession, Fresh, OvOf
  <2>8. Life'
    BY <1>1, <1>4 DEF TypeOK, Control, Life, IdleIsClean
  <2>9. New'
    BY <1>1, <1>4 DEF TypeOK, Control, New
  <2>10. Accepts'
    BY <1>1, <1>4, AcceptsSame DEF TypeOK, Control
  <2>11. Attentive'
    BY <1>1, <1>4 DEF TypeOK, Control, Attentive, Accepting
  <2> QED
    BY <2>1, <2>2, <2>3, <2>4, <2>5, <2>6, <2>7, <2>8, <2>9, <2>10, <2>11
<1> QED
  BY <1>2, <1>3, <1>4 DEF RegisterIo

(* The welcome packet is sent only when isSending_ shows that sendOv_ is free. *)
LEMMA SendWelcomeIInv ==
  ASSUME IInv, NEW t \in Thread, SendWelcome(t)
  PROVE  IInv'
<1> USE DEF SendWelcome, At
<1>1. cur[t] \in Slot
  BY Subject DEF IInv, HandlePC
<1>2. CASE sending[cur[t]]
  <2>1. /\ sending' = sending /\ Goto(t, "registerRecv")
        /\ UNCHANGED <<refs, ovPtr, io>>
    BY <1>1, <1>2 DEF IInv, TypeOK
  <2> USE LifecycleAssumption DEF IInv, Goto, AcceptPC, PostPC, IdlePC
  <2>2. TypeOK'
    BY <1>1, <1>2, <2>1 DEF TypeOK, PC, State, Ov, IoType, Done, NoDone
  <2>3. Control'
    BY <1>1, <1>2, <2>1 DEF TypeOK, Control, IoType, Done, NoDone
  <2>4. RefSum'
    BY <1>1, <1>2, <2>1 DEF TypeOK, Control, RefSum, TableOf, CurOf, PostOf
  <2>5. Recv'
    BY <1>1, <1>2, <2>1 DEF TypeOK, Control, Recv, RecvUser, Fresh
  <2>6. Send'
    BY <1>1, <1>2, <2>1 DEF TypeOK, Control, Send, SendUser
  <2>7. Disc'
    BY <1>1, <1>2, <2>1 DEF TypeOK, Control, Disc, DiscUser, Life
  <2>8. Held'
    BY <1>1, <1>2, <2>1
       DEF TypeOK, Control, Held, CompletionHasSession, Fresh, OvOf
  <2>9. Life'
    BY <1>1, <1>2, <2>1 DEF TypeOK, Control, Life, IdleIsClean
  <2>10. New'
    BY <1>1, <1>2, <2>1 DEF TypeOK, Control, New
  <2>11. Accepts'
    BY <1>1, <1>2, <2>1, AcceptsSame DEF TypeOK, Control
  <2>12. Attentive'
    BY <1>1, <1>2, <2>1 DEF TypeOK, Control, Attentive, Accepting
  <2> QED
    BY <2>2, <2>3, <2>4, <2>5, <2>6, <2>7, <2>8, <2>9, <2>10, <2>11, <2>12
<1>3. CASE /\ ~sending[cur[t]] /\ up[cur[t]] /\ GetSessionInto(cur[t], "send")
           /\ PostIo(cur[t], "send") /\ Goto(t, "registerRecv")
  BY <1>3, Posts
<1>4. CASE ~sending[cur[t]] /\ Goto(t, "disconnect") /\ UNCHANGED <<refs, ovPtr, io>>
  BY <1>1, <1>4, MovesOn DEF IInv, TypeOK
<1> QED
  BY <1>2, <1>3, <1>4 DEF RegisterIo

(* RegisterDisconnect is the only user of disconnectOv_ of this session. *)
LEMMA RegisterDisconnectIInv ==
  ASSUME IInv, NEW t \in Thread, RegisterDisconnect(t)
  PROVE  IInv'
<1> USE LifecycleAssumption DEF IInv, At, Goto, AcceptPC, PostPC, IdlePC
<1> DEFINE s == cur[t]
<1>1. s \in Slot /\ pc[t] = "registerDisc" /\ refs[s] >= 1
  BY Subject, LastHolder DEF RegisterDisconnect, HandlePC, CurOf
<1>2. table[s] = "set" /\ "disc" \notin ovPtr[s] /\ DiscUser(t, s)
  BY <1>1 DEF Disc, DiscUser
<1>3. RefSum' /\ refs' \in [Slot -> Nat] /\ ovPtr' \in [Slot -> SUBSET Ov]
  BY <1>1, <1>2, CopyCounted DEF TypeOK, Ov, RegisterDisconnect
<1>4. /\ ovPtr' = [ovPtr EXCEPT ![s] = @ \cup {"disc"}]
      /\ io' = [io EXCEPT ![s] = @ \cup {"disc"}] \/ UNCHANGED io
      /\ refs' = [refs EXCEPT ![s] = @ + 1]
      /\ pc' = [pc EXCEPT ![t] = "drop"]
      /\ UNCHANGED <<state, table, listener, sending, up, pendingAccepts,
                     cur, done, post, frames, then, crashed>>
  BY <1>2 DEF RegisterDisconnect, GetSessionInto, PostIo
<1>5. TypeOK'
  BY <1>1, <1>2, <1>4, <1>3 DEF TypeOK, PC, State, Ov, IoType, Done, NoDone
<1>6. Control'
  BY <1>1, <1>2, <1>4 DEF TypeOK, Control, IoType, Done, NoDone
<1>7. RefSum'
  BY <1>3
<1>8. Recv'
  BY <1>1, <1>2, <1>4 DEF TypeOK, Control, Recv, RecvUser, Fresh
<1>9. Send'
  BY <1>1, <1>2, <1>4 DEF TypeOK, Control, Send, SendUser
<1>10. Disc'
  BY <1>1, <1>2, <1>4 DEF TypeOK, Control, Disc, DiscUser, Life
<1>11. Held'
  <2>1. CompletionHasSession'
    <3> SUFFICES ASSUME NEW x \in Slot, NEW k \in io'[x] PROVE OvOf(k) \in ovPtr'[x]
      BY DEF CompletionHasSession
    <3>1. k \in io[x] => OvOf(k) \in ovPtr[x]
      BY DEF Held, CompletionHasSession
    <3>2. k \notin io[x] => k = "disc" /\ x = s
      BY <1>1, <1>4 DEF TypeOK
    <3> QED
      BY <1>1, <1>4, <3>1, <3>2 DEF TypeOK, OvOf
  <2>2. \A u \in Thread : Fresh(u)' => OvOf(done'[u].io) \in ovPtr'[cur'[u]]
    BY <1>1, <1>4 DEF TypeOK, Control, Held, Fresh
  <2> QED
    BY <2>1, <2>2 DEF Held
<1>12. Life'
  BY <1>1, <1>2, <1>4 DEF TypeOK, Control, Life, IdleIsClean
<1>13. New'
  BY <1>1, <1>2, <1>4 DEF TypeOK, Control, New
<1>14. Accepts'
  BY <1>1, <1>2, <1>4, AcceptsSame DEF TypeOK, Control
<1>15. Attentive'
  BY <1>1, <1>2, <1>4 DEF TypeOK, Control, Attentive, Accepting
<1> QED
  BY <1>5, <1>6, <1>7, <1>8, <1>9, <1>10, <1>11, <1>12, <1>13, <1>14, <1>15

(* RegisterAccept works on a session that is still its own. *)
LEMMA RegisterAcceptIInv ==
  ASSUME IInv, NEW t \in Thread, RegisterAccept(t)
  PROVE  IInv'
<1> USE LifecycleAssumption DEF IInv, At, Goto, AcceptPC, PostPC, IdlePC
<1> DEFINE s == post[t]
<1>1. s \in Slot /\ pc[t] = "registerAccept"
  BY Subject DEF RegisterAccept
<1>2. /\ table[s] = "set" /\ ovPtr[s] = {} /\ io[s] = {} /\ state[s] = "pending"
      /\ \A u \in Thread : cur[u] # s /\ (post[u] = s => u = t)
  BY <1>1 DEF New, Life
<1>3. RefSum' /\ refs' \in [Slot -> Nat] /\ ovPtr' \in [Slot -> SUBSET Ov]
  BY <1>1, <1>2, CopyCounted DEF TypeOK, Ov, RegisterAccept
<1>4. /\ ovPtr' = [ovPtr EXCEPT ![s] = @ \cup {"recv"}]
      /\ \/ io' = [io EXCEPT ![s] = @ \cup {"accept"}]
         \/ "acceptSync" \in Faults /\ UNCHANGED io
      /\ refs' = [refs EXCEPT ![s] = @ + 1]
      /\ pc' = [pc EXCEPT ![t] = "setListener"]
      /\ UNCHANGED <<state, table, listener, sending, up, pendingAccepts,
                     cur, done, post, frames, then, crashed>>
  BY <1>2 DEF RegisterAccept, GetSessionInto, PostIo
<1>5. /\ Reserving' = Reserving \ {t} /\ t \in Reserving
      /\ Cardinality(Reserving') = Cardinality(Reserving) - 1
  <2>1. Reserving' = Reserving \ {t} /\ t \in Reserving
    BY <1>1, <1>4 DEF TypeOK, Reserving
  <2> QED
    BY <2>1, Countable, CardMinus
<1>6. \/ Cardinality(Accepting') = Cardinality(Accepting) + 1
      \/ "acceptSync" \in Faults /\ Accepting' = Accepting
  <2>1. CASE io' = [io EXCEPT ![s] = @ \cup {"accept"}]
    <3>1. Accepting' = Accepting \cup {s} /\ s \notin Accepting
      BY <1>1, <1>2, <2>1 DEF TypeOK, Accepting
    <3> QED
      BY <3>1, Countable, CardPlus
  <2> QED
    BY <1>4, <2>1 DEF Accepting
<1>7. TypeOK'
  BY <1>1, <1>2, <1>4, <1>3 DEF TypeOK, PC, State, Ov, IoType, Done, NoDone
<1>8. Control'
  BY <1>1, <1>2, <1>4 DEF TypeOK, Control, IoType, Done, NoDone
<1>9. RefSum'
  BY <1>3
<1>10. Recv'
  BY <1>1, <1>2, <1>4 DEF TypeOK, Control, Recv, RecvUser, Fresh
<1>11. Send'
  BY <1>1, <1>2, <1>4 DEF TypeOK, Control, Send, SendUser
<1>12. Disc'
  BY <1>1, <1>2, <1>4 DEF TypeOK, Control, Disc, DiscUser, Life
<1>13. Held'
  BY <1>1, <1>2, <1>4
     DEF TypeOK, Control, Held, CompletionHasSession, Fresh, OvOf
<1>14. Life'
  BY <1>1, <1>2, <1>4 DEF TypeOK, Control, Life, IdleIsClean
<1>15. New'
  BY <1>1, <1>2, <1>4 DEF TypeOK, Control, New
<1>16. Accepts'
  BY <1>4, <1>5, <1>6, Countable
   DEF Accepts, PendingAcceptsExact, TypeOK
<1>17. Attentive'
  BY <1>1, <1>2, <1>4 DEF TypeOK, Control, Attentive, Accepting
<1> QED
  BY <1>7, <1>8, <1>9, <1>10, <1>11, <1>12, <1>13, <1>14, <1>15, <1>16, <1>17

(* The store of listener_ disturbs nothing. *)
LEMMA SetListenerIInv ==
  ASSUME IInv, NEW t \in Thread, SetListener(t)
  PROVE  IInv'
<1> USE LifecycleAssumption DEF IInv, At, Goto, AcceptPC, PostPC, IdlePC, SetListener
<1>1. post[t] \in Slot
  BY Subject
<1>2. TypeOK'
  BY <1>1 DEF TypeOK, PC, State, Ov, IoType, Done, NoDone
<1>3. Control'
  BY <1>1 DEF TypeOK, Control, IoType, Done, NoDone
<1>4. RefSum'
  BY <1>1 DEF TypeOK, Control, RefSum, TableOf, CurOf, PostOf
<1>5. Recv'
  BY <1>1 DEF TypeOK, Control, Recv, RecvUser, Fresh
<1>6. Send'
  BY <1>1 DEF TypeOK, Control, Send, SendUser
<1>7. Disc'
  BY <1>1 DEF TypeOK, Control, Disc, DiscUser, Life
<1>8. Held'
  BY <1>1 DEF TypeOK, Control, Held, CompletionHasSession, Fresh, OvOf
<1>9. Life'
  BY <1>1 DEF TypeOK, Control, Life, IdleIsClean
<1>10. New'
  BY <1>1 DEF TypeOK, Control, New
<1>11. Accepts'
  BY <1>1, AcceptsSame DEF TypeOK, Control
<1>12. Attentive'
  BY <1>1 DEF TypeOK, Control, Attentive, Accepting
<1> QED
  BY <1>2, <1>3, <1>4, <1>5, <1>6, <1>7, <1>8, <1>9, <1>10, <1>11, <1>12

(* The destructor of sessionPtr: the last reference is the session's end. *)
LEMMA DropPostIInv ==
  ASSUME IInv, NEW t \in Thread, DropPost(t)
  PROVE  IInv'
<1> USE LifecycleAssumption DEF IInv, At, Goto, AcceptPC, PostPC, IdlePC
<1>0. PICK s \in Slot : s = post[t]
  BY Subject DEF DropPost
<1>1. s = post[t] /\ pc[t] = "dropPost" /\ frames[t] > 0
  BY <1>0 DEF DropPost, Control
<1>2. /\ refs[s] >= 1
      /\ refs[s] = 1 => /\ table[s] # "set" /\ ovPtr[s] = {}
                        /\ CurOf(s) = {} /\ PostOf(s) = {t}
  BY <1>1, LastHolder DEF PostOf
<1>3. /\ refs' = [refs EXCEPT ![s] = @ - 1]
      /\ then' = then
      /\ UNCHANGED <<state, table, ovPtr, io, listener, sending, up,
                     pendingAccepts, cur, done, crashed>>
  BY <1>1 DEF DropPost, ReleaseRef, CallPostAccept, TypeOK
<1>4. \/ /\ refs[s] = 1 /\ pc' = [pc EXCEPT ![t] = "push"]
         /\ post' = [post EXCEPT ![t] = s]
         /\ frames' = [frames EXCEPT ![t] = IF @ < MaxNest THEN @ + 1 ELSE @]
      \/ /\ refs[s] # 1 /\ pc' = [pc EXCEPT ![t] = "accept"]
         /\ post' = [post EXCEPT ![t] = NoSlot] /\ frames' = frames
  BY <1>1 DEF DropPost, ReleaseRef, CallPostAccept
<1>5. TypeOK'
  <2>1. refs' \in [Slot -> Nat]
    BY <1>1, <1>2, <1>3 DEF TypeOK
  <2>2. frames' \in [Thread -> 0 .. MaxNest]
    BY <1>4 DEF TypeOK
  <2>3. post' \in [Thread -> Slot \cup {NoSlot}] /\ pc' \in [Thread -> PC]
    BY <1>1, <1>4 DEF TypeOK, PC
  <2> QED
    BY <1>3, <2>1, <2>2, <2>3 DEF TypeOK
<1>6. Control'
  BY <1>1, <1>2, <1>3, <1>4 DEF TypeOK, Control, IoType, Done, NoDone
<1>7. RefSum'
  <2>1. \A x \in Slot : TableOf(x)' = TableOf(x) /\ CurOf(x)' = CurOf(x)
    BY <1>3 DEF TableOf, CurOf
  <2>2. PostOf(s)' = PostOf(s) \ {t} /\ t \in PostOf(s)
    <3>1. t \in PostOf(s) /\ t \notin PostOf(s)'
      BY <1>1, <1>4 DEF PostOf, TypeOK
    <3>2. \A u \in Thread \ {t} : post'[u] = post[u] /\ pc'[u] = pc[u]
      BY <1>4 DEF TypeOK
    <3> QED
      BY <3>1, <3>2 DEF PostOf
  <2>3. \A x \in Slot \ {s} : PostOf(x)' = PostOf(x)
    BY <1>1, <1>4 DEF PostOf, TypeOK
  <2>4. Cardinality(PostOf(s)') = Cardinality(PostOf(s)) - 1
    BY <1>1, <2>2, Countable, CardMinus
  <2>5. refs'[s] = refs[s] - 1 /\ \A x \in Slot \ {s} : refs'[x] = refs[x]
    BY <1>1, <1>3 DEF TypeOK
  <2> SUFFICES ASSUME NEW x \in Slot
               PROVE  refs'[x] = Cardinality(TableOf(x)) + Cardinality(ovPtr[x])
                                   + Cardinality(CurOf(x)) + Cardinality(PostOf(x)')
    BY <1>3, <2>1 DEF RefSum
  <2> QED
    BY <2>3, <2>4, <2>5, Countable DEF RefSum
<1>8. Recv'
  BY <1>1, <1>2, <1>3, <1>4 DEF TypeOK, Control, Recv, RecvUser, Fresh
<1>9. Send'
  BY <1>1, <1>2, <1>3, <1>4 DEF TypeOK, Control, Send, SendUser
<1>10. Disc'
  BY <1>1, <1>2, <1>3, <1>4 DEF TypeOK, Control, Disc, DiscUser, Life
<1>11. Held'
  BY <1>1, <1>2, <1>3, <1>4
     DEF TypeOK, Control, Held, CompletionHasSession, Fresh, OvOf
<1>12. Life'
  <2>1. IdleIsClean'
    BY <1>1, <1>2, <1>3, <1>4 DEF TypeOK, Control, Life, IdleIsClean
  <2>2. refs[s] = 1 => state[s] = "disconnecting"
    BY <1>1, <1>2 DEF Life, IdleIsClean, TypeOK, State
  <2>3. \A u \in Thread : pc[u] = "push" => post[u] # s
    BY <1>2 DEF Life
  <2>4. \A u \in Thread : pc'[u] = "push" =>
          /\ refs'[post'[u]] = 0 /\ state[post'[u]] = "disconnecting"
          /\ \A v \in Thread : pc'[v] = "push" /\ post'[v] = post'[u] => v = u
    <3> SUFFICES ASSUME NEW u \in Thread, pc'[u] = "push"
                 PROVE  /\ refs'[post'[u]] = 0 /\ state[post'[u]] = "disconnecting"
                        /\ \A v \in Thread : pc'[v] = "push" /\ post'[v] = post'[u] => v = u
      OBVIOUS
    <3>1. CASE u = t
      BY <1>1, <1>3, <1>4, <2>2, <2>3, <3>1 DEF TypeOK
    <3>2. CASE u # t
      <4>1. pc[u] = "push" /\ post'[u] = post[u] /\ post[u] # s /\ post[u] \in Slot
        BY <1>4, <2>3, <3>2, Subject DEF TypeOK
      <4> QED
        BY <1>1, <1>3, <1>4, <3>2, <4>1 DEF TypeOK, Life
    <3> QED
      BY <3>1, <3>2
  <2> QED
    BY <1>1, <1>3, <1>4, <2>1, <2>4 DEF Life, TypeOK
<1>13. New'
  BY <1>1, <1>2, <1>3, <1>4 DEF TypeOK, Control, New
<1>14. Accepts'
  BY <1>1, <1>2, <1>3, <1>4, AcceptsSame DEF TypeOK, Control
<1>15. Attentive'
  BY <1>1, <1>2, <1>3, <1>4 DEF TypeOK, Control, Attentive, Accepting
<1> QED
  BY <1>5, <1>6, <1>7, <1>8, <1>9, <1>10, <1>11, <1>12, <1>13, <1>14, <1>15

(* Push: no pointer is left, so the session is clean when it becomes idle. *)
LEMMA PushIInv ==
  ASSUME IInv, NEW t \in Thread, Push(t)
  PROVE  IInv'
<1> USE LifecycleAssumption DEF IInv, At, Goto, AcceptPC, PostPC, IdlePC, Push
<1> DEFINE s == post[t]
<1>1. s \in Slot /\ pc[t] = "push" /\ refs[s] = 0 /\ state[s] = "disconnecting"
  BY Subject DEF Life
<1>2. /\ table[s] # "set" /\ ovPtr[s] = {}
      /\ \A u \in Thread : cur[u] # s /\ (post[u] = s => pc[u] = "push")
  BY <1>1, LastHolder DEF CurOf, PostOf
<1>3. /\ io[s] = {} /\ table[s] = "null"
      /\ \A u \in Thread \ {t} : post[u] # s
  <2>1. io[s] = {}
    BY <1>1, <1>2 DEF Held, CompletionHasSession
  <2>2. table[s] = "null"
    BY <1>1, <1>2 DEF Life, TypeOK
  <2>3. \A u \in Thread \ {t} : post[u] # s
    BY <1>1, <1>2 DEF Life
  <2> QED
    BY <2>1, <2>2, <2>3
<1>4. TypeOK'
  BY <1>1, <1>2, <1>3 DEF TypeOK, PC, State, Ov, IoType, Done, NoDone
<1>5. Control'
  BY <1>1, <1>2, <1>3 DEF TypeOK, Control, IoType, Done, NoDone
<1>6. RefSum'
  BY <1>1, <1>2, <1>3 DEF TypeOK, Control, RefSum, TableOf, CurOf, PostOf
<1>7. Recv'
  BY <1>1, <1>2, <1>3 DEF TypeOK, Control, Recv, RecvUser, Fresh
<1>8. Send'
  BY <1>1, <1>2, <1>3 DEF TypeOK, Control, Send, SendUser
<1>9. Disc'
  BY <1>1, <1>2, <1>3 DEF TypeOK, Control, Disc, DiscUser, Life
<1>10. Held'
  BY <1>1, <1>2, <1>3
     DEF TypeOK, Control, Held, CompletionHasSession, Fresh, OvOf
<1>11. Life'
  BY <1>1, <1>2, <1>3 DEF TypeOK, Control, Life, IdleIsClean
<1>12. New'
  BY <1>1, <1>2, <1>3 DEF TypeOK, Control, New
<1>13. Accepts'
  BY <1>1, <1>2, <1>3, AcceptsSame DEF TypeOK, Control
<1>14. Attentive'
  BY <1>1, <1>2, <1>3 DEF TypeOK, Control, Attentive, Accepting
<1> QED
  BY <1>4, <1>5, <1>6, <1>7, <1>8, <1>9, <1>10, <1>11, <1>12, <1>13, <1>14

(* PostAccept returns: to its caller, or to the loop of the outer call. *)
LEMMA Returns ==
  ASSUME IInv, NEW t \in Thread, pc[t] \in {"accept", "undo"}, ReturnPostAccept(t)
  PROVE  /\ pc' \in [Thread -> PC] /\ frames' \in [Thread -> 0 .. MaxNest]
         /\ \A u \in Thread \ {t} : pc'[u] = pc[u] /\ frames'[u] = frames[u]
         /\ \/ frames'[t] > 0 /\ pc'[t] = "accept"
            \/ frames'[t] = 0 /\ pc'[t] = then[t]
         /\ then[t] \in {"dispatch"} \cup IdlePC
         /\ post[t] = NoSlot
<1> USE LifecycleAssumption DEF IInv, Goto, AcceptPC, PostPC, IdlePC, ReturnPostAccept
<1>1. /\ frames[t] \in 1 .. MaxNest /\ post[t] = NoSlot
      /\ then[t] \in {"dispatch"} \cup IdlePC
  BY DEF TypeOK, Control
<1>2. frames' \in [Thread -> 0 .. MaxNest]
  BY <1>1 DEF TypeOK
<1>3. pc' \in [Thread -> PC]
  BY <1>1 DEF TypeOK, PC
<1> QED
  BY <1>1, <1>2, <1>3 DEF TypeOK

(* The loop reserves an accept, or gives up: then, when the call returns to    *)
(* its caller, one of the kMaxAccept accepts counted is in the kernel, for the *)
(* other threads can have reserved no more than one each.                      *)
LEMMA AcceptLoopIInv ==
  ASSUME IInv, NEW t \in Thread, AcceptLoop(t)
  PROVE  IInv'
<1> USE LifecycleAssumption DEF IInv, At, Goto, AcceptPC, PostPC, IdlePC
<1>1. /\ pc[t] = "accept" /\ ~crashed
      /\ UNCHANGED <<state, refs, table, ovPtr, io, listener, sending, up,
                     cur, done, post, then, crashed>>
  BY DEF AcceptLoop, session
<1>2. CASE pendingAccepts >= MaxAccept /\ ReturnPostAccept(t) /\ UNCHANGED pendingAccepts
  <2>1. /\ pc' \in [Thread -> PC] /\ frames' \in [Thread -> 0 .. MaxNest]
        /\ \A u \in Thread \ {t} : pc'[u] = pc[u] /\ frames'[u] = frames[u]
        /\ \/ frames'[t] > 0 /\ pc'[t] = "accept"
           \/ frames'[t] = 0 /\ pc'[t] = then[t]
        /\ then[t] \in {"dispatch"} \cup IdlePC
        /\ post[t] = NoSlot
    BY <1>1, <1>2, Returns
  <2>2. TypeOK'
    BY <1>1, <1>2, <2>1 DEF TypeOK, PC, State, Ov, IoType, Done, NoDone
  <2>3. Control'
    BY <1>1, <1>2, <2>1 DEF TypeOK, Control, IoType, Done, NoDone
  <2>4. RefSum'
    BY <1>1, <1>2, <2>1 DEF TypeOK, Control, RefSum, TableOf, CurOf, PostOf
  <2>5. Recv'
    BY <1>1, <1>2, <2>1 DEF TypeOK, Control, Recv, RecvUser, Fresh
  <2>6. Send'
    BY <1>1, <1>2, <2>1 DEF TypeOK, Control, Send, SendUser
  <2>7. Disc'
    BY <1>1, <1>2, <2>1 DEF TypeOK, Control, Disc, DiscUser, Life
  <2>8. Held'
    BY <1>1, <1>2, <2>1
       DEF TypeOK, Control, Held, CompletionHasSession, Fresh, OvOf
  <2>9. Life'
    BY <1>1, <1>2, <2>1 DEF TypeOK, Control, Life, IdleIsClean
  <2>10. New'
    BY <1>1, <1>2, <2>1 DEF TypeOK, Control, New
  <2>11. Accepts'
    BY <1>1, <1>2, <2>1, AcceptsSame DEF TypeOK, Control
  <2>12. Attentive'
    <3> SUFFICES ASSUME "acceptSync" \notin Faults, MaxAccept >= Cardinality(Thread)
                 PROVE  Accepting # {}
      BY <1>1 DEF Attentive, Accepting
    <3>1. Cardinality(Reserving) < Cardinality(Thread)
      <4>1. Reserving \subseteq Thread \ {t}
        BY <1>1 DEF Reserving
      <4>2. /\ IsFiniteSet(Thread \ {t})
            /\ Cardinality(Thread \ {t}) = Cardinality(Thread) - 1
        BY Countable, CardMinus
      <4>3. Cardinality(Reserving) <= Cardinality(Thread \ {t})
        BY <4>1, <4>2, FS_Subset
      <4> QED
        BY <4>2, <4>3, Countable
    <3>2. pendingAccepts = Cardinality(Accepting) + Cardinality(Reserving)
      BY <1>1 DEF Accepts, PendingAcceptsExact
    <3>3. Cardinality(Accepting) # 0
      BY <1>2, <3>1, <3>2, Countable DEF TypeOK
    <3> QED
      BY <3>3, FS_EmptySet
  <2> QED
    BY <2>2, <2>3, <2>4, <2>5, <2>6, <2>7, <2>8, <2>9, <2>10, <2>11, <2>12
<1>3. CASE /\ pendingAccepts < MaxAccept /\ pendingAccepts' = pendingAccepts + 1
           /\ Goto(t, "create") /\ UNCHANGED frames
  <2>1. Accepting' = Accepting /\ Reserving' = Reserving \cup {t} /\ t \notin Reserving
    BY <1>1, <1>3 DEF Accepting, Reserving, TypeOK
  <2>2. Cardinality(Reserving') = Cardinality(Reserving) + 1
    BY <2>1, Countable, CardPlus
  <2>3. TypeOK'
    <3>1. pc' \in [Thread -> PC] /\ pendingAccepts' \in Nat
      BY <1>3 DEF TypeOK, PC
    <3> QED
      BY <1>1, <1>3, <3>1 DEF TypeOK
  <2>4. Control'
    BY <1>1, <1>3 DEF TypeOK, Control, IoType, Done, NoDone
  <2>5. RefSum'
    BY <1>1, <1>3 DEF TypeOK, Control, RefSum, TableOf, CurOf, PostOf
  <2>6. Recv'
    BY <1>1, <1>3 DEF TypeOK, Control, Recv, RecvUser, Fresh
  <2>7. Send'
    BY <1>1, <1>3 DEF TypeOK, Control, Send, SendUser
  <2>8. Disc'
    BY <1>1, <1>3 DEF TypeOK, Control, Disc, DiscUser, Life
  <2>9. Held'
    BY <1>1, <1>3 DEF TypeOK, Control, Held, CompletionHasSession, Fresh, OvOf
  <2>10. Life'
    BY <1>1, <1>3 DEF TypeOK, Control, Life, IdleIsClean
  <2>11. New'
    BY <1>1, <1>3 DEF TypeOK, Control, New
  <2>12. Accepts'
    BY <1>1, <1>3, <2>1, <2>2, Countable
     DEF Accepts, PendingAcceptsExact, TypeOK
  <2>13. Attentive'
    BY <1>1, <1>3 DEF TypeOK, Control, Attentive, Accepting
  <2> QED
    BY <2>3, <2>4, <2>5, <2>6, <2>7, <2>8, <2>9, <2>10, <2>11, <2>12, <2>13
<1> QED
  BY <1>2, <1>3 DEF AcceptLoop, TypeOK

(* CreateSession takes an idle session, which nothing points to. *)
LEMMA CreateSessionIInv ==
  ASSUME IInv, NEW t \in Thread, NEW s \in Slot, CreateSession(t, s)
  PROVE  IInv'
<1> USE LifecycleAssumption DEF IInv, At, Goto, AcceptPC, PostPC, IdlePC
<1>1. /\ pc[t] = "create" /\ state[s] = "idle"
      /\ io[s] = {} /\ ovPtr[s] = {} /\ table[s] = "null" /\ ~up[s]
      /\ \A u \in Thread : cur[u] # s /\ post[u] # s
  BY DEF CreateSession, Life, IdleIsClean
<1>2. /\ state' = [state EXCEPT ![s] = "pending"]
      /\ refs' = [refs EXCEPT ![s] = 2]
      /\ table' = [table EXCEPT ![s] = "set"]
      /\ ovPtr' = ovPtr
      /\ listener' = [listener EXCEPT ![s] = FALSE]
      /\ sending' = [sending EXCEPT ![s] = FALSE]
      /\ post' = [post EXCEPT ![t] = s]
      /\ pc' = [pc EXCEPT ![t] = "registerAccept"]
      /\ UNCHANGED <<io, up, pendingAccepts, cur, done, frames, then, crashed>>
  BY <1>1 DEF CreateSession, TypeOK
<1>3. TypeOK'
  BY <1>1, <1>2 DEF TypeOK, PC, State, Ov, IoType, Done, NoDone
<1>4. Control'
  BY <1>1, <1>2 DEF TypeOK, Control, IoType, Done, NoDone
<1>5. RefSum'
  <2>1. \A x \in Slot : CurOf(x)' = CurOf(x)
    BY <1>2 DEF CurOf
  <2>2. /\ PostOf(s)' = {t} /\ CurOf(s) = {} /\ TableOf(s)' = {"set"}
    <3>1. t \in PostOf(s)' /\ \A u \in Thread \ {t} : post'[u] # s
      BY <1>1, <1>2 DEF PostOf, TypeOK
    <3>2. PostOf(s)' = {t}
      BY <3>1 DEF PostOf
    <3>3. CurOf(s) = {} /\ TableOf(s)' = {"set"}
      BY <1>1, <1>2 DEF CurOf, TableOf, TypeOK
    <3> QED
      BY <3>2, <3>3
  <2>3. \A x \in Slot \ {s} : /\ TableOf(x)' = TableOf(x)
                              /\ PostOf(x)' = PostOf(x)
                              /\ refs'[x] = refs[x]
    <3> TAKE x \in Slot \ {s}
    <3>1. TableOf(x)' = TableOf(x) /\ refs'[x] = refs[x]
      BY <1>2 DEF TableOf, TypeOK
    <3>2. post[t] = NoSlot /\ post'[t] = s
      BY <1>1, <1>2 DEF Control, TypeOK
    <3>3. \A u \in Thread \ {t} : post'[u] = post[u] /\ pc'[u] = pc[u]
      BY <1>2 DEF TypeOK
    <3>4. PostOf(x)' = PostOf(x)
      BY <3>2, <3>3 DEF PostOf
    <3> QED
      BY <3>1, <3>4
  <2>4. /\ Cardinality(PostOf(s)') = 1 /\ Cardinality(TableOf(s)') = 1
        /\ Cardinality(CurOf(s)) = 0 /\ Cardinality(ovPtr[s]) = 0
    <3>1. Cardinality({t}) = 1 /\ Cardinality({"set"}) = 1 /\ Cardinality({}) = 0
      BY FS_Singleton, FS_EmptySet
    <3> QED
      BY <1>1, <2>2, <3>1
  <2>5. refs'[s] = 2
    BY <1>2 DEF TypeOK
  <2> SUFFICES ASSUME NEW x \in Slot
               PROVE  refs'[x] = Cardinality(TableOf(x)') + Cardinality(ovPtr[x])
                                   + Cardinality(CurOf(x)) + Cardinality(PostOf(x)')
    BY <1>2, <2>1 DEF RefSum
  <2> QED
    BY <2>3, <2>4, <2>5 DEF RefSum
<1>6. Recv'
  BY <1>1, <1>2 DEF TypeOK, Control, Recv, RecvUser, Fresh
<1>7. Send'
  BY <1>1, <1>2 DEF TypeOK, Control, Send, SendUser
<1>8. Disc'
  BY <1>1, <1>2 DEF TypeOK, Control, Disc, DiscUser, Life
<1>9. Held'
  BY <1>1, <1>2 DEF TypeOK, Control, Held, CompletionHasSession, Fresh, OvOf
<1>10. Life'
  BY <1>1, <1>2 DEF TypeOK, Control, Life, IdleIsClean
<1>11. New'
  BY <1>1, <1>2 DEF TypeOK, Control, New
<1>12. Accepts'
  BY <1>1, <1>2, AcceptsSame DEF TypeOK, Control
<1>13. Attentive'
  BY <1>1, <1>2 DEF TypeOK, Control, Attentive, Accepting
<1> QED
  BY <1>3, <1>4, <1>5, <1>6, <1>7, <1>8, <1>9, <1>10, <1>11, <1>12, <1>13

(* Without an idle session the reservation is kept until it is undone. *)
LEMMA CreateSessionFailsIInv ==
  ASSUME IInv, NEW t \in Thread, CreateSessionFails(t)
  PROVE  IInv'
<1> USE LifecycleAssumption DEF IInv, At, Goto, AcceptPC, PostPC, IdlePC,
           CreateSessionFails, session
<1>1. TypeOK'
  BY DEF TypeOK, PC, State, Ov, IoType, Done, NoDone
<1>2. Control'
  BY DEF TypeOK, Control, IoType, Done, NoDone
<1>3. RefSum'
  BY DEF TypeOK, Control, RefSum, TableOf, CurOf, PostOf
<1>4. Recv'
  BY DEF TypeOK, Control, Recv, RecvUser, Fresh
<1>5. Send'
  BY DEF TypeOK, Control, Send, SendUser
<1>6. Disc'
  BY DEF TypeOK, Control, Disc, DiscUser, Life
<1>7. Held'
  BY DEF TypeOK, Control, Held, CompletionHasSession, Fresh, OvOf
<1>8. Life'
  BY DEF TypeOK, Control, Life, IdleIsClean
<1>9. New'
  BY DEF TypeOK, Control, New
<1>10. Accepts'
  BY AcceptsSame DEF TypeOK, Control
<1>11. Attentive'
  BY DEF TypeOK, Control, Attentive, Accepting
<1> QED
  BY <1>1, <1>2, <1>3, <1>4, <1>5, <1>6, <1>7, <1>8, <1>9, <1>10, <1>11

(* The reservation is given back. *)
LEMMA UndoAcceptIInv ==
  ASSUME IInv, NEW t \in Thread, UndoAccept(t)
  PROVE  IInv'
<1> USE LifecycleAssumption DEF IInv, At, Goto, AcceptPC, PostPC, IdlePC
<1>1. /\ pc[t] = "undo" /\ pendingAccepts' = pendingAccepts - 1
      /\ UNCHANGED <<state, refs, table, ovPtr, io, listener, sending, up,
                     cur, done, post, then, crashed>>
  BY DEF UndoAccept, session
<1>2. /\ pc' \in [Thread -> PC] /\ frames' \in [Thread -> 0 .. MaxNest]
      /\ \A u \in Thread \ {t} : pc'[u] = pc[u] /\ frames'[u] = frames[u]
      /\ \/ frames'[t] > 0 /\ pc'[t] = "accept"
         \/ frames'[t] = 0 /\ pc'[t] = then[t]
      /\ then[t] \in {"dispatch"} \cup IdlePC
      /\ post[t] = NoSlot
  BY <1>1, Returns DEF UndoAccept
<1>3. Accepting' = Accepting /\ Reserving' = Reserving \ {t} /\ t \in Reserving
  BY <1>1, <1>2 DEF Accepting, Reserving
<1>4. Cardinality(Reserving') = Cardinality(Reserving) - 1 /\ Cardinality(Reserving) >= 1
  BY <1>3, Countable, CardMinus
<1>5. pendingAccepts >= 1
  BY <1>4, Countable DEF Accepts, TypeOK
<1>6. TypeOK'
  BY <1>1, <1>2, <1>5 DEF TypeOK
<1>7. Control'
  BY <1>1, <1>2 DEF TypeOK, Control, IoType, Done, NoDone
<1>8. RefSum'
  BY <1>1, <1>2 DEF TypeOK, Control, RefSum, TableOf, CurOf, PostOf
<1>9. Recv'
  BY <1>1, <1>2 DEF TypeOK, Control, Recv, RecvUser, Fresh
<1>10. Send'
  BY <1>1, <1>2 DEF TypeOK, Control, Send, SendUser
<1>11. Disc'
  BY <1>1, <1>2 DEF TypeOK, Control, Disc, DiscUser, Life
<1>12. Held'
  BY <1>1, <1>2 DEF TypeOK, Control, Held, CompletionHasSession, Fresh, OvOf
<1>13. Life'
  BY <1>1, <1>2 DEF TypeOK, Control, Life, IdleIsClean
<1>14. New'
  BY <1>1, <1>2 DEF TypeOK, Control, New
<1>15. Accepts'
  BY <1>1, <1>3, <1>4, Countable
   DEF Accepts, PendingAcceptsExact, TypeOK
<1>16. Attentive'
  BY <1>1, <1>2 DEF TypeOK, Control, Attentive, Accepting
<1> QED
  BY <1>6, <1>7, <1>8, <1>9, <1>10, <1>11, <1>12, <1>13, <1>14, <1>15, <1>16

(* Connect moves a pending session on, or leaves it to Disconnect. *)
LEMMA ConnectIInv ==
  ASSUME IInv, NEW t \in Thread, Connect(t)
  PROVE  IInv'
<1>1. CASE Goto(t, "disconnect") /\ UNCHANGED state
  BY <1>1, MovesOn DEF Connect, At, IInv, TypeOK
<1>2. CASE /\ state[cur[t]] = "pending"
           /\ state' = [state EXCEPT ![cur[t]] = "connected"]
           /\ Goto(t, "welcome")
  <2> USE LifecycleAssumption DEF IInv, At, Goto, AcceptPC, PostPC, IdlePC, Connect
  <2>1. cur[t] \in Slot
    BY Subject DEF HandlePC
  <2>2. TypeOK'
    BY <1>2, <2>1 DEF TypeOK, PC, State, Ov, IoType, Done, NoDone
  <2>3. Control'
    BY <1>2, <2>1 DEF TypeOK, Control, IoType, Done, NoDone
  <2>4. RefSum'
    BY <1>2, <2>1 DEF TypeOK, Control, RefSum, TableOf, CurOf, PostOf
  <2>5. Recv'
    BY <1>2, <2>1 DEF TypeOK, Control, Recv, RecvUser, Fresh
  <2>6. Send'
    BY <1>2, <2>1 DEF TypeOK, Control, Send, SendUser
  <2>7. Disc'
    BY <1>2, <2>1 DEF TypeOK, Control, Disc, DiscUser, Life
  <2>8. Held'
    BY <1>2, <2>1 DEF TypeOK, Control, Held, CompletionHasSession, Fresh, OvOf
  <2>9. Life'
    BY <1>2, <2>1 DEF TypeOK, Control, Life, IdleIsClean
  <2>10. New'
    BY <1>2, <2>1 DEF TypeOK, Control, New
  <2>11. Accepts'
    BY <1>2, <2>1, AcceptsSame DEF TypeOK, Control
  <2>12. Attentive'
    BY <1>2, <2>1 DEF TypeOK, Control, Attentive, Accepting
  <2> QED
    BY <2>2, <2>3, <2>4, <2>5, <2>6, <2>7, <2>8, <2>9, <2>10, <2>11, <2>12
<1> QED
  BY <1>1, <1>2 DEF Connect

(* Disconnect passes for the first caller only, who then owns disconnectOv_. *)
LEMMA DisconnectIInv ==
  ASSUME IInv, NEW t \in Thread, Disconnect(t)
  PROVE  IInv'
<1>1. CASE Goto(t, "drop") /\ UNCHANGED state
  BY <1>1, MovesOn DEF Disconnect, At, IInv, TypeOK
<1>2. CASE /\ state[cur[t]] \in {"pending", "connected"}
           /\ state' = [state EXCEPT ![cur[t]] = "disconnecting"]
           /\ Goto(t, "registerDisc")
  <2> USE LifecycleAssumption DEF IInv, At, Goto, AcceptPC, PostPC, IdlePC, Disconnect
  <2>1. cur[t] \in Slot
    BY Subject DEF HandlePC
  <2>2. TypeOK'
    BY <1>2, <2>1 DEF TypeOK, PC, State, Ov, IoType, Done, NoDone
  <2>3. Control'
    BY <1>2, <2>1 DEF TypeOK, Control, IoType, Done, NoDone
  <2>4. RefSum'
    BY <1>2, <2>1 DEF TypeOK, Control, RefSum, TableOf, CurOf, PostOf
  <2>5. Recv'
    BY <1>2, <2>1 DEF TypeOK, Control, Recv, RecvUser, Fresh
  <2>6. Send'
    BY <1>2, <2>1 DEF TypeOK, Control, Send, SendUser
  <2>7. Disc'
    BY <1>2, <2>1 DEF TypeOK, Control, Disc, DiscUser, Life
  <2>8. Held'
    BY <1>2, <2>1 DEF TypeOK, Control, Held, CompletionHasSession, Fresh, OvOf
  <2>9. Life'
    BY <1>2, <2>1 DEF TypeOK, Control, Life, IdleIsClean
  <2>10. New'
    BY <1>2, <2>1 DEF TypeOK, Control, New
  <2>11. Accepts'
    BY <1>2, <2>1, AcceptsSame DEF TypeOK, Control
  <2>12. Attentive'
    BY <1>2, <2>1 DEF TypeOK, Control, Attentive, Accepting
  <2> QED
    BY <2>2, <2>3, <2>4, <2>5, <2>6, <2>7, <2>8, <2>9, <2>10, <2>11, <2>12
<1> QED
  BY <1>1, <1>2 DEF Disconnect

(* A completion that crashes the worker takes an operation from the kernel and *)
(* nothing else.                                                               *)
LEMMA DequeueCrashes ==
  ASSUME IInv, NEW s \in Slot, NEW k \in io[s], k \in IoType,
         io' = [io EXCEPT ![s] = @ \ {k}], NEW b \in BOOLEAN,
         up' = [up EXCEPT ![s] = CASE k = "accept" -> b
                                   [] k = "disc" -> FALSE [] OTHER -> @],
         crashed' = TRUE,
         UNCHANGED <<state, refs, table, ovPtr, listener, sending, pendingAccepts,
                     pc, cur, done, post, frames, then>>
  PROVE  IInv'
<1> USE LifecycleAssumption DEF IInv, At, Goto, AcceptPC, PostPC, IdlePC
<1>1. /\ io' \in [Slot -> SUBSET IoType] /\ up' \in [Slot -> BOOLEAN]
      /\ \A x \in Slot : io'[x] \subseteq io[x] /\ (x # s => up'[x] = up[x])
      /\ up'[s] => up[s] \/ k = "accept"
  BY DEF TypeOK
<1>2. k = "accept" => /\ io[s] = {"accept"} /\ state[s] = "pending" /\ table[s] = "set"
                      /\ \A u \in Thread : cur[u] # s
  BY DEF Recv, Life
<1>3. Accepting' \subseteq Accepting /\ Reserving' = Reserving
  BY <1>1 DEF Accepting, Reserving
<1>4. /\ Cardinality(Accepting') <= Cardinality(Accepting)
      /\ Cardinality(Accepting') \in Nat
  BY <1>3, Countable, FS_Subset, FS_CardinalityType
<1>5. TypeOK'
  BY <1>1 DEF TypeOK
<1>6. Control'
  BY <1>1, <1>2 DEF TypeOK, Control, IoType, Done, NoDone
<1>7. RefSum'
  BY <1>1, <1>2 DEF TypeOK, Control, RefSum, TableOf, CurOf, PostOf
<1>8. Recv'
  BY <1>1, <1>2 DEF TypeOK, Control, Recv, RecvUser, Fresh
<1>9. Send'
  BY <1>1, <1>2 DEF TypeOK, Control, Send, SendUser
<1>10. Disc'
  BY <1>1, <1>2 DEF TypeOK, Control, Disc, DiscUser, Life
<1>11. Held'
  BY <1>1, <1>2 DEF TypeOK, Control, Held, CompletionHasSession, Fresh, OvOf
<1>12. Life'
  BY <1>1, <1>2 DEF TypeOK, Control, Life, IdleIsClean
<1>13. New'
  BY <1>1, <1>2 DEF TypeOK, Control, New
<1>14. Accepts'
  BY <1>3, <1>4, Countable
   DEF Accepts, PendingAcceptsExact, TypeOK
<1>15. Attentive'
  BY <1>1, <1>2 DEF TypeOK, Control, Attentive, Accepting
<1> QED
  BY <1>5, <1>6, <1>7, <1>8, <1>9, <1>10, <1>11, <1>12, <1>13, <1>14, <1>15

(* Dequeue passes an operation from the kernel to the worker, and copies the *)
(* pointer of its OverlappedEx.                                              *)
LEMMA DequeueIInv ==
  ASSUME IInv, NEW t \in Thread, NEW s \in Slot, NEW k \in IoType,
         NEW failed \in BOOLEAN, Dequeue(t, s, k, failed)
  PROVE  IInv'
<1> USE LifecycleAssumption DEF IInv, At, Goto, AcceptPC, PostPC, IdlePC
<1>1. /\ pc[t] = "wait" /\ k \in io[s]
      /\ io' = [io EXCEPT ![s] = @ \ {k}]
      /\ up' = [up EXCEPT ![s] = CASE k = "accept" -> ~failed
                                   [] k = "disc" -> FALSE [] OTHER -> @]
      /\ UNCHANGED <<state, table, ovPtr, listener, sending>>
  BY DEF Dequeue
<1>2. CASE crashed' = TRUE /\ UNCHANGED <<refs, pendingAccepts, thread>>
  BY <1>1, <1>2, DequeueCrashes DEF thread
<1>3. CASE ~(crashed' = TRUE /\ UNCHANGED <<refs, pendingAccepts, thread>>)
  <2>1. /\ refs' = [refs EXCEPT ![s] = @ + 1]
        /\ cur' = [cur EXCEPT ![t] = s]
        /\ done' = [done EXCEPT ![t] = [io |-> k, failed |-> failed]]
        /\ \/ /\ k = "accept" /\ pendingAccepts' = pendingAccepts - 1
              /\ CallPostAccept(t, "dispatch") /\ Goto(t, "accept")
           \/ /\ k # "accept" /\ Goto(t, "dispatch")
              /\ UNCHANGED <<pendingAccepts, frames, then>>
        /\ OvOf(k) \in ovPtr[s]
        /\ UNCHANGED <<post, crashed>>
    BY <1>3 DEF Dequeue
  <2>2. frames[t] = 0 /\ cur[t] = NoSlot /\ post[t] = NoSlot
    BY <1>1 DEF TypeOK, Control
  <2>3. /\ \/ /\ k = "accept" /\ pendingAccepts' = pendingAccepts - 1
              /\ pc' = [pc EXCEPT ![t] = "accept"]
              /\ frames' = [frames EXCEPT ![t] = 1]
              /\ then' = [then EXCEPT ![t] = "dispatch"]
           \/ /\ k # "accept" /\ pc' = [pc EXCEPT ![t] = "dispatch"]
              /\ UNCHANGED <<pendingAccepts, frames, then>>
    BY <2>1, <2>2 DEF CallPostAccept, TypeOK
  <2>4. /\ io' \in [Slot -> SUBSET IoType] /\ up' \in [Slot -> BOOLEAN]
        /\ \A x \in Slot : io'[x] \subseteq io[x] /\ (x # s => up'[x] = up[x])
        /\ up'[s] => (up[s] /\ k # "disc") \/ k = "accept"
        /\ k \notin io'[s]
        /\ \A x \in Slot \ {s} : io'[x] = io[x]
        /\ io'[s] = io[s] \ {k}
    BY <1>1 DEF TypeOK
  <2>5. k = "accept" => /\ io[s] = {"accept"} /\ state[s] = "pending"
                        /\ table[s] = "set" /\ \A u \in Thread : cur[u] # s
    BY <1>1 DEF Recv, Life
  <2>6. Reserving' = Reserving
    BY <1>1, <2>3 DEF Reserving, TypeOK
  <2>7. \/ /\ k = "accept" /\ Cardinality(Accepting') = Cardinality(Accepting) - 1
           /\ Cardinality(Accepting) >= 1
        \/ k # "accept" /\ Accepting' = Accepting
    <3>1. CASE k = "accept"
      <4>1. Accepting' = Accepting \ {s} /\ s \in Accepting
        BY <1>1, <2>4, <3>1 DEF Accepting
      <4> QED
        BY <3>1, <4>1, Countable, CardMinus
    <3>2. CASE k # "accept"
      BY <2>4, <3>2 DEF Accepting
    <3> QED
      BY <3>1, <3>2
  <2>8. /\ refs' \in [Slot -> Nat] /\ refs'[s] = refs[s] + 1
        /\ \A x \in Slot \ {s} : refs'[x] = refs[x]
    BY <2>1 DEF TypeOK
  <2>9. \A u \in Thread : pc[u] = "push" => post[u] # s
    BY <2>1, LastHolder DEF Life
  <2>10. TypeOK'
    <3>1. /\ cur' \in [Thread -> Slot \cup {NoSlot}]
          /\ done' \in [Thread -> Done]
      BY <2>1 DEF TypeOK, Done
    <3>2. /\ pc' \in [Thread -> PC] /\ frames' \in [Thread -> 0 .. MaxNest]
          /\ then' \in [Thread -> PC]
      BY <2>3 DEF TypeOK, PC
    <3>3. pendingAccepts' \in Nat
      BY <2>3, <2>7, Countable DEF Accepts, TypeOK
    <3> QED
      BY <1>1, <2>1, <2>4, <2>8, <3>1, <3>2, <3>3 DEF TypeOK
  <2>11. Control'
    BY <1>1, <2>1, <2>2, <2>3, <2>4, <2>5, <2>8, <2>9
       DEF TypeOK, Control, IoType, Done, NoDone
  <2>12. RefSum'
    <3>1. CurOf(s)' = CurOf(s) \cup {t} /\ t \notin CurOf(s)
      BY <2>1, <2>2 DEF CurOf, TypeOK
    <3>2. Cardinality(CurOf(s)') = Cardinality(CurOf(s)) + 1
      BY <3>1, Countable, CardPlus
    <3>3. \A x \in Slot \ {s} : CurOf(x)' = CurOf(x)
      BY <2>1, <2>2 DEF CurOf, TypeOK
    <3>4. \A x \in Slot : TableOf(x)' = TableOf(x) /\ PostOf(x)' = PostOf(x)
      <4>1. \A u \in Thread : pc[u] = "push" <=> pc'[u] = "push"
        BY <1>1, <2>3 DEF TypeOK
      <4> QED
        BY <1>1, <2>1, <4>1 DEF TableOf, PostOf
    <3> SUFFICES ASSUME NEW x \in Slot
                 PROVE  refs'[x] = Cardinality(TableOf(x)) + Cardinality(ovPtr[x])
                                     + Cardinality(CurOf(x)') + Cardinality(PostOf(x))
      BY <1>1, <3>4 DEF RefSum
    <3> QED
      BY <2>8, <3>2, <3>3, Countable DEF RefSum
  <2>13. Recv'
    BY <1>1, <2>1, <2>2, <2>3, <2>4, <2>5, <2>8, <2>9
       DEF TypeOK, Control, Recv, RecvUser, Fresh
  <2>14. Send'
    BY <1>1, <2>1, <2>2, <2>3, <2>4, <2>5, <2>8, <2>9
       DEF TypeOK, Control, Send, SendUser
  <2>15. Disc'
    BY <1>1, <2>1, <2>2, <2>3, <2>4, <2>5, <2>8, <2>9
       DEF TypeOK, Control, Disc, DiscUser, Life
  <2>16. Held'
    BY <1>1, <2>1, <2>2, <2>3, <2>4, <2>5, <2>8, <2>9
       DEF TypeOK, Control, Held, CompletionHasSession, Fresh, OvOf
  <2>17. Life'
    BY <1>1, <2>1, <2>2, <2>3, <2>4, <2>5, <2>8, <2>9
       DEF TypeOK, Control, Life, IdleIsClean
  <2>18. New'
    BY <1>1, <2>1, <2>2, <2>3, <2>4, <2>5, <2>8, <2>9 DEF TypeOK, Control, New
  <2>19. Accepts'
    BY <2>1, <2>3, <2>6, <2>7, Countable
     DEF Accepts, PendingAcceptsExact, TypeOK
  <2>20. Attentive'
    BY <1>1, <2>1, <2>2, <2>3, <2>4, <2>5, <2>8, <2>9
       DEF TypeOK, Control, Attentive, Accepting
  <2> QED
    BY <2>10, <2>11, <2>12, <2>13, <2>14, <2>15, <2>16, <2>17, <2>18, <2>19,
       <2>20
<1> QED
  BY <1>2, <1>3

(* Dispatch releases the pointer of the OverlappedEx, except after a failed *)
(* disconnect, and hands the completion to its handler.                     *)
LEMMA DispatchIInv ==
  ASSUME IInv, NEW t \in Thread, Dispatch(t)
  PROVE  IInv'
<1> USE LifecycleAssumption DEF IInv, At, Goto, AcceptPC, PostPC, IdlePC
<1> DEFINE s == cur[t]
           k == done[t].io
<1>1. /\ s \in Slot /\ pc[t] = "dispatch" /\ k \in IoType /\ OvOf(k) \in ovPtr[s]
      /\ refs[s] >= 1
      /\ UNCHANGED <<state, table, io, listener, sending, up, pendingAccepts,
                     cur, done, post, frames, then, crashed>>
  BY Subject, LastHolder DEF Dispatch, HandlePC, Held, Fresh, CurOf, TypeOK, Done
<1>2. PICK next \in {"reset", "disconnect", "connect", "onSend", "registerRecv"} :
        /\ pc' = [pc EXCEPT ![t] = next]
        /\ next = "reset" <=> k = "disc"
        /\ next = "connect" => k = "accept"
        /\ next = "onSend" => k = "send"
        /\ next = "registerRecv" => k = "recv"
  BY DEF Dispatch
<1>3. \/ k = "disc" /\ UNCHANGED <<refs, ovPtr>>
      \/ /\ refs' = [refs EXCEPT ![s] = @ - 1]
         /\ ovPtr' = [ovPtr EXCEPT ![s] = @ \ {OvOf(k)}]
  BY DEF Dispatch
<1>4. \A u \in Thread : pc[u] = "push" => post[u] # s
  BY <1>1 DEF Life
<1>5. /\ \A x \in Slot : ovPtr'[x] \subseteq ovPtr[x]
      /\ \A x \in Slot \ {s} : ovPtr'[x] = ovPtr[x]
      /\ \A ov \in ovPtr[s] \ {OvOf(k)} : ov \in ovPtr'[s]
      /\ next \in {"connect", "registerRecv"} => "recv" \notin ovPtr'[s]
      /\ next = "onSend" => "send" \notin ovPtr'[s]
  BY <1>1, <1>2, <1>3 DEF TypeOK, OvOf
<1>6. \A i \in io[s] : OvOf(i) # OvOf(k)
  <2>1. k \in {"accept", "recv"} => "accept" \notin io[s] /\ "recv" \notin io[s]
    BY <1>1 DEF Recv, RecvUser, Fresh
  <2>2. k = "send" => "send" \notin io[s]
    BY <1>1 DEF Send, SendUser
  <2>3. k = "disc" => "disc" \notin io[s]
    BY <1>1 DEF Disc, DiscUser
  <2> QED
    BY <1>1, <2>1, <2>2, <2>3 DEF TypeOK, OvOf, IoType
<1>7. \A u \in Thread \ {t} : Fresh(u) /\ cur[u] = s => OvOf(done[u].io) # OvOf(k)
  <2> TAKE u \in Thread \ {t}
  <2> HAVE Fresh(u) /\ cur[u] = s
  <2>1. done[u].io \in IoType
    BY DEF TypeOK, Done
  <2>2. ~(k \in {"accept", "recv"} /\ done[u].io \in {"accept", "recv"})
    BY <1>1 DEF Recv, RecvUser, Fresh
  <2>3. ~(k = "send" /\ done[u].io = "send")
    BY <1>1 DEF Send, SendUser, Fresh, Control
  <2>4. ~(k = "disc" /\ done[u].io = "disc")
    BY <1>1 DEF Disc, DiscUser, Fresh, Control
  <2> QED
    BY <1>1, <2>1, <2>2, <2>3, <2>4 DEF OvOf, IoType
<1>8. TypeOK'
  <2>1. refs' \in [Slot -> Nat] /\ ovPtr' \in [Slot -> SUBSET Ov]
    BY <1>1, <1>3 DEF TypeOK
  <2>2. pc' \in [Thread -> PC]
    BY <1>2 DEF TypeOK, PC
  <2> QED
    BY <1>1, <2>1, <2>2 DEF TypeOK
<1>9. Control'
  BY <1>1, <1>2, <1>5 DEF TypeOK, Control, IoType, Done, NoDone
<1>10. RefSum'
  <2>1. \A x \in Slot : /\ TableOf(x)' = TableOf(x) /\ CurOf(x)' = CurOf(x)
                        /\ PostOf(x)' = PostOf(x)
    <3>1. \A u \in Thread : pc[u] = "push" <=> pc'[u] = "push"
      BY <1>1, <1>2 DEF TypeOK
    <3> QED
      BY <1>1, <3>1 DEF TableOf, CurOf, PostOf
  <2>2. CASE UNCHANGED <<refs, ovPtr>>
    BY <2>1, <2>2 DEF RefSum
  <2>3. CASE /\ refs' = [refs EXCEPT ![s] = @ - 1]
             /\ ovPtr' = [ovPtr EXCEPT ![s] = @ \ {OvOf(k)}]
    <3>1. ovPtr'[s] = ovPtr[s] \ {OvOf(k)} /\ refs'[s] = refs[s] - 1
      BY <1>1, <2>3 DEF TypeOK
    <3>2. Cardinality(ovPtr'[s]) = Cardinality(ovPtr[s]) - 1
      BY <1>1, <3>1, Countable, CardMinus
    <3>3. \A x \in Slot \ {s} : ovPtr'[x] = ovPtr[x] /\ refs'[x] = refs[x]
      BY <2>3 DEF TypeOK
    <3> SUFFICES ASSUME NEW x \in Slot
                 PROVE  refs'[x] = Cardinality(TableOf(x)) + Cardinality(ovPtr'[x])
                                     + Cardinality(CurOf(x)) + Cardinality(PostOf(x))
      BY <2>1 DEF RefSum
    <3>4. /\ Cardinality(TableOf(x)) \in Nat /\ Cardinality(ovPtr[x]) \in Nat
          /\ Cardinality(CurOf(x)) \in Nat /\ Cardinality(PostOf(x)) \in Nat
          /\ refs[x] = Cardinality(TableOf(x)) + Cardinality(ovPtr[x])
                         + Cardinality(CurOf(x)) + Cardinality(PostOf(x))
      BY Countable DEF RefSum
    <3>5. CASE x = s
      <4>1. /\ refs'[x] = refs[x] - 1
            /\ Cardinality(ovPtr'[x]) = Cardinality(ovPtr[x]) - 1
        BY <3>1, <3>2, <3>5
      <4> QED
        BY <3>4, <4>1
    <3>6. CASE x # s
      BY <3>3, <3>4, <3>6
    <3> QED
      BY <3>5, <3>6
  <2> QED
    BY <1>3, <2>2, <2>3
<1>11. Recv'
  <2>1. \A u \in Thread, x \in Slot : RecvUser(u, x)' => RecvUser(u, x)
    BY <1>1, <1>2 DEF TypeOK, Control, RecvUser, Fresh
  <2>2. next \in {"connect", "registerRecv"} => RecvUser(t, s)
    BY <1>1, <1>2 DEF Control, RecvUser, Fresh
  <2>3. \A x \in Slot : "accept" \in io'[x] =>
          /\ io'[x] = {"accept"} /\ state'[x] = "pending"
          /\ \A u \in Thread : cur'[u] # x
    BY <1>1 DEF Recv
  <2>4. \A x \in Slot, u \in Thread : RecvUser(u, x)' =>
          /\ "accept" \notin io'[x] /\ "recv" \notin io'[x]
          /\ \A v \in Thread : RecvUser(v, x)' => v = u
    BY <1>1, <2>1 DEF Recv
  <2>5. \A u \in Thread : pc'[u] \in {"connect", "welcome", "registerRecv"}
          => "recv" \notin ovPtr'[cur'[u]]
    <3> SUFFICES ASSUME NEW u \in Thread,
                        pc'[u] \in {"connect", "welcome", "registerRecv"}
                 PROVE  "recv" \notin ovPtr'[cur'[u]]
      OBVIOUS
    <3>1. CASE u = t
      BY <1>1, <1>2, <1>5, <3>1 DEF TypeOK
    <3>2. CASE u # t
      <4>1. /\ pc[u] \in {"connect", "welcome", "registerRecv"}
            /\ cur'[u] = cur[u] /\ cur[u] \in Slot
        BY <1>1, <1>2, <3>2, Subject DEF TypeOK, HandlePC
      <4> QED
        BY <1>5, <4>1 DEF Recv
    <3> QED
      BY <3>1, <3>2
  <2> QED
    BY <2>3, <2>4, <2>5 DEF Recv
<1>12. Send'
  BY <1>1, <1>2, <1>5 DEF TypeOK, Control, Send, SendUser
<1>13. Disc'
  <2>1. \A u \in Thread, x \in Slot :
          /\ DiscUser(u, x)' => DiscUser(u, x)
          /\ pc'[u] = "nulling" <=> pc[u] = "nulling"
          /\ pc'[u] = "registerDisc" <=> pc[u] = "registerDisc"
    BY <1>1, <1>2 DEF TypeOK, DiscUser
  <2>2. DiscUser(t, s) /\ pc'[t] = "reset" => ~up[s]
    BY <1>1 DEF Disc
  <2>3. \A u \in Thread : pc'[u] = "registerDisc" => "disc" \notin ovPtr'[cur'[u]]
    BY <1>1, <1>5, <2>1, Subject DEF Disc, HandlePC
  <2> QED
    BY <1>1, <1>5, <2>1, <2>2, <2>3 DEF Disc
<1>14. Held'
  <2>1. CompletionHasSession'
    BY <1>1, <1>5, <1>6 DEF Held, CompletionHasSession
  <2>2. \A u \in Thread : Fresh(u)' => OvOf(done'[u].io) \in ovPtr'[cur'[u]]
    BY <1>1, <1>2, <1>5, <1>7 DEF TypeOK, Control, Held, Fresh
  <2> QED
    BY <2>1, <2>2 DEF Held
<1>15. Life'
  BY <1>1, <1>2, <1>5, <1>3, <1>4 DEF TypeOK, Control, Life, IdleIsClean
<1>16. New'
  BY <1>1, <1>2, <1>5 DEF TypeOK, Control, New
<1>17. Accepts'
  BY <1>1, <1>2, <1>5, AcceptsSame DEF TypeOK, Control
<1>18. Attentive'
  BY <1>1, <1>2, <1>5 DEF TypeOK, Control, Attentive, Accepting
<1> QED
  BY <1>8, <1>9, <1>10, <1>11, <1>12, <1>13, <1>14, <1>15, <1>16, <1>17, <1>18

(* Reset releases the pointer of the table, which is never the last one. *)
LEMMA ResetSessionIInv ==
  ASSUME IInv, NEW t \in Thread, ResetSession(t)
  PROVE  IInv'
<1> USE LifecycleAssumption DEF IInv, At, Goto, AcceptPC, PostPC, IdlePC
<1>0. PICK s \in Slot : s = cur[t]
  BY Subject DEF ResetSession, HandlePC
<1>1. /\ s = cur[t] /\ pc[t] = "reset" /\ DiscUser(t, s) /\ post[t] = NoSlot
      /\ table[s] = "set" /\ state[s] = "disconnecting" /\ ~up[s]
  BY <1>0 DEF ResetSession, Disc, DiscUser, Control, TypeOK
<1>2. refs[s] >= 1 /\ refs[s] # 1 /\ t \in CurOf(s)
  BY <1>1, LastHolder DEF CurOf
<1>3. /\ refs' = [refs EXCEPT ![s] = @ - 1]
      /\ table' = [table EXCEPT ![s] = "released"]
      /\ pc' = [pc EXCEPT ![t] = "nulling"]
      /\ UNCHANGED <<state, ovPtr, io, listener, sending, up, pendingAccepts,
                     cur, done, post, frames, then, crashed>>
  BY <1>1, <1>2 DEF ResetSession, ReleaseRef, TypeOK
<1>4. refs'[s] = refs[s] - 1 /\ \A x \in Slot \ {s} : refs'[x] = refs[x]
  BY <1>3 DEF TypeOK
<1>5. \A u \in Thread : pc[u] = "push" => post[u] # s
  BY <1>2 DEF Life
<1>6. TypeOK'
  <2>1. refs' \in [Slot -> Nat]
    BY <1>2, <1>3 DEF TypeOK
  <2>2. /\ table' \in [Slot -> {"null", "set", "released"}]
        /\ pc' \in [Thread -> PC]
    BY <1>3 DEF TypeOK, PC
  <2> QED
    BY <1>3, <2>1, <2>2 DEF TypeOK
<1>7. Control'
  BY <1>1, <1>2, <1>3, <1>5 DEF TypeOK, Control, IoType, Done, NoDone
<1>8. RefSum'
  <2>1. \A x \in Slot : CurOf(x)' = CurOf(x) /\ PostOf(x)' = PostOf(x)
    BY <1>1, <1>3 DEF CurOf, PostOf, TypeOK
  <2>2. TableOf(s)' = {} /\ TableOf(s) = {"set"}
    BY <1>1, <1>3 DEF TableOf, TypeOK
  <2>3. \A x \in Slot \ {s} : TableOf(x)' = TableOf(x)
    BY <1>3 DEF TableOf, TypeOK
  <2>4. Cardinality(TableOf(s)') = Cardinality(TableOf(s)) - 1
    <3>1. Cardinality({}) = 0 /\ Cardinality({"set"}) = 1
      BY FS_EmptySet, FS_Singleton
    <3> QED
      BY <2>2, <3>1
  <2> SUFFICES ASSUME NEW x \in Slot
               PROVE  refs'[x] = Cardinality(TableOf(x)') + Cardinality(ovPtr[x])
                                   + Cardinality(CurOf(x)) + Cardinality(PostOf(x))
    BY <1>3, <2>1 DEF RefSum
  <2> QED
    BY <1>4, <2>3, <2>4, Countable DEF RefSum
<1>9. Recv'
  BY <1>1, <1>2, <1>3, <1>5 DEF TypeOK, Control, Recv, RecvUser, Fresh
<1>10. Send'
  BY <1>1, <1>2, <1>3, <1>5 DEF TypeOK, Control, Send, SendUser
<1>11. Disc'
  BY <1>1, <1>2, <1>3, <1>5 DEF TypeOK, Control, Disc, DiscUser, Life
<1>12. Held'
  BY <1>1, <1>2, <1>3, <1>5
     DEF TypeOK, Control, Held, CompletionHasSession, Fresh, OvOf
<1>13. Life'
  BY <1>1, <1>2, <1>3, <1>5 DEF TypeOK, Control, Life, IdleIsClean
<1>14. New'
  BY <1>1, <1>2, <1>3, <1>5 DEF TypeOK, Control, New
<1>15. Accepts'
  BY <1>1, <1>2, <1>3, <1>5, AcceptsSame DEF TypeOK, Control
<1>16. Attentive'
  BY <1>1, <1>2, <1>3, <1>5 DEF TypeOK, Control, Attentive, Accepting
<1> QED
  BY <1>6, <1>7, <1>8, <1>9, <1>10, <1>11, <1>12, <1>13, <1>14, <1>15, <1>16

(* The entry of the table is cleared by the one thread that released it. *)
LEMMA ClearPtrIInv ==
  ASSUME IInv, NEW t \in Thread, ClearPtr(t)
  PROVE  IInv'
<1> USE LifecycleAssumption DEF IInv, At, Goto, AcceptPC, PostPC, IdlePC
<1> DEFINE s == cur[t]
<1>1. /\ s \in Slot /\ pc[t] = "nulling" /\ DiscUser(t, s)
      /\ table[s] = "released" /\ state[s] = "disconnecting"
      /\ ~up[s] /\ "disc" \notin io[s]
  BY Subject DEF ClearPtr, HandlePC, Disc, DiscUser
<1>2. /\ table' = [table EXCEPT ![s] = "null"]
      /\ pc' = [pc EXCEPT ![t] = "drop"]
      /\ UNCHANGED <<state, refs, ovPtr, io, listener, sending, up, pendingAccepts,
                     cur, done, post, frames, then, crashed>>
  BY DEF ClearPtr
<1>3. TypeOK'
  BY <1>1, <1>2 DEF TypeOK, PC, State, Ov, IoType, Done, NoDone
<1>4. Control'
  BY <1>1, <1>2 DEF TypeOK, Control, IoType, Done, NoDone
<1>5. RefSum'
  BY <1>1, <1>2 DEF TypeOK, Control, RefSum, TableOf, CurOf, PostOf
<1>6. Recv'
  BY <1>1, <1>2 DEF TypeOK, Control, Recv, RecvUser, Fresh
<1>7. Send'
  BY <1>1, <1>2 DEF TypeOK, Control, Send, SendUser
<1>8. Disc'
  BY <1>1, <1>2 DEF TypeOK, Control, Disc, DiscUser, Life
<1>9. Held'
  BY <1>1, <1>2 DEF TypeOK, Control, Held, CompletionHasSession, Fresh, OvOf
<1>10. Life'
  <2>1. \A x \in Slot : table'[x] = "released" =>
          \E u \in Thread : cur'[u] = x /\ pc'[u] = "nulling"
    <3> SUFFICES ASSUME NEW x \in Slot, table'[x] = "released"
                 PROVE  \E u \in Thread : cur[u] = x /\ pc'[u] = "nulling"
      BY <1>2
    <3>1. x # s /\ table[x] = "released"
      BY <1>1, <1>2 DEF TypeOK
    <3>2. PICK u \in Thread : cur[u] = x /\ pc[u] = "nulling"
      BY <3>1 DEF Life
    <3> QED
      BY <1>2, <3>1, <3>2 DEF TypeOK
  <2> QED
    BY <1>1, <1>2, <2>1 DEF TypeOK, Control, Life, IdleIsClean
<1>11. New'
  BY <1>1, <1>2 DEF TypeOK, Control, New
<1>12. Accepts'
  BY <1>1, <1>2, AcceptsSame DEF TypeOK, Control
<1>13. Attentive'
  BY <1>1, <1>2 DEF TypeOK, Control, Attentive, Accepting
<1> QED
  BY <1>3, <1>4, <1>5, <1>6, <1>7, <1>8, <1>9, <1>10, <1>11, <1>12, <1>13

(* The destructor of WorkerThread's sessionPtr. *)
LEMMA DropIInv ==
  ASSUME IInv, NEW t \in Thread, Drop(t)
  PROVE  IInv'
<1> USE LifecycleAssumption DEF IInv, At, Goto, AcceptPC, PostPC, IdlePC
<1>0. PICK s \in Slot : s = cur[t]
  BY Subject DEF Drop, HandlePC
<1>1. /\ s = cur[t] /\ pc[t] = "drop" /\ frames[t] = 0 /\ post[t] = NoSlot
  BY <1>0 DEF Drop, Control, TypeOK
<1>2. /\ refs[s] >= 1
      /\ refs[s] = 1 => /\ table[s] # "set" /\ ovPtr[s] = {}
                        /\ CurOf(s) = {t} /\ PostOf(s) = {}
  BY <1>1, LastHolder DEF CurOf
<1>3. /\ refs' = [refs EXCEPT ![s] = @ - 1]
      /\ cur' = [cur EXCEPT ![t] = NoSlot]
      /\ done' = [done EXCEPT ![t] = NoDone]
      /\ UNCHANGED <<state, table, ovPtr, io, listener, sending, up,
                     pendingAccepts, crashed>>
  BY <1>1 DEF Drop, ReleaseRef
<1>4. \/ /\ refs[s] = 1 /\ pc' = [pc EXCEPT ![t] = "push"]
         /\ post' = [post EXCEPT ![t] = s]
         /\ frames' = [frames EXCEPT ![t] = 1]
         /\ then' = [then EXCEPT ![t] = "wait"]
      \/ /\ refs[s] # 1 /\ pc' = [pc EXCEPT ![t] = "wait"]
         /\ UNCHANGED <<post, frames, then>>
  <2>1. CASE refs[s] = 1
    BY <1>1, <2>1 DEF Drop, ReleaseRef, CallPostAccept, TypeOK
  <2>2. CASE refs[s] # 1
    BY <1>1, <2>2 DEF Drop, ReleaseRef, TypeOK
  <2> QED
    BY <2>1, <2>2
<1>5. /\ refs'[s] = refs[s] - 1 /\ \A x \in Slot \ {s} : refs'[x] = refs[x]
      /\ \A u \in Thread \ {t} : cur'[u] = cur[u] /\ post'[u] = post[u] /\ pc'[u] = pc[u]
      /\ cur'[t] = NoSlot
  BY <1>3, <1>4 DEF TypeOK
<1>6. \A u \in Thread : pc[u] = "push" => post[u] # s
  BY <1>2 DEF Life
<1>7. TypeOK'
  <2>1. refs' \in [Slot -> Nat]
    BY <1>2, <1>3 DEF TypeOK
  <2>2. /\ cur' \in [Thread -> Slot \cup {NoSlot}]
        /\ done' \in [Thread -> Done]
    BY <1>3 DEF TypeOK, Done, NoDone, IoType
  <2>3. /\ post' \in [Thread -> Slot \cup {NoSlot}]
        /\ frames' \in [Thread -> 0 .. MaxNest]
    BY <1>4 DEF TypeOK
  <2>4. pc' \in [Thread -> PC] /\ then' \in [Thread -> PC]
    BY <1>4 DEF TypeOK, PC
  <2> QED
    BY <1>3, <2>1, <2>2, <2>3, <2>4 DEF TypeOK
<1>8. Control'
  BY <1>1, <1>2, <1>3, <1>4 DEF TypeOK, Control, IoType, Done, NoDone
<1>9. RefSum'
  <2>1. \A x \in Slot : TableOf(x)' = TableOf(x)
    BY <1>3 DEF TableOf
  <2>2. \A x \in Slot : PostOf(x)' = PostOf(x)
    <3>1. t \notin PostOf(s)' /\ \A x \in Slot : t \notin PostOf(x)
      BY <1>1, <1>4 DEF PostOf, TypeOK
    <3>2. \A x \in Slot : t \notin PostOf(x)'
      BY <1>1, <1>4 DEF PostOf, TypeOK
    <3> QED
      BY <1>5, <3>1, <3>2 DEF PostOf
  <2>3. CurOf(s)' = CurOf(s) \ {t} /\ t \in CurOf(s)
    BY <1>1, <1>5 DEF CurOf
  <2>4. \A x \in Slot \ {s} : CurOf(x)' = CurOf(x)
    BY <1>1, <1>5 DEF CurOf
  <2>5. Cardinality(CurOf(s)') = Cardinality(CurOf(s)) - 1
    BY <2>3, Countable, CardMinus
  <2> SUFFICES ASSUME NEW x \in Slot
               PROVE  refs'[x] = Cardinality(TableOf(x)) + Cardinality(ovPtr[x])
                                   + Cardinality(CurOf(x)') + Cardinality(PostOf(x))
    BY <1>3, <2>1, <2>2 DEF RefSum
  <2> QED
    BY <1>5, <2>4, <2>5, Countable DEF RefSum
<1>10. Recv'
  BY <1>1, <1>2, <1>3, <1>4 DEF TypeOK, Control, Recv, RecvUser, Fresh
<1>11. Send'
  BY <1>1, <1>2, <1>3, <1>4 DEF TypeOK, Control, Send, SendUser
<1>12. Disc'
  BY <1>1, <1>2, <1>3, <1>4 DEF TypeOK, Control, Disc, DiscUser, Life
<1>13. Held'
  BY <1>1, <1>2, <1>3, <1>4
     DEF TypeOK, Control, Held, CompletionHasSession, Fresh, OvOf
<1>14. Life'
  <2>1. IdleIsClean'
    BY <1>1, <1>2, <1>3, <1>4 DEF TypeOK, Control, Life, IdleIsClean
  <2>2. refs[s] = 1 => state[s] = "disconnecting"
    BY <1>1, <1>2 DEF Life, IdleIsClean, TypeOK, State
  <2>3. \A u \in Thread : pc'[u] = "push" =>
          /\ refs'[post'[u]] = 0 /\ state[post'[u]] = "disconnecting"
          /\ \A v \in Thread : pc'[v] = "push" /\ post'[v] = post'[u] => v = u
    <3> SUFFICES ASSUME NEW u \in Thread, pc'[u] = "push"
                 PROVE  /\ refs'[post'[u]] = 0 /\ state[post'[u]] = "disconnecting"
                        /\ \A v \in Thread : pc'[v] = "push" /\ post'[v] = post'[u] => v = u
      OBVIOUS
    <3>1. CASE u = t
      <4>1. post'[t] = s /\ refs[s] = 1
        BY <1>1, <1>4, <3>1 DEF TypeOK
      <4> QED
        BY <1>5, <1>6, <2>2, <3>1, <4>1
    <3>2. CASE u # t
      <4>1. pc[u] = "push" /\ post'[u] = post[u] /\ post[u] # s /\ post[u] \in Slot
        BY <1>5, <1>6, <3>2, Subject
      <4>2. pc'[t] = "push" => post'[t] = s
        BY <1>4 DEF TypeOK
      <4> QED
        BY <1>5, <3>2, <4>1, <4>2 DEF Life
    <3> QED
      BY <3>1, <3>2
  <2>4. \A x \in Slot : table[x] = "released" =>
          \E u \in Thread : cur'[u] = x /\ pc'[u] = "nulling"
    <3> SUFFICES ASSUME NEW x \in Slot, table[x] = "released"
                 PROVE  \E u \in Thread : cur'[u] = x /\ pc'[u] = "nulling"
      OBVIOUS
    <3>1. PICK u \in Thread : cur[u] = x /\ pc[u] = "nulling"
      BY DEF Life
    <3> QED
      BY <1>1, <1>5, <3>1
  <2> QED
    BY <1>3, <2>1, <2>3, <2>4 DEF Life
<1>15. New'
  BY <1>1, <1>2, <1>3, <1>4 DEF TypeOK, Control, New
<1>16. Accepts'
  BY <1>1, <1>2, <1>3, <1>4, AcceptsSame DEF TypeOK, Control
<1>17. Attentive'
  BY <1>1, <1>2, <1>3, <1>4 DEF TypeOK, Control, Attentive, Accepting
<1> QED
  BY <1>7, <1>8, <1>9, <1>10, <1>11, <1>12, <1>13, <1>14, <1>15, <1>16, <1>17

(* A step that changes nothing, or only crashes. *)
LEMMA Unchanged ==
  ASSUME IInv, UNCHANGED <<session, pendingAccepts, thread>>,
         crashed' \in BOOLEAN, crashed => crashed'
  PROVE  IInv'
<1> USE DEF IInv, session, thread
<1>1. TypeOK' /\ Control' /\ New'
  BY DEF TypeOK, Control, New
<1>2. RefSum'
  BY DEF RefSum, TableOf, CurOf, PostOf
<1>3. Recv' /\ Send' /\ Disc'
  BY DEF Recv, RecvUser, Fresh, Send, SendUser, Disc, DiscUser
<1>4. Held' /\ Life'
  BY DEF Held, CompletionHasSession, Fresh, Life, IdleIsClean
<1>5. Accepts' /\ Attentive'
  BY AcceptsSame DEF Attentive, Accepting
<1> QED
  BY <1>1, <1>2, <1>3, <1>4, <1>5

(* The server starts with every session idle and clean. *)
LEMMA InitIInv == Init => IInv
<1> SUFFICES ASSUME Init PROVE IInv
  OBVIOUS
<1> USE LifecycleAssumption DEF Init, AcceptPC, PostPC, IdlePC, Thread
<1>1. TypeOK
  <2>1. pc \in [Thread -> PC] /\ then \in [Thread -> PC]
    BY DEF PC
  <2>2. done \in [Thread -> Done]
    BY DEF Done, NoDone, IoType
  <2>3. frames \in [Thread -> 0 .. MaxNest]
    OBVIOUS
  <2>4. /\ state \in [Slot -> State] /\ refs \in [Slot -> Nat]
        /\ table \in [Slot -> {"null", "set", "released"}]
    BY DEF State
  <2> QED
    BY <2>1, <2>2, <2>3, <2>4 DEF TypeOK
<1>2. Control
  BY DEF Control
<1>3. RefSum
  <2>1. \A s \in Slot : /\ TableOf(s) = {} /\ ovPtr[s] = {}
                       /\ CurOf(s) = {} /\ PostOf(s) = {}
    BY DEF TableOf, CurOf, PostOf
  <2>2. \A s \in Slot : /\ Cardinality(TableOf(s)) = 0 /\ Cardinality(ovPtr[s]) = 0
                       /\ Cardinality(CurOf(s)) = 0 /\ Cardinality(PostOf(s)) = 0
    BY <2>1, FS_EmptySet, Zenon
  <2>3. \A s \in Slot : refs[s] = 0
    OBVIOUS
  <2> HIDE DEF Init
  <2> QED
    BY <2>2, <2>3 DEF RefSum
<1>4. Recv /\ Send /\ Disc /\ New
  BY DEF Recv, RecvUser, Fresh, Send, SendUser, Disc, DiscUser, New
<1>5. Held /\ Life
  BY DEF Held, CompletionHasSession, Fresh, Life, IdleIsClean
<1>6. Accepts
  <2>1. Accepting = {} /\ Reserving = {}
    BY DEF Accepting, Reserving
  <2> QED
    BY <2>1, FS_EmptySet DEF Accepts, PendingAcceptsExact
<1>7. Attentive
  BY DEF Attentive
<1> QED
  BY <1>1, <1>2, <1>3, <1>4, <1>5, <1>6, <1>7 DEF IInv

(* Every step preserves the inductive invariant. *)
LEMMA NextIInv == IInv /\ [Next]_vars => IInv'
<1> SUFFICES ASSUME IInv, [Next]_vars PROVE IInv'
  OBVIOUS
<1>1. CASE \E t \in Thread : PostAccept(t)
  BY <1>1, AcceptLoopIInv, CreateSessionIInv, CreateSessionFailsIInv, UndoAcceptIInv,
     RegisterAcceptIInv, SetListenerIInv, DropPostIInv, PushIInv
     DEF PostAccept
<1>2. CASE \E t \in Worker : Handle(t)
  BY <1>2, DispatchIInv, ConnectIInv, SendWelcomeIInv, RegisterRecvIInv, OnSendIInv,
     DisconnectIInv, RegisterDisconnectIInv, ResetSessionIInv, ClearPtrIInv, DropIInv,
     Unchanged
     DEF Handle, Thread, TornGetSession
<1>3. CASE \E t \in Worker, s \in Slot, k \in IoType, failed \in BOOLEAN :
             Dequeue(t, s, k, failed)
  BY <1>3, DequeueIInv DEF Thread
<1>4. CASE UNCHANGED vars
  BY <1>4, Unchanged DEF vars, IInv, TypeOK
<1> QED
  BY <1>1, <1>2, <1>3, <1>4 DEF Next

(* The inductive invariant holds always. *)
LEMMA Invariance == Spec => []IInv
BY InitIInv, NextIInv, PTL DEF Spec

-----------------------------------------------------------------------------
(* A set keeps its size when its elements are tagged. *)
LEMMA Tagged ==
  ASSUME NEW S, IsFiniteSet(S), NEW tag
  PROVE  LET T == {<<tag, x>> : x \in S}
         IN  IsFiniteSet(T) /\ Cardinality(T) = Cardinality(S)
<1> DEFINE T == {<<tag, x>> : x \in S}
           f == [x \in S |-> <<tag, x>>]
<1>1. f \in Injection(S, T)
  BY DEF Injection, IsInjective
<1>2. f \in Surjection(S, T)
  BY DEF Surjection
<1>3. ExistsBijection(S, T)
  BY <1>1, <1>2 DEF Bijection, ExistsBijection
<1> QED
  BY <1>3, FS_Bijection

(* Disjoint sets add up. *)
LEMMA CardDisjoint ==
  ASSUME NEW S, NEW T, IsFiniteSet(S), IsFiniteSet(T), S \cap T = {}
  PROVE  /\ IsFiniteSet(S \cup T)
         /\ Cardinality(S \cup T) = Cardinality(S) + Cardinality(T)
<1>1. Cardinality(S \cup T) = Cardinality(S) + Cardinality(T) - Cardinality({})
  BY FS_Union
<1>2. Cardinality({}) = 0 /\ Cardinality(S) \in Nat /\ Cardinality(T) \in Nat
  BY FS_EmptySet, FS_CardinalityType
<1> QED
  BY <1>1, <1>2, FS_Union

(* The holders of a session, counted kind by kind. *)
LEMMA HoldersCounted ==
  ASSUME TypeOK, NEW s \in Slot
  PROVE  Cardinality(Holders(s)) = Cardinality(TableOf(s)) + Cardinality(ovPtr[s])
                                     + Cardinality(CurOf(s)) + Cardinality(PostOf(s))
<1> DEFINE A == {<<"table", x>> : x \in TableOf(s)}
           B == {<<"ov", x>> : x \in ovPtr[s]}
           C == {<<"cur", x>> : x \in CurOf(s)}
           D == {<<"post", x>> : x \in PostOf(s)}
<1>1. Holders(s) = ((A \cup B) \cup C) \cup D
  BY DEF Holders, TableOf, CurOf, PostOf
<1>2. /\ IsFiniteSet(A) /\ Cardinality(A) = Cardinality(TableOf(s))
      /\ IsFiniteSet(B) /\ Cardinality(B) = Cardinality(ovPtr[s])
      /\ IsFiniteSet(C) /\ Cardinality(C) = Cardinality(CurOf(s))
      /\ IsFiniteSet(D) /\ Cardinality(D) = Cardinality(PostOf(s))
  BY Countable, Tagged
<1>3. A \cap B = {} /\ (A \cup B) \cap C = {} /\ ((A \cup B) \cup C) \cap D = {}
  OBVIOUS
<1> HIDE DEF A, B, C, D
<1>4. IsFiniteSet(A \cup B) /\ Cardinality(A \cup B) = Cardinality(A) + Cardinality(B)
  BY <1>2, <1>3, CardDisjoint
<1>5. /\ IsFiniteSet((A \cup B) \cup C)
      /\ Cardinality((A \cup B) \cup C) = Cardinality(A \cup B) + Cardinality(C)
  BY <1>2, <1>3, <1>4, CardDisjoint
<1>6. Cardinality(((A \cup B) \cup C) \cup D)
        = Cardinality((A \cup B) \cup C) + Cardinality(D)
  BY <1>2, <1>3, <1>5, CardDisjoint
<1> QED
  BY <1>1, <1>2, <1>4, <1>5, <1>6

(* Every thread and every session stays in the states the code gives it: no  *)
(* count goes below zero and no thread is left without the session it is on. *)
THEOREM TypeCorrect == Spec => []TypeOK
<1>1. IInv => TypeOK
  BY DEF IInv
<1> QED
  BY <1>1, Invariance, PTL

(* refCount_ is the number of pointers that exist, for any number of workers *)
(* and sessions and whatever fails: SharedPoolPtr loses and doubles none.    *)
THEOREM RefCountsExact == Spec => []RefCountExact
<1>1. IInv => RefCountExact
  BY HoldersCounted DEF IInv, RefSum, RefCountExact
<1> QED
  BY <1>1, Invariance, PTL

(* A session is back in the pool only when nothing of its connection is left. *)
THEOREM IdleSessionsClean == Spec => []IdleIsClean
<1>1. IInv => IdleIsClean
  BY DEF IInv, Life
<1> QED
  BY <1>1, Invariance, PTL

(* The last release returns a session once, and it had been disconnected. *)
THEOREM PushedOnce == Spec => []ReturnedOnce
<1>1. IInv => ReturnedOnce
  BY DEF IInv, Life, ReturnedOnce
<1> QED
  BY <1>1, Invariance, PTL

(* No OVERLAPPED is zeroed or posted while the kernel or another thread has *)
(* it: the protocol of the handlers takes the place of a lock.              *)
THEOREM OverlappedNeverShared == Spec => []OverlappedExclusive
<1>1. ASSUME IInv PROVE OverlappedExclusive
  <2> SUFFICES ASSUME NEW t \in Thread, NEW p \in AboutToPost(t)
               PROVE  /\ p[2] \notin {OvOf(k) : k \in io[p[1]]}
                      /\ p[2] \notin ovPtr[p[1]]
                      /\ \A u \in Thread \ {t} : p \notin AboutToPost(u)
    BY DEF OverlappedExclusive
  <2> USE <1>1 DEF IInv
  <2>1. /\ pc[t] \in PostPC \cup HandlePC
        /\ pc[t] \in PostPC => post[t] \in Slot
        /\ pc[t] \in HandlePC => cur[t] \in Slot
    BY Subject DEF AboutToPost, PostPC, HandlePC
  <2>2. p[1] \in Slot /\ p[2] \notin ovPtr[p[1]]
    BY <2>1 DEF AboutToPost, PostPC, HandlePC, New, Recv, Send, Disc
  <2>3. p[2] \notin {OvOf(k) : k \in io[p[1]]}
    BY <2>2 DEF Held, CompletionHasSession
  <2>4. ASSUME NEW u \in Thread \ {t}, p \in AboutToPost(u) PROVE FALSE
    <3>1. /\ pc[t] = "registerAccept" =>
               \A v \in Thread : cur[v] # post[t] /\ (post[v] = post[t] => v = t)
          /\ pc[u] = "registerAccept" =>
               \A v \in Thread : cur[v] # post[u] /\ (post[v] = post[u] => v = u)
      BY DEF New
    <3>2. \A v \in {t, u} : /\ pc[v] \in {"welcome", "registerRecv"} => RecvUser(v, cur[v])
                            /\ pc[v] = "onSend" => SendUser(v, cur[v])
                            /\ pc[v] = "registerDisc" => DiscUser(v, cur[v])
      BY DEF Control, RecvUser, SendUser, DiscUser
    <3> QED
      BY <2>1, <2>2, <2>4, <3>1, <3>2 DEF AboutToPost, Recv, Send, Disc, PostPC, HandlePC
  <2> QED
    BY <2>2, <2>3, <2>4
<1> QED
  BY <1>1, Invariance, PTL

(* The sessionPtr_ of a completion is never null when WorkerThread copies it. *)
THEOREM CompletionsHold == Spec => []CompletionHasSession
<1>1. IInv => CompletionHasSession
  BY DEF IInv, Held
<1> QED
  BY <1>1, Invariance, PTL

(* Reset never releases the last reference, so the pool cannot hand the *)
(* session out again between the release and the clearing of its entry. *)
THEOREM ResetNeverLast == Spec => []ResetIsNotLast
<1>1. ASSUME IInv PROVE ResetIsNotLast
  <2> SUFFICES ASSUME NEW t \in Worker
               PROVE  /\ pc[t] = "reset" => refs[cur[t]] > 1
                      /\ pc[t] = "nulling" => table[cur[t]] = "released"
    BY DEF ResetIsNotLast
  <2> USE <1>1 DEF IInv
  <2>1. CASE pc[t] = "reset"
    <3>1. t \in Thread /\ cur[t] \in Slot /\ t \in CurOf(cur[t]) /\ table[cur[t]] = "set"
      BY <2>1, Subject DEF Thread, HandlePC, CurOf, Disc, DiscUser
    <3>2. refs[cur[t]] >= 1 /\ refs[cur[t]] # 1
      BY <3>1, LastHolder
    <3> QED
      BY <2>1, <3>1, <3>2 DEF TypeOK
  <2>2. CASE pc[t] = "nulling"
    BY <2>2, Subject DEF Thread, HandlePC, Disc, DiscUser
  <2> QED
    BY <2>1, <2>2
<1> QED
  BY <1>1, Invariance, PTL

(* isSending_ is set as long as its operation is out: the asserts hold. *)
THEOREM SendingFlagHolds == Spec => []SendingFlag
<1>1. IInv => SendingFlag
  BY DEF IInv, SendingFlag, Send, SendUser, Control, Thread
<1> QED
  BY <1>1, Invariance, PTL

(* pendingAccepts_ is exact and never above kMaxAccept, as long as AcceptEx *)
(* does not fail at once (which RegisterAccept does not notice).            *)
THEOREM PendingAcceptsAreExact ==
  ASSUME "acceptSync" \notin Faults
  PROVE  Spec => []PendingAcceptsExact
<1>1. IInv => PendingAcceptsExact
  BY DEF IInv, Accepts
<1> QED
  BY <1>1, Invariance, PTL

(* With kMaxAccept at least the number of threads the server goes on accepting *)
(* whenever a session is idle and no thread is inside PostAccept.              *)
THEOREM NeverDeaf ==
  ASSUME "acceptSync" \notin Faults
  PROVE  Spec => []NotDeaf
<1>1. IInv => NotDeaf
  BY DEF IInv, NotDeaf, Attentive, Control, TypeOK
<1> QED
  BY <1>1, Invariance, PTL

-----------------------------------------------------------------------------
(* The second invariant: whose a session is on its way round.                 *)
(* An accept that has no listener_ yet has the thread that is about to set it. *)
Listening ==
  \A s \in Slot : "accept" \in io[s] /\ ~listener[s] =>
    \E t \in Thread : pc[t] = "setListener" /\ post[t] = s

(* Until a session is connected its accept, or the one thread that handles it, *)
(* has it to itself.                                                           *)
Alone(s) ==
  state[s] = "pending" =>
    /\ io[s] \subseteq {"accept"}
    /\ \A t \in Thread : cur[t] = s =>
         /\ \/ Fresh(t) /\ done[t].io = "accept" /\ (done[t].failed \/ up[s])
            \/ pc[t] = "connect" /\ up[s]
            \/ pc[t] = "disconnect"
         /\ \A u \in Thread : cur[u] = s => u = t

(* The last release of a session goes on to push it. *)
Released ==
  \A s \in Slot : refs[s] = 0 /\ state[s] # "idle" =>
    \E t \in Thread : pc[t] = "push" /\ post[t] = s

(* A completion reports only a failure the environment may produce. *)
Failures == \A t \in Thread : done[t].failed => MayFail(done[t].io)

(* A socket is up from its accept to its disconnect, if no accept fails. *)
SocketUp(s) ==
  "acceptError" \notin Faults =>
    /\ state[s] = "connected" => up[s]
    /\ \A t \in Thread :
         cur[t] = s /\ (state[s] = "pending" \/ pc[t] = "registerDisc") => up[s]

(* What brings a session on: its accept, then its receive, then its disconnect, *)
(* each in the kernel or with a thread.                                         *)
AcceptFollowed(s) ==
  "accept" \in io[s]
    \/ \E t \in Thread : cur[t] = s \/ (pc[t] = "registerAccept" /\ post[t] = s)

RecvFollowed(s) ==
  "recv" \in io[s]
    \/ \E t \in Thread :
         /\ cur[t] = s
         /\ \/ pc[t] \in {"welcome", "registerRecv", "disconnect"}
            \/ pc[t] = "dispatch" /\ done[t].io = "recv"

DiscFollowed(s) == "disc" \in io[s] \/ \E t \in Thread : DiscUser(t, s)

(* And what will release the reference of an OverlappedEx. *)
OvFollowed(s, o) ==
  \/ \E k \in io[s] : OvOf(k) = o
  \/ \E t \in Thread : cur[t] = s /\ Fresh(t) /\ OvOf(done[t].io) = o

Followed(s) ==
  Faults \cap Unnoticed = {} /\ ~crashed =>
    /\ state[s] = "pending" => AcceptFollowed(s)
    /\ state[s] = "connected" => RecvFollowed(s)
    /\ state[s] = "disconnecting" /\ table[s] = "set" => DiscFollowed(s)
    /\ \A o \in ovPtr[s] : OvFollowed(s, o)

Round ==
  /\ Listening /\ Released /\ Failures
  /\ \A s \in Slot : Alone(s) /\ SocketUp(s) /\ Followed(s)

-----------------------------------------------------------------------------
(* A session that somebody works on is counted. *)
Counted ==
  /\ TypeOK
  /\ \A s \in Slot : refs[s] = 0 =>
       /\ ovPtr[s] = {} /\ table[s] # "set"
       /\ \A t \in Thread : cur[t] # s /\ (post[t] = s => pc[t] = "push")

LEMMA CountedNow == IInv => Counted
BY LastHolder DEF IInv, Counted, CurOf, PostOf

LEMMA CountedNext == IInv' => Counted'
BY CountedNow, PTL

(* A step inside PostAccept, or out of it, that leaves the sessions alone but *)
(* for a release.                                                             *)
LEMMA RoundSame ==
  ASSUME IInv, IInv', Round, NEW t \in Thread,
         pc[t] \in {"accept", "create", "undo", "dropPost"},
         pc'[t] # "registerDisc",
         cur' = cur, done' = done, Fresh(t) => Fresh(t)',
         \A u \in Thread \ {t} : pc'[u] = pc[u] /\ post'[u] = post[u] /\ then'[u] = then[u],
         UNCHANGED <<state, table, ovPtr, io, listener, up, crashed>>,
         \A s \in Slot : refs'[s] = 0 => refs[s] = 0 \/ (pc'[t] = "push" /\ post'[t] = s)
  PROVE  Round'
<1> USE DEF IInv, Round
<1>0. \A u \in Thread : Fresh(u) => Fresh(u)'
  BY DEF Fresh
<1>1. Listening'
  BY DEF Listening
<1>2. \A x \in Slot : Alone(x)'
  BY <1>0 DEF Alone
<1>3. Released'
  BY DEF Released
<1>4. \A x \in Slot : SocketUp(x)'
  BY DEF SocketUp
<1>5. \A x \in Slot : Followed(x)'
  BY <1>0
     DEF Followed, AcceptFollowed, RecvFollowed, DiscFollowed, OvFollowed, DiscUser
<1>6. Failures'
  BY DEF Failures
<1> QED
  BY <1>1, <1>2, <1>3, <1>4, <1>5, <1>6

LEMMA AcceptLoopRound ==
  ASSUME IInv, IInv', Round, NEW t \in Thread,
         AcceptLoop(t) \/ CreateSessionFails(t) \/ UndoAccept(t)
  PROVE  Round'
<1> USE DEF IInv, At, Goto, TypeOK
<1>1. /\ pc[t] \in {"accept", "create", "undo"}
      /\ \/ pc' = [pc EXCEPT ![t] = "create"] \/ pc' = [pc EXCEPT ![t] = "undo"]
         \/ pc' = [pc EXCEPT ![t] = "accept"] \/ pc' = [pc EXCEPT ![t] = then[t]]
      /\ UNCHANGED <<session, cur, done, post, then, crashed>>
  BY DEF AcceptLoop, CreateSessionFails, UndoAccept, ReturnPostAccept
<1>2. /\ pc'[t] # "registerDisc"
      /\ Fresh(t) => Fresh(t)'
      /\ \A u \in Thread \ {t} : pc'[u] = pc[u]
  BY <1>1 DEF Control, IdlePC, Fresh, AcceptPC, PostPC
<1> QED
  BY <1>1, <1>2, RoundSame DEF session

LEMMA DropPostRound ==
  ASSUME IInv, IInv', Round, NEW t \in Thread, DropPost(t)
  PROVE  Round'
<1> USE DEF IInv, At, Goto, TypeOK
<1>1. /\ pc[t] = "dropPost" /\ post[t] \in Slot
      /\ refs' = [refs EXCEPT ![post[t]] = @ - 1]
      /\ \/ /\ pc' = [pc EXCEPT ![t] = "push"]
            /\ post' = post
            /\ then' = [then EXCEPT ![t] = IF frames[t] = 0 THEN "accept" ELSE @]
         \/ /\ pc' = [pc EXCEPT ![t] = "accept"]
            /\ refs[post[t]] # 1
            /\ post' = [post EXCEPT ![t] = NoSlot]
            /\ then' = then
      /\ UNCHANGED <<state, table, ovPtr, io, listener, up, cur, done, crashed>>
  BY Subject DEF DropPost, ReleaseRef, CallPostAccept, PostPC
<1>2. frames[t] # 0
  BY <1>1 DEF Control, AcceptPC, PostPC
<1>3. refs[post[t]] >= 1
  BY <1>1, LastHolder DEF PostOf
<1>4. \A s \in Slot : refs'[s] = 0 => refs[s] = 0 \/ (pc'[t] = "push" /\ post'[t] = s)
  BY <1>1, <1>3
<1>5. Fresh(t) => Fresh(t)'
  BY <1>1, <1>2 DEF Fresh, AcceptPC, PostPC
<1> QED
  BY <1>1, <1>4, <1>5, RoundSame

(* A session that was idle is nobody's. *)
LEMMA CreateSessionRound ==
  ASSUME IInv, IInv', Round, NEW t \in Thread, NEW s \in Slot, CreateSession(t, s)
  PROVE  Round'
<1> USE DEF IInv, Round
<1>1. /\ pc[t] = "create" /\ state[s] = "idle"
      /\ state' = [state EXCEPT ![s] = "pending"]
      /\ refs' = [refs EXCEPT ![s] = 2]
      /\ table' = [table EXCEPT ![s] = "set"]
      /\ ovPtr' = [ovPtr EXCEPT ![s] = {}]
      /\ listener' = [listener EXCEPT ![s] = FALSE]
      /\ post' = [post EXCEPT ![t] = s]
      /\ pc' = [pc EXCEPT ![t] = "registerAccept"]
      /\ UNCHANGED <<io, up, cur, done, then, crashed>>
  BY DEF CreateSession, At, Goto
<1>2. io[s] = {} /\ \A u \in Thread : cur[u] # s /\ post[u] # s
  BY <1>1 DEF Life, IdleIsClean
<1>3. /\ state'[s] = "pending" /\ refs'[s] = 2 /\ ovPtr'[s] = {}
      /\ pc'[t] = "registerAccept" /\ post'[t] = s
      /\ \A x \in Slot \ {s} : /\ state'[x] = state[x] /\ refs'[x] = refs[x]
                               /\ table'[x] = table[x] /\ ovPtr'[x] = ovPtr[x]
                               /\ listener'[x] = listener[x]
      /\ \A u \in Thread \ {t} : pc'[u] = pc[u] /\ post'[u] = post[u]
  BY <1>1 DEF TypeOK
<1>4. \A u \in Thread : Fresh(u) => Fresh(u)'
  BY <1>1, <1>3 DEF Fresh, AcceptPC, PostPC
<1>5. Listening'
  BY <1>1, <1>2, <1>3 DEF Listening
<1>6. \A x \in Slot : Alone(x)'
  BY <1>1, <1>2, <1>3, <1>4 DEF Alone
<1>7. Released'
  BY <1>1, <1>3 DEF Released
<1>8. \A x \in Slot : SocketUp(x)'
  BY <1>1, <1>2, <1>3 DEF SocketUp
<1>9. \A x \in Slot : Followed(x)'
  BY <1>1, <1>3, <1>4
     DEF Followed, AcceptFollowed, RecvFollowed, DiscFollowed, OvFollowed, DiscUser
<1>10. Failures'
  BY <1>1 DEF Failures
<1> QED
  BY <1>5, <1>6, <1>7, <1>8, <1>9, <1>10

LEMMA RegisterAcceptRound ==
  ASSUME IInv, IInv', Round, NEW t \in Thread, RegisterAccept(t)
  PROVE  Round'
<1> USE DEF IInv, Round
<1> DEFINE s == post[t]
<1>1. /\ pc[t] = "registerAccept" /\ s \in Slot
      /\ state[s] = "pending" /\ io[s] = {} /\ ovPtr[s] = {} /\ table[s] = "set"
      /\ \A u \in Thread : cur[u] # s /\ (post[u] = s => u = t)
  BY Subject DEF RegisterAccept, At, PostPC, New, Life
<1>2. /\ refs' = [refs EXCEPT ![s] = @ + 1]
      /\ ovPtr' = [ovPtr EXCEPT ![s] = @ \cup {"recv"}]
      /\ io' = [io EXCEPT ![s] = @ \cup {"accept"}] \/ ("acceptSync" \in Faults /\ io' = io)
      /\ pc' = [pc EXCEPT ![t] = "setListener"]
      /\ UNCHANGED <<state, table, listener, up, cur, done, post, then, crashed>>
  BY <1>1 DEF RegisterAccept, GetSessionInto, PostIo, Goto
<1>3. /\ refs'[s] # 0 /\ ovPtr'[s] = {"recv"}
      /\ io'[s] = {"accept"} \/ ("acceptSync" \in Faults /\ io'[s] = {})
      /\ pc'[t] = "setListener"
      /\ \A x \in Slot \ {s} : refs'[x] = refs[x] /\ ovPtr'[x] = ovPtr[x] /\ io'[x] = io[x]
      /\ \A u \in Thread \ {t} : pc'[u] = pc[u]
  BY <1>1, <1>2 DEF TypeOK
<1>4. \A u \in Thread : Fresh(u) => Fresh(u)'
  BY <1>1, <1>2, <1>3 DEF Fresh, AcceptPC, PostPC
<1>5. Listening'
  BY <1>1, <1>2, <1>3 DEF Listening
<1>6. \A x \in Slot : Alone(x)'
  BY <1>1, <1>2, <1>3, <1>4 DEF Alone
<1>7. Released'
  BY <1>1, <1>2, <1>3 DEF Released
<1>8. \A x \in Slot : SocketUp(x)'
  BY <1>1, <1>2, <1>3 DEF SocketUp
<1>9. \A x \in Slot : Followed(x)'
  <2>1. ASSUME Faults \cap Unnoticed = {} PROVE io'[s] = {"accept"}
    BY <1>3, <2>1 DEF Unnoticed
  <2>2. OvOf("accept") = "recv"
    BY DEF OvOf
  <2> QED
    BY <1>1, <1>2, <1>3, <1>4, <2>1, <2>2
      
     DEF Followed, AcceptFollowed, RecvFollowed, DiscFollowed, OvFollowed, DiscUser
<1>10. Failures'
  BY <1>2 DEF Failures
<1> QED
  BY <1>5, <1>6, <1>7, <1>8, <1>9, <1>10

LEMMA SetListenerRound ==
  ASSUME IInv, IInv', Round, NEW t \in Thread, SetListener(t)
  PROVE  Round'
<1> USE DEF IInv, Round
<1>1. /\ pc[t] = "setListener" /\ post[t] \in Slot
      /\ listener' = [listener EXCEPT ![post[t]] = TRUE]
      /\ pc' = [pc EXCEPT ![t] = "dropPost"]
      /\ UNCHANGED <<state, refs, table, ovPtr, io, up, cur, done, post, then, crashed>>
  BY Subject DEF SetListener, At, Goto, PostPC
<1>2. /\ pc'[t] = "dropPost" /\ listener'[post[t]]
      /\ \A x \in Slot \ {post[t]} : listener'[x] = listener[x]
      /\ \A u \in Thread \ {t} : pc'[u] = pc[u]
  BY <1>1 DEF TypeOK
<1>4. \A u \in Thread : Fresh(u) => Fresh(u)'
  BY <1>1, <1>2 DEF Fresh, AcceptPC, PostPC
<1>5. Listening'
  BY <1>1, <1>2 DEF Listening
<1>6. \A x \in Slot : Alone(x)'
  BY <1>1, <1>2, <1>4 DEF Alone
<1>7. Released'
  BY <1>1, <1>2 DEF Released
<1>8. \A x \in Slot : SocketUp(x)'
  BY <1>1, <1>2 DEF SocketUp
<1>9. \A x \in Slot : Followed(x)'
  BY <1>1, <1>2, <1>4
     DEF Followed, AcceptFollowed, RecvFollowed, DiscFollowed, OvFollowed, DiscUser
<1>10. Failures'
  BY <1>1 DEF Failures
<1> QED
  BY <1>5, <1>6, <1>7, <1>8, <1>9, <1>10

LEMMA PushRound ==
  ASSUME IInv, IInv', Round, NEW t \in Thread, Push(t)
  PROVE  Round'
<1> USE DEF IInv, Round
<1> DEFINE s == post[t]
<1>1. /\ pc[t] = "push" /\ s \in Slot
      /\ state' = [state EXCEPT ![s] = "idle"]
      /\ post' = [post EXCEPT ![t] = NoSlot]
      /\ pc' = [pc EXCEPT ![t] = "accept"]
      /\ UNCHANGED <<refs, table, ovPtr, io, listener, up, cur, done, then, crashed>>
  BY Subject DEF Push, At, Goto, PostPC
<1>2. /\ pc'[t] = "accept" /\ state'[s] = "idle" /\ s # NoSlot
      /\ \A x \in Slot \ {s} : state'[x] = state[x]
      /\ \A u \in Thread \ {t} : pc'[u] = pc[u] /\ post'[u] = post[u]
  BY <1>1, LifecycleAssumption DEF TypeOK
<1>3. ovPtr[s] = {}
  BY <1>1, CountedNow DEF Counted, Life
<1>4. \A u \in Thread : Fresh(u) => Fresh(u)'
  BY <1>1, <1>2 DEF Fresh, AcceptPC, PostPC
<1>5. Listening'
  BY <1>1, <1>2 DEF Listening
<1>6. \A x \in Slot : Alone(x)'
  BY <1>1, <1>2, <1>4 DEF Alone
<1>7. Released'
  BY <1>1, <1>2 DEF Released
<1>8. \A x \in Slot : SocketUp(x)'
  BY <1>1, <1>2 DEF SocketUp
<1>9. \A x \in Slot : Followed(x)'
  BY <1>1, <1>2, <1>3, <1>4
     DEF Followed, AcceptFollowed, RecvFollowed, DiscFollowed, OvFollowed, DiscUser
<1>10. Failures'
  BY <1>1 DEF Failures
<1> QED
  BY <1>5, <1>6, <1>7, <1>8, <1>9, <1>10

-----------------------------------------------------------------------------
(* A handler's step: only its own place changes, and its session stays with it. *)
Working(t) ==
  /\ \A u \in Thread \ {t} : pc'[u] = pc[u]
  /\ pc'[t] \in PC \ {"push", "setListener"}
  /\ pc[t] \notin {"push", "setListener", "registerAccept"}
  /\ UNCHANGED <<listener, up, cur, done, post, then, crashed>>
  /\ \A s \in Slot \ {cur[t]} :
       /\ state'[s] = state[s] /\ table'[s] = table[s] /\ refs'[s] = refs[s]
       /\ io'[s] = io[s] /\ ovPtr'[s] = ovPtr[s]
  /\ \A s \in Slot : /\ "accept" \in io'[s] <=> "accept" \in io[s]
                     /\ io[s] \subseteq io'[s]

(* All there is to show is what becomes of its session. *)
LEMMA WorkingRound ==
  ASSUME IInv, IInv', Round, NEW t \in Thread, cur[t] \in Slot, Working(t),
         Alone(cur[t])', SocketUp(cur[t])', Followed(cur[t])'
  PROVE  Round'
<1> USE DEF Working, IInv, Round
<1> DEFINE s == cur[t]
<1>1. Listening'
  BY DEF Listening
<1>2. Released'
  <2>1. refs'[s] # 0
    BY CountedNext DEF Counted
  <2> QED
    BY <2>1 DEF Released
<1>3. /\ \A u \in Thread \ {t} : Fresh(u)' <=> Fresh(u)
      /\ \A x \in Slot \ {s} : ~\E u \in {t} : cur[u] = x
  BY DEF Fresh
<1>4. \A x \in Slot \ {s} : Alone(x)'
  BY <1>3 DEF Alone
<1>5. \A x \in Slot \ {s} : SocketUp(x)'
  BY DEF SocketUp
<1>6. \A x \in Slot \ {s} : Followed(x)'
  <2> TAKE x \in Slot \ {s}
  <2>1. /\ AcceptFollowed(x) => AcceptFollowed(x)'
        /\ RecvFollowed(x) => RecvFollowed(x)'
    BY <1>3 DEF AcceptFollowed, RecvFollowed
  <2>2. DiscFollowed(x) => DiscFollowed(x)'
    BY <1>3 DEF DiscFollowed, DiscUser
  <2>3. \A o \in ovPtr[x] : OvFollowed(x, o) => OvFollowed(x, o)'
    BY <1>3 DEF OvFollowed
  <2> QED
    BY <2>1, <2>2, <2>3 DEF Followed
<1>7. Failures'
  BY DEF Failures
<1> QED
  BY <1>1, <1>2, <1>4, <1>5, <1>6, <1>7

LEMMA DispatchRound ==
  ASSUME IInv, IInv', Round, NEW t \in Thread, Dispatch(t)
  PROVE  Round'
<1> USE DEF IInv
<1> DEFINE s == cur[t]
           k == done[t].io
           failed == done[t].failed
<1>1. /\ pc[t] = "dispatch" /\ s \in Slot /\ k \in IoType /\ failed \in BOOLEAN
      /\ UNCHANGED <<state, table, io, listener, sending, up, cur, done, post, then, crashed>>
      /\ \/ /\ failed /\ k = "disc"
            /\ UNCHANGED <<refs, ovPtr>>
         \/ /\ refs' = [refs EXCEPT ![s] = @ - 1]
            /\ ovPtr' = [ovPtr EXCEPT ![s] = @ \ {OvOf(k)}]
  BY Subject DEF Dispatch, At, TypeOK, HandlePC, Done
<1>2. /\ \A u \in Thread \ {t} : pc'[u] = pc[u]
      /\ k = "disc" => pc'[t] = "reset"
      /\ k # "disc" /\ failed => pc'[t] = "disconnect"
      /\ k = "accept" /\ ~failed => pc'[t] = "connect"
      /\ k = "send" /\ ~failed => pc'[t] = "onSend"
      /\ k = "recv" /\ ~failed => pc'[t] \in {"registerRecv", "disconnect"}
  BY <1>1 DEF Dispatch, Goto, TypeOK
<1>3. pc'[t] \in {"reset", "disconnect", "connect", "onSend", "registerRecv"}
  BY <1>1, <1>2 DEF IoType
<1>4. Working(t)
  BY <1>1, <1>2, <1>3 DEF Working, PC, TypeOK
<1>5. Alone(s)'
  BY <1>1, <1>2, <1>3 DEF Round, Alone, Fresh
<1>6. SocketUp(s)'
  BY <1>1, <1>2, <1>3 DEF Round, SocketUp
<1>7. Followed(s)'
  <2> SUFFICES ASSUME Faults \cap Unnoticed = {}, ~crashed PROVE Followed(s)'
    BY <1>1 DEF Followed
  <2>1. k = "disc" => ~failed
    <3>1. "discError" \notin Faults
      BY DEF Unnoticed
    <3> QED
      BY <1>1, <3>1 DEF Round, Failures, MayFail
  <2>2. state[s] = "pending" => AcceptFollowed(s)'
    BY <1>1 DEF AcceptFollowed
  <2>3. state[s] = "connected" => RecvFollowed(s)'
    BY <1>1, <1>2 DEF Round, Followed, RecvFollowed
  <2>4. state[s] = "disconnecting" /\ table[s] = "set" => DiscFollowed(s)'
    BY <1>1, <1>2 DEF Round, Followed, DiscFollowed, DiscUser
  <2>5. \A o \in ovPtr'[s] : o \in ovPtr[s] /\ o # OvOf(k)
    BY <1>1, <2>1 DEF TypeOK
  <2>6. \A o \in ovPtr'[s] : OvFollowed(s, o)'
    BY <1>1, <1>2, <2>5 DEF Round, Followed, OvFollowed, Fresh, AcceptPC, PostPC
  <2> QED
    BY <1>1, <2>2, <2>3, <2>4, <2>6 DEF Followed
<1> QED
  BY <1>1, <1>4, <1>5, <1>6, <1>7, WorkingRound

LEMMA ConnectRound ==
  ASSUME IInv, IInv', Round, NEW t \in Thread, Connect(t)
  PROVE  Round'
<1> USE DEF IInv
<1> DEFINE s == cur[t]
<1>1. /\ pc[t] = "connect" /\ s \in Slot
      /\ UNCHANGED <<refs, table, ovPtr, io, listener, up, cur, done, post, then, crashed>>
      /\ \/ /\ state[s] = "pending" /\ state'[s] = "connected"
            /\ pc'[t] = "welcome"
         \/ /\ state'[s] = state[s]
            /\ pc'[t] = "disconnect"
      /\ \A u \in Thread \ {t} : pc'[u] = pc[u]
      /\ \A x \in Slot \ {s} : state'[x] = state[x]
  BY Subject DEF Connect, At, Goto, TypeOK, HandlePC
<1>2. Working(t)
  BY <1>1 DEF Working, PC
<1>3. Alone(s)'
  BY <1>1 DEF Round, Alone, Fresh
<1>4. SocketUp(s)'
  BY <1>1 DEF Round, SocketUp, Alone
<1>5. Followed(s)'
  <2>1. state'[s] = "pending" => AcceptFollowed(s)'
    BY <1>1 DEF AcceptFollowed
  <2>2. state'[s] = "connected" => RecvFollowed(s)'
    BY <1>1 DEF Round, Followed, RecvFollowed
  <2>3. DiscFollowed(s) => DiscFollowed(s)'
    BY <1>1 DEF DiscFollowed, DiscUser
  <2>4. \A o \in ovPtr'[s] : OvFollowed(s, o) => OvFollowed(s, o)'
    BY <1>1 DEF OvFollowed, Fresh, AcceptPC, PostPC
  <2> QED
    BY <1>1, <2>1, <2>2, <2>3, <2>4 DEF Round, Followed
<1> QED
  BY <1>1, <1>2, <1>3, <1>4, <1>5, WorkingRound

(* A send or a receive is posted, or refused. *)
LEMMA RegisterIoRound ==
  ASSUME IInv, IInv', Round, NEW t \in Thread, SendWelcome(t) \/ RegisterRecv(t) \/ OnSend(t)
  PROVE  Round'
<1> USE DEF IInv
<1> DEFINE s == cur[t]
<1>1. /\ pc[t] \in {"welcome", "registerRecv", "onSend"} /\ s \in Slot
      /\ UNCHANGED <<state, table, listener, up, cur, done, post, then, crashed>>
  BY Subject DEF SendWelcome, RegisterRecv, OnSend, At, HandlePC
<1>2. state[s] # "pending"
  BY <1>1 DEF Round, Alone, Fresh, AcceptPC, PostPC
<1>3. /\ \A u \in Thread \ {t} : pc'[u] = pc[u]
      /\ pc'[t] \in {"disconnect", "drop"} \/ (pc[t] = "welcome" /\ pc'[t] = "registerRecv")
      /\ pc[t] = "registerRecv" /\ pc'[t] = "drop" => "recv" \in io'[s]
      /\ pc[t] = "welcome" => pc'[t] # "drop"
      /\ \/ UNCHANGED <<refs, ovPtr, io>>
         \/ \E k \in {"send", "recv"} : GetSessionInto(s, k) /\ PostIo(s, k)
  <2>1. ASSUME NEW k, NEW ok, NEW bad, RegisterIo(t, s, k, ok, bad)
        PROVE  /\ \A u \in Thread \ {t} : pc'[u] = pc[u]
               /\ \/ pc'[t] = bad /\ UNCHANGED <<refs, ovPtr, io>>
                  \/ pc'[t] = ok /\ GetSessionInto(s, k) /\ PostIo(s, k) /\ k \in io'[s]
    BY <1>1, <2>1 DEF RegisterIo, PostIo, Goto, TypeOK
  <2>2. CASE SendWelcome(t)
    <3>1. CASE sending[s]
      BY <1>1, <2>2, <3>1 DEF SendWelcome, Goto, TypeOK, At
    <3>2. CASE ~sending[s]
      BY <1>1, <2>1, <2>2, <3>2 DEF SendWelcome, At
    <3> QED
      BY <3>1, <3>2
  <2>3. CASE RegisterRecv(t)
    BY <1>1, <2>1, <2>3 DEF RegisterRecv, At
  <2>4. CASE OnSend(t)
    <3>1. CASE Goto(t, "drop") /\ UNCHANGED <<refs, ovPtr, io>>
      BY <1>1, <2>4, <3>1 DEF OnSend, Goto, TypeOK, At
    <3>2. CASE RegisterIo(t, s, "send", "drop", "disconnect")
      BY <1>1, <2>1, <2>4, <3>2 DEF OnSend, At
    <3> QED
      BY <2>4, <3>1, <3>2 DEF OnSend
  <2> QED
    BY <2>2, <2>3, <2>4
<1>4. /\ io[s] \subseteq io'[s]
      /\ \A x \in Slot \ {s} : refs'[x] = refs[x] /\ ovPtr'[x] = ovPtr[x] /\ io'[x] = io[x]
      /\ \A x \in Slot : "accept" \in io'[x] => "accept" \in io[x]
      /\ \A o \in ovPtr'[s] : o \in ovPtr[s] \/ \E k \in io'[s] : OvOf(k) = o
  <2>1. OvOf("send") = "send" /\ OvOf("recv") = "recv"
    BY DEF OvOf
  <2> QED
    BY <1>1, <1>3, <2>1 DEF GetSessionInto, PostIo, TypeOK
<1>5. Working(t)
  BY <1>1, <1>3, <1>4 DEF Working, PC
<1>6. Alone(s)' /\ SocketUp(s)'
  BY <1>1, <1>2, <1>3 DEF Round, Alone, SocketUp
<1>7. Followed(s)'
  <2>1. RecvFollowed(s) => RecvFollowed(s)' \/ pc[t] = "registerRecv"
    BY <1>1, <1>3, <1>4 DEF RecvFollowed
  <2>2. pc[t] = "registerRecv" => RecvFollowed(s)'
    BY <1>1, <1>3 DEF RecvFollowed
  <2>3. DiscFollowed(s) => DiscFollowed(s)'
    BY <1>1, <1>3, <1>4 DEF DiscFollowed, DiscUser
  <2>4. \A o \in ovPtr[s] : OvFollowed(s, o) => OvFollowed(s, o)'
    BY <1>1, <1>3, <1>4 DEF OvFollowed, Fresh, AcceptPC, PostPC
  <2>5. \A o \in ovPtr'[s] : o \in ovPtr[s] \/ OvFollowed(s, o)'
    BY <1>1, <1>4 DEF OvFollowed, OvOf
  <2> QED
    BY <1>1, <1>2, <2>1, <2>2, <2>3, <2>4, <2>5 DEF Round, Followed
<1> QED
  BY <1>1, <1>5, <1>6, <1>7, WorkingRound

LEMMA DisconnectRound ==
  ASSUME IInv, IInv', Round, NEW t \in Thread, Disconnect(t)
  PROVE  Round'
<1> USE DEF IInv
<1> DEFINE s == cur[t]
<1>1. /\ pc[t] = "disconnect" /\ s \in Slot
      /\ UNCHANGED <<refs, table, ovPtr, io, listener, up, cur, done, post, then, crashed>>
      /\ \/ /\ state[s] \in {"pending", "connected"} /\ state'[s] = "disconnecting"
            /\ pc'[t] = "registerDisc"
         \/ /\ state[s] \notin {"pending", "connected"} /\ state'[s] = state[s]
            /\ pc'[t] = "drop"
      /\ \A u \in Thread \ {t} : pc'[u] = pc[u]
      /\ \A x \in Slot \ {s} : state'[x] = state[x]
  BY Subject DEF Disconnect, At, Goto, TypeOK, HandlePC
<1>2. Working(t)
  BY <1>1 DEF Working, PC
<1>3. Alone(s)'
  BY <1>1 DEF Alone
<1>4. SocketUp(s)'
  <2>1. state[s] \in {"pending", "connected"} =>
          \A u \in Thread : cur[u] = s => pc[u] # "registerDisc"
    BY <1>1 DEF Disc, DiscUser
  <2> QED
    BY <1>1, <2>1 DEF Round, SocketUp
<1>5. Followed(s)'
  <2>1. state[s] \in {"pending", "connected"} => DiscFollowed(s)'
    BY <1>1 DEF DiscFollowed, DiscUser
  <2>2. DiscFollowed(s) => DiscFollowed(s)'
    BY <1>1 DEF DiscFollowed, DiscUser
  <2>3. \A o \in ovPtr'[s] : OvFollowed(s, o) => OvFollowed(s, o)'
    BY <1>1 DEF OvFollowed, Fresh, AcceptPC, PostPC
  <2> QED
    BY <1>1, <2>1, <2>2, <2>3 DEF Round, Followed
<1> QED
  BY <1>1, <1>2, <1>3, <1>4, <1>5, WorkingRound

LEMMA RegisterDisconnectRound ==
  ASSUME IInv, IInv', Round, NEW t \in Thread, RegisterDisconnect(t)
  PROVE  Round'
<1> USE DEF IInv
<1> DEFINE s == cur[t]
<1>1. /\ pc[t] = "registerDisc" /\ s \in Slot
      /\ UNCHANGED <<state, table, listener, up, cur, done, post, then, crashed>>
      /\ pc'[t] = "drop"
      /\ \A u \in Thread \ {t} : pc'[u] = pc[u]
  BY Subject DEF RegisterDisconnect, At, Goto, TypeOK, HandlePC
<1>2. state[s] = "disconnecting" /\ table[s] = "set"
  BY <1>1 DEF Disc, DiscUser
<1>3. /\ ovPtr' = [ovPtr EXCEPT ![s] = @ \cup {"disc"}]
      /\ refs' = [refs EXCEPT ![s] = @ + 1]
      /\ io' = [io EXCEPT ![s] = @ \cup {"disc"}] \/ io' = io
      /\ up[s] /\ "discSync" \notin Faults => io' = [io EXCEPT ![s] = @ \cup {"disc"}]
  BY <1>2 DEF RegisterDisconnect, GetSessionInto, PostIo
<1>4. /\ io[s] \subseteq io'[s]
      /\ \A x \in Slot \ {s} : refs'[x] = refs[x] /\ ovPtr'[x] = ovPtr[x] /\ io'[x] = io[x]
      /\ \A x \in Slot : "accept" \in io'[x] => "accept" \in io[x]
      /\ ovPtr'[s] = ovPtr[s] \cup {"disc"}
      /\ up[s] /\ "discSync" \notin Faults => "disc" \in io'[s]
  BY <1>1, <1>3 DEF TypeOK
<1>5. Working(t)
  BY <1>1, <1>4 DEF Working, PC
<1>6. Alone(s)' /\ SocketUp(s)'
  BY <1>1, <1>2 DEF Round, Alone, SocketUp
<1>7. Followed(s)'
  <2> SUFFICES ASSUME Faults \cap Unnoticed = {}, ~crashed PROVE Followed(s)'
    BY <1>1 DEF Followed
  <2>1. "disc" \in io'[s]
    BY <1>1, <1>4 DEF Round, SocketUp, Unnoticed
  <2>2. DiscFollowed(s)' /\ OvFollowed(s, "disc")'
    BY <1>1, <2>1 DEF DiscFollowed, OvFollowed, OvOf
  <2>3. \A o \in ovPtr[s] : OvFollowed(s, o) => OvFollowed(s, o)'
    BY <1>1, <1>4 DEF OvFollowed, Fresh, AcceptPC, PostPC
  <2> QED
    BY <1>1, <1>2, <1>4, <2>2, <2>3 DEF Round, Followed
<1> QED
  BY <1>1, <1>5, <1>6, <1>7, WorkingRound

LEMMA ClearPtrRound ==
  ASSUME IInv, IInv', Round, NEW t \in Thread, ClearPtr(t) \/ ResetSession(t)
  PROVE  Round'
<1> USE DEF IInv
<1> DEFINE s == cur[t]
<1>1. /\ pc[t] \in {"reset", "nulling"} /\ s \in Slot
      /\ UNCHANGED <<state, ovPtr, io, listener, up, cur, done, crashed>>
      /\ \A x \in Slot \ {s} : table'[x] = table[x]
      /\ table'[s] # "set"
  BY Subject DEF ClearPtr, ResetSession, At, HandlePC, TypeOK
<1>2. /\ \A x \in Slot \ {s} : refs'[x] = refs[x]
      /\ pc'[t] \in {"nulling", "drop"}
      /\ \A u \in Thread \ {t} : pc'[u] = pc[u]
      /\ post' = post /\ then' = then
  <2>1. CASE ClearPtr(t)
    BY <1>1, <2>1 DEF ClearPtr, Goto, TypeOK
  <2>2. CASE ResetSession(t)
    <3>1. pc[t] = "reset" /\ table[s] = "set" /\ t \in CurOf(s)
      BY <1>1, <2>2 DEF ResetSession, At, Disc, DiscUser, CurOf
    <3>2. refs[s] # 1
      BY <1>1, <3>1, LastHolder
    <3>3. post[t] = NoSlot
      BY <3>1 DEF Control, PostPC
    <3>4. /\ refs' = [refs EXCEPT ![s] = @ - 1]
          /\ pc' = [pc EXCEPT ![t] = "nulling"]
          /\ post' = [post EXCEPT ![t] = NoSlot] /\ then' = then
      BY <2>2, <3>1, <3>2 DEF ResetSession, ReleaseRef, Goto
    <3>5. post' = post
      BY <3>3, <3>4 DEF TypeOK
    <3> QED
      BY <1>1, <3>4, <3>5 DEF TypeOK
  <2> QED
    BY <2>1, <2>2
<1>3. state[s] = "disconnecting"
  BY <1>1 DEF Disc, DiscUser
<1>4. Working(t)
  BY <1>1, <1>2 DEF Working, PC
<1>5. Alone(s)' /\ SocketUp(s)'
  BY <1>1, <1>2, <1>3 DEF Round, Alone, SocketUp
<1>6. Followed(s)'
  <2>1. \A o \in ovPtr[s] : OvFollowed(s, o) => OvFollowed(s, o)'
    BY <1>1, <1>2 DEF OvFollowed, Fresh, AcceptPC, PostPC
  <2> QED
    BY <1>1, <1>3, <2>1 DEF Round, Followed
<1> QED
  BY <1>1, <1>4, <1>5, <1>6, WorkingRound

(* The worker leaves its session; the last one out pushes it. *)
LEMMA DropRound ==
  ASSUME IInv, IInv', Round, NEW t \in Thread, Drop(t)
  PROVE  Round'
<1> USE LifecycleAssumption DEF IInv, Round
<1> DEFINE s == cur[t]
<1>1. /\ pc[t] = "drop" /\ s \in Slot
      /\ refs' = [refs EXCEPT ![s] = @ - 1]
      /\ cur' = [cur EXCEPT ![t] = NoSlot]
      /\ done' = [done EXCEPT ![t] = NoDone]
      /\ UNCHANGED <<state, table, ovPtr, io, listener, up, crashed>>
      /\ \/ refs[s] = 1 /\ pc'[t] = "push" /\ post'[t] = s
         \/ refs[s] # 1 /\ pc'[t] = "wait"
  BY Subject DEF Drop, ReleaseRef, At, Goto, TypeOK, HandlePC
<1>2. refs[s] >= 1
  BY <1>1, LastHolder DEF CurOf
<1>3. \A u \in Thread \ {t} : /\ pc'[u] = pc[u] /\ cur'[u] = cur[u] /\ done'[u] = done[u]
                              /\ post'[u] = post[u] /\ then'[u] = then[u]
  BY DEF Drop, ReleaseRef, CallPostAccept, Goto, TypeOK
<1>4. cur'[t] = NoSlot /\ done'[t] = NoDone
  BY <1>1 DEF TypeOK
<1>5. /\ \A u \in Thread \ {t} : Fresh(u) => Fresh(u)'
      /\ ~Fresh(t)
  BY <1>1, <1>3 DEF Fresh, AcceptPC, PostPC
<1>6. Listening'
  BY <1>1, <1>3 DEF Listening
<1>7. \A x \in Slot : refs'[x] = refs[x] \/ (x = s /\ refs'[x] = refs[x] - 1)
  BY <1>1 DEF TypeOK
<1>8. Released'
  BY <1>1, <1>2, <1>3, <1>7 DEF Released
<1>9. Failures'
  BY <1>3, <1>4 DEF Failures, NoDone
<1>10. \A x \in Slot : Alone(x)'
  BY <1>1, <1>3, <1>4, <1>5 DEF Alone
<1>11. \A x \in Slot : SocketUp(x)'
  BY <1>1, <1>3, <1>4 DEF SocketUp
<1>12. \A x \in Slot : Followed(x)'
  <2> TAKE x \in Slot
  <2>1. state[x] = "pending" /\ AcceptFollowed(x) => AcceptFollowed(x)'
    <3>1. state[x] = "pending" => cur[t] # x
      BY <1>1, <1>5 DEF Alone
    <3> QED
      BY <1>1, <1>3, <3>1 DEF AcceptFollowed
  <2>2. RecvFollowed(x) => RecvFollowed(x)'
    BY <1>1, <1>3 DEF RecvFollowed
  <2>3. DiscFollowed(x) => DiscFollowed(x)'
    BY <1>1, <1>3 DEF DiscFollowed, DiscUser
  <2>4. \A o \in ovPtr[x] : OvFollowed(x, o) => OvFollowed(x, o)'
    BY <1>1, <1>3, <1>5 DEF OvFollowed
  <2> QED
    BY <1>1, <2>1, <2>2, <2>3, <2>4 DEF Followed
<1> QED
  BY <1>6, <1>8, <1>9, <1>10, <1>11, <1>12

(* What is dequeued passes from the kernel to the worker. *)
LEMMA DequeueRound ==
  ASSUME IInv, IInv', Round, NEW t \in Thread, NEW s \in Slot, NEW k \in IoType,
         NEW failed \in BOOLEAN, Dequeue(t, s, k, failed)
  PROVE  Round'
<1> USE DEF IInv, Round
<1>1. /\ pc[t] = "wait" /\ k \in io[s]
      /\ failed => MayFail(k)
      /\ UNCHANGED <<state, table, ovPtr, listener, sending, post>>
      /\ io'[s] = io[s] \ {k}
      /\ \A x \in Slot \ {s} : io'[x] = io[x] /\ up'[x] = up[x]
      /\ k = "accept" => failed \/ up'[s]
      /\ k \notin {"accept", "disc"} => up'[s] = up[s]
  BY DEF Dequeue, At, TypeOK, thread
<1>2. /\ cur[t] \notin Slot /\ ~Fresh(t) /\ frames[t] = 0
      /\ post[t] = NoSlot
  BY <1>1, LifecycleAssumption DEF Control, TypeOK, Fresh, AcceptPC, PostPC, IdlePC
<1>3. \/ /\ crashed' /\ UNCHANGED <<refs, cur, done, pc, then>>
      \/ /\ crashed' = crashed
         /\ refs'[s] = refs[s] + 1 /\ \A x \in Slot \ {s} : refs'[x] = refs[x]
         /\ cur'[t] = s /\ done'[t] = [io |-> k, failed |-> failed]
         /\ pc'[t] = IF k = "accept" THEN "accept" ELSE "dispatch"
         /\ k = "accept" => then'[t] = "dispatch"
  BY <1>2 DEF Dequeue, CallPostAccept, Goto, TypeOK, thread
<1>4. \A u \in Thread \ {t} : /\ pc'[u] = pc[u] /\ cur'[u] = cur[u] /\ done'[u] = done[u]
                              /\ then'[u] = then[u]
  BY DEF Dequeue, CallPostAccept, Goto, TypeOK, thread
<1>5. /\ \A u \in Thread \ {t} : Fresh(u)' <=> Fresh(u)
      /\ cur'[t] = s => Fresh(t)'
  BY <1>2, <1>3, <1>4 DEF Fresh, AcceptPC, PostPC
<1>6. /\ k = "accept" => state[s] = "pending" /\ \A u \in Thread : cur[u] # s
      /\ k = "disc" =>
           /\ state[s] = "disconnecting"
           /\ \A u \in Thread : cur[u] = s => pc[u] # "registerDisc"
  BY <1>1 DEF Recv, Disc, DiscUser
<1>7. state[s] = "pending" => k = "accept"
  BY <1>1 DEF Alone
<1>8. Listening'
  BY <1>1, <1>2, <1>4 DEF Listening
<1>9. Released'
  BY <1>1, <1>3, <1>4 DEF Released, TypeOK
<1>10. Failures'
  BY <1>1, <1>3, <1>4 DEF Failures
<1>11. \A x \in Slot : Alone(x)'
  <2> SUFFICES ASSUME NEW x \in Slot, state[x] = "pending" PROVE Alone(x)'
    BY <1>1 DEF Alone
  <2>1. io'[x] \subseteq {"accept"}
    BY <1>1 DEF Alone
  <2>2. CASE x = s
    BY <1>1, <1>2, <1>3, <1>4, <1>5, <1>6, <1>7, <2>1, <2>2 DEF Alone
  <2>3. CASE x # s
    BY <1>1, <1>2, <1>3, <1>4, <1>5, <2>1, <2>3 DEF Alone
  <2> QED
    BY <2>2, <2>3
<1>12. \A x \in Slot : SocketUp(x)'
  <2>1. k = "accept" /\ "acceptError" \notin Faults => ~failed
    BY <1>1 DEF MayFail
  <2> QED
    BY <1>1, <1>2, <1>3, <1>4, <1>6, <1>7, <2>1 DEF SocketUp
<1>13. \A x \in Slot : Followed(x)'
  <2> SUFFICES ASSUME NEW x \in Slot, ~crashed' PROVE Followed(x)'
    BY DEF Followed
  <2>0. /\ crashed' = crashed /\ cur'[t] = s /\ done'[t].io = k
        /\ pc'[t] = IF k = "accept" THEN "accept" ELSE "dispatch"
    BY <1>3
  <2>1. AcceptFollowed(x) => AcceptFollowed(x)'
    BY <1>1, <1>2, <1>4, <2>0 DEF AcceptFollowed
  <2>2. RecvFollowed(x) => RecvFollowed(x)'
    BY <1>1, <1>4, <2>0 DEF RecvFollowed
  <2>3. DiscFollowed(x) => DiscFollowed(x)'
    BY <1>1, <1>4, <2>0 DEF DiscFollowed, DiscUser
  <2>4. \A o \in ovPtr[x] : OvFollowed(x, o) => OvFollowed(x, o)'
    BY <1>1, <1>2, <1>4, <1>5, <2>0 DEF OvFollowed, OvOf
  <2> QED
    BY <1>1, <2>0, <2>1, <2>2, <2>3, <2>4 DEF Followed
<1> QED
  BY <1>8, <1>9, <1>10, <1>11, <1>12, <1>13

(* A step that changes nothing, or only crashes. *)
LEMMA UnchangedRound ==
  ASSUME Round, UNCHANGED <<session, pendingAccepts, thread>>, crashed => crashed'
  PROVE  Round'
BY DEF Round, Listening, Released, Failures, Alone, SocketUp, Followed, AcceptFollowed,
   RecvFollowed, DiscFollowed, DiscUser, OvFollowed, Fresh, session, thread

(* The server starts with every session idle. *)
LEMMA InitRound == Init => Round
BY DEF Init, Round, Listening, Released, Failures, NoDone, Alone, SocketUp, Followed

LEMMA NextRound == IInv /\ IInv' /\ Round /\ [Next]_vars => Round'
<1> SUFFICES ASSUME IInv, IInv', Round, [Next]_vars PROVE Round'
  OBVIOUS
<1>1. CASE \E t \in Thread : PostAccept(t)
  BY <1>1, AcceptLoopRound, CreateSessionRound, RegisterAcceptRound, SetListenerRound,
     DropPostRound, PushRound DEF PostAccept
<1>2. CASE \E t \in Worker : Handle(t)
  BY <1>2, DispatchRound, ConnectRound, RegisterIoRound, DisconnectRound,
     RegisterDisconnectRound, ClearPtrRound, DropRound, UnchangedRound
     DEF Handle, Thread, TornGetSession
<1>3. CASE \E t \in Worker, s \in Slot, k \in IoType, failed \in BOOLEAN :
             Dequeue(t, s, k, failed)
  BY <1>3, DequeueRound DEF Thread
<1>4. CASE UNCHANGED vars
  BY <1>4, UnchangedRound DEF vars
<1> QED
  BY <1>1, <1>2, <1>3, <1>4 DEF Next

LEMMA RoundInvariance == Spec => [](IInv /\ Round)
<1>1. Init => IInv /\ Round
  BY InitIInv, InitRound
<1>2. IInv /\ Round /\ [Next]_vars => (IInv /\ Round)'
  BY NextIInv, NextRound
<1> QED
  BY <1>1, <1>2, PTL DEF Spec

(* Who is followed is not stranded: without a reference the session is being *)
(* pushed, and with one something will release it.                           *)
LEMMA NoneStranded == IInv /\ Round => NobodyStranded
<1>1. ASSUME IInv, Round PROVE NobodyStranded
  <2> SUFFICES ASSUME Faults \cap Unnoticed = {}, ~crashed,
                      NEW s \in Slot, state[s] # "idle",
                      \A t \in Thread : cur[t] # s /\ post[t] # s
               PROVE  io[s] # {}
    BY DEF NobodyStranded
  <2> USE <1>1 DEF IInv, Round
  <2>1. CASE state[s] = "pending"
    BY <2>1 DEF Followed, AcceptFollowed
  <2>2. CASE state[s] = "connected"
    BY <2>2 DEF Followed, RecvFollowed
  <2>3. CASE state[s] = "disconnecting" /\ table[s] = "set"
    BY <2>3 DEF Followed, DiscFollowed, DiscUser
  <2>4. CASE state[s] = "disconnecting" /\ table[s] # "set"
    <3>1. CASE ovPtr[s] = {}
      <4>1. TableOf(s) = {} /\ CurOf(s) = {} /\ PostOf(s) = {}
        BY <2>4 DEF TableOf, CurOf, PostOf
      <4>2. refs[s] = 0
        BY <3>1, <4>1, FS_EmptySet DEF RefSum
      <4> QED
        BY <4>2 DEF Released
    <3>2. CASE ovPtr[s] # {}
      BY <3>2 DEF Followed, OvFollowed
    <3> QED
      BY <3>1, <3>2
  <2> QED
    BY <2>1, <2>2, <2>3, <2>4 DEF TypeOK, State
<1> QED
  BY <1>1

(* Unless a failure goes unnoticed, every session in use has an operation in  *)
(* the kernel or a thread that works on it, whatever the order of completions *)
(* and releases.                                                              *)
THEOREM NobodyIsStranded == Spec => []NobodyStranded
BY NoneStranded, RoundInvariance, PTL

(* The step that meets one is an accept before its SetListener, or a copy of  *)
(* an entry that Reset has released and not cleared.                          *)
LEMMA RacesOnly ==
  ASSUME IInv, Round, Next, crashed' /\ ~crashed
  PROVE  InRace
<1> USE DEF IInv
<1>1. ASSUME NEW t \in Thread, PostAccept(t) PROVE FALSE
  BY <1>1 DEF PostAccept, AcceptLoop, CreateSession, CreateSessionFails, UndoAccept,
     RegisterAccept, SetListener, DropPost, Push
<1>2. ASSUME NEW t \in Worker, Handle(t)
      PROVE  \E u \in Thread : pc[u] = "nulling" /\ GetsSession(t) /\ cur[t] = cur[u]
  <2>1. TornGetSession(t)
    BY <1>2 DEF Handle, Dispatch, Connect, SendWelcome, RegisterRecv, OnSend, Disconnect,
       RegisterDisconnect, ResetSession, ClearPtr, Drop
  <2>2. GetsSession(t) /\ table[cur[t]] = "released" /\ cur[t] \in Slot
    BY <2>1, Subject DEF TornGetSession, GetsSession, At, HandlePC, Thread
  <2> QED
    BY <2>2 DEF Life
<1>3. ASSUME NEW t \in Worker, NEW s \in Slot, NEW k \in IoType, NEW failed \in BOOLEAN,
             Dequeue(t, s, k, failed)
      PROVE  \E u \in Thread : pc[u] = "setListener" /\ io'[post[u]] # io[post[u]]
  <2>1. /\ k \in io[s] /\ io'[s] = io[s] \ {k}
        /\ OvOf(k) \notin ovPtr[s] \/ (k = "accept" /\ ~listener[s])
    BY <1>3 DEF Dequeue, TypeOK
  <2>2. "accept" \in io[s] /\ ~listener[s]
    BY <2>1 DEF Held, CompletionHasSession
  <2> QED
    BY <2>1, <2>2 DEF Round, Listening
<1> QED
  BY <1>1, <1>2, <1>3 DEF Next, InRace, Thread

(* A null or torn pointer is met in the two races alone: an accept overtakes   *)
(* the SetListener of its own session, or a handler copies the entry that the  *)
(* Reset of its own session is about to clear.                                 *)
THEOREM OnlyRacesCrash == Spec => CrashesOnlyInRaces
<1>1. IInv /\ Round /\ [Next]_vars
        => [crashed' /\ ~crashed => InRace]_vars
  BY RacesOnly
<1> QED
  BY <1>1, RoundInvariance, PTL DEF Spec, CrashesOnlyInRaces

-----------------------------------------------------------------------------
Taken(s) == \E t \in Thread : pc[t] = "registerAccept" /\ post[t] = s
Ending(s) == \E t \in Thread : pc[t] = "registerDisc" /\ cur[t] = s

(* The phase of a session, from its state and the two places that refine it. *)
Phased ==
  /\ phase = [s \in Slot |-> phase[s]]
  /\ \A s \in Slot :
       phase[s] = IF Taken(s) THEN "taken" ELSE IF Ending(s) THEN "ending" ELSE state[s]

LEMMA PhaseIs == IInv => Phased
<1> SUFFICES ASSUME IInv PROVE Phased
  OBVIOUS
<1>1. \A s \in Slot : /\ Taken(s) => state[s] = "pending"
                      /\ Ending(s) => state[s] = "disconnecting"
  BY DEF IInv, New, Taken, Disc, DiscUser, Ending
<1>2. phase = [s \in Slot |-> phase[s]]
  BY DEF phase
<1> QED
  BY <1>1, <1>2 DEF Phased, phase, Taken, Ending

LEMMA PhaseNext == IInv' => Phased'
BY PhaseIs, PTL

(* A step that neither takes nor ends. *)
LEMMA PhaseSame ==
  ASSUME IInv, IInv', state' = state,
         \A s \in Slot : (Taken(s)' <=> Taken(s)) /\ (Ending(s)' <=> Ending(s))
  PROVE  phase' = phase
<1>1. \A s \in Slot : phase'[s] = phase[s]
  BY PhaseIs, PhaseNext DEF Phased
<1> QED
  BY <1>1, PhaseIs, PhaseNext DEF Phased

(* A step that concerns one session. *)
LEMMA PhaseMoves ==
  ASSUME IInv, IInv', NEW s \in Slot, NEW to, phase'[s] = to,
         \A x \in Slot \ {s} : /\ state'[x] = state[x]
                               /\ (Taken(x)' <=> Taken(x)) /\ (Ending(x)' <=> Ending(x))
  PROVE  phase' = [phase EXCEPT ![s] = to]
<1>1. \A x \in Slot \ {s} : phase'[x] = phase[x]
  BY PhaseIs, PhaseNext DEF Phased
<1> QED
  BY <1>1, PhaseIs, PhaseNext DEF Phased

CycleStep == [Cycle!Next]_(Cycle!vars)

(* PostAccept takes a session, posts its accept and returns it. *)
LEMMA PostAcceptCycles ==
  ASSUME IInv, IInv', Round, NEW t \in Thread, PostAccept(t)
  PROVE  CycleStep
<1> USE DEF IInv, At, Goto
<1>1. CASE \/ AcceptLoop(t) \/ CreateSessionFails(t) \/ UndoAccept(t)
            \/ SetListener(t) \/ DropPost(t)
  <2>1. /\ UNCHANGED <<state, io, up, cur>>
        /\ pc[t] \notin {"registerAccept", "registerDisc"}
        /\ pc'[t] \notin {"registerAccept", "registerDisc"}
        /\ \A u \in Thread \ {t} : pc'[u] = pc[u] /\ post'[u] = post[u]
    BY <1>1 DEF AcceptLoop, CreateSessionFails, UndoAccept, SetListener, DropPost,
       ReturnPostAccept, ReleaseRef, session, TypeOK, Control, IdlePC
  <2>2. phase' = phase
    BY <2>1, PhaseSame DEF Taken, Ending
  <2> QED
    BY <2>1, <2>2 DEF CycleStep, Cycle!vars
<1>2. ASSUME NEW s \in Slot, CreateSession(t, s) PROVE CycleStep
  <2>1. /\ state[s] = "idle" /\ UNCHANGED <<io, up, cur>>
        /\ pc[t] = "create" /\ pc'[t] = "registerAccept" /\ post'[t] = s
        /\ \A u \in Thread \ {t} : pc'[u] = pc[u] /\ post'[u] = post[u]
        /\ \A x \in Slot \ {s} : state'[x] = state[x]
    BY <1>2 DEF CreateSession, TypeOK
  <2>2. /\ io[s] = {} /\ ~up[s] /\ \A u \in Thread : cur[u] # s /\ post[u] # s
    BY <2>1 DEF Life, IdleIsClean
  <2>3. phase[s] = "idle" /\ phase'[s] = "taken"
    BY <2>1, <2>2, PhaseIs, PhaseNext DEF Phased, Taken, Ending
  <2>4. phase' = [phase EXCEPT ![s] = "taken"]
    BY <2>1, <2>2, <2>3, PhaseMoves DEF Taken, Ending
  <2>5. Cycle!Take(s)
    BY <2>1, <2>2, <2>3, <2>4 DEF Cycle!Take, Cycle!Moves
  <2> QED
    BY <2>5 DEF CycleStep, Cycle!Next, Cycle!Step
<1>3. CASE RegisterAccept(t)
  <2> DEFINE s == post[t]
  <2>1. /\ pc[t] = "registerAccept" /\ s \in Slot /\ pc'[t] = "setListener"
        /\ UNCHANGED <<state, up, cur, post>>
        /\ PostIo(s, "accept") \/ io' = io
        /\ \A u \in Thread \ {t} : pc'[u] = pc[u]
    BY <1>3, Subject DEF RegisterAccept, TypeOK, PostPC
  <2>2. /\ state[s] = "pending" /\ io[s] = {}
        /\ \A u \in Thread : cur[u] # s /\ (post[u] = s => u = t)
    BY <2>1 DEF New
  <2>3. phase[s] = "taken" /\ phase'[s] = "pending"
    BY <2>1, <2>2, PhaseIs, PhaseNext DEF Phased, Taken, Ending
  <2>4. phase' = [phase EXCEPT ![s] = "pending"]
    BY <2>1, <2>2, <2>3, PhaseMoves DEF Taken, Ending
  <2>5. Cycle!PostAccept(s)
    BY <2>1, <2>2, <2>3, <2>4 DEF Cycle!PostAccept, Cycle!Moves, Cycle!Starts, PostIo
  <2> QED
    BY <2>1, <2>5 DEF CycleStep, Cycle!Next, Cycle!Step
<1>4. CASE Push(t)
  <2> DEFINE s == post[t]
  <2>1. /\ pc[t] = "push" /\ s \in Slot /\ pc'[t] = "accept" /\ state'[s] = "idle"
        /\ UNCHANGED <<io, up, cur>>
        /\ \A u \in Thread \ {t} : pc'[u] = pc[u] /\ post'[u] = post[u]
        /\ \A x \in Slot \ {s} : state'[x] = state[x]
    BY <1>4, Subject DEF Push, TypeOK, PostPC
  <2>2. /\ state[s] = "disconnecting" /\ ovPtr[s] = {} /\ table[s] # "set"
        /\ \A u \in Thread : cur[u] # s /\ (post[u] = s => pc[u] = "push")
    BY <2>1, CountedNow DEF Life, Counted
  <2>3. io[s] = {} /\ ~up[s]
    BY <2>1, <2>2 DEF Held, CompletionHasSession, Life
  <2>4. phase[s] = "disconnecting" /\ phase'[s] = "idle"
    BY <2>1, <2>2, PhaseIs, PhaseNext DEF Phased, Taken, Ending
  <2>5. phase' = [phase EXCEPT ![s] = "idle"]
    BY <2>1, <2>4, PhaseMoves DEF Taken, Ending
  <2>6. Cycle!Return(s)
    BY <2>1, <2>3, <2>4, <2>5 DEF Cycle!Return, Cycle!Moves
  <2> QED
    BY <2>1, <2>6 DEF CycleStep, Cycle!Next, Cycle!Step
<1> QED
  BY <1>1, <1>2, <1>3, <1>4 DEF PostAccept

(* A session whose handler is past its Connect is connected or disconnects. *)
LEMMA PastConnect ==
  ASSUME IInv, Round, NEW t \in Thread,
         pc[t] \in {"welcome", "registerRecv", "onSend"}
  PROVE  /\ cur[t] \in Slot
         /\ phase[cur[t]] \in {"connected", "ending", "disconnecting"}
<1> DEFINE s == cur[t]
<1>1. s \in Slot
  BY Subject DEF IInv, HandlePC
<1>2. state[s] \in {"connected", "disconnecting"}
  <2>1. state[s] # "pending"
    BY <1>1 DEF Round, Alone, Fresh, AcceptPC, PostPC
  <2>2. state[s] # "idle"
    BY <1>1 DEF IInv, Life, IdleIsClean
  <2> QED
    BY <1>1, <2>1, <2>2 DEF IInv, TypeOK, State
<1>3. ~Taken(s)
  BY <1>2 DEF IInv, New, Taken
<1> QED
  BY <1>1, <1>2, <1>3, PhaseIs DEF Phased

(* It posts at most one send or receive, on a socket that is up. *)
LEMMA RegisterIoCycles ==
  ASSUME IInv, IInv', Round, NEW t \in Thread, SendWelcome(t) \/ RegisterRecv(t) \/ OnSend(t)
  PROVE  CycleStep
<1> USE DEF IInv, At
<1> DEFINE s == cur[t]
<1>1. /\ pc[t] \in {"welcome", "registerRecv", "onSend"} /\ s \in Slot
      /\ phase[s] \in {"connected", "ending", "disconnecting"}
      /\ UNCHANGED <<state, up, cur, post>>
  BY PastConnect DEF SendWelcome, RegisterRecv, OnSend
<1>2. /\ \A u \in Thread \ {t} : pc'[u] = pc[u]
      /\ pc'[t] \in {"disconnect", "drop", "registerRecv"}
      /\ \/ io' = io
         \/ \E k \in {"send", "recv"} : up[s] /\ PostIo(s, k) /\ k \notin io[s]
  <2>1. ASSUME NEW k, NEW ok, NEW bad, RegisterIo(t, s, k, ok, bad)
        PROVE  /\ \A u \in Thread \ {t} : pc'[u] = pc[u]
               /\ pc'[t] \in {ok, bad}
               /\ io' = io \/ (up[s] /\ PostIo(s, k))
    BY <1>1, <2>1 DEF RegisterIo, Goto, TypeOK
  <2>2. CASE SendWelcome(t)
    <3>1. CASE sending[s]
      BY <1>1, <2>2, <3>1 DEF SendWelcome, Goto, TypeOK
    <3>2. CASE ~sending[s]
      <4>1. "send" \notin io[s]
        BY <1>1, <3>2 DEF Send
      <4> QED
        BY <1>1, <2>1, <2>2, <3>2, <4>1 DEF SendWelcome
    <3> QED
      BY <3>1, <3>2
  <2>3. CASE RegisterRecv(t)
    <3>1. "recv" \notin io[s]
      BY <1>1, <2>3 DEF RegisterRecv, Control, Recv, RecvUser
    <3> QED
      BY <1>1, <2>1, <2>3, <3>1 DEF RegisterRecv
  <2>4. CASE OnSend(t)
    <3>1. CASE Goto(t, "drop") /\ io' = io
      BY <1>1, <2>4, <3>1 DEF OnSend, Goto, TypeOK
    <3>2. CASE RegisterIo(t, s, "send", "drop", "disconnect")
      <4>1. "send" \notin io[s]
        BY <1>1, <2>4 DEF OnSend, Control, Send, SendUser
      <4> QED
        BY <1>1, <2>1, <3>2, <4>1
    <3> QED
      BY <2>4, <3>1, <3>2 DEF OnSend
  <2> QED
    BY <2>2, <2>3, <2>4
<1>3. phase' = phase
  BY <1>1, <1>2, PhaseSame DEF Taken, Ending
<1>4. CASE io' = io
  BY <1>1, <1>3, <1>4 DEF CycleStep, Cycle!vars
<1>5. ASSUME NEW k \in {"send", "recv"}, up[s], PostIo(s, k), k \notin io[s]
      PROVE  CycleStep
  <2>1. Cycle!Transfer(s, k)
    BY <1>1, <1>3, <1>5 DEF Cycle!Transfer, Cycle!Starts, PostIo
  <2> QED
    BY <1>1, <2>1 DEF CycleStep, Cycle!Next, Cycle!Step
<1> QED
  BY <1>2, <1>4, <1>5

LEMMA HandleCycles ==
  ASSUME IInv, IInv', Round, NEW t \in Thread, Handle(t)
  PROVE  CycleStep
<1> USE DEF IInv, At, Goto
<1>1. CASE Dispatch(t) \/ ResetSession(t) \/ ClearPtr(t) \/ Drop(t)
  <2>1. /\ UNCHANGED <<state, io, up>>
        /\ pc[t] \notin {"registerAccept", "registerDisc"}
        /\ pc'[t] \notin {"registerAccept", "registerDisc"}
        /\ \A u \in Thread \ {t} : pc'[u] = pc[u] /\ post'[u] = post[u] /\ cur'[u] = cur[u]
    BY <1>1 DEF Dispatch, ResetSession, ClearPtr, Drop, ReleaseRef, TypeOK
  <2>2. phase' = phase
    BY <2>1, PhaseSame DEF Taken, Ending
  <2> QED
    BY <2>1, <2>2 DEF CycleStep, Cycle!vars
<1>2. CASE Connect(t)
  <2> DEFINE s == cur[t]
  <2>1. /\ pc[t] = "connect" /\ s \in Slot /\ UNCHANGED <<io, up, cur, post>>
        /\ pc'[t] \in {"welcome", "disconnect"}
        /\ state' = state \/ (state[s] = "pending" /\ state'[s] = "connected")
        /\ \A u \in Thread \ {t} : pc'[u] = pc[u]
        /\ \A x \in Slot \ {s} : state'[x] = state[x]
    BY <1>2, Subject DEF Connect, TypeOK, HandlePC
  <2>2. CASE state' = state
    <3>1. phase' = phase
      BY <2>1, <2>2, PhaseSame DEF Taken, Ending
    <3> QED
      BY <2>1, <3>1 DEF CycleStep, Cycle!vars
  <2>3. CASE state[s] = "pending" /\ state'[s] = "connected"
    <3>1. io[s] = {} /\ up[s]
      BY <2>1, <2>3 DEF Round, Alone, Fresh, AcceptPC, PostPC, Recv
    <3>2. ~Taken(s) /\ ~Ending(s) /\ ~Taken(s)' /\ ~Ending(s)'
      BY <2>1, <2>3 DEF Taken, Ending, New, Disc, DiscUser
    <3>3. phase[s] = "pending" /\ phase'[s] = "connected"
      BY <2>1, <2>3, <3>2, PhaseIs, PhaseNext DEF Phased
    <3>4. phase' = [phase EXCEPT ![s] = "connected"]
      BY <2>1, <3>3, PhaseMoves DEF Taken, Ending
    <3>5. Cycle!Connect(s)
      BY <2>1, <3>1, <3>3, <3>4 DEF Cycle!Connect, Cycle!Moves
    <3> QED
      BY <2>1, <3>5 DEF CycleStep, Cycle!Next, Cycle!Step
  <2> QED
    BY <2>1, <2>2, <2>3
<1>3. CASE SendWelcome(t) \/ RegisterRecv(t) \/ OnSend(t)
  BY <1>3, RegisterIoCycles
<1>4. CASE Disconnect(t)
  <2> DEFINE s == cur[t]
  <2>1. /\ pc[t] = "disconnect" /\ s \in Slot /\ UNCHANGED <<io, up, cur, post>>
        /\ \/ state' = state /\ pc'[t] = "drop"
           \/ /\ state[s] \in {"pending", "connected"} /\ state'[s] = "disconnecting"
              /\ pc'[t] = "registerDisc"
        /\ \A u \in Thread \ {t} : pc'[u] = pc[u]
        /\ \A x \in Slot \ {s} : state'[x] = state[x]
    BY <1>4, Subject DEF Disconnect, TypeOK, HandlePC
  <2>2. CASE state' = state /\ pc'[t] = "drop"
    <3>1. phase' = phase
      BY <2>1, <2>2, PhaseSame DEF Taken, Ending
    <3> QED
      BY <2>1, <3>1 DEF CycleStep, Cycle!vars
  <2>3. CASE /\ state[s] \in {"pending", "connected"} /\ state'[s] = "disconnecting"
             /\ pc'[t] = "registerDisc"
    <3>1. state[s] = "pending" => io[s] = {}
      BY <2>1 DEF Round, Alone, Recv
    <3>2. ~Taken(s) /\ ~Ending(s) /\ ~Taken(s)' /\ Ending(s)'
      BY <2>1, <2>3 DEF Taken, Ending, New, Disc, DiscUser
    <3>3. phase[s] = state[s] /\ phase'[s] = "ending"
      BY <2>1, <2>3, <3>2, PhaseIs, PhaseNext DEF Phased
    <3>4. phase' = [phase EXCEPT ![s] = "ending"]
      BY <2>1, <2>3, <3>3, PhaseMoves DEF Taken, Ending
    <3>5. Cycle!Disconnect(s)
      BY <2>1, <2>3, <3>1, <3>3, <3>4 DEF Cycle!Disconnect, Cycle!Moves
    <3> QED
      BY <2>1, <3>5 DEF CycleStep, Cycle!Next, Cycle!Step
  <2> QED
    BY <2>1, <2>2, <2>3
<1>5. CASE RegisterDisconnect(t)
  <2> DEFINE s == cur[t]
  <2>1. /\ pc[t] = "registerDisc" /\ s \in Slot /\ UNCHANGED <<state, up, cur, post>>
        /\ pc'[t] = "drop"
        /\ (up[s] /\ PostIo(s, "disc")) \/ io' = io
        /\ \A u \in Thread \ {t} : pc'[u] = pc[u]
    BY <1>5, Subject DEF RegisterDisconnect, TypeOK, HandlePC
  <2>2. /\ state[s] = "disconnecting" /\ "disc" \notin io[s]
        /\ \A u \in Thread : cur[u] = s /\ pc[u] = "registerDisc" => u = t
    BY <2>1 DEF Disc, DiscUser
  <2>3. ~Taken(s) /\ Ending(s) /\ ~Taken(s)' /\ ~Ending(s)'
    BY <2>1, <2>2 DEF Taken, Ending, New
  <2>4. phase[s] = "ending" /\ phase'[s] = "disconnecting"
    BY <2>1, <2>2, <2>3, PhaseIs, PhaseNext DEF Phased
  <2>5. phase' = [phase EXCEPT ![s] = "disconnecting"]
    BY <2>1, <2>4, PhaseMoves DEF Taken, Ending
  <2>6. Cycle!PostDisconnect(s)
    BY <2>1, <2>2, <2>4, <2>5 DEF Cycle!PostDisconnect, Cycle!Moves, Cycle!Starts, PostIo
  <2> QED
    BY <2>1, <2>6 DEF CycleStep, Cycle!Next, Cycle!Step
<1>6. CASE TornGetSession(t)
  <2>1. UNCHANGED <<state, io, up, pc, cur, post>>
    BY <1>6 DEF TornGetSession, session, thread
  <2>2. phase' = phase
    BY <2>1, PhaseSame DEF Taken, Ending
  <2> QED
    BY <2>1, <2>2 DEF CycleStep, Cycle!vars
<1> QED
  BY <1>1, <1>2, <1>3, <1>4, <1>5, <1>6 DEF Handle

(* What is dequeued ends, the session stays where it is. *)
LEMMA DequeueCycles ==
  ASSUME IInv, IInv', Round, NEW t \in Thread, NEW s \in Slot, NEW k \in IoType,
         NEW failed \in BOOLEAN, Dequeue(t, s, k, failed)
  PROVE  CycleStep
<1> USE DEF IInv, At
<1>1. /\ pc[t] = "wait" /\ k \in io[s] /\ io' = [io EXCEPT ![s] = @ \ {k}]
      /\ up' = [up EXCEPT ![s] = CASE k = "accept" -> ~failed
                                   [] k = "disc" -> FALSE [] OTHER -> @]
      /\ state' = state /\ post' = post
      /\ pc'[t] \in {"wait", "dispatch", "accept"}
      /\ \A u \in Thread \ {t} : pc'[u] = pc[u] /\ cur'[u] = cur[u]
  BY DEF Dequeue, Goto, TypeOK, thread
<1>2. phase' = phase
  BY <1>1, PhaseSame DEF Taken, Ending
<1>3. ~Taken(s)
  BY <1>1 DEF New, Taken
<1>4. CASE k = "accept"
  <2>1. phase[s] = "pending"
    <3>1. state[s] = "pending" /\ ~Ending(s)
      BY <1>1, <1>4 DEF Recv, Ending
    <3> QED
      BY <1>3, <3>1, PhaseIs DEF Phased
  <2>2. up' = [up EXCEPT ![s] = ~failed]
    BY <1>1, <1>4
  <2>3. Cycle!Accept(s)
    BY <1>1, <1>2, <1>4, <2>1, <2>2 DEF Cycle!Accept, Cycle!Ends
  <2> QED
    BY <2>3 DEF CycleStep, Cycle!Next, Cycle!Step
<1>5. CASE k = "disc"
  <2>1. phase[s] = "disconnecting"
    <3>1. state[s] = "disconnecting" /\ ~Ending(s)
      BY <1>1, <1>5 DEF Disc, DiscUser, Ending
    <3> QED
      BY <1>3, <3>1, PhaseIs DEF Phased
  <2>2. up' = [up EXCEPT ![s] = FALSE]
    BY <1>1, <1>5
  <2>3. Cycle!Disconnected(s)
    BY <1>1, <1>2, <1>5, <2>1, <2>2 DEF Cycle!Disconnected, Cycle!Ends
  <2> QED
    BY <2>3 DEF CycleStep, Cycle!Next, Cycle!Step
<1>6. CASE k \in {"recv", "send"}
  <2>1. phase[s] \in {"connected", "ending", "disconnecting"}
    <3>1. state[s] \notin {"pending", "idle"}
      BY <1>1, <1>6 DEF Round, Alone, Life, IdleIsClean
    <3> QED
      BY <1>3, <3>1, PhaseIs DEF Phased, TypeOK, State
  <2>2. up' = up
    BY <1>1, <1>6 DEF TypeOK
  <2>3. Cycle!Transferred(s, k)
    BY <1>1, <1>2, <2>1, <2>2 DEF Cycle!Transferred, Cycle!Ends
  <2> QED
    BY <1>6, <2>3 DEF CycleStep, Cycle!Next, Cycle!Step
<1> QED
  BY <1>4, <1>5, <1>6 DEF IoType

LEMMA InitCycles == Init => Cycle!Init
<1> SUFFICES ASSUME Init PROVE Cycle!Init
  OBVIOUS
<1>1. phase = [s \in Slot |-> "idle"]
  BY DEF Init, phase
<1> QED
  BY <1>1 DEF Init, Cycle!Init

LEMMA NextCycles == IInv /\ IInv' /\ Round /\ [Next]_vars => CycleStep
<1> SUFFICES ASSUME IInv, IInv', Round, [Next]_vars PROVE CycleStep
  OBVIOUS
<1>1. CASE Next
  BY <1>1, PostAcceptCycles, HandleCycles, DequeueCycles DEF Next, Thread
<1>2. CASE UNCHANGED vars
  <2>1. UNCHANGED <<state, io, up, pc, cur, post>>
    BY <1>2 DEF vars, session, thread
  <2>2. phase' = phase
    BY <2>1, PhaseSame DEF Taken, Ending
  <2> QED
    BY <2>1, <2>2 DEF CycleStep, Cycle!vars
<1> QED
  BY <1>1, <1>2

(* Every session goes round the cycle of ConnectionCycle: whatever the threads *)
(* do at the same time, each step of theirs is one step of one session there,  *)
(* or none.                                                                    *)
THEOREM SessionsGoRound == Spec => GoesRoundTheCycle
<1>1. IInv /\ Round /\ IInv' /\ [Next]_vars => [Cycle!Next]_(Cycle!vars)
  BY NextCycles DEF CycleStep
<1> QED
  BY <1>1, InitCycles, RoundInvariance, PTL DEF Spec, GoesRoundTheCycle, Cycle!Spec
=============================================================================
