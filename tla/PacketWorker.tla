----------------------------- MODULE PacketWorker -----------------------------
(***************************************************************************)
(* The packet worker beside the IO workers of SessionLifecycle: OnRecv       *)
(* queues a task per packet, the one packet worker runs them and answers the *)
(* session, or broadcasts to the connected ones, through SendPacket.  A task *)
(* has the address of its session and no reference to it.                    *)
(*                                                                          *)
(* The clients are those of the repository's tests: who waits for an answer   *)
(* or a broadcast does not close before it is sent (Patience).  All that is   *)
(* said here, NobodyMuted first of all, is said of a server with such         *)
(* clients.  It is why SendPacket is one step: sendCs_ keeps OnSend and the   *)
(* other SendPacket away, and nothing else SendPacket reads changes while its *)
(* session is connected.                                                     *)
(* The ring, the queue and the unlocked listing are SendRing, TaskQueue and  *)
(* SparseSetScan.                                                            *)
(***************************************************************************)
EXTENDS SessionLifecycle, Sequences

CONSTANTS
  Packet,   \* the packet worker; it is in Worker for its ReleaseRefs only
  Kinds,    \* the requests clients send
  MaxTasks  \* longer queues are not told apart

ASSUME PacketAssumption ==
  /\ Packet \in Worker
  /\ MaxTasks \in Nat
  /\ Kinds \subseteq {"reply", "login", "logout", "chat"}

VARIABLES
  tasks,    \* taskQueue_: the session and the kind of each packet
  job,      \* the task the packet worker runs
  step,     \* where it is
  targets,  \* the sessions Broadcast still has to send to
  refused   \* the sessions for which a WSASend of the packet worker failed

packetVars == <<tasks, job, step, targets, refused>>
allVars == <<vars, packetVars>>

Io == Worker \ {Packet}
Task == [slot : Slot, kind : Kinds]
NoTask == [slot |-> NoSlot, kind |-> "none"]

PacketTypeOK ==
  /\ TypeOK
  /\ tasks \in Seq(Task)
  /\ job \in Task \cup {NoTask}
  /\ step \in {"pop", "find", "send", "list", "pick", "copied", "release"}
  /\ targets \subseteq Slot \ {job.slot}
  /\ refused \subseteq Slot

PacketInit ==
  /\ Init
  /\ tasks = <<>> /\ job = NoTask /\ step = "pop"
  /\ targets = {} /\ refused = {}

-----------------------------------------------------------------------------
ChatUnderWay == step = "list" \/ \E i \in DOMAIN tasks : tasks[i].kind = "chat"

(* The sessions whose clients wait: for their own request to be answered or,  *)
(* if it is a chat, to be on its way; for somebody's chat to reach them.  A   *)
(* logout is answered before its session is looked up, and a broadcast has    *)
(* reached its client before the packet worker drops the copy it sent with.   *)
Owed ==
  {tasks[i].slot : i \in DOMAIN tasks}
    \cup {s \in {job.slot} : step \in {"send", "list"}}
    \cup {s \in {job.slot} : step = "find" /\ job.kind = "login"}
    \cup {s \in Slot : state[s] = "connected" /\ ChatUnderWay}
    \cup targets
    \cup {s \in {cur[Packet]} : step = "copied"}

(* Who waits does not close, and no socket of theirs fails.                   *)
Patience ==
  /\ \A s \in Owed : state[s] = "connected"
  /\ \A t \in Thread : pc[t] = "disconnect" => cur[t] \notin Owed

(* The threads of SessionLifecycle. *)
AcceptStep(t) == PostAccept(t) /\ UNCHANGED packetVars

HandleStep(t) ==
  /\ Handle(t)
  /\ UNCHANGED packetVars
  /\ Patience'

DequeueStep(t) ==
  /\ \E s \in Slot, k \in IoType, failed \in BOOLEAN : Dequeue(t, s, k, failed)
  /\ refused' = {s \in refused : up[s] \/ ~up'[s]}  \* forgotten with its client
  /\ UNCHANGED <<tasks, job, step, targets>>

(* One packet of a receive becomes a task; Dispatch ends the loop, and a bad  *)
(* packet behind the good ones ends the connection.                           *)
OnRecv(t) ==
  /\ At(t, "dispatch")
  /\ done[t] = [io |-> "recv", failed |-> FALSE]
  /\ Len(tasks) < MaxTasks
  /\ \E k \in Kinds : tasks' = Append(tasks, [slot |-> cur[t], kind |-> k])
  /\ UNCHANGED <<vars, job, step, targets, refused>>
  /\ Patience'

-----------------------------------------------------------------------------
(* PacketHandler::WorkerThreadFunc and the handlers *)

Running(here) == step = here /\ At(Packet, "wait")

Go(next) == step' = next
Finish == job' = NoTask /\ Go("pop")

PopTask ==
  /\ Running("pop")
  /\ tasks # <<>>
  /\ job' = Head(tasks)
  /\ tasks' = Tail(tasks)
  /\ Go(CASE job'.kind = "login" -> "find"
          [] job'.kind = "chat" -> "list"
          [] OTHER -> "send")
  /\ UNCHANGED <<vars, targets, refused>>

(* LogInSession before the answer, LogOutSession after it.  They follow the   *)
(* table entry: a null one, or one that Reset has cleared by half.            *)
FindSession ==
  /\ Running("find")
  /\ crashed' \in CASE table[job.slot] = "set" -> {FALSE}
                     [] table[job.slot] = "released" -> BOOLEAN
                     [] OTHER -> {TRUE}
  /\ IF job.kind = "login" THEN Go("send") /\ UNCHANGED job ELSE Finish
  /\ UNCHANGED <<session, pendingAccepts, thread, tasks, targets, refused>>

(* mutant: the send is posted whether or not one is out. *)
SendPacketAlways(s) ==
  /\ sending' = [sending EXCEPT ![s] = TRUE]
  /\ IF up[s]
     THEN GetSessionInto(s, "send") /\ PostIo(s, "send") /\ UNCHANGED refused
     ELSE refused' = refused \cup {s} /\ UNCHANGED <<refs, ovPtr, io>>

(* mutant: isSending_ is raised and nothing is posted. *)
SendPacketForgets(s) ==
  /\ sending' = [sending EXCEPT ![s] = TRUE]
  /\ UNCHANGED <<refs, ovPtr, io, refused>>

(* A failed RegisterSend leaves isSending_ set, and no handler disconnects.   *)
SendPacket(s) ==
  /\ sending' = [sending EXCEPT ![s] = TRUE]
  /\ \/ /\ sending[s]
        /\ UNCHANGED <<refs, ovPtr, io, refused>>
     \/ /\ ~sending[s] /\ up[s]
        /\ GetSessionInto(s, "send")
        /\ PostIo(s, "send")
        /\ UNCHANGED refused
     \/ /\ ~sending[s] /\ (~up[s] \/ "sendPost" \in Faults)
        /\ refused' = refused \cup {s}
        /\ UNCHANGED <<refs, ovPtr, io>>

(* What SendPacket leaves alone. *)
Untouched == UNCHANGED <<state, table, listener, up, pendingAccepts, thread, crashed>>

Answer ==
  /\ Running("send")
  /\ SendPacket(job.slot)
  /\ IF job.kind = "logout" THEN Go("find") /\ UNCHANGED job ELSE Finish
  /\ Untouched
  /\ UNCHANGED <<tasks, targets>>

(* Broadcast *)
List ==
  /\ Running("list")
  /\ targets' = {s \in Slot : state[s] = "connected"} \ {job.slot}
  /\ Go("pick")
  /\ UNCHANGED <<vars, tasks, job, refused>>

BroadcastEnds ==
  /\ Running("pick")
  /\ targets = {}
  /\ Finish
  /\ UNCHANGED <<vars, tasks, targets, refused>>

(* mutant: the copy of the table entry is not counted. *)
PickWithoutAddRef(s) ==
  /\ Running("pick")
  /\ s \in targets
  /\ targets' = targets \ {s}
  /\ cur' = [cur EXCEPT ![Packet] = s]
  /\ Goto(Packet, "drop")
  /\ Go("copied")
  /\ UNCHANGED <<session, pendingAccepts, done, post, frames, then, crashed,
                 tasks, job, refused>>

(* SendToSession: the table entry is copied ... *)
Pick(s) ==
  /\ Running("pick")
  /\ s \in targets
  /\ targets' = targets \ {s}
  /\ refs' = [refs EXCEPT ![s] = @ + 1]
  /\ cur' = [cur EXCEPT ![Packet] = s]
  /\ Goto(Packet, "drop")
  /\ Go("copied")
  /\ UNCHANGED <<state, table, ovPtr, io, listener, sending, up, pendingAccepts,
                 done, post, frames, then, crashed, tasks, job, refused>>

SendToTarget ==
  /\ step = "copied" /\ At(Packet, "drop")
  /\ SendPacket(cur[Packet])
  /\ Go("release")
  /\ Untouched
  /\ UNCHANGED <<tasks, job, targets>>

(* ... and dropped. *)
DropTarget ==
  /\ step = "release" /\ Drop(Packet)
  /\ Go("pick")
  /\ UNCHANGED <<tasks, job, targets, refused>>

PacketNext ==
  \/ \E t \in Thread : AcceptStep(t)
  \/ \E t \in Io : HandleStep(t) \/ DequeueStep(t) \/ OnRecv(t)
  \/ PopTask \/ FindSession \/ Answer
  \/ List \/ (\E s \in Slot : Pick(s)) \/ SendToTarget \/ DropTarget \/ BroadcastEnds

PacketSpec == PacketInit /\ [][PacketNext]_allVars

-----------------------------------------------------------------------------
(* The refusal of a send is the only way to fall silent: what a connected     *)
(* session appended is out, or a worker is about to see to it.  Answers,      *)
(* broadcasts, the welcome and OnSend all leave it to each other to post.     *)
NobodyMuted ==
  \A s \in Slot \ refused :
    state[s] = "connected" /\ sending[s] =>
      \/ "send" \in io[s]
      \/ \E t \in Io : cur[t] = s /\ \/ pc[t] = "disconnect"
                                     \/ done[t].io = "send" /\ pc[t] \in {"dispatch", "onSend"}
      \/ crashed

(* The tests count on a server that stays up while clients come and go: what  *)
(* LogInSession and LogOutSession follow is there when they follow it.        *)
LookUpFindsSession == step = "find" /\ ~crashed => table[job.slot] = "set"

(* It is not for a logout whose client closes on the answer.  Beside the two  *)
(* races of the IO workers that is the one way to crash: no answer, login,    *)
(* broadcast or drop of a copy adds another.                                  *)
CrashesOnlyInRacesOrLogOut ==
  [][crashed' /\ ~crashed =>
       InRace \/ (FindSession /\ job.kind = "logout" /\ table[job.slot] # "set")]_allVars
=============================================================================
