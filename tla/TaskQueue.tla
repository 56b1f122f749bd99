----------------------------- MODULE TaskQueue -----------------------------
(***************************************************************************)
(* TaskQueue and the threads around it: the packet workers of PacketHandler  *)
(* that Pop, the IO workers that Push, and the thread that destroys the      *)
(* PacketHandler.  A worker tests its predicate and goes to sleep under      *)
(* mutex_; going to sleep releases it in the same step.  Shutdown sets the   *)
(* flag and notifies without mutex_.                                         *)
(***************************************************************************)
EXTENDS Sequences, Integers, FiniteSets

CONSTANTS
  Worker,   \* workerThreads_
  MaxTasks  \* bound: the tasks that are pushed

ASSUME TaskQueueAssumption == Worker # {} /\ MaxTasks \in Nat

VARIABLES
  tasks_,           \* the tasks, by the number of their Push
  isShuttingDown_,
  pushed,           \* how many tasks were pushed
  started,          \* the tasks that were run
  pc,               \* where a worker is
  main              \* where the thread is that destroys the PacketHandler

vars == <<tasks_, isShuttingDown_, pushed, started, pc, main>>

(* A worker wants mutex_ ("enter"), has seen a true predicate ("take") or a    *)
(* false one ("sleep"), waits on cv_, runs a task or has left its loop.        *)
Place == {"enter", "take", "sleep", "waiting", "run", "exit"}

Stage == {"up", "flagged", "joining", "joined"}

TypeOK ==
  /\ tasks_ \in Seq(1 .. MaxTasks)
  /\ isShuttingDown_ \in BOOLEAN
  /\ pushed \in 0 .. MaxTasks
  /\ started \subseteq 1 .. MaxTasks
  /\ pc \in [Worker -> Place]
  /\ main \in Stage

Init ==
  /\ tasks_ = <<>>
  /\ isShuttingDown_ = FALSE
  /\ pushed = 0
  /\ started = {}
  /\ pc = [w \in Worker |-> "enter"]
  /\ main = "up"

Holding(w) == pc[w] \in {"take", "sleep"}
MutexFree == \A w \in Worker : ~Holding(w)
Waiting == {w \in Worker : pc[w] = "waiting"}

Goto(w, place) == pc' = [pc EXCEPT ![w] = place]

(* mutant: no worker is told. *)
PushSilently ==
  /\ main = "up" /\ pushed < MaxTasks
  /\ MutexFree
  /\ pushed' = pushed + 1
  /\ tasks_' = Append(tasks_, pushed + 1)
  /\ UNCHANGED <<isShuttingDown_, started, pc, main>>

(* An IO worker pushes a task and notifies one worker.  The IO workers have    *)
(* ended before the PacketHandler is destroyed.                                *)
Push ==
  /\ main = "up" /\ pushed < MaxTasks
  /\ MutexFree
  /\ pushed' = pushed + 1
  /\ tasks_' = Append(tasks_, pushed + 1)
  /\ IF Waiting = {} THEN UNCHANGED pc ELSE \E w \in Waiting : Goto(w, "enter")
  /\ UNCHANGED <<isShuttingDown_, started, main>>

(* The worker locks mutex_ and evaluates the predicate.                        *)
Test(w) ==
  /\ pc[w] = "enter"
  /\ MutexFree
  /\ Goto(w, IF tasks_ # <<>> \/ isShuttingDown_ THEN "take" ELSE "sleep")
  /\ UNCHANGED <<tasks_, isShuttingDown_, pushed, started, main>>

(* It starts to wait and releases mutex_.                                      *)
Sleep(w) ==
  /\ pc[w] = "sleep"
  /\ Goto(w, "waiting")
  /\ UNCHANGED <<tasks_, isShuttingDown_, pushed, started, main>>

(* cv_ may wake a worker for no reason.                                        *)
WakeSpuriously(w) ==
  /\ pc[w] = "waiting"
  /\ Goto(w, "enter")
  /\ UNCHANGED <<tasks_, isShuttingDown_, pushed, started, main>>

(* mutant: a task is left in the queue when it is taken. *)
TakeCopy(w) ==
  /\ pc[w] = "take"
  /\ IF isShuttingDown_
     THEN Goto(w, "exit") /\ UNCHANGED <<tasks_, started>>
     ELSE /\ Goto(w, "run")
          /\ started' = started \cup {Head(tasks_)}
          /\ UNCHANGED tasks_
  /\ UNCHANGED <<isShuttingDown_, pushed, main>>

(* The flag is read again: the worker leaves, or takes the first task.         *)
Take(w) ==
  /\ pc[w] = "take"
  /\ IF isShuttingDown_
     THEN Goto(w, "exit") /\ UNCHANGED <<tasks_, started>>
     ELSE /\ Goto(w, "run")
          /\ started' = started \cup {Head(tasks_)}
          /\ tasks_' = Tail(tasks_)
  /\ UNCHANGED <<isShuttingDown_, pushed, main>>

Run(w) ==
  /\ pc[w] = "run"
  /\ Goto(w, "enter")
  /\ UNCHANGED <<tasks_, isShuttingDown_, pushed, started, main>>

(* PacketHandler::~PacketHandler: Shutdown's store, its notify_all, the joins. *)
SetFlag ==
  /\ main = "up"
  /\ main' = "flagged"
  /\ isShuttingDown_' = TRUE
  /\ UNCHANGED <<tasks_, pushed, started, pc>>

(* mutant: one worker is notified. *)
NotifyOne ==
  /\ main = "flagged"
  /\ main' = "joining"
  /\ IF Waiting = {} THEN UNCHANGED pc ELSE \E w \in Waiting : Goto(w, "enter")
  /\ UNCHANGED <<tasks_, isShuttingDown_, pushed, started>>

NotifyAll ==
  /\ main = "flagged"
  /\ main' = "joining"
  /\ pc' = [w \in Worker |-> IF w \in Waiting THEN "enter" ELSE pc[w]]
  /\ UNCHANGED <<tasks_, isShuttingDown_, pushed, started>>

Join ==
  /\ main = "joining"
  /\ \A w \in Worker : pc[w] = "exit"
  /\ main' = "joined"
  /\ UNCHANGED <<tasks_, isShuttingDown_, pushed, started, pc>>

WorkerStep(w) == Test(w) \/ Sleep(w) \/ Take(w) \/ Run(w)
MainStep == NotifyAll \/ Join

Next ==
  \/ Push
  \/ SetFlag
  \/ MainStep
  \/ \E w \in Worker : WorkerStep(w) \/ WakeSpuriously(w)

Spec == Init /\ [][Next]_vars

(* Threads are scheduled; a thread that wants mutex_ gets it in the end.       *)
FairSpec ==
  /\ Spec
  /\ WF_vars(MainStep)
  /\ \A w \in Worker : SF_vars(Test(w)) /\ WF_vars(Sleep(w) \/ Take(w) \/ Run(w))

-----------------------------------------------------------------------------
(* mutex_ keeps a worker from going to sleep on a task: while there are tasks  *)
(* and no shutdown, not every worker sleeps, or is about to.                   *)
NoStrandedTask ==
  tasks_ # <<>> /\ ~isShuttingDown_ => \E w \in Worker : pc[w] \in {"enter", "take", "run"}

(* A task is started or queued, and not both; the queue is in the order of     *)
(* the pushes, and what is started came before what is queued.                 *)
EachOnceInOrder ==
  /\ \A i, j \in 1 .. Len(tasks_) : i < j => tasks_[i] < tasks_[j]
  /\ \A n \in started, i \in 1 .. Len(tasks_) : n < tasks_[i]
  /\ Cardinality(started) + Len(tasks_) = pushed

(* A pushed task is run, unless the server shuts down.                         *)
TasksRun == \A n \in 1 .. MaxTasks : (pushed >= n) ~> (n \in started \/ isShuttingDown_)

(* The destructor returns, if no worker is about to sleep when the flag is     *)
(* set: the others are notified or see it.                                     *)
ShutdownEndsIfSeen ==
  (main = "flagged" /\ \A w \in Worker : pc[w] # "sleep") ~> main = "joined"

(* Not so: the destructor of PacketHandler returns.                            *)
ShutdownEnds == (main = "flagged") ~> (main = "joined")
=============================================================================
