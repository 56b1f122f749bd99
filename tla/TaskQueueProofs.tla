-------------------------- MODULE TaskQueueProofs --------------------------
(***************************************************************************)
(* The task queue for any number of workers and tasks: no task is stranded   *)
(* and every task is started once and in order.                              *)
(***************************************************************************)
EXTENDS TaskQueue, FiniteSetTheorems, SequenceTheorems, TLAPS

(* mutex_ has one holder; what the holder saw under it still holds.           *)
Locked ==
  /\ \A v, w \in Worker : Holding(v) /\ Holding(w) => v = w
  /\ \A w \in Worker : pc[w] = "sleep" => tasks_ = <<>>
  /\ \A w \in Worker : pc[w] = "take" => tasks_ # <<>> \/ isShuttingDown_
  /\ \A w \in Worker : pc[w] = "exit" => isShuttingDown_
  /\ main # "up" => isShuttingDown_

(* The queue is an interval of the pushes, and what came before is started.   *)
Interval ==
  /\ Len(tasks_) <= pushed
  /\ \A i \in 1 .. Len(tasks_) : tasks_[i] = pushed - Len(tasks_) + i
  /\ started = 1 .. pushed - Len(tasks_)

IInv == TypeOK /\ Locked /\ Interval /\ NoStrandedTask

LEMMA InitIInv == Init => IInv
<1> SUFFICES ASSUME Init PROVE IInv
  OBVIOUS
<1>1. TypeOK
  <2>1. tasks_ \in Seq(1 .. MaxTasks)
    BY DEF Init
  <2>2. pc \in [Worker -> Place] /\ main \in Stage
    BY DEF Init, Place, Stage
  <2>3. pushed \in 0 .. MaxTasks
    BY TaskQueueAssumption DEF Init
  <2>4. started \subseteq 1 .. MaxTasks /\ isShuttingDown_ \in BOOLEAN
    BY DEF Init
  <2> QED BY <2>1, <2>2, <2>3, <2>4 DEF TypeOK
<1>2. Locked BY DEF Init, Locked, Holding
<1>3. Interval BY DEF Init, Interval
<1>4. NoStrandedTask BY DEF Init, NoStrandedTask
<1> QED BY <1>1, <1>2, <1>3, <1>4 DEF IInv

LEMMA PushIInv == ASSUME IInv, Push PROVE IInv'
<1>0. /\ main = "up" /\ pushed \in Nat /\ pushed < MaxTasks /\ MaxTasks \in Nat
      /\ tasks_ \in Seq(1 .. MaxTasks) /\ Len(tasks_) \in Nat
      /\ pushed' = pushed + 1 /\ tasks_' = Append(tasks_, pushed + 1)
      /\ UNCHANGED <<isShuttingDown_, started, main>>
  <2>1. pushed \in Nat /\ tasks_ \in Seq(1 .. MaxTasks)
    BY TaskQueueAssumption DEF IInv, TypeOK
  <2> QED BY <2>1, TaskQueueAssumption, LenProperties DEF Push
<1>1. /\ Len(tasks_') = Len(tasks_) + 1
      /\ tasks_'[Len(tasks_) + 1] = pushed + 1
      /\ \A i \in 1 .. Len(tasks_) : tasks_'[i] = tasks_[i]
      /\ tasks_' \in Seq(1 .. MaxTasks) /\ tasks_' # <<>>
  <2>1. pushed + 1 \in 1 .. MaxTasks
    BY <1>0
  <2> QED BY <1>0, <2>1, AppendProperties
<1>2. \A w \in Worker : pc[w] \notin {"take", "sleep"}
  BY DEF Push, MutexFree, Holding
<1>3. \A w \in Worker : pc'[w] = pc[w] \/ pc'[w] = "enter"
  BY DEF Push, Goto, Waiting, IInv, TypeOK
<1>4. pc' \in [Worker -> Place]
  BY DEF Push, Goto, Waiting, IInv, TypeOK, Place
<1>5. TypeOK'
  BY <1>0, <1>1, <1>4 DEF IInv, TypeOK
<1>6. Locked'
  BY <1>0, <1>2, <1>3 DEF IInv, Locked, Holding
<1>7. Interval'
  <2>1. ASSUME NEW i \in 1 .. Len(tasks_')
        PROVE  tasks_'[i] = pushed' - Len(tasks_') + i
    <3>1. CASE i = Len(tasks_) + 1
      BY <1>0, <1>1, <3>1
    <3>2. CASE i \in 1 .. Len(tasks_)
      <4>1. tasks_[i] = pushed - Len(tasks_) + i
        BY <3>2 DEF IInv, Interval
      <4> QED BY <1>0, <1>1, <3>2, <4>1
    <3> QED BY <1>0, <1>1, <3>1, <3>2
  <2>2. pushed' - Len(tasks_') = pushed - Len(tasks_) /\ Len(tasks_') <= pushed'
    BY <1>0, <1>1 DEF IInv, Interval
  <2>3. started' = 1 .. pushed' - Len(tasks_')
    BY <1>0, <2>2 DEF IInv, Interval
  <2> QED BY <1>0, <2>1, <2>2, <2>3 DEF Interval
<1>8. NoStrandedTask'
  <2> SUFFICES ASSUME ~isShuttingDown_
               PROVE  \E w \in Worker : pc'[w] \in {"enter", "take", "run"}
    BY <1>0 DEF NoStrandedTask
  <2>1. CASE Waiting = {}
    <3>1. PICK w \in Worker : TRUE
      BY TaskQueueAssumption
    <3>2. pc[w] \in {"enter", "run"}
      BY <1>2, <2>1 DEF Waiting, IInv, TypeOK, Place, Locked
    <3> QED BY <3>2, <2>1 DEF Push
  <2>2. CASE Waiting # {}
    <3>1. PICK w \in Waiting : Goto(w, "enter")
      BY <2>2 DEF Push
    <3>2. pc'[w] = "enter" /\ w \in Worker
      BY <3>1 DEF Goto, Waiting, IInv, TypeOK
    <3> QED BY <3>2
  <2> QED BY <2>1, <2>2
<1> QED BY <1>5, <1>6, <1>7, <1>8 DEF IInv

LEMMA TestIInv == ASSUME IInv, NEW w \in Worker, Test(w) PROVE IInv'
<1>1. /\ pc[w] = "enter" /\ \A v \in Worker : ~Holding(v)
      /\ pc' = [pc EXCEPT ![w] = IF tasks_ # <<>> \/ isShuttingDown_ THEN "take" ELSE "sleep"]
      /\ UNCHANGED <<tasks_, isShuttingDown_, pushed, started, main>>
  BY DEF Test, MutexFree, Goto
<1>2. TypeOK'
  BY <1>1 DEF IInv, TypeOK, Place
<1>3. Locked'
  BY <1>1 DEF IInv, TypeOK, Locked, Holding
<1>4. Interval'
  BY <1>1 DEF IInv, Interval
<1>5. NoStrandedTask'
  BY <1>1 DEF IInv, TypeOK, NoStrandedTask
<1> QED BY <1>2, <1>3, <1>4, <1>5 DEF IInv

LEMMA SleepIInv == ASSUME IInv, NEW w \in Worker, Sleep(w) PROVE IInv'
<1>1. /\ pc[w] = "sleep" /\ pc' = [pc EXCEPT ![w] = "waiting"]
      /\ UNCHANGED <<tasks_, isShuttingDown_, pushed, started, main>>
  BY DEF Sleep, Goto
<1>2. TypeOK'
  BY <1>1 DEF IInv, TypeOK, Place
<1>3. Locked'
  BY <1>1 DEF IInv, TypeOK, Locked, Holding
<1>4. Interval'
  BY <1>1 DEF IInv, Interval
<1>5. NoStrandedTask'
  BY <1>1 DEF IInv, TypeOK, Locked, NoStrandedTask
<1> QED BY <1>2, <1>3, <1>4, <1>5 DEF IInv

(* A worker that has no mutex_ and goes back to its loop. *)
LEMMA EnterIInv ==
  ASSUME IInv, NEW w \in Worker, pc[w] \in {"waiting", "run"}, Goto(w, "enter"),
         UNCHANGED <<tasks_, isShuttingDown_, pushed, started, main>>
  PROVE  IInv'
<1>1. pc' = [pc EXCEPT ![w] = "enter"]
  BY DEF Goto
<1>2. TypeOK'
  BY <1>1 DEF IInv, TypeOK, Place
<1>3. Locked'
  BY <1>1 DEF IInv, TypeOK, Locked, Holding
<1>4. Interval'
  BY DEF IInv, Interval
<1>5. NoStrandedTask'
  BY <1>1 DEF IInv, TypeOK, NoStrandedTask
<1> QED BY <1>2, <1>3, <1>4, <1>5 DEF IInv

LEMMA TakeIInv == ASSUME IInv, NEW w \in Worker, Take(w) PROVE IInv'
<1>1. /\ pc[w] = "take" /\ UNCHANGED <<isShuttingDown_, pushed, main>>
      /\ pc \in [Worker -> Place]
  BY DEF Take, IInv, TypeOK
<1>2. CASE isShuttingDown_
  <2>1. pc' = [pc EXCEPT ![w] = "exit"] /\ UNCHANGED <<tasks_, started>>
    BY <1>2 DEF Take, Goto
  <2>2. TypeOK'
    BY <1>1, <2>1 DEF IInv, TypeOK, Place
  <2>3. Locked'
    BY <1>1, <1>2, <2>1 DEF IInv, Locked, Holding
  <2>4. Interval'
    BY <1>1, <2>1 DEF IInv, Interval
  <2>5. NoStrandedTask'
    BY <1>1, <1>2 DEF NoStrandedTask
  <2> QED BY <2>2, <2>3, <2>4, <2>5 DEF IInv
<1>3. CASE ~isShuttingDown_
  <2>1. /\ pc' = [pc EXCEPT ![w] = "run"]
        /\ started' = started \cup {Head(tasks_)} /\ tasks_' = Tail(tasks_)
        /\ main = "up" /\ tasks_ # <<>>
    BY <1>1, <1>3 DEF Take, Goto, IInv, Locked
  <2>2. /\ tasks_ \in Seq(1 .. MaxTasks) /\ Len(tasks_) \in Nat /\ Len(tasks_) > 0
        /\ pushed \in Nat /\ Len(tasks_) <= pushed
        /\ started = 1 .. pushed - Len(tasks_)
    <3>1. tasks_ \in Seq(1 .. MaxTasks) /\ pushed \in Nat
      BY TaskQueueAssumption DEF IInv, TypeOK
    <3>2. Len(tasks_) \in Nat /\ Len(tasks_) > 0
      BY <2>1, <3>1, EmptySeq, LenProperties
    <3> QED BY <2>1, <3>1, <3>2 DEF IInv, Interval
  <2>3. /\ tasks_' \in Seq(1 .. MaxTasks) /\ Len(tasks_') = Len(tasks_) - 1
        /\ Head(tasks_) = tasks_[1]
        /\ \A i \in 1 .. Len(tasks_') : tasks_'[i] = tasks_[i + 1]
    BY <2>1, <2>2, HeadTailProperties
  <2>4. Head(tasks_) = pushed - Len(tasks_) + 1 /\ Head(tasks_) \in 1 .. MaxTasks
    <3>1. 1 \in 1 .. Len(tasks_)
      BY <2>2
    <3>2. tasks_[1] = pushed - Len(tasks_) + 1
      BY <3>1 DEF IInv, Interval
    <3>3. tasks_[1] \in 1 .. MaxTasks
      BY <2>2, <3>1, ElementOfSeq
    <3> QED BY <2>3, <3>2, <3>3
  <2>5. TypeOK'
    <3>1. started' \subseteq 1 .. MaxTasks
      BY <2>1, <2>4 DEF IInv, TypeOK
    <3>2. pc' \in [Worker -> Place]
      BY <1>1, <2>1 DEF Place
    <3> QED BY <1>1, <2>3, <3>1, <3>2 DEF IInv, TypeOK
  <2>6. Locked'
    <3>1. \A v \in Worker : Holding(v) => v = w
      BY <1>1 DEF IInv, Locked, Holding
    <3>2. \A v \in Worker : pc'[v] \notin {"take", "sleep"} /\ (pc'[v] = "exit" => pc[v] = "exit")
      BY <1>1, <2>1, <3>1 DEF Holding
    <3> QED BY <1>1, <3>2 DEF IInv, Locked, Holding
  <2>7. Interval'
    <3>1. pushed' - Len(tasks_') = pushed - Len(tasks_) + 1 /\ Len(tasks_') <= pushed'
      BY <1>1, <2>2, <2>3
    <3>2. started' = 1 .. pushed - Len(tasks_) + 1
      BY <2>1, <2>2, <2>4
    <3>3. ASSUME NEW i \in 1 .. Len(tasks_')
          PROVE  tasks_'[i] = pushed' - Len(tasks_') + i
      <4>1. i + 1 \in 1 .. Len(tasks_) /\ i \in Nat
        BY <2>2, <2>3
      <4>2. tasks_[i + 1] = pushed - Len(tasks_) + (i + 1)
        BY <4>1 DEF IInv, Interval
      <4> QED BY <2>2, <2>3, <3>1, <4>1, <4>2
    <3> QED BY <1>1, <2>1, <3>1, <3>2, <3>3 DEF Interval
  <2>8. NoStrandedTask'
    <3>1. pc'[w] = "run"
      BY <1>1, <2>1
    <3> QED BY <3>1 DEF NoStrandedTask
  <2> QED BY <2>5, <2>6, <2>7, <2>8 DEF IInv
<1> QED BY <1>2, <1>3

(* The steps of the thread that shuts down. *)
LEMMA MainIInv == ASSUME IInv, SetFlag \/ MainStep PROVE IInv'
<1>1. /\ \A w \in Worker : pc'[w] = pc[w] \/ pc'[w] = "enter"
      /\ pc' \in [Worker -> Place] /\ main' \in Stage /\ isShuttingDown_' = TRUE
      /\ UNCHANGED <<tasks_, pushed, started>>
  BY DEF SetFlag, MainStep, NotifyAll, Join, IInv, TypeOK, Locked, Stage, Place
<1>2. TypeOK'
  BY <1>1 DEF IInv, TypeOK
<1>3. Locked'
  BY <1>1 DEF IInv, Locked, Holding
<1>4. Interval'
  BY <1>1 DEF IInv, Interval
<1>5. NoStrandedTask'
  BY <1>1 DEF NoStrandedTask
<1> QED BY <1>2, <1>3, <1>4, <1>5 DEF IInv

LEMMA NextIInv == IInv /\ [Next]_vars => IInv'
<1> SUFFICES ASSUME IInv, [Next]_vars PROVE IInv'
  OBVIOUS
<1>1. CASE Push
  BY <1>1, PushIInv
<1>2. CASE SetFlag \/ MainStep
  BY <1>2, MainIInv
<1>3. ASSUME NEW w \in Worker, WorkerStep(w) \/ WakeSpuriously(w) PROVE IInv'
  <2>1. CASE Test(w) BY <2>1, TestIInv
  <2>2. CASE Sleep(w) BY <2>2, SleepIInv
  <2>3. CASE Take(w) BY <2>3, TakeIInv
  <2>4. CASE Run(w) \/ WakeSpuriously(w) BY <2>4, EnterIInv DEF Run, WakeSpuriously
  <2> QED BY <1>3, <2>1, <2>2, <2>3, <2>4 DEF WorkerStep
<1>4. CASE UNCHANGED vars
  BY <1>4 DEF vars, IInv, TypeOK, Locked, Holding, Interval, NoStrandedTask
<1> QED BY <1>1, <1>2, <1>3, <1>4 DEF Next

(* The inductive invariant, from which the others follow. *)
THEOREM Invariant == Spec => []IInv
BY InitIInv, NextIInv, PTL DEF Spec

-----------------------------------------------------------------------------
(* TypeOK: TaskQueue::Pop takes no task from an empty queue.                  *)
THEOREM TypeCorrect == Spec => []TypeOK
BY Invariant, PTL DEF IInv

(* NoStrandedTask: Push under mutex_ never leaves a task to sleeping workers. *)
THEOREM NoTaskStranded == Spec => []NoStrandedTask
BY Invariant, PTL DEF IInv

(* EachOnceInOrder: every pushed task is queued or started, once, in order.   *)
THEOREM OnceInOrder == Spec => []EachOnceInOrder
<1>1. IInv => EachOnceInOrder
  <2> SUFFICES ASSUME IInv PROVE EachOnceInOrder
    OBVIOUS
  <2> DEFINE n == pushed - Len(tasks_)
  <2>1. /\ pushed \in Nat /\ Len(tasks_) \in Nat /\ n \in Nat
        /\ n + Len(tasks_) = pushed
        /\ \A i \in 1 .. Len(tasks_) : tasks_[i] = n + i
    <3>1. pushed \in Nat /\ tasks_ \in Seq(1 .. MaxTasks)
      BY TaskQueueAssumption DEF IInv, TypeOK
    <3>2. Len(tasks_) \in Nat /\ Len(tasks_) <= pushed
      BY <3>1, LenProperties DEF IInv, Interval
    <3> QED BY <3>1, <3>2 DEF IInv, Interval
  <2>2. started = 1 .. n
    BY DEF IInv, Interval
  <2> HIDE DEF n
  <2>4. \A i, j \in 1 .. Len(tasks_) : i < j => tasks_[i] < tasks_[j]
    BY <2>1
  <2>5. \A k \in started, i \in 1 .. Len(tasks_) : k < tasks_[i]
    BY <2>1, <2>2
  <2>6. Cardinality(started) + Len(tasks_) = pushed
    <3>1. Cardinality(1 .. n) = n
      BY <2>1, FS_Interval
    <3> QED BY <2>1, <2>2, <3>1
  <2> QED BY <2>4, <2>5, <2>6 DEF EachOnceInOrder
<1> QED BY <1>1, Invariant, PTL
=============================================================================
