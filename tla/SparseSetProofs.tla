--------------------------- MODULE SparseSetProofs ---------------------------
(***************************************************************************)
(* For every N, StateCount and GenMod the arrays of SparseSet stay           *)
(* consistent.  TypeOK alone is not inductive: that a swap stays inside the  *)
(* arrays needs the cursors to bound the block of the moved slot, which is   *)
(* Partitioned, and that Partitioned survives the swap needs Inverse.        *)
(* On that invariant rest StaysExclusive (a slot popped for exclusive use is *)
(* not found again), ListingIsExact (the indices listed for a state are the  *)
(* slots in it) and Refines (the arrays implement StatePartition).           *)
(***************************************************************************)
EXTENDS SparseSet, TLAPS

(* The inductive invariant: the structural invariants together. *)
IInv == TypeOK /\ Inverse /\ Partitioned

(* The initial arrays are consistent. *)
LEMMA InitIInv == Init => IInv
<1> SUFFICES ASSUME Init PROVE IInv
  OBVIOUS
<1> USE SparseSetAssumption DEF Who, States, Generation, Handle
<1>1. TypeOK
  BY DEF Init, TypeOK, NoOp, Kind, kInvalidHandle
<1>2. Inverse
  BY DEF Init, Inverse
<1>3. Partitioned
  BY DEF Init, Partitioned
<1> QED
  BY <1>1, <1>2, <1>3 DEF IInv

(* Exchanging two positions of dense_ keeps dense_ and where_ inverse. *)
LEMMA ExchangeInverse ==
  ASSUME TypeOK, Inverse, NEW i \in Who, NEW j \in Who, Exchange(i, j)
  PROVE  /\ dense_' \in [Who -> Who]
         /\ where_' \in [Who -> Who]
         /\ Inverse'
         /\ where_'[dense_[i]] = j
         /\ where_'[dense_[j]] = i
         /\ \A w \in Who : w # dense_[i] /\ w # dense_[j] => where_'[w] = where_[w]
BY DEF TypeOK, Inverse, Exchange

(* A position of dense_ lies in the block of one state only. *)
LEMMA BlocksDisjoint ==
  ASSUME TypeOK, Partitioned, NEW p \in Who, NEW s \in States, NEW t \in States,
         cursor_[s] <= p, p < cursor_[s + 1],
         cursor_[t] <= p, p < cursor_[t + 1]
  PROVE  s = t
<1>1. /\ s \in 0 .. StateCount /\ s + 1 \in 0 .. StateCount
      /\ t \in 0 .. StateCount /\ t + 1 \in 0 .. StateCount
      /\ s \in Int /\ t \in Int
  BY SparseSetAssumption DEF States
<1>2. /\ cursor_[s] \in Int /\ cursor_[s + 1] \in Int /\ p \in Int
      /\ cursor_[t] \in Int /\ cursor_[t + 1] \in Int
  BY <1>1, SparseSetAssumption DEF TypeOK, Who
<1>3. s + 1 <= t => cursor_[s + 1] <= cursor_[t]
  BY <1>1 DEF Partitioned
<1>4. t + 1 <= s => cursor_[t + 1] <= cursor_[s]
  BY <1>1 DEF Partitioned
<1> QED
  BY <1>1, <1>2, <1>3, <1>4

(* IncrementState moves the slot across the boundary above its block and      *)
(* keeps every other slot inside its own.                                     *)
LEMMA IncrementIInv == IInv /\ IncrementState => IInv'
<1> SUFFICES ASSUME IInv, IncrementState PROVE IInv'
  OBVIOUS
<1> DEFINE w == op.who
           cur == state_[w]
           next == cur + 1
           i == where_[w]
           j == cursor_[next] - 1
           x == dense_[j]
<1>1. /\ w \in Who /\ cur \in States /\ next \in States
      /\ cur \in 0 .. StateCount /\ next \in 0 .. StateCount
      /\ next + 1 \in 0 .. StateCount
  <2>1. w \in Who /\ cur \in States /\ op.target \in States /\ cur < op.target
    BY DEF IInv, TypeOK, IncrementState
  <2> QED
    BY <2>1, SparseSetAssumption DEF States
<1>2. /\ i \in Who /\ dense_[i] = w
      /\ cursor_[cur] <= i /\ i <= j /\ j \in Who
  <2>1. i \in Who /\ dense_[i] = w
    BY <1>1 DEF IInv, TypeOK, Inverse
  <2>2. cursor_[cur] \in 0 .. N /\ cursor_[next] \in 0 .. N
    BY <1>1 DEF IInv, TypeOK
  <2>3. cursor_[cur] <= i /\ i < cursor_[next]
    BY <1>1 DEF IInv, Partitioned
  <2> QED
    BY <2>1, <2>2, <2>3, SparseSetAssumption DEF Who
<1>3. Exchange(i, j)
  BY DEF IncrementState
<1>4. /\ dense_' \in [Who -> Who] /\ where_' \in [Who -> Who] /\ Inverse'
      /\ where_'[w] = j /\ where_'[x] = i
      /\ \A v \in Who : v # w /\ v # x => where_'[v] = where_[v]
  BY <1>2, <1>3, ExchangeInverse DEF IInv
<1>5. /\ cursor_' = [cursor_ EXCEPT ![next] = @ - 1]
      /\ state_' = [state_ EXCEPT ![w] = next]
      /\ UNCHANGED <<generation_, op, ret, held>>
  BY DEF IncrementState
<1>6. TypeOK'
  <2>1. j \in 0 .. N
    BY <1>2, SparseSetAssumption DEF Who
  <2>2. cursor_' \in [0 .. StateCount -> 0 .. N]
    BY <1>1, <1>5, <2>1 DEF IInv, TypeOK
  <2> QED
    BY <1>1, <1>4, <1>5, <2>2 DEF IInv, TypeOK
<1>7. /\ x \in Who /\ where_[x] = j /\ state_[x] \in States
  BY <1>2 DEF IInv, TypeOK, Inverse
<1>8. state_[x] = cur
  <2>1. cursor_[state_[x]] <= j /\ j < cursor_[state_[x] + 1]
    BY <1>7 DEF IInv, Partitioned
  <2>2. cursor_[cur] <= j /\ j < cursor_[cur + 1]
    BY <1>1, <1>2 DEF IInv, TypeOK, Who
  <2> QED
    BY <1>1, <1>2, <1>7, <2>1, <2>2, BlocksDisjoint DEF IInv
<1>9. Partitioned'
  <2>1. cursor_[cur] <= cursor_[next] - 1 /\ cursor_[next] <= cursor_[next + 1]
    BY <1>1, <1>2 DEF IInv, TypeOK, Partitioned, Who
  <2>2. cursor_'[0] = 0 /\ cursor_'[StateCount] = N
    BY <1>1, <1>5, SparseSetAssumption DEF IInv, TypeOK, Partitioned, States
  <2>3. ASSUME NEW s \in 0 .. StateCount, NEW t \in 0 .. StateCount, s <= t
        PROVE  cursor_'[s] <= cursor_'[t]
    <3>1. cursor_[s] <= cursor_[t] /\ cursor_[s] \in Int /\ cursor_[t] \in Int
      BY <2>3 DEF IInv, TypeOK, Partitioned
    <3>2. CASE t # next
      BY <1>1, <1>5, <3>1, <3>2 DEF IInv, TypeOK
    <3>3. CASE t = next /\ s = next
      BY <1>1, <1>5, <3>1, <3>3 DEF IInv, TypeOK
    <3>4. CASE t = next /\ s # next
      <4>1. s <= cur
        BY <1>1, <2>3, <3>4 DEF States
      <4>2. cursor_[s] <= cursor_[cur]
        BY <1>1, <4>1 DEF IInv, Partitioned
      <4> QED
        BY <1>1, <1>5, <2>1, <3>1, <3>4, <4>2 DEF IInv, TypeOK
    <3> QED
      BY <3>2, <3>3, <3>4
  <2>4. ASSUME NEW v \in Who
        PROVE  cursor_'[state_'[v]] <= where_'[v] /\ where_'[v] < cursor_'[state_'[v] + 1]
    <3>1. CASE v = w
      BY <1>1, <1>2, <1>4, <1>5, <2>1, <3>1 DEF IInv, TypeOK, Who
    <3>2. CASE v = x /\ v # w
      <4>1. i < j
        BY <1>2, <1>7, <3>2 DEF Who
      <4>2. where_'[v] = i /\ state_'[v] = cur
        BY <1>1, <1>4, <1>5, <1>7, <1>8, <3>2 DEF IInv, TypeOK
      <4>3. cursor_'[cur] = cursor_[cur] /\ cursor_'[cur + 1] = j
        BY <1>1, <1>5 DEF IInv, TypeOK, States
      <4> QED
        BY <1>2, <4>1, <4>2, <4>3
    <3>3. CASE v # w /\ v # x
      <4> DEFINE s == state_[v]
      <4>1. s \in States /\ s \in 0 .. StateCount /\ s + 1 \in 0 .. StateCount
        BY SparseSetAssumption DEF IInv, TypeOK, States
      <4>2. where_'[v] = where_[v] /\ state_'[v] = s
        BY <1>1, <1>4, <1>5, <3>3 DEF IInv, TypeOK
      <4>3. where_[v] \in Who /\ where_[v] # j
        BY <1>2, <3>3 DEF IInv, TypeOK, Inverse
      <4>4. cursor_[s] <= where_[v] /\ where_[v] < cursor_[s + 1]
        BY DEF IInv, Partitioned
      <4>5. cursor_'[s] <= cursor_[s] /\ cursor_[s] \in Int /\ cursor_'[s] \in Int
        BY <1>1, <1>5, <4>1 DEF IInv, TypeOK
      <4>6. /\ cursor_[s + 1] \in Int
            /\ cursor_'[s + 1] = IF s + 1 = next THEN j ELSE cursor_[s + 1]
        BY <1>1, <1>5, <4>1 DEF IInv, TypeOK
      <4>7. CASE s + 1 = next
        BY <1>2, <4>2, <4>3, <4>4, <4>5, <4>6, <4>7 DEF Who
      <4>8. CASE s + 1 # next
        BY <4>2, <4>3, <4>4, <4>5, <4>6, <4>8 DEF Who
      <4> QED
        BY <4>7, <4>8
    <3> QED
      BY <3>1, <3>2, <3>3
  <2> QED
    BY <2>2, <2>3, <2>4 DEF Partitioned
<1> QED
  BY <1>4, <1>6, <1>9 DEF IInv

(* DecrementState moves the slot across the boundary below its block and      *)
(* keeps every other slot inside its own.                                     *)
LEMMA DecrementIInv == IInv /\ DecrementState => IInv'
<1> SUFFICES ASSUME IInv, DecrementState PROVE IInv'
  OBVIOUS
<1> DEFINE w == op.who
           cur == state_[w]
           i == where_[w]
           j == cursor_[cur]
           x == dense_[j]
<1>1. /\ w \in Who /\ cur \in States /\ cur # 0 /\ cur - 1 \in States
      /\ cur \in 0 .. StateCount /\ cur + 1 \in 0 .. StateCount
      /\ cur - 1 \in 0 .. StateCount /\ cur # StateCount
  <2>1. w \in Who /\ cur \in States /\ op.target \in States /\ cur > op.target
    BY DEF IInv, TypeOK, DecrementState
  <2> QED
    BY <2>1, SparseSetAssumption DEF States
<1>2. /\ i \in Who /\ dense_[i] = w
      /\ j <= i /\ i < cursor_[cur + 1] /\ j \in Who /\ cursor_[cur + 1] \in Int
  <2>1. i \in Who /\ dense_[i] = w
    BY <1>1 DEF IInv, TypeOK, Inverse
  <2>2. cursor_[cur] \in 0 .. N /\ cursor_[cur + 1] \in 0 .. N
    BY <1>1 DEF IInv, TypeOK
  <2>3. cursor_[cur] <= i /\ i < cursor_[cur + 1]
    BY <1>1 DEF IInv, Partitioned
  <2> QED
    BY <2>1, <2>2, <2>3, SparseSetAssumption DEF Who
<1>3. Exchange(i, j)
  BY DEF DecrementState
<1>4. /\ dense_' \in [Who -> Who] /\ where_' \in [Who -> Who] /\ Inverse'
      /\ where_'[w] = j /\ where_'[x] = i
      /\ \A v \in Who : v # w /\ v # x => where_'[v] = where_[v]
  BY <1>2, <1>3, ExchangeInverse DEF IInv
<1>5. /\ cursor_' = [cursor_ EXCEPT ![cur] = @ + 1]
      /\ state_' = [state_ EXCEPT ![w] = cur - 1]
      /\ UNCHANGED <<generation_, op, ret, held>>
  BY DEF DecrementState
<1>6. TypeOK'
  <2>1. j + 1 \in 0 .. N
    BY <1>2, SparseSetAssumption DEF Who
  <2>2. cursor_' \in [0 .. StateCount -> 0 .. N]
    BY <1>1, <1>5, <2>1 DEF IInv, TypeOK
  <2> QED
    BY <1>1, <1>4, <1>5, <2>2 DEF IInv, TypeOK
<1>7. /\ x \in Who /\ where_[x] = j /\ state_[x] \in States
  BY <1>2 DEF IInv, TypeOK, Inverse
<1>8. state_[x] = cur
  <2>1. cursor_[state_[x]] <= j /\ j < cursor_[state_[x] + 1]
    BY <1>7 DEF IInv, Partitioned
  <2>2. cursor_[cur] <= j /\ j < cursor_[cur + 1]
    BY <1>1, <1>2 DEF IInv, TypeOK, Who
  <2> QED
    BY <1>1, <1>2, <1>7, <2>1, <2>2, BlocksDisjoint DEF IInv
<1>9. Partitioned'
  <2>1. cursor_[cur - 1] <= j /\ j + 1 <= cursor_[cur + 1] /\ j \in Int
    BY <1>1, <1>2 DEF IInv, TypeOK, Partitioned, Who
  <2>2. cursor_'[0] = 0 /\ cursor_'[StateCount] = N
    BY <1>1, <1>5, SparseSetAssumption DEF IInv, TypeOK, Partitioned, States
  <2>3. ASSUME NEW s \in 0 .. StateCount, NEW t \in 0 .. StateCount, s <= t
        PROVE  cursor_'[s] <= cursor_'[t]
    <3>1. cursor_[s] <= cursor_[t] /\ cursor_[s] \in Int /\ cursor_[t] \in Int
      BY <2>3 DEF IInv, TypeOK, Partitioned
    <3>2. CASE s # cur
      BY <1>1, <1>5, <3>1, <3>2 DEF IInv, TypeOK
    <3>3. CASE s = cur /\ t = cur
      BY <1>1, <1>5, <3>1, <3>3 DEF IInv, TypeOK
    <3>4. CASE s = cur /\ t # cur
      <4>1. cur + 1 <= t
        BY <1>1, <2>3, <3>4 DEF States
      <4>2. cursor_[cur + 1] <= cursor_[t]
        BY <1>1, <4>1 DEF IInv, Partitioned
      <4> QED
        BY <1>1, <1>2, <1>5, <2>1, <3>1, <3>4, <4>2 DEF IInv, TypeOK
    <3> QED
      BY <3>2, <3>3, <3>4
  <2>4. ASSUME NEW v \in Who
        PROVE  cursor_'[state_'[v]] <= where_'[v] /\ where_'[v] < cursor_'[state_'[v] + 1]
    <3>1. CASE v = w
      <4>1. where_'[v] = j /\ state_'[v] = cur - 1
        BY <1>1, <1>4, <1>5, <3>1 DEF IInv, TypeOK
      <4>2. cursor_'[cur - 1] = cursor_[cur - 1] /\ cursor_'[(cur - 1) + 1] = j + 1
        BY <1>1, <1>5 DEF IInv, TypeOK, States
      <4> QED
        BY <2>1, <4>1, <4>2
    <3>2. CASE v = x /\ v # w
      <4>1. j < i
        BY <1>2, <1>7, <3>2 DEF Who
      <4>2. where_'[v] = i /\ state_'[v] = cur
        BY <1>1, <1>4, <1>5, <1>7, <1>8, <3>2 DEF IInv, TypeOK
      <4>3. cursor_'[cur] = j + 1 /\ cursor_'[cur + 1] = cursor_[cur + 1]
        BY <1>1, <1>5 DEF IInv, TypeOK, States
      <4> QED
        BY <1>2, <4>1, <4>2, <4>3 DEF Who
    <3>3. CASE v # w /\ v # x
      <4> DEFINE s == state_[v]
      <4>1. s \in States /\ s \in 0 .. StateCount /\ s + 1 \in 0 .. StateCount
        BY SparseSetAssumption DEF IInv, TypeOK, States
      <4>2. where_'[v] = where_[v] /\ state_'[v] = s
        BY <1>1, <1>4, <1>5, <3>3 DEF IInv, TypeOK
      <4>3. where_[v] \in Int /\ where_[v] # j
        BY <1>2, <3>3 DEF IInv, TypeOK, Inverse, Who
      <4>4. cursor_[s] <= where_[v] /\ where_[v] < cursor_[s + 1]
        BY DEF IInv, Partitioned
      <4>5. /\ cursor_[s + 1] <= cursor_'[s + 1]
            /\ cursor_[s + 1] \in Int /\ cursor_'[s + 1] \in Int
        BY <1>1, <1>5, <4>1 DEF IInv, TypeOK
      <4>6. cursor_[s] \in Int /\ cursor_'[s] = IF s = cur THEN j + 1 ELSE cursor_[s]
        BY <1>1, <1>5, <4>1 DEF IInv, TypeOK
      <4>7. CASE s = cur
        BY <2>1, <4>2, <4>3, <4>4, <4>5, <4>6, <4>7
      <4>8. CASE s # cur
        BY <4>2, <4>3, <4>4, <4>5, <4>6, <4>8
      <4> QED
        BY <4>7, <4>8
    <3> QED
      BY <3>1, <3>2, <3>3
  <2> QED
    BY <2>2, <2>3, <2>4 DEF Partitioned
<1> QED
  BY <1>4, <1>6, <1>9 DEF IInv

(* A step that leaves the arrays alone disturbs neither structural invariant. *)
LEMMA ArraysUnchanged ==
  IInv /\ UNCHANGED <<where_, state_, dense_, cursor_>> => Inverse' /\ Partitioned'
BY DEF IInv, Inverse, Partitioned

(* The first position of a non-empty state 0 holds a slot. *)
LEMMA FirstFree ==
  ASSUME TypeOK, Partitioned, cursor_[0] # cursor_[1]
  PROVE  dense_[cursor_[0]] \in Who
<1>1. 0 \in 0 .. StateCount /\ 1 \in 0 .. StateCount
  BY SparseSetAssumption
<1>2. cursor_[0] = 0 /\ 0 \in Who
  BY SparseSetAssumption DEF Partitioned, Who
<1> QED
  BY <1>2 DEF TypeOK

(* Every step of a call keeps the arrays consistent. *)
LEMMA NextIInv == IInv /\ [Next]_vars => IInv'
<1> SUFFICES ASSUME IInv, [Next]_vars PROVE IInv'
  OBVIOUS
<1> USE DEF Begin, arrays
<1>1. ASSUME NEW s \in Target, PopBegin(s) PROVE IInv'
  <2>1. op'.who \in Who /\ s \in States
    BY <1>1, FirstFree DEF IInv, PopBegin, Target
  <2>2. TypeOK'
    BY <1>1, <2>1 DEF IInv, TypeOK, PopBegin, Kind
  <2> QED
    BY <1>1, <2>2, ArraysUnchanged DEF IInv, PopBegin
<1>2. CASE PopEmpty
  BY <1>2, ArraysUnchanged DEF IInv, TypeOK, PopEmpty
<1>3. ASSUME NEW h \in held, NEW s \in Target, MoveBegin(h, s) PROVE IInv'
  BY <1>3, ArraysUnchanged DEF IInv, TypeOK, MoveBegin, Kind, Handle, Target
<1>4. ASSUME NEW h \in held, PushBegin(h) PROVE IInv'
  <2>1. 0 \in States
    BY SparseSetAssumption DEF States
  <2> QED
    BY <1>4, <2>1, ArraysUnchanged DEF IInv, TypeOK, PushBegin, Kind, Handle
<1>5. CASE IncrementState
  BY <1>5, IncrementIInv
<1>6. CASE DecrementState
  BY <1>6, DecrementIInv
<1>7. NoOp \in [kind : Kind, who : Who, target : States]
  BY SparseSetAssumption DEF NoOp, Kind, Who, States
<1>8. GetHandle(op.who) \in Handle
  BY DEF IInv, TypeOK, GetHandle, Handle
<1>9. CASE PopEnd
  BY <1>7, <1>8, <1>9, ArraysUnchanged DEF IInv, TypeOK, PopEnd
<1>10. CASE MoveEnd
  BY <1>7, <1>10, ArraysUnchanged DEF IInv, TypeOK, MoveEnd
<1>11. CASE PushEnd
  <2>1. (generation_[op.who] + 1) % GenMod \in Generation
    BY SparseSetAssumption DEF IInv, TypeOK, Generation
  <2> QED
    BY <1>7, <1>11, <2>1, ArraysUnchanged DEF IInv, TypeOK, PushEnd
<1>12. CASE UNCHANGED vars
  BY <1>12, ArraysUnchanged DEF IInv, TypeOK, vars
<1> QED
  BY <1>1, <1>2, <1>3, <1>4, <1>5, <1>6, <1>9, <1>10, <1>11, <1>12 DEF Next

(* The arrays are consistent after every swap of every call. *)
THEOREM Consistent == Spec => []IInv
<1> QED
  BY InitIInv, NextIInv, PTL DEF Spec

(* No call of Pop, Push or MoveToState takes an array access out of bounds.   *)
THEOREM TypeCorrect == Spec => []TypeOK
<1>1. IInv => TypeOK
  BY DEF IInv
<1> QED
  BY <1>1, Consistent, PTL

(* dense_ and where_ are inverse to each other: the swap of Increment and     *)
(* DecrementState never lists a slot twice and never loses one.               *)
THEOREM StaysInverse == Spec => []Inverse
<1>1. IInv => Inverse
  BY DEF IInv
<1> QED
  BY <1>1, Consistent, PTL

(* Every slot lies in the block of its own state, between any two swaps of    *)
(* MoveToState: the one cursor a step shifts is enough.                       *)
THEOREM StaysPartitioned == Spec => []Partitioned
<1>1. IInv => Partitioned
  BY DEF IInv
<1> QED
  BY <1>1, Consistent, PTL

(* HeldExclusive is not inductive either: that Pop hands out a slot nobody    *)
(* holds needs held slots to be out of state 0, and the call in progress to   *)
(* keep them out.                                                             *)
OpKeepsHeld ==
  /\ \A h \in held : state_[h.who] # 0
  /\ op.kind \in {"pop", "push"} => \A h \in held : h.who # op.who
  /\ op.kind \in {"pop", "move"} => op.target # 0

HInv == IInv /\ HeldExclusive /\ OpKeepsHeld

(* The slot at the first position of a non-empty state 0 is in state 0. *)
LEMMA FirstFreeIsFree ==
  ASSUME IInv, cursor_[0] # cursor_[1]
  PROVE  state_[dense_[cursor_[0]]] = 0
<1> DEFINE w == dense_[cursor_[0]]
<1>1. w \in Who /\ cursor_[0] = 0 /\ 0 \in Who /\ 0 \in States /\ state_[w] \in States
  BY FirstFree, SparseSetAssumption DEF IInv, TypeOK, Partitioned, Who, States
<1>2. where_[w] = 0
  BY <1>1 DEF IInv, Inverse
<1>3. cursor_[state_[w]] <= 0 /\ 0 < cursor_[state_[w] + 1]
  BY <1>1, <1>2 DEF IInv, Partitioned
<1>4. cursor_[0] <= 0 /\ 0 < cursor_[0 + 1]
  <2>1. 1 \in 0 .. StateCount
    BY SparseSetAssumption
  <2>2. cursor_[1] \in 0 .. N
    BY <2>1 DEF IInv, TypeOK
  <2> QED
    BY <1>1, <2>2
<1> QED
  BY <1>1, <1>3, <1>4, BlocksDisjoint DEF IInv

(* A slot changes its state only as the slot of the call in progress, and a   *)
(* call on a held handle never enters state 0.                                *)
LEMMA StepKeepsHeld ==
  ASSUME HInv, IncrementState \/ DecrementState
  PROVE  OpKeepsHeld'
<1>1. UNCHANGED <<op, held>> /\ op.who \in Who
  BY DEF HInv, IInv, TypeOK, IncrementState, DecrementState
<1>2. ASSUME NEW h \in held PROVE state_'[h.who] # 0
  <2>1. h.who \in Who /\ state_[h.who] # 0
    BY DEF HInv, IInv, TypeOK, Handle, OpKeepsHeld
  <2>2. CASE h.who # op.who
    BY <1>1, <2>1, <2>2 DEF HInv, IInv, TypeOK, IncrementState, DecrementState
  <2>3. CASE h.who = op.who
    <3>1. op.target # 0 /\ op.target \in States /\ state_[op.who] \in States
      BY <1>1, <2>3 DEF HInv, IInv, TypeOK, OpKeepsHeld, IncrementState, DecrementState, Kind
    <3>2. CASE IncrementState
      BY <1>1, <2>3, <3>1, <3>2 DEF HInv, IInv, TypeOK, IncrementState, States
    <3>3. CASE DecrementState
      BY <1>1, <2>3, <3>1, <3>3 DEF HInv, IInv, TypeOK, DecrementState, States
    <3> QED
      BY <3>2, <3>3
  <2> QED
    BY <2>2, <2>3
<1> QED
  BY <1>1, <1>2 DEF HInv, OpKeepsHeld

(* Every step of a call keeps the held handles exclusive and valid. *)
LEMMA NextHInv == HInv /\ [Next]_vars => HInv'
<1> SUFFICES ASSUME HInv, [Next]_vars PROVE HInv'
  OBVIOUS
<1> USE DEF HInv, HeldExclusive, IsValid
<1>0. IInv'
  BY NextIInv
<1>1. ASSUME NEW s \in Target, PopBegin(s) PROVE HInv'
  <2>1. \A h \in held : h.who # dense_[cursor_[0]]
    BY <1>1, FirstFreeIsFree DEF PopBegin, OpKeepsHeld
  <2> QED
    BY <1>0, <1>1, <2>1 DEF PopBegin, Begin, arrays, OpKeepsHeld, Target
<1>2. CASE PopEmpty
  BY <1>0, <1>2 DEF PopEmpty, arrays, OpKeepsHeld
<1>3. ASSUME NEW h \in held, NEW s \in Target, MoveBegin(h, s) PROVE HInv'
  BY <1>0, <1>3 DEF MoveBegin, Begin, arrays, OpKeepsHeld, Target
<1>4. ASSUME NEW h \in held, PushBegin(h) PROVE HInv'
  BY <1>0, <1>4 DEF PushBegin, Begin, arrays, OpKeepsHeld
<1>5. CASE IncrementState \/ DecrementState
  BY <1>0, <1>5, StepKeepsHeld DEF IncrementState, DecrementState
<1>6. CASE PopEnd
  <2>1. op.who \in Who /\ N \in Nat
    BY SparseSetAssumption DEF IInv, TypeOK
  <2>2. GetHandle(op.who).who = op.who /\ GetHandle(op.who).generation = generation_[op.who]
    BY DEF GetHandle
  <2>3. op.who < N /\ \A h \in held : h.who # op.who
    BY <1>6, <2>1 DEF PopEnd, Who, OpKeepsHeld
  <2>4. HeldExclusive'
    BY <1>6, <2>2, <2>3 DEF PopEnd, arrays
  <2>5. state_[op.who] # 0
    BY <1>6 DEF PopEnd, Arrived, OpKeepsHeld
  <2> QED
    BY <1>0, <1>6, <2>2, <2>4, <2>5 DEF PopEnd, arrays, OpKeepsHeld, NoOp
<1>7. CASE MoveEnd
  BY <1>0, <1>7 DEF MoveEnd, arrays, OpKeepsHeld, NoOp
<1>8. CASE PushEnd
  <2>1. \A h \in held : h.who # op.who /\ h.who \in Who
    BY <1>8 DEF PushEnd, OpKeepsHeld, IInv, TypeOK, Handle
  <2>2. HeldExclusive'
    BY <1>8, <2>1 DEF PushEnd, IInv, TypeOK
  <2> QED
    BY <1>0, <1>8, <2>2 DEF PushEnd, OpKeepsHeld, NoOp
<1>9. CASE UNCHANGED vars
  BY <1>0, <1>9 DEF vars, OpKeepsHeld
<1> QED
  BY <1>1, <1>2, <1>3, <1>4, <1>5, <1>6, <1>7, <1>8, <1>9 DEF Next

(* Pop never hands out a slot a caller still holds, and every handle a        *)
(* caller got and did not push is valid: the generation is bumped by Push     *)
(* alone, and only of the pushed slot.                                        *)
THEOREM StaysExclusive == Spec => []HeldExclusive
<1>1. Init => HInv
  BY InitIInv DEF Init, HInv, HeldExclusive, OpKeepsHeld, NoOp
<1>2. HInv => HeldExclusive
  BY DEF HInv
<1> QED
  BY <1>1, <1>2, NextHInv, PTL DEF Spec
-----------------------------------------------------------------------------
(* Whoever is out of state 0 is held, or is the slot of the Pop or Push in   *)
(* progress: nothing stays in a listing without an owner.                    *)
Owned(w) == \E h \in held : h.who = w

Covered ==
  /\ \A w \in Who : state_[w] # 0 =>
       Owned(w) \/ (op.kind \in {"pop", "push"} /\ op.who = w)
  /\ op.kind = "move" => Owned(op.who)
  /\ op.kind = "push" => op.target = 0
  /\ op.kind = "none" => op = NoOp

LInv == HInv /\ Covered

(* Every step keeps the slots outside state 0 owned. *)
LEMMA NextLInv == LInv /\ [Next]_vars => LInv'
<1> SUFFICES ASSUME LInv, [Next]_vars PROVE LInv'
  OBVIOUS
<1> USE DEF LInv, Covered, Owned
<1>0. HInv'
  BY NextHInv
<1>1. ASSUME NEW s \in Target, PopBegin(s) PROVE LInv'
  BY <1>0, <1>1 DEF PopBegin, Begin, arrays, NoOp
<1>2. CASE PopEmpty
  BY <1>0, <1>2 DEF PopEmpty, arrays
<1>3. ASSUME NEW h \in held, NEW s \in Target, MoveBegin(h, s) PROVE LInv'
  BY <1>0, <1>3 DEF MoveBegin, Begin, arrays, NoOp
<1>4. ASSUME NEW h \in held, PushBegin(h) PROVE LInv'
  BY <1>0, <1>4 DEF PushBegin, Begin, arrays, NoOp
<1>5. CASE IncrementState \/ DecrementState
  <2>1. op.who \in Who /\ UNCHANGED <<op, held>> /\ op.kind \in Kind /\ op.kind # "none"
    BY <1>5 DEF HInv, IInv, TypeOK, IncrementState, DecrementState
  <2>2. \A w \in Who : w # op.who => state_'[w] = state_[w]
    BY <1>5 DEF HInv, IInv, TypeOK, IncrementState, DecrementState
  <2> QED
    BY <1>0, <2>1, <2>2 DEF Kind
<1>6. CASE PopEnd
  <2>1. GetHandle(op.who).who = op.who
    BY DEF GetHandle
  <2> QED
    BY <1>0, <1>6, <2>1 DEF PopEnd, Arrived, arrays, NoOp
<1>7. CASE MoveEnd
  BY <1>0, <1>7 DEF MoveEnd, Arrived, arrays, NoOp
<1>8. CASE PushEnd
  BY <1>0, <1>8 DEF PushEnd, Arrived, NoOp
<1>9. CASE UNCHANGED vars
  BY <1>0, <1>9 DEF vars
<1> QED
  BY <1>1, <1>2, <1>3, <1>4, <1>5, <1>6, <1>7, <1>8, <1>9 DEF Next

LEMMA InitLInv == Init => LInv
BY InitIInv DEF Init, LInv, HInv, HeldExclusive, OpKeepsHeld, Covered, NoOp

LEMMA AlwaysLInv == Spec => []LInv
BY InitLInv, NextLInv, PTL DEF Spec

(* The block of a state lists the slots that are in it. *)
LEMMA BlockIsState ==
  ASSUME IInv, NEW s \in States
  PROVE  GetIndicesInState(s) = {GetHandle(w) : w \in {v \in Who : state_[v] = s}}
<1>1. \A i \in cursor_[s] .. cursor_[s + 1] - 1 :
        i \in Who /\ dense_[i] \in Who /\ state_[dense_[i]] = s
  <2> TAKE i \in cursor_[s] .. cursor_[s + 1] - 1
  <2>1. /\ s \in 0 .. StateCount /\ s + 1 \in 0 .. StateCount
        /\ cursor_[s] \in 0 .. N /\ cursor_[s + 1] \in 0 .. N
    BY SparseSetAssumption DEF IInv, TypeOK, States
  <2>2. i \in Who /\ cursor_[s] <= i /\ i < cursor_[s + 1]
    BY <2>1, SparseSetAssumption DEF Who
  <2>3. dense_[i] \in Who /\ where_[dense_[i]] = i /\ state_[dense_[i]] \in States
    BY <2>2 DEF IInv, TypeOK, Inverse
  <2>4. cursor_[state_[dense_[i]]] <= i /\ i < cursor_[state_[dense_[i]] + 1]
    BY <2>3 DEF IInv, Partitioned
  <2> QED
    BY <2>2, <2>3, <2>4, BlocksDisjoint DEF IInv
<1>2. \A w \in Who : state_[w] = s =>
        where_[w] \in cursor_[s] .. cursor_[s + 1] - 1 /\ dense_[where_[w]] = w
  <2> TAKE w \in Who
  <2> HAVE state_[w] = s
  <2>1. /\ s \in 0 .. StateCount /\ s + 1 \in 0 .. StateCount
        /\ cursor_[s] \in 0 .. N /\ cursor_[s + 1] \in 0 .. N
    BY SparseSetAssumption DEF IInv, TypeOK, States
  <2>2. where_[w] \in Who /\ cursor_[s] <= where_[w] /\ where_[w] < cursor_[s + 1]
    BY DEF IInv, TypeOK, Partitioned
  <2> QED
    BY <2>1, <2>2 DEF IInv, Inverse, Who
<1> QED
  BY <1>1, <1>2 DEF GetIndicesInState

(* What Broadcast iterates over is what the callers hold in that state. *)
THEOREM ListingIsExact == Spec => []ListingExact
<1>1. ASSUME LInv PROVE ListingExact
  <2> USE <1>1 DEF LInv, HInv
  <2> SUFFICES ASSUME op = NoOp, NEW s \in States
               PROVE  IF s = 0 THEN GetIndicesInState(s) \cap held = {}
                      ELSE GetIndicesInState(s) = {h \in held : GetState(h) = s}
    BY DEF ListingExact
  <2>1. \A h \in held : h.who \in Who /\ h = GetHandle(h.who)
    BY DEF IInv, TypeOK, Handle, HeldExclusive, IsValid, GetHandle
  <2>2. \A w \in Who : state_[w] # 0 => GetHandle(w) \in held
    BY <2>1 DEF Covered, Owned, NoOp
  <2>3. \A w \in Who : GetHandle(w).who = w
    BY DEF GetHandle
  <2>4. CASE s = 0
    BY <2>1, <2>3, <2>4, BlockIsState DEF OpKeepsHeld
  <2>5. CASE s # 0
    BY <2>1, <2>2, <2>3, <2>5, BlockIsState DEF GetState
  <2> QED
    BY <2>4, <2>5
<1> QED
  BY <1>1, AlwaysLInv, PTL

-----------------------------------------------------------------------------
(* A generation, the one before it and the one after it. *)
LEMMA Wraps ==
  ASSUME NEW g \in Generation
  PROVE  /\ (g - 1) % GenMod \in Generation
         /\ (g - 1) % GenMod # g
         /\ (g + 1) % GenMod \in Generation
         /\ (((g + 1) % GenMod) - 1) % GenMod = g
<1>1. GenMod \in Nat /\ GenMod >= 2 /\ g \in 0 .. GenMod - 1
  BY SparseSetAssumption DEF Generation
<1>2. (g - 1) % GenMod = IF g = 0 THEN GenMod - 1 ELSE g - 1
  BY <1>1
<1>3. (g + 1) % GenMod = IF g = GenMod - 1 THEN 0 ELSE g + 1
  BY <1>1
<1>4. (0 - 1) % GenMod = GenMod - 1 /\ g % GenMod = g
  BY <1>1
<1> QED
  BY <1>1, <1>2, <1>3, <1>4 DEF Generation

(* The empty arrays are an empty partition. *)
LEMMA RefineInit == Init => Abstract!Init
<1> SUFFICES ASSUME Init PROVE Abstract!Init
  OBVIOUS
<1>1. LiveView = [h \in {} |-> 0]
  BY DEF Init, LiveView
<1>2. \A w \in Who : SpentView[w] = (0 - 1) % GenMod
  BY DEF Init, SpentView, NoOp
<1>3. 0 \in Generation
  BY SparseSetAssumption DEF Generation
<1>4. SpentView \in [Who -> Generation]
  BY <1>2, <1>3, Wraps DEF SpentView
<1> QED
  BY <1>1, <1>4 DEF Abstract!Init, Init

(* The swaps of a call, its end, and the begin of a Pop are invisible; every *)
(* other step is the step of the partition of the same name.                 *)
LEMMA RefineNext == LInv /\ LInv' /\ [Next]_vars => [Abstract!Next]_Abstract!vars
<1> SUFFICES ASSUME LInv, LInv', [Next]_vars
             PROVE  Abstract!Next \/ UNCHANGED <<LiveView, SpentView, ret>>
  BY DEF Abstract!vars
<1> USE DEF LInv, HInv
<1>0. /\ \A h \in held : h.who \in Who /\ h = GetHandle(h.who)
      /\ \A g, h \in held : g.who = h.who => g = h
      /\ DOMAIN LiveView = held
      /\ op.who \in Who
  BY DEF IInv, TypeOK, Handle, HeldExclusive, IsValid, GetHandle, LiveView
<1>1. ASSUME NEW s \in Target, PopBegin(s)
      PROVE  UNCHANGED <<LiveView, SpentView, ret>>
  BY <1>1 DEF PopBegin, Begin, arrays, LiveView, SpentView, GetState, NoOp
<1>2. ASSUME PopEmpty PROVE Abstract!Next
  <2>1. \A w \in Who : state_[w] # 0
    <3> SUFFICES ASSUME NEW w \in Who, state_[w] = 0 PROVE FALSE
      OBVIOUS
    <3>1. where_[w] \in Int /\ cursor_[0] <= where_[w] /\ where_[w] < cursor_[1]
      <4>1. where_[w] \in 0 .. N - 1 /\ N \in Nat
        BY SparseSetAssumption DEF IInv, TypeOK, Who
      <4>2. cursor_[state_[w]] <= where_[w] /\ where_[w] < cursor_[state_[w] + 1]
        BY DEF IInv, Partitioned
      <4>3. state_[w] + 1 = 1
        OBVIOUS
      <4> QED
        BY <4>1, <4>2, <4>3
    <3>2. cursor_[0] = 0 /\ cursor_[1] = 0
      BY <1>2 DEF PopEmpty, IInv, Partitioned
    <3> QED
      BY <3>1, <3>2
  <2>2. Abstract!Taken = Who
    BY <1>0, <1>2, <2>1 DEF Abstract!Taken, PopEmpty, Covered, Owned, NoOp
  <2>3. UNCHANGED <<LiveView, SpentView>>
    BY <1>2 DEF PopEmpty, arrays, LiveView, SpentView, GetState
  <2>4. Abstract!PopFails
    BY <1>2, <2>2, <2>3 DEF Abstract!PopFails, PopEmpty
  <2> QED
    BY <2>4 DEF Abstract!Next
<1>3. ASSUME NEW h \in held, NEW s \in Target, MoveBegin(h, s) PROVE Abstract!Next
  <2>1. LiveView' = [LiveView EXCEPT ![h] = s]
    BY <1>0, <1>3 DEF MoveBegin, Begin, arrays, LiveView, GetState, NoOp
  <2>2. UNCHANGED <<SpentView, ret>>
    BY <1>3 DEF MoveBegin, Begin, arrays, SpentView, NoOp
  <2> QED
    BY <1>0, <2>1, <2>2 DEF Abstract!Next, Abstract!MoveToState
<1>4. ASSUME NEW h \in held, PushBegin(h) PROVE Abstract!Next
  <2>1. LiveView' = [x \in held \ {h} |-> LiveView[x]]
    BY <1>4 DEF PushBegin, Begin, arrays, LiveView, GetState, NoOp
  <2>2. h.generation = generation_[h.who] /\ h.who \in Who
    BY <1>0 DEF HeldExclusive, IsValid
  <2>3. SpentView' = [SpentView EXCEPT ![h.who] = h.generation]
    BY <1>4, <2>2 DEF PushBegin, Begin, arrays, SpentView, NoOp
  <2> QED
    BY <1>0, <1>4, <2>1, <2>3 DEF Abstract!Next, Abstract!Push, PushBegin, Begin
<1>5. ASSUME IncrementState \/ DecrementState
      PROVE  UNCHANGED <<LiveView, SpentView, ret>>
  <2>1. UNCHANGED <<op, held, generation_, ret>> /\ op.kind \in Kind /\ op.kind # "none"
    BY <1>5 DEF IInv, TypeOK, IncrementState, DecrementState
  <2>2. \A w \in Who : w # op.who => state_'[w] = state_[w]
    BY <1>5 DEF IInv, TypeOK, IncrementState, DecrementState
  <2>3. \A h \in held : op.kind # "move" => h.who # op.who
    BY <2>1 DEF OpKeepsHeld, Kind
  <2> QED
    BY <1>0, <2>1, <2>2, <2>3 DEF LiveView, SpentView, GetState
<1>6. ASSUME PopEnd PROVE Abstract!Next
  <2> DEFINE h == GetHandle(op.who)
  <2>1. h \in Handle /\ h.who = op.who /\ h.generation = generation_[op.who]
    BY <1>0 DEF IInv, TypeOK, GetHandle, Handle
  <2>2. h.who \notin Abstract!Taken
    BY <1>0, <1>6, <2>1 DEF Abstract!Taken, PopEnd, OpKeepsHeld
  <2>3. op.target \in Target
    BY <1>6 DEF PopEnd, OpKeepsHeld, IInv, TypeOK, Target
  <2>4. h.generation # SpentView[h.who]
    <3>1. generation_[op.who] \in Generation
      BY <1>0 DEF IInv, TypeOK
    <3> QED
      BY <1>0, <1>6, <2>1, <3>1, Wraps DEF PopEnd, SpentView
  <2>5. LiveView' = [x \in held \cup {h} |-> IF x = h THEN op.target ELSE LiveView[x]]
    <3>1. LiveView' = [x \in held \cup {h} |-> state_[x.who]]
      BY <1>6 DEF PopEnd, arrays, LiveView, GetState, NoOp
    <3>2. state_[h.who] = op.target
      BY <1>6, <2>1 DEF PopEnd, Arrived
    <3>3. \A x \in held : LiveView[x] = state_[x.who]
      BY <1>6 DEF PopEnd, LiveView, GetState
    <3> QED
      BY <3>1, <3>2, <3>3
  <2>6. SpentView' = SpentView /\ ret' = h
    BY <1>6 DEF PopEnd, arrays, SpentView, NoOp
  <2>7. Abstract!Pop(h, op.target)
    BY <1>0, <2>2, <2>4, <2>5, <2>6 DEF Abstract!Pop
  <2> QED
    BY <2>1, <2>3, <2>7 DEF Abstract!Next, Abstract!Handle, Handle
<1>7. ASSUME MoveEnd PROVE UNCHANGED <<LiveView, SpentView, ret>>
  BY <1>7 DEF MoveEnd, Arrived, arrays, LiveView, SpentView, GetState, NoOp
<1>8. ASSUME PushEnd PROVE UNCHANGED <<LiveView, SpentView, ret>>
  <2>1. UNCHANGED <<LiveView, ret>>
    BY <1>8 DEF PushEnd, LiveView, GetState, NoOp
  <2>2. generation_[op.who] \in Generation
    BY <1>0 DEF IInv, TypeOK
  <2>3. \A w \in Who : SpentView'[w] = SpentView[w]
    BY <1>0, <1>8, <2>2, Wraps DEF PushEnd, SpentView, NoOp, IInv, TypeOK
  <2> QED
    BY <2>1, <2>3 DEF SpentView
<1>9. ASSUME UNCHANGED vars PROVE UNCHANGED <<LiveView, SpentView, ret>>
  BY <1>9 DEF vars, LiveView, SpentView, GetState
<1> QED
  BY <1>1, <1>2, <1>3, <1>4, <1>5, <1>6, <1>7, <1>8, <1>9 DEF Next

(* To its callers SparseSet is a set of handles in states: a move takes place  *)
(* at once, and a handle that was pushed is not the next one of its slot.      *)
THEOREM Refines == Spec => ImplementsPartition
BY AlwaysLInv, RefineInit, RefineNext, PTL DEF Spec, ImplementsPartition, Abstract!Spec
=============================================================================
