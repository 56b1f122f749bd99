------------------------- MODULE SparseSetScanProofs -------------------------
(***************************************************************************)
(* The unlocked listing, for every number of slots and states.  A step of    *)
(* the thread that holds cs_ moves at most one boundary of the listed state: *)
(* the lower one goes up only when a slot falls, the upper one down only     *)
(* when a slot rises (IncrementEffect, DecrementEffect).  While none rises a *)
(* slot of the state can only be swapped towards the end of its block, ahead *)
(* of the reader, so what is still missing lies at or after its position     *)
(* (Ahead).  While none falls either, no slot of the state moves at all, so   *)
(* what is listed stays behind the reader (Behind).                          *)
(***************************************************************************)
EXTENDS SparseSetScan, SparseSetProofs

(* The bounds of the listed state are cursors. *)
LEMMA ListedBounds ==
  ASSUME TypeOK
  PROVE  /\ Listed \in Nat /\ Listed - 1 \in Int
         /\ Listed \in 0 .. StateCount /\ Listed + 1 \in 0 .. StateCount
         /\ cursor_[Listed] \in 0 .. N /\ cursor_[Listed + 1] \in 0 .. N
<1>1. /\ Listed \in Nat /\ Listed - 1 \in Int
      /\ Listed \in 0 .. StateCount /\ Listed + 1 \in 0 .. StateCount
  BY ScanAssumption, SparseSetAssumption DEF Target, States
<1> QED
  BY <1>1 DEF TypeOK

(* A position between the two cursors of a state holds a slot of it. *)
LEMMA InBlock ==
  ASSUME IInv, NEW p \in Who, NEW s \in States, cursor_[s] <= p, p < cursor_[s + 1]
  PROVE  state_[dense_[p]] = s
<1>1. dense_[p] \in Who /\ where_[dense_[p]] = p /\ state_[dense_[p]] \in States
  BY DEF IInv, TypeOK, Inverse
<1>2. /\ cursor_[state_[dense_[p]]] <= p
      /\ p < cursor_[state_[dense_[p]] + 1]
  BY <1>1 DEF IInv, Partitioned
<1> QED
  BY <1>1, <1>2, BlocksDisjoint DEF IInv

(* A caller moves handles to the listed state, so it is one of them. *)
LEMMA ListedIsState == Listed \in States
BY ScanAssumption DEF Target

(* What a swap up does to the listed state. *)
LEMMA IncrementEffect ==
  ASSUME IInv, IncrementState
  PROVE  /\ cursor_'[Listed] <= cursor_[Listed]
         /\ ~Leaves(Listed + 1) =>
              /\ cursor_'[Listed + 1] = cursor_[Listed + 1]
              /\ \A v \in InListed : where_'[v] = where_[v]
<1> DEFINE w == op.who
           cur == state_[w]
           next == cur + 1
           i == where_[w]
           j == cursor_[next] - 1
           x == dense_[j]
<1>1. /\ w \in Who /\ cur \in States /\ next \in States /\ cur \in Nat
      /\ cur \in 0 .. StateCount /\ next \in 0 .. StateCount
  <2>1. w \in Who /\ cur \in States /\ op.target \in States /\ cur < op.target
    BY DEF IInv, TypeOK, IncrementState
  <2> QED
    BY <2>1, SparseSetAssumption DEF States
<1>2. i \in Who /\ dense_[i] = w /\ cursor_[cur] <= i /\ i <= j /\ j \in Who
  <2>1. i \in Who /\ dense_[i] = w
    BY <1>1 DEF IInv, TypeOK, Inverse
  <2>2. cursor_[cur] \in 0 .. N /\ cursor_[next] \in 0 .. N
    BY <1>1 DEF IInv, TypeOK
  <2>3. cursor_[cur] <= i /\ i < cursor_[next]
    BY <1>1 DEF IInv, Partitioned
  <2> QED
    BY <2>1, <2>2, <2>3, SparseSetAssumption DEF Who
<1>3. /\ Exchange(i, j)
      /\ cursor_' = [cursor_ EXCEPT ![next] = @ - 1]
      /\ state_' = [state_ EXCEPT ![w] = next]
  BY DEF IncrementState
<1>4. \A v \in Who : v # w /\ v # x => where_'[v] = where_[v]
  BY <1>2, <1>3, ExchangeInverse DEF IInv
<1>5. x \in Who /\ state_[x] = cur
  <2>1. x \in Who
    BY <1>2 DEF IInv, TypeOK
  <2>2. cursor_[cur] <= j /\ j < cursor_[cur + 1]
    BY <1>1, <1>2 DEF IInv, TypeOK, Who
  <2> QED
    BY <1>1, <1>2, <2>1, <2>2, InBlock
<1>6. cursor_'[Listed] <= cursor_[Listed]
  BY <1>1, <1>3, ListedBounds DEF IInv, TypeOK
<1>7. cur = Listed => Leaves(Listed + 1)
  BY <1>1, <1>3 DEF Leaves, InListed, IInv, TypeOK
<1>8. cur # Listed => cursor_'[Listed + 1] = cursor_[Listed + 1]
  BY <1>1, <1>3, ListedBounds DEF IInv, TypeOK
<1>9. cur # Listed => \A v \in InListed : where_'[v] = where_[v]
  BY <1>4, <1>5 DEF InListed
<1> QED
  BY <1>6, <1>7, <1>8, <1>9

(* What a swap down does to it: the first slot of the block moves up. *)
LEMMA DecrementEffect ==
  ASSUME IInv, DecrementState
  PROVE  /\ ~Leaves(Listed - 1) =>
              /\ cursor_'[Listed] = cursor_[Listed]
              /\ \A v \in InListed : where_'[v] = where_[v]
         /\ cursor_'[Listed + 1] >= cursor_[Listed + 1]
         /\ \A v \in InListed \cap InListed' : where_'[v] >= where_[v]
<1> DEFINE w == op.who
           cur == state_[w]
           i == where_[w]
           j == cursor_[cur]
           x == dense_[j]
<1>1. /\ w \in Who /\ cur \in States /\ cur # 0 /\ cur - 1 \in States
      /\ cur \in 0 .. StateCount /\ cur \in Nat
  <2>1. w \in Who /\ cur \in States /\ op.target \in States /\ cur > op.target
    BY DEF IInv, TypeOK, DecrementState
  <2> QED
    BY <2>1, SparseSetAssumption DEF States
<1>2. i \in Who /\ dense_[i] = w /\ j <= i /\ j \in Who
  <2>1. i \in Who /\ dense_[i] = w
    BY <1>1 DEF IInv, TypeOK, Inverse
  <2>2. j \in 0 .. N
    BY <1>1 DEF IInv, TypeOK
  <2>3. j <= i
    BY <1>1 DEF IInv, Partitioned
  <2> QED
    BY <2>1, <2>2, <2>3, SparseSetAssumption DEF Who
<1>3. /\ Exchange(i, j)
      /\ cursor_' = [cursor_ EXCEPT ![cur] = @ + 1]
      /\ state_' = [state_ EXCEPT ![w] = cur - 1]
  BY DEF DecrementState
<1>4. /\ where_'[x] = i /\ where_[x] = j
      /\ \A v \in Who : v # w /\ v # x => where_'[v] = where_[v]
  <2>1. where_[x] = j
    BY <1>2 DEF IInv, Inverse
  <2> QED
    BY <1>2, <1>3, <2>1, ExchangeInverse DEF IInv
<1>5. cur = Listed => Leaves(Listed - 1)
  BY <1>1, <1>3 DEF Leaves, InListed, IInv, TypeOK
<1>6. cur # Listed => cursor_'[Listed] = cursor_[Listed]
  BY <1>1, <1>3, ListedBounds DEF IInv, TypeOK
<1>7. cursor_'[Listed + 1] >= cursor_[Listed + 1]
  BY <1>1, <1>3, ListedBounds DEF IInv, TypeOK
<1>8. ASSUME NEW v \in InListed \cap InListed'
      PROVE  where_'[v] >= where_[v]
  <2>1. v # w
    BY <1>1, <1>3, <1>8 DEF InListed, IInv, TypeOK
  <2>2. v \in Who /\ where_[v] \in Int
    BY <1>8 DEF InListed, IInv, TypeOK, Who
  <2>3. CASE v = x
    BY <1>2, <1>4, <2>3 DEF Who
  <2>4. CASE v # x
    BY <1>4, <2>1, <2>2, <2>4
  <2> QED
    BY <2>3, <2>4
<1>9. cur # Listed => \A v \in InListed : where_'[v] = where_[v]
  <2>1. state_[x] = cur
    <3>1. i < cursor_[cur + 1] /\ cursor_[cur + 1] \in Int /\ cursor_[cur] \in Int
      BY <1>1, SparseSetAssumption DEF IInv, TypeOK, Partitioned, States
    <3>2. cursor_[cur] <= j /\ j < cursor_[cur + 1]
      BY <1>2, <3>1 DEF Who
    <3> QED
      BY <1>1, <1>2, <3>2, InBlock
  <2> QED
    BY <1>4, <2>1 DEF InListed
<1> QED
  BY <1>5, <1>6, <1>7, <1>8, <1>9

(* Every step under cs_ has at most these effects. *)
LEMMA NextEffect ==
  ASSUME IInv, Next
  PROVE  /\ ~Leaves(Listed - 1) => cursor_'[Listed] <= cursor_[Listed]
         /\ ~Leaves(Listed + 1) =>
              /\ cursor_'[Listed + 1] >= cursor_[Listed + 1]
              /\ \A v \in InListed \cap InListed' : where_'[v] >= where_[v]
         /\ ~Leaves(Listed - 1) /\ ~Leaves(Listed + 1) =>
              \A v \in InListed : v \in InListed' /\ where_'[v] = where_[v]
<1>1. /\ cursor_[Listed] \in Int /\ cursor_[Listed + 1] \in Int
      /\ \A v \in InListed : where_[v] \in Int
  BY ListedBounds DEF IInv, TypeOK, InListed, Who
<1>2. CASE IncrementState
  <2>1. ~Leaves(Listed + 1) => \A v \in InListed : v \in InListed'
    <3>1. state_' = [state_ EXCEPT ![op.who] = state_[op.who] + 1]
      BY <1>2 DEF IncrementState
    <3> QED
      BY <3>1 DEF Leaves, InListed, IInv, TypeOK
  <2> QED
    BY <1>1, <1>2, <2>1, IncrementEffect
<1>3. CASE DecrementState
  <2>1. ~Leaves(Listed - 1) => \A v \in InListed : v \in InListed'
    <3>1. state_' = [state_ EXCEPT ![op.who] = state_[op.who] - 1]
      BY <1>3 DEF DecrementState
    <3> QED
      BY <3>1 DEF Leaves, InListed, IInv, TypeOK
  <2> QED
    BY <1>1, <1>3, <2>1, DecrementEffect
<1>4. CASE ~IncrementState /\ ~DecrementState
  <2>1. UNCHANGED <<where_, cursor_, state_>>
    BY <1>4 DEF Next, PopBegin, PopEmpty, MoveBegin, PushBegin, Begin, arrays,
                PopEnd, MoveEnd, PushEnd
  <2> QED
    BY <1>1, <2>1 DEF InListed
<1> QED
  BY <1>2, <1>3, <1>4

-----------------------------------------------------------------------------
(* What the reader knows of the cursors it read, as long as they cannot have  *)
(* moved the wrong way.                                                       *)
Read ==
  /\ at = "upper" /\ ~rose /\ ~fell => number \in cursor_[Listed] .. N
  /\ at = "lower" /\ ~rose => number \in 0 .. cursor_[Listed + 1]
  /\ at \in {"test", "read", "done"} => number \in 0 .. N
  /\ at \in {"test", "read"} /\ ~rose /\ ~fell => cursor_[Listed] <= number
  /\ at = "read" /\ ~rose => number < cursor_[Listed + 1]

(* What is missing lies ahead of the reader. *)
Ahead ==
  ~rose => /\ at \in {"test", "read", "done"} => \A w \in missing : where_[w] >= number
           /\ NobodyMissed

(* What is listed lies behind it. *)
Behind ==
  /\ at \notin {"test", "read", "done"} => listed = {}
  /\ ~rose /\ ~fell => \A w \in listed : w \in InListed /\ where_[w] < number

SInv == IInv /\ ScanTypeOK /\ Read /\ Ahead /\ Behind /\ ReadsInBounds /\ ReserveBounded

(* Nothing is listed at first. *)
LEMMA InitSInv == ScanInit => SInv
<1> SUFFICES ASSUME ScanInit PROVE SInv
  OBVIOUS
<1>1. IInv
  BY InitIInv DEF ScanInit
<1>2. 0 \in 0 .. IndexMod - 1
  BY ScanAssumption, SparseSetAssumption
<1> QED
  BY <1>1, <1>2 DEF ScanInit, SInv, ScanTypeOK, Read, Ahead, Behind, NobodyMissed,
                    ReadsInBounds, ReserveBounded

(* The steps of the reader. *)
LEMMA ScanStepSInv == SInv /\ ScanStep => SInv'
<1> SUFFICES ASSUME SInv, ScanStep PROVE SInv'
  OBVIOUS
<1>1. IInv'
  BY NextIInv DEF SInv, ScanStep
<1>2. UNCHANGED <<where_, state_, dense_, cursor_>> /\ InListed' = InListed
  BY DEF ScanStep, vars, InListed
<1>3. /\ cursor_[Listed] \in 0 .. N /\ cursor_[Listed + 1] \in 0 .. N
      /\ cursor_[Listed] <= cursor_[Listed + 1]
      /\ N \in Nat /\ IndexMod \in Nat /\ IndexMod > N
  BY ListedBounds, ScanAssumption, SparseSetAssumption DEF SInv, IInv, Partitioned
<1>4. \A w \in InListed : /\ where_[w] \in Int
                          /\ cursor_[Listed] <= where_[w]
                          /\ where_[w] < cursor_[Listed + 1]
  BY DEF SInv, IInv, TypeOK, Partitioned, InListed, Who
<1>5. missing \subseteq InListed /\ number \in Nat /\ rose \in BOOLEAN /\ fell \in BOOLEAN
  BY <1>3 DEF SInv, ScanTypeOK
<1> USE <1>1, <1>2, <1>3 DEF SInv, ScanTypeOK, Read, Ahead, Behind, NobodyMissed,
                             ReadsInBounds, ReserveBounded, history, Forget
<1>6. CASE ScanBegin
  BY <1>6 DEF ScanBegin
<1>7. CASE Reserve
  <2>1. /\ number' \in 0 .. IndexMod - 1 /\ at \in {"upper", "lower"}
        /\ at' = "reserve" /\ UNCHANGED history
    BY <1>5, <1>7 DEF Reserve
  <2>2. ~rose /\ ~fell => number' <= N
    <3> SUFFICES ASSUME ~rose, ~fell PROVE number' <= N
      OBVIOUS
    <3>1. CASE at = "upper"
      <4>1. number - cursor_[Listed] \in 0 .. N
        BY <3>1
      <4> QED
        BY <1>7, <3>1, <4>1 DEF Reserve
    <3>2. CASE at = "lower"
      <4>1. cursor_[Listed + 1] - number \in 0 .. N
        BY <3>2
      <4> QED
        BY <1>7, <3>2, <4>1 DEF Reserve
    <3> QED
      BY <1>7, <3>1, <3>2 DEF Reserve
  <2> QED
    BY <1>5, <2>1, <2>2
<1>8. CASE LoopBegin
  <2>1. /\ at = "reserve" /\ at' = "test" /\ number' = cursor_[Listed]
        /\ UNCHANGED history
    BY <1>8 DEF LoopBegin
  <2> QED
    BY <1>4, <1>5, <2>1
<1>9. CASE LoopTest
  <2>1. /\ at = "test" /\ UNCHANGED number /\ UNCHANGED history
        /\ \/ at' = "read" /\ number < cursor_[Listed + 1]
           \/ at' = "done" /\ number >= cursor_[Listed + 1]
    BY <1>3, <1>5, <1>9 DEF LoopTest
  <2>2. number \in 0 .. N
    BY <2>1
  <2>3. at' = "done" /\ ~rose => missing = {}
    BY <1>4, <1>5, <2>1
  <2>4. at' = "read" => number \in Who
    BY <2>1, <2>2 DEF Who
  <2> QED
    BY <1>5, <2>1, <2>2, <2>3, <2>4
<1>10. CASE PushBack
  <2>1. /\ at = "read" /\ at' = "test" /\ number' = number + 1
        /\ missing' = missing \ {dense_[number]} /\ UNCHANGED <<rose, fell>>
        /\ listed' = IF rose \/ fell THEN {} ELSE listed \cup {dense_[number]}
    BY <1>10 DEF PushBack
  <2>2. number \in Who /\ number + 1 \in 0 .. N
    BY <2>1 DEF Who
  <2>3. ~rose => \A w \in missing' : where_[w] >= number + 1
    <3> SUFFICES ASSUME ~rose, NEW w \in missing' PROVE where_[w] >= number + 1
      OBVIOUS
    <3>1. w \in Who /\ w \in missing /\ dense_[where_[w]] = w
      BY <1>5, <2>1 DEF InListed, IInv, Inverse
    <3>2. where_[w] # number
      BY <2>1, <3>1
    <3>3. where_[w] >= number /\ where_[w] \in Int
      BY <1>4, <1>5, <2>1, <3>1
    <3> QED
      BY <1>5, <3>2, <3>3
  <2>4. dense_[number] \in Who /\ where_[dense_[number]] = number
    BY <2>2 DEF IInv, TypeOK, Inverse
  <2>5. ~rose /\ ~fell =>
          \A w \in listed' : w \in InListed /\ where_[w] < number + 1
    <3> SUFFICES ASSUME ~rose, ~fell, NEW w \in listed'
                 PROVE  w \in InListed /\ where_[w] < number + 1
      OBVIOUS
    <3>1. CASE w \in listed
      <4>1. w \in InListed /\ where_[w] < number
        BY <3>1
      <4> QED
        BY <1>4, <1>5, <4>1
    <3>2. CASE w = dense_[number]
      <4>1. state_[w] = Listed
        BY <1>3, <2>1, <2>2, <3>2, ListedIsState, InBlock
      <4> QED
        BY <1>5, <2>4, <3>2, <4>1 DEF InListed
    <3> QED
      BY <2>1, <3>1, <3>2
  <2>6. listed' \subseteq Who
    BY <2>1, <2>4
  <2> QED
    BY <1>5, <2>1, <2>2, <2>3, <2>5, <2>6
<1>11. CASE ScanReturn
  <2>1. /\ at' = "out" /\ number' = 0 /\ missing' = {} /\ rose' = FALSE /\ fell' = FALSE
        /\ listed' = {}
    BY <1>11 DEF ScanReturn
  <2>2. 0 \in 0 .. IndexMod - 1
    OBVIOUS
  <2> QED
    BY <2>1, <2>2
<1> QED
  BY <1>6, <1>7, <1>8, <1>9, <1>10, <1>11 DEF ScanStep

(* The steps of the thread that holds cs_. *)
LEMMA LockedStepSInv == SInv /\ LockedStep => SInv'
<1> SUFFICES ASSUME SInv, LockedStep PROVE SInv'
  OBVIOUS
<1>1. IInv'
  BY NextIInv DEF SInv, LockedStep
<1>2. /\ UNCHANGED <<at, number>>
      /\ rose' = (rose \/ (at # "out" /\ Leaves(Listed + 1)))
      /\ missing' = IF rose' THEN {} ELSE missing \cap InListed'
      /\ fell' = (~rose' /\ (fell \/ (at # "out" /\ Leaves(Listed - 1))))
      /\ listed' = IF rose' \/ fell' THEN {} ELSE listed
  BY DEF LockedStep, reader
<1>3. /\ cursor_[Listed] \in 0 .. N /\ cursor_[Listed + 1] \in 0 .. N
      /\ N \in Nat
  BY ListedBounds, SparseSetAssumption DEF SInv, IInv
<1>4. cursor_'[Listed] \in 0 .. N /\ cursor_'[Listed + 1] \in 0 .. N
  <2>1. TypeOK' /\ Listed \in 0 .. StateCount /\ Listed + 1 \in 0 .. StateCount
    BY <1>1, ListedBounds DEF SInv, IInv
  <2> QED
    BY <2>1 DEF TypeOK
<1>5. at # "out" /\ ~rose' /\ ~fell' => ~fell /\ cursor_'[Listed] <= cursor_[Listed]
  BY <1>2, NextEffect DEF SInv, LockedStep
<1>6. at # "out" /\ ~rose' => /\ ~rose
                              /\ cursor_'[Listed + 1] >= cursor_[Listed + 1]
                              /\ \A v \in InListed \cap InListed' : where_'[v] >= where_[v]
  BY <1>2, NextEffect DEF SInv, LockedStep
<1>7. ScanTypeOK'
  BY <1>2 DEF SInv, ScanTypeOK
<1>8. Read'
  <2>1. number \in Nat /\ number' = number /\ at' = at
    BY <1>2, ScanAssumption DEF SInv, ScanTypeOK
  <2>2. /\ at = "upper" /\ ~rose' /\ ~fell' => number \in cursor_'[Listed] .. N
        /\ at \in {"test", "read"} /\ ~rose' /\ ~fell' => cursor_'[Listed] <= number
    BY <1>3, <1>4, <1>5, <1>6, <2>1 DEF SInv, Read
  <2>3. /\ at = "lower" /\ ~rose' => number \in 0 .. cursor_'[Listed + 1]
        /\ at = "read" /\ ~rose' => number < cursor_'[Listed + 1]
    BY <1>3, <1>4, <1>6, <2>1 DEF SInv, Read
  <2>4. at \in {"test", "read", "done"} => number \in 0 .. N
    BY DEF SInv, Read
  <2> QED
    BY <2>1, <2>2, <2>3, <2>4 DEF Read
<1>9. at \in {"test", "read", "done"} /\ ~rose' => \A w \in missing' : where_'[w] >= number
  <2> SUFFICES ASSUME at \in {"test", "read", "done"}, ~rose', NEW w \in missing'
               PROVE  where_'[w] >= number
    OBVIOUS
  <2>1. w \in missing /\ w \in InListed /\ w \in InListed' /\ w \in Who
    BY <1>2 DEF SInv, ScanTypeOK, InListed
  <2>2. where_[w] >= number
    BY <1>6, <2>1 DEF SInv, Ahead
  <2>4. where_[w] \in Int /\ number \in Int
    BY <2>1 DEF SInv, Read, IInv, TypeOK, Who
  <2>3. where_'[w] \in Int /\ where_'[w] >= where_[w]
    BY <1>1, <1>6, <2>1 DEF IInv, TypeOK, Who
  <2> QED
    BY <2>2, <2>3, <2>4
<1>10. Ahead'
  <2>1. ~rose' => NobodyMissed'
    BY <1>2 DEF SInv, Ahead, NobodyMissed
  <2> QED
    BY <1>2, <1>9, <2>1 DEF Ahead
<1>11. ReadsInBounds' /\ ReserveBounded'
  BY <1>2 DEF SInv, ReadsInBounds, ReserveBounded
<1>12. Behind'
  <2>1. CASE at = "out"
    BY <1>2, <2>1 DEF SInv, Behind
  <2>2. CASE at # "out"
    <3>1. ~rose' /\ ~fell' =>
            /\ ~rose /\ ~fell
            /\ \A v \in InListed : v \in InListed' /\ where_'[v] = where_[v]
      BY <1>2, <2>2, NextEffect DEF SInv, LockedStep
    <3> QED
      BY <1>2, <3>1 DEF SInv, Behind
  <2> QED
    BY <2>1, <2>2
<1> QED
  BY <1>1, <1>7, <1>8, <1>10, <1>11, <1>12 DEF SInv

(* The invariant holds whatever the two threads do. *)
LEMMA AlwaysSInv == ScanSpec => []SInv
<1>1. SInv /\ [ScanNext]_scanVars => SInv'
  <2> SUFFICES ASSUME SInv, [ScanNext]_scanVars PROVE SInv'
    OBVIOUS
  <2>1. CASE UNCHANGED scanVars
    <3>1. UNCHANGED vars /\ UNCHANGED reader /\ UNCHANGED history
      BY <2>1 DEF scanVars
    <3>2. IInv'
      BY <3>1, NextIInv DEF SInv
    <3>3. UNCHANGED <<where_, state_, dense_, cursor_, at, number, missing, rose, fell, listed>>
      BY <3>1 DEF vars, reader, history
    <3>4. ScanTypeOK' /\ Read'
      BY <3>3 DEF SInv, ScanTypeOK, Read, InListed
    <3>5. Ahead' /\ Behind' /\ ReadsInBounds' /\ ReserveBounded'
      BY <3>3 DEF SInv, Ahead, Behind, InListed, NobodyMissed, ReadsInBounds, ReserveBounded
    <3> QED
      BY <3>2, <3>4, <3>5 DEF SInv
  <2> QED
    BY <2>1, ScanStepSInv, LockedStepSInv DEF ScanNext
<1> QED
  BY InitSInv, <1>1, PTL DEF ScanSpec

(* The reader never leaves dense_, though nothing stops the cursors from      *)
(* moving between the test of its loop and its read.                          *)
THEOREM ListingInBounds == ScanSpec => []ReadsInBounds
<1>1. SInv => ReadsInBounds
  BY DEF SInv
<1> QED
  BY <1>1, AlwaysSInv, PTL

(* The unlocked difference of two cursors wraps only when a slot leaves.      *)
THEOREM ReserveIsBounded == ScanSpec => []ReserveBounded
<1>1. SInv => ReserveBounded
  BY DEF SInv
<1> QED
  BY <1>1, AlwaysSInv, PTL

(* A broadcast misses a session that stays connected only when another one    *)
(* starts to disconnect while it lists them.                                  *)
THEOREM ListingComplete == ScanSpec => []NobodyMissed
<1>1. SInv => NobodyMissed
  BY DEF SInv, Ahead, NobodyMissed
<1> QED
  BY <1>1, AlwaysSInv, PTL

(* It lists no session of another state and none of them twice, unless one    *)
(* leaves the state meanwhile.                                                *)
THEOREM ListingSound == ScanSpec => []ListsEachOnce
<1>1. SInv => ListsEachOnce
  <2> SUFFICES ASSUME SInv, at = "read", ~rose, ~fell
               PROVE  dense_[number] \in InListed \ listed
    BY DEF ListsEachOnce
  <2>1. /\ number \in Who /\ cursor_[Listed] <= number
        /\ number < cursor_[Listed + 1]
    BY DEF SInv, ReadsInBounds, Read
  <2>2. dense_[number] \in Who /\ where_[dense_[number]] = number
    BY <2>1 DEF SInv, IInv, TypeOK, Inverse
  <2>3. dense_[number] \in InListed
    BY <2>1, <2>2, ListedIsState, InBlock DEF SInv, InListed
  <2>4. dense_[number] \notin listed
    BY <2>1, <2>2 DEF SInv, Behind, Who
  <2> QED
    BY <2>3, <2>4
<1> QED
  BY <1>1, AlwaysSInv, PTL
=============================================================================
