------------------------------ MODULE SparseSet ------------------------------
(***************************************************************************)
(* SparseSet<N, stateCount> (Common/Pool/SparseSet.hpp) as SparsePool uses   *)
(* it: every mutating call runs under the pool's cs_, so at most one is in   *)
(* progress, but GetState and GetIndicesInState read without the lock and    *)
(* can see it half done.  A MoveToState is therefore a begin step, one       *)
(* IncrementState or DecrementState per step, and an end step.               *)
(*                                                                          *)
(* sparse_[who] is split into where_, generation_ and state_.  generation_   *)
(* is a uint32_t: it wraps at GenMod (2^32 in the build).                    *)
(***************************************************************************)
EXTENDS Integers, FiniteSets

CONSTANTS
  N,           \* number of slots
  StateCount,  \* number of states; state 0 is the free one
  GenMod       \* number of values of a generation counter

ASSUME SparseSetAssumption ==
  /\ N \in Nat \ {0}
  /\ StateCount \in Nat /\ StateCount >= 2
  /\ GenMod \in Nat /\ GenMod >= 2

Who == 0 .. N - 1
States == 0 .. StateCount - 1
Target == States \ {0}  \* no caller pops into, or moves to, state 0
Generation == 0 .. GenMod - 1
Handle == [who : Who, generation : Generation]

(* All ones: its index is no slot. *)
kInvalidHandle == [who |-> N, generation |-> GenMod - 1]

VARIABLES
  where_,       \* sparse_[who].where_: the position of a slot in dense_
  generation_,  \* sparse_[who].generation_
  state_,       \* sparse_[who].state_
  dense_,       \* the slots ordered by state
  cursor_,      \* dense_[cursor_[s] .. cursor_[s+1]-1] is state s
  op,           \* the call in progress under cs_
  ret,          \* the value the last Pop returned
  held          \* the handles the callers got from Pop and did not push

arrays == <<where_, generation_, state_, dense_, cursor_>>
vars == <<where_, generation_, state_, dense_, cursor_, op, ret, held>>

NoOp == [kind |-> "none", who |-> 0, target |-> 0]
Kind == {"none", "pop", "push", "move"}

GetHandle(w) == [who |-> w, generation |-> generation_[w]]
IsValid(h) == h.who < N /\ generation_[h.who] = h.generation
GetState(h) == state_[h.who]

(* The handles GetIndicesInState collects when nothing moves meanwhile. *)
GetIndicesInState(s) ==
  {GetHandle(dense_[i]) : i \in cursor_[s] .. cursor_[s + 1] - 1}

TypeOK ==
  /\ where_ \in [Who -> Who]
  /\ generation_ \in [Who -> Generation]
  /\ state_ \in [Who -> States]
  /\ dense_ \in [Who -> Who]
  /\ cursor_ \in [0 .. StateCount -> 0 .. N]
  /\ op \in [kind : Kind, who : Who, target : States]
  /\ ret \in Handle \cup {kInvalidHandle}
  /\ held \subseteq Handle

Init ==
  /\ where_ = [w \in Who |-> w]
  /\ generation_ = [w \in Who |-> 0]
  /\ state_ = [w \in Who |-> 0]
  /\ dense_ = [i \in Who |-> i]
  /\ cursor_ = [s \in 0 .. StateCount |-> IF s = 0 THEN 0 ELSE N]
  /\ op = NoOp
  /\ ret = kInvalidHandle
  /\ held = {}

Begin(k, w, s) ==
  /\ op = NoOp
  /\ op' = [kind |-> k, who |-> w, target |-> s]
  /\ UNCHANGED <<arrays, ret>>

(* Pop(s): the first slot of state 0 is taken and moved to s ... *)
PopBegin(s) ==
  /\ cursor_[0] # cursor_[1]
  /\ Begin("pop", dense_[cursor_[0]], s)
  /\ UNCHANGED held

(* ... or state 0 is empty. *)
PopEmpty ==
  /\ op = NoOp
  /\ cursor_[0] = cursor_[1]
  /\ ret' = kInvalidHandle
  /\ UNCHANGED <<arrays, op, held>>

MoveBegin(h, s) == Begin("move", h.who, s) /\ UNCHANGED held

PushBegin(h) == Begin("push", h.who, 0) /\ held' = held \ {h}

(* mutant: the slot that makes room keeps its old where_. *)
ExchangeHalf(i, j) ==
  /\ dense_' = [dense_ EXCEPT ![i] = dense_[j], ![j] = dense_[i]]
  /\ where_' = [where_ EXCEPT ![dense_[i]] = j]

(* std::swap of two positions of dense_, and the two where_ rewritten. *)
Exchange(i, j) ==
  /\ dense_' = [dense_ EXCEPT ![i] = dense_[j], ![j] = dense_[i]]
  /\ where_' = [where_ EXCEPT ![dense_[j]] = i, ![dense_[i]] = j]

(* mutant: the boundary is not shifted. *)
IncrementKeepsCursor ==
  LET w == op.who
      next == state_[w] + 1
  IN  /\ op.kind # "none"
      /\ state_[w] < op.target
      /\ Exchange(where_[w], cursor_[next] - 1)
      /\ state_' = [state_ EXCEPT ![w] = next]
      /\ UNCHANGED <<cursor_, generation_, op, ret, held>>

(* Swap with the last slot of the state, then shift the upper boundary down. *)
IncrementState ==
  LET w == op.who
      next == state_[w] + 1
  IN  /\ op.kind # "none"
      /\ state_[w] < op.target
      /\ Exchange(where_[w], cursor_[next] - 1)
      /\ cursor_' = [cursor_ EXCEPT ![next] = @ - 1]
      /\ state_' = [state_ EXCEPT ![w] = next]
      /\ UNCHANGED <<generation_, op, ret, held>>

(* Swap with the first slot of the state, then shift the lower boundary up. *)
DecrementState ==
  LET w == op.who
      current == state_[w]
  IN  /\ op.kind # "none"
      /\ current > op.target
      /\ Exchange(where_[w], cursor_[current])
      /\ cursor_' = [cursor_ EXCEPT ![current] = @ + 1]
      /\ state_' = [state_ EXCEPT ![w] = current - 1]
      /\ UNCHANGED <<generation_, op, ret, held>>

Arrived == op.kind # "none" /\ state_[op.who] = op.target

(* mutant: the generation is bumped by Pop, after the handle was made. *)
PopBumpsGeneration ==
  /\ Arrived /\ op.kind = "pop"
  /\ ret' = GetHandle(op.who)
  /\ held' = held \cup {GetHandle(op.who)}
  /\ generation_' = [generation_ EXCEPT ![op.who] = (@ + 1) % GenMod]
  /\ op' = NoOp
  /\ UNCHANGED <<where_, state_, dense_, cursor_>>

PopEnd ==
  /\ Arrived /\ op.kind = "pop"
  /\ ret' = GetHandle(op.who)
  /\ held' = held \cup {GetHandle(op.who)}
  /\ op' = NoOp
  /\ UNCHANGED arrays

MoveEnd ==
  /\ Arrived /\ op.kind = "move"
  /\ op' = NoOp
  /\ UNCHANGED <<arrays, ret, held>>

(* mutant: Push leaves the handle valid. *)
PushKeepsGeneration ==
  /\ Arrived /\ op.kind = "push"
  /\ op' = NoOp
  /\ UNCHANGED <<arrays, ret, held>>

(* Push ends by invalidating the handle: the generation is bumped, and wraps. *)
PushEnd ==
  /\ Arrived /\ op.kind = "push"
  /\ generation_' = [generation_ EXCEPT ![op.who] = (@ + 1) % GenMod]
  /\ op' = NoOp
  /\ UNCHANGED <<where_, state_, dense_, cursor_, ret, held>>

Next ==
  \/ \E s \in Target : PopBegin(s)
  \/ PopEmpty
  \/ \E h \in held, s \in Target : MoveBegin(h, s)
  \/ \E h \in held : PushBegin(h)
  \/ IncrementState \/ DecrementState
  \/ PopEnd \/ MoveEnd \/ PushEnd

Spec == Init /\ [][Next]_vars

-----------------------------------------------------------------------------
(* dense_ and where_ stay inverse to each other after every single swap, so a *)
(* slot is listed exactly once whatever sequence of moves came before.        *)
Inverse ==
  /\ \A w \in Who : dense_[where_[w]] = w
  /\ \A i \in Who : where_[dense_[i]] = i

(* The cursors cut dense_ into consecutive blocks and every slot lies in the  *)
(* block of its own state, also between two steps of one MoveToState: the     *)
(* slot that was swapped away keeps its state without being written.          *)
Partitioned ==
  /\ cursor_[0] = 0 /\ cursor_[StateCount] = N
  /\ \A s, t \in 0 .. StateCount : s <= t => cursor_[s] <= cursor_[t]
  /\ \A w \in Who : /\ cursor_[state_[w]] <= where_[w]
                    /\ where_[w] < cursor_[state_[w] + 1]

(* While no call is in progress the listing of a state, which Broadcast       *)
(* iterates over, is exactly the handles callers hold in that state: nothing  *)
(* missing, nothing stale, and nothing held is in the free state.             *)
ListingExact ==
  op = NoOp => \A s \in States :
    IF s = 0 THEN GetIndicesInState(s) \cap held = {}
             ELSE GetIndicesInState(s) = {h \in held : GetState(h) = s}

(* Two callers never hold the same slot, and what they hold is valid: Pop     *)
(* cannot hand out a slot again before it was pushed.                         *)
HeldExclusive ==
  /\ \A g, h \in held : g.who = h.who => g = h
  /\ \A h \in held : IsValid(h)

(* The abstract specification.  A move takes effect when it begins, a pop     *)
(* when it returns, a push when the caller gives the handle up.               *)
LiveView ==
  [h \in held |-> IF op.kind = "move" /\ op.who = h.who
                  THEN op.target ELSE GetState(h)]

SpentView ==
  [w \in Who |-> IF op.kind = "push" /\ op.who = w
                 THEN generation_[w] ELSE (generation_[w] - 1) % GenMod]

Abstract == INSTANCE StatePartition
              WITH NoHandle <- kInvalidHandle, live <- LiveView, spent <- SpentView

(* SparseSet implements StatePartition.                                       *)
ImplementsPartition == Abstract!Spec
=============================================================================
