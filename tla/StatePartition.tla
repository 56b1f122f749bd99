--------------------------- MODULE StatePartition ---------------------------
(***************************************************************************)
(* What SparseSet promises to SparsePool and SessionManager, with the       *)
(* arrays left out: a set of live handles, each in exactly one state.  A    *)
(* handle names a slot and a generation of that slot.  No two live handles  *)
(* name the same slot, and a slot that is popped again gets a handle        *)
(* different from the one it was last pushed with.                          *)
(***************************************************************************)
EXTENDS Integers, FiniteSets

CONSTANTS
  Who,        \* the slots
  Generation, \* the generations of a slot
  Target,     \* the states a caller moves a live handle to
  NoHandle    \* what Pop returns when every slot is taken

Handle == [who : Who, generation : Generation]

VARIABLES
  live,   \* the state of each live handle
  spent,  \* the generation each slot was last pushed with
  ret     \* the value the last Pop returned

vars == <<live, spent, ret>>

Taken == {h.who : h \in DOMAIN live}

Init ==
  /\ live = [h \in {} |-> 0]
  /\ spent \in [Who -> Generation]
  /\ ret = NoHandle

(* A free slot is handed out, under a generation it was not just freed with. *)
Pop(h, s) ==
  /\ ret' = h
  /\ h.who \notin Taken
  /\ h.generation # spent[h.who]
  /\ live' = [x \in DOMAIN live \cup {h} |-> IF x = h THEN s ELSE live[x]]
  /\ UNCHANGED spent

(* Pop fails only when every slot is taken. *)
PopFails ==
  /\ ret' = NoHandle
  /\ Taken = Who
  /\ UNCHANGED <<live, spent>>

MoveToState(h, s) ==
  /\ UNCHANGED <<ret, spent>>
  /\ live' = [live EXCEPT ![h] = s]

Push(h) ==
  /\ live' = [x \in DOMAIN live \ {h} |-> live[x]]
  /\ spent' = [spent EXCEPT ![h.who] = h.generation]
  /\ UNCHANGED ret

Next ==
  \/ \E h \in Handle, s \in Target : Pop(h, s)
  \/ PopFails
  \/ \E h \in DOMAIN live : Push(h) \/ \E s \in Target : MoveToState(h, s)

Spec == Init /\ [][Next]_vars
=============================================================================
