---------------------------- MODULE SparseSetScan ----------------------------
(***************************************************************************)
(* GetIndicesInState against the calls that move slots: Broadcast lists the  *)
(* connected sessions without the pool's cs_ (SessionManager.cpp:93), so the *)
(* cursors and dense_ change between any two of its reads.                   *)
(*                                                                          *)
(* The result is kept as what is still missing from it and, until a slot     *)
(* leaves the state, what is in it.  A slot and its generation are read in   *)
(* one step: they only disagree for a slot that is pushed in between, which  *)
(* no property speaks of.                                                    *)
(***************************************************************************)
EXTENDS SparseSet

CONSTANTS
  Listed,   \* the state that is listed: kConnected
  IndexMod  \* number of values of a cursor (2^32 in the build)

ASSUME ScanAssumption ==
  /\ Listed \in Target
  /\ IndexMod \in Nat /\ IndexMod > N

VARIABLES
  at,       \* where the reader is
  number,   \* the cursor it read first, then what it reserves, then i
  rose,     \* since the listing began a slot left the state for the next one;
            \* from then on nothing else is tracked
  missing,  \* the slots in the state since it began, not yet listed
  fell,     \* since it began a slot left the state for the one before
  listed    \* what it listed, until a slot leaves the state

reader == <<at, number>>
history == <<missing, rose, fell, listed>>
scanVars == <<vars, reader, history>>

InListed == {w \in Who : state_[w] = Listed}

ScanTypeOK ==
  /\ at \in {"out", "upper", "lower", "reserve", "test", "read", "done"}
  /\ number \in 0 .. IndexMod - 1
  /\ missing \subseteq InListed
  /\ rose \in BOOLEAN /\ fell \in BOOLEAN
  /\ listed \subseteq Who

Forget == missing' = {} /\ rose' = FALSE /\ fell' = FALSE /\ listed' = {}

ScanInit ==
  /\ Init
  /\ at = "out" /\ number = 0
  /\ missing = {} /\ rose = FALSE /\ fell = FALSE /\ listed = {}

(* The compiler reads the two cursors of the reserve in the order it likes.   *)
ScanBegin ==
  /\ at = "out"
  /\ \/ at' = "upper" /\ number' = cursor_[Listed + 1]
     \/ at' = "lower" /\ number' = cursor_[Listed]
  /\ missing' = InListed
  /\ UNCHANGED <<rose, fell, listed>>

(* mutant: the operands of the difference are swapped. *)
ReserveSwapped ==
  /\ \/ at = "upper" /\ number' = (cursor_[Listed] - number) % IndexMod
     \/ at = "lower" /\ number' = (number - cursor_[Listed + 1]) % IndexMod
  /\ at' = "reserve"
  /\ UNCHANGED history

(* result.reserve of their unsigned difference.                               *)
Reserve ==
  /\ \/ at = "upper" /\ number' = (number - cursor_[Listed]) % IndexMod
     \/ at = "lower" /\ number' = (cursor_[Listed + 1] - number) % IndexMod
  /\ at' = "reserve"
  /\ UNCHANGED history

(* mutant: the listing starts with the state before. *)
LoopBeginEarly ==
  /\ at = "reserve"
  /\ at' = "test"
  /\ number' = cursor_[Listed - 1]
  /\ UNCHANGED history

LoopBegin ==
  /\ at = "reserve"
  /\ at' = "test"
  /\ number' = cursor_[Listed]
  /\ UNCHANGED history

(* mutant: the upper cursor is taken for the last position of the state. *)
LoopTestInclusive ==
  /\ at = "test"
  /\ at' = IF number <= cursor_[Listed + 1] THEN "read" ELSE "done"
  /\ UNCHANGED <<number, history>>

(* mutant: the last position is left out. *)
LoopTestShort ==
  /\ at = "test"
  /\ at' = IF number + 1 < cursor_[Listed + 1] THEN "read" ELSE "done"
  /\ UNCHANGED <<number, history>>

LoopTest ==
  /\ at = "test"
  /\ at' = IF number < cursor_[Listed + 1] THEN "read" ELSE "done"
  /\ UNCHANGED <<number, history>>

PushBack ==
  /\ at = "read"
  /\ missing' = missing \ {dense_[number]}
  /\ listed' = IF rose \/ fell THEN {} ELSE listed \cup {dense_[number]}
  /\ number' = number + 1
  /\ at' = "test"
  /\ UNCHANGED <<rose, fell>>

ScanReturn ==
  /\ at = "done"
  /\ at' = "out" /\ number' = 0
  /\ Forget

ScanStep ==
  /\ ScanBegin \/ Reserve \/ LoopBegin \/ LoopTest \/ PushBack \/ ScanReturn
  /\ UNCHANGED vars

Leaves(next) == \E w \in InListed : state_'[w] = next

(* A step of the thread that holds cs_. *)
LockedStep ==
  /\ Next
  /\ UNCHANGED reader
  /\ rose' = (rose \/ (at # "out" /\ Leaves(Listed + 1)))
  /\ missing' = IF rose' THEN {} ELSE missing \cap InListed'
  /\ fell' = (~rose' /\ (fell \/ (at # "out" /\ Leaves(Listed - 1))))
  /\ listed' = IF rose' \/ fell' THEN {} ELSE listed

ScanNext == ScanStep \/ LockedStep

ScanSpec == ScanInit /\ [][ScanNext]_scanVars

-----------------------------------------------------------------------------
(* No position outside dense_ is read, however the cursors move between the   *)
(* test of the loop and the read.                                             *)
ReadsInBounds == at = "read" => number \in Who

(* The difference of two cursors that are read at different times does not    *)
(* wrap to a reservation of billions, unless a slot leaves the state between  *)
(* them: slots that enter it do no harm.                                      *)
ReserveBounded == at = "reserve" /\ ~rose /\ ~fell => number <= N

(* A session that is connected all the time is listed, unless another one     *)
(* starts to disconnect meanwhile (the swap can move it behind the reader):   *)
(* connects, and slots on their way back to idle, do no harm.                 *)
NobodyMissed == at = "done" /\ ~rose => missing = {}

(* And only slots of the state are listed, and none of them twice, while none *)
(* leaves it.  Slots that enter it do no harm: those that come from the state *)
(* before enter behind the reader, those that come from the next one at the   *)
(* end.                                                                       *)
ListsEachOnce ==
  at = "read" /\ ~rose /\ ~fell => dense_[number] \in InListed \ listed
=============================================================================
