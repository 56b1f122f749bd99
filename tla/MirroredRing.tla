---------------------------- MODULE MirroredRing ----------------------------
(***************************************************************************)
(* MirroredRingBuffer: one block of memory mapped twice in a row, so that a  *)
(* packet that straddles the end is contiguous.  The addresses a and a + Size *)
(* are one cell.  A cell holds a byte, named by its position in a stream.    *)
(***************************************************************************)
EXTENDS Integers

CONSTANT Size  \* buffer_.GetSize()

ASSUME SizeAssumption == Size \in Nat \ {0}

Cells == 0 .. Size - 1
NoByte == -1
Blank == [c \in Cells |-> NoByte]

Cell(a) == IF a < Size THEN a ELSE a - Size

(* How far the cell c is ahead of the address a. *)
Ahead(a, c) == IF c >= Cell(a) THEN c - Cell(a) ELSE c - Cell(a) + Size

(* The ring after n bytes, the first of them p, were written from a on. *)
Written(ring, a, n, p) ==
  [c \in Cells |-> IF Ahead(a, c) < n THEN p + Ahead(a, c) ELSE ring[c]]

(* The n bytes from a on. *)
Bytes(ring, a, n) == [k \in 0 .. n - 1 |-> ring[Cell(a + k)]]

(* They are those of the stream from p on. *)
Holds(ring, a, n, p) == \A k \in 0 .. n - 1 : ring[Cell(a + k)] = p + k
=============================================================================
