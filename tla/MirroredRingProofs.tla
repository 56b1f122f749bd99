------------------------- MODULE MirroredRingProofs -------------------------
(***************************************************************************)
(* What the two users of the mirrored ring need of it.                       *)
(***************************************************************************)
EXTENDS MirroredRing, TLAPS

(* An address inside the double mapping names a cell. *)
LEMMA CellInCells ==
  ASSUME NEW a \in Int, 0 <= a, a < 2 * Size
  PROVE  Cell(a) \in Cells
BY SizeAssumption DEF Cell, Cells

(* How far the cell of an address within one ring of s is ahead of s. *)
LEMMA AheadOf ==
  ASSUME NEW s \in Int, 0 <= s, s < 2 * Size,
         NEW a \in Int, 0 <= a, a < 2 * Size, s - Size <= a, a < s + Size
  PROVE  Ahead(s, Cell(a)) = IF a < s THEN a + Size - s ELSE a - s
BY SizeAssumption DEF Ahead, Cell

(* A write keeps the type of the ring. *)
LEMMA WrittenType ==
  ASSUME NEW ring \in [Cells -> Nat \cup {NoByte}],
         NEW s \in Nat, s < 2 * Size, NEW n \in Nat, NEW p \in Nat
  PROVE  Written(ring, s, n, p) \in [Cells -> Nat \cup {NoByte}]
<1>1. \A c \in Cells : Ahead(s, c) \in Nat
  BY SizeAssumption DEF Ahead, Cell, Cells
<1>2. \A c \in Cells : p + Ahead(s, c) \in Nat
  BY <1>1
<1>3. \A c \in Cells : ring[c] \in Nat \cup {NoByte}
  OBVIOUS
<1> QED BY <1>2, <1>3 DEF Written

(* A write behind the bytes of a stream, into the room they leave, extends    *)
(* them and changes none, also across the end of the ring.                    *)
LEMMA WrittenHolds ==
  ASSUME NEW ring, NEW r \in Nat, NEW s \in Nat, NEW n \in Nat, NEW p \in Nat,
         r <= s, r < Size, s - r + n <= Size, Holds(ring, r, s - r, p)
  PROVE  Holds(Written(ring, s, n, p + (s - r)), r, s + n - r, p)
<1>1. Size \in Nat
  BY SizeAssumption
<1> SUFFICES ASSUME NEW k \in 0 .. s + n - r - 1
             PROVE  Written(ring, s, n, p + (s - r))[Cell(r + k)] = p + k
  BY DEF Holds
<1> DEFINE a == r + k
           c == Cell(a)
           q == p + (s - r)
<1>2. /\ k \in Nat /\ a \in Nat /\ a < s + n /\ a < 2 * Size /\ q \in Nat
      /\ s - Size <= a /\ a < s + Size /\ r + k = a
  BY <1>1
<1>3. s < 2 * Size
  BY <1>1
<1>4. c \in Cells
  BY <1>2, CellInCells
<1>5. Ahead(s, c) = IF a < s THEN a + Size - s ELSE a - s
  BY <1>2, <1>3, AheadOf
<1>6. Written(ring, s, n, q)[c] = IF Ahead(s, c) < n THEN q + Ahead(s, c) ELSE ring[c]
  BY <1>4 DEF Written
<1>7. CASE a < s
  <2>1. ~(Ahead(s, c) < n)
    BY <1>1, <1>2, <1>5, <1>7
  <2>2. k \in 0 .. s - r - 1
    BY <1>2, <1>7
  <2>3. ring[c] = p + k
    BY <2>2 DEF Holds
  <2> QED BY <1>6, <2>1, <2>3
<1>8. CASE ~(a < s)
  <2>1. Ahead(s, c) = a - s /\ a - s < n
    BY <1>2, <1>5, <1>8
  <2>2. q + (a - s) = p + k
    BY <1>2
  <2> QED BY <1>6, <2>1, <2>2
<1> QED BY <1>7, <1>8

(* What is left when the first n bytes are taken. *)
LEMMA HoldsRest ==
  ASSUME NEW ring, NEW r \in Nat, NEW m \in Nat, NEW n \in Nat, NEW p \in Nat,
         n <= m, Holds(ring, r, m, p)
  PROVE  Holds(ring, r + n, m - n, p + n)
<1> SUFFICES ASSUME NEW k \in 0 .. m - n - 1
             PROVE  ring[Cell((r + n) + k)] = (p + n) + k
  BY DEF Holds
<1>1. n + k \in 0 .. m - 1 /\ (r + n) + k = r + (n + k) /\ (p + n) + k = p + (n + k)
  OBVIOUS
<1> QED BY <1>1 DEF Holds

(* The bytes from an address in the second mapping are those from the same    *)
(* place in the first.                                                        *)
LEMMA HoldsNormalised ==
  ASSUME NEW ring, NEW r \in Nat, NEW m \in Nat, NEW p \in Nat,
         r >= Size, Holds(ring, r, m, p), r + m <= 2 * Size
  PROVE  Holds(ring, r - Size, m, p)
<1>1. Size \in Nat
  BY SizeAssumption
<1> SUFFICES ASSUME NEW k \in 0 .. m - 1
             PROVE  ring[Cell(r - Size + k)] = p + k
  BY DEF Holds
<1>2. Cell(r - Size + k) = Cell(r + k)
  BY <1>1 DEF Cell
<1> QED BY <1>2 DEF Holds

(* The first n bytes are those of the stream. *)
LEMMA BytesOfStream ==
  ASSUME NEW ring, NEW r \in Nat, NEW m \in Nat, NEW n \in Nat, NEW p \in Nat,
         n <= m, Holds(ring, r, m, p)
  PROVE  Bytes(ring, r, n) = [k \in 0 .. n - 1 |-> p + k]
<1>1. \A k \in 0 .. n - 1 : ring[Cell(r + k)] = p + k
  BY DEF Holds
<1> QED BY <1>1 DEF Bytes
=============================================================================
