---------------------------- MODULE PacketStream ----------------------------
(***************************************************************************)
(* What the receive side of a session promises: the packets a client sends   *)
(* come out one by one, whole and in order, up to the first that is greater  *)
(* than Largest; none comes out after that one.  A byte of the connection is *)
(* named by its position in what the client sends.                           *)
(***************************************************************************)
EXTENDS Integers

CONSTANTS
  Sizes,   \* the values a size field may have
  Largest  \* the greatest packet that can be handed over

VARIABLES
  declared,  \* the size field of the packet that starts at a position
  sent,      \* the end of what was sent
  handled,   \* the position up to which packets have come out
  taken      \* the bytes of the last packet that came out

vars == <<declared, sent, handled, taken>>

NoPackets == [p \in {} |-> 0]
NoBytes == [k \in {} |-> 0]

Init == declared = NoPackets /\ sent = 0 /\ handled = 0 /\ taken = NoBytes

Send(n) ==
  /\ declared' = [p \in DOMAIN declared \cup {sent} |->
                    IF p = sent THEN n ELSE declared[p]]
  /\ sent' > sent
  /\ UNCHANGED <<handled, taken>>

Deliver ==
  /\ handled \in DOMAIN declared
  /\ declared[handled] <= Largest
  /\ handled' = handled + declared[handled]
  /\ handled' <= sent
  /\ taken' = [k \in 0 .. declared[handled] - 1 |-> handled + k]
  /\ UNCHANGED <<declared, sent>>

(* The connection is over and the session serves another one. *)
Restart == declared' = NoPackets /\ sent' = 0 /\ handled' = 0 /\ taken' = NoBytes

Next == Deliver \/ Restart \/ \E n \in Sizes : Send(n)

Spec == Init /\ [][Next]_vars
=============================================================================
