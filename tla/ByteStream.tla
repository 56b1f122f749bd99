----------------------------- MODULE ByteStream -----------------------------
(***************************************************************************)
(* What the send side of a session promises: the bytes of the packets it     *)
(* accepts go out, each once and in order, in pieces of any length.  A byte  *)
(* is named by its position among the accepted ones.                         *)
(***************************************************************************)
EXTENDS Integers

VARIABLES
  accepted,  \* how many bytes were accepted
  out,       \* how many of them have gone out
  chunk      \* the last piece that went out

vars == <<accepted, out, chunk>>

Nothing == [k \in {} |-> 0]

Init == accepted = 0 /\ out = 0 /\ chunk = Nothing

Accept == accepted' > accepted /\ UNCHANGED <<out, chunk>>

Transmit ==
  /\ out' > out
  /\ out' <= accepted
  /\ chunk' = [k \in 0 .. out' - out - 1 |-> out + k]
  /\ UNCHANGED accepted

(* The connection is over and the session serves another one. *)
Restart == accepted' = 0 /\ out' = 0 /\ chunk' = Nothing

Next == Accept \/ Transmit \/ Restart

Spec == Init /\ [][Next]_vars
=============================================================================
