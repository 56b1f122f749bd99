--------------------------- MODULE ConnectionCycle ---------------------------
(***************************************************************************)
(* What the server promises of its sessions, without threads, references and *)
(* OVERLAPPEDs: each goes round one cycle, from the pool over an accept, a   *)
(* connection and a disconnect back to the pool.  The accept and the         *)
(* disconnect are posted once a round, data moves only on a connected        *)
(* socket, with one receive and one send at a time, and what returns to the  *)
(* pool has no operation left.                                               *)
(***************************************************************************)
CONSTANT Slot

VARIABLES
  phase,  \* where a session is in its cycle
  io,     \* the operations the kernel has for it
  up      \* its socket is connected

vars == <<phase, io, up>>

Init ==
  /\ phase = [s \in Slot |-> "idle"]
  /\ io = [s \in Slot |-> {}]
  /\ up = [s \in Slot |-> FALSE]

Moves(s, from, to) == phase[s] = from /\ phase' = [phase EXCEPT ![s] = to]

Starts(s, k) == k \notin io[s] /\ io' = [io EXCEPT ![s] = @ \cup {k}]
Ends(s, k) == k \in io[s] /\ io' = [io EXCEPT ![s] = @ \ {k}]

Take(s) ==
  /\ Moves(s, "idle", "taken")
  /\ io[s] = {} /\ ~up[s]
  /\ UNCHANGED <<io, up>>

(* The accept is posted, or refused at once. *)
PostAccept(s) ==
  /\ Moves(s, "taken", "pending")
  /\ Starts(s, "accept") \/ UNCHANGED io
  /\ UNCHANGED up

(* It completes: with a client, or with an error. *)
Accept(s) ==
  /\ phase[s] = "pending"
  /\ Ends(s, "accept")
  /\ \E b \in BOOLEAN : up' = [up EXCEPT ![s] = b]
  /\ UNCHANGED phase

Connect(s) ==
  /\ Moves(s, "pending", "connected")
  /\ io[s] = {} /\ up[s]
  /\ UNCHANGED <<io, up>>

(* Data moves until the disconnect is through. *)
Transfer(s, k) ==
  /\ phase[s] \in {"connected", "ending", "disconnecting"}
  /\ up[s]
  /\ Starts(s, k)
  /\ UNCHANGED <<phase, up>>

Transferred(s, k) ==
  /\ phase[s] \in {"connected", "ending", "disconnecting"}
  /\ Ends(s, k)
  /\ UNCHANGED <<phase, up>>

(* Whoever comes first disconnects; before the connection only its accept can. *)
Disconnect(s) ==
  /\ Moves(s, "connected", "ending") \/ (Moves(s, "pending", "ending") /\ io[s] = {})
  /\ UNCHANGED <<io, up>>

(* The disconnect is posted, or refused at once. *)
PostDisconnect(s) ==
  /\ Moves(s, "ending", "disconnecting")
  /\ (up[s] /\ Starts(s, "disc")) \/ UNCHANGED io
  /\ UNCHANGED up

Disconnected(s) ==
  /\ phase[s] = "disconnecting"
  /\ Ends(s, "disc")
  /\ up' = [up EXCEPT ![s] = FALSE]
  /\ UNCHANGED phase

Return(s) ==
  /\ Moves(s, "disconnecting", "idle")
  /\ io[s] = {} /\ ~up[s]
  /\ UNCHANGED <<io, up>>

Step(s) ==
  \/ Take(s) \/ PostAccept(s) \/ Accept(s) \/ Connect(s)
  \/ \E k \in {"recv", "send"} : Transfer(s, k) \/ Transferred(s, k)
  \/ Disconnect(s) \/ PostDisconnect(s) \/ Disconnected(s) \/ Return(s)

Next == \E s \in Slot : Step(s)

Spec == Init /\ [][Next]_vars
=============================================================================
