--------------------------- MODULE SendRingProofs ---------------------------
(***************************************************************************)
(* The send side of a session for every size of ring and packet: the         *)
(* invariants of SendRing, and that it implements ByteStream.                *)
(***************************************************************************)
EXTENDS SendRing, MirroredRingProofs

(* Where the positions may be: the next byte to go is in the first mapping.   *)
Placed ==
  /\ recvPos_ < Size
  /\ recvPos_ <= sendPos_
  /\ Waiting <= Size
  /\ inFlight => wsaBuf_.buf = recvPos_ /\ wsaBuf_.len >= 1 /\ wsaBuf_.len <= Waiting

(* What was accepted is out or waits; what OnSend has not seen yet does both. *)
Accounted ==
  /\ accepted = (out - done) + Waiting
  /\ done <= out
  /\ done <= Waiting

(* isSending_ is clear only when nothing waits, and set on an open connection *)
(* only when a completion will come.                                          *)
Flagged ==
  /\ ~isSending_ => Waiting = 0
  /\ link = "open" /\ isSending_ => inFlight \/ done > 0

IInv == TypeOK /\ Placed /\ Accounted /\ Flagged /\ OneSend /\ Unsent

LEMMA InitIInv == Init => IInv
<1> SUFFICES ASSUME Init PROVE IInv
  OBVIOUS
<1> USE SizeAssumption
<1>1. TypeOK
  <2>1. ring \in [Cells -> Nat \cup {NoByte}]
    BY DEF Init, Blank
  <2>2. wsaBuf_ \in [buf : 0 .. 2 * Size, len : 0 .. Size]
    BY DEF Init
  <2> QED BY <2>1, <2>2 DEF Init, TypeOK
<1>2. Placed BY DEF Init, Placed, Waiting
<1>3. Accounted BY DEF Init, Accounted, Waiting
<1>4. Flagged BY DEF Init, Flagged, Waiting
<1>5. OneSend BY DEF Init, OneSend
<1>6. Unsent BY DEF Init, Unsent, Waiting, Holds
<1> QED BY <1>1, <1>2, <1>3, <1>4, <1>5, <1>6 DEF IInv

(* The types of the numbers, for the arithmetic. *)
LEMMA Numbers ==
  ASSUME TypeOK
  PROVE  /\ Size \in Nat /\ Size > 0
         /\ recvPos_ \in Nat /\ sendPos_ \in Nat
         /\ wsaBuf_.buf \in Nat /\ wsaBuf_.len \in Nat
         /\ done \in Nat /\ accepted \in Nat /\ out \in Nat
BY SizeAssumption DEF TypeOK

LEMMA SendPacketIInv ==
  ASSUME IInv, NEW n \in 1 .. MaxPacket, SendPacket(n)
  PROVE  IInv' /\ Abstract!Accept
<1>0. /\ Size \in Nat /\ Size > 0 /\ recvPos_ \in Nat /\ sendPos_ \in Nat
      /\ wsaBuf_.buf \in Nat /\ wsaBuf_.len \in Nat
      /\ done \in Nat /\ accepted \in Nat /\ out \in Nat
  BY Numbers DEF IInv
<1>1. n \in Nat /\ n > 0 /\ sendPos_ - recvPos_ + n <= Size
  BY SendRingAssumption DEF SendPacket, Fits, Waiting
<1>2. /\ sendPos_' = sendPos_ + n /\ accepted' = accepted + n /\ isSending_' = TRUE
      /\ ring' = Written(ring, sendPos_, n, accepted)
      /\ UNCHANGED <<recvPos_, done, out, chunk>>
  BY DEF SendPacket
<1>3. recvPos_ < Size /\ recvPos_ <= sendPos_ /\ sendPos_ < 2 * Size
  BY <1>0 DEF IInv, Placed, Waiting
<1>4. \/ isSending_ /\ UNCHANGED <<wsaBuf_, inFlight, link>>
      \/ /\ ~isSending_ /\ ~inFlight /\ done = 0
         /\ wsaBuf_' = [buf |-> recvPos_', len |-> sendPos_' - recvPos_']
         /\ \/ inFlight' = TRUE /\ link' = link
            \/ inFlight' = FALSE /\ link' \in {"stuck", "closed"}
  <2>1. CASE isSending_
    BY <2>1 DEF SendPacket
  <2>2. CASE ~isSending_
    <3>1. ~inFlight /\ done = 0
      BY <1>0, <2>2 DEF IInv, OneSend
    <3>2. RegisterSend("stuck")
      BY <2>2 DEF SendPacket
    <3>3. link \in {"open", "stuck", "closed"} /\ inFlight \in BOOLEAN
      BY DEF IInv, TypeOK
    <3> QED BY <2>2, <3>1, <3>2, <3>3 DEF RegisterSend
  <2> QED BY <2>1, <2>2 DEF IInv, TypeOK
<1>5. TypeOK'
  <2>1. ring' \in [Cells -> Nat \cup {NoByte}]
    BY <1>0, <1>1, <1>2, <1>3, WrittenType DEF IInv, TypeOK
  <2>2. sendPos_' \in 0 .. 2 * Size /\ accepted' \in Nat
    BY <1>0, <1>1, <1>2, <1>3
  <2>3. wsaBuf_' \in [buf : 0 .. 2 * Size, len : 0 .. Size]
    <3>1. CASE wsaBuf_' = wsaBuf_
      BY <3>1 DEF IInv, TypeOK
    <3>2. CASE wsaBuf_' = [buf |-> recvPos_', len |-> sendPos_' - recvPos_']
      <4>1. recvPos_' \in 0 .. 2 * Size /\ sendPos_' - recvPos_' \in 0 .. Size
        BY <1>0, <1>1, <1>2, <1>3
      <4> QED BY <3>2, <4>1
    <3> QED BY <1>4, <3>1, <3>2
  <2>4. inFlight' \in BOOLEAN /\ link' \in {"open", "stuck", "closed"}
    BY <1>4 DEF IInv, TypeOK
  <2> QED BY <1>2, <2>1, <2>2, <2>3, <2>4 DEF IInv, TypeOK
<1>6. Waiting' = Waiting + n
  BY <1>0, <1>1, <1>2 DEF Waiting
<1>7. Placed'
  <2>1. recvPos_' < Size /\ recvPos_' <= sendPos_' /\ Waiting' <= Size
    BY <1>0, <1>1, <1>2, <1>3 DEF Waiting
  <2>2. ASSUME inFlight'
        PROVE  wsaBuf_'.buf = recvPos_' /\ wsaBuf_'.len >= 1 /\ wsaBuf_'.len <= Waiting'
    <3>1. CASE isSending_ /\ UNCHANGED <<wsaBuf_, inFlight, link>>
      <4>1. wsaBuf_.buf = recvPos_ /\ wsaBuf_.len >= 1 /\ wsaBuf_.len <= Waiting
        BY <2>2, <3>1 DEF IInv, Placed
      <4>2. Waiting \in Int
        BY <1>0 DEF Waiting
      <4> QED BY <1>0, <1>1, <1>2, <1>6, <3>1, <4>1, <4>2
    <3>2. CASE wsaBuf_' = [buf |-> recvPos_', len |-> sendPos_' - recvPos_']
      BY <1>0, <1>1, <1>2, <1>3, <3>2 DEF Waiting
    <3> QED BY <1>4, <3>1, <3>2
  <2> QED BY <2>1, <2>2 DEF Placed
<1>8. Accounted'
  BY <1>0, <1>1, <1>2 DEF IInv, Accounted, Waiting
<1>9. Flagged'
  BY <1>0, <1>2, <1>4 DEF IInv, Flagged
<1>10. OneSend'
  BY <1>0, <1>2, <1>4 DEF IInv, OneSend
<1>11. Unsent'
  <2> DEFINE p == out - done
  <2>1. p \in Nat /\ accepted = p + (sendPos_ - recvPos_)
    BY <1>0 DEF IInv, Accounted, Waiting
  <2>2. Holds(ring, recvPos_, sendPos_ - recvPos_, p)
    BY DEF IInv, Unsent, Waiting
  <2>3. Holds(ring', recvPos_, sendPos_ + n - recvPos_, p)
    <3> HIDE DEF p
    <3> QED BY <1>0, <1>1, <1>2, <1>3, <2>1, <2>2, WrittenHolds
  <2>4. Waiting' = sendPos_ + n - recvPos_
    BY <1>0, <1>1, <1>2 DEF Waiting
  <2>5. Holds(ring', recvPos_', Waiting', out' - done')
    BY <1>2, <2>3, <2>4
  <2> QED BY <2>5 DEF Unsent, Holds, Cell
<1>12. Abstract!Accept
  BY <1>0, <1>1, <1>2 DEF Abstract!Accept
<1> QED BY <1>5, <1>7, <1>8, <1>9, <1>10, <1>11, <1>12 DEF IInv

LEMMA CompleteIInv ==
  ASSUME IInv, NEW m \in 1 .. wsaBuf_.len, Complete(m)
  PROVE  IInv' /\ Abstract!Transmit
<1>0. /\ Size \in Nat /\ Size > 0 /\ recvPos_ \in Nat /\ sendPos_ \in Nat
      /\ wsaBuf_.buf \in Nat /\ wsaBuf_.len \in Nat
      /\ done \in Nat /\ accepted \in Nat /\ out \in Nat
  BY Numbers DEF IInv
<1>1. /\ inFlight /\ inFlight' = FALSE /\ done' = m /\ out' = out + m
      /\ chunk' = Bytes(ring, wsaBuf_.buf, m)
      /\ UNCHANGED <<ring, recvPos_, sendPos_, isSending_, wsaBuf_, link, accepted>>
  BY DEF Complete
<1>2. done = 0 /\ isSending_
  BY <1>0, <1>1 DEF IInv, OneSend
<1>3. /\ Waiting \in Nat /\ Waiting <= Size /\ Waiting' = Waiting
      /\ wsaBuf_.buf = recvPos_ /\ m \in Nat /\ m > 0 /\ m <= Waiting
  BY <1>0, <1>1 DEF IInv, Placed, Waiting
<1>4. TypeOK'
  <2>1. done' \in 0 .. Size /\ out' \in Nat
    BY <1>0, <1>1, <1>3
  <2> QED BY <1>1, <2>1 DEF IInv, TypeOK
<1>5. Placed'
  BY <1>1, <1>3 DEF IInv, Placed
<1>6. Accounted'
  BY <1>0, <1>1, <1>2, <1>3 DEF IInv, Accounted
<1>7. Flagged'
  BY <1>1, <1>2, <1>3 DEF IInv, Flagged
<1>8. OneSend'
  BY <1>1, <1>2 DEF OneSend
<1>9. Holds(ring, recvPos_, Waiting, out)
  <2>1. out - done = out
    BY <1>0, <1>2
  <2> QED BY <2>1 DEF IInv, Unsent
<1>10. Unsent'
  <2>1. out' - done' = out
    BY <1>0, <1>1, <1>3
  <2>2. Holds(ring', recvPos_', Waiting', out' - done')
    BY <1>1, <1>3, <1>9, <2>1
  <2> QED BY <2>2 DEF Unsent, Holds, Cell
<1>11. Abstract!Transmit
  <2>1. chunk' = [k \in 0 .. m - 1 |-> out + k]
    <3>1. Bytes(ring, recvPos_, m) = [k \in 0 .. m - 1 |-> out + k]
      BY <1>0, <1>3, <1>9, BytesOfStream
    <3> QED BY <1>1, <1>3, <3>1
  <2>2. out' - out = m /\ out' > out /\ out' <= accepted
    BY <1>0, <1>1, <1>2, <1>3 DEF IInv, Accounted
  <2> QED BY <1>1, <2>1, <2>2 DEF Abstract!Transmit
<1> QED BY <1>4, <1>5, <1>6, <1>7, <1>8, <1>10, <1>11 DEF IInv

LEMMA OnSendIInv ==
  ASSUME IInv, OnSend
  PROVE  IInv' /\ UNCHANGED <<accepted, out, chunk>>
<1>0. /\ Size \in Nat /\ Size > 0 /\ recvPos_ \in Nat /\ sendPos_ \in Nat
      /\ wsaBuf_.buf \in Nat /\ wsaBuf_.len \in Nat
      /\ done \in Nat /\ accepted \in Nat /\ out \in Nat
  BY Numbers DEF IInv
<1> DEFINE q == recvPos_ + done
<1>1. /\ done > 0 /\ done' = 0
      /\ recvPos_' = IF q >= Size THEN q - Size ELSE q
      /\ sendPos_' = IF q >= Size THEN sendPos_ - Size ELSE sendPos_
      /\ isSending_' = (recvPos_' # sendPos_')
      /\ UNCHANGED <<ring, accepted, out, chunk>>
  BY DEF OnSend
<1>2. ~inFlight
  BY <1>1 DEF IInv, OneSend
<1>3. /\ recvPos_ < Size /\ Waiting \in Nat /\ Waiting <= Size /\ done <= Waiting
      /\ sendPos_ = recvPos_ + Waiting
  BY <1>0 DEF IInv, Placed, Accounted, Waiting
<1>4. /\ recvPos_' \in 0 .. 2 * Size /\ sendPos_' \in 0 .. 2 * Size
      /\ recvPos_' < Size /\ recvPos_' <= sendPos_'
      /\ Waiting' = Waiting - done /\ sendPos_' - recvPos_' = Waiting'
      /\ sendPos_' - recvPos_' \in 0 .. Size
  BY <1>0, <1>1, <1>3 DEF Waiting
<1>4a. /\ recvPos_' = sendPos_' <=> Waiting' = 0
       /\ recvPos_' # sendPos_' => Waiting' >= 1
  BY <1>0, <1>1, <1>3 DEF Waiting
<1>5. \/ recvPos_' = sendPos_' /\ UNCHANGED <<wsaBuf_, inFlight, link>>
      \/ /\ recvPos_' # sendPos_'
         /\ wsaBuf_' = [buf |-> recvPos_', len |-> sendPos_' - recvPos_']
         /\ \/ inFlight' = TRUE /\ link' = link
            \/ inFlight' = FALSE /\ link' \in {"stuck", "closed"}
  <2>1. CASE recvPos_' = sendPos_'
    BY <1>1, <2>1 DEF OnSend
  <2>2. CASE recvPos_' # sendPos_'
    <3>1. RegisterSend("closed")
      BY <1>1, <2>2 DEF OnSend
    <3>2. link \in {"open", "stuck", "closed"} /\ inFlight \in BOOLEAN
      BY DEF IInv, TypeOK
    <3> QED BY <1>2, <2>2, <3>1, <3>2 DEF RegisterSend
  <2> QED BY <2>1, <2>2
<1>6. TypeOK'
  <2>1. done' \in 0 .. Size
    BY <1>0, <1>1
  <2>2. wsaBuf_' \in [buf : 0 .. 2 * Size, len : 0 .. Size]
    <3>1. CASE wsaBuf_' = wsaBuf_
      BY <3>1 DEF IInv, TypeOK
    <3>2. CASE wsaBuf_' = [buf |-> recvPos_', len |-> sendPos_' - recvPos_']
      BY <1>4, <3>2
    <3> QED BY <1>5, <3>1, <3>2
  <2>3. inFlight' \in BOOLEAN /\ link' \in {"open", "stuck", "closed"}
    BY <1>5 DEF IInv, TypeOK
  <2> QED BY <1>1, <1>4, <2>1, <2>2, <2>3 DEF IInv, TypeOK
<1>7. Placed'
  <2>1. ASSUME inFlight'
        PROVE  wsaBuf_'.buf = recvPos_' /\ wsaBuf_'.len >= 1 /\ wsaBuf_'.len <= Waiting'
    <3>1. /\ recvPos_' # sendPos_'
          /\ wsaBuf_' = [buf |-> recvPos_', len |-> sendPos_' - recvPos_']
      BY <1>2, <1>5, <2>1
    <3>2. wsaBuf_'.buf = recvPos_' /\ wsaBuf_'.len = Waiting'
      BY <1>4, <3>1
    <3>3. Waiting' >= 1 /\ Waiting' <= Waiting'
      BY <1>0, <1>3, <1>4, <1>4a, <3>1
    <3> QED BY <3>2, <3>3
  <2>2. Waiting' <= Size
    BY <1>0, <1>3, <1>4
  <2> QED BY <1>4, <2>1, <2>2 DEF Placed
<1>8. Accounted'
  BY <1>0, <1>1, <1>3, <1>4 DEF IInv, Accounted
<1>9. Flagged'
  <2>1. ~isSending_' => Waiting' = 0
    BY <1>1, <1>4a
  <2>2. link' = "open" /\ isSending_' => inFlight'
    BY <1>1, <1>5
  <2> QED BY <2>1, <2>2 DEF Flagged
<1>10. OneSend'
  <2>1. inFlight' => recvPos_' # sendPos_'
    BY <1>2, <1>5
  <2>2. inFlight' => isSending_'
    BY <1>1, <2>1
  <2>3. done' = 0 /\ ~(done' > 0)
    BY <1>1
  <2> QED BY <2>2, <2>3 DEF OneSend
<1>11. Unsent'
  <2> DEFINE p == out - done
  <2>1. p \in Nat /\ p + done = out /\ out' - done' = out
    BY <1>0, <1>1 DEF IInv, Accounted
  <2>2. Holds(ring, recvPos_, Waiting, p)
    BY DEF IInv, Unsent
  <2>3. Holds(ring, q, Waiting - done, out)
    <3>1. Holds(ring, recvPos_ + done, Waiting - done, p + done)
      <4> HIDE DEF p
      <4> QED BY <1>0, <1>3, <2>1, <2>2, HoldsRest
    <3> QED BY <2>1, <3>1
  <2>4. Holds(ring, recvPos_', Waiting - done, out)
    <3>1. CASE q >= Size
      <4>1. q \in Nat /\ Waiting - done \in Nat /\ q + (Waiting - done) <= 2 * Size
        BY <1>0, <1>3
      <4>2. Holds(ring, q - Size, Waiting - done, out)
        <5> HIDE DEF q
        <5> QED BY <1>0, <2>3, <3>1, <4>1, HoldsNormalised
      <4> QED BY <1>1, <3>1, <4>2
    <3>2. CASE ~(q >= Size)
      BY <1>1, <2>3, <3>2
    <3> QED BY <3>1, <3>2
  <2>5. Holds(ring', recvPos_', Waiting', out' - done')
    BY <1>1, <1>4, <2>1, <2>4
  <2> QED BY <2>5 DEF Unsent, Holds, Cell
<1> QED BY <1>1, <1>6, <1>7, <1>8, <1>9, <1>10, <1>11 DEF IInv

LEMMA OthersIInv ==
  ASSUME IInv, Fail \/ Close \/ UNCHANGED vars
  PROVE  IInv' /\ UNCHANGED <<accepted, out, chunk>>
<1>1. /\ inFlight' => inFlight
      /\ inFlight' \in BOOLEAN /\ link' \in {"open", "stuck", "closed"}
      /\ link' = "open" => link = "open" /\ inFlight' = inFlight
      /\ UNCHANGED <<ring, recvPos_, sendPos_, isSending_, wsaBuf_, done, accepted, out, chunk>>
  <2>1. inFlight \in BOOLEAN /\ link \in {"open", "stuck", "closed"}
    BY DEF IInv, TypeOK
  <2>2. CASE Fail
    BY <2>2 DEF Fail
  <2>3. CASE Close
    BY <2>1, <2>3 DEF Close
  <2>4. CASE UNCHANGED vars
    BY <2>1, <2>4 DEF vars
  <2> QED BY <2>2, <2>3, <2>4
<1>2. TypeOK'
  BY <1>1 DEF IInv, TypeOK
<1>3. Placed' /\ Accounted'
  BY <1>1 DEF IInv, Placed, Accounted, Waiting
<1>4. Flagged'
  BY <1>1 DEF IInv, Flagged, Waiting
<1>5. OneSend'
  BY <1>1 DEF IInv, OneSend
<1>6. Unsent'
  BY <1>1 DEF IInv, Unsent, Waiting, Holds, Cell
<1> QED BY <1>1, <1>2, <1>3, <1>4, <1>5, <1>6 DEF IInv

LEMMA ReuseIInv ==
  ASSUME IInv, Reuse
  PROVE  IInv' /\ Abstract!Restart
<1>1. /\ ring' = Blank /\ recvPos_' = 0 /\ sendPos_' = 0 /\ isSending_' = FALSE
      /\ wsaBuf_' = [buf |-> 0, len |-> 0] /\ link' = "open"
      /\ accepted' = 0 /\ out' = 0 /\ chunk' = Nothing
      /\ inFlight' = FALSE /\ done' = 0
  BY DEF Reuse, IInv, TypeOK
<1> USE SizeAssumption
<1>2. TypeOK'
  <2>1. ring' \in [Cells -> Nat \cup {NoByte}]
    BY <1>1 DEF Blank
  <2>2. wsaBuf_' \in [buf : 0 .. 2 * Size, len : 0 .. Size]
    BY <1>1
  <2> QED BY <1>1, <2>1, <2>2 DEF TypeOK
<1>3. Placed' /\ Accounted' /\ Flagged'
  <2>1. Waiting' = 0
    BY <1>1 DEF Waiting
  <2>2. Placed'
    BY <1>1, <2>1 DEF Placed
  <2>3. Accounted'
    BY <1>1, <2>1 DEF Accounted
  <2>4. Flagged'
    BY <1>1, <2>1 DEF Flagged
  <2> QED BY <2>2, <2>3, <2>4
<1>4. OneSend'
  BY <1>1 DEF OneSend
<1>5. Unsent'
  BY <1>1 DEF Unsent, Waiting, Holds
<1>6. Abstract!Restart
  BY <1>1 DEF Abstract!Restart, Abstract!Nothing, Nothing
<1> QED BY <1>2, <1>3, <1>4, <1>5, <1>6 DEF IInv

(* Every step keeps the invariant and is a step of ByteStream or a stutter. *)
LEMMA NextIInv == IInv /\ [Next]_vars => IInv' /\ [Abstract!Next]_(Abstract!vars)
<1> SUFFICES ASSUME IInv, [Next]_vars PROVE IInv' /\ [Abstract!Next]_(Abstract!vars)
  OBVIOUS
<1>1. CASE \E n \in 1 .. MaxPacket : SendPacket(n)
  BY <1>1, SendPacketIInv DEF Abstract!Next
<1>2. CASE \E m \in 1 .. wsaBuf_.len : Complete(m)
  BY <1>2, CompleteIInv DEF Abstract!Next
<1>3. CASE OnSend
  BY <1>3, OnSendIInv DEF Abstract!vars
<1>4. CASE Fail \/ Close \/ UNCHANGED vars
  BY <1>4, OthersIInv DEF Abstract!vars
<1>5. CASE Reuse
  BY <1>5, ReuseIInv DEF Abstract!Next
<1> QED BY <1>1, <1>2, <1>3, <1>4, <1>5 DEF Next, Progress

(* The inductive invariant, from which the others follow. *)
THEOREM Invariant == Spec => []IInv
BY InitIInv, NextIInv, PTL DEF Spec

-----------------------------------------------------------------------------
(* TypeOK: the positions and the WSABUF stay in the double mapping, for every *)
(* size of ring and packet (Session::SendPacket, OnSend).                     *)
THEOREM TypeCorrect == Spec => []TypeOK
BY Invariant, PTL DEF IInv

(* Unsent: SendPacket never writes over bytes that are not out.               *)
THEOREM StaysUnsent == Spec => []Unsent
BY Invariant, PTL DEF IInv

(* InsideMapping: the kernel reads only what lies between the positions.      *)
THEOREM StaysInside == Spec => []InsideMapping
<1>1. IInv => InsideMapping
  <2> SUFFICES ASSUME IInv PROVE InsideMapping
    OBVIOUS
  <2>1. /\ Size \in Nat /\ recvPos_ \in Nat /\ sendPos_ \in Nat /\ wsaBuf_.len \in Nat
    BY Numbers DEF IInv
  <2> QED BY <2>1 DEF IInv, Placed, InsideMapping, Waiting
<1> QED BY <1>1, Invariant, PTL

(* NothingLeftBehind: on an open connection with no send refused, what waits  *)
(* is followed by a completion, whoever appended it when.                     *)
THEOREM NothingStaysBehind == Spec => []NothingLeftBehind
<1>1. IInv => NothingLeftBehind
  <2> SUFFICES ASSUME IInv, link = "open", Waiting > 0 PROVE inFlight \/ done > 0
    BY DEF NothingLeftBehind
  <2>1. Waiting # 0
    BY Numbers DEF IInv, Waiting
  <2> QED BY <2>1 DEF IInv, Flagged
<1> QED BY <1>1, Invariant, PTL

(* OneSend: one WSASend at a time, under isSending_.                          *)
THEOREM OneSendOnly == Spec => []OneSend
BY Invariant, PTL DEF IInv

(* GoesOutInOrder: the send side implements ByteStream.                       *)
THEOREM Refines == Spec => GoesOutInOrder
<1>1. Init => Abstract!Init
  BY DEF Init, Nothing, Abstract!Init, Abstract!Nothing
<1> QED BY <1>1, NextIInv, Invariant, PTL DEF Spec, GoesOutInOrder, Abstract!Spec
=============================================================================
