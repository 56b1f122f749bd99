------------------------------ MODULE SendRing ------------------------------
(***************************************************************************)
(* The send side of one session: sendOv_ and its MirroredRingBuffer, the     *)
(* WSASend the kernel has, and isSending_.  Packets are sent by the packet   *)
(* worker (replies, Broadcast) and by the IO worker that connects, while     *)
(* another IO worker may be about to handle the last WSASend; each call      *)
(* holds sendCs_ and is one step.                                            *)
(*                                                                          *)
(* A byte is its position among the accepted ones.                           *)
(***************************************************************************)
EXTENDS MirroredRing

CONSTANTS
  MaxPacket,  \* the size of the greatest packet
  MaxStream   \* bound: the bytes accepted on one connection

ASSUME SendRingAssumption == MaxPacket \in Nat /\ MaxStream \in Nat

Nothing == [k \in {} |-> 0]

VARIABLES
  ring,        \* the byte in each cell
  recvPos_,    \* sendOv_.recvPos_: the first byte that is not known to be out
  sendPos_,    \* sendOv_.sendPos_: where the next packet goes
  isSending_,
  wsaBuf_,     \* sendOv_.wsaBuf_: the address and the length of the WSASend
  inFlight,    \* the kernel has the WSASend
  done,        \* the bytes of a completion that OnSend has not seen yet
  link,        \* "open", "stuck" (a send was refused) or "closed"
  accepted,    \* the bytes SendPacket accepted
  out,         \* the bytes the kernel sent
  chunk        \* the last ones of them

vars == <<ring, recvPos_, sendPos_, isSending_, wsaBuf_, inFlight, done, link,
          accepted, out, chunk>>

Waiting == sendPos_ - recvPos_

TypeOK ==
  /\ ring \in [Cells -> Nat \cup {NoByte}]
  /\ recvPos_ \in 0 .. 2 * Size
  /\ sendPos_ \in 0 .. 2 * Size
  /\ isSending_ \in BOOLEAN /\ inFlight \in BOOLEAN
  /\ wsaBuf_ \in [buf : 0 .. 2 * Size, len : 0 .. Size]
  /\ done \in 0 .. Size
  /\ link \in {"open", "stuck", "closed"}
  /\ accepted \in Nat /\ out \in Nat

Init ==
  /\ ring = Blank
  /\ recvPos_ = 0
  /\ sendPos_ = 0
  /\ isSending_ = FALSE
  /\ wsaBuf_ = [buf |-> 0, len |-> 0]
  /\ inFlight = FALSE
  /\ done = 0
  /\ link = "open"
  /\ accepted = 0
  /\ out = 0
  /\ chunk = Nothing

(* RegisterSend: all that waits is given to the kernel, or WSASend is refused, *)
(* which it always is on a closed connection.  A refusal leaves isSending_     *)
(* set; only the caller OnSend disconnects after one.                          *)
RegisterSend(onRefusal) ==
  /\ wsaBuf_' = [buf |-> recvPos_', len |-> sendPos_' - recvPos_']
  /\ \/ link = "open" /\ inFlight' = TRUE /\ UNCHANGED link
     \/ /\ inFlight' = inFlight
        /\ link' = IF link = "open" THEN onRefusal ELSE link

(* mutant: only the bytes in flight are counted. *)
FitsBesideFlight(n) == wsaBuf_.len + n <= Size

Fits(n) == Waiting + n <= Size

(* mutant: a WSASend is posted whether or not one is out. *)
SendPacketAtOnce(n) ==
  /\ accepted + n <= MaxStream
  /\ Fits(n)
  /\ ring' = Written(ring, sendPos_, n, accepted)
  /\ sendPos_' = sendPos_ + n
  /\ accepted' = accepted + n
  /\ isSending_' = TRUE
  /\ UNCHANGED <<recvPos_, done, out, chunk>>
  /\ RegisterSend("stuck")

(* A packet of n bytes is appended, and sent if no send is out. *)
SendPacket(n) ==
  /\ accepted + n <= MaxStream
  /\ Fits(n)
  /\ ring' = Written(ring, sendPos_, n, accepted)
  /\ sendPos_' = sendPos_ + n
  /\ accepted' = accepted + n
  /\ isSending_' = TRUE
  /\ UNCHANGED <<recvPos_, done, out, chunk>>
  /\ IF isSending_ THEN UNCHANGED <<wsaBuf_, inFlight, link>> ELSE RegisterSend("stuck")

(* The kernel has sent the first m bytes of the WSASend. *)
Complete(m) ==
  /\ inFlight
  /\ inFlight' = FALSE
  /\ done' = m
  /\ out' = out + m
  /\ chunk' = Bytes(ring, wsaBuf_.buf, m)
  /\ UNCHANGED <<ring, recvPos_, sendPos_, isSending_, wsaBuf_, link, accepted>>

(* The WSASend completes with an error: IocpCore::HandleError disconnects. *)
Fail ==
  /\ inFlight
  /\ inFlight' = FALSE
  /\ link' = "closed"
  /\ UNCHANGED <<ring, recvPos_, sendPos_, isSending_, wsaBuf_, done, accepted, out, chunk>>

(* mutant: the send is over, whatever was appended meanwhile. *)
OnSendForgets ==
  /\ done > 0
  /\ done' = 0
  /\ LET p == recvPos_ + done
     IN  /\ recvPos_' = IF p >= Size THEN p - Size ELSE p
         /\ sendPos_' = IF p >= Size THEN sendPos_ - Size ELSE sendPos_
  /\ isSending_' = FALSE
  /\ UNCHANGED <<wsaBuf_, inFlight, link, ring, accepted, out, chunk>>

(* mutant: the positions are never normalised. *)
OnSendAsIs ==
  /\ done > 0
  /\ done' = 0
  /\ recvPos_' = recvPos_ + done
  /\ UNCHANGED sendPos_
  /\ isSending_' = (recvPos_' # sendPos_')
  /\ IF isSending_' THEN RegisterSend("closed") ELSE UNCHANGED <<wsaBuf_, inFlight, link>>
  /\ UNCHANGED <<ring, accepted, out, chunk>>

(* The bytes that are out are left behind, the positions are normalised, and  *)
(* what is left or was appended meanwhile is sent.                            *)
OnSend ==
  /\ done > 0
  /\ done' = 0
  /\ LET p == recvPos_ + done
     IN  /\ recvPos_' = IF p >= Size THEN p - Size ELSE p
         /\ sendPos_' = IF p >= Size THEN sendPos_ - Size ELSE sendPos_
  /\ isSending_' = (recvPos_' # sendPos_')
  /\ IF isSending_' THEN RegisterSend("closed") ELSE UNCHANGED <<wsaBuf_, inFlight, link>>
  /\ UNCHANGED <<ring, accepted, out, chunk>>

(* The connection ends otherwise, for instance by its receive side. *)
Close ==
  /\ link # "closed"
  /\ link' = "closed"
  /\ UNCHANGED <<ring, recvPos_, sendPos_, isSending_, wsaBuf_, inFlight, done, accepted,
                 out, chunk>>

(* mutant: isSending_ is not cleared for the next client. *)
ReuseStillSending ==
  /\ link = "closed" /\ ~inFlight /\ done = 0
  /\ ring' = Blank /\ recvPos_' = 0 /\ sendPos_' = 0
  /\ wsaBuf_' = [buf |-> 0, len |-> 0] /\ link' = "open"
  /\ accepted' = 0 /\ out' = 0 /\ chunk' = Nothing
  /\ UNCHANGED <<isSending_, inFlight, done>>

(* The session is taken from the pool for the next client; no operation is    *)
(* left (IdleIsClean of SessionLifecycle).                                    *)
Reuse ==
  /\ link = "closed" /\ ~inFlight /\ done = 0
  /\ ring' = Blank /\ recvPos_' = 0 /\ sendPos_' = 0
  /\ isSending_' = FALSE
  /\ wsaBuf_' = [buf |-> 0, len |-> 0] /\ link' = "open"
  /\ accepted' = 0 /\ out' = 0 /\ chunk' = Nothing
  /\ UNCHANGED <<inFlight, done>>

Progress == OnSend \/ \E m \in 1 .. wsaBuf_.len : Complete(m)

Next == (\E n \in 1 .. MaxPacket : SendPacket(n)) \/ Progress \/ Fail \/ Close \/ Reuse

Spec == Init /\ [][Next]_vars

(* The kernel gets a send over and the worker that dequeued it goes on. *)
FairSpec == Spec /\ WF_vars(Progress)

-----------------------------------------------------------------------------
(* What is not out yet, in flight or not, is never overwritten: between the   *)
(* positions lies the stream from the first byte not known to be out on.      *)
Unsent == Holds(ring, recvPos_, Waiting, out - done)

(* The ring is never overfull, and the kernel reads inside the double mapping *)
(* and only what lies between the positions.                                  *)
InsideMapping ==
  /\ recvPos_ <= sendPos_ /\ Waiting <= Size
  /\ inFlight => /\ wsaBuf_.buf = recvPos_ /\ wsaBuf_.len \in 1 .. Waiting
                 /\ recvPos_ + wsaBuf_.len <= 2 * Size

(* Nothing lies in the ring with no one to send it: while the connection is   *)
(* open, what waits is followed by a completion.                              *)
NothingLeftBehind == link = "open" /\ Waiting > 0 => inFlight \/ done > 0

(* One WSASend at a time, and isSending_ says so: OVERLAPPED and WSABUF are   *)
(* not written while one is out.                                              *)
OneSend == (inFlight => done = 0) /\ (inFlight \/ done > 0 => isSending_)

(* Everything accepted goes out once and in order, whatever pieces the kernel *)
(* takes and whoever appends meanwhile.                                       *)
Abstract == INSTANCE ByteStream
GoesOutInOrder == Abstract!Spec

(* What was accepted goes out, unless a send is refused or the connection ends. *)
Drains == \A p \in 0 .. MaxStream :
  (accepted > p /\ link = "open") ~> (out > p \/ link # "open")
=============================================================================
