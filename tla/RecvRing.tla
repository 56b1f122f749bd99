------------------------------ MODULE RecvRing ------------------------------
(***************************************************************************)
(* The receive side of one session: recvOv_ and its MirroredRingBuffer, the  *)
(* WSARecv the kernel has, and the loop of Session::OnRecv that cuts the     *)
(* bytes into packets.  One thread at a time does this for a session         *)
(* (OverlappedExclusive of SessionLifecycle).                                *)
(*                                                                          *)
(* A byte is its position in what the client sends.                          *)
(***************************************************************************)
EXTENDS MirroredRing

CONSTANTS
  Header,     \* sizeof(PACKET_HEADER)
  Block,      \* Config::kMaxPacketSize: the bytes of a PacketBlock
  MaxField,   \* the greatest value of the size field of a header
  MaxStream   \* bound: the bytes a client sends on one connection

ASSUME RecvRingAssumption ==
  /\ Header \in Nat \ {0} /\ Header <= Size
  /\ Block \in Nat
  /\ MaxField \in Nat
  /\ MaxStream \in Nat

Field == 0 .. MaxField
Empty == [k \in {} |-> 0]
Least(a, b) == IF a < b THEN a ELSE b

VARIABLES
  ring,      \* the byte in each cell
  recvPos_,  \* recvOv_.recvPos_: where the next packet starts
  sendPos_,  \* recvOv_.sendPos_: where the next byte goes
  pc,        \* "posted", "parse", how the connection ended, or "overrun"
  declared,  \* what the client sent: the size field of each packet, by position
  sent,      \* the bytes the client sent
  received,  \* the bytes the kernel put into the ring
  handled,   \* the bytes of the packets handed to the packet worker
  taken      \* the last packet handed over

client == <<declared, sent>>
vars == <<ring, recvPos_, sendPos_, pc, declared, sent, received, handled, taken>>

Available == sendPos_ - recvPos_
Room == Size - sendPos_ + recvPos_

TypeOK ==
  /\ ring \in [Cells -> Nat \cup {NoByte}]
  /\ recvPos_ \in 0 .. 2 * Size
  /\ sendPos_ \in 0 .. 2 * Size
  /\ pc \in {"posted", "parse", "closed", "overflow", "overrun"}
  /\ DOMAIN declared \subseteq Nat
  /\ \A p \in DOMAIN declared : declared[p] \in Field
  /\ sent \in Nat /\ received \in Nat /\ handled \in Nat

(* Session::Init for a new client; Connect posts the first WSARecv. *)
Init ==
  /\ ring = Blank
  /\ recvPos_ = 0
  /\ sendPos_ = 0
  /\ pc = "posted"
  /\ declared = Empty
  /\ sent = 0
  /\ received = 0
  /\ handled = 0
  /\ taken = Empty

(* The client sends a packet; one whose field is too small is only a header. *)
ClientSends(n) ==
  LET width == IF n < Header THEN Header ELSE n
  IN  /\ sent + width <= MaxStream
      /\ declared' = [p \in DOMAIN declared \cup {sent} |->
                        IF p = sent THEN n ELSE declared[p]]
      /\ sent' = sent + width
      /\ UNCHANGED <<ring, recvPos_, sendPos_, pc, received, handled, taken>>

(* The WSARecv completes with n bytes, in pieces as the network has it, and   *)
(* OnRecv counts them in.                                                     *)
Receive(n) ==
  /\ pc = "posted"
  /\ ring' = Written(ring, sendPos_, n, received)
  /\ sendPos_' = sendPos_ + n
  /\ received' = received + n
  /\ pc' = "parse"
  /\ UNCHANGED <<recvPos_, declared, sent, handled, taken>>

(* The size field at recvPos_: the client's if the cells hold one header, and *)
(* anything otherwise.                                                        *)
SizeField ==
  LET p == ring[Cell(recvPos_)]
  IN  IF p \in DOMAIN declared /\ Holds(ring, recvPos_, Header, p)
      THEN {declared[p]} ELSE Field

(* mutant: a packet may be greater than the ring. *)
IsBadTooSmallOnly(n) == n < Header

IsBad(n) == n < Header \/ n >= Size

(* mutant: a packet is taken as soon as its header is there. *)
WholeOnHeader(n) == Available >= Header

(* mutant: the last byte in the ring is waited for again. *)
WholeAndMore(n) == Available > n

(* A packet of n bytes has arrived. *)
Whole(n) == Available >= n

(* AcquirePacket copies the packet into a block of the packet pool and the    *)
(* task takes it along.                                                       *)
TakePacket(n) ==
  /\ ~IsBad(n)
  /\ Whole(n)
  /\ n <= Block
  /\ taken' = Bytes(ring, recvPos_, n)
  /\ recvPos_' = recvPos_ + n
  /\ handled' = handled + n
  /\ UNCHANGED <<ring, sendPos_, pc, client, received>>

(* The size is compared with the ring's, never with the block's: a greater    *)
(* packet is copied over the blocks behind its own.  What the process does    *)
(* then is undefined, and the model ends.                                     *)
OverrunBlock(n) ==
  /\ ~IsBad(n)
  /\ Whole(n)
  /\ n > Block
  /\ pc' = "overrun"
  /\ UNCHANGED <<ring, recvPos_, sendPos_, client, received, handled, taken>>

(* mutant: the positions are never normalised. *)
PostRecvAsIs ==
  /\ pc' \in IF Room = 0 THEN {"overflow"} ELSE {"posted", "closed"}
  /\ UNCHANGED <<ring, recvPos_, sendPos_, client, received, handled, taken>>

(* Nothing whole is left: the positions are normalised and RegisterRecv posts *)
(* the next WSARecv, finds no room for it, or is refused by a dead socket.    *)
PostRecv ==
  /\ recvPos_' = IF recvPos_ >= Size THEN recvPos_ - Size ELSE recvPos_
  /\ sendPos_' = IF recvPos_ >= Size THEN sendPos_ - Size ELSE sendPos_
  /\ pc' \in IF Room = 0 THEN {"overflow"} ELSE {"posted", "closed"}
  /\ UNCHANGED <<ring, client, received, handled, taken>>

(* One round of the loop of OnRecv. *)
Parse ==
  /\ pc = "parse"
  /\ \/ Available < Header /\ PostRecv
     \/ /\ Available >= Header
        /\ \E n \in SizeField :
             \/ /\ IsBad(n)
                /\ pc' = "closed"
                /\ UNCHANGED <<ring, recvPos_, sendPos_, client, received,
                               handled, taken>>
             \/ ~IsBad(n) /\ ~Whole(n) /\ PostRecv
             \/ TakePacket(n)
             \/ OverrunBlock(n)

(* The connection ends while the WSARecv is out. *)
Close ==
  /\ pc = "posted"
  /\ pc' = "closed"
  /\ UNCHANGED <<ring, recvPos_, sendPos_, client, received, handled, taken>>

(* mutant: the OverlappedEx is not reset. *)
ReuseAsLeft ==
  /\ pc \in {"closed", "overflow"}
  /\ pc' = "posted"
  /\ declared' = Empty
  /\ sent' = 0
  /\ received' = 0
  /\ handled' = 0
  /\ taken' = Empty
  /\ UNCHANGED <<ring, recvPos_, sendPos_>>

(* The session is taken from the pool for the next client: OverlappedEx::Reset. *)
Reuse ==
  /\ pc \in {"closed", "overflow"}
  /\ ring' = Blank
  /\ recvPos_' = 0
  /\ sendPos_' = 0
  /\ pc' = "posted"
  /\ declared' = Empty
  /\ sent' = 0
  /\ received' = 0
  /\ handled' = 0
  /\ taken' = Empty

Arrives == \E n \in 1 .. Least(Room, sent - received) : Receive(n)

Next == (\E n \in Field : ClientSends(n)) \/ Arrives \/ Parse \/ Close \/ Reuse

Spec == Init /\ [][Next]_vars

(* What was sent arrives, and the worker that dequeued it goes on. *)
FairSpec == Spec /\ WF_vars(Arrives) /\ WF_vars(Parse)

-----------------------------------------------------------------------------
(* The kernel and the parser stay inside the double mapping, and the kernel   *)
(* never writes over bytes that are not handled yet, however the packets lie  *)
(* across the end of the ring.                                                *)
InsideMapping ==
  /\ recvPos_ <= sendPos_ /\ Room >= 0
  /\ pc = "posted" => sendPos_ + Room <= 2 * Size

(* What lies between the positions is the unhandled part of the stream.       *)
Unparsed == Holds(ring, recvPos_, Available, handled)

(* The "recv buffer overflow" of RegisterRecv cannot happen: a full ring      *)
(* holds a whole packet, since a header that is waited for is below Size.     *)
NeverOverflows == pc # "overflow"

(* Packets that fit a block come out whole and in order, whatever pieces they *)
(* arrive in, up to the first that does not fit: nothing comes out after it.  *)
Abstract == INSTANCE PacketStream WITH Sizes <- Field, Largest <- Block
PacketsComeOut == Abstract!Spec

(* A packet that was sent comes out, unless the connection ends first or one  *)
(* before it, or itself, overruns its block.                                  *)
EveryPacketComesOut ==
  \A p \in 0 .. MaxStream :
    (p \in DOMAIN declared /\ pc # "closed")
      ~> (handled > p \/ pc \in {"closed", "overrun"})

(* An overrun is the doing of a client that sent a packet greater than a      *)
(* block: no cut of the stream and no wrap of the ring makes one up.          *)
OverrunIsSent ==
  pc = "overrun" => handled \in DOMAIN declared /\ declared[handled] > Block
=============================================================================
