--------------------------- MODULE RecvRingProofs ---------------------------
(***************************************************************************)
(* The receive side of a session for every size of ring, header and packet:  *)
(* the invariants of RecvRing, and that it implements PacketStream.          *)
(***************************************************************************)
EXTENDS RecvRing, MirroredRingProofs

Width(n) == IF n < Header THEN Header ELSE n

(* The client's packets follow each other up to the end of what it sent.      *)
Tiled ==
  \A p \in DOMAIN declared :
    /\ p + Width(declared[p]) <= sent
    /\ p + Width(declared[p]) \in DOMAIN declared \cup {sent}

(* What the kernel delivered is what is handled and what lies in the ring,    *)
(* and the parser stands at the start of a packet.                            *)
Accounted ==
  /\ received = handled + Available
  /\ received <= sent
  /\ handled \in DOMAIN declared \cup {sent}

(* Where the positions may be: the kernel starts in the first mapping.        *)
Placed ==
  /\ recvPos_ <= sendPos_
  /\ sendPos_ - recvPos_ <= Size
  /\ sendPos_ < 2 * Size
  /\ pc = "posted" => recvPos_ < Size

IInv ==
  TypeOK /\ Placed /\ Accounted /\ Tiled /\ Unparsed /\ NeverOverflows /\ OverrunIsSent

-----------------------------------------------------------------------------
(* The header at the start of a packet is the client's, once it is whole. *)
LEMMA FieldIsDeclared ==
  ASSUME IInv, Available >= Header
  PROVE  handled \in DOMAIN declared /\ SizeField = {declared[handled]}
<1>1. /\ recvPos_ \in Nat /\ sendPos_ \in Nat /\ handled \in Nat /\ received \in Nat
      /\ sent \in Nat /\ Header \in Nat /\ Header > 0
  BY RecvRingAssumption DEF IInv, TypeOK
<1>2. Holds(ring, recvPos_, Header, handled)
  BY <1>1 DEF IInv, Unparsed, Available, Holds
<1>3. ring[Cell(recvPos_)] = handled
  <2>1. recvPos_ + 0 = recvPos_ /\ handled + 0 = handled /\ 0 \in 0 .. Header - 1
    BY <1>1
  <2> QED BY <2>1, <1>2 DEF Holds
<1>4. handled # sent
  BY <1>1 DEF IInv, Accounted, Available
<1>5. handled \in DOMAIN declared
  BY <1>4 DEF IInv, Accounted
<1> QED BY <1>2, <1>3, <1>5 DEF SizeField

LEMMA InitIInv == Init => IInv
<1> SUFFICES ASSUME Init PROVE IInv
  OBVIOUS
<1> USE SizeAssumption, RecvRingAssumption
<1>1. TypeOK BY DEF Init, TypeOK, Empty, Field, Blank, Cells
<1>2. Placed BY DEF Init, Placed
<1>3. Accounted BY DEF Init, Accounted, Available
<1>4. Tiled BY DEF Init, Tiled, Empty
<1>5. Unparsed BY DEF Init, Unparsed, Available, Holds
<1>6. NeverOverflows BY DEF Init, NeverOverflows
<1>7. OverrunIsSent BY DEF Init, OverrunIsSent
<1> QED BY <1>1, <1>2, <1>3, <1>4, <1>5, <1>6, <1>7 DEF IInv

LEMMA ClientSendsIInv ==
  ASSUME IInv, NEW n \in Field, ClientSends(n)
  PROVE  IInv'
<1> DEFINE w == Width(n)
<1>0. /\ sent \in Nat /\ Header \in Nat \ {0} /\ n \in Nat /\ w \in Nat /\ w > 0
      /\ sent' = sent + w
      /\ declared' = [p \in DOMAIN declared \cup {sent} |-> IF p = sent THEN n ELSE declared[p]]
      /\ UNCHANGED <<ring, recvPos_, sendPos_, pc, received, handled, taken>>
  BY RecvRingAssumption DEF IInv, TypeOK, ClientSends, Width, Field
<1>1. sent \notin DOMAIN declared
  <2> SUFFICES ASSUME sent \in DOMAIN declared PROVE FALSE
    OBVIOUS
  <2>1. declared[sent] \in Nat
    BY DEF IInv, TypeOK, Field
  <2>2. Width(declared[sent]) > 0 /\ Width(declared[sent]) \in Nat
    BY <1>0, <2>1 DEF Width
  <2> QED BY <1>0, <2>2 DEF IInv, Tiled
<1>2. TypeOK'
  <2>1. DOMAIN declared' \subseteq Nat
    BY <1>0 DEF IInv, TypeOK
  <2>2. \A p \in DOMAIN declared' : declared'[p] \in Field
    BY <1>0 DEF IInv, TypeOK
  <2>3. sent' \in Nat
    BY <1>0
  <2> QED BY <1>0, <2>1, <2>2, <2>3 DEF IInv, TypeOK
<1>3. Placed'
  BY <1>0 DEF IInv, Placed
<1>4. Accounted'
  <2>1. received \in Nat
    BY DEF IInv, TypeOK
  <2>2. handled' \in DOMAIN declared'
    BY <1>0 DEF IInv, Accounted
  <2> QED BY <1>0, <2>1, <2>2 DEF IInv, Accounted, Available
<1>5. Tiled'
  <2> SUFFICES ASSUME NEW p \in DOMAIN declared'
               PROVE  /\ p + Width(declared'[p]) <= sent'
                      /\ p + Width(declared'[p]) \in DOMAIN declared' \cup {sent'}
    BY DEF Tiled, Width
  <2>1. CASE p = sent
    BY <1>0, <2>1
  <2>2. CASE p # sent
    <3>1. p \in DOMAIN declared /\ declared'[p] = declared[p] /\ declared[p] \in Nat /\ p \in Nat
      BY <1>0, <2>2 DEF IInv, TypeOK, Field
    <3>2. /\ p + Width(declared[p]) <= sent
          /\ p + Width(declared[p]) \in DOMAIN declared \cup {sent}
      BY <3>1 DEF IInv, Tiled
    <3>3. Width(declared[p]) \in Nat
      BY <1>0, <3>1 DEF Width
    <3>4. p + Width(declared'[p]) <= sent'
      BY <1>0, <3>1, <3>2, <3>3
    <3>5. p + Width(declared'[p]) \in DOMAIN declared'
      BY <1>0, <3>1, <3>2
    <3> QED BY <3>4, <3>5
  <2> QED BY <2>1, <2>2
<1>6. Unparsed'
  BY <1>0 DEF IInv, Unparsed, Available, Holds, Cell
<1>7. NeverOverflows'
  BY <1>0 DEF IInv, NeverOverflows
<1>8. OverrunIsSent'
  BY <1>0, <1>1 DEF IInv, OverrunIsSent
<1> QED BY <1>2, <1>3, <1>4, <1>5, <1>6, <1>7, <1>8 DEF IInv

LEMMA ReceiveIInv ==
  ASSUME IInv, NEW n \in 1 .. Least(Room, sent - received), Receive(n)
  PROVE  IInv'
<1>0. /\ recvPos_ \in Nat /\ sendPos_ \in Nat /\ handled \in Nat /\ received \in Nat
      /\ sent \in Nat /\ Size \in Nat /\ Size > 0
  BY SizeAssumption DEF IInv, TypeOK
<1>1. n \in Nat /\ n > 0 /\ n <= Size - sendPos_ + recvPos_ /\ received + n <= sent
  BY <1>0 DEF Least, Room
<1>2. recvPos_ < Size /\ recvPos_ <= sendPos_ /\ sendPos_ + n <= recvPos_ + Size
  BY <1>0, <1>1 DEF IInv, Placed, Receive
<1>3. /\ sendPos_' = sendPos_ + n /\ received' = received + n /\ pc' = "parse"
      /\ ring' = Written(ring, sendPos_, n, received)
      /\ UNCHANGED <<recvPos_, declared, sent, handled, taken>>
  BY DEF Receive
<1>4. TypeOK'
  <2>1. sendPos_ < 2 * Size /\ ring \in [Cells -> Nat \cup {NoByte}]
    BY <1>0, <1>2 DEF IInv, TypeOK, Placed
  <2>2. ring' \in [Cells -> Nat \cup {NoByte}]
    BY <1>0, <1>1, <1>3, <2>1, WrittenType
  <2>3. sendPos_' \in 0 .. 2 * Size /\ received' \in Nat
    BY <1>0, <1>1, <1>2, <1>3
  <2> QED BY <1>3, <2>2, <2>3 DEF IInv, TypeOK
<1>5. Placed'
  BY <1>0, <1>1, <1>2, <1>3 DEF Placed
<1>6. Accounted'
  BY <1>0, <1>1, <1>2, <1>3 DEF IInv, Accounted, Available
<1>7. Tiled'
  BY <1>3 DEF IInv, Tiled, Width
<1>8. Unparsed'
  <2>1. Holds(ring, recvPos_, sendPos_ - recvPos_, handled)
    BY DEF IInv, Unparsed, Available
  <2>2. sendPos_ - recvPos_ + n <= Size /\ received = handled + (sendPos_ - recvPos_)
    BY <1>0, <1>1, <1>2 DEF IInv, Accounted, Available
  <2>3. Holds(ring', recvPos_, sendPos_ + n - recvPos_, handled)
    BY <1>0, <1>1, <1>2, <1>3, <2>1, <2>2, WrittenHolds
  <2>4. Available' = sendPos_ + n - recvPos_
    BY <1>0, <1>1, <1>3 DEF Available
  <2>5. Holds(ring', recvPos_', Available', handled')
    BY <1>3, <2>3, <2>4
  <2> QED BY <2>5 DEF Unparsed, Holds, Cell
<1>9. NeverOverflows' /\ OverrunIsSent'
  BY <1>3 DEF NeverOverflows, OverrunIsSent
<1> QED BY <1>4, <1>5, <1>6, <1>7, <1>8, <1>9 DEF IInv

LEMMA TakePacketIInv ==
  ASSUME IInv, pc = "parse", Available >= Header, NEW n \in SizeField, TakePacket(n)
  PROVE  IInv' /\ Abstract!Deliver
<1>0. /\ recvPos_ \in Nat /\ sendPos_ \in Nat /\ handled \in Nat /\ received \in Nat
      /\ sent \in Nat /\ Size \in Nat /\ Header \in Nat
  BY SizeAssumption, RecvRingAssumption DEF IInv, TypeOK
<1>1. handled \in DOMAIN declared /\ n = declared[handled]
  BY FieldIsDeclared
<1>2. n \in Nat /\ n >= Header /\ n < Size /\ n <= Block /\ n <= sendPos_ - recvPos_
  <2>1. n \in Nat
    BY <1>1 DEF IInv, TypeOK, Field
  <2> QED BY <1>0, <2>1 DEF TakePacket, IsBad, Whole, Available
<1>3. /\ recvPos_' = recvPos_ + n /\ handled' = handled + n
      /\ taken' = Bytes(ring, recvPos_, n)
      /\ UNCHANGED <<ring, sendPos_, pc, declared, sent, received>>
  BY DEF TakePacket, client
<1>4. Placed
  BY DEF IInv
<1>5. TypeOK'
  <2>1. recvPos_' \in 0 .. 2 * Size /\ handled' \in Nat
    BY <1>0, <1>2, <1>3, <1>4 DEF Placed
  <2> QED BY <1>3, <2>1 DEF IInv, TypeOK
<1>6. Placed'
  BY <1>0, <1>2, <1>3, <1>4 DEF Placed
<1>7. Accounted'
  <2>1. Width(n) = n
    BY <1>0, <1>2 DEF Width
  <2>2. handled' \in DOMAIN declared \cup {sent}
    BY <1>1, <1>3, <2>1 DEF IInv, Tiled
  <2> QED BY <1>0, <1>2, <1>3, <2>2 DEF IInv, Accounted, Available
<1>8. Tiled'
  BY <1>3 DEF IInv, Tiled, Width
<1>9. Unparsed'
  <2>1. Available \in Nat /\ n <= Available /\ Available' = Available - n
    BY <1>0, <1>2, <1>3, <1>4 DEF Placed, Available
  <2>2. Holds(ring, recvPos_ + n, Available - n, handled + n)
    BY <1>0, <1>2, <2>1, HoldsRest DEF IInv, Unparsed
  <2> QED BY <1>3, <2>1, <2>2 DEF Unparsed, Holds, Cell
<1>10. NeverOverflows' /\ OverrunIsSent'
  BY <1>3 DEF IInv, NeverOverflows, OverrunIsSent
<1>11. Abstract!Deliver
  <2>1. Available \in Nat /\ n <= Available
    BY <1>0, <1>2, <1>4 DEF Placed, Available
  <2>2. taken' = [k \in 0 .. declared[handled] - 1 |-> handled + k]
    <3>1. Bytes(ring, recvPos_, n) = [k \in 0 .. n - 1 |-> handled + k]
      BY <1>0, <1>2, <2>1, BytesOfStream DEF IInv, Unparsed
    <3> QED BY <1>1, <1>3, <3>1
  <2>3. handled' <= sent
    BY <1>0, <1>2, <1>3 DEF IInv, Accounted, Available
  <2> QED BY <1>1, <1>2, <1>3, <2>2, <2>3 DEF Abstract!Deliver
<1> QED BY <1>5, <1>6, <1>7, <1>8, <1>9, <1>10, <1>11 DEF IInv

(* Only a client's packet overruns its block. *)
LEMMA OverrunBlockIInv ==
  ASSUME IInv, Available >= Header, NEW n \in SizeField, OverrunBlock(n)
  PROVE  IInv'
<1>1. handled \in DOMAIN declared /\ n = declared[handled]
  BY FieldIsDeclared
<1>2. /\ n > Block /\ pc' = "overrun"
      /\ UNCHANGED <<ring, recvPos_, sendPos_, declared, sent, received, handled, taken>>
  BY DEF OverrunBlock, client
<1>3. OverrunIsSent'
  BY <1>1, <1>2 DEF OverrunIsSent
<1> QED BY <1>2, <1>3 DEF IInv, TypeOK, Placed, Accounted, Tiled, Width, Unparsed,
           Available, Holds, Cell, NeverOverflows

LEMMA PostRecvIInv ==
  ASSUME IInv, PostRecv, Available < Size
  PROVE  IInv'
<1>0. /\ recvPos_ \in Nat /\ sendPos_ \in Nat /\ handled \in Nat /\ received \in Nat
      /\ sent \in Nat /\ Size \in Nat /\ Size > 0
  BY SizeAssumption DEF IInv, TypeOK
<1>1. Placed
  BY DEF IInv
<1>2. /\ recvPos_' = IF recvPos_ >= Size THEN recvPos_ - Size ELSE recvPos_
      /\ sendPos_' = IF recvPos_ >= Size THEN sendPos_ - Size ELSE sendPos_
      /\ UNCHANGED <<ring, declared, sent, received, handled, taken>>
  BY DEF PostRecv, client
<1>3. pc' \in {"posted", "closed"}
  BY <1>0 DEF PostRecv, Room, Available
<1>4. /\ recvPos_' \in Nat /\ sendPos_' \in Nat /\ recvPos_' < Size
      /\ recvPos_' <= sendPos_' /\ sendPos_' < 2 * Size /\ Available' = Available
  BY <1>0, <1>1, <1>2 DEF Placed, Available
<1>5. TypeOK'
  <2>1. recvPos_' \in 0 .. 2 * Size /\ sendPos_' \in 0 .. 2 * Size
    BY <1>0, <1>4
  <2>2. pc' \in {"posted", "parse", "closed", "overflow", "overrun"}
    BY <1>3
  <2> QED BY <1>2, <2>1, <2>2 DEF IInv, TypeOK
<1>6. Placed'
  <2>1. sendPos_' - recvPos_' <= Size
    BY <1>0, <1>1, <1>2 DEF Placed
  <2> QED BY <1>4, <2>1 DEF Placed
<1>7. Accounted'
  BY <1>2, <1>4 DEF IInv, Accounted
<1>8. Tiled'
  BY <1>2 DEF IInv, Tiled, Width
<1>9. Unparsed'
  <2>1. Available \in Nat /\ recvPos_ + Available <= 2 * Size
    BY <1>0, <1>1 DEF Placed, Available
  <2>2. Holds(ring, recvPos_', Available, handled)
    BY <1>0, <1>2, <2>1, HoldsNormalised DEF IInv, Unparsed
  <2> QED BY <1>2, <1>4, <2>2 DEF Unparsed, Holds, Cell
<1>10. NeverOverflows' /\ OverrunIsSent'
  BY <1>3 DEF NeverOverflows, OverrunIsSent
<1> QED BY <1>5, <1>6, <1>7, <1>8, <1>9, <1>10 DEF IInv

(* The loop stops with less than a ring in the ring: a size field that is     *)
(* waited for is below Size.                                                  *)
LEMMA ParseIInv ==
  ASSUME IInv, Parse
  PROVE  IInv' /\ (Abstract!Deliver \/ UNCHANGED <<declared, sent, handled, taken>>)
<1>0. /\ recvPos_ \in Nat /\ sendPos_ \in Nat /\ Size \in Nat /\ Header \in Nat
      /\ Header <= Size /\ Available \in Int
  BY SizeAssumption, RecvRingAssumption DEF IInv, TypeOK, Available
<1>1. CASE Available < Header /\ PostRecv
  <2>1. Available < Size
    BY <1>0, <1>1
  <2> QED BY <1>1, <2>1, PostRecvIInv DEF PostRecv, client
<1>2. CASE /\ Available >= Header
           /\ \E n \in SizeField :
                IsBad(n) /\ pc' = "closed"
                /\ UNCHANGED <<ring, recvPos_, sendPos_, client, received, handled, taken>>
  BY <1>2 DEF client, IInv, TypeOK, Placed, Accounted, Tiled, Width, Unparsed, Available,
              Holds, Cell, NeverOverflows, OverrunIsSent
<1>3. CASE /\ Available >= Header
           /\ \E n \in SizeField : ~IsBad(n) /\ ~Whole(n) /\ PostRecv
  <2>1. PICK n \in SizeField : ~IsBad(n) /\ ~Whole(n) /\ PostRecv
    BY <1>3
  <2>2. n \in Nat
    BY <1>3, FieldIsDeclared DEF IInv, TypeOK, Field
  <2>3. Available < Size
    BY <1>0, <2>1, <2>2 DEF IsBad, Whole
  <2> QED BY <2>1, <2>3, PostRecvIInv DEF PostRecv, client
<1>4. CASE Available >= Header /\ \E n \in SizeField : TakePacket(n)
  <2>1. pc = "parse"
    BY DEF Parse
  <2> QED BY <1>4, <2>1, TakePacketIInv
<1>5. CASE Available >= Header /\ \E n \in SizeField : OverrunBlock(n)
  BY <1>5, OverrunBlockIInv DEF OverrunBlock, client
<1> QED BY <1>1, <1>2, <1>3, <1>4, <1>5 DEF Parse

LEMMA CloseIInv == IInv /\ Close => IInv'
BY DEF Close, client, IInv, TypeOK, Placed, Accounted, Tiled, Width, Unparsed, Available,
       Holds, Cell, NeverOverflows, OverrunIsSent

LEMMA ReuseIInv ==
  ASSUME Reuse
  PROVE  IInv'
<1> USE SizeAssumption, RecvRingAssumption
<1>1. TypeOK' BY DEF Reuse, TypeOK, Empty, Field, Blank, Cells
<1>2. Placed' BY DEF Reuse, Placed
<1>3. Accounted' BY DEF Reuse, Accounted, Available
<1>4. Tiled' BY DEF Reuse, Tiled, Empty
<1>5. Unparsed' BY DEF Reuse, Unparsed, Available, Holds
<1>6. NeverOverflows' BY DEF Reuse, NeverOverflows
<1>7. OverrunIsSent' BY DEF Reuse, OverrunIsSent
<1> QED BY <1>1, <1>2, <1>3, <1>4, <1>5, <1>6, <1>7 DEF IInv

LEMMA NextIInv == IInv /\ [Next]_vars => IInv'
<1> SUFFICES ASSUME IInv, [Next]_vars PROVE IInv'
  OBVIOUS
<1>1. CASE \E n \in Field : ClientSends(n)
  BY <1>1, ClientSendsIInv
<1>2. CASE Arrives
  BY <1>2, ReceiveIInv DEF Arrives
<1>3. CASE Parse
  BY <1>3, ParseIInv
<1>4. CASE Close
  BY <1>4, CloseIInv
<1>5. CASE Reuse
  BY <1>5, ReuseIInv
<1>6. CASE UNCHANGED vars
  BY <1>6 DEF vars, IInv, TypeOK, Placed, Accounted, Tiled, Width, Unparsed, Available,
              Holds, Cell, NeverOverflows, OverrunIsSent
<1> QED BY <1>1, <1>2, <1>3, <1>4, <1>5, <1>6 DEF Next

(* The inductive invariant, from which the others follow. *)
THEOREM Invariant == Spec => []IInv
BY InitIInv, NextIInv, PTL DEF Spec

-----------------------------------------------------------------------------
(* TypeOK: no position leaves the double mapping and no cell is lost, for     *)
(* every size of ring, header and packet (Session::OnRecv, RegisterRecv).     *)
THEOREM TypeCorrect == Spec => []TypeOK
BY Invariant, PTL DEF IInv

(* InsideMapping: the kernel is given room inside the double mapping and none *)
(* that unhandled bytes occupy.                                               *)
THEOREM StaysInside == Spec => []InsideMapping
<1>1. IInv => InsideMapping
  BY SizeAssumption DEF IInv, TypeOK, Placed, InsideMapping, Room
<1> QED BY <1>1, Invariant, PTL

(* Unparsed: between the positions lies the unhandled part of the stream, in  *)
(* order, across the end of the ring.                                         *)
THEOREM StaysUnparsed == Spec => []Unparsed
BY Invariant, PTL DEF IInv

(* NeverOverflows: the overflow branch of RegisterRecv is not reached.        *)
THEOREM NoOverflow == Spec => []NeverOverflows
BY Invariant, PTL DEF IInv

(* OverrunIsSent: the unchecked copy of AcquirePacket leaves its block only   *)
(* for a packet that a client declared greater than kMaxPacketSize.           *)
THEOREM OverrunsAreSent == Spec => []OverrunIsSent
BY Invariant, PTL DEF IInv

(* While the clients keep to packets of at most kMaxPacketSize bytes, no copy *)
(* of AcquirePacket leaves its block, whatever pieces the packets arrive in.  *)
THEOREM SmallPacketsStayInBlock ==
  ASSUME MaxField <= Block
  PROVE  Spec => [](pc # "overrun")
<1>1. IInv => pc # "overrun"
  BY RecvRingAssumption DEF IInv, TypeOK, Field, OverrunIsSent
<1> QED BY <1>1, Invariant, PTL

(* PacketsComeOut: the parser implements PacketStream: packets up to          *)
(* kMaxPacketSize come out whole and in order, and none after the first that  *)
(* is greater.                                                                *)
THEOREM Refines == Spec => PacketsComeOut
<1>1. Init => Abstract!Init
  BY DEF Init, Empty, Abstract!Init, Abstract!NoPackets, Abstract!NoBytes
<1>2. IInv /\ [Next]_vars => [Abstract!Next]_(Abstract!vars)
  <2> SUFFICES ASSUME IInv, [Next]_vars PROVE [Abstract!Next]_(Abstract!vars)
    OBVIOUS
  <2>1. CASE \E n \in Field : ClientSends(n)
    <3>1. PICK n \in Field : ClientSends(n)
      BY <2>1
    <3>2. sent' > sent
      BY <3>1, RecvRingAssumption DEF ClientSends, IInv, TypeOK, Field
    <3>3. Abstract!Send(n)
      BY <3>1, <3>2 DEF ClientSends, Abstract!Send
    <3> QED BY <3>3 DEF Abstract!Next
  <2>2. CASE Arrives \/ Close \/ UNCHANGED vars
    BY <2>2 DEF Arrives, Receive, Close, client, vars, Abstract!vars
  <2>3. CASE Parse
    BY <2>3, ParseIInv DEF Abstract!Next, Abstract!vars
  <2>4. CASE Reuse
    BY <2>4 DEF Reuse, Empty, Abstract!Next, Abstract!Restart, Abstract!NoPackets,
                Abstract!NoBytes
  <2> QED BY <2>1, <2>2, <2>3, <2>4 DEF Next
<1> QED BY <1>1, <1>2, Invariant, PTL DEF Spec, PacketsComeOut, Abstract!Spec
=============================================================================
