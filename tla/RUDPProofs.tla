----------------------------- MODULE RUDPProofs -----------------------------
(***************************************************************************)
(* Proofs about RUDP that hold for every value of the constants and in     *)
(* every network the module Network describes.                             *)
(***************************************************************************)
EXTENDS FirstPiece, RingBufferProofs, WellFoundedInduction, TLAPS

-----------------------------------------------------------------------------
(* What the network does to a path keeps it a sequence of its datagrams.   *)
LEMMA SentType ==
  ASSUME NEW S, NEW path \in Seq(S), NEW dgram \in S
  PROVE  Sent(path, dgram) \in Seq(S)
  BY DEF Sent

LEMMA DeliverableIsIndex ==
  ASSUME NEW path, NEW i \in Deliverable(path)
  PROVE  i \in 1 .. Len(path)
  BY DEF Deliverable

LEMMA RestType ==
  ASSUME NEW S, NEW path \in Seq(S), NEW i \in Deliverable(path)
  PROVE  Rest(path, i) \in Seq(S)
  <1>1. i \in 1 .. Len(path)
    BY DeliverableIsIndex
  <1>2. SubSeq(path, i + 1, Len(path)) \in Seq(S)
    BY <1>1
  <1>3. SubSeq(path, 1, i - 1) \in Seq(S)
    BY <1>1
  <1> QED BY <1>1, <1>2, <1>3 DEF Rest, RemoveAt

-----------------------------------------------------------------------------
CCType == [cState : Uninitialised, cwnd : Nat, ssthresh : Nat, dupACK : Nat,
           lastAck : Nat]

(* Every change of the congestion record leaves a record of its type; the  *)
(* division of congestion avoidance is never by zero.                      *)
LEMMA CCTypeKept ==
  ASSUME NEW c \in CCType, NEW ack \in Nat
  PROVE  /\ AfterTimeout(c) \in CCType
         /\ ~DividesByZero(c) => AfterNewAck(c) \in CCType
         /\ AfterOldAck(c, ack) \in CCType
  <1> USE CongestionAssumption
  <1>1. c.cwnd \div 2 \in Nat /\ 3 * MSS \in Nat
    BY DEF CCType
  <1>2. AfterTimeout(c) \in CCType
    BY <1>1 DEF CCType, AfterTimeout, Uninitialised, CongestionStates
  <1>3. ASSUME ~DividesByZero(c)
        PROVE  AfterNewAck(c) \in CCType
    <2>1. CASE c.cState = "start"
      <3>1. AfterNewAck(c) =
              [c EXCEPT !.cwnd = @ + MSS,
                        !.cState = IF c.cwnd + MSS > c.ssthresh THEN "avoid" ELSE @]
        BY <2>1 DEF AfterNewAck
      <3>2. c.cwnd + MSS \in Nat
        BY DEF CCType
      <3>3. (IF c.cwnd + MSS > c.ssthresh THEN "avoid" ELSE c.cState) \in Uninitialised
        BY DEF CCType, Uninitialised, CongestionStates
      <3> QED BY <3>1, <3>2, <3>3 DEF CCType
    <2>2. CASE c.cState = "avoid"
      <3>1. c.cwnd \in Nat \ {0}
        BY <1>3, <2>2 DEF DividesByZero, CCType
      <3>2. MSS * (MSS \div c.cwnd) \in Nat
        BY <3>1
      <3> QED BY <2>2, <3>2 DEF CCType, AfterNewAck, Uninitialised, CongestionStates
    <2>3. CASE c.cState = "fastRecovery"
      BY <2>3 DEF CCType, AfterNewAck, Uninitialised, CongestionStates
    <2>4. CASE c.cState \notin CongestionStates
      BY <2>4 DEF AfterNewAck, CongestionStates
    <2> QED BY <2>1, <2>2, <2>3, <2>4 DEF CongestionStates
  <1>4. AfterOldAck(c, ack) \in CCType
    <2> DEFINE counted == [c EXCEPT !.dupACK = @ + 1]
               recovering == [counted EXCEPT !.ssthresh = c.cwnd \div 2,
                                             !.cwnd = (c.cwnd \div 2) + 3 * MSS,
                                             !.cState = "fastRecovery"]
    <2>1. AfterOldAck(c, ack) \in {[c EXCEPT !.dupACK = 0, !.lastAck = ack],
                                  [counted EXCEPT !.cwnd = @ + MSS],
                                  recovering, counted}
      BY DEF AfterOldAck
    <2>2. [c EXCEPT !.dupACK = 0, !.lastAck = ack] \in CCType
      BY DEF CCType
    <2>3. counted \in CCType
      BY DEF CCType
    <2>4. [counted EXCEPT !.cwnd = @ + MSS] \in CCType
      <3> HIDE DEF counted
      <3> QED BY <2>3 DEF CCType
    <2>5. recovering \in CCType
      <3>1. (c.cwnd \div 2) + 3 * MSS \in Nat /\ "fastRecovery" \in Uninitialised
        BY <1>1 DEF Uninitialised, CongestionStates
      <3> HIDE DEF counted
      <3> QED BY <1>1, <2>3, <3>1 DEF CCType
    <2> QED BY <2>1, <2>2, <2>3, <2>4, <2>5
  <1> QED BY <1>2, <1>3, <1>4

(* The packets the sender builds. *)
LEMMA SegmentType ==
  ASSUME SenderTypeOK, NEW seq \in Nat, NEW size \in Nat
  PROVE  Segment(seq, size) \in Packets
  <1>1. sIn \in Nat /\ sRing \in [Slots -> Bytes]
    BY RingAssumption DEF SenderTypeOK
  <1>2. GetSize(sIn, seq, size) \in Nat
    BY <1>1, GetSizeType
  <1> QED BY <1>1, <1>2, GetType DEF Segment, Packet, Packets, Flags

LEMMA ResentType ==
  ASSUME SenderTypeOK, NEW e \in timevts
  PROVE  Resent(e) \in Packets
  <1>1. e \in [flag : Flags, seq : Nat, len : Nat, n : Nat]
    BY DEF SenderTypeOK
  <1>2. CASE e.flag = "SEQ"
    BY <1>1, <1>2, SegmentType DEF Resent
  <1>3. CASE e.flag # "SEQ"
    <2>1. Resent(e) = [flag |-> e.flag, seq |-> e.seq, data |-> <<>>]
      BY <1>3 DEF Resent, Packet
    <2> QED BY <1>1, <2>1 DEF Packets
  <1> QED BY <1>2, <1>3

LEMMA StreamType ==
  ASSUME NEW from \in Nat, NEW size \in Nat
  PROVE  Stream(from, size) \in Seq(Bytes)
  <1>1. Stream(from, size) \in [1 .. size -> Bytes]
    BY DEF Stream, Bytes
  <1> QED BY <1>1

-----------------------------------------------------------------------------
(* The actions of the application's thread keep the types. *)
LEMMA ApplicationKeepsType ==
  ASSUME TypeOK, Application, UNCHANGED rVars
  PROVE  TypeOK'
  <1> USE RingAssumption DEF TypeOK, Packets, Acks, Flags
  <1>1. ReceiverTypeOK'
    BY DEF ReceiverTypeOK, rVars
  <1>2. CASE Connect
    <2>1. Packet("SYN", nextSeq, <<>>) \in Packets
      BY DEF SenderTypeOK, Packet
    <2>2. toRecv' \in Seq(Packets)
      BY <1>2, <2>1, SentType DEF Connect
    <2>3. SenderTypeOK'
      BY <1>2 DEF Connect, SenderTypeOK, Event
    <2> QED BY <1>1, <1>2, <2>2, <2>3 DEF Connect
  <1>3. ASSUME NEW size \in Chunks, Push(AtMost(size, Total - sIn))
        PROVE  TypeOK'
    <2> DEFINE asked == AtMost(size, Total - sIn)
               partnum == SetSize(sIn, sOut, asked)
    <2>1. asked \in Int
      BY SenderAssumption DEF SenderTypeOK, AtMost
    <2>2. sIn \in Nat /\ sOut \in Nat /\ sIn \in sOut .. sOut + N
      BY DEF SenderTypeOK
    <2> HIDE DEF asked
    <2>3. partnum \in Nat /\ partnum <= N + sOut - sIn
      <3>1. partnum > 0
        BY <1>3 DEF Push, asked
      <3>2. partnum \in Int /\ partnum <= N + sOut - sIn
        BY <2>1, <2>2, SetSizeFits
      <3> HIDE DEF partnum
      <3> QED BY <3>1, <3>2
    <2>4. Stream(sIn, partnum) \in Seq(Bytes)
      BY <2>2, <2>3, StreamType
    <2>5. sRing' \in [Slots -> Bytes]
      <3>1. sRing' = Set(sRing, sIn, Stream(sIn, partnum))
        BY <1>3 DEF Push, asked
      <3> HIDE DEF partnum
      <3>2. sRing \in [Slots -> Bytes] /\ sIn \in Int
        BY <2>2 DEF SenderTypeOK
      <3>3. Set(sRing, sIn, Stream(sIn, partnum)) \in [Slots -> Bytes]
        BY <2>4, <3>2, SetType
      <3> QED BY <3>1, <3>3
    <2>6. sIn' \in sOut' .. sOut' + N
      <3>1. sIn' = sIn + partnum /\ sOut' = sOut
        BY <1>3 DEF Push, asked
      <3> HIDE DEF partnum
      <3> QED BY <2>2, <2>3, <3>1
    <2>7. SenderTypeOK'
      BY <1>3, <2>5, <2>6 DEF Push, SenderTypeOK
    <2> QED BY <1>1, <1>3, <2>7 DEF Push
  <1>4. CASE Close
    BY <1>1, <1>4 DEF Close, SenderTypeOK
  <1> QED BY <1>2, <1>3, <1>4 DEF Application

-----------------------------------------------------------------------------
(* handleTimer and the return from it keep the types. *)
LEMMA TimerKeepsType ==
  ASSUME TypeOK, Timer, UNCHANGED rVars
  PROVE  TypeOK'
  <1> USE DEF TypeOK
  <1>1. ReceiverTypeOK'
    BY DEF ReceiverTypeOK, rVars
  <1>2. ASSUME NEW e \in timevts, TimerDropped(e)
        PROVE  TypeOK'
    BY <1>1, <1>2 DEF TimerDropped, SenderTypeOK
  <1>3. ASSUME NEW e \in timevts, TimerResent(e)
        PROVE  TypeOK'
    <2>1. toRecv' \in Seq(Packets)
      BY <1>3, ResentType, SentType DEF TimerResent
    <2>2. cc' \in CCType
      BY <1>3, CCTypeKept DEF TimerResent, SenderTypeOK, CCType
    <2>3. [e EXCEPT !.n = @ + 1] \in [flag : Flags, seq : Nat, len : Nat, n : Nat]
      <3>1. e \in [flag : Flags, seq : Nat, len : Nat, n : Nat]
        BY DEF SenderTypeOK
      <3> QED BY <3>1
    <2>4. timevts' \subseteq [flag : Flags, seq : Nat, len : Nat, n : Nat]
      BY <1>3, <2>3 DEF TimerResent, SenderTypeOK
    <2>5. SenderTypeOK'
      BY <1>3, <2>2, <2>4 DEF TimerResent, SenderTypeOK, CCType
    <2> QED BY <1>1, <1>3, <2>1, <2>5 DEF TimerResent
  <1>4. ASSUME NEW e \in timevts, TimerExhausted(e)
        PROVE  TypeOK'
    BY <1>1, <1>4 DEF TimerExhausted, SenderTypeOK, Exits
  <1>5. CASE TimerReturns
    BY <1>1, <1>5 DEF TimerReturns, SenderTypeOK, Waiting
  <1> QED BY <1>2, <1>3, <1>4, <1>5 DEF Timer

(* recvfrom, with a datagram or without, and what wait, connect and        *)
(* closeConnection make of an ACK keep the types.                          *)
LEMMA RecvKeepsType ==
  ASSUME TypeOK, RecvTimeout \/ \E i \in Deliverable(toSend) : RecvAck(i),
         UNCHANGED rVars
  PROVE  TypeOK'
  <1> USE RingAssumption DEF TypeOK
  <1>1. ReceiverTypeOK'
    BY DEF ReceiverTypeOK, rVars
  <1>2. CASE RecvTimeout
    BY <1>1, <1>2 DEF RecvTimeout, AfterNothing, SenderTypeOK
  <1>3. ASSUME NEW i \in Deliverable(toSend), RecvAck(i)
        PROVE  TypeOK'
    <2> DEFINE ack == toSend[i]
    <2>1. ack \in Acks
      BY DeliverableIsIndex
    <2>2. toSend' \in Seq(Acks)
      BY <1>3, RestType DEF RecvAck
    <2>3. ack.ack \in Nat /\ ack.window \in 0 .. N
      BY <2>1 DEF Acks
    <2> HIDE DEF ack
    <2>4. /\ sIn \in Nat /\ sOut \in Nat /\ sIn \in sOut .. sOut + N
          /\ cc \in CCType
      BY DEF SenderTypeOK, CCType
    <2>5. CASE ConnectAck(ack)
      BY <1>1, <1>3, <2>2, <2>3, <2>5 DEF RecvAck, ConnectAck, SenderTypeOK, Exits
    <2>6. CASE NewAck(ack)
      <3> DEFINE popnum == GetSize(sIn, sOut, ack.ack - sOut)
      <3>1. ack.ack - sOut \in Nat
        BY <2>3, <2>4, <2>6 DEF NewAck
      <3>2. popnum \in 0 .. sIn - sOut
        BY <2>4, <3>1, GetSizeFits
      <3>3. sOut' = sOut + popnum /\ sIn' = sIn
        BY <1>3, <2>6 DEF NewAck, RecvAck
      <3> HIDE DEF popnum
      <3>4. sOut' \in Nat /\ sIn' \in sOut' .. sOut' + N
        BY <2>4, <3>2, <3>3
      <3>5. cc' \in CCType /\ sPc' \in {"trapped", "manager"}
        BY <2>3, <2>4, <2>6, CCTypeKept DEF NewAck
      <3>6. SenderTypeOK'
        BY <1>3, <2>3, <2>6, <3>4, <3>5 DEF RecvAck, NewAck, SenderTypeOK, CCType, Exits
      <3> QED BY <1>1, <1>3, <2>2, <2>6, <3>6 DEF RecvAck, NewAck
    <2>7. CASE OldAck(ack)
      <3>1. Segment(ack.ack, MSS) \in Packets
        BY <2>3, SegmentType, CongestionAssumption
      <3>2. toRecv' \in Seq(Packets)
        BY <2>7, <3>1, SentType DEF OldAck
      <3>3. cc' \in CCType
        BY <2>3, <2>4, <2>7, CCTypeKept DEF OldAck
      <3>4. SenderTypeOK'
        BY <1>3, <2>3, <2>7, <3>3 DEF RecvAck, OldAck, SenderTypeOK, CCType
      <3> QED BY <1>1, <2>2, <3>2, <3>4
    <2>8. CASE CloseAck(ack)
      BY <1>1, <1>3, <2>2, <2>8 DEF RecvAck, CloseAck, SenderTypeOK, Exits
    <2> QED BY <1>3, <2>5, <2>6, <2>7, <2>8 DEF RecvAck, ack
  <1> QED BY <1>2, <1>3

(* The manager's own steps keep the types. *)
LEMMA ManagerKeepsType ==
  ASSUME TypeOK, Manager, UNCHANGED rVars
  PROVE  TypeOK'
  <1> USE RingAssumption DEF TypeOK
  <1>1. ReceiverTypeOK'
    BY DEF ReceiverTypeOK, rVars
  <1>2. CASE ManagerSends \/ ManagerDrains \/ ManagerGoesOn
    BY <1>1, <1>2 DEF ManagerSends, ManagerDrains, ManagerGoesOn, SenderTypeOK
  <1>3. CASE ManagerCloses
    <2>1. Packet("FIN", nextSeq, <<>>) \in Packets
      BY DEF SenderTypeOK, Packet, Packets, Flags
    <2>2. toRecv' \in Seq(Packets)
      BY <1>3, <2>1, SentType DEF ManagerCloses
    <2>3. SenderTypeOK'
      BY <1>3 DEF ManagerCloses, SenderTypeOK, Event, Flags
    <2> QED BY <1>1, <1>3, <2>2, <2>3 DEF ManagerCloses
  <1>4. CASE TrySendPkg
    <2>1. SendSize \in Nat
      <3>1. sOut + rwnd \in Int /\ sIn \in Int /\ nextSeq \in Int /\ rwnd \in Nat
        BY DEF SenderTypeOK
      <3>2. Minus(sOut + rwnd, nextSeq) \in Nat /\ Minus(sIn, nextSeq) \in Nat
        BY <3>1, MinusIsDifference
      <3> QED BY <3>1, <3>2, CongestionAssumption DEF SendSize, AtMost
    <2>2. nextSeq \in Nat
      BY DEF SenderTypeOK
    <2>3. toRecv' \in Seq(Packets)
      BY <1>4, <2>1, <2>2, SegmentType, SentType DEF TrySendPkg
    <2>4. SenderTypeOK'
      BY <1>4, <2>1, <2>2 DEF TrySendPkg, SenderTypeOK, Event, Flags
    <2> QED BY <1>1, <1>4, <2>3, <2>4 DEF TrySendPkg
  <1>5. CASE TrySendDone
    BY <1>1, <1>5 DEF TrySendDone, SenderTypeOK
  <1> QED BY <1>2, <1>3, <1>4, <1>5 DEF Manager

-----------------------------------------------------------------------------
LEMMA NatHasMinimum ==
  ASSUME NEW T, T \subseteq Nat, T # {}
  PROVE  \E x \in T : \A y \in T : x <= y
  <1>1. PICK x \in T : \A y \in T : <<y, x>> \notin OpToRel(<, Nat)
    BY NatLessThanWellFounded, WFMin
  <1>2. \A y \in T : ~(y < x)
    BY <1>1 DEF OpToRel
  <1> QED BY <1>2

(* A non-empty list of ranges has a front. *)
LEMMA FrontExists ==
  ASSUME cacheRanges \subseteq (Nat \X Nat), cacheRanges # {}
  PROVE  \E r \in cacheRanges : IsFront(r)
  <1> DEFINE T == {r[1] : r \in cacheRanges}
  <1>1. PICK x \in T : \A y \in T : x <= y
    <2>1. T \subseteq Nat /\ T # {}
      OBVIOUS
    <2> HIDE DEF T
    <2> QED BY <2>1, NatHasMinimum
  <1>2. PICK r \in cacheRanges : r[1] = x
    BY <1>1
  <1> QED BY <1>1, <1>2 DEF IsFront

(* The part of a packet to push is no more than its new bytes. *)
LEMMA BeforeCacheBound ==
  ASSUME ReceiverTypeOK, NEW w \in Nat
  PROVE  BeforeCache(w) \in 0 .. w
  <1>1. CASE cacheRanges = {}
    BY <1>1 DEF BeforeCache
  <1>2. CASE cacheRanges # {}
    <2> DEFINE front == CHOOSE r \in cacheRanges : IsFront(r)
    <2>1. front \in cacheRanges
      BY <1>2, FrontExists DEF ReceiverTypeOK
    <2>2. front[1] \in Nat /\ nextACK \in Nat
      BY <2>1 DEF ReceiverTypeOK
    <2>3. Minus(front[1], nextACK) \in Nat
      <3> HIDE DEF front
      <3>1. front[1] \in Int /\ nextACK \in Int
        BY <2>2
      <3> QED BY <3>1, MinusIsDifference
    <2>4. BeforeCache(w) = AtMost(w, Minus(front[1], nextACK))
      BY <1>2 DEF BeforeCache
    <2> QED BY <2>3, <2>4 DEF AtMost
  <1> QED BY <1>1, <1>2

(* Taking a packet from the socket keeps the types. *)
LEMMA ReceiveKeepsType ==
  ASSUME TypeOK, NEW i \in Deliverable(toRecv), Receive(i), UNCHANGED sVars
  PROVE  TypeOK'
  <1> USE RingAssumption DEF TypeOK
  <1>1. SenderTypeOK'
    BY DEF SenderTypeOK, sVars
  <1> DEFINE p == toRecv[i]
  <1>2. p \in Packets
    BY DeliverableIsIndex
  <1>3. toRecv' \in Seq(Packets) /\ toSend' = toSend
    BY RestType DEF Receive
  <1>4. /\ p.seq \in Nat /\ p.data \in Seq(Bytes) /\ Len(p.data) \in Nat
        /\ nextACK \in Nat /\ rIn \in Nat /\ rOut \in Nat /\ rIn \in rOut .. rOut + N
        /\ rRing \in [Slots -> Bytes]
    BY <1>2 DEF Packets, ReceiverTypeOK
  <1>5. /\ target' \in {"zero", "sender", "garbage"}
        /\ UNCHANGED <<rState, rOut, rUser, delivered>>
    BY DEF Receive
  <1> HIDE DEF p
  <1>6. SUFFICES /\ rPc' \in {"recv", "merge", "reply", "done"}
                 /\ rReply' \in {"recv", "closed"}
                 /\ rIn' \in rOut .. rOut + N
                 /\ rRing' \in [Slots -> Bytes]
                 /\ cacheRanges' \subseteq (Nat \X Nat)
                 /\ nextACK' \in Nat
    BY <1>1, <1>3, <1>4, <1>5 DEF ReceiverTypeOK
  <1>7. CASE ReceiveSyn(p)
    BY <1>4, <1>7 DEF ReceiveSyn, ReceiverTypeOK
  <1>8. CASE ReceiveOld(p)
    BY <1>4, <1>8 DEF ReceiveOld, ReceiverTypeOK
  <1>9. CASE ReceiveNext(p)
    <2> DEFINE dataOffset == nextACK - p.seq
               fresh      == p.seq + Len(p.data) - nextACK
               pushnum    == SetSize(rIn, rOut, BeforeCache(fresh))
    <2>1. dataOffset \in Nat /\ fresh \in Nat /\ dataOffset + fresh = Len(p.data)
      <3>1. p.seq <= nextACK /\ p.seq + Len(p.data) > nextACK
        BY <1>9 DEF ReceiveNext
      <3>2. p.seq \in Nat /\ Len(p.data) \in Nat /\ nextACK \in Nat
        BY <1>4
      <3> QED BY <3>1, <3>2
    <2>2. BeforeCache(fresh) \in 0 .. fresh
      BY <2>1, BeforeCacheBound
    <2>3. pushnum \in 0 .. fresh /\ pushnum <= N + rOut - rIn
      <3> HIDE DEF fresh
      <3>1. /\ BeforeCache(fresh) \in Int /\ BeforeCache(fresh) >= 0
            /\ BeforeCache(fresh) <= fresh
        BY <2>1, <2>2
      <3>2. /\ pushnum \in Int /\ pushnum >= 0
            /\ pushnum <= N + rOut - rIn /\ pushnum <= BeforeCache(fresh)
        BY <1>4, <3>1, SetSizeFits
      <3> HIDE DEF pushnum
      <3> QED BY <2>1, <3>1, <3>2
    <2>4. /\ rRing' = Set(rRing, rIn, SubSeq(p.data, dataOffset + 1, dataOffset + pushnum))
          /\ rIn' = rIn + pushnum
          /\ nextACK' = nextACK + pushnum
      BY <1>9 DEF ReceiveNext
    <2> HIDE DEF dataOffset, fresh, pushnum
    <2>5. SubSeq(p.data, dataOffset + 1, dataOffset + pushnum) \in Seq(Bytes)
      <3>1. \A k \in dataOffset + 1 .. dataOffset + pushnum : p.data[k] \in Bytes
        BY <1>4, <2>1, <2>3
      <3> QED BY <1>4, <2>1, <2>3, <3>1
    <2>6. rRing' \in [Slots -> Bytes]
      <3>1. rRing \in [Slots -> Bytes] /\ rIn \in Int
        BY <1>4
      <3>2. Set(rRing, rIn, SubSeq(p.data, dataOffset + 1, dataOffset + pushnum))
              \in [Slots -> Bytes]
        BY <2>5, <3>1, SetType
      <3> QED BY <2>4, <3>2
    <2>7. rIn' \in rOut .. rOut + N /\ nextACK' \in Nat
      BY <1>4, <2>1, <2>3, <2>4
    <2>8. rPc' = "merge" /\ rReply' = "recv" /\ cacheRanges' = cacheRanges
      BY <1>9 DEF ReceiveNext
    <2> QED BY <2>6, <2>7, <2>8 DEF ReceiverTypeOK
  <1>10. CASE ReceiveAhead(p)
    <2> DEFINE begin  == rIn + p.seq - nextACK
               setnum == SetSize(begin, rOut, Len(p.data))
    <2>1. begin \in Nat
      BY <1>4, <1>10 DEF ReceiveAhead
    <2>2. setnum \in 0 .. Len(p.data)
      <3> HIDE DEF begin
      <3>1. N + rOut \in Int /\ begin \in Int
        BY <1>4, <2>1
      <3>2. FreeSize(begin, rOut) \in Nat
        BY <3>1, MinusIsDifference DEF FreeSize
      <3> QED BY <1>4, <3>2 DEF SetSize, AtMost
    <2>3. /\ rRing' = Set(rRing, begin, SubSeq(p.data, 1, setnum))
          /\ cacheRanges' = cacheRanges \cup {<<p.seq, p.seq + setnum>>}
          /\ rIn' = rIn /\ nextACK' = nextACK
      BY <1>10 DEF ReceiveAhead
    <2> HIDE DEF begin, setnum
    <2>4. SubSeq(p.data, 1, setnum) \in Seq(Bytes)
      BY <1>4, <2>2
    <2>5. rRing' \in [Slots -> Bytes]
      <3>1. rRing \in [Slots -> Bytes] /\ begin \in Int
        BY <1>4, <2>1
      <3>2. Set(rRing, begin, SubSeq(p.data, 1, setnum)) \in [Slots -> Bytes]
        BY <2>4, <3>1, SetType
      <3> QED BY <2>3, <3>2
    <2> QED BY <1>4, <1>10, <2>2, <2>3, <2>5 DEF ReceiveAhead, ReceiverTypeOK
  <1>11. CASE ReceiveFin(p)
    BY <1>4, <1>11 DEF ReceiveFin, ReceiverTypeOK
  <1> QED BY <1>7, <1>8, <1>9, <1>10, <1>11 DEF Receive, p

(* The receiver's other steps, of either thread, keep the types. *)
LEMMA ReceiverKeepsType ==
  ASSUME TypeOK, ReceiverNext, UNCHANGED sVars
  PROVE  TypeOK'
  <1> USE RingAssumption DEF TypeOK
  <1>1. SenderTypeOK'
    BY DEF SenderTypeOK, sVars
  <1>2. /\ nextACK \in Nat /\ rIn \in Nat /\ rOut \in Nat /\ rIn \in rOut .. rOut + N
        /\ rRing \in [Slots -> Bytes] /\ delivered \in Seq(Bytes)
    BY DEF ReceiverTypeOK
  <1>3. CASE DropForeign
    BY <1>1, <1>3, RestType DEF DropForeign, ReceiverTypeOK, rVars
  <1>4. CASE \E i \in Deliverable(toRecv) : Receive(i)
    BY <1>4, ReceiveKeepsType
  <1>5. ASSUME NEW r \in cacheRanges, Merge(r)
        PROVE  TypeOK'
    <2>1. r[1] \in Nat /\ r[2] \in Nat
      BY DEF ReceiverTypeOK
    <2>2. rIn' \in rOut .. rOut + N /\ nextACK' \in Nat
      <3>1. CASE nextACK < r[2]
        <4> DEFINE w == r[2] - nextACK
        <4>1. w \in Int /\ w >= 0
          BY <1>2, <2>1, <3>1
        <4> HIDE DEF w
        <4>2. /\ SetSize(rIn, rOut, w) \in Int /\ SetSize(rIn, rOut, w) >= 0
              /\ SetSize(rIn, rOut, w) <= N + rOut - rIn
          BY <1>2, <4>1, SetSizeFits
        <4>3. rIn' = rIn + SetSize(rIn, rOut, w) /\ nextACK' = r[2]
          BY <1>5, <3>1 DEF Merge, w
        <4> QED BY <1>2, <2>1, <4>2, <4>3
      <3>2. CASE ~(nextACK < r[2])
        BY <1>2, <1>5, <3>2 DEF Merge
      <3> QED BY <3>1, <3>2
    <2> QED BY <1>1, <1>5, <2>2 DEF Merge, ReceiverTypeOK
  <1>6. CASE MergeDone
    BY <1>1, <1>6 DEF MergeDone, ReceiverTypeOK
  <1>7. CASE Reply
    <2>1. FreeSize(rIn, rOut) \in 0 .. N
      BY <1>2, FreeSizeIsRoom
    <2>2. Ack(nextACK, FreeSize(rIn, rOut)) \in Acks
      BY <1>2, <2>1 DEF Ack, Acks
    <2>3. toSend' \in Seq(Acks)
      BY <1>7, <2>2, SentType DEF Reply
    <2> QED BY <1>1, <1>7, <2>3 DEF Reply, ReceiverTypeOK
  <1>8. CASE UserChecks
    BY <1>1, <1>8 DEF UserChecks, ReceiverTypeOK
  <1>9. CASE UserPops
    <2> DEFINE num == GetSize(rIn, rOut, ReadSize)
    <2>1. num \in 0 .. rIn - rOut
      <3>1. ReadSize \in Nat
        BY ReceiverAssumption
      <3> QED BY <1>2, <3>1, GetSizeFits
    <2>2. /\ delivered' = delivered \o Get(rRing, rOut, num)
          /\ rOut' = rOut + num /\ rIn' = rIn
      BY <1>9 DEF UserPops
    <2> HIDE DEF num
    <2>3. Get(rRing, rOut, num) \in Seq(Bytes)
      <3>1. num \in Nat /\ rOut \in Int
        BY <1>2, <2>1
      <3> QED BY <1>2, <3>1, GetType
    <2>4. delivered' \in Seq(Bytes)
      <3> DEFINE popped == Get(rRing, rOut, num)
      <3>1. popped \in Seq(Bytes) /\ delivered' = delivered \o popped
        BY <2>2, <2>3
      <3> HIDE DEF popped
      <3> QED BY <1>2, <3>1
    <2>5. rOut' \in Nat /\ rIn' \in rOut' .. rOut' + N
      BY <1>2, <2>1, <2>2
    <2> QED BY <1>1, <1>9, <2>4, <2>5 DEF UserPops, ReceiverTypeOK
  <1> QED BY <1>3, <1>4, <1>5, <1>6, <1>7, <1>8, <1>9
      DEF ReceiverNext, Receiver, User

LEMMA InitTypeOK == Init => TypeOK
  <1> SUFFICES ASSUME Init PROVE TypeOK
    OBVIOUS
  <1> USE RingAssumption, CongestionAssumption, SenderAssumption, ReceiverAssumption
  <1>1. [i \in Slots |-> Junk] \in [Slots -> Bytes]
    BY DEF Bytes
  <1>2. cc \in CCType
    BY DEF Init, SenderInit, InitialCC, CCType
  <1>3. SenderTypeOK
    BY <1>1, <1>2 DEF Init, SenderInit, SenderTypeOK, CCType
  <1>4. ReceiverTypeOK
    BY <1>1 DEF Init, ReceiverInit, ReceiverTypeOK
  <1> QED BY <1>3, <1>4 DEF Init, TypeOK

LEMMA NextKeepsType == TypeOK /\ [Next]_vars => TypeOK'
  <1> SUFFICES ASSUME TypeOK, [Next]_vars PROVE TypeOK'
    OBVIOUS
  <1>1. CASE SenderStep
    BY <1>1, ApplicationKeepsType, TimerKeepsType, RecvKeepsType, ManagerKeepsType
    DEF SenderStep, SenderNext
  <1>2. CASE ReceiverStep
    BY <1>2, ReceiverKeepsType DEF ReceiverStep
  <1>3. CASE UNCHANGED vars
    BY <1>3 DEF vars, sVars, rVars, TypeOK, SenderTypeOK, ReceiverTypeOK
  <1> QED BY <1>1, <1>2, <1>3 DEF Next

(* In every network, neither buffer ever holds more than N bytes, no       *)
(* window offered exceeds N, and every variable has its type.              *)
THEOREM TypeCorrect == Spec => []TypeOK
  <1> QED BY InitTypeOK, NextKeepsType, PTL DEF Spec

-----------------------------------------------------------------------------
(* UnackedCovered.                                                         *)

Covers(e, p) == e.flag = "SEQ" /\ p \in e.seq .. e.seq + e.len - 1

LEMMA UnackedCoveredInit == Init => UnackedCovered
  BY DEF Init, SenderInit, UnackedCovered

(* An event that still covers an unacknowledged byte is not dropped, and   *)
(* one that is sent again is replaced by an event that covers the same.    *)
LEMMA UnackedCoveredTimer ==
  ASSUME TypeOK, UnackedCovered, Timer
  PROVE  UnackedCovered'
  <1>1. ASSUME NEW e \in timevts, TimerDropped(e)
        PROVE  UnackedCovered'
    <2>1. e.seq \in Nat /\ e.len \in Nat /\ sOut \in Nat
      BY DEF TypeOK, SenderTypeOK
    <2>2. e.seq + e.len <= sOut
      BY <1>1, <2>1 DEF TimerDropped, Relevant
    <2> SUFFICES ASSUME NEW p \in sOut .. nextSeq - 1
                 PROVE  \E f \in timevts \ {e} : Covers(f, p)
      BY <1>1 DEF TimerDropped, UnackedCovered, Covers
    <2>3. PICK f \in timevts : Covers(f, p)
      BY DEF UnackedCovered, Covers
    <2>4. f # e
      BY <2>1, <2>2, <2>3 DEF Covers
    <2> QED BY <2>3, <2>4
  <1>2. ASSUME NEW e \in timevts, TimerResent(e)
        PROVE  UnackedCovered'
    <2> DEFINE again == [e EXCEPT !.n = @ + 1]
    <2>1. e \in [flag : Flags, seq : Nat, len : Nat, n : Nat]
      BY DEF TypeOK, SenderTypeOK
    <2>2. again.flag = e.flag /\ again.seq = e.seq /\ again.len = e.len
      BY <2>1
    <2>3. /\ timevts' = (timevts \ {e}) \cup {again}
          /\ sOut' = sOut /\ nextSeq' = nextSeq
      BY <1>2 DEF TimerResent
    <2> HIDE DEF again
    <2> SUFFICES ASSUME NEW p \in sOut .. nextSeq - 1
                 PROVE  \E f \in timevts' : Covers(f, p)
      BY <2>3 DEF UnackedCovered, Covers
    <2>4. PICK f \in timevts : Covers(f, p)
      BY DEF UnackedCovered, Covers
    <2>5. CASE f = e
      <3>1. Covers(again, p)
        BY <2>2, <2>4, <2>5 DEF Covers
      <3> QED BY <2>3, <3>1
    <2>6. CASE f # e
      BY <2>3, <2>4, <2>6
    <2> QED BY <2>5, <2>6
  <1>3. ASSUME NEW e \in timevts, TimerExhausted(e)
        PROVE  UnackedCovered'
    BY <1>3 DEF TimerExhausted, UnackedCovered
  <1>4. CASE TimerReturns
    BY <1>4 DEF TimerReturns, UnackedCovered
  <1> QED BY <1>1, <1>2, <1>3, <1>4 DEF Timer

(* A packet is sent together with the event that covers it. *)
LEMMA UnackedCoveredSend ==
  ASSUME TypeOK, UnackedCovered, TrySendPkg
  PROVE  UnackedCovered'
  <1> DEFINE sent == Event("SEQ", nextSeq, SendSize)
  <1>1. nextSeq \in Nat /\ sOut \in Nat
    BY DEF TypeOK, SenderTypeOK
  <1>2. SendSize \in Nat
    <2>1. sOut + rwnd \in Int /\ sIn \in Int /\ rwnd \in Nat
      BY RingAssumption DEF TypeOK, SenderTypeOK
    <2>2. Minus(sOut + rwnd, nextSeq) \in Nat /\ Minus(sIn, nextSeq) \in Nat
      BY <1>1, <2>1, MinusIsDifference
    <2> QED BY <2>1, <2>2, CongestionAssumption DEF SendSize, AtMost
  <1>3. /\ timevts' = timevts \cup {sent}
        /\ nextSeq' = nextSeq + SendSize /\ sOut' = sOut
    BY DEF TrySendPkg
  <1>4. sent.flag = "SEQ" /\ sent.seq = nextSeq /\ sent.len = SendSize
    BY DEF Event
  <1> HIDE DEF sent
  <1> SUFFICES ASSUME NEW p \in sOut' .. nextSeq' - 1
               PROVE  \E f \in timevts' : Covers(f, p)
    BY DEF UnackedCovered, Covers
  <1>5. CASE p < nextSeq
    <2>1. p \in sOut .. nextSeq - 1
      BY <1>1, <1>2, <1>3, <1>5
    <2> QED BY <1>3, <2>1 DEF UnackedCovered, Covers
  <1>6. CASE ~(p < nextSeq)
    <2>1. Covers(sent, p)
      BY <1>1, <1>2, <1>3, <1>4, <1>6 DEF Covers
    <2> QED BY <1>3, <2>1
  <1> QED BY <1>5, <1>6

(* An ACK only takes bytes out of the range to cover. *)
LEMMA UnackedCoveredAck ==
  ASSUME TypeOK, UnackedCovered, NEW i \in Deliverable(toSend), RecvAck(i)
  PROVE  UnackedCovered'
  <1>1. timevts' = timevts /\ nextSeq' = nextSeq
    BY DEF RecvAck
  <1>2. sOut \in Nat /\ nextSeq \in Nat
    BY DEF TypeOK, SenderTypeOK
  <1>3. sOut' \in Nat /\ sOut <= sOut'
    <2>1. toSend[i] \in Acks /\ sIn \in Nat
      BY DeliverableIsIndex, RingAssumption DEF TypeOK, SenderTypeOK
    <2>2. CASE NewAck(toSend[i])
      <3> DEFINE more == toSend[i].ack - sOut
      <3>1. more \in Nat /\ sIn \in Nat
        BY <1>2, <2>1, <2>2 DEF NewAck, Acks
      <3>2. sOut' = sOut + GetSize(sIn, sOut, more)
        BY <2>2 DEF NewAck
      <3> HIDE DEF more
      <3>3. GetSize(sIn, sOut, more) \in Nat
        BY <1>2, <3>1, GetSizeType
      <3> QED BY <1>2, <3>2, <3>3
    <2>3. CASE ~NewAck(toSend[i])
      BY <1>2, <2>3 DEF RecvAck, ConnectAck, OldAck, CloseAck
    <2> QED BY <2>2, <2>3
  <1> QED BY <1>1, <1>2, <1>3 DEF UnackedCovered

LEMMA UnackedCoveredNext ==
  TypeOK /\ UnackedCovered /\ [Next]_vars => UnackedCovered'
  <1> SUFFICES ASSUME TypeOK, UnackedCovered, [Next]_vars
               PROVE  UnackedCovered'
    OBVIOUS
  <1>1. CASE Application
    BY <1>1 DEF Application, Connect, Push, Close, UnackedCovered
  <1>2. CASE Timer
    BY <1>2, UnackedCoveredTimer
  <1>3. CASE RecvTimeout
    BY <1>3 DEF RecvTimeout, UnackedCovered
  <1>4. CASE \E i \in Deliverable(toSend) : RecvAck(i)
    BY <1>4, UnackedCoveredAck
  <1>5. CASE Manager
    <2>1. CASE TrySendPkg
      BY <2>1, UnackedCoveredSend
    <2>2. CASE ManagerSends \/ ManagerDrains \/ ManagerGoesOn \/ ManagerCloses \/ TrySendDone
      BY <2>2 DEF ManagerSends, ManagerDrains, ManagerGoesOn, ManagerCloses, TrySendDone, UnackedCovered
    <2> QED BY <1>5, <2>1, <2>2 DEF Manager
  <1>6. CASE UNCHANGED sVars
    BY <1>6 DEF sVars, UnackedCovered
  <1> QED BY <1>1, <1>2, <1>3, <1>4, <1>5, <1>6
      DEF Next, SenderStep, ReceiverStep, SenderNext, vars

(* In every network, every byte that trySendPkg has sent and no ACK has    *)
(* covered yet has a pending timer event.                                  *)
THEOREM UnackedAlwaysCovered == Spec => []UnackedCovered
  <1> QED BY UnackedCoveredInit, UnackedCoveredNext, TypeCorrect, PTL DEF Spec

-----------------------------------------------------------------------------
(* SendBufferIntact.  That nextSeq stays below end() rests on the stream's *)
(* length: the subtraction of trySendPkg must not wrap.                    *)

SendBufferInv == SendBufferIntact /\ sIn <= Total

LEMMA SendBufferInit == Init => SendBufferInv
  BY SenderAssumption, RingAssumption
  DEF Init, SenderInit, SendBufferInv, SendBufferIntact, Holds

(* A push writes the stream's next bytes and steps on no byte that waits   *)
(* for its ACK.                                                            *)
LEMMA SendBufferPush ==
  ASSUME TypeOK, SendBufferInv, NEW size \in Chunks, Push(AtMost(size, Total - sIn))
  PROVE  SendBufferInv'
  <1> DEFINE asked   == AtMost(size, Total - sIn)
             partnum == SetSize(sIn, sOut, asked)
             data    == Stream(sIn, partnum)
  <1>1. /\ sIn \in Nat /\ sOut \in Nat /\ nextSeq \in Nat /\ N \in Nat /\ Total \in Nat
        /\ sIn \in sOut .. sOut + N
    BY RingAssumption, SenderAssumption DEF TypeOK, SenderTypeOK
  <1>2. asked \in Int /\ asked <= Total - sIn
    BY <1>1, SenderAssumption DEF AtMost
  <1>3. /\ partnum > 0
        /\ sRing' = Set(sRing, sIn, data) /\ sIn' = sIn + partnum
        /\ sOut' = sOut /\ nextSeq' = nextSeq
    BY DEF Push
  <1> HIDE DEF asked
  <1>4. partnum \in Int /\ partnum <= N + sOut - sIn /\ partnum <= asked
    BY <1>1, <1>2, SetSizeFits
  <1> HIDE DEF partnum
  <1>5. Len(data) = partnum /\ \A k \in 1 .. partnum : data[k] = sIn + k - 1
    BY <1>3, <1>4 DEF Stream
  <1> HIDE DEF data
  <1>6. sIn' <= Total /\ nextSeq' <= sIn' /\ sIn' <= sOut' + N
    BY <1>1, <1>2, <1>3, <1>4 DEF SendBufferInv, SendBufferIntact
  <1>7. ASSUME NEW p \in sOut' .. sIn' - 1
        PROVE  sRing'[p % N] = p
    <2>1. p \in Int /\ Len(data) \in 0 .. N
      BY <1>1, <1>3, <1>4, <1>5
    <2>2. CASE p < sIn
      <3>1. p \in sIn + Len(data) - N .. sIn - 1
        BY <1>1, <1>3, <1>4, <1>5, <1>7, <2>2
      <3>2. sRing'[p % N] = sRing[p % N]
        BY <1>1, <1>3, <2>1, <3>1, SetReads
      <3>3. p \in sOut .. sIn - 1
        BY <1>1, <1>3, <1>7, <2>2
      <3> QED BY <3>2, <3>3 DEF SendBufferInv, SendBufferIntact, Holds
    <2>3. CASE ~(p < sIn)
      <3>1. p \in sIn .. sIn + Len(data) - 1
        BY <1>1, <1>3, <1>4, <1>5, <1>7, <2>3
      <3>2. sRing'[p % N] = data[p - sIn + 1]
        BY <1>1, <1>3, <2>1, <3>1, SetReads
      <3>3. p - sIn + 1 \in 1 .. partnum
        BY <1>1, <1>4, <1>5, <3>1
      <3> QED BY <1>1, <1>5, <3>1, <3>2, <3>3
    <2> QED BY <2>2, <2>3
  <1> QED BY <1>6, <1>7 DEF SendBufferInv, SendBufferIntact, Holds

(* trySendPkg sends no more than there is in the buffer. *)
LEMMA SendBufferSend ==
  ASSUME TypeOK, SendBufferInv, TrySendPkg
  PROVE  SendBufferInv'
  <1>1. /\ sIn \in Nat /\ sOut \in Nat /\ nextSeq \in Nat /\ rwnd \in Nat
        /\ Word \in Nat /\ sIn < Word /\ MSS \in Nat
    BY RingAssumption, SenderAssumption, CongestionAssumption
    DEF TypeOK, SenderTypeOK, SendBufferInv
  <1>2. nextSeq <= sIn
    BY DEF SendBufferInv, SendBufferIntact
  <1>3. Minus(sIn, nextSeq) = sIn - nextSeq
    BY <1>1, <1>2, MinusIsDifference
  <1>4. Minus(sOut + rwnd, nextSeq) \in Nat
    <2>1. sOut + rwnd \in Int /\ nextSeq \in Int
      BY <1>1
    <2> QED BY <2>1, MinusIsDifference
  <1>5. SendSize \in Nat /\ SendSize <= sIn - nextSeq
    BY <1>1, <1>2, <1>3, <1>4 DEF SendSize, AtMost
  <1>6. nextSeq' = nextSeq + SendSize /\ UNCHANGED <<sIn, sOut, sRing>>
    BY DEF TrySendPkg
  <1>7. nextSeq' <= sIn
    BY <1>1, <1>5, <1>6
  <1> QED BY <1>6, <1>7 DEF SendBufferInv, SendBufferIntact, Holds

(* An ACK takes bytes out of the front of the buffer. *)
LEMMA SendBufferAck ==
  ASSUME TypeOK, SendBufferInv, NEW i \in Deliverable(toSend), RecvAck(i)
  PROVE  SendBufferInv'
  <1>1. UNCHANGED <<nextSeq, sIn, sRing>>
    BY DEF RecvAck
  <1>2. /\ sIn \in Nat /\ sOut \in Nat /\ N \in Nat /\ sIn <= sOut + N
    BY RingAssumption DEF TypeOK, SenderTypeOK
  <1>3. sOut' \in Nat /\ sOut <= sOut'
    <2>1. toSend[i] \in Acks
      BY DeliverableIsIndex DEF TypeOK
    <2>2. CASE NewAck(toSend[i])
      <3> DEFINE more == toSend[i].ack - sOut
      <3>1. more \in Nat
        BY <1>2, <2>1, <2>2 DEF NewAck, Acks
      <3>2. sOut' = sOut + GetSize(sIn, sOut, more)
        BY <2>2 DEF NewAck
      <3> HIDE DEF more
      <3>3. GetSize(sIn, sOut, more) \in Nat
        BY <1>2, <3>1, GetSizeType
      <3> QED BY <1>2, <3>2, <3>3
    <2>3. CASE ~NewAck(toSend[i])
      BY <1>2, <2>3 DEF RecvAck, ConnectAck, OldAck, CloseAck
    <2> QED BY <2>2, <2>3
  <1>4. ASSUME NEW x \in Nat, sOut <= x
        PROVE  sIn <= x + N /\ x .. sIn - 1 \subseteq sOut .. sIn - 1
    BY <1>2, <1>4
  <1>5. sIn <= sOut' + N /\ sOut' .. sIn - 1 \subseteq sOut .. sIn - 1
    BY <1>3, <1>4
  <1> QED BY <1>1, <1>5 DEF SendBufferInv, SendBufferIntact, Holds

LEMMA SendBufferNext ==
  TypeOK /\ SendBufferInv /\ [Next]_vars => SendBufferInv'
  <1> SUFFICES ASSUME TypeOK, SendBufferInv, [Next]_vars
               PROVE  SendBufferInv'
    OBVIOUS
  <1> USE DEF SendBufferInv, SendBufferIntact, Holds
  <1>1. CASE Application
    <2>1. CASE \E size \in Chunks : Push(AtMost(size, Total - sIn))
      BY <2>1, SendBufferPush
    <2>2. CASE Connect \/ Close
      BY <2>2 DEF Connect, Close
    <2> QED BY <1>1, <2>1, <2>2 DEF Application
  <1>2. CASE Timer
    BY <1>2 DEF Timer, TimerDropped, TimerResent, TimerExhausted, TimerReturns
  <1>3. CASE RecvTimeout
    BY <1>3 DEF RecvTimeout
  <1>4. CASE \E i \in Deliverable(toSend) : RecvAck(i)
    BY <1>4, SendBufferAck
  <1>5. CASE Manager
    <2>1. CASE TrySendPkg
      BY <2>1, SendBufferSend
    <2>2. CASE ManagerSends \/ ManagerDrains \/ ManagerGoesOn \/ ManagerCloses \/ TrySendDone
      BY <2>2 DEF ManagerSends, ManagerDrains, ManagerGoesOn, ManagerCloses, TrySendDone
    <2> QED BY <1>5, <2>1, <2>2 DEF Manager
  <1>6. CASE UNCHANGED sVars
    BY <1>6 DEF sVars
  <1> QED BY <1>1, <1>2, <1>3, <1>4, <1>5, <1>6
      DEF Next, SenderStep, ReceiverStep, SenderNext, vars

(* In every network, the send buffer holds the stream's bytes from begin() *)
(* to end(), and no byte is numbered and sent before it is there.          *)
THEOREM SendBufferAlwaysIntact == Spec => []SendBufferIntact
  <1>1. Spec => []SendBufferInv
    BY SendBufferInit, SendBufferNext, TypeCorrect, PTL DEF Spec
  <1>2. SendBufferInv => SendBufferIntact
    BY DEF SendBufferInv
  <1> QED BY <1>1, <1>2, PTL

-----------------------------------------------------------------------------
(* FirstPieceWhole.  Until the receiver has its first bytes nothing can be *)
(* acknowledged, so the window stays open and every packet that begins the *)
(* stream is cut from a buffer that holds the whole piece.                 *)

(* n bytes are the whole of a first piece of f bytes, or a segment of it. *)
Whole(f, n) == f > 0 /\ n >= AtMost(f, MSS)

(* What starts at the head of the stream holds the piece, all else starts  *)
(* behind it.                                                              *)
Starts(f, seq, len) == IF seq = 0 THEN Whole(f, len) ELSE Whole(f, seq) /\ seq < Word

(* A retransmission may find the send buffer empty still. *)
FirstFits(f, m) ==
  IF m.flag = "SEQ" THEN Starts(f, m.seq, Len(m.data)) \/ (m.seq = 0 /\ m.data = <<>>)
                    ELSE m.seq = 0 /\ m.data = <<>>

(* The receiver has heard nothing at all. *)
Unheard ==
  /\ nextACK = Word - 1 /\ rPc = "recv" /\ cacheRanges = {}
  /\ sState \in {"closed", "connecting"} /\ sCall = "connect" /\ sPc \notin {"manager", "drain", "try"}
  /\ toSend = <<>>
  /\ \A i \in DOMAIN toRecv : toRecv[i].flag = "SYN"
  /\ \A e \in timevts : e.flag = "SYN"

(* Until the first bytes arrive the receiver offers all of its buffer.     *)
UntilFirst(f) ==
  /\ sOut = 0
  /\ sPc = "start" => nextSeq = 0
  /\ nextSeq > 0 => Whole(f, nextSeq)
  /\ sCall # "connect" \/ sPc \in {"manager", "drain", "try"} => rwnd = N
  /\ \A e \in timevts : IF e.flag = "SEQ" THEN Starts(f, e.seq, e.len) ELSE e.seq = 0
  /\ toRecv \in Seq({m \in Packets : FirstFits(f, m)})
  /\ toSend \in Seq({Ack(0, N)})
  /\ \A r \in cacheRanges : r[1] \in 1 .. Word - 1 /\ Whole(f, r[1])
  /\ nextACK = 0 \/ Unheard

FirstInv(f) ==
  /\ sIn > 0 => Whole(f, sIn)
  /\ IF rIn = 0 THEN UntilFirst(f) ELSE Whole(f, rIn)

LEMMA WholeGrows ==
  ASSUME NEW f \in Nat, NEW n \in Nat, Whole(f, n), NEW m \in Nat, m >= n
  PROVE  Whole(f, m) /\ m > 0
  BY CongestionAssumption DEF Whole, AtMost

LEMMA MinusNothing ==
  ASSUME NEW y \in Nat, y < Word
  PROVE  Minus(y, 0) = y
  <1>1. y \in Int /\ 0 \in Int /\ Word \in Nat
    BY RingAssumption
  <1> QED BY <1>1, MinusIsDifference

(* A segment cut from the send buffer before anything is acknowledged. *)
LEMMA SegmentFits ==
  ASSUME NEW f \in Nat, SenderTypeOK, sOut = 0, sIn > 0 => Whole(f, sIn),
         NEW seq \in Nat, NEW len \in Nat,
         IF seq = 0 THEN sIn > 0 => Whole(f, len) ELSE Whole(f, seq) /\ seq < Word
  PROVE  Segment(seq, len) \in {m \in Packets : FirstFits(f, m)}
  <1>1. PICK m : m = Segment(seq, len)
    OBVIOUS
  <1>2. m \in Packets /\ m.flag = "SEQ" /\ m.seq = seq
        /\ m.data = Get(sRing, seq, GetSize(sIn, seq, len))
    BY <1>1, SegmentType DEF Segment, Packet
  <1>3. sIn \in 0 .. N /\ N \in Nat /\ N < Word /\ Word \in Nat
    BY RingAssumption DEF SenderTypeOK
  <1>4. CASE seq # 0
    BY <1>1, <1>2, <1>4 DEF FirstFits, Starts
  <1>5. CASE seq = 0
    <2>1. PICK k \in Nat : k = AtMost(len, sIn) /\ k = GetSize(sIn, seq, len)
      <3>1. Minus(sIn, 0) = sIn
        BY <1>3, MinusIsDifference
      <3>2. AtMost(len, sIn) \in Nat
        BY <1>3 DEF AtMost
      <3> QED BY <1>5, <3>1, <3>2 DEF GetSize
    <2>2. Len(m.data) = k /\ m.data \in Seq(Bytes)
      BY <1>2, <1>5, <2>1, GetType DEF SenderTypeOK
    <2>3. k = 0 \/ Whole(f, k)
      <3>1. CASE sIn = 0
        BY <1>3, <2>1, <3>1 DEF AtMost
      <3>2. CASE sIn > 0
        <4>1. Whole(f, len) /\ Whole(f, sIn)
          BY <1>5, <3>2
        <4> QED BY <1>3, <2>1, <4>1 DEF AtMost
      <3> QED BY <1>3, <3>1, <3>2
    <2>4. k = 0 => m.data = <<>>
      BY <2>2
    <2> QED BY <1>1, <1>2, <1>5, <2>2, <2>3, <2>4 DEF FirstFits, Starts
  <1> QED BY <1>4, <1>5

(* What is sent by the timer. *)
LEMMA ResentFits ==
  ASSUME NEW f \in Nat, TypeOK, FirstInv(f), rIn = 0, NEW e \in timevts
  PROVE  Resent(e) \in {m \in Packets : FirstFits(f, m)}
  <1>1. /\ e.flag \in Flags /\ e.seq \in Nat /\ e.len \in Nat
        /\ IF e.flag = "SEQ" THEN Starts(f, e.seq, e.len) ELSE e.seq = 0
    BY DEF TypeOK, SenderTypeOK, FirstInv, UntilFirst
  <1>2. CASE e.flag = "SEQ"
    <2>1. Resent(e) = Segment(e.seq, e.len)
      BY <1>2 DEF Resent
    <2>2. sOut = 0 /\ (sIn > 0 => Whole(f, sIn)) /\ SenderTypeOK
      BY DEF FirstInv, UntilFirst, TypeOK
    <2>3. IF e.seq = 0 THEN Whole(f, e.len) ELSE Whole(f, e.seq) /\ e.seq < Word
      BY <1>1, <1>2 DEF Starts
    <2> QED BY <1>1, <2>1, <2>2, <2>3, SegmentFits
  <1>3. CASE e.flag # "SEQ"
    <2>1. Resent(e) = [flag |-> e.flag, seq |-> 0, data |-> <<>>]
      BY <1>1, <1>3 DEF Resent, Packet
    <2>2. Resent(e) \in Packets
      BY ResentType DEF TypeOK
    <2> QED BY <1>3, <2>1, <2>2 DEF FirstFits
  <1> QED BY <1>2, <1>3

(* A control packet of number 0. *)
LEMMA ControlFits ==
  ASSUME NEW f, NEW flag \in {"SYN", "FIN"}
  PROVE  Packet(flag, 0, <<>>) \in {m \in Packets : FirstFits(f, m)}
  BY DEF Packet, Packets, FirstFits, Flags

(* The application's thread. *)
LEMMA FirstApplication ==
  ASSUME NEW f \in Nat, TypeOK, FirstInv(f), UntilFirst(f), Application, UNCHANGED rVars
  PROVE  UntilFirst(f)'
  <1>1. UNCHANGED <<nextACK, rPc, cacheRanges>>
    BY DEF rVars
  <1>2. CASE Connect
    <2>1. nextSeq = 0 /\ UNCHANGED <<nextSeq, rwnd, sOut, toSend>> /\ sPc' = "timer"
          /\ sCall' = "connect" /\ sState' = "connecting"
      BY <1>2 DEF Connect, UntilFirst
    <2>2. toRecv' = Sent(toRecv, Packet("SYN", 0, <<>>))
          /\ timevts' = timevts \cup {[flag |-> "SYN", seq |-> 0, len |-> 0, n |-> 0]}
      BY <1>2, <2>1 DEF Connect, Event
    <2>3. toRecv' \in Seq({m \in Packets : FirstFits(f, m)})
      BY <2>2, ControlFits, SentType DEF UntilFirst
    <2>4. \A e \in timevts' : IF e.flag = "SEQ" THEN Starts(f, e.seq, e.len) ELSE e.seq = 0
      BY <2>2 DEF UntilFirst
    <2>5. Unheard => Unheard'
      <3> SUFFICES ASSUME Unheard PROVE Unheard'
        OBVIOUS
      <3>1. toRecv' \in Seq({m \in Packets : m.flag = "SYN"})
        <4>1. toRecv \in Seq({m \in Packets : m.flag = "SYN"})
          BY DEF Unheard, TypeOK
        <4>2. Packet("SYN", 0, <<>>) \in {m \in Packets : m.flag = "SYN"}
          BY DEF Packet, Packets, Flags
        <4> QED BY <2>2, <4>1, <4>2, SentType
      <3>2. \A i \in DOMAIN toRecv' : toRecv'[i].flag = "SYN"
        BY <3>1
      <3>3. \A e \in timevts' : e.flag = "SYN"
        BY <2>2 DEF Unheard
      <3> QED BY <1>1, <2>1, <3>2, <3>3 DEF Unheard
    <2> QED BY <1>1, <2>1, <2>3, <2>4, <2>5 DEF UntilFirst
  <1>3. CASE Close \/ \E size \in Chunks : Push(AtMost(size, Total - sIn))
    <2>1. UNCHANGED <<sPc, sCall, timevts, nextSeq, rwnd, sOut, toRecv, toSend>> /\ sState = "send"
      BY <1>3 DEF Close, Push
    <2>2. ~Unheard
      BY <2>1 DEF Unheard
    <2> QED BY <1>1, <2>1, <2>2 DEF UntilFirst
  <1> QED BY <1>2, <1>3 DEF Application

(* handleTimer, and recvfrom without an ACK. *)
LEMMA FirstTimer ==
  ASSUME NEW f \in Nat, TypeOK, FirstInv(f), rIn = 0, Timer \/ RecvTimeout, UNCHANGED rVars
  PROVE  UntilFirst(f)'
  <1>0. UntilFirst(f)
    BY DEF FirstInv
  <1>1. UNCHANGED <<nextACK, rPc, cacheRanges>>
    BY DEF rVars
  <1>2. ASSUME NEW e \in timevts, TimerResent(e)
        PROVE  UntilFirst(f)'
    <2>1. UNCHANGED <<sState, sPc, sCall, nextSeq, rwnd, sOut, toSend>>
          /\ toRecv' = Sent(toRecv, Resent(e))
          /\ timevts' = (timevts \ {e}) \cup {[e EXCEPT !.n = @ + 1]}
      BY <1>2 DEF TimerResent
    <2>2. toRecv' \in Seq({m \in Packets : FirstFits(f, m)})
      BY <1>0, <2>1, ResentFits, SentType DEF UntilFirst
    <2>3. PICK u : u = [e EXCEPT !.n = @ + 1]
      OBVIOUS
    <2>4. u.flag = e.flag /\ u.seq = e.seq /\ u.len = e.len
      BY <2>3 DEF TypeOK, SenderTypeOK
    <2>5. \A v \in timevts' : v = u \/ v \in timevts
      BY <2>1, <2>3
    <2>6. \A v \in timevts' : IF v.flag = "SEQ" THEN Starts(f, v.seq, v.len) ELSE v.seq = 0
      BY <1>0, <2>4, <2>5 DEF UntilFirst
    <2>7. Unheard => Unheard'
      <3> SUFFICES ASSUME Unheard PROVE Unheard'
        OBVIOUS
      <3>1. toRecv' \in Seq({m \in Packets : m.flag = "SYN"})
        <4>1. toRecv \in Seq({m \in Packets : m.flag = "SYN"})
          BY DEF Unheard, TypeOK
        <4>2. e.flag = "SYN"
          BY DEF Unheard
        <4>3. Resent(e) \in {m \in Packets : m.flag = "SYN"}
          <5>1. Resent(e) \in Packets
            BY ResentType DEF TypeOK
          <5>2. Resent(e).flag = "SYN"
            BY <4>2 DEF Resent, Packet
          <5> QED BY <5>1, <5>2
        <4> QED BY <2>1, <4>1, <4>3, SentType
      <3>2. \A i \in DOMAIN toRecv' : toRecv'[i].flag = "SYN"
        BY <3>1
      <3>3. \A v \in timevts' : v.flag = "SYN"
        BY <2>4, <2>5 DEF Unheard
      <3> QED BY <1>1, <2>1, <3>2, <3>3 DEF Unheard
    <2> QED BY <1>0, <1>1, <2>1, <2>2, <2>6, <2>7 DEF UntilFirst
  <1>3. ASSUME UNCHANGED <<sState, sCall, nextSeq, rwnd, sOut, toRecv, toSend>>,
               timevts' \subseteq timevts, sPc' # "start",
               sPc' \in {"manager", "drain", "try"} => sPc \in {"manager", "drain", "try"} \/ sCall # "connect"
        PROVE  UntilFirst(f)'
    <2>1. Unheard => Unheard'
      BY <1>1, <1>3 DEF Unheard
    <2> QED BY <1>0, <1>1, <1>3, <2>1 DEF UntilFirst
  <1>4. CASE RecvTimeout
    BY <1>3, <1>4 DEF RecvTimeout, AfterNothing
  <1>5. CASE TimerReturns
    BY <1>3, <1>5 DEF TimerReturns
  <1>6. CASE \E e \in timevts : TimerDropped(e) \/ TimerExhausted(e)
    BY <1>3, <1>6 DEF TimerDropped, TimerExhausted
  <1> QED BY <1>2, <1>4, <1>5, <1>6 DEF Timer

(* recvfrom returns an ACK. *)
LEMMA FirstAck ==
  ASSUME NEW f \in Nat, TypeOK, FirstInv(f), rIn = 0, NEW i \in Deliverable(toSend), RecvAck(i),
         UNCHANGED rVars
  PROVE  UntilFirst(f)'
  <1>0. UntilFirst(f) /\ sOut = 0
    BY DEF FirstInv, UntilFirst
  <1>1. UNCHANGED <<nextACK, rPc, cacheRanges, sCall, timevts, nextSeq>>
    BY DEF rVars, RecvAck
  <1>2. i \in 1 .. Len(toSend)
    BY DeliverableIsIndex
  <1>3. PICK a : a = toSend[i] /\ a.ack = 0 /\ a.window = N
    BY <1>0, <1>2 DEF UntilFirst, Ack
  <1>4. toSend' \in Seq({Ack(0, N)})
    BY <1>0, RestType DEF RecvAck, UntilFirst
  <1>5. nextACK = 0
    BY <1>0, <1>2 DEF UntilFirst, Unheard
  <1>6. ASSUME sOut' = 0, sPc' # "start", toRecv' \in Seq({m \in Packets : FirstFits(f, m)}),
               rwnd' = N \/ (rwnd' = rwnd /\ (sPc' \notin {"manager", "drain", "try"} \/ sCall # "connect"))
        PROVE  UntilFirst(f)'
    BY <1>0, <1>1, <1>4, <1>5, <1>6 DEF UntilFirst
  <1>7. CASE ConnectAck(a)
    BY <1>0, <1>3, <1>6, <1>7 DEF ConnectAck, UntilFirst
  <1>8. CASE NewAck(a)
    BY <1>0, <1>3, <1>8 DEF NewAck
  <1>9. CASE OldAck(a)
    <2>1. rwnd' = N /\ sOut' = 0 /\ sPc' = "manager"
      BY <1>0, <1>3, <1>9 DEF OldAck
    <2>2. Segment(0, MSS) \in {m \in Packets : FirstFits(f, m)}
      <3>1. sIn > 0 => Whole(f, MSS)
        BY CongestionAssumption DEF FirstInv, Whole, AtMost
      <3>2. SenderTypeOK /\ (sIn > 0 => Whole(f, sIn)) /\ MSS \in Nat
        BY CongestionAssumption DEF TypeOK, FirstInv
      <3> QED BY <1>0, <3>1, <3>2, SegmentFits
    <2>3. toRecv' = toRecv \/ toRecv' = Sent(toRecv, Segment(0, MSS))
      BY <1>3, <1>9 DEF OldAck
    <2>4. toRecv' \in Seq({m \in Packets : FirstFits(f, m)})
      BY <1>0, <2>2, <2>3, SentType DEF UntilFirst
    <2> QED BY <1>6, <2>1, <2>4
  <1>10. CASE CloseAck(a)
    BY <1>0, <1>6, <1>10 DEF CloseAck, UntilFirst
  <1> QED BY <1>3, <1>7, <1>8, <1>9, <1>10 DEF RecvAck

(* The manager. *)
LEMMA FirstManager ==
  ASSUME NEW f \in Nat, TypeOK, SendBufferInv, FirstInv(f), rIn = 0, Manager, UNCHANGED rVars
  PROVE  UntilFirst(f)'
  <1>0. UntilFirst(f) /\ sOut = 0
    BY DEF FirstInv, UntilFirst
  <1>1. UNCHANGED <<nextACK, rPc, cacheRanges>>
    BY DEF rVars
  <1>2. sPc \in {"manager", "drain", "try"}
    BY DEF Manager, ManagerSends, ManagerDrains, ManagerGoesOn, ManagerCloses,
      TrySendPkg, TrySendDone
  <1>3. nextACK = 0 /\ rwnd = N
    BY <1>0, <1>2 DEF UntilFirst, Unheard
  <1>4. CASE ManagerSends \/ ManagerDrains \/ ManagerGoesOn \/ TrySendDone
    BY <1>0, <1>1, <1>3, <1>4 DEF ManagerSends, ManagerDrains, ManagerGoesOn, TrySendDone, UntilFirst
  <1>5. CASE ManagerCloses
    <2>1. nextSeq = 0
      <3>1. nextSeq <= sIn /\ sIn = 0 /\ nextSeq \in Nat
        BY <1>0, <1>5 DEF ManagerCloses, SendBufferInv, SendBufferIntact, TypeOK, SenderTypeOK
      <3> QED BY <3>1
    <2>2. toRecv' = Sent(toRecv, Packet("FIN", 0, <<>>))
          /\ timevts' = timevts \cup {[flag |-> "FIN", seq |-> 0, len |-> 0, n |-> 0]}
          /\ sPc' = "timer" /\ UNCHANGED <<nextSeq, rwnd, sOut, toSend>>
      BY <1>5, <2>1 DEF ManagerCloses, Event
    <2>3. toRecv' \in Seq({m \in Packets : FirstFits(f, m)})
      BY <1>0, <2>2, ControlFits, SentType DEF UntilFirst
    <2>4. \A e \in timevts' : IF e.flag = "SEQ" THEN Starts(f, e.seq, e.len) ELSE e.seq = 0
      BY <1>0, <2>2 DEF UntilFirst
    <2> QED BY <1>0, <1>1, <1>3, <2>1, <2>2, <2>3, <2>4 DEF UntilFirst
  <1>6. CASE TrySendPkg
    <2>1. PICK k : k = SendSize /\ k > 0
      BY <1>6 DEF TrySendPkg
    <2>2. /\ toRecv' = Sent(toRecv, Segment(nextSeq, k))
          /\ timevts' = timevts \cup {[flag |-> "SEQ", seq |-> nextSeq, len |-> k, n |-> 0]}
          /\ nextSeq' = nextSeq + k
          /\ UNCHANGED <<sPc, rwnd, sOut, toSend>>
      BY <1>6, <2>1 DEF TrySendPkg, Event
    <2>3. /\ sIn \in 0 .. N /\ nextSeq \in 0 .. sIn /\ MSS \in Nat \ {0} /\ MSS <= N
          /\ N \in Nat /\ N < Word /\ Word \in Nat
      BY <1>0, RingAssumption, SenderAssumption, CongestionAssumption
      DEF SendBufferInv, SendBufferIntact, TypeOK, SenderTypeOK
    <2>4. Minus(sIn, nextSeq) = sIn - nextSeq /\ Minus(sOut + rwnd, nextSeq) = N - nextSeq
      <3>1. sIn \in Int /\ nextSeq \in Int /\ 0 <= sIn - nextSeq /\ sIn - nextSeq < Word
        BY <2>3
      <3>2. N \in Int /\ 0 <= N - nextSeq /\ N - nextSeq < Word
        BY <2>3
      <3>3. Minus(sIn, nextSeq) = sIn - nextSeq
        BY <3>1, MinusIsDifference
      <3>4. Minus(N, nextSeq) = N - nextSeq
        BY <3>1, <3>2, MinusIsDifference
      <3>5. sOut + rwnd = N
        BY <1>0, <1>3, <2>3
      <3> QED BY <3>3, <3>4, <3>5
    <2>5. k \in Nat /\ (nextSeq = 0 => k = AtMost(MSS, sIn))
      <3>1. k = AtMost(AtMost(MSS, N - nextSeq), AtMost(sIn - nextSeq, N))
        BY <1>3, <2>1, <2>4 DEF SendSize
      <3>2. PICK u \in Nat : u = N - nextSeq
        BY <2>3
      <3>3. PICK v \in Nat : v = sIn - nextSeq
        BY <2>3
      <3>4. k = AtMost(AtMost(MSS, u), AtMost(v, N))
        BY <3>1, <3>2, <3>3
      <3>5. k \in Nat
        BY <2>3, <3>4 DEF AtMost
      <3>6. nextSeq = 0 => u = N /\ v = sIn
        BY <2>3, <3>2, <3>3
      <3> QED BY <2>3, <3>4, <3>5, <3>6 DEF AtMost
    <2>6. nextSeq = 0 => Whole(f, k)
      <3>1. nextSeq = 0 => sIn > 0 /\ Whole(f, sIn)
        BY <2>1, <2>3, <2>5 DEF AtMost, FirstInv
      <3>2. Whole(f, sIn) => Whole(f, MSS)
        BY <2>3 DEF Whole, AtMost
      <3> QED BY <2>5, <3>1, <3>2 DEF AtMost
    <2>7. nextSeq # 0 => Whole(f, nextSeq) /\ nextSeq < Word
      BY <1>0, <2>3 DEF UntilFirst
    <2>8. Starts(f, nextSeq, k)
      BY <2>6, <2>7 DEF Starts
    <2>9. Segment(nextSeq, k) \in {m \in Packets : FirstFits(f, m)}
      <3>1. SenderTypeOK /\ (sIn > 0 => Whole(f, sIn)) /\ nextSeq \in Nat
        BY <2>3 DEF TypeOK, FirstInv
      <3> QED BY <1>0, <2>5, <2>6, <2>7, <3>1, SegmentFits
    <2>10. toRecv' \in Seq({m \in Packets : FirstFits(f, m)})
      BY <1>0, <2>2, <2>9, SentType DEF UntilFirst
    <2>11. \A e \in timevts' : IF e.flag = "SEQ" THEN Starts(f, e.seq, e.len) ELSE e.seq = 0
      BY <1>0, <2>2, <2>8 DEF UntilFirst
    <2>12. Whole(f, nextSeq')
      BY <2>1, <2>2, <2>3, <2>5, <2>6, <2>7, WholeGrows
    <2>13. sPc' # "start"
      BY <1>2, <2>2
    <2> QED BY <1>0, <1>1, <1>3, <2>2, <2>10, <2>11, <2>12, <2>13 DEF UntilFirst
  <1> QED BY <1>4, <1>5, <1>6 DEF Manager


(* recvPkg() returns a packet before there are any bytes. *)
LEMMA FirstReceive ==
  ASSUME NEW f \in Nat, TypeOK, FirstInv(f), rIn = 0, NEW i \in Deliverable(toRecv), Receive(i),
         UNCHANGED sVars
  PROVE  IF rIn' = 0 THEN UntilFirst(f)' ELSE Whole(f, rIn')
  <1>0. UntilFirst(f) /\ UNCHANGED <<sOut, sPc, nextSeq, sCall, rwnd, timevts, toSend>>
    BY DEF FirstInv, sVars, Receive
  <1>1. i \in 1 .. Len(toRecv)
    BY DeliverableIsIndex
  <1>2. PICK p : p = toRecv[i] /\ p \in Packets /\ FirstFits(f, p)
    BY <1>0, <1>1 DEF UntilFirst
  <1>3. toRecv' \in Seq({m \in Packets : FirstFits(f, m)})
    BY <1>0, RestType DEF Receive, UntilFirst
  <1>4. nextACK = 0 \/ (nextACK = Word - 1 /\ p.flag = "SYN")
    BY <1>0, <1>1, <1>2 DEF UntilFirst, Unheard
  <1>5. /\ p.flag \in Flags /\ p.seq \in Nat /\ p.data \in Seq(Bytes) /\ Len(p.data) \in Nat
        /\ rOut = 0 /\ N \in Nat \ {0} /\ Word \in Nat /\ N < Word
    BY <1>2, RingAssumption DEF Packets, TypeOK, ReceiverTypeOK
  <1>6. ASSUME rIn' = 0, nextACK' = 0,
               \A r \in cacheRanges' : r[1] \in 1 .. Word - 1 /\ Whole(f, r[1])
        PROVE  UntilFirst(f)'
    BY <1>0, <1>3, <1>6 DEF UntilFirst
  <1>7. CASE ReceiveSyn(p)
    <2>1. p.seq = 0
      BY <1>2, <1>7 DEF ReceiveSyn, FirstFits
    <2> QED BY <1>0, <1>6, <1>7, <2>1 DEF ReceiveSyn, UntilFirst
  <1>8. CASE ReceiveOld(p)
    BY <1>0, <1>4, <1>6, <1>8 DEF ReceiveOld, UntilFirst
  <1>9. CASE ReceiveNext(p)
    <2>1. nextACK = 0 /\ p.seq = 0 /\ Len(p.data) > 0
      BY <1>4, <1>5, <1>9 DEF ReceiveNext
    <2>2. Whole(f, Len(p.data))
      BY <1>2, <1>9, <2>1 DEF ReceiveNext, FirstFits, Starts
    <2>3. PICK w \in Nat : w = BeforeCache(Len(p.data)) /\ Whole(f, w)
      <3>1. CASE cacheRanges = {}
        BY <1>5, <2>2, <3>1 DEF BeforeCache
      <3>2. CASE cacheRanges # {}
        <4>1. PICK r : r = CHOOSE q \in cacheRanges : IsFront(q)
          OBVIOUS
        <4>2. r \in cacheRanges
          BY <3>2, <4>1, FrontExists DEF TypeOK, ReceiverTypeOK
        <4>3. r[1] \in 1 .. Word - 1 /\ Whole(f, r[1])
          BY <1>0, <4>2 DEF UntilFirst
        <4>4. Minus(r[1], nextACK) = r[1]
          <5>1. r[1] \in Nat /\ r[1] < Word
            BY <1>5, <4>3
          <5>2. Minus(r[1], 0) = r[1]
            BY <5>1, MinusNothing
          <5> QED BY <2>1, <5>2
        <4>5. BeforeCache(Len(p.data)) = AtMost(Len(p.data), r[1])
          BY <3>2, <4>1, <4>4 DEF BeforeCache
        <4> QED BY <1>5, <2>2, <4>3, <4>5 DEF AtMost
      <3> QED BY <3>1, <3>2
    <2>4. FreeSize(rIn, rOut) = N
      <3>1. 0 \in Nat /\ 0 \in 0 .. 0 + N /\ N + 0 - 0 = N
        BY <1>5
      <3> QED BY <1>5, <3>1, FreeSizeIsRoom
    <2>5. rIn' = AtMost(w, N)
      <3>1. p.seq + Len(p.data) - nextACK = Len(p.data)
        BY <1>5, <2>1
      <3>2. rIn' = 0 + AtMost(BeforeCache(Len(p.data)), N)
        BY <1>9, <2>4, <3>1 DEF ReceiveNext, SetSize
      <3>3. AtMost(w, N) \in Nat
        BY <1>5 DEF AtMost
      <3> QED BY <2>3, <3>2, <3>3
    <2>6. Whole(f, rIn') /\ rIn' > 0
      BY <1>5, <2>3, <2>5, CongestionAssumption, SenderAssumption DEF Whole, AtMost
    <2> QED BY <2>6
  <1>10. CASE ReceiveAhead(p)
    <2>1. nextACK = 0 /\ p.seq # 0 /\ UNCHANGED <<rIn, nextACK>>
      BY <1>4, <1>5, <1>10 DEF ReceiveAhead
    <2>2. PICK k : cacheRanges' = cacheRanges \cup {<<p.seq, k>>}
      BY <1>10 DEF ReceiveAhead
    <2>3. Whole(f, p.seq) /\ p.seq \in 1 .. Word - 1
      BY <1>2, <1>5, <1>10, <2>1 DEF ReceiveAhead, FirstFits, Starts
    <2>4. \A r \in cacheRanges' : r[1] \in 1 .. Word - 1 /\ Whole(f, r[1])
      <3> SUFFICES ASSUME NEW r \in cacheRanges'
                   PROVE  r[1] \in 1 .. Word - 1 /\ Whole(f, r[1])
        OBVIOUS
      <3>1. CASE r \in cacheRanges
        BY <1>0, <3>1 DEF UntilFirst
      <3>2. CASE r = <<p.seq, k>>
        BY <2>3, <3>2
      <3> QED BY <2>2, <3>1, <3>2
    <2> QED BY <1>6, <2>1, <2>4
  <1>11. CASE ReceiveFin(p)
    <2>1. p.seq = 0 /\ p.data = <<>>
      BY <1>2, <1>11 DEF ReceiveFin, FirstFits
    <2> QED BY <1>0, <1>6, <1>11, <2>1 DEF ReceiveFin, UntilFirst
  <1>12. ReceiveSyn(p) \/ ReceiveOld(p) \/ ReceiveNext(p) \/ ReceiveAhead(p) \/ ReceiveFin(p)
    BY <1>2 DEF Receive
  <1> QED BY <1>6, <1>7, <1>8, <1>9, <1>10, <1>11, <1>12

(* A step of the receiver before there are any bytes, *)
LEMMA FirstReceiver ==
  ASSUME NEW f \in Nat, TypeOK, FirstInv(f), rIn = 0, ReceiverNext, UNCHANGED sVars
  PROVE  IF rIn' = 0 THEN UntilFirst(f)' ELSE Whole(f, rIn')
  <1>0. UntilFirst(f) /\ UNCHANGED <<sState, sOut, sPc, nextSeq, sCall, rwnd, timevts>>
    BY DEF FirstInv, sVars
  <1>1. ASSUME UNCHANGED <<rIn, cacheRanges, nextACK, toRecv, toSend>>, rPc' = rPc \/ nextACK = 0
        PROVE  rIn' = 0 /\ UntilFirst(f)'
    <2>1. Unheard => Unheard'
      BY <1>0, <1>1, RingAssumption DEF Unheard
    <2> QED BY <1>0, <1>1, <2>1 DEF UntilFirst
  <1>2. CASE DropForeign
    <2>1. PICK i \in Deliverable(toRecv) : toRecv' = Rest(toRecv, i)
      BY <1>2 DEF DropForeign
    <2>2. UNCHANGED <<rIn, rPc, cacheRanges, nextACK, toSend>>
      BY <1>2 DEF DropForeign, rVars
    <2>3. toRecv' \in Seq({m \in Packets : FirstFits(f, m)})
      BY <1>0, <2>1, RestType DEF UntilFirst
    <2>4. Unheard => Unheard'
      <3> SUFFICES ASSUME Unheard PROVE Unheard'
        OBVIOUS
      <3>1. toRecv \in Seq({m \in Packets : m.flag = "SYN"})
        BY DEF Unheard, TypeOK
      <3>2. toRecv' \in Seq({m \in Packets : m.flag = "SYN"})
        BY <2>1, <3>1, RestType
      <3>3. \A j \in DOMAIN toRecv' : toRecv'[j].flag = "SYN"
        BY <3>2
      <3> QED BY <1>0, <2>2, <3>3 DEF Unheard
    <2> QED BY <1>0, <2>2, <2>3, <2>4 DEF UntilFirst
  <1>3. CASE \E i \in Deliverable(toRecv) : Receive(i)
    BY <1>3, FirstReceive
  <1>4. rPc # "recv" => nextACK = 0
    BY <1>0 DEF UntilFirst, Unheard
  <1>5. ASSUME NEW r \in cacheRanges, Merge(r)
        PROVE  FALSE
    <2>1. r[1] \in Nat /\ r[1] > 0 /\ nextACK = 0 /\ nextACK >= r[1]
      BY <1>0, <1>4, <1>5 DEF UntilFirst, Merge, Merges
    <2> QED BY <2>1
  <1>6. CASE MergeDone
    BY <1>1, <1>4, <1>6 DEF MergeDone
  <1>7. CASE Reply
    <2>1. UNCHANGED <<rIn, cacheRanges, nextACK, toRecv>> /\ nextACK = 0
          /\ toSend' = Sent(toSend, Ack(nextACK, FreeSize(rIn, rOut)))
      BY <1>4, <1>7 DEF Reply
    <2>2. FreeSize(rIn, rOut) = N
      <3>1. rOut = 0 /\ 0 \in Nat /\ 0 \in 0 .. 0 + N /\ N + 0 - 0 = N
        BY RingAssumption DEF TypeOK, ReceiverTypeOK
      <3> QED BY <3>1, FreeSizeIsRoom
    <2>3. toSend' \in Seq({Ack(0, N)})
      BY <1>0, <2>1, <2>2, SentType DEF UntilFirst
    <2> QED BY <1>0, <2>1, <2>3 DEF UntilFirst
  <1>8. CASE User
    BY <1>1, <1>8 DEF User, UserChecks, UserPops
  <1> QED BY <1>1, <1>2, <1>3, <1>5, <1>6, <1>7, <1>8 DEF ReceiverNext, Receiver

(* and after: the buffer's end() only grows. *)
LEMMA FirstHeld ==
  ASSUME NEW f \in Nat, TypeOK, rIn # 0, Whole(f, rIn), ReceiverNext
  PROVE  rIn' # 0 /\ Whole(f, rIn')
  <1>1. rIn \in Nat /\ rOut \in Nat /\ rIn \in rOut .. rOut + N /\ nextACK \in Nat
    BY RingAssumption DEF TypeOK, ReceiverTypeOK
  <1>2. ASSUME NEW w \in Nat, rIn' = rIn + SetSize(rIn, rOut, w)
        PROVE  rIn' \in Nat /\ rIn' >= rIn
    <2>1. SetSize(rIn, rOut, w) \in Int /\ SetSize(rIn, rOut, w) >= 0
      BY <1>1, SetSizeFits
    <2> QED BY <1>1, <1>2, <2>1
  <1>3. ASSUME NEW i \in Deliverable(toRecv), Receive(i)
        PROVE  rIn' \in Nat /\ rIn' >= rIn
    <2>1. PICK p \in Packets : p = toRecv[i]
      BY DeliverableIsIndex DEF TypeOK
    <2>2. CASE ReceiveNext(p)
      <3>1. PICK k \in Nat : k = p.seq + Len(p.data) - nextACK
        BY <1>1, <2>1, <2>2 DEF ReceiveNext, Packets
      <3>2. BeforeCache(k) \in Nat
        BY BeforeCacheBound DEF TypeOK
      <3>3. rIn' = rIn + SetSize(rIn, rOut, BeforeCache(k))
        BY <2>2, <3>1 DEF ReceiveNext
      <3> QED BY <1>2, <3>2, <3>3
    <2>3. CASE ~ReceiveNext(p)
      BY <1>1, <1>3, <2>1, <2>3
      DEF Receive, ReceiveSyn, ReceiveOld, ReceiveAhead, ReceiveFin
    <2> QED BY <2>2, <2>3
  <1>4. ASSUME NEW r \in cacheRanges, Merge(r)
        PROVE  rIn' \in Nat /\ rIn' >= rIn
    <2>1. CASE nextACK < r[2]
      <3>1. r[2] - nextACK \in Nat
        BY <1>1, <2>1 DEF TypeOK, ReceiverTypeOK
      <3> QED BY <1>2, <1>4, <2>1, <3>1 DEF Merge
    <2> QED BY <1>1, <1>4, <2>1 DEF Merge
  <1>5. ASSUME DropForeign \/ MergeDone \/ Reply \/ User
        PROVE  rIn' \in Nat /\ rIn' >= rIn
    BY <1>1, <1>5 DEF DropForeign, rVars, MergeDone, Reply, User, UserChecks, UserPops
  <1>6. rIn' \in Nat /\ rIn' >= rIn
    <2>1. CASE \E i \in Deliverable(toRecv) : Receive(i)
      BY <1>3, <2>1
    <2>2. CASE \E r \in cacheRanges : Merge(r)
      BY <1>4, <2>2
    <2>3. DropForeign \/ (\E i \in Deliverable(toRecv) : Receive(i))
          \/ (\E r \in cacheRanges : Merge(r)) \/ MergeDone \/ Reply \/ User
      BY DEF ReceiverNext, Receiver
    <2> QED BY <1>5, <2>1, <2>2, <2>3
  <1> QED BY <1>1, <1>6, WholeGrows

(* Only a push writes, and end() of the send buffer only grows. *)
LEMMA OnlyPushGrows ==
  ASSUME [Next]_vars, sIn' # sIn
  PROVE  \E size \in Chunks : Push(AtMost(size, Total - sIn)) /\ UNCHANGED rVars
  BY DEF Next, SenderStep, SenderNext, Application, Connect, Close, Timer, TimerDropped,
         TimerResent, TimerExhausted, TimerReturns, RecvTimeout, Manager, ManagerSends,
         ManagerDrains, ManagerGoesOn, ManagerCloses, TrySendPkg, TrySendDone, RecvAck, ReceiverStep, vars, sVars

LEMMA PushGrows ==
  ASSUME TypeOK, NEW size \in Chunks, Push(AtMost(size, Total - sIn))
  PROVE  sIn' \in Nat /\ sIn' > sIn
  <1>1. PICK w : w = AtMost(size, Total - sIn)
    OBVIOUS
  <1>2. sIn \in Nat /\ sOut \in Nat /\ sIn \in sOut .. sOut + N /\ w \in Int
    BY <1>1, RingAssumption, SenderAssumption DEF TypeOK, SenderTypeOK, AtMost
  <1>3. PICK k : k = SetSize(sIn, sOut, w) /\ k \in Int
    BY <1>2, SetSizeFits
  <1>4. k > 0 /\ sIn' = sIn + k
    BY <1>1, <1>3 DEF Push
  <1> QED BY <1>2, <1>3, <1>4

LEMMA SinGrows ==
  ASSUME TypeOK, [Next]_vars
  PROVE  sIn \in Nat /\ sIn' \in Nat /\ sIn' >= sIn
  <1>1. sIn \in Nat
    BY RingAssumption DEF TypeOK, SenderTypeOK
  <1>2. CASE sIn' = sIn
    BY <1>1, <1>2
  <1>3. CASE sIn' # sIn
    <2>1. PICK size \in Chunks : Push(AtMost(size, Total - sIn))
      BY <1>3, OnlyPushGrows
    <2>2. sIn' \in Nat /\ sIn' > sIn
      BY <2>1, PushGrows
    <2> QED BY <1>1, <2>2
  <1> QED BY <1>2, <1>3

(* A step that does not write the first piece. *)
LEMMA FirstKept ==
  ASSUME NEW f \in Nat, TypeOK, SendBufferInv, FirstInv(f), [Next]_vars, sIn > 0 \/ sIn' = sIn
  PROVE  FirstInv(f)'
  <1>1. sIn' > 0 => Whole(f, sIn')
    <2>1. sIn \in Nat /\ sIn' \in Nat /\ sIn' >= sIn
      BY SinGrows
    <2> QED BY <2>1, WholeGrows DEF FirstInv
  <1>2. IF rIn' = 0 THEN UntilFirst(f)' ELSE Whole(f, rIn')
    <2>1. CASE SenderStep
      <3>1. rIn' = rIn
        BY <2>1 DEF SenderStep, rVars
      <3>2. rIn = 0 => UntilFirst(f)'
        BY <2>1, FirstApplication, FirstTimer, FirstAck, FirstManager
        DEF SenderStep, SenderNext, FirstInv
      <3> QED BY <3>1, <3>2 DEF FirstInv
    <2>2. CASE ReceiverStep
      BY <2>2, FirstReceiver, FirstHeld DEF ReceiverStep, FirstInv
    <2>3. CASE UNCHANGED vars
      BY <2>3 DEF vars, sVars, rVars, FirstInv, UntilFirst, Unheard
    <2> QED BY <2>1, <2>2, <2>3 DEF Next
  <1> QED BY <1>1, <1>2 DEF FirstInv

(* The step that does: nothing has been sent, received or cached by then. *)
LEMMA FirstWritten ==
  ASSUME TypeOK, FirstInv(0), NEW size \in Chunks, Push(AtMost(size, Total - sIn)),
         UNCHANGED rVars, NEW g, g = sIn'
  PROVE  g > 0 /\ FirstInv(g)'
  <1>2. sIn = 0 /\ rIn = 0 /\ UntilFirst(0)
    <2>1. sIn \in Nat
      BY RingAssumption DEF TypeOK, SenderTypeOK
    <2> QED BY <2>1 DEF FirstInv, Whole
  <1>3. g \in Nat /\ g > 0
    BY <1>2, PushGrows
  <1>4. Whole(g, g)
    BY <1>3, CongestionAssumption DEF Whole, AtMost
  <1>5. ~Whole(0, 0) /\ \A n : ~Whole(0, n)
    BY DEF Whole
  <1>6. /\ UNCHANGED <<sPc, sCall, timevts, nextSeq, rwnd, sOut, toRecv, toSend>>
        /\ UNCHANGED <<nextACK, rPc, cacheRanges, rIn>> /\ sState = "send"
    BY DEF Push, rVars
  <1>7. nextACK = 0
    BY <1>2, <1>6 DEF UntilFirst, Unheard
  <1>8. \A m : FirstFits(0, m) => FirstFits(g, m)
    BY <1>5 DEF FirstFits, Starts
  <1>9. {m \in Packets : FirstFits(0, m)} \subseteq {m \in Packets : FirstFits(g, m)}
    BY <1>8
  <1>10. toRecv' \in Seq({m \in Packets : FirstFits(g, m)})
    BY <1>2, <1>6, <1>9 DEF UntilFirst
  <1>11. cacheRanges = {} /\ ~(nextSeq > 0) /\ \A e \in timevts : e.flag # "SEQ" /\ e.seq = 0
    BY <1>2, <1>5 DEF UntilFirst, Starts
  <1>12. UntilFirst(g)'
    BY <1>2, <1>6, <1>7, <1>10, <1>11 DEF UntilFirst
  <1>13. FirstInv(g)'
    BY <1>2, <1>4, <1>6, <1>12 DEF FirstInv
  <1> QED BY <1>3, <1>13

(* The history variable: 0 until the application has written. *)
FirstPieceInv == firstPiece \in Nat /\ (firstPiece > 0 => sIn > 0) /\ FirstInv(firstPiece)

LEMMA FirstPieceInit == FirstInit => FirstPieceInv
  <1> SUFFICES ASSUME FirstInit PROVE FirstPieceInv
    OBVIOUS
  <1>1. <<>> \in Seq({m \in Packets : FirstFits(0, m)}) /\ <<>> \in Seq({Ack(0, N)})
    OBVIOUS
  <1> QED BY <1>1 DEF FirstInit, Init, SenderInit, ReceiverInit, FirstPieceInv, FirstInv,
                      UntilFirst, Unheard

LEMMA FirstPieceNext ==
  TypeOK /\ SendBufferInv /\ FirstPieceInv /\ [FirstNext]_<<vars, firstPiece>> => FirstPieceInv'
  <1> SUFFICES ASSUME TypeOK, SendBufferInv, FirstPieceInv, [FirstNext]_<<vars, firstPiece>>
               PROVE  FirstPieceInv'
    OBVIOUS
  <1>1. [Next]_vars /\ (firstPiece' = firstPiece \/ (firstPiece = 0 /\ firstPiece' = sIn'))
    BY DEF FirstNext
  <1>2. sIn \in Nat /\ sIn' \in Nat /\ firstPiece \in Nat
    BY <1>1, SinGrows DEF FirstPieceInv
  <1>3. CASE firstPiece > 0
    <2>1. firstPiece' = firstPiece /\ sIn > 0
      BY <1>1, <1>2, <1>3 DEF FirstPieceInv
    <2>2. FirstInv(firstPiece)'
      BY <1>1, <1>2, <2>1, FirstKept DEF FirstPieceInv
    <2>3. sIn' > 0
      BY <1>1, <1>2, <2>1, SinGrows
    <2> QED BY <1>2, <2>1, <2>2, <2>3 DEF FirstPieceInv
  <1>4. CASE firstPiece = 0
    <2>1. sIn = 0
      BY <1>2, <1>4 DEF FirstPieceInv, FirstInv, Whole
    <2>2. CASE sIn' = sIn
      BY <1>1, <1>2, <1>4, <2>1, <2>2, FirstKept DEF FirstPieceInv
    <2>3. CASE sIn' # sIn
      <3>1. PICK size \in Chunks : Push(AtMost(size, Total - sIn)) /\ UNCHANGED rVars
        BY <1>1, <2>3, OnlyPushGrows
      <3>2. PICK g : g = sIn'
        OBVIOUS
      <3>3. g > 0 /\ FirstInv(g)'
        BY <1>4, <3>1, <3>2, FirstWritten DEF FirstPieceInv
      <3>4. firstPiece' = g
        BY <1>4, <2>3, <3>2 DEF FirstNext, vars, sVars
      <3> QED BY <1>2, <3>2, <3>3, <3>4 DEF FirstPieceInv
    <2> QED BY <2>2, <2>3
  <1> QED BY <1>2, <1>3, <1>4

(* The first bytes that recv() returns are the whole of the first piece    *)
(* that send() copied, or a segment of it.                                 *)
THEOREM FirstAlwaysWhole == FirstSpec => []FirstPieceWhole
  <1>1. FirstSpec => Spec
    <2>1. FirstInit => Init
      BY DEF FirstInit
    <2>2. [FirstNext]_<<vars, firstPiece>> => [Next]_vars
      BY DEF FirstNext
    <2> QED BY <2>1, <2>2, PTL DEF FirstSpec, Spec
  <1>2. Spec => []SendBufferInv
    BY SendBufferInit, SendBufferNext, TypeCorrect, PTL DEF Spec
  <1>3. FirstSpec => []FirstPieceInv
    BY <1>1, <1>2, TypeCorrect, FirstPieceInit, FirstPieceNext, PTL DEF FirstSpec
  <1>4. FirstPieceInv => FirstPieceWhole
    BY DEF FirstPieceInv, FirstInv, FirstPieceWhole, Whole, AtMost
  <1> QED BY <1>3, <1>4, PTL

=============================================================================
