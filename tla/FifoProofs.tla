------------------------------ MODULE FifoProofs ------------------------------
(***************************************************************************)
(* Proofs about RUDP on a path that keeps the order of its datagrams,      *)
(* whether it loses some or not: FifoInv is inductive, and the properties  *)
(* of the transfer follow from it.                                         *)
(***************************************************************************)
EXTENDS RUDPProofs, FifoInvariant, SequenceTheorems

Good == TypeOK /\ SendBufferInv /\ FifoInv

-----------------------------------------------------------------------------
(* Paths.                                                                  *)

(* After sendto, a path holds what it held, in its place, and at most the  *)
(* new datagram behind it.                                                 *)
LEMMA SentIsBehind ==
  ASSUME NEW S, NEW path \in Seq(S), NEW d \in S, NEW i \in DOMAIN Sent(path, d)
  PROVE  /\ i \in Nat
         /\ \/ i \in DOMAIN path /\ Sent(path, d)[i] = path[i]
            \/ /\ Sent(path, d)[i] = d
               /\ \A j \in DOMAIN path : j < i
  <1>1. CASE Sent(path, d) = path
    BY <1>1
  <1>2. CASE Sent(path, d) = Append(path, d)
    <2>1. i \in 1 .. Len(path) + 1
      BY <1>2
    <2>2. CASE i = Len(path) + 1
      BY <1>2, <2>2
    <2>3. CASE i # Len(path) + 1
      BY <1>2, <2>1, <2>3
    <2> QED BY <2>2, <2>3
  <1> QED BY <1>1, <1>2 DEF Sent

(* After recvfrom, a path that keeps the order holds what was behind the   *)
(* datagram taken, in the same order.                                      *)
LEMMA RestIsBehind ==
  ASSUME ~Reordering, NEW S, NEW path \in Seq(S), NEW i \in Deliverable(path),
         NEW j \in DOMAIN Rest(path, i)
  PROVE  /\ i \in Nat /\ j \in Nat /\ j > 0 /\ i \in DOMAIN path
         /\ j + i \in DOMAIN path /\ Rest(path, i)[j] = path[j + i]
  <1>1. i \in 1 .. Len(path)
    BY DeliverableIsIndex
  <1>2. Rest(path, i) = SubSeq(path, i + 1, Len(path))
    BY DEF Rest
  <1> QED BY <1>1, <1>2

-----------------------------------------------------------------------------
LEMMA Numbers ==
  ASSUME TypeOK
  PROVE  /\ N \in Nat /\ N > 0 /\ MSS \in Nat /\ MSS > 0 /\ Total \in Nat /\ Word \in Nat
         /\ N + Total + MSS < Word
         /\ nextSeq \in Nat /\ rwnd \in Nat /\ rwnd <= N
         /\ sIn \in Nat /\ sOut \in Nat /\ sOut <= sIn /\ sIn <= sOut + N
         /\ rIn \in Nat /\ rOut \in Nat /\ rOut <= rIn /\ rIn <= rOut + N
         /\ nextACK \in Nat
  BY RingAssumption, CongestionAssumption, SenderAssumption
  DEF TypeOK, SenderTypeOK, ReceiverTypeOK

-----------------------------------------------------------------------------
(* Packets.                                                                *)

LEMMA InFlightType ==
  ASSUME TypeOK, NEW m \in InFlight
  PROVE  m \in Packets /\ m.seq \in Nat /\ m.data \in Seq(Bytes) /\ Len(m.data) \in Nat
  <1>1. PICK i \in DOMAIN toRecv : m = toRecv[i]
    BY DEF InFlight
  <1>2. m \in Packets
    BY <1>1 DEF TypeOK
  <1> QED BY <1>2 DEF Packets

(* A packet stays harmless while the buffers move on. *)
LEMMA HarmlessKept ==
  ASSUME TypeOK, NEW m \in Packets, Harmless(m),
         sIn' \in Nat, rIn' \in Nat, rOut' \in Nat,
         sIn <= sIn', rIn <= rIn', rOut <= rOut',
         sCall = "close" => sCall' = "close"
  PROVE  Harmless(m)'
  <1>1. m.seq \in Nat /\ m.data \in Seq(Bytes) /\ Len(m.data) \in Nat
    BY DEF Packets
  <1>2. CASE m.flag = "SEQ"
    <2>1. m.seq + Len(m.data) <= sIn'
      <3> DEFINE x == m.seq + Len(m.data)
      <3>1. x \in Nat /\ x <= sIn
        BY <1>1, <1>2 DEF Harmless
      <3> HIDE DEF x
      <3>2. x <= sIn'
        BY <3>1, Numbers
      <3> QED BY <3>2 DEF x
    <2>2. m.seq <= rIn' \/ m.seq + Len(m.data) <= rOut' + N
      <3> DEFINE x == m.seq + Len(m.data)
      <3>1. x \in Nat /\ (m.seq <= rIn \/ x <= rOut + N)
        BY <1>1, <1>2 DEF Harmless
      <3> HIDE DEF x
      <3> DEFINE y == m.seq
      <3>2. y \in Nat /\ (y <= rIn \/ x <= rOut + N)
        BY <1>1, <3>1
      <3> HIDE DEF y
      <3>3. y <= rIn => y <= rIn'
        BY <3>2, Numbers
      <3>4. x <= rOut + N => x <= rOut' + N
        BY <3>1, Numbers
      <3> QED BY <3>2, <3>3, <3>4 DEF x, y
    <2>3. ASSUME NEW p \in m.seq .. m.seq + Len(m.data) - 1, p >= rIn'
          PROVE  m.data[p - m.seq + 1] = p
      <3>1. p >= rIn
        BY <1>1, <2>3, Numbers
      <3> QED BY <1>2, <2>3, <3>1 DEF Harmless
    <2> QED BY <1>2, <2>1, <2>2, <2>3 DEF Harmless
  <1>3. CASE m.flag # "SEQ"
    BY <1>3 DEF Harmless
  <1> QED BY <1>2, <1>3

(* What the send buffer gives out is harmless: the bytes it has dropped    *)
(* are with the receiver.                                                  *)
LEMMA SegmentHarmless ==
  ASSUME TypeOK, SendBufferInv, CursorsInv,
         NEW seq \in Nat, NEW size \in Nat, seq <= sIn,
         seq <= rIn \/ seq + size <= rOut + N
  PROVE  /\ Segment(seq, size) \in Packets
         /\ Segment(seq, size).flag = "SEQ" /\ Segment(seq, size).seq = seq
         /\ Len(Segment(seq, size).data) <= sIn - seq
         /\ Harmless(Segment(seq, size))
  <1> DEFINE num  == GetSize(sIn, seq, size)
             data == Get(sRing, seq, num)
             m    == Segment(seq, size)
  <1>1. num \in Nat /\ num <= size /\ num <= sIn - seq
    <2>1. Minus(sIn, seq) = sIn - seq
      <3>1. sIn \in Int /\ seq \in Int /\ 0 <= sIn - seq /\ sIn - seq < Word
        BY Numbers DEF SendBufferInv
      <3> QED BY <3>1, MinusIsDifference
    <2> QED BY <2>1, Numbers DEF GetSize, AtMost
  <1>2. m = [flag |-> "SEQ", seq |-> seq, data |-> data]
    BY DEF Segment, Packet
  <1> HIDE DEF num
  <1>3. Len(data) = num /\ \A k \in 1 .. num : data[k] = sRing[(seq + k - 1) % N]
    BY <1>1 DEF Get
  <1>4. \A p \in seq .. seq + num - 1 : p >= rIn => data[p - seq + 1] = p
    <2> SUFFICES ASSUME NEW p \in seq .. seq + num - 1, p >= rIn
                 PROVE  data[p - seq + 1] = p
      OBVIOUS
    <2>1. p - seq + 1 \in 1 .. num /\ seq + (p - seq + 1) - 1 = p
      BY <1>1
    <2>2. p \in sOut .. sIn - 1
      BY <1>1, Numbers DEF CursorsInv
    <2>3. sRing[p % N] = p
      BY <2>2 DEF SendBufferInv, SendBufferIntact, Holds
    <2> QED BY <1>3, <2>1, <2>3
  <1> HIDE DEF data
  <1>5. Segment(seq, size) \in Packets
    BY SegmentType DEF TypeOK
  <1>6. /\ m.flag = "SEQ" /\ m.seq = seq /\ m.data = data
    BY <1>2
  <1> HIDE DEF m
  <1>7. Harmless(m)
    <2>1. m.seq + Len(m.data) <= sIn /\ (m.seq <= rIn \/ m.seq + Len(m.data) <= rOut + N)
      <3>1. m.seq = seq /\ Len(m.data) = num
        BY <1>3, <1>6
      <3>2. sIn \in Nat /\ rIn \in Nat /\ rOut \in Nat /\ N \in Nat
        BY Numbers
      <3>3. seq + num <= sIn
        BY <1>1, <3>2
      <3>4. seq <= rIn \/ seq + num <= rOut + N
        BY <1>1, <3>2
      <3> QED BY <3>1, <3>3, <3>4
    <2>2. \A p \in m.seq .. m.seq + Len(m.data) - 1 : p >= rIn => m.data[p - m.seq + 1] = p
      BY <1>3, <1>4, <1>6
    <2> QED BY <1>6, <2>1, <2>2 DEF Harmless
  <1> QED BY <1>1, <1>3, <1>5, <1>6, <1>7 DEF m

(* What one more packet in flight must be. *)
LEMMA SendKeeps ==
  ASSUME TypeOK, FifoInv, NEW d \in Packets, toRecv' = Sent(toRecv, d),
         UNCHANGED <<rIn, rOut, sIn, cacheRanges>>, sCall = "close" => sCall' = "close",
         Harmless(d)',
         d.flag = "SEQ" => sCall # "close",
         d.flag = "SYN" => Dry
  PROVE  /\ PacketsInv' /\ FinIsLast' /\ SynIsFirst'
         /\ (\A m \in InFlight : m.flag # "SEQ") /\ d.flag # "SEQ" 
              => \A m \in InFlight' : m.flag # "SEQ"
         /\ (\A m \in InFlight : m.data = <<>>) /\ d.data = <<>>
              => \A m \in InFlight' : m.data = <<>>
         /\ (\A m \in InFlight : m.flag = "SYN") /\ d.flag = "SYN"
              => \A m \in InFlight' : m.flag = "SYN"
  <1>1. toRecv \in Seq(Packets)
    BY DEF TypeOK
  <1>2. InFlight' \subseteq InFlight \cup {d}
    BY <1>1, SentIsBehind DEF InFlight
  <1>3. PacketsInv'
    <2> SUFFICES ASSUME NEW m \in InFlight' PROVE Harmless(m)'
      BY DEF PacketsInv
    <2>1. CASE m \in InFlight
      <3>1. m \in Packets /\ Harmless(m)
        BY <2>1, InFlightType DEF FifoInv, PacketsInv
      <3> QED BY <3>1, HarmlessKept, Numbers
    <2> QED BY <1>2, <2>1
  <1>4. FinIsLast'
    <2> SUFFICES ASSUME NEW i \in DOMAIN toRecv', NEW j \in DOMAIN toRecv', i < j,
                        toRecv'[i].flag = "FIN"
                 PROVE  toRecv'[j].flag # "SEQ"
      BY DEF FinIsLast
    <2>1. i \in DOMAIN toRecv /\ toRecv[i].flag = "FIN"
      <3>1. \/ i \in DOMAIN toRecv /\ toRecv'[i] = toRecv[i]
            \/ \A k \in DOMAIN toRecv : k < i
        BY <1>1, SentIsBehind
      <3>2. j \in DOMAIN toRecv \/ \A k \in DOMAIN toRecv : k < j
        BY <1>1, SentIsBehind
      <3>3. Len(toRecv') <= Len(toRecv) + 1 /\ toRecv' \in Seq(Packets)
        BY <1>1 DEF Sent
      <3>4. i \in 1 .. Len(toRecv)
        BY <1>1, <3>3
      <3>5. i \in DOMAIN toRecv /\ i \in Nat
        BY <1>1, <3>4
      <3> QED BY <3>1, <3>5
    <2>2. sCall = "close"
      <3>1. toRecv[i] \in InFlight
        BY <2>1 DEF InFlight
      <3> QED BY <2>1, <3>1 DEF FifoInv, PacketsInv, Harmless
    <2>3. CASE j \in DOMAIN toRecv /\ toRecv'[j] = toRecv[j]
      BY <2>1, <2>3 DEF FifoInv, FinIsLast
    <2>4. CASE toRecv'[j] = d
      BY <2>2, <2>4
    <2> QED BY <1>1, <2>3, <2>4, SentIsBehind
  <1>5. SynIsFirst'
    <2> SUFFICES ASSUME NEW j \in DOMAIN toRecv', toRecv'[j].flag = "SYN"
                 PROVE  /\ rIn = 0 /\ NothingCached
                        /\ \A i \in 1 .. j : toRecv'[i].data = <<>>
      BY DEF SynIsFirst, NothingCached
    <2>1. \A i \in DOMAIN toRecv' : i \in 1 .. Len(toRecv) + 1
      BY <1>1 DEF Sent
    <2>2. CASE j \in DOMAIN toRecv /\ toRecv'[j] = toRecv[j]
      <3>1. /\ rIn = 0 /\ NothingCached
            /\ \A i \in 1 .. j : toRecv[i].data = <<>>
        BY <2>2 DEF FifoInv, SynIsFirst
      <3>2. \A i \in 1 .. j : i \in DOMAIN toRecv /\ i < Len(toRecv) + 1
        BY <1>1, <2>2
      <3>3. \A i \in 1 .. Len(toRecv) : toRecv'[i] = toRecv[i]
        BY <1>1 DEF Sent
      <3> QED BY <1>1, <3>1, <3>2, <3>3
    <2>3. CASE toRecv'[j] = d
      <3>1. Dry /\ d.data = <<>>
        BY <2>3 DEF Harmless
      <3>2. \A i \in 1 .. j : i \in DOMAIN toRecv'
        BY <1>1 DEF Sent
      <3>3. \A i \in DOMAIN toRecv' : toRecv'[i] = d \/ toRecv'[i] \in InFlight
        BY <1>1, SentIsBehind DEF InFlight
      <3> QED BY <3>1, <3>2, <3>3 DEF Dry
    <2> QED BY <1>1, <2>2, <2>3, SentIsBehind
  <1> QED BY <1>2, <1>3, <1>4, <1>5

-----------------------------------------------------------------------------
(* The sender's steps.                                                     *)

(* Steps that move no byte and send nothing. *)
LEMMA QuietKeeps ==
  ASSUME Good,
         UNCHANGED <<rVars, nextSeq, rwnd, sIn, sOut, toRecv, toSend>>,
         timevts' \subseteq timevts,
         sCall' = "close" <=> sCall = "close",
         Greeting' <=> Greeting,
         ControlInv', SynInv'
  PROVE  FifoInv'
  <1> USE DEF Good, FifoInv, rVars
  <1>1. GreetingInv'
    BY DEF GreetingInv, InFlight
  <1>2. CursorsInv'
    BY DEF CursorsInv
  <1>3. NextAckInv'
    BY DEF NextAckInv, Fresh, InFlight
  <1>4. PacketsInv'
    <2>1. \A m \in InFlight : Harmless(m)'
      BY DEF PacketsInv, Harmless
    <2> QED BY <2>1 DEF PacketsInv, InFlight
  <1>5. EventsInv'
    BY DEF EventsInv
  <1>6. WindowInv'
    BY DEF WindowInv
  <1>7. StreamIntact'
    BY DEF StreamIntact, Holds
  <1>8. CacheInv'
    BY DEF CacheInv, CachedWell
  <1>9. FinIsLast' /\ SynIsFirst'
    BY DEF FinIsLast, SynIsFirst, NothingCached
  <1> QED BY <1>1, <1>2, <1>3, <1>4, <1>5, <1>6, <1>7, <1>8, <1>9

LEMMA ConnectKeeps ==
  ASSUME Good, Connect, UNCHANGED rVars
  PROVE  FifoInv'
  <1> USE DEF Good, FifoInv, rVars
  <1> DEFINE d == Packet("SYN", nextSeq, <<>>)
  <1>1. /\ Greeting /\ nextSeq = 0 /\ rwnd = 0 /\ sIn = 0 /\ sOut = 0
        /\ timevts = {} /\ toRecv = <<>> /\ toSend = <<>> /\ sCall = "connect"
    BY DEF Connect, ControlInv, Greeting, GreetingInv
  <1>2. Dry
    BY <1>1 DEF Connect, SynInv
  <1>3. /\ d \in Packets /\ d.flag = "SYN" /\ d.seq = 0 /\ d.data = <<>>
        /\ toRecv' = Sent(toRecv, d)
    BY <1>1 DEF Connect, Packet, Packets, Flags
  <1>4. /\ UNCHANGED <<rIn, rOut, sIn, sOut, rwnd, nextSeq, cacheRanges, toSend>>
        /\ sCall' = "connect" /\ sState' = "connecting" /\ sPc' = "timer"
        /\ timevts' = {Event("SYN", 0, 0)}
    BY <1>1 DEF Connect
  <1> HIDE DEF d
  <1>5. PICK m \in Packets : m = d
    BY <1>3
  <1>6. Harmless(m)'
    BY <1>3, <1>5 DEF Harmless
  <1>7. \A x \in InFlight : x.flag = "SYN" /\ x.data = <<>> /\ x.flag # "SEQ"
    BY <1>1 DEF InFlight
  <1>8. /\ PacketsInv' /\ FinIsLast' /\ SynIsFirst'
        /\ \A x \in InFlight' : x.flag = "SYN" /\ x.data = <<>> /\ x.flag # "SEQ"
    BY <1>1, <1>2, <1>3, <1>4, <1>5, <1>6, <1>7, SendKeeps
  <1>9. ControlInv'
    BY <1>4 DEF ControlInv
  <1>10. GreetingInv'
    BY <1>1, <1>4, <1>8 DEF GreetingInv, Event
  <1>11. CursorsInv'
    BY <1>1, <1>4 DEF CursorsInv
  <1>12. NextAckInv'
    BY <1>1, <1>4, <1>8 DEF NextAckInv, Fresh, Greeting
  <1>13. EventsInv'
    BY <1>4 DEF EventsInv, Event
  <1>14. WindowInv'
    BY <1>1, <1>4 DEF WindowInv
  <1>15. StreamIntact' /\ CacheInv'
    BY <1>4 DEF StreamIntact, Holds, CacheInv, CachedWell
  <1>16. SynInv'
    BY <1>2, <1>4, <1>8 DEF SynInv, Dry, NothingCached
  <1> QED BY <1>8, <1>9, <1>10, <1>11, <1>12, <1>13, <1>14, <1>15, <1>16

LEMMA PushKeeps ==
  ASSUME Good, NEW size \in Chunks, Push(AtMost(size, Total - sIn)), UNCHANGED rVars
  PROVE  FifoInv'
  <1> USE DEF Good, FifoInv, rVars
  <1>1. /\ sState = "send" /\ sPc \notin Exits
        /\ UNCHANGED <<sState, sPc, sCall, timevts, nextSeq, rwnd, sOut, toRecv, toSend>>
    BY DEF Push
  <1>2. sIn' > sIn /\ sIn' \in Nat
    <2> DEFINE asked == AtMost(size, Total - sIn)
               partnum == SetSize(sIn, sOut, asked)
    <2>1. asked \in Int
      BY Numbers, SenderAssumption DEF AtMost
    <2> HIDE DEF asked
    <2>2. partnum \in Int
      BY <2>1, Numbers, SetSizeFits
    <2>3. partnum > 0 /\ sIn' = sIn + partnum
      BY DEF Push, asked
    <2> HIDE DEF partnum
    <2> QED BY <2>2, <2>3, Numbers
  <1>3. sPc # "start" /\ ~Greeting /\ ~Greeting'
    BY <1>1 DEF ControlInv, Greeting
  <1>4. sCall # "close"
    BY <1>1 DEF ControlInv
  <1>5. ControlInv'
    BY <1>1 DEF ControlInv
  <1>6. CursorsInv'
    <2>1. rIn <= sIn'
      BY <1>2, Numbers DEF CursorsInv
    <2>2. sOut <= rIn
      BY DEF CursorsInv
    <2>3. rIn' = rIn /\ sOut' = sOut /\ sCall' # "close"
      BY <1>1, <1>4
    <2> HIDE DEF Good, FifoInv, rVars
    <2> QED BY <2>1, <2>2, <2>3 DEF CursorsInv
  <1>7. NextAckInv'
    BY <1>1, <1>3 DEF NextAckInv, Fresh, InFlight
  <1>8. PacketsInv'
    <2>1. sIn \in Nat /\ sIn' >= sIn /\ rIn' \in Nat /\ rIn <= rIn' /\ rOut' \in Nat /\ rOut <= rOut'
      BY <1>2, Numbers
    <2>2. \A m \in InFlight : Harmless(m)'
      <3> SUFFICES ASSUME NEW m \in InFlight PROVE Harmless(m)'
        OBVIOUS
      <3>1. m \in Packets /\ Harmless(m)
        BY InFlightType DEF PacketsInv
      <3>2. TypeOK /\ sCall' = sCall
        BY <1>1
      <3> HIDE DEF Good, FifoInv, rVars
      <3> QED BY <1>2, <2>1, <3>1, <3>2, HarmlessKept
    <2> QED BY <1>1, <2>2 DEF PacketsInv, InFlight
  <1>9. EventsInv' /\ WindowInv' /\ StreamIntact' /\ FinIsLast' /\ SynIsFirst'
    BY <1>1 DEF EventsInv, WindowInv, StreamIntact, Holds, FinIsLast, SynIsFirst, NothingCached
  <1>10. CacheInv'
    <2> SUFFICES ASSUME NEW r \in cacheRanges PROVE CachedWell(r)'
      BY DEF CacheInv
    <2>1. CachedWell(r) /\ r[2] \in Nat
      BY DEF CacheInv, TypeOK, ReceiverTypeOK
    <2>2. r[2] <= sIn'
      BY <1>2, <2>1, Numbers DEF CachedWell
    <2> QED BY <2>1, <2>2 DEF CachedWell
  <1>11. SynInv'
    <2>1. sIn > 0 => sIn' > 0
      BY <1>2, Numbers
    <2> QED BY <1>1, <2>1 DEF SynInv, Dry, NothingCached, InFlight
  <1> QED BY <1>3, <1>5, <1>6, <1>7, <1>8, <1>9, <1>10, <1>11 DEF GreetingInv

LEMMA CloseKeeps ==
  ASSUME Good, Close, UNCHANGED rVars
  PROVE  FifoInv'
  <1> USE DEF Good, FifoInv
  <1>1. /\ UNCHANGED <<nextSeq, rwnd, sIn, sOut, toRecv, toSend, timevts, sCall, sPc>>
        /\ sState = "send" /\ sState' = "closing" /\ sPc \notin Exits
    BY DEF Close
  <1>2. ControlInv'
    BY <1>1 DEF ControlInv
  <1>3. Greeting' <=> Greeting
    BY <1>1 DEF Greeting
  <1>4. SynInv'
    BY <1>1 DEF SynInv, Dry, NothingCached, InFlight, rVars
  <1> QED BY <1>1, <1>2, <1>3, <1>4, QuietKeeps

(* What handleTimer sends again may be sent again. *)
LEMMA ResentHarmless ==
  ASSUME Good, NEW e \in timevts, Relevant(e), sPc = "timer"
  PROVE  \E d \in Packets :
           /\ d = Resent(e) /\ d.flag = e.flag /\ Harmless(d)
           /\ d.flag = "SEQ" => sCall # "close"
           /\ d.flag = "SYN" => Dry
           /\ nextSeq = 0 => d.data = <<>>
  <1> USE DEF Good, FifoInv
  <1>1. /\ e.flag \in Flags /\ e.seq \in Nat /\ e.len \in Nat
        /\ e.flag = "SYN" => e.seq = 0 /\ e.len = 0
        /\ e.flag = "FIN" => e.len = 0 /\ sCall = "close"
        /\ e.flag = "SEQ" => e.len > 0 /\ e.seq + e.len <= nextSeq
    BY DEF TypeOK, SenderTypeOK, EventsInv
  <1>2. CASE e.flag = "SEQ"
    <2>1. e.seq + e.len > sOut
      BY <1>1, <1>2 DEF Relevant
    <2>2. nextSeq <= sIn
      BY DEF SendBufferInv, SendBufferIntact
    <2>3. sCall # "close"
      BY <1>1, <1>2, <2>1, <2>2, Numbers DEF CursorsInv
    <2>4. e.seq <= sIn /\ e.seq + e.len <= rOut + N /\ nextSeq # 0
      BY <1>1, <1>2, <2>2, Numbers DEF WindowInv
    <2>5. /\ Segment(e.seq, e.len) \in Packets
          /\ Segment(e.seq, e.len).flag = "SEQ" /\ Harmless(Segment(e.seq, e.len))
      BY <1>1, <2>4, SegmentHarmless
    <2>6. Resent(e) = Segment(e.seq, e.len)
      BY <1>2 DEF Resent
    <2> QED BY <1>2, <2>3, <2>4, <2>5, <2>6
  <1>3. CASE e.flag # "SEQ"
    <2> DEFINE d == Packet(e.flag, e.seq, <<>>)
    <2>1. d \in Packets /\ d.flag = e.flag /\ d.seq = e.seq /\ d.data = <<>> /\ d = Resent(e)
      BY <1>1, <1>3 DEF Packet, Packets, Resent
    <2>2. Harmless(d)
      BY <1>1, <1>3, <2>1 DEF Harmless
    <2>3. e.flag = "SYN" => Dry
      <3>1. e.flag = "SYN" => nextSeq = 0
        BY <1>1, Numbers DEF Relevant
      <3> QED BY <3>1 DEF SynInv
    <2> HIDE DEF d
    <2> QED BY <1>3, <2>1, <2>2, <2>3
  <1> QED BY <1>2, <1>3

LEMMA ResendKeeps ==
  ASSUME Good, NEW e \in timevts, TimerResent(e), UNCHANGED rVars
  PROVE  FifoInv'
  <1> USE DEF Good, FifoInv, rVars
  <1> DEFINE again == [e EXCEPT !.n = @ + 1]
  <1>1. PICK d \in Packets :
           /\ d = Resent(e) /\ d.flag = e.flag /\ Harmless(d)
           /\ d.flag = "SEQ" => sCall # "close"
           /\ d.flag = "SYN" => Dry
           /\ nextSeq = 0 => d.data = <<>>
    BY ResentHarmless DEF TimerResent
  <1>2. again.flag = e.flag /\ again.seq = e.seq /\ again.len = e.len
    <2>1. e \in [flag : Flags, seq : Nat, len : Nat, n : Nat]
      BY DEF TypeOK, SenderTypeOK
    <2> QED BY <2>1
  <1>3. /\ sPc = "timer" /\ timevts' = (timevts \ {e}) \cup {again}
        /\ toRecv' = Sent(toRecv, d)
        /\ UNCHANGED <<sState, sPc, sCall, nextSeq, rwnd, sIn, sOut, toSend>>
    BY <1>1 DEF TimerResent
  <1> HIDE DEF again
  <1>4. Harmless(d)'
    BY <1>1, <1>3 DEF Harmless
  <1>5. /\ PacketsInv' /\ FinIsLast' /\ SynIsFirst'
        /\ (\A m \in InFlight : m.flag # "SEQ") /\ d.flag # "SEQ"
              => \A m \in InFlight' : m.flag # "SEQ"
        /\ (\A m \in InFlight : m.data = <<>>) /\ d.data = <<>>
              => \A m \in InFlight' : m.data = <<>>
        /\ (\A m \in InFlight : m.flag = "SYN") /\ d.flag = "SYN"
              => \A m \in InFlight' : m.flag = "SYN"
    BY <1>1, <1>3, <1>4, SendKeeps
  <1>6. Greeting' <=> Greeting
    BY <1>3 DEF Greeting
  <1>7. ControlInv'
    BY <1>3 DEF ControlInv
  <1>8. GreetingInv'
    BY <1>1, <1>2, <1>3, <1>5, <1>6 DEF GreetingInv
  <1>9. CursorsInv' /\ WindowInv' /\ StreamIntact' /\ CacheInv'
    BY <1>3 DEF CursorsInv, WindowInv, StreamIntact, Holds, CacheInv, CachedWell
  <1>10. NextAckInv'
    BY <1>1, <1>3, <1>5, <1>6 DEF NextAckInv, Fresh
  <1>11. EventsInv'
    BY <1>2, <1>3 DEF EventsInv
  <1>12. SynInv'
    BY <1>1, <1>3, <1>5 DEF SynInv, Dry, NothingCached
  <1> QED BY <1>5, <1>7, <1>8, <1>9, <1>10, <1>11, <1>12

LEMMA TimerKeeps ==
  ASSUME Good, Timer, UNCHANGED rVars
  PROVE  FifoInv'
  <1> USE DEF Good, FifoInv
  <1>1. ASSUME NEW e \in timevts, TimerDropped(e)
        PROVE  FifoInv'
    <2>1. /\ UNCHANGED <<sState, sPc, sCall, nextSeq, rwnd, sIn, sOut, toRecv, toSend>>
          /\ timevts' \subseteq timevts /\ sPc = "timer"
      BY <1>1 DEF TimerDropped
    <2>2. ControlInv' /\ (Greeting' <=> Greeting)
      BY <2>1 DEF ControlInv, Greeting
    <2>3. SynInv'
      BY <2>1 DEF SynInv, Dry, NothingCached, InFlight, rVars
    <2> QED BY <2>1, <2>2, <2>3, QuietKeeps
  <1>2. ASSUME NEW e \in timevts, TimerResent(e)
        PROVE  FifoInv'
    BY <1>2, ResendKeeps
  <1>3. CASE (\E e \in timevts : TimerExhausted(e)) \/ TimerReturns
    <2>1. /\ UNCHANGED <<sState, sCall, timevts, nextSeq, rwnd, sIn, sOut, toRecv, toSend>>
          /\ sPc = "timer" /\ sPc' \in Waiting \cup Exits
      BY <1>3 DEF TimerExhausted, TimerReturns, Waiting, Exits
    <2>2. ControlInv' /\ (Greeting' <=> Greeting)
      BY <2>1 DEF ControlInv, Greeting, Waiting, Exits
    <2>3. SynInv'
      BY <2>1 DEF SynInv, Dry, NothingCached, InFlight, rVars
    <2> QED BY <2>1, <2>2, <2>3, QuietKeeps
  <1> QED BY <1>1, <1>2, <1>3 DEF Timer

LEMMA RecvTimeoutKeeps ==
  ASSUME Good, RecvTimeout, UNCHANGED rVars
  PROVE  FifoInv'
  <1> USE DEF Good, FifoInv
  <1>1. /\ UNCHANGED <<sState, sCall, timevts, nextSeq, rwnd, sIn, sOut, toRecv, toSend>>
        /\ sPc = "recv" /\ sPc' = AfterNothing
    BY DEF RecvTimeout
  <1>2. ControlInv' /\ (Greeting' <=> Greeting)
    <2>1. sCall \in {"connect", "wait", "close"}
      BY DEF TypeOK, SenderTypeOK
    <2> QED BY <1>1, <2>1 DEF ControlInv, Greeting, Waiting, Exits, AfterNothing
  <1>3. SynInv'
    BY <1>1 DEF SynInv, Dry, NothingCached, InFlight, rVars
  <1> QED BY <1>1, <1>2, <1>3, QuietKeeps

LEMMA SendSizeFits ==
  ASSUME Good
  PROVE  /\ SendSize \in Nat
         /\ SendSize <= sIn - nextSeq /\ SendSize <= sOut + rwnd - nextSeq
         /\ nextSeq < sIn /\ nextSeq < sOut + rwnd /\ rwnd > 0 => SendSize > 0
  <1>1. nextSeq <= sIn /\ sIn <= Total /\ nextSeq <= sOut + rwnd /\ sOut + rwnd <= rOut + N
    BY DEF Good, SendBufferInv, SendBufferIntact, FifoInv, WindowInv
  <1>2. rOut + N < Word
    BY Numbers DEF Good, FifoInv, CursorsInv, SendBufferInv
  <1>3. Minus(sIn, nextSeq) = sIn - nextSeq
    <2>1. sIn \in Int /\ nextSeq \in Int /\ 0 <= sIn - nextSeq /\ sIn - nextSeq < Word
      BY <1>1, Numbers DEF Good
    <2> QED BY <2>1, MinusIsDifference
  <1>4. Minus(sOut + rwnd, nextSeq) = sOut + rwnd - nextSeq
    <2>1. sOut + rwnd \in Int /\ 0 <= sOut + rwnd - nextSeq /\ sOut + rwnd - nextSeq < Word
      BY <1>1, <1>2, Numbers DEF Good
    <2> QED BY <2>1, Numbers, MinusIsDifference DEF Good
  <1> QED BY <1>1, <1>3, <1>4, Numbers DEF Good, SendSize, AtMost

LEMMA ManagerClosesKeeps ==
  ASSUME Good, ManagerCloses, UNCHANGED rVars
  PROVE  FifoInv'
  <1> USE DEF Good, FifoInv, rVars
  <1>1. /\ UNCHANGED <<sState, nextSeq, rwnd, sIn, sOut, toSend>>
        /\ sPc = "drain" /\ sState = "closing" /\ sIn = sOut
        /\ sPc' = "timer" /\ sCall' = "close"
        /\ timevts' = timevts \cup {Event("FIN", nextSeq, 0)}
        /\ toRecv' = Sent(toRecv, Packet("FIN", nextSeq, <<>>))
    BY DEF ManagerCloses, ControlInv
  <1>2. sCall # "close" /\ ~Greeting /\ ~Greeting' /\ rReply # "closed"
    BY <1>1 DEF ControlInv, Greeting, NextAckInv, Waiting, Exits
  <1>3. nextSeq = 0 => Dry
    BY <1>1 DEF SynInv
  <1>4. PICK d \in Packets : /\ d = Packet("FIN", nextSeq, <<>>)
                             /\ d.flag = "FIN" /\ d.data = <<>>
    <2> DEFINE d == Packet("FIN", nextSeq, <<>>)
    <2>1. d \in Packets /\ d.flag = "FIN" /\ d.data = <<>>
      BY Numbers DEF Packet, Packets, Flags
    <2> QED BY <2>1
  <1>5. Harmless(d)'
    BY <1>1, <1>4 DEF Harmless
  <1>6. /\ PacketsInv' /\ FinIsLast' /\ SynIsFirst'
        /\ (\A m \in InFlight : m.data = <<>>) => \A m \in InFlight' : m.data = <<>>
    BY <1>1, <1>2, <1>4, <1>5, SendKeeps
  <1>7. ControlInv'
    BY <1>1 DEF ControlInv
  <1>8. GreetingInv'
    BY <1>2 DEF GreetingInv
  <1>9. CursorsInv'
    BY <1>1 DEF CursorsInv
  <1>10. NextAckInv'
    BY <1>1, <1>2 DEF NextAckInv, Fresh
  <1>11. EventsInv'
    BY <1>1 DEF EventsInv, Event
  <1>12. WindowInv' /\ StreamIntact' /\ CacheInv'
    BY <1>1 DEF WindowInv, StreamIntact, Holds, CacheInv, CachedWell
  <1>13. SynInv'
    BY <1>1, <1>3, <1>6 DEF SynInv, Dry, NothingCached
  <1> QED BY <1>6, <1>7, <1>8, <1>9, <1>10, <1>11, <1>12, <1>13

LEMMA TrySendKeeps ==
  ASSUME Good, TrySendPkg, UNCHANGED rVars
  PROVE  FifoInv'
  <1> USE DEF Good, FifoInv, rVars
  <1>1. /\ UNCHANGED <<sState, sPc, sCall, rwnd, sIn, sOut, toSend>>
        /\ sPc = "try" /\ SendSize > 0 /\ nextSeq' = nextSeq + SendSize
        /\ timevts' = timevts \cup {Event("SEQ", nextSeq, SendSize)}
        /\ toRecv' = Sent(toRecv, Segment(nextSeq, SendSize))
    BY DEF TrySendPkg
  <1>2. sCall # "close" /\ ~Greeting /\ ~Greeting' /\ rReply # "closed"
    BY <1>1 DEF ControlInv, Greeting, NextAckInv, Waiting, Exits
  <1> DEFINE size == SendSize
  <1>3. size \in Nat /\ size > 0 /\ nextSeq + size <= sIn /\ nextSeq + size <= sOut + rwnd
    BY <1>1, Numbers, SendSizeFits
  <1>4. PICK d \in Packets : /\ d = Segment(nextSeq, size)
                             /\ d.flag = "SEQ" /\ Harmless(d)
    <2>1. nextSeq \in Nat /\ nextSeq <= sIn /\ nextSeq + size <= rOut + N
      BY <1>3, Numbers DEF WindowInv
    <2> HIDE DEF size
    <2> QED BY <1>3, <2>1, SegmentHarmless
  <1>5. nextSeq' = nextSeq + size /\ timevts' = timevts \cup {Event("SEQ", nextSeq, size)}
    BY <1>1
  <1>6. toRecv' = Sent(toRecv, d)
    BY <1>1, <1>4
  <1> HIDE DEF size
  <1>7. Harmless(d)'
    BY <1>1, <1>4 DEF Harmless
  <1>8. PacketsInv' /\ FinIsLast' /\ SynIsFirst'
    BY <1>1, <1>2, <1>4, <1>6, <1>7, SendKeeps
  <1>9. ControlInv' /\ GreetingInv'
    BY <1>1, <1>2 DEF ControlInv, GreetingInv
  <1>10. CursorsInv' /\ StreamIntact' /\ CacheInv'
    BY <1>1 DEF CursorsInv, StreamIntact, Holds, CacheInv, CachedWell
  <1>11. NextAckInv'
    BY <1>1, <1>2 DEF NextAckInv, Fresh
  <1>12. nextSeq' \in Nat /\ nextSeq < nextSeq' /\ nextSeq' <= sOut + rwnd
    BY <1>3, <1>5, Numbers
  <1>13. EventsInv'
    <2> SUFFICES ASSUME NEW e \in timevts'
                 PROVE  /\ e.flag = "SYN" => e.seq = 0 /\ e.len = 0
                        /\ e.flag = "FIN" => e.len = 0 /\ sCall' = "close"
                        /\ e.flag = "SEQ" => e.len > 0 /\ e.seq + e.len <= nextSeq'
      BY DEF EventsInv
    <2>1. CASE e \in timevts
      <3>1. e.seq \in Nat /\ e.len \in Nat
        BY <2>1 DEF TypeOK, SenderTypeOK
      <3>2. e.flag = "SEQ" => e.len > 0 /\ e.seq + e.len <= nextSeq
        BY <2>1 DEF EventsInv
      <3>3. e.flag = "SEQ" => e.seq + e.len <= nextSeq'
        BY <1>12, <3>1, <3>2, Numbers
      <3> QED BY <1>1, <2>1, <3>2, <3>3 DEF EventsInv
    <2>2. CASE e = Event("SEQ", nextSeq, size)
      <3>1. e.flag = "SEQ" /\ e.seq = nextSeq /\ e.len = size
        BY <2>2 DEF Event
      <3> QED BY <1>3, <1>5, <3>1, Numbers
    <2> QED BY <1>5, <2>1, <2>2
  <1>14. WindowInv'
    BY <1>1, <1>12 DEF WindowInv
  <1>15. SynInv'
    BY <1>12, Numbers DEF SynInv
  <1> QED BY <1>8, <1>9, <1>10, <1>11, <1>13, <1>14, <1>15

LEMMA ManagerKeeps ==
  ASSUME Good, Manager, UNCHANGED rVars
  PROVE  FifoInv'
  <1> USE DEF Good, FifoInv
  <1>1. CASE ManagerSends \/ ManagerDrains \/ ManagerGoesOn
    <2>1. /\ UNCHANGED <<sState, sCall, timevts, nextSeq, rwnd, sIn, sOut, toRecv, toSend>>
          /\ sPc \in {"manager", "drain"} /\ sPc' \in {"drain", "try"}
          /\ sPc' = "drain" => sState = "closing"
      BY <1>1 DEF ManagerSends, ManagerDrains, ManagerGoesOn
    <2>2. ControlInv' /\ (Greeting' <=> Greeting)
      BY <2>1 DEF ControlInv, Greeting, Waiting, Exits
    <2>3. SynInv'
      BY <2>1 DEF SynInv, Dry, NothingCached, InFlight, rVars
    <2> QED BY <2>1, <2>2, <2>3, QuietKeeps
  <1>2. CASE ManagerCloses
    BY <1>2, ManagerClosesKeeps
  <1>3. CASE TrySendPkg
    BY <1>3, TrySendKeeps
  <1>4. CASE TrySendDone
    <2>1. /\ UNCHANGED <<sState, timevts, nextSeq, rwnd, sIn, sOut, toRecv, toSend>>
          /\ sPc = "try" /\ ~(SendSize > 0) /\ sPc' = "timer" /\ sCall' = "wait"
      BY <1>4 DEF TrySendDone
    <2>2. ControlInv' /\ (Greeting' <=> Greeting) /\ sCall # "close"
      BY <2>1 DEF ControlInv, Greeting, Waiting, Exits
    <2>3. nextSeq = 0 => Dry
      <3>1. nextSeq = 0 /\ sOut = 0 /\ rwnd = N /\ sIn > 0 => SendSize > 0
        BY Numbers, SendSizeFits
      <3> QED BY <2>1, <3>1 DEF SynInv
    <2>4. SynInv'
      BY <2>1, <2>3 DEF SynInv, Dry, NothingCached, InFlight, rVars
    <2> QED BY <2>1, <2>2, <2>4, QuietKeeps
  <1> QED BY <1>1, <1>2, <1>3, <1>4 DEF Manager

(* The ACKs that follow the one taken are no older. *)
LEMMA AckTaken ==
  ASSUME Good, ~Reordering, NEW i \in Deliverable(toSend), RecvAck(i),
         sCall # "close", UNCHANGED rVars
  PROVE  /\ sOut' = toSend[i].ack /\ rwnd' = toSend[i].window
         /\ sOut <= sOut' /\ sOut' <= rIn
         /\ rIn = 0 => rwnd' = N
         /\ sPc' # "badAck"
         /\ WindowInv'
  <1> USE DEF Good, FifoInv
  <1>1. toSend \in Seq(Acks) /\ i \in DOMAIN toSend
    BY DeliverableIsIndex DEF TypeOK
  <1>2. PICK a \in Acks : a = toSend[i]
    BY <1>1
  <1>3. a.ack \in Nat /\ a.window \in Nat
    BY <1>2, RingAssumption DEF Acks
  <1>4. /\ sOut <= a.ack /\ a.ack <= rIn
        /\ sOut + rwnd <= a.ack + a.window /\ a.ack + a.window <= rOut + N
        /\ rIn = 0 => a.window = N
    BY <1>1, <1>2 DEF WindowInv
  <1>5. UNCHANGED <<sCall, nextSeq, sIn, rIn, rOut>> /\ toSend' = Rest(toSend, i)
    BY DEF RecvAck, rVars
  <1>6. sOut' = a.ack /\ rwnd' = a.window /\ sPc' # "badAck"
    <2>1. CASE ConnectAck(a)
      <3>1. Greeting
        BY <2>1 DEF RecvAck, ConnectAck, ControlInv, Greeting
      <3>2. a.ack = 0 /\ sOut = 0 /\ nextSeq = 0
        BY <1>3, <1>4, <3>1, Numbers DEF GreetingInv, CursorsInv
      <3> QED BY <2>1, <3>2 DEF ConnectAck
    <2>2. CASE NewAck(a)
      <3> DEFINE more == a.ack - sOut
                 num  == GetSize(sIn, sOut, more)
      <3>1. more \in Nat /\ more <= sIn - sOut
        BY <1>3, <1>4, Numbers DEF CursorsInv
      <3>2. Minus(sIn, sOut) = sIn - sOut
        <4>1. sIn \in Int /\ sOut \in Int /\ 0 <= sIn - sOut /\ sIn - sOut < Word
          BY Numbers DEF SendBufferInv
        <4> QED BY <4>1, MinusIsDifference
      <3>3. num = more
        <4> HIDE DEF more
        <4> QED BY <3>1, <3>2, Numbers DEF GetSize, AtMost
      <3>4. sOut' = sOut + num /\ rwnd' = a.window /\ sPc' # "badAck"
        BY <2>2 DEF NewAck
      <3>5. sOut + more = a.ack
        BY <1>3, Numbers
      <3> HIDE DEF more, num
      <3> QED BY <3>3, <3>4, <3>5
    <2>3. CASE OldAck(a)
      <3>1. sOut = a.ack
        BY <1>3, <1>4, <2>3, Numbers DEF OldAck
      <3> QED BY <2>3, <3>1 DEF OldAck
    <2> QED BY <1>2, <2>1, <2>2, <2>3 DEF RecvAck, CloseAck
  <1>7. ASSUME NEW j \in DOMAIN toSend'
        PROVE  /\ j \in Nat /\ j + i \in DOMAIN toSend /\ toSend'[j] = toSend[j + i]
               /\ a.ack <= toSend[j + i].ack
               /\ a.ack + a.window <= toSend[j + i].ack + toSend[j + i].window
    <2>1. /\ j \in Nat /\ j > 0 /\ i \in Nat
          /\ j + i \in DOMAIN toSend /\ toSend'[j] = toSend[j + i]
      BY <1>1, <1>5, <1>7, RestIsBehind
    <2>2. i <= j + i
      BY <2>1
    <2> QED BY <1>1, <1>2, <2>1, <2>2 DEF WindowInv
  <1>8. WindowInv'
    <2>1. nextSeq' <= sOut' + rwnd' /\ sOut' + rwnd' <= rOut' + N
      <3>1. nextSeq <= a.ack + a.window /\ a.ack + a.window <= rOut + N
        BY <1>3, <1>4, Numbers DEF WindowInv
      <3> QED BY <1>5, <1>6, <3>1
    <2>2. ASSUME NEW j \in DOMAIN toSend'
          PROVE  /\ sOut' <= toSend'[j].ack /\ toSend'[j].ack <= rIn'
                 /\ sOut' + rwnd' <= toSend'[j].ack + toSend'[j].window
                 /\ toSend'[j].ack + toSend'[j].window <= rOut' + N
                 /\ rIn' = 0 => toSend'[j].window = N
      BY <1>5, <1>6, <1>7, <2>2 DEF WindowInv
    <2>3. ASSUME NEW j \in DOMAIN toSend', NEW k \in DOMAIN toSend', j <= k
          PROVE  /\ toSend'[j].ack <= toSend'[k].ack
                 /\ toSend'[j].ack + toSend'[j].window <= toSend'[k].ack + toSend'[k].window
      <3>1. /\ j + i \in DOMAIN toSend /\ toSend'[j] = toSend[j + i] /\ j \in Nat
            /\ k + i \in DOMAIN toSend /\ toSend'[k] = toSend[k + i] /\ k \in Nat
        BY <1>7, <2>3
      <3>2. j + i <= k + i
        BY <1>1, <2>3, <3>1
      <3> QED BY <3>1, <3>2 DEF WindowInv
    <2> QED BY <2>1, <2>2, <2>3 DEF WindowInv
  <1>9. sOut <= sOut' /\ sOut' <= rIn /\ (rIn = 0 => rwnd' = N)
    BY <1>4, <1>6
  <1> QED BY <1>2, <1>6, <1>8, <1>9

LEMMA RecvAckKeeps ==
  ASSUME Good, ~Reordering, NEW i \in Deliverable(toSend), RecvAck(i), UNCHANGED rVars
  PROVE  FifoInv'
  <1> USE DEF Good, FifoInv, rVars
  <1>1. toSend \in Seq(Acks) /\ i \in DOMAIN toSend
    BY DeliverableIsIndex DEF TypeOK
  <1>2. PICK a \in Acks : a = toSend[i]
    BY <1>1
  <1>3. a.ack \in Nat /\ toSend # <<>>
    BY <1>1, <1>2 DEF Acks
  <1>4. /\ UNCHANGED <<sCall, timevts, nextSeq, sIn, sRing>>
        /\ toSend' = Rest(toSend, i) /\ sPc \in Waiting
    BY DEF RecvAck
  <1>5. sPc \notin {"start", "timer", "manager", "drain", "try", "done"} \cup Exits
    BY <1>4 DEF Waiting, Exits
  <1>6. NextAckInv /\ ~Fresh /\ (nextSeq = 0 => Dry)
    BY <1>3, <1>5 DEF Fresh, SynInv
  <1>7. CASE CloseAck(a)
    <2>1. /\ UNCHANGED <<rwnd, sOut, toRecv>> /\ sCall = "close"
          /\ \/ sState' = "closed" /\ sPc' = "done"
             \/ UNCHANGED sState /\ sPc' = "badAck"
      BY <1>7 DEF CloseAck
    <2>2. ControlInv' /\ ~Greeting'
      BY <1>4, <1>5, <2>1 DEF ControlInv, Greeting, Exits
    <2>3. CursorsInv' /\ EventsInv' /\ WindowInv' /\ StreamIntact' /\ CacheInv' /\ GreetingInv'
      BY <1>4, <2>1, <2>2
      DEF CursorsInv, EventsInv, WindowInv, StreamIntact, Holds, CacheInv, CachedWell, GreetingInv
    <2>4. NextAckInv' /\ SynInv'
      BY <1>4, <1>6, <2>1 DEF NextAckInv, SynInv, Dry, NothingCached, InFlight
    <2>5. PacketsInv'
      <3>1. \A m \in InFlight : Harmless(m)'
        BY <1>4, <2>1 DEF PacketsInv, Harmless
      <3> QED BY <2>1, <3>1 DEF PacketsInv, InFlight
    <2>6. FinIsLast' /\ SynIsFirst'
      BY <2>1 DEF FinIsLast, SynIsFirst, NothingCached
    <2> QED BY <2>2, <2>3, <2>4, <2>5, <2>6
  <1>8. CASE ConnectAck(a) \/ NewAck(a) \/ OldAck(a)
    <2>1. sCall # "close"
      BY <1>8 DEF ConnectAck, NewAck, OldAck
    <2>2. /\ WindowInv' /\ sOut <= sOut' /\ sOut' <= rIn /\ sOut' = a.ack
          /\ rIn = 0 => rwnd' = N
          /\ sPc' # "badAck"
      BY <1>2, <2>1, AckTaken
    <2>3. /\ sPc' \in {"manager", "trapped"}
          /\ sState' \in {"send", "closing"} /\ sState' \in {"send", sState}
      <3>1. sState # "connecting" => sState \in {"send", "closing"}
        BY <1>5 DEF ControlInv, TypeOK, SenderTypeOK
      <3>2. sCall = "wait" => sState # "connecting"
        BY DEF ControlInv
      <3> QED BY <1>8, <2>2, <3>1, <3>2 DEF ConnectAck, NewAck, OldAck
    <2>4. ControlInv' /\ ~Greeting'
      BY <1>4, <2>1, <2>3 DEF ControlInv, Greeting, Exits, Waiting
    <2>5. CursorsInv' /\ StreamIntact' /\ CacheInv' /\ GreetingInv' /\ EventsInv'
      BY <1>4, <2>1, <2>2, <2>4
      DEF CursorsInv, EventsInv, StreamIntact, Holds, CacheInv, CachedWell, GreetingInv
    <2>6. NextAckInv'
      <3>1. rReply # "closed"
        BY <2>1 DEF NextAckInv
      <3> QED BY <1>6, <3>1 DEF NextAckInv
    <2>7. CASE UNCHANGED toRecv
      <3>1. PacketsInv'
        <4>1. \A m \in InFlight : Harmless(m)'
          BY <1>4 DEF PacketsInv, Harmless
        <4> QED BY <2>7, <4>1 DEF PacketsInv, InFlight
      <3>2. FinIsLast' /\ SynIsFirst'
        BY <1>4, <2>7 DEF FinIsLast, SynIsFirst, NothingCached
      <3>3. SynInv'
        BY <1>4, <1>6, <2>7 DEF SynInv, Dry, NothingCached, InFlight
      <3> HIDE DEF Good
      <3> QED BY <2>2, <2>4, <2>5, <2>6, <3>1, <3>2, <3>3
    <2>8. CASE OldAck(a) /\ toRecv' = Sent(toRecv, Segment(a.ack, MSS))
      <3>1. a.ack <= sIn /\ a.ack <= rIn /\ MSS \in Nat
        <4>1. rIn <= sIn
          BY DEF CursorsInv
        <4>2. a.ack \in Nat /\ rIn \in Nat /\ sIn \in Nat /\ MSS \in Nat /\ a.ack <= rIn
          BY <1>3, <2>2, Numbers
        <4> HIDE DEF Good
        <4> QED BY <4>1, <4>2
      <3>2. PICK d \in Packets : /\ d = Segment(a.ack, MSS)
                                 /\ d.flag = "SEQ" /\ Harmless(d)
                                 /\ Len(d.data) <= sIn - a.ack
        BY <1>3, <3>1, SegmentHarmless
      <3>3. Harmless(d)'
        BY <1>4, <3>2 DEF Harmless
      <3>4. /\ PacketsInv' /\ FinIsLast' /\ SynIsFirst'
            /\ (\A m \in InFlight : m.data = <<>>) /\ d.data = <<>>
                 => \A m \in InFlight' : m.data = <<>>
        BY <1>4, <2>1, <2>8, <3>2, <3>3, SendKeeps
      <3>5. SynInv'
        <4> SUFFICES ASSUME nextSeq = 0 PROVE SynInv'
          BY <1>4 DEF SynInv
        <4>1. Dry /\ sOut' = 0 /\ rwnd' = N
          <5>1. Dry /\ rIn = 0 /\ a.ack <= rIn
            BY <1>6, <2>2 DEF Dry
          <5>2. a.ack = 0
            BY <1>3, <5>1
          <5> QED BY <2>2, <5>1, <5>2
        <4>2. sPc' = "manager"
          BY <2>8 DEF OldAck
        <4>3. CASE sIn > 0
          BY <1>4, <2>3, <4>1, <4>2, <4>3 DEF SynInv
        <4>4. CASE ~(sIn > 0)
          <5>1. Len(d.data) = 0 /\ d.data \in Seq(Bytes)
            <6>1. d.data \in Seq(Bytes)
              BY <3>2 DEF Packets
            <6>2. PICK len \in Nat : len = Len(d.data)
              BY <6>1
            <6>3. sIn \in Nat /\ a.ack \in Nat
              BY <1>3, Numbers
            <6>4. len <= sIn - a.ack
              BY <3>2, <6>2
            <6>5. len = 0
              BY <4>4, <6>2, <6>3, <6>4
            <6> QED BY <6>1, <6>2, <6>5
          <5>2. d.data = <<>>
            BY <5>1
          <5> QED BY <3>4, <4>1, <5>2 DEF SynInv, Dry, NothingCached
        <4> QED BY <4>3, <4>4
      <3> QED BY <2>2, <2>4, <2>5, <2>6, <3>4, <3>5
    <2> QED BY <1>8, <2>7, <2>8 DEF ConnectAck, NewAck, OldAck
  <1> QED BY <1>2, <1>7, <1>8 DEF RecvAck

-----------------------------------------------------------------------------
(* The receiver's steps.                                                   *)

(* set() inside the N positions from begin() on changes no position of     *)
(* theirs but those it writes, *)
LEMMA SetElsewhere ==
  ASSUME NEW ring, NEW out \in Nat, NEW begin \in Nat, NEW data,
         Len(data) \in 0 .. N, out <= begin, begin + Len(data) <= out + N,
         NEW q \in out .. out + N - 1, q \notin begin .. begin + Len(data) - 1
  PROVE  Set(ring, begin, data)[q % N] = ring[q % N]
  <1> DEFINE len == Len(data)
  <1>1. N \in Nat /\ N > 0 /\ len \in Nat /\ len <= N
    BY RingAssumption
  <1>2. CASE q < begin
    <2>1. q \in begin + len - N .. begin - 1
      BY <1>1, <1>2
    <2> QED BY <2>1, SetReads
  <1>3. CASE q >= begin
    <2>1. q >= begin + len
      BY <1>1, <1>3
    <2>2. q - N \in begin + len - N .. begin - 1 /\ q - N \in Int
      BY <1>1, <2>1
    <2>3. (q - N) % N = q % N
      <3> DEFINE d == q \div N
                 m == q % N
      <3>1. d \in Int /\ m \in Slots /\ q = N * d + m
        BY <1>1, SlotOf
      <3> HIDE DEF d, m
      <3>2. m \in Int /\ q - N = (d - 1) * N + m /\ d - 1 \in Int
        BY <1>1, <3>1 DEF Slots
      <3>3. (q - N) % N = m
        BY <3>1, <3>2, SlotUnique
      <3> QED BY <3>3 DEF m
    <2> HIDE DEF len
    <2>4. Set(ring, begin, data)[(q - N) % N] = ring[(q - N) % N]
      BY <2>2, SetReads DEF len
    <2> QED BY <2>3, <2>4
  <1> QED BY <1>2, <1>3

(* so that writing the right bytes leaves every right byte right.          *)
LEMMA WriteKeeps ==
  ASSUME TypeOK, NEW begin \in Nat, NEW data, Len(data) \in Nat,
         rOut <= begin, begin + Len(data) <= rOut + N,
         \A q \in begin .. begin + Len(data) - 1 : data[q - begin + 1] = q,
         NEW q \in rOut .. rOut + N - 1,
         q \in begin .. begin + Len(data) - 1 \/ rRing[q % N] = q
  PROVE  Set(rRing, begin, data)[q % N] = q
  <1>1. Len(data) \in 0 .. N /\ q \in Int /\ rOut \in Nat
    <2>1. rOut \in Nat /\ N \in Nat
      BY Numbers
    <2>2. PICK len \in Nat : len = Len(data)
      OBVIOUS
    <2>3. begin + len <= rOut + N
      BY <2>2
    <2>4. len <= N
      BY <2>1, <2>3
    <2>5. q \in Int
      BY <2>1
    <2> QED BY <2>1, <2>2, <2>4, <2>5
  <1>2. CASE q \in begin .. begin + Len(data) - 1
    BY <1>1, <1>2, SetReads
  <1>3. CASE q \notin begin .. begin + Len(data) - 1
    BY <1>1, <1>3, SetElsewhere
  <1> QED BY <1>2, <1>3

(* What taking packet i from the path leaves behind. *)
LEMMA TakeKeeps ==
  ASSUME TypeOK, FinIsLast, SynIsFirst, ~Reordering, NEW i \in Deliverable(toRecv),
         toRecv' = Rest(toRecv, i)
  PROVE  /\ toRecv[i] \in InFlight /\ toRecv # <<>>
         /\ InFlight' \subseteq InFlight
         /\ FinIsLast'
         /\ toRecv[i].flag = "FIN" => \A m \in InFlight' : m.flag # "SEQ"
         /\ \A j \in DOMAIN toRecv' : toRecv'[j].flag = "SYN" =>
              /\ rIn = 0 /\ NothingCached /\ toRecv[i].data = <<>>
              /\ \A k \in 1 .. j : toRecv'[k].data = <<>>
  <1>1. toRecv \in Seq(Packets) /\ i \in DOMAIN toRecv /\ i \in 1 .. Len(toRecv)
    BY DeliverableIsIndex DEF TypeOK
  <1>2. ASSUME NEW j \in DOMAIN toRecv'
        PROVE  /\ j \in Nat /\ j > 0 /\ j + i \in DOMAIN toRecv
               /\ toRecv'[j] = toRecv[j + i]
    BY <1>1, <1>2, RestIsBehind
  <1>3. InFlight' \subseteq InFlight
    BY <1>2 DEF InFlight
  <1>4. ASSUME NEW j \in DOMAIN toRecv', NEW k \in DOMAIN toRecv', j < k,
               toRecv'[j].flag = "FIN"
        PROVE  toRecv'[k].flag # "SEQ"
    <2>1. j + i < k + i
      BY <1>1, <1>2, <1>4
    <2> QED BY <1>2, <1>4, <2>1 DEF FinIsLast
  <1>5. ASSUME toRecv[i].flag = "FIN", NEW m \in InFlight'
        PROVE  m.flag # "SEQ"
    <2>1. PICK j \in DOMAIN toRecv' : m = toRecv'[j]
      BY <1>5 DEF InFlight
    <2>2. m = toRecv[j + i] /\ j + i \in DOMAIN toRecv /\ i < j + i
      BY <1>1, <1>2, <2>1
    <2> QED BY <1>1, <1>5, <2>2 DEF FinIsLast
  <1>6. ASSUME NEW j \in DOMAIN toRecv', toRecv'[j].flag = "SYN"
        PROVE  /\ rIn = 0 /\ NothingCached /\ toRecv[i].data = <<>>
               /\ \A k \in 1 .. j : toRecv'[k].data = <<>>
    <2>1. /\ j \in Nat /\ j > 0 /\ j + i \in DOMAIN toRecv
          /\ toRecv[j + i].flag = "SYN"
      BY <1>2, <1>6
    <2>2. rIn = 0 /\ NothingCached /\ \A k \in 1 .. j + i : toRecv[k].data = <<>>
      BY <2>1 DEF SynIsFirst
    <2>3. i \in 1 .. j + i
      BY <1>1, <2>1
    <2>4. ASSUME NEW k \in 1 .. j PROVE toRecv'[k].data = <<>>
      <3>1. k \in DOMAIN toRecv'
        <4>1. toRecv' \in Seq(Packets)
          BY <1>1, RestType
        <4> QED BY <1>6, <2>1, <4>1
      <3>2. toRecv'[k] = toRecv[k + i] /\ k + i \in 1 .. j + i
        BY <1>1, <1>2, <2>1, <3>1
      <3> QED BY <2>2, <3>2
    <2> QED BY <2>2, <2>3, <2>4
  <1> QED BY <1>1, <1>3, <1>4, <1>5, <1>6 DEF FinIsLast, InFlight

(* What fits into the receive buffer fits as reading goes on. *)
LEMMA RoomGrows ==
  ASSUME NEW out \in Nat, NEW later \in Nat, out <= later
  PROVE  \A x \in Nat : x <= out + N => x <= later + N
  BY RingAssumption

(* Steps of the receiver that take nothing it has back. *)
LEMMA ForwardKeeps ==
  ASSUME Good, UNCHANGED sVars, InFlight' \subseteq InFlight, toSend' = toSend,
         rIn' \in Nat, rIn <= rIn', rIn' <= sIn, rOut' \in Nat, rOut <= rOut',
         sPc = "start" => toRecv' = <<>> /\ rPc' = "recv"
  PROVE  /\ ControlInv' /\ GreetingInv' /\ CursorsInv' /\ PacketsInv' /\ EventsInv'
         /\ WindowInv'
  <1> USE DEF Good, FifoInv, sVars
  <1>1. ControlInv'
    BY DEF ControlInv
  <1>2. GreetingInv'
    BY DEF GreetingInv, Greeting
  <1>3. CursorsInv'
    BY Numbers DEF CursorsInv
  <1>4. PacketsInv'
    <2> SUFFICES ASSUME NEW m \in InFlight' PROVE Harmless(m)'
      BY DEF PacketsInv
    <2>1. m \in Packets /\ Harmless(m)
      BY InFlightType DEF PacketsInv
    <2> QED BY <2>1, HarmlessKept, Numbers
  <1>5. EventsInv'
    BY DEF EventsInv
  <1>6. WindowInv'
    <2>1. /\ N \in Nat /\ rOut \in Nat /\ rOut' \in Nat /\ rOut <= rOut'
          /\ sOut \in Nat /\ rwnd \in Nat /\ rIn \in Nat
      BY Numbers
    <2>2. \A x \in Nat : x <= rOut + N => x <= rOut' + N
      <3> HIDE DEF Good, FifoInv, sVars
      <3> QED BY <2>1, RoomGrows
    <2>3. nextSeq <= sOut + rwnd /\ sOut + rwnd <= rOut' + N
      <3>1. nextSeq <= sOut + rwnd /\ sOut + rwnd <= rOut + N
        BY DEF WindowInv
      <3> HIDE DEF Good, FifoInv, sVars
      <3>2. PICK x \in Nat : x = sOut + rwnd
        BY <2>1
      <3>3. x <= rOut + N
        BY <3>1, <3>2
      <3>4. x <= rOut' + N
        BY <2>2, <3>3
      <3> QED BY <3>1, <3>2, <3>4
    <2>4. ASSUME sCall # "close", NEW i \in DOMAIN toSend
          PROVE  /\ sOut <= toSend[i].ack /\ toSend[i].ack <= rIn'
                 /\ sOut + rwnd <= toSend[i].ack + toSend[i].window
                 /\ toSend[i].ack + toSend[i].window <= rOut' + N
                 /\ rIn' = 0 => toSend[i].window = N
      <3>1. toSend[i] \in Acks
        BY <2>4 DEF TypeOK
      <3> DEFINE a == toSend[i].ack
                 w == toSend[i].window
      <3>2. /\ sOut <= a /\ a <= rIn /\ sOut + rwnd <= a + w /\ a + w <= rOut + N
            /\ rIn = 0 => w = N
        BY <2>4 DEF WindowInv
      <3>3. a \in Nat /\ w \in Nat
        BY <2>1, <3>1 DEF Acks
      <3> HIDE DEF a, w
      <3>4. a <= rIn' /\ (rIn' = 0 => rIn = 0)
        BY <2>1, <3>2, <3>3
      <3>5. a + w <= rOut' + N
        <4> HIDE DEF Good, FifoInv, sVars
        <4>1. PICK x \in Nat : x = a + w
          BY <3>3
        <4>2. x <= rOut + N
          BY <3>2, <4>1
        <4>3. x <= rOut' + N
          BY <2>2, <4>2
        <4> QED BY <4>1, <4>3
      <3> QED BY <3>2, <3>4, <3>5 DEF a, w
    <2> QED BY <2>3, <2>4 DEF WindowInv
  <1> QED BY <1>1, <1>2, <1>3, <1>4, <1>5, <1>6

(* What the manager thread knows when it takes a packet. *)
LEMMA Taken ==
  ASSUME Good, ~Reordering, NEW i \in Deliverable(toRecv), Receive(i), UNCHANGED sVars,
         NEW p, p = toRecv[i]
  PROVE  /\ p \in Packets /\ p.seq \in Nat /\ p.data \in Seq(Bytes) /\ Len(p.data) \in Nat
         /\ p \in InFlight /\ Harmless(p)
         /\ rPc = "recv" /\ rReply = "recv" /\ sPc # "start"
         /\ p.flag # "SYN" => nextACK = rIn /\ ~Greeting
         /\ UNCHANGED <<rState, rOut, rUser, delivered, toSend>>
         /\ InFlight' \subseteq InFlight /\ FinIsLast'
         /\ Dry => p.data = <<>>
         /\ nextSeq = 0 /\ ~Dry => sPc \in {"manager", "drain", "try"}
  <1> USE DEF Good, FifoInv
  <1>1. p \in InFlight /\ toRecv # <<>> /\ InFlight' \subseteq InFlight /\ FinIsLast'
    BY TakeKeeps DEF Receive
  <1>2. /\ p \in Packets /\ p.seq \in Nat /\ p.data \in Seq(Bytes) /\ Len(p.data) \in Nat
        /\ Harmless(p)
    BY <1>1, InFlightType DEF PacketsInv
  <1>3. rPc = "recv" /\ UNCHANGED <<rState, rOut, rUser, delivered, toSend>>
    BY DEF Receive
  <1>4. rReply = "recv" /\ sPc # "start"
    BY <1>1, <1>3 DEF NextAckInv, ControlInv, TypeOK, ReceiverTypeOK
  <1>5. p.flag # "SYN" => nextACK = rIn /\ ~Greeting
    BY <1>1, <1>4 DEF GreetingInv, NextAckInv, Fresh
  <1> QED BY <1>1, <1>2, <1>3, <1>4, <1>5 DEF Dry, SynInv

LEMMA ReceiveSynKeeps ==
  ASSUME Good, ~Reordering, NEW i \in Deliverable(toRecv), Receive(i), UNCHANGED sVars,
         ReceiveSyn(toRecv[i])
  PROVE  FifoInv'
  <1> USE DEF Good, FifoInv
  <1>1. PICK p : p = toRecv[i]
    OBVIOUS
  <1>2. /\ p.flag = "SYN" /\ nextACK' = p.seq /\ rPc' = "reply" /\ rReply' = "recv"
        /\ UNCHANGED <<rIn, rRing, cacheRanges>>
    BY <1>1 DEF ReceiveSyn
  <1>3. /\ Harmless(p) /\ rPc = "recv" /\ sPc # "start"
        /\ UNCHANGED <<rState, rOut, rUser, delivered, toSend>>
        /\ InFlight' \subseteq InFlight /\ FinIsLast'
    BY <1>1, Taken
  <1>4. rIn = 0 /\ nextACK' = 0
    <2>1. i \in DOMAIN toRecv
      BY DeliverableIsIndex DEF TypeOK
    <2> QED BY <1>1, <1>2, <1>3, <2>1 DEF SynIsFirst, Harmless
  <1>5. ControlInv' /\ GreetingInv' /\ CursorsInv' /\ PacketsInv' /\ EventsInv' /\ WindowInv'
    BY <1>2, <1>3, <1>4, ForwardKeeps, Numbers DEF CursorsInv
  <1>6. NextAckInv'
    BY <1>2, <1>4 DEF NextAckInv
  <1>7. StreamIntact' /\ CacheInv'
    BY <1>2, <1>3 DEF StreamIntact, Holds, CacheInv, CachedWell, sVars
  <1>8. SynIsFirst'
    BY <1>2, TakeKeeps DEF Receive, SynIsFirst, NothingCached
  <1>9. SynInv'
    BY <1>2, <1>3 DEF SynInv, Dry, NothingCached, sVars
  <1> QED BY <1>3, <1>5, <1>6, <1>7, <1>8, <1>9

LEMMA ReceiveOldKeeps ==
  ASSUME Good, ~Reordering, NEW i \in Deliverable(toRecv), Receive(i), UNCHANGED sVars,
         ReceiveOld(toRecv[i])
  PROVE  FifoInv'
  <1> USE DEF Good, FifoInv
  <1>1. PICK p : p = toRecv[i]
    OBVIOUS
  <1>2. /\ p.flag = "SEQ" /\ rPc' = "reply" /\ rReply' = "recv"
        /\ UNCHANGED <<nextACK, rIn, rRing, cacheRanges>>
    BY <1>1 DEF ReceiveOld
  <1>3. /\ nextACK = rIn /\ rPc = "recv" /\ sPc # "start"
        /\ UNCHANGED <<rState, rOut, rUser, delivered, toSend>>
        /\ InFlight' \subseteq InFlight /\ FinIsLast'
    BY <1>1, <1>2, Taken
  <1>4. ControlInv' /\ GreetingInv' /\ CursorsInv' /\ PacketsInv' /\ EventsInv' /\ WindowInv'
    BY <1>2, <1>3, ForwardKeeps, Numbers DEF CursorsInv
  <1>5. NextAckInv'
    BY <1>2, <1>3 DEF NextAckInv
  <1>6. StreamIntact' /\ CacheInv'
    BY <1>2, <1>3 DEF StreamIntact, Holds, CacheInv, CachedWell, sVars
  <1>7. SynIsFirst'
    BY <1>2, TakeKeeps DEF Receive, SynIsFirst, NothingCached
  <1>8. SynInv'
    BY <1>2, <1>3 DEF SynInv, Dry, NothingCached, sVars
  <1> QED BY <1>3, <1>4, <1>5, <1>6, <1>7, <1>8

LEMMA ReceiveFinKeeps ==
  ASSUME Good, ~Reordering, NEW i \in Deliverable(toRecv), Receive(i), UNCHANGED sVars,
         ReceiveFin(toRecv[i])
  PROVE  FifoInv'
  <1> USE DEF Good, FifoInv
  <1>1. PICK p : p = toRecv[i]
    OBVIOUS
  <1>2. /\ p.flag = "FIN" /\ rPc' = "reply" /\ rReply' = "closed"
        /\ UNCHANGED <<rIn, rRing, cacheRanges>>
    BY <1>1 DEF ReceiveFin
  <1>3. /\ Harmless(p) /\ rPc = "recv" /\ sPc # "start"
        /\ UNCHANGED <<rState, rOut, rUser, delivered, toSend>>
        /\ InFlight' \subseteq InFlight /\ FinIsLast'
    BY <1>1, Taken
  <1>4. ControlInv' /\ GreetingInv' /\ CursorsInv' /\ PacketsInv' /\ EventsInv' /\ WindowInv'
    BY <1>2, <1>3, ForwardKeeps, Numbers DEF CursorsInv
  <1>5. NextAckInv'
    <2>1. \A m \in InFlight' : m.flag # "SEQ"
      BY <1>1, <1>2, TakeKeeps DEF Receive
    <2>2. sCall' = "close"
      BY <1>2, <1>3 DEF Harmless, sVars
    <2> QED BY <1>2, <2>1, <2>2 DEF NextAckInv
  <1>6. StreamIntact' /\ CacheInv'
    BY <1>2, <1>3 DEF StreamIntact, Holds, CacheInv, CachedWell, sVars
  <1>7. SynIsFirst'
    BY <1>2, TakeKeeps DEF Receive, SynIsFirst, NothingCached
  <1>8. SynInv'
    BY <1>2, <1>3 DEF SynInv, Dry, NothingCached, sVars
  <1> QED BY <1>3, <1>4, <1>5, <1>6, <1>7, <1>8

LEMMA ReceiveAheadKeeps ==
  ASSUME Good, ~Reordering, NEW i \in Deliverable(toRecv), Receive(i), UNCHANGED sVars,
         ReceiveAhead(toRecv[i])
  PROVE  /\ FifoInv'
         /\ \A r \in cacheRanges' :
              r \in cacheRanges \/ r[2] = toRecv[i].seq + Len(toRecv[i].data)
  <1> USE DEF Good, FifoInv
  <1>1. PICK p : p = toRecv[i]
    OBVIOUS
  <1>2. PICK seq \in Nat, len \in Nat : seq = p.seq /\ len = Len(p.data)
    BY <1>1, Taken
  <1> DEFINE begin  == rIn + seq - nextACK
             setnum == SetSize(begin, rOut, len)
             range  == <<seq, seq + len>>
  <1>3. /\ p.flag = "SEQ" /\ seq > nextACK
        /\ rRing' = Set(rRing, begin, SubSeq(p.data, 1, setnum))
        /\ cacheRanges' = cacheRanges \cup {<<seq, seq + setnum>>}
        /\ rPc' = "reply" /\ rReply' = "recv"
        /\ UNCHANGED <<nextACK, rIn>>
    BY <1>1, <1>2 DEF ReceiveAhead
  <1>4. /\ p.data \in Seq(Bytes)
        /\ Harmless(p) /\ nextACK = rIn /\ rPc = "recv" /\ sPc # "start"
        /\ UNCHANGED <<rState, rOut, rUser, delivered, toSend>>
        /\ InFlight' \subseteq InFlight /\ FinIsLast'
        /\ Dry => p.data = <<>>
    BY <1>1, <1>3, Taken
  <1>5. /\ seq \in Nat /\ len \in Nat /\ N \in Nat /\ Word \in Nat /\ N < Word
        /\ rIn \in Nat /\ rOut \in Nat /\ rOut <= rIn /\ rIn <= rOut + N
    BY <1>2, Numbers
  <1>6. /\ seq > rIn /\ begin = seq
    BY <1>3, <1>4, <1>5
  <1>7. /\ seq + len <= sIn /\ (seq <= rIn \/ seq + len <= rOut + N)
        /\ \A q \in seq .. seq + len - 1 : q >= rIn => p.data[q - seq + 1] = q
    BY <1>2, <1>3, <1>4 DEF Harmless
  <1>8. seq > rIn /\ rOut <= seq /\ seq + len <= rOut + N
    BY <1>5, <1>6, <1>7
  <1>9. \A q \in seq .. seq + len - 1 : p.data[q - seq + 1] = q
    <2>1. \A q \in seq .. seq + len - 1 : q >= rIn
      BY <1>5, <1>8
    <2> QED BY <1>7, <2>1
  <1>10. setnum = len
    <2> HIDE DEF begin
    <2>1. /\ 0 <= N + rOut - seq /\ N + rOut - seq < Word /\ N + rOut \in Int /\ seq \in Int
          /\ len <= N + rOut - seq
      BY <1>5, <1>8
    <2>2. Minus(N + rOut, seq) = N + rOut - seq
      <3> DEFINE end == N + rOut
      <3>1. end \in Int /\ seq \in Int /\ 0 <= end - seq /\ end - seq < Word
        BY <1>5, <2>1
      <3> HIDE DEF end
      <3>2. Minus(end, seq) = end - seq
        BY <3>1, MinusIsDifference
      <3> QED BY <1>5, <3>2 DEF end
    <2>3. setnum = AtMost(len, Minus(N + rOut, seq))
      BY <1>6 DEF SetSize, FreeSize
    <2> QED BY <2>1, <2>2, <2>3 DEF AtMost
  <1>11. rRing' = Set(rRing, seq, p.data) /\ cacheRanges' = cacheRanges \cup {range}
    <2>1. SubSeq(p.data, 1, Len(p.data)) = p.data
      BY <1>4
    <2> HIDE DEF begin, setnum
    <2> QED BY <1>2, <1>3, <1>6, <1>10, <2>1
  <1> HIDE DEF begin, setnum
  <1>12. ASSUME NEW q \in rOut .. rOut + N - 1,
               q \in seq .. seq + len - 1 \/ rRing[q % N] = q
        PROVE  rRing'[q % N] = q
    <2>1. Set(rRing, seq, p.data)[q % N] = q
      BY <1>2, <1>5, <1>8, <1>9, <1>12, WriteKeeps
    <2> QED BY <1>11, <2>1
  <1>13. ControlInv' /\ GreetingInv' /\ CursorsInv' /\ PacketsInv' /\ EventsInv' /\ WindowInv'
    <2>1. /\ rIn' \in Nat /\ rIn <= rIn' /\ rIn' <= sIn
          /\ rOut' \in Nat /\ rOut <= rOut'
      <3>1. rIn \in Nat /\ rOut \in Nat /\ rIn <= sIn
        BY Numbers DEF CursorsInv
      <3> QED BY <1>3, <1>4, <3>1
    <2>2. InFlight' \subseteq InFlight /\ toSend' = toSend /\ sPc # "start"
      BY <1>3, <1>4
    <2> HIDE DEF Good, FifoInv
    <2> QED BY <2>1, <2>2, ForwardKeeps
  <1>14. NextAckInv'
    BY <1>3, <1>4 DEF NextAckInv
  <1>15. StreamIntact'
    <2>1. ASSUME NEW q \in rOut .. rIn - 1 PROVE rRing'[q % N] = q
      <3>1. q \in rOut .. rOut + N - 1
        BY <2>1, Numbers
      <3>2. rRing[q % N] = q
        BY <2>1 DEF StreamIntact, Holds
      <3> QED BY <1>12, <3>1, <3>2
    <2> QED BY <1>3, <1>4, <2>1 DEF StreamIntact, Holds
  <1>16. CacheInv'
    <2> SUFFICES ASSUME NEW r \in cacheRanges' PROVE CachedWell(r)'
      BY DEF CacheInv
    <2>1. CASE r \in cacheRanges
      <3>1. CachedWell(r) /\ r[1] \in Nat /\ r[2] \in Nat
        BY <2>1 DEF CacheInv, TypeOK, ReceiverTypeOK
      <3>2. ASSUME NEW q \in r[1] .. r[2] - 1, q >= rIn
            PROVE  rRing'[q % N] = q
        <4>1. q \in rOut .. rOut + N - 1
          <5>1. r[2] <= rOut + N
            BY <3>1 DEF CachedWell
          <5> QED BY <3>1, <3>2, <5>1, Numbers
        <4>2. rRing[q % N] = q
          BY <3>1, <3>2 DEF CachedWell
        <4> QED BY <1>12, <4>1, <4>2
      <3> QED BY <1>3, <1>4, <3>1, <3>2 DEF CachedWell, sVars
    <2>2. CASE r = range
      <3>1. r[1] = seq /\ r[2] = seq + len
        BY <2>2
      <3>2. ASSUME NEW q \in r[1] .. r[2] - 1
            PROVE  rRing'[q % N] = q
        <4>1. q \in seq .. seq + len - 1 /\ q \in rOut .. rOut + N - 1
          BY <1>5, <1>8, <3>1, <3>2
        <4> QED BY <1>12, <4>1
      <3>3. rIn <= r[1] /\ r[2] <= sIn /\ r[2] <= rOut + N
        BY <1>5, <1>7, <1>8, <3>1
      <3> QED BY <1>3, <1>4, <3>2, <3>3 DEF CachedWell, sVars
    <2> QED BY <1>11, <2>1, <2>2
  <1>17. NothingCached /\ p.data = <<>> => NothingCached'
    <2>1. p.data = <<>> => range[2] <= range[1]
      BY <1>2
    <2> HIDE DEF range
    <2> QED BY <1>11, <2>1 DEF NothingCached
  <1>18. SynIsFirst'
    BY <1>1, <1>3, <1>17, TakeKeeps DEF Receive, SynIsFirst
  <1>19. SynInv'
    BY <1>3, <1>4, <1>17 DEF SynInv, Dry, sVars
  <1>20. ASSUME NEW r \in cacheRanges', r \notin cacheRanges
         PROVE  r[2] = toRecv[i].seq + Len(toRecv[i].data)
    <2>1. r = range
      BY <1>11, <1>20
    <2> QED BY <1>1, <1>2, <2>1
  <1> QED BY <1>4, <1>13, <1>14, <1>15, <1>16, <1>18, <1>19, <1>20

LEMMA SubSeqAt ==
  ASSUME NEW S, NEW s \in Seq(S), NEW a \in Nat, NEW n \in Nat, a + n <= Len(s)
  PROVE  /\ Len(SubSeq(s, a + 1, a + n)) = n
         /\ \A k \in 1 .. n : SubSeq(s, a + 1, a + n)[k] = s[a + k]
  <1>1. PICK b \in Int, c \in Int :
           /\ b = a + 1 /\ c = a + n /\ c - b + 1 = n
           /\ b <= c <=> n > 0
           /\ \A k \in 1 .. n : b + k - 1 = a + k
    OBVIOUS
  <1>2. \A i \in b .. c : s[i] \in S
    BY <1>1
  <1>3. /\ Len(SubSeq(s, b, c)) = IF b <= c THEN c - b + 1 ELSE 0
        /\ \A k \in 1 .. c - b + 1 : SubSeq(s, b, c)[k] = s[b + k - 1]
    BY <1>1, <1>2, SubSeqProperties
  <1>4. Len(SubSeq(s, b, c)) = n
    <2>1. PICK l : l = Len(SubSeq(s, b, c))
      OBVIOUS
    <2>2. l = IF n > 0 THEN n ELSE 0
      BY <1>1, <1>3, <2>1
    <2> QED BY <2>1, <2>2
  <1>5. \A k \in 1 .. n : SubSeq(s, b, c)[k] = s[a + k]
    <2>1. PICK t : t = SubSeq(s, b, c)
      OBVIOUS
    <2>2. \A k \in 1 .. n : t[k] = s[b + k - 1]
      BY <1>1, <1>3, <2>1
    <2>3. \A k \in 1 .. n : t[k] = s[a + k]
      BY <1>1, <2>2
    <2> QED BY <2>1, <2>3
  <1> QED BY <1>1, <1>4, <1>5

LEMMA ReceiveNextKeeps ==
  ASSUME Good, ~Reordering, NEW i \in Deliverable(toRecv), Receive(i), UNCHANGED sVars,
         ReceiveNext(toRecv[i])
  PROVE  /\ FifoInv' /\ rIn <= rIn'
         /\ rIn' <= toRecv[i].seq + Len(toRecv[i].data)
  <1> USE DEF Good, FifoInv
  <1>1. PICK p : p = toRecv[i]
    OBVIOUS
  <1>2. PICK seq \in Nat, len \in Nat : seq = p.seq /\ len = Len(p.data)
    BY <1>1, Taken
  <1> DEFINE offset == nextACK - seq
             fresh  == seq + len - nextACK
             num    == SetSize(rIn, rOut, BeforeCache(fresh))
             data   == SubSeq(p.data, offset + 1, offset + num)
  <1>3. /\ p.flag = "SEQ" /\ seq <= nextACK /\ seq + len > nextACK
        /\ rRing' = Set(rRing, rIn, data)
        /\ rIn' = rIn + num /\ nextACK' = nextACK + num
        /\ rPc' = "merge" /\ rReply' = "recv"
        /\ UNCHANGED cacheRanges
    BY <1>1, <1>2 DEF ReceiveNext
  <1>4. /\ p.data \in Seq(Bytes)
        /\ Harmless(p) /\ nextACK = rIn /\ rPc = "recv" /\ sPc # "start"
        /\ UNCHANGED <<rState, rOut, rUser, delivered, toSend>>
        /\ InFlight' \subseteq InFlight /\ FinIsLast'
        /\ Dry => p.data = <<>>
    BY <1>1, <1>3, Taken
  <1>5. /\ seq \in Nat /\ len \in Nat /\ N \in Nat /\ sIn \in Nat
        /\ rIn \in Nat /\ rOut \in Nat /\ rOut <= rIn /\ rIn <= rOut + N
    BY <1>2, Numbers
  <1>6. seq <= rIn /\ seq + len > rIn /\ offset = rIn - seq /\ fresh = seq + len - rIn
    BY <1>3, <1>4
  <1>7. num \in Nat /\ num <= fresh /\ rIn + num <= rOut + N
    <2>1. fresh \in Nat
      BY <1>5, <1>6
    <2> HIDE DEF fresh
    <2>2. BeforeCache(fresh) \in Int /\ BeforeCache(fresh) >= 0 /\ BeforeCache(fresh) <= fresh
      BY <2>1, BeforeCacheBound DEF TypeOK
    <2>3. rIn \in rOut .. rOut + N
      BY <1>5
    <2>4. /\ num \in Int /\ num >= 0 /\ num <= N + rOut - rIn
          /\ num <= BeforeCache(fresh)
      BY <1>5, <2>2, <2>3, SetSizeFits
    <2> HIDE DEF num
    <2> QED BY <1>5, <2>1, <2>2, <2>4
  <1>8. /\ seq + len <= sIn
        /\ \A q \in seq .. seq + len - 1 : q >= rIn => p.data[q - seq + 1] = q
    BY <1>2, <1>3, <1>4 DEF Harmless
  <1>9. Len(data) = num /\ \A k \in 1 .. num : data[k] = p.data[offset + k]
    <2>1. offset \in Nat /\ offset + num \in Nat /\ offset + num <= len
      <3> HIDE DEF num
      <3> QED BY <1>5, <1>6, <1>7
    <2> HIDE DEF offset, num
    <2>2. offset + num <= Len(p.data)
      BY <1>2, <2>1
    <2> QED BY <1>4, <1>7, <2>1, <2>2, SubSeqAt
  <1> HIDE DEF data, num
  <1>10. \A q \in rIn .. rIn + num - 1 : data[q - rIn + 1] = q
    <2> SUFFICES ASSUME NEW q \in rIn .. rIn + num - 1
                 PROVE  data[q - rIn + 1] = q
      OBVIOUS
    <2>1. /\ q \in Int /\ q - rIn + 1 \in 1 .. num
          /\ offset + (q - rIn + 1) = q - seq + 1
          /\ q \in seq .. seq + len - 1 /\ q >= rIn
      BY <1>5, <1>6, <1>7
    <2> QED BY <1>8, <1>9, <2>1
  <1> HIDE DEF offset, fresh
  <1>11. rIn' = rIn + num /\ rIn' \in Nat /\ rIn <= rIn' /\ rIn' <= sIn /\ nextACK' = rIn'
        /\ rIn' <= seq + len
    <2>1. fresh = seq + len - rIn
      BY <1>6
    <2>2. rIn + num <= sIn /\ rIn <= rIn + num /\ rIn + num \in Nat /\ rIn + num <= seq + len
      BY <1>5, <1>7, <1>8, <2>1
    <2> QED BY <1>3, <1>4, <2>2
  <1>12. ASSUME NEW q \in rOut .. rOut + N - 1,
                q \in rIn .. rIn + num - 1 \/ rRing[q % N] = q
         PROVE  rRing'[q % N] = q
    <2>1. /\ Len(data) \in Nat /\ rIn + Len(data) <= rOut + N
          /\ \A x \in rIn .. rIn + Len(data) - 1 : data[x - rIn + 1] = x
          /\ q \in rIn .. rIn + Len(data) - 1 \/ rRing[q % N] = q
      BY <1>7, <1>9, <1>10, <1>12
    <2>2. Set(rRing, rIn, data)[q % N] = q
      BY <1>5, <1>12, <2>1, WriteKeeps
    <2> QED BY <1>3, <2>2
  <1>13. ControlInv' /\ GreetingInv' /\ CursorsInv' /\ PacketsInv' /\ EventsInv' /\ WindowInv'
    BY <1>4, <1>5, <1>11, ForwardKeeps
  <1>14. NextAckInv'
    BY <1>3, <1>11 DEF NextAckInv
  <1>15. StreamIntact'
    <2>1. PICK end \in Nat : end = rIn + num /\ end = rIn'
      BY <1>11
    <2>2. ASSUME NEW q \in rOut .. end - 1 PROVE rRing'[q % N] = q
      <3>1. q \in rOut .. rOut + N - 1
        BY <1>5, <1>7, <2>1, <2>2
      <3>2. q \in rIn .. rIn + num - 1 \/ q \in rOut .. rIn - 1
        BY <1>5, <1>7, <2>1, <2>2
      <3>3. q \in rOut .. rIn - 1 => rRing[q % N] = q
        BY DEF StreamIntact, Holds
      <3> QED BY <1>12, <3>1, <3>2, <3>3
    <2> QED BY <1>4, <2>1, <2>2 DEF StreamIntact, Holds
  <1>16. CacheInv'
    <2> SUFFICES ASSUME NEW r \in cacheRanges PROVE CachedWell(r)'
      BY <1>3 DEF CacheInv
    <2>1. CachedWell(r) /\ r[1] \in Nat /\ r[2] \in Nat
      BY DEF CacheInv, TypeOK, ReceiverTypeOK
    <2>2. ASSUME NEW q \in r[1] .. r[2] - 1, q >= rIn + num
          PROVE  rRing'[q % N] = q
      <3>1. q >= rIn /\ q \in Int
        BY <1>5, <1>7, <2>1, <2>2
      <3>2. q \in rOut .. rOut + N - 1
        <4>1. r[2] <= rOut + N
          BY <2>1 DEF CachedWell
        <4> QED BY <1>5, <2>1, <2>2, <3>1, <4>1
      <3>3. rRing[q % N] = q
        BY <2>1, <2>2, <3>1 DEF CachedWell
      <3> QED BY <1>12, <3>2, <3>3
    <2> QED BY <1>3, <1>4, <1>11, <2>1, <2>2 DEF CachedWell, sVars
  <1>17. p.data # <<>>
    <2>1. len > 0
      BY <1>5, <1>6
    <2> QED BY <1>2, <2>1
  <1>18. SynIsFirst'
    BY <1>1, <1>17, TakeKeeps DEF Receive, SynIsFirst
  <1>19. SynInv'
    BY <1>4, <1>17 DEF SynInv, sVars
  <1> QED BY <1>1, <1>2, <1>4, <1>11, <1>13, <1>14, <1>15, <1>16, <1>18, <1>19

LEMMA MergeKeeps ==
  ASSUME Good, ~Reordering, NEW r \in cacheRanges, Merge(r), UNCHANGED sVars
  PROVE  FifoInv' /\ rIn <= rIn' /\ (rIn' = rIn \/ rIn' = r[2])
  <1> USE DEF Good, FifoInv
  <1>1. /\ rPc = "merge" /\ nextACK >= r[1] /\ cacheRanges' = cacheRanges \ {r}
        /\ UNCHANGED <<rState, rPc, rReply, rOut, rRing, rUser, delivered, toRecv, toSend>>
    BY DEF Merge, Merges
  <1>2. nextACK = rIn /\ sPc # "start"
    BY <1>1 DEF NextAckInv, Fresh, ControlInv
  <1>3. CachedWell(r) /\ r[1] \in Nat /\ r[2] \in Nat
    BY DEF CacheInv, TypeOK, ReceiverTypeOK
  <1>4. PICK from \in Nat, to \in Nat : from = r[1] /\ to = r[2]
    BY <1>3
  <1>5. /\ from \in Nat /\ to \in Nat /\ N \in Nat /\ sIn \in Nat /\ rIn \in Nat /\ rOut \in Nat
        /\ rOut <= rIn /\ rIn <= rOut + N /\ rIn <= sIn
    BY <1>4, Numbers DEF CursorsInv
  <1>6. /\ from <= rIn /\ to <= sIn /\ to <= rOut + N
        /\ \A q \in from .. to - 1 : q >= rIn => rRing[q % N] = q
    BY <1>1, <1>2, <1>3, <1>4 DEF CachedWell
  <1>7. /\ rIn' \in Nat /\ rIn <= rIn' /\ rIn' <= sIn /\ nextACK' = rIn'
        /\ rIn' = rIn \/ (rIn < to /\ rIn' = to)
    <2>1. CASE rIn < to
      <3> DEFINE w == to - rIn
      <3>1. w \in Nat /\ w <= N + rOut - rIn /\ rIn + w = to
        BY <1>5, <1>6, <2>1
      <3>2. SetSize(rIn, rOut, w) = w
        <4>1. FreeSize(rIn, rOut) = N + rOut - rIn
          <5>1. rIn \in rOut .. rOut + N
            BY <1>5
          <5> QED BY <1>5, <5>1, FreeSizeIsRoom
        <4> HIDE DEF w
        <4> QED BY <3>1, <4>1 DEF SetSize, AtMost
      <3>3. rIn' = rIn + SetSize(rIn, rOut, w) /\ nextACK' = to
        BY <1>2, <1>4, <2>1 DEF Merge
      <3> HIDE DEF w
      <3>4. rIn' = to
        BY <3>1, <3>2, <3>3
      <3>5. to \in Nat /\ rIn <= to /\ to <= sIn
        BY <1>5, <1>6, <2>1
      <3> QED BY <2>1, <3>3, <3>4, <3>5
    <2>2. CASE ~(rIn < to)
      <3>1. rIn' = rIn /\ nextACK' = nextACK
        BY <1>2, <1>4, <2>2 DEF Merge
      <3>2. rIn <= rIn
        BY <1>5
      <3> QED BY <1>2, <1>5, <3>1, <3>2
    <2> QED BY <2>1, <2>2
  <1>8. ControlInv' /\ GreetingInv' /\ CursorsInv' /\ PacketsInv' /\ EventsInv' /\ WindowInv'
    <2>1. InFlight' \subseteq InFlight /\ rOut' \in Nat /\ rOut <= rOut'
      BY <1>1, <1>5 DEF InFlight
    <2> QED BY <1>1, <1>2, <1>7, <2>1, ForwardKeeps
  <1>9. NextAckInv'
    BY <1>1, <1>7 DEF NextAckInv
  <1>10. StreamIntact'
    <2>1. PICK end \in Nat : end = rIn'
      BY <1>7
    <2>2. end = rIn \/ end = to
      BY <1>7, <2>1
    <2>3. ASSUME NEW q \in rOut .. end - 1 PROVE rRing[q % N] = q
      <3>1. q \in rOut .. rIn - 1 \/ (q \in from .. to - 1 /\ q >= rIn)
        <4>1. CASE end = rIn
          BY <2>3, <4>1
        <4>2. CASE end = to
          BY <1>5, <1>6, <2>3, <4>2
        <4> QED BY <2>2, <4>1, <4>2
      <3>2. q \in rOut .. rIn - 1 => rRing[q % N] = q
        BY DEF StreamIntact, Holds
      <3> QED BY <1>6, <3>1, <3>2
    <2> QED BY <1>1, <2>1, <2>3 DEF StreamIntact, Holds
  <1>11. CacheInv'
    <2> SUFFICES ASSUME NEW x \in cacheRanges PROVE CachedWell(x)'
      BY <1>1 DEF CacheInv
    <2>1. CachedWell(x) /\ x[1] \in Nat /\ x[2] \in Nat
      BY DEF CacheInv, TypeOK, ReceiverTypeOK
    <2>2. ASSUME NEW q \in x[1] .. x[2] - 1, q >= rIn'
          PROVE  rRing[q % N] = q
      <3>1. q >= rIn
        BY <1>5, <1>7, <2>1, <2>2
      <3> QED BY <2>1, <2>2, <3>1 DEF CachedWell
    <2> QED BY <1>1, <2>1, <2>2 DEF CachedWell, sVars
  <1>12. NothingCached => NothingCached' /\ rIn' = rIn
    <2>1. NothingCached => ~(rIn < to)
      BY <1>4, <1>5, <1>6 DEF NothingCached
    <2> QED BY <1>1, <1>7, <2>1 DEF NothingCached
  <1>13. FinIsLast' /\ SynIsFirst'
    BY <1>1, <1>12 DEF FinIsLast, SynIsFirst
  <1>14. SynInv'
    BY <1>1, <1>12 DEF SynInv, Dry, InFlight, sVars
  <1> QED BY <1>4, <1>7, <1>8, <1>9, <1>10, <1>11, <1>13, <1>14

LEMMA MergeDoneKeeps ==
  ASSUME Good, MergeDone, UNCHANGED sVars
  PROVE  FifoInv'
  <1> USE DEF Good, FifoInv
  <1>1. /\ rPc = "merge" /\ rPc' = "reply" /\ \A r \in cacheRanges : ~Merges(r)
        /\ UNCHANGED <<rState, rReply, rIn, rOut, rRing, cacheRanges, nextACK, rUser,
                       delivered, toRecv, toSend>>
    BY DEF MergeDone
  <1>2. nextACK = rIn /\ sPc # "start"
    BY <1>1 DEF NextAckInv, Fresh, ControlInv
  <1>3. ControlInv' /\ GreetingInv' /\ CursorsInv' /\ PacketsInv' /\ EventsInv' /\ WindowInv'
    BY <1>1, <1>2, ForwardKeeps, Numbers DEF CursorsInv, InFlight
  <1>4. CacheInv'
    <2> SUFFICES ASSUME NEW r \in cacheRanges PROVE CachedWell(r)'
      BY <1>1 DEF CacheInv
    <2>1. CachedWell(r)
      BY DEF CacheInv
    <2>2. rIn <= r[1]
      <3>1. cacheRanges \subseteq (Nat \X Nat)
        BY DEF TypeOK, ReceiverTypeOK
      <3>2. PICK front \in cacheRanges : IsFront(front)
        BY <3>1, FrontExists
      <3>3. PICK f \in Nat, x \in Nat : f = front[1] /\ x = r[1]
        BY <3>1, <3>2
      <3>4. f <= x /\ ~(rIn >= f)
        BY <1>1, <1>2, <3>2, <3>3 DEF Merges, IsFront
      <3> QED BY <3>3, <3>4, Numbers
    <2> QED BY <1>1, <2>1, <2>2 DEF CachedWell, sVars
  <1>5. NextAckInv' /\ StreamIntact'
    BY <1>1, <1>2 DEF NextAckInv, StreamIntact, Holds
  <1>6. FinIsLast' /\ SynIsFirst' /\ SynInv'
    BY <1>1 DEF FinIsLast, SynIsFirst, SynInv, Dry, NothingCached, InFlight, sVars
  <1> QED BY <1>3, <1>4, <1>5, <1>6

(* An answer offers the window that begins at end() and is as wide as the  *)
(* room there is.                                                          *)
LEMMA ReplyKeeps ==
  ASSUME Good, Reply, UNCHANGED sVars
  PROVE  FifoInv'
  <1> USE DEF Good, FifoInv
  <1> DEFINE d == Ack(nextACK, FreeSize(rIn, rOut))
  <1>1. /\ rPc = "reply" /\ toSend' = Sent(toSend, d)
        /\ rPc' = (IF rReply = "closed" THEN "done" ELSE "recv")
        /\ UNCHANGED <<rReply, rIn, rOut, rRing, cacheRanges, nextACK, rUser, delivered, toRecv>>
    BY DEF Reply
  <1>2. sPc # "start"
    BY <1>1 DEF ControlInv
  <1>3. ControlInv' /\ GreetingInv' /\ CursorsInv' /\ PacketsInv' /\ EventsInv'
    BY <1>1, <1>2 DEF ControlInv, GreetingInv, Greeting, CursorsInv, PacketsInv, Harmless,
         EventsInv, InFlight, sVars
  <1>4. NextAckInv'
    BY <1>1 DEF NextAckInv, Fresh, InFlight, sVars
  <1>5. StreamIntact' /\ CacheInv'
    BY <1>1 DEF StreamIntact, Holds, CacheInv, CachedWell, sVars
  <1>6. FinIsLast' /\ SynIsFirst' /\ SynInv'
    BY <1>1 DEF FinIsLast, SynIsFirst, SynInv, Dry, NothingCached, InFlight, sVars
  <1>7. WindowInv'
    <2>1. nextSeq <= sOut + rwnd /\ sOut + rwnd <= rOut + N
      BY DEF WindowInv
    <2>2. /\ d \in Acks /\ FreeSize(rIn, rOut) = N + rOut - rIn
          /\ d.ack = nextACK /\ d.window = N + rOut - rIn
      <3>1. rIn \in rOut .. rOut + N
        BY Numbers
      <3>2. FreeSize(rIn, rOut) = N + rOut - rIn /\ FreeSize(rIn, rOut) \in 0 .. N
        BY <3>1, Numbers, FreeSizeIsRoom
      <3> QED BY <3>2, Numbers DEF Ack, Acks
    <2> HIDE DEF d
    <2>3. ASSUME sCall # "close"
          PROVE  /\ d.ack = rIn /\ d.ack + d.window = rOut + N
                 /\ rIn = 0 => d.window = N
      <3>1. nextACK = rIn
        BY <1>1, <2>3 DEF NextAckInv, Fresh
      <3> QED BY <2>2, <3>1, Numbers
    <2>4. toSend \in Seq(Acks)
      BY DEF TypeOK
    <2>5. ASSUME sCall # "close", NEW i \in DOMAIN toSend'
          PROVE  /\ sOut <= toSend'[i].ack /\ toSend'[i].ack <= rIn
                 /\ sOut + rwnd <= toSend'[i].ack + toSend'[i].window
                 /\ toSend'[i].ack + toSend'[i].window <= rOut + N
                 /\ rIn = 0 => toSend'[i].window = N
      <3>1. CASE i \in DOMAIN toSend /\ toSend'[i] = toSend[i]
        BY <2>5, <3>1 DEF WindowInv
      <3>2. CASE toSend'[i] = d
        <4>1. sOut <= rIn /\ rIn <= rIn /\ rOut + N <= rOut + N
          BY Numbers DEF CursorsInv
        <4> QED BY <2>1, <2>3, <2>5, <3>2, <4>1
      <3> QED BY <1>1, <2>2, <2>4, <3>1, <3>2, SentIsBehind
    <2>6. ASSUME sCall # "close", NEW i \in DOMAIN toSend', NEW j \in DOMAIN toSend', i <= j
          PROVE  /\ toSend'[i].ack <= toSend'[j].ack
                 /\ toSend'[i].ack + toSend'[i].window <= toSend'[j].ack + toSend'[j].window
      <3>1. CASE toSend'[j] = d
        BY <2>3, <2>5, <2>6, <3>1
      <3>2. CASE j \in DOMAIN toSend /\ toSend'[j] = toSend[j]
        <4>1. i \in DOMAIN toSend
          <5>1. i \in Nat /\ i > 0
            <6>1. toSend' \in Seq(Acks)
              BY <1>1, <2>2, <2>4, SentType
            <6> QED BY <2>6, <6>1
          <5> QED BY <2>4, <2>6, <3>2, <5>1
        <4>2. toSend'[i] = toSend[i]
          <5>1. i \in 1 .. Len(toSend)
            BY <2>4, <4>1
          <5> QED BY <1>1, <2>2, <2>4, <5>1 DEF Sent
        <4> QED BY <2>6, <3>2, <4>1, <4>2 DEF WindowInv
      <3> QED BY <1>1, <2>2, <2>4, <3>1, <3>2, SentIsBehind
    <2> QED BY <1>1, <2>1, <2>5, <2>6 DEF WindowInv, sVars
  <1> QED BY <1>3, <1>4, <1>5, <1>6, <1>7

(* On a FIFO path nothing is lost either by dropping the packets of a      *)
(* stranger's: they are the only ones there are.                           *)
LEMMA DropForeignKeeps ==
  ASSUME Good, ~Reordering, DropForeign, UNCHANGED sVars
  PROVE  FifoInv'
  <1> USE DEF Good, FifoInv
  <1>1. /\ UNCHANGED <<rState, rPc, rReply, rIn, rOut, rRing, cacheRanges, nextACK, rUser,
                       delivered, toSend>>
    BY DEF DropForeign, rVars
  <1>2. PICK i \in Deliverable(toRecv) : toRecv' = Rest(toRecv, i)
    BY DEF DropForeign
  <1>3. toRecv # <<>> /\ InFlight' \subseteq InFlight /\ FinIsLast' /\ SynIsFirst'
    BY <1>1, <1>2, TakeKeeps DEF SynIsFirst, NothingCached
  <1>4. sPc # "start"
    BY <1>3 DEF ControlInv
  <1>5. ControlInv' /\ GreetingInv' /\ CursorsInv' /\ PacketsInv' /\ EventsInv' /\ WindowInv'
    BY <1>1, <1>3, <1>4, ForwardKeeps, Numbers DEF CursorsInv
  <1>6. NextAckInv' /\ StreamIntact' /\ CacheInv'
    BY <1>1, <1>3 DEF NextAckInv, Fresh, Greeting, StreamIntact, Holds, CacheInv, CachedWell,
         sVars
  <1>7. SynInv'
    BY <1>1, <1>3 DEF SynInv, Dry, NothingCached, sVars
  <1> QED BY <1>3, <1>5, <1>6, <1>7

-----------------------------------------------------------------------------
(* The steps of the receiving application.                                 *)

LEMMA UserChecksKeeps ==
  ASSUME Good, UserChecks, UNCHANGED sVars
  PROVE  FifoInv'
  <1> USE DEF Good, FifoInv
  <1>1. UNCHANGED <<rState, rPc, rReply, rIn, rOut, rRing, cacheRanges, nextACK, delivered,
                    toRecv, toSend>>
    BY DEF UserChecks
  <1>2. ControlInv' /\ GreetingInv' /\ CursorsInv' /\ PacketsInv' /\ EventsInv' /\ WindowInv'
    BY <1>1, ForwardKeeps, Numbers DEF CursorsInv, InFlight, ControlInv
  <1>3. NextAckInv' /\ StreamIntact' /\ CacheInv'
    BY <1>1 DEF NextAckInv, Fresh, Greeting, StreamIntact, Holds, CacheInv, CachedWell,
         InFlight, sVars
  <1>4. FinIsLast' /\ SynIsFirst' /\ SynInv'
    BY <1>1 DEF FinIsLast, SynIsFirst, SynInv, Dry, NothingCached, InFlight, sVars
  <1> QED BY <1>2, <1>3, <1>4

(* What pop returns are the next bytes of the stream. *)
LEMMA PoppedIsStream ==
  ASSUME TypeOK, StreamIntact, NEW num \in Nat, num <= rIn - rOut
  PROVE  /\ delivered \o Get(rRing, rOut, num) = Stream(0, rOut + num)
         /\ Len(delivered \o Get(rRing, rOut, num)) = rOut + num
  <1> DEFINE got == Get(rRing, rOut, num)
             all == delivered \o got
  <1>1. delivered \in Seq(Bytes) /\ rRing \in [Slots -> Bytes] /\ rOut \in Nat /\ rIn \in Nat
    BY Numbers DEF TypeOK, ReceiverTypeOK
  <1>2. got \in Seq(Bytes) /\ Len(got) = num
    BY <1>1, GetType
  <1>3. \A k \in 1 .. num : got[k] = rRing[(rOut + k - 1) % N]
    BY DEF Get
  <1> HIDE DEF got
  <1>4. /\ all \in Seq(Bytes) /\ Len(all) = Len(delivered) + Len(got)
        /\ \A i \in 1 .. Len(delivered) + Len(got) :
             all[i] = IF i <= Len(delivered) THEN delivered[i] ELSE got[i - Len(delivered)]
    BY <1>1, <1>2, ConcatProperties
  <1> HIDE DEF all
  <1>5. Len(delivered) = rOut /\ \A i \in 1 .. rOut : delivered[i] = i - 1
    <2>1. delivered = Stream(0, rOut) /\ Len(delivered) = rOut
      BY DEF StreamIntact
    <2>2. \A i \in 1 .. rOut : Stream(0, rOut)[i] = 0 + i - 1
      BY DEF Stream
    <2> QED BY <1>1, <2>1, <2>2
  <1>6. Len(all) = rOut + num /\ rOut + num \in Nat
    BY <1>1, <1>2, <1>4, <1>5
  <1>7. ASSUME NEW i \in 1 .. rOut + num
        PROVE  all[i] = i - 1
    <2>1. CASE i <= rOut
      BY <1>1, <1>2, <1>4, <1>5, <1>7, <2>1
    <2>2. CASE i > rOut
      <3>1. i - rOut \in 1 .. num /\ rOut + (i - rOut) - 1 = i - 1 /\ i - 1 \in rOut .. rIn - 1
        BY <1>1, <1>7, <2>2
      <3>2. got[i - rOut] = rRing[(i - 1) % N]
        BY <1>3, <3>1
      <3>3. rRing[(i - 1) % N] = i - 1
        BY <3>1 DEF StreamIntact, Holds
      <3>4. all[i] = got[i - rOut]
        BY <1>1, <1>2, <1>4, <1>5, <1>7, <2>2
      <3> QED BY <3>2, <3>3, <3>4
    <2> QED BY <1>1, <1>7, <2>1, <2>2
  <1>8. /\ Stream(0, rOut + num) \in Seq(Bytes) /\ Len(Stream(0, rOut + num)) = rOut + num
        /\ \A i \in 1 .. rOut + num : Stream(0, rOut + num)[i] = i - 1
    <2>1. Stream(0, rOut + num) \in Seq(Bytes)
      BY <1>6, StreamType
    <2>2. \A i \in 1 .. rOut + num : Stream(0, rOut + num)[i] = 0 + i - 1
      BY DEF Stream
    <2>3. Len(Stream(0, rOut + num)) = rOut + num
      BY <1>6 DEF Stream
    <2> QED BY <1>1, <2>1, <2>2, <2>3
  <1>9. all = Stream(0, rOut + num)
    BY <1>4, <1>6, <1>7, <1>8, SeqEqual
  <1> QED BY <1>6, <1>9 DEF all, got

LEMMA UserPopsKeeps ==
  ASSUME Good, UserPops, UNCHANGED sVars
  PROVE  FifoInv'
  <1> USE DEF Good, FifoInv
  <1> DEFINE num == GetSize(rIn, rOut, ReadSize)
  <1>1. /\ delivered' = delivered \o Get(rRing, rOut, num) /\ rOut' = rOut + num
        /\ UNCHANGED <<rState, rPc, rReply, rIn, rRing, cacheRanges, nextACK, toRecv, toSend>>
    BY DEF UserPops
  <1>2. num \in Nat /\ num <= rIn - rOut
    <2>1. rIn \in rOut .. rOut + N /\ ReadSize \in Nat
      BY Numbers, ReceiverAssumption
    <2>2. num \in 0 .. rIn - rOut
      BY <2>1, Numbers, GetSizeFits
    <2> HIDE DEF num
    <2> QED BY <2>2, Numbers
  <1> HIDE DEF num
  <1>3. rOut' \in Nat /\ rOut <= rOut' /\ rOut' <= rIn
    <2>1. rOut + num \in Nat /\ rOut <= rOut + num /\ rOut + num <= rIn
      BY <1>2, Numbers
    <2> QED BY <1>1, <2>1
  <1>4. ControlInv' /\ GreetingInv' /\ CursorsInv' /\ PacketsInv' /\ EventsInv' /\ WindowInv'
    <2>1. /\ rIn' \in Nat /\ rIn <= rIn' /\ rIn' <= sIn
          /\ rOut' \in Nat /\ rOut <= rOut'
      BY <1>1, <1>3, Numbers DEF CursorsInv
    <2>2. InFlight' \subseteq InFlight /\ toSend' = toSend
      BY <1>1 DEF InFlight
    <2>3. sPc = "start" => toRecv' = <<>> /\ rPc' = "recv"
      BY <1>1 DEF ControlInv
    <2> HIDE DEF Good, FifoInv
    <2> QED BY <2>1, <2>2, <2>3, ForwardKeeps
  <1>5. NextAckInv'
    BY <1>1 DEF NextAckInv, Fresh, Greeting, InFlight, sVars
  <1>6. StreamIntact'
    <2>1. delivered' = Stream(0, rOut + num) /\ Len(delivered') = rOut + num
      BY <1>1, <1>2, PoppedIsStream
    <2>2. PICK from \in Nat : from = rOut'
      BY <1>3
    <2>3. from .. rIn - 1 \subseteq rOut .. rIn - 1
      BY <1>3, <2>2, Numbers
    <2> QED BY <1>1, <2>1, <2>2, <2>3 DEF StreamIntact, Holds
  <1>7. CacheInv'
    <2> SUFFICES ASSUME NEW r \in cacheRanges PROVE CachedWell(r)'
      BY <1>1 DEF CacheInv
    <2>1. CachedWell(r)
      BY DEF CacheInv
    <2>2. PICK to \in Nat : to = r[2]
      BY DEF TypeOK, ReceiverTypeOK
    <2>3. to <= rOut + N
      BY <2>1, <2>2 DEF CachedWell
    <2>4. to <= rOut' + N
      BY <1>3, <2>3, Numbers
    <2> QED BY <1>1, <2>1, <2>2, <2>4 DEF CachedWell, sVars
  <1>8. FinIsLast' /\ SynIsFirst' /\ SynInv'
    BY <1>1 DEF FinIsLast, SynIsFirst, SynInv, Dry, NothingCached, InFlight, sVars
  <1> QED BY <1>4, <1>5, <1>6, <1>7, <1>8

-----------------------------------------------------------------------------
LEMMA FifoInit == Init => FifoInv
  <1> SUFFICES ASSUME Init PROVE FifoInv
    OBVIOUS
  <1> USE DEF Init, SenderInit, ReceiverInit
  <1>1. ControlInv /\ GreetingInv /\ EventsInv /\ CacheInv
    BY DEF ControlInv, GreetingInv, Greeting, EventsInv, CacheInv, Waiting, Exits, InFlight
  <1>2. PacketsInv /\ FinIsLast /\ SynIsFirst
    BY DEF PacketsInv, FinIsLast, SynIsFirst, InFlight
  <1>3. CursorsInv /\ WindowInv
    BY RingAssumption DEF CursorsInv, WindowInv
  <1>4. NextAckInv
    BY DEF NextAckInv, Fresh, Greeting
  <1>5. StreamIntact
    <2>1. Len(delivered) = 0 /\ Stream(0, 0) = <<>>
      BY DEF Stream
    <2> QED BY <2>1 DEF StreamIntact, Holds
  <1>6. SynInv
    BY DEF SynInv, Dry, NothingCached, InFlight
  <1> QED BY <1>1, <1>2, <1>3, <1>4, <1>5, <1>6 DEF FifoInv

LEMMA FifoNext ==
  ~Reordering /\ TypeOK /\ SendBufferInv /\ FifoInv /\ [Next]_vars => FifoInv'
  <1> SUFFICES ASSUME ~Reordering, TypeOK, SendBufferInv, FifoInv, [Next]_vars
               PROVE  FifoInv'
    OBVIOUS
  <1>1. Good
    BY DEF Good
  <1>2. CASE SenderStep
    <2>1. CASE Application
      BY <1>1, <1>2, <2>1, ConnectKeeps, PushKeeps, CloseKeeps DEF Application, SenderStep
    <2>2. CASE Timer
      BY <1>1, <1>2, <2>2, TimerKeeps DEF SenderStep
    <2>3. CASE RecvTimeout
      BY <1>1, <1>2, <2>3, RecvTimeoutKeeps DEF SenderStep
    <2>4. CASE Manager
      BY <1>1, <1>2, <2>4, ManagerKeeps DEF SenderStep
    <2>5. CASE \E i \in Deliverable(toSend) : RecvAck(i)
      BY <1>1, <1>2, <2>5, RecvAckKeeps DEF SenderStep
    <2> QED BY <1>2, <2>1, <2>2, <2>3, <2>4, <2>5 DEF SenderStep, SenderNext
  <1>3. CASE ReceiverStep
    <2> USE <1>1, <1>3 DEF ReceiverStep
    <2>1. CASE DropForeign
      BY <2>1, DropForeignKeeps
    <2>2. ASSUME NEW i \in Deliverable(toRecv), Receive(i) PROVE FifoInv'
      BY <2>2, ReceiveSynKeeps, ReceiveOldKeeps, ReceiveNextKeeps, ReceiveAheadKeeps,
         ReceiveFinKeeps DEF Receive
    <2>3. CASE \E r \in cacheRanges : Merge(r)
      BY <2>3, MergeKeeps
    <2>4. CASE MergeDone
      BY <2>4, MergeDoneKeeps
    <2>5. CASE Reply
      BY <2>5, ReplyKeeps
    <2>6. CASE User
      BY <2>6, UserChecksKeeps, UserPopsKeeps DEF User
    <2> QED BY <2>1, <2>2, <2>3, <2>4, <2>5, <2>6 DEF ReceiverNext, Receiver
  <1>4. CASE UNCHANGED vars
    BY <1>4 DEF vars, sVars, rVars, FifoInv, ControlInv, GreetingInv, Greeting, CursorsInv,
         NextAckInv, Fresh, PacketsInv, Harmless, EventsInv, WindowInv, StreamIntact, Holds,
         CacheInv, CachedWell, FinIsLast, SynIsFirst, SynInv, Dry, NothingCached, InFlight
  <1> QED BY <1>2, <1>3, <1>4 DEF Next

(* Why the transfer is right: what FifoInv says of the buffers, the        *)
(* packets and the ACKs holds in every state, if no datagram overtakes     *)
(* another.  Datagrams may be lost.                                        *)
THEOREM FifoAlways ==
  ASSUME ~Reordering
  PROVE  Spec => [](TypeOK /\ SendBufferInv /\ FifoInv)
  <1>1. Spec => []SendBufferInv
    BY SendBufferInit, SendBufferNext, TypeCorrect, PTL DEF Spec
  <1>2. TypeOK /\ SendBufferInv /\ FifoInv /\ [Next]_vars => FifoInv'
    BY FifoNext
  <1> QED BY <1>1, <1>2, FifoInit, TypeCorrect, PTL DEF Spec

(* If no datagram overtakes another, what recv() has returned and what     *)
(* waits in the receive buffer is the beginning of the stream, in order,   *)
(* each byte once: deliverData puts no byte in a wrong place, whatever is  *)
(* lost, sent again or cached (RRecv.cpp:110-166).                         *)
THEOREM StreamAlwaysIntact ==
  ASSUME ~Reordering
  PROVE  Spec => []StreamIntact
  <1>1. FifoInv => StreamIntact
    BY DEF FifoInv
  <1> QED BY <1>1, FifoAlways, PTL

LEMMA AllReceived ==
  ASSUME TypeOK, CursorsInv, sCall = "close"
  PROVE  rIn = sIn
  BY Numbers DEF CursorsInv

(* If no datagram overtakes another, the sender sends the FIN, and so      *)
(* close() returns, only when the receiver has every byte of the stream.   *)
THEOREM ClosedAlwaysAccepted ==
  ASSUME ~Reordering
  PROVE  Spec => []ClosedMeansAccepted
  <1>1. TypeOK /\ FifoInv => ClosedMeansAccepted
    BY AllReceived DEF FifoInv, ClosedMeansAccepted
  <1> QED BY <1>1, FifoAlways, PTL

(* If no datagram overtakes another, the data that deliverData caches      *)
(* ahead of nextACK lies in the buffer and is not overwritten before it is *)
(* merged.                                                                 *)
THEOREM CacheAlwaysIntact ==
  ASSUME ~Reordering
  PROVE  Spec => []CacheIntact
  <1>1. ASSUME TypeOK, FifoInv PROVE CacheIntact
    <2> SUFFICES ASSUME NEW r \in cacheRanges
                 PROVE  /\ r[2] <= rOut + N
                        /\ \A p \in r[1] .. r[2] - 1 : p >= nextACK => rRing[p % N] = p
      BY DEF CacheIntact
    <2>1. CachedWell(r)
      BY <1>1 DEF FifoInv, CacheInv
    <2>2. PICK from \in Nat, to \in Nat : from = r[1] /\ to = r[2]
      BY <1>1 DEF TypeOK, ReceiverTypeOK
    <2>3. \/ nextACK = rIn
          \/ rReply = "closed" /\ rPc # "merge"
      BY <1>1 DEF FifoInv, NextAckInv, Fresh
    <2>4. ASSUME NEW p \in from .. to - 1, p >= nextACK
          PROVE  rRing[p % N] = p
      <3>1. p >= rIn
        <4>1. CASE nextACK = rIn
          BY <2>4, <4>1
        <4>2. CASE rPc # "merge"
          <5>1. rIn <= from
            BY <2>1, <2>2, <4>2 DEF CachedWell
          <5> QED BY <1>1, <2>4, <5>1, Numbers
        <4> QED BY <2>3, <4>1, <4>2
      <3> QED BY <2>1, <2>2, <2>4, <3>1 DEF CachedWell
    <2> QED BY <2>1, <2>2, <2>4 DEF CachedWell
  <1> QED BY <1>1, FifoAlways, PTL

(* If no datagram overtakes another, merging a cached range pushes all of  *)
(* it: the assertion of RRecv.cpp:160 never fails.                         *)
THEOREM MergeAlwaysWhole ==
  ASSUME ~Reordering
  PROVE  Spec => []MergeAssert
  <1>1. ASSUME TypeOK, FifoInv PROVE MergeAssert
    <2> SUFFICES ASSUME rPc = "merge", NEW r \in cacheRanges, nextACK < r[2]
                 PROVE  SetSize(rIn, rOut, r[2] - nextACK) = r[2] - nextACK
      BY DEF MergeAssert
    <2>1. nextACK = rIn
      BY <1>1 DEF FifoInv, NextAckInv, Fresh
    <2>2. PICK to \in Nat : to = r[2]
      BY <1>1 DEF TypeOK, ReceiverTypeOK
    <2>3. to <= rOut + N
      BY <1>1, <2>2 DEF FifoInv, CacheInv, CachedWell
    <2>4. FreeSize(rIn, rOut) = N + rOut - rIn
      <3>1. rIn \in rOut .. rOut + N
        BY <1>1, Numbers
      <3> QED BY <1>1, <3>1, Numbers, FreeSizeIsRoom
    <2>5. to - rIn <= N + rOut - rIn
      BY <1>1, <2>3, Numbers
    <2> QED BY <2>1, <2>2, <2>4, <2>5 DEF SetSize, AtMost
  <1> QED BY <1>1, FifoAlways, PTL

(* If no datagram overtakes another, deliverData never caches a range      *)
(* that begins beyond the room in the buffer, for which the subtraction of *)
(* freeSize would wrap (RingBuffer.h:98-104).                              *)
THEOREM CacheableAlwaysFits ==
  ASSUME ~Reordering
  PROVE  Spec => []CacheableFits
  <1>1. ASSUME TypeOK, FifoInv PROVE CacheableFits
    <2> SUFFICES ASSUME NEW m \in InFlight, m.flag = "SEQ"
                 PROVE  m.seq <= nextACK \/ m.seq + Len(m.data) <= rOut + N
      BY DEF CacheableFits
    <2>1. nextACK = rIn
      BY <1>1 DEF FifoInv, NextAckInv, Fresh, GreetingInv
    <2> QED BY <1>1, <2>1 DEF FifoInv, PacketsInv, Harmless
  <1> QED BY <1>1, FifoAlways, PTL

-----------------------------------------------------------------------------
(* What one step does to the two ends of the stream.                       *)

(* The sender's steps append to the stream while it is open, or find it    *)
(* closed.                                                                 *)
LEMMA SenderMoves ==
  ASSUME Good, SenderStep
  PROVE  /\ UNCHANGED <<rState, rReply, rIn, nextACK>>
         /\ \/ sIn' \in Nat /\ sIn <= sIn' /\ sPc # "done" /\ sPc' = sPc
            \/ sIn' = sIn /\ (sPc' = "done" <=> sPc = "done")
            \/ sIn' = sIn /\ sPc # "done" /\ sPc' = "done" /\ sCall = "close"
  <1> USE DEF Good, FifoInv
  <1>1. UNCHANGED rVars
    BY DEF SenderStep
  <1>2. CASE Application
    <2>1. CASE Connect \/ Close
      BY <1>1, <2>1 DEF Connect, Close, rVars
    <2>2. ASSUME NEW size \in Chunks, Push(AtMost(size, Total - sIn))
          PROVE  sIn' \in Nat /\ sIn <= sIn' /\ sPc # "done" /\ sPc' = sPc
      <3>1. sState = "send" /\ sPc' = sPc
        BY <2>2 DEF Push
      <3>2. PICK num : num = SetSize(sIn, sOut, AtMost(size, Total - sIn))
        OBVIOUS
      <3>3. num > 0 /\ sIn' = sIn + num
        BY <2>2, <3>2 DEF Push
      <3>4. num \in Int
        <4> DEFINE asked == AtMost(size, Total - sIn)
        <4>1. asked \in Int /\ sIn \in sOut .. sOut + N
          BY SenderAssumption, Numbers DEF AtMost
        <4> HIDE DEF asked
        <4> QED BY <3>2, <4>1, Numbers, SetSizeFits DEF asked
      <3>5. sIn + num \in Nat /\ sIn <= sIn + num
        BY <3>3, <3>4, Numbers
      <3> QED BY <3>1, <3>3, <3>5 DEF ControlInv
    <2> QED BY <1>1, <1>2, <2>1, <2>2 DEF Application, rVars
  <1>3. CASE Timer
    BY <1>1, <1>3 DEF Timer, TimerDropped, TimerResent, TimerExhausted, TimerReturns, rVars
  <1>4. CASE RecvTimeout
    BY <1>1, <1>4 DEF RecvTimeout, AfterNothing, rVars
  <1>5. CASE Manager
    BY <1>1, <1>5 DEF Manager, ManagerSends, ManagerDrains, ManagerGoesOn, ManagerCloses,
      TrySendPkg, TrySendDone, rVars
  <1>6. ASSUME NEW i \in Deliverable(toSend), RecvAck(i)
        PROVE  /\ sIn' = sIn
               /\ sPc # "done"
               /\ sPc' = "done" => sCall = "close"
    BY <1>6 DEF RecvAck, ConnectAck, NewAck, OldAck, CloseAck, Waiting
  <1> QED BY <1>1, <1>2, <1>3, <1>4, <1>5, <1>6 DEF SenderStep, SenderNext, rVars

(* The receiver's steps only ever add to what has arrived; and a FIN once  *)
(* taken is not forgotten.                                                 *)
LEMMA ReceiverMoves ==
  ASSUME Good, ~Reordering, ReceiverStep
  PROVE  /\ UNCHANGED <<sIn, sPc>> /\ rIn <= rIn'
         /\ rState # "listening" => rState' # "listening"
         /\ rReply = "closed" => rReply' = "closed"
  <1> USE DEF Good, FifoInv
  <1>1. UNCHANGED sVars /\ rIn <= rIn
    BY Numbers DEF ReceiverStep
  <1>2. rReply \in {"recv", "closed"} /\ (rReply = "closed" => rPc # "recv")
    BY DEF TypeOK, ReceiverTypeOK, NextAckInv
  <1>3. CASE DropForeign \/ MergeDone \/ Reply \/ User
    BY <1>1, <1>2, <1>3 DEF DropForeign, MergeDone, Reply, User, UserChecks, UserPops, rVars, sVars
  <1>4. ASSUME NEW i \in Deliverable(toRecv), Receive(i)
        PROVE  rState' = rState /\ rIn <= rIn' /\ rPc = "recv"
    <2>1. CASE ReceiveNext(toRecv[i])
      BY <1>1, <1>4, <2>1, ReceiveNextKeeps DEF Receive
    <2>2. CASE ~ReceiveNext(toRecv[i])
      BY <1>1, <1>4, <2>2 DEF Receive, ReceiveSyn, ReceiveOld, ReceiveAhead, ReceiveFin
    <2> QED BY <2>1, <2>2
  <1>5. ASSUME NEW r \in cacheRanges, Merge(r)
        PROVE  rState' = rState /\ rReply' = rReply /\ rIn <= rIn'
    BY <1>1, <1>5, MergeKeeps DEF Merge
  <1> QED BY <1>1, <1>2, <1>3, <1>4, <1>5 DEF ReceiverStep, ReceiverNext, Receiver, sVars

(* If no datagram overtakes another, the receiver's cumulative ACK never   *)
(* retreats once it knows the sender: a late SYN does not set nextACK back *)
(* (RRecv.cpp:70-73).                                                      *)
THEOREM AckNeverGoesBack ==
  ASSUME ~Reordering
  PROVE  Spec => AckNeverRetreats
  <1>1. ASSUME Good, Good', [Next]_vars
        PROVE  [rState # "listening" /\ rReply' # "closed" => nextACK' >= nextACK]_vars
    <2> SUFFICES ASSUME Next, rState # "listening", rReply' # "closed"
                 PROVE  nextACK' >= nextACK
      BY <1>1
    <2>1. CASE SenderStep
      <3>1. nextACK' = nextACK
        BY <1>1, <2>1, SenderMoves
      <3>2. nextACK >= nextACK
        BY <1>1, Numbers DEF Good
      <3> QED BY <3>1, <3>2
    <2>2. CASE ReceiverStep
      <3>1. rIn <= rIn' /\ rState' # "listening" /\ rReply # "closed"
        BY <1>1, <2>2, ReceiverMoves
      <3>2. nextACK = rIn
        BY <1>1, <3>1 DEF Good, FifoInv, NextAckInv, Fresh
      <3>3. nextACK' = rIn'
        BY <1>1, <3>1 DEF Good, FifoInv, NextAckInv, Fresh
      <3>4. rIn \in Nat /\ rIn' \in Nat
        BY <1>1 DEF Good, TypeOK, ReceiverTypeOK
      <3> QED BY <3>1, <3>2, <3>3, <3>4
    <2> QED BY <2>1, <2>2 DEF Next
  <1>2. Spec => []Good
    BY FifoAlways, PTL DEF Good
  <1> QED BY <1>1, <1>2, PTL DEF Spec, AckNeverRetreats

-----------------------------------------------------------------------------
(* The refinement.                                                         *)

LEMMA StreamAt ==
  ASSUME NEW a \in Nat
  PROVE  /\ Stream(0, a) \in Seq(Nat) /\ Len(Stream(0, a)) = a
         /\ \A i \in 1 .. a : Stream(0, a)[i] = i - 1
  <1>1. \A i \in 1 .. a : 0 + i - 1 \in Nat /\ 0 + i - 1 = i - 1
    OBVIOUS
  <1>2. Stream(0, a) = [i \in 1 .. a |-> 0 + i - 1]
    BY DEF Stream
  <1>3. Stream(0, a) \in [1 .. a -> Nat]
    BY <1>1, <1>2
  <1> QED BY <1>1, <1>2, <1>3

LEMMA StreamPrefix ==
  ASSUME NEW a \in Nat, NEW b \in Nat, a <= b
  PROVE  Abstract!IsPrefix(Stream(0, a), Stream(0, b))
  <1> DEFINE s == Stream(0, a)
             t == Stream(0, b)
  <1>1. /\ s \in Seq(Nat) /\ Len(s) = a /\ \A i \in 1 .. a : s[i] = i - 1
        /\ t \in Seq(Nat) /\ Len(t) = b /\ \A i \in 1 .. b : t[i] = i - 1
    BY StreamAt
  <1> HIDE DEF s, t
  <1>2. \A i \in 1 .. a : i \in 1 .. b /\ 0 + i = i
    OBVIOUS
  <1>3. /\ SubSeq(s, 1, a) \in Seq(Nat) /\ Len(SubSeq(s, 1, a)) = a
        /\ \A i \in 1 .. a : SubSeq(s, 1, a)[i] = s[i]
    BY <1>1
  <1>4. /\ SubSeq(t, 1, a) \in Seq(Nat) /\ Len(SubSeq(t, 1, a)) = a
        /\ \A i \in 1 .. a : SubSeq(t, 1, a)[i] = t[i]
    BY <1>1
  <1>5. SubSeq(s, 1, a) = SubSeq(t, 1, a)
    BY <1>1, <1>2, <1>3, <1>4, SeqEqual
  <1>6. Len(s) <= Len(t) /\ SubSeq(s, 1, Len(s)) = SubSeq(t, 1, Len(s))
    BY <1>1, <1>5
  <1> QED BY <1>6 DEF Abstract!IsPrefix, s, t

LEMMA StreamDiffers ==
  ASSUME NEW a \in Nat, NEW b \in Nat, a # b
  PROVE  Stream(0, a) # Stream(0, b)
  BY StreamAt

(* What has arrived: the stream up to end(). *)
LEMMA Arrived ==
  TypeOK /\ FifoInv => delivered \o Get(rRing, rOut, rIn - rOut) = Stream(0, rIn)
  <1> SUFFICES ASSUME TypeOK, FifoInv
               PROVE  delivered \o Get(rRing, rOut, rIn - rOut) = Stream(0, rIn)
    OBVIOUS
  <1>1. PICK num \in Nat : num = rIn - rOut /\ rOut + num = rIn /\ num <= rIn - rOut
    BY Numbers
  <1>2. delivered \o Get(rRing, rOut, num) = Stream(0, rOut + num)
    BY <1>1, PoppedIsStream DEF FifoInv
  <1> QED BY <1>1, <1>2

(* If no datagram overtakes another, the two programs implement one        *)
(* reliable stream of bytes: what arrives is what was written, in order,   *)
(* and the close succeeds only when all of it has.                         *)
THEOREM ReliableTransfer ==
  ASSUME ~Reordering
  PROVE  Spec => ImplementsStream
  <1> DEFINE arrived == delivered \o Get(rRing, rOut, rIn - rOut)
  <1>1. Init => Abstract!Init
    <2>1. Init => rIn - rOut = 0 /\ sIn = 0 /\ delivered = <<>> /\ sPc # "done"
      BY DEF Init, SenderInit, ReceiverInit
    <2>2. Stream(0, 0) = <<>> /\ \A ring, out : Get(ring, out, 0) = <<>>
      BY DEF Stream, Get
    <2>3. <<>> \o <<>> = <<>>
      OBVIOUS
    <2> QED BY <2>1, <2>2, <2>3 DEF Abstract!Init
  <1>2. TypeOK /\ FifoInv => arrived = Stream(0, rIn)
    BY Arrived
  <1>3. (TypeOK /\ FifoInv => delivered \o Get(rRing, rOut, rIn - rOut) = Stream(0, rIn))'
    BY Arrived, PTL
  <1>4. ASSUME Good, Good', [Next]_vars
        PROVE  [Abstract!Next]_(Abstract!vars)
    <2>1. arrived = Stream(0, rIn) /\ arrived' = Stream(0, rIn')
      BY <1>2, <1>3, <1>4 DEF Good
    <2>2. PICK a \in Nat, a1 \in Nat, w \in Nat, w1 \in Nat :
             a = rIn /\ a1 = rIn' /\ w = sIn /\ w1 = sIn'
      BY <1>4 DEF Good, TypeOK, ReceiverTypeOK, SenderTypeOK
    <2> HIDE DEF arrived
    <2>3. CASE SenderStep
      <3>1. a1 = a
        BY <1>4, <2>2, <2>3, SenderMoves
      <3>2. arrived' = arrived
        BY <2>1, <2>2, <3>1
      <3>3. CASE w <= w1 /\ sPc # "done" /\ sPc' = sPc
        <4>1. CASE w = w1
          BY <2>2, <3>2, <3>3, <4>1 DEF Abstract!vars, arrived
        <4>2. CASE w # w1
          <5>1. Stream(0, w1) # Stream(0, w) /\ Abstract!IsPrefix(Stream(0, w), Stream(0, w1))
            BY <3>3, <4>2, StreamPrefix, StreamDiffers
          <5> QED BY <2>2, <3>2, <3>3, <5>1 DEF Abstract!Next, Abstract!Write, arrived
        <4> QED BY <4>1, <4>2
      <3>4. CASE w1 = w /\ (sPc' = "done" <=> sPc = "done")
        BY <2>2, <3>2, <3>4 DEF Abstract!vars, arrived
      <3>5. CASE w1 = w /\ sPc # "done" /\ sPc' = "done" /\ sCall = "close"
        <4>1. rIn = sIn
          BY <1>4, <3>5, AllReceived DEF Good, FifoInv
        <4> QED BY <2>1, <2>2, <3>2, <3>5, <4>1 DEF Abstract!Next, Abstract!Close, arrived
      <3> QED BY <1>4, <2>2, <2>3, <3>3, <3>4, <3>5, SenderMoves
    <2>4. CASE ReceiverStep
      <3>1. a <= a1 /\ w1 = w /\ sPc' = sPc
        BY <1>4, <2>2, <2>4, ReceiverMoves
      <3>2. CASE a = a1
        BY <2>1, <2>2, <3>1, <3>2 DEF Abstract!vars, arrived
      <3>3. CASE a # a1
        <4>1. a1 <= w
          BY <1>4, <2>2, <3>1 DEF Good, FifoInv, CursorsInv
        <4>2. /\ Stream(0, a1) # Stream(0, a)
              /\ Abstract!IsPrefix(Stream(0, a), Stream(0, a1))
              /\ Abstract!IsPrefix(Stream(0, a1), Stream(0, w))
          BY <3>1, <3>3, <4>1, StreamPrefix, StreamDiffers
        <4> QED BY <2>1, <2>2, <3>1, <4>2 DEF Abstract!Next, Abstract!Arrive, arrived
      <3> QED BY <3>2, <3>3
    <2>5. CASE UNCHANGED vars
      BY <2>5 DEF vars, sVars, rVars, Abstract!vars
    <2> QED BY <1>4, <2>3, <2>4, <2>5 DEF Next
  <1>5. Spec => []Good
    BY FifoAlways, PTL DEF Good
  <1> HIDE DEF arrived
  <1> QED BY <1>1, <1>4, <1>5, PTL DEF Spec, ImplementsStream, Abstract!Spec

-----------------------------------------------------------------------------
(* What is on its way once the FIN is sent.                                *)

(* Once the FIN is sent the receiver has everything.                       *)
LEMMA Drained ==
  ASSUME Good, sCall = "close"
  PROVE  /\ rIn = sIn /\ nextSeq <= sIn
         /\ rPc # "reply" /\ rPc # "done" => nextACK = sIn
  <1>1. rIn = sIn /\ nextSeq <= sIn
    BY AllReceived DEF Good, FifoInv, SendBufferInv, SendBufferIntact
  <1>2. ~Greeting
    BY DEF Good, FifoInv, ControlInv, Greeting
  <1>3. rPc # "reply" /\ rPc # "done" => nextACK = rIn
    BY <1>2 DEF Good, FifoInv, NextAckInv, Fresh
  <1> QED BY <1>1, <1>3

(* A step that sends a packet, or none, and keeps the number of the FIN.   *)
LEMMA EndSends ==
  ASSUME TypeOK, EndInv, UNCHANGED rVars,
         UNCHANGED <<sCall, nextSeq, toSend>>, sCall # "close" \/ sIn' = sIn,
         sPc' # "badAck",
         \A m \in InFlight' : m.flag = "FIN" => m \in InFlight \/ m.seq = nextSeq,
         \A e \in timevts' : e.flag = "FIN" => e \in timevts \/ e.seq = nextSeq
  PROVE  EndInv'
  BY DEF EndInv, rVars

(* What is in flight after one more packet is sent. *)
LEMMA OneMore ==
  ASSUME TypeOK, NEW d \in Packets, toRecv' = Sent(toRecv, d)
  PROVE  \A m \in InFlight' : m \in InFlight \/ m = d
  <1>1. toRecv \in Seq(Packets)
    BY DEF TypeOK
  <1> QED BY <1>1, SentIsBehind DEF InFlight

LEMMA EndTimer ==
  ASSUME Good, EndInv, NEW e \in timevts, TimerResent(e), UNCHANGED rVars
  PROVE  EndInv'
  <1> DEFINE again == [e EXCEPT !.n = @ + 1]
  <1>1. /\ UNCHANGED <<sPc, sCall, nextSeq, sIn, toSend>> /\ sPc = "timer"
        /\ toRecv' = Sent(toRecv, Resent(e)) /\ timevts' = (timevts \ {e}) \cup {again}
    BY DEF TimerResent
  <1>2. e \in [flag : Flags, seq : Nat, len : Nat, n : Nat]
    BY DEF Good, TypeOK, SenderTypeOK
  <1>3. again.flag = e.flag /\ again.seq = e.seq
    BY <1>2
  <1>4. Resent(e) \in Packets
    BY ResentType DEF Good, TypeOK
  <1>5. Resent(e).flag = "FIN" => Resent(e).seq = nextSeq
    <2>1. CASE e.flag = "SEQ"
      BY <2>1 DEF Resent, Segment, Packet
    <2>2. CASE e.flag # "SEQ"
      BY <2>2 DEF Resent, Packet, EndInv
    <2> QED BY <2>1, <2>2
  <1>6. \A m \in InFlight' : m.flag = "FIN" => m \in InFlight \/ m.seq = nextSeq
    BY <1>1, <1>4, <1>5, OneMore DEF Good
  <1>7. \A x \in timevts' : x.flag = "FIN" => x \in timevts \/ x.seq = nextSeq
    BY <1>1, <1>3 DEF EndInv
  <1> HIDE DEF again
  <1> QED BY <1>1, <1>6, <1>7, EndSends DEF Good

(* Outside closeConnection no FIN has been sent. *)
LEMMA NoFinYet ==
  ASSUME Good, sCall # "close"
  PROVE  /\ \A m \in InFlight : m.flag # "FIN"
         /\ \A e \in timevts : e.flag # "FIN"
  BY DEF Good, FifoInv, PacketsInv, Harmless, EventsInv

LEMMA EndManager ==
  ASSUME Good, EndInv, Manager, UNCHANGED rVars
  PROVE  EndInv'
  <1>1. CASE ManagerSends \/ ManagerDrains \/ ManagerGoesOn
    BY <1>1, EndSends DEF ManagerSends, ManagerDrains, ManagerGoesOn, Good, InFlight
  <1>2. sPc \in {"manager", "drain", "try"} => sCall # "close"
    BY DEF Good, FifoInv, ControlInv, Waiting, Exits, TypeOK, SenderTypeOK
  <1>3. CASE TrySendDone
    <2>1. UNCHANGED <<nextSeq, toRecv, toSend, timevts>> /\ sCall' = "wait" /\ sPc' = "timer"
      BY <1>3 DEF TrySendDone
    <2> QED BY <2>1 DEF EndInv, InFlight, rVars
  <1>4. CASE ManagerCloses
    <2> DEFINE d == Packet("FIN", nextSeq, <<>>)
    <2>1. /\ UNCHANGED <<nextSeq, sIn, toSend>> /\ toRecv' = Sent(toRecv, d)
          /\ timevts' = timevts \cup {Event("FIN", nextSeq, 0)}
          /\ sPc = "drain" /\ sIn = sOut /\ sPc' = "timer" /\ sCall' = "close"
      BY <1>4 DEF ManagerCloses
    <2>2. d \in Packets /\ d.seq = nextSeq
      BY Numbers DEF Good, Packet, Packets, Flags
    <2>3. \A m \in InFlight' : m.flag = "FIN" => m.seq = nextSeq'
      <3> HIDE DEF d
      <3> QED BY <2>1, <2>2, OneMore DEF Good, EndInv
    <2>4. \A x \in timevts' : x.flag = "FIN" => x.seq = nextSeq'
      BY <2>1 DEF EndInv, Event
    <2>5. sOut = sIn /\ sOut <= rIn /\ rIn <= sIn /\ rIn = sIn
      <3>1. sOut <= rIn /\ rIn <= sIn
        BY DEF Good, FifoInv, CursorsInv
      <3> QED BY <2>1, <3>1, Numbers DEF Good
    <2>6. ASSUME NEW k \in DOMAIN toSend PROVE toSend[k].ack = sIn
      <3>1. PICK a \in Nat : a = toSend[k].ack
        <4>1. toSend[k] \in Acks
          BY <2>6 DEF Good, TypeOK
        <4> QED BY <4>1 DEF Acks
      <3>2. sOut <= a /\ a <= rIn
        BY <1>2, <2>1, <2>6, <3>1 DEF Good, FifoInv, WindowInv
      <3> QED BY <2>5, <3>1, <3>2, Numbers DEF Good
    <2>7. rPc = "reply" => nextACK = sIn
      <3>1. ~Greeting /\ sCall # "close"
        BY <1>2, <2>1 DEF Good, FifoInv, ControlInv, Greeting, Waiting, Exits
      <3> QED BY <2>5, <3>1 DEF Good, FifoInv, NextAckInv, Fresh
    <2> QED BY <2>1, <2>3, <2>4, <2>6, <2>7 DEF EndInv, rVars
  <1>5. CASE TrySendPkg
    <2>1. /\ UNCHANGED <<sPc, sCall, toSend>> /\ sPc = "try"
          /\ toRecv' = Sent(toRecv, Segment(nextSeq, SendSize))
          /\ timevts' = timevts \cup {Event("SEQ", nextSeq, SendSize)}
      BY <1>5 DEF TrySendPkg
    <2>2. Segment(nextSeq, SendSize) \in Packets
      BY SendSizeFits, SegmentType, Numbers DEF Good, TypeOK
    <2>3. Segment(nextSeq, SendSize).flag = "SEQ"
      BY DEF Segment, Packet
    <2>4. \A m \in InFlight' : m.flag # "FIN"
      BY <1>2, <2>1, <2>2, <2>3, NoFinYet, OneMore DEF Good
    <2>5. \A x \in timevts' : x.flag # "FIN"
      BY <1>2, <2>1, NoFinYet DEF Event
    <2> QED BY <1>2, <2>1, <2>4, <2>5 DEF EndInv, rVars
  <1> QED BY <1>1, <1>3, <1>4, <1>5 DEF Manager

LEMMA EndAck ==
  ASSUME Good, ~Reordering, EndInv, NEW i \in Deliverable(toSend), RecvAck(i),
         UNCHANGED rVars
  PROVE  EndInv'
  <1>1. toSend \in Seq(Acks) /\ i \in DOMAIN toSend
    BY DeliverableIsIndex DEF Good, TypeOK
  <1>2. PICK a \in Acks : a = toSend[i]
    BY <1>1
  <1>3. UNCHANGED <<sCall, nextSeq, sIn, timevts>> /\ toSend' = Rest(toSend, i)
        /\ sPc # "badAck"
    BY DEF RecvAck, Waiting
  <1>4. \A m \in InFlight' : m.flag = "FIN" => m \in InFlight
    <2>1. CASE toRecv' = toRecv
      BY <2>1 DEF InFlight
    <2>2. CASE toRecv' # toRecv
      <3>1. toRecv' = Sent(toRecv, Segment(a.ack, MSS))
        BY <1>2, <2>2 DEF RecvAck, ConnectAck, NewAck, OldAck, CloseAck
      <3>2. Segment(a.ack, MSS) \in Packets
        BY SegmentType, Numbers DEF Good, TypeOK, Acks
      <3>3. Segment(a.ack, MSS).flag = "SEQ"
        BY DEF Segment, Packet
      <3> QED BY <3>1, <3>2, <3>3, OneMore DEF Good
    <2> QED BY <2>1, <2>2
  <1>5. sCall = "close" => \A j \in DOMAIN toSend' : toSend'[j].ack \in {sIn, nextSeq}
    <2> SUFFICES ASSUME sCall = "close", NEW j \in DOMAIN toSend'
                 PROVE  toSend'[j].ack \in {sIn, nextSeq}
      OBVIOUS
    <2>1. j + i \in DOMAIN toSend /\ toSend'[j] = toSend[j + i]
      BY <1>1, <1>3, RestIsBehind
    <2> QED BY <2>1 DEF EndInv
  <1>6. ASSUME sPc' = "badAck" PROVE sCall = "close" /\ nextSeq < sIn
    <2>1. CASE sCall = "close"
      <3>1. a.ack \in {sIn, nextSeq}
        BY <1>1, <1>2, <2>1 DEF EndInv
      <3>2. a.ack # nextSeq
        BY <1>2, <1>6, <2>1 DEF RecvAck, ConnectAck, NewAck, OldAck, CloseAck
      <3>3. nextSeq <= sIn
        BY <2>1, Drained
      <3> QED BY <2>1, <3>1, <3>2, <3>3, Numbers DEF Good
    <2>2. CASE sCall # "close"
      BY <1>6, <2>2, AckTaken
    <2> QED BY <2>1, <2>2
  <1> QED BY <1>3, <1>4, <1>5, <1>6 DEF EndInv, rVars

LEMMA EndReceiver ==
  ASSUME Good, ~Reordering, EndInv, ReceiverNext, UNCHANGED sVars
  PROVE  EndInv'
  <1> USE DEF sVars
  <1>1. ASSUME NEW i \in Deliverable(toRecv), Receive(i) PROVE EndInv'
    <2>1. PICK p : p = toRecv[i]
      OBVIOUS
    <2>2. /\ p \in InFlight /\ InFlight' \subseteq InFlight /\ toSend' = toSend /\ Harmless(p)
          /\ rPc = "recv"
      BY <1>1, <2>1, Taken
    <2>3. ASSUME sCall = "close", rPc' = "reply" PROVE nextACK' \in {sIn, nextSeq}
      <3>1. rIn = sIn /\ nextACK = sIn
        BY <2>2, <2>3, Drained
      <3>2. CASE ReceiveSyn(p)
        <4>1. rIn = 0
          <5>1. i \in DOMAIN toRecv
            BY DeliverableIsIndex DEF Good, TypeOK
          <5> QED BY <2>1, <3>2, <5>1 DEF Good, FifoInv, SynIsFirst, ReceiveSyn
        <4> QED BY <2>2, <3>1, <3>2, <4>1 DEF ReceiveSyn, Harmless
      <3>3. CASE ReceiveOld(p) \/ ReceiveAhead(p)
        BY <3>1, <3>3 DEF ReceiveOld, ReceiveAhead
      <3>4. CASE ReceiveFin(p)
        <4>1. p.data = <<>> /\ p.seq = nextSeq /\ nextACK' = p.seq + Len(p.data)
          BY <2>2, <3>4 DEF ReceiveFin, Harmless, EndInv
        <4> QED BY <4>1, Numbers DEF Good
      <3>5. CASE ReceiveNext(p)
        BY <2>3, <3>5 DEF ReceiveNext
      <3> QED BY <1>1, <2>1, <3>2, <3>3, <3>4, <3>5 DEF Receive
    <2> QED BY <2>2, <2>3 DEF EndInv
  <1>2. CASE DropForeign
    <2>1. PICK i \in Deliverable(toRecv) : toRecv' = Rest(toRecv, i)
      BY <1>2 DEF DropForeign
    <2>2. InFlight' \subseteq InFlight /\ UNCHANGED <<rPc, nextACK, toSend>>
      BY <1>2, <2>1, TakeKeeps DEF DropForeign, rVars, Good, FifoInv
    <2> QED BY <2>2 DEF EndInv
  <1>3. ASSUME NEW r \in cacheRanges, Merge(r) PROVE EndInv'
    BY <1>3 DEF Merge, EndInv, InFlight
  <1>4. CASE MergeDone
    <2>1. rPc = "merge" /\ UNCHANGED <<nextACK, toRecv, toSend>>
      BY <1>4 DEF MergeDone
    <2>2. sCall = "close" => nextACK = sIn
      BY <2>1, Drained
    <2> QED BY <2>1, <2>2 DEF EndInv, InFlight
  <1>5. CASE Reply
    <2> DEFINE d == Ack(nextACK, FreeSize(rIn, rOut))
    <2>1. rPc = "reply" /\ rPc' # "reply" /\ toSend' = Sent(toSend, d) /\ UNCHANGED toRecv
      BY <1>5 DEF Reply
    <2>2. d \in Acks /\ d.ack = nextACK
      <3>1. rIn \in rOut .. rOut + N
        BY Numbers DEF Good
      <3>2. FreeSize(rIn, rOut) \in 0 .. N
        BY <3>1, Numbers, FreeSizeIsRoom DEF Good
      <3> QED BY <3>2, Numbers DEF Good, Ack, Acks
    <2> HIDE DEF d
    <2>3. ASSUME sCall = "close", NEW i \in DOMAIN toSend'
          PROVE  toSend'[i].ack \in {sIn, nextSeq}
      <3>1. toSend \in Seq(Acks)
        BY DEF Good, TypeOK
      <3>2. \/ i \in DOMAIN toSend /\ toSend'[i] = toSend[i]
            \/ toSend'[i] = d
        BY <2>1, <2>2, <2>3, <3>1, SentIsBehind
      <3> QED BY <2>1, <2>2, <2>3, <3>2 DEF EndInv
    <2> QED BY <2>1, <2>3 DEF EndInv, InFlight
  <1>6. CASE User
    BY <1>6 DEF User, UserChecks, UserPops, EndInv, InFlight
  <1> QED BY <1>1, <1>2, <1>3, <1>4, <1>5, <1>6 DEF ReceiverNext, Receiver

LEMMA EndNext ==
  ASSUME Good, ~Reordering, EndInv, [Next]_vars
  PROVE  EndInv'
  <1>1. CASE UNCHANGED vars
    BY <1>1 DEF vars, sVars, rVars, EndInv, InFlight
  <1>2. CASE SenderStep
    <2> USE <1>2 DEF SenderStep
    <2>1. CASE Application
      <3>1. CASE Connect
        <4> DEFINE d == Packet("SYN", nextSeq, <<>>)
        <4>1. /\ sPc = "start" /\ sPc' = "timer" /\ sCall' = "connect"
              /\ UNCHANGED <<nextSeq, toSend>>
              /\ toRecv' = Sent(toRecv, d) /\ timevts' = timevts \cup {Event("SYN", nextSeq, 0)}
          BY <3>1 DEF Connect
        <4>2. d \in Packets /\ d.flag = "SYN"
          BY Numbers DEF Good, Packet, Packets, Flags
        <4> HIDE DEF d
        <4>3. \A m \in InFlight' : m.flag = "FIN" => m \in InFlight
          BY <4>1, <4>2, OneMore DEF Good
        <4>4. \A x \in timevts' : x.flag = "FIN" => x \in timevts
          BY <4>1 DEF Event
        <4> QED BY <4>1, <4>3, <4>4 DEF EndInv, rVars
      <3>2. CASE Close \/ \E size \in Chunks : Push(AtMost(size, Total - sIn))
        <4>1. UNCHANGED <<nextSeq, toRecv, toSend, sCall, timevts, sPc>>
              /\ sState = "send" /\ sPc \notin Exits
          BY <3>2 DEF Close, Push
        <4>2. sCall # "close"
          BY <4>1 DEF Good, FifoInv, ControlInv
        <4>3. sPc' # "badAck"
          BY <4>1 DEF Exits
        <4> QED BY <4>1, <4>2, <4>3, EndSends DEF Good, InFlight
      <3> QED BY <2>1, <3>1, <3>2 DEF Application
    <2>2. CASE Timer
      <3>1. ASSUME NEW e \in timevts, TimerResent(e) PROVE EndInv'
        BY <3>1, EndTimer
      <3>2. CASE TimerReturns \/ \E e \in timevts : TimerDropped(e) \/ TimerExhausted(e)
        <4>1. /\ UNCHANGED <<nextSeq, toRecv, toSend, sCall, sIn>> /\ timevts' \subseteq timevts
              /\ sPc = "timer" /\ sPc' # "badAck"
          BY <3>2 DEF TimerReturns, TimerDropped, TimerExhausted
        <4> QED BY <4>1, EndSends DEF Good, InFlight
      <3> QED BY <2>2, <3>1, <3>2 DEF Timer
    <2>3. CASE RecvTimeout
      <3>1. UNCHANGED <<nextSeq, toRecv, toSend, sCall, sIn, timevts>> /\ sPc' # "badAck"
        BY <2>3 DEF RecvTimeout, AfterNothing
      <3> QED BY <3>1, EndSends DEF Good, InFlight
    <2>4. CASE Manager
      BY <2>4, EndManager
    <2>5. CASE \E i \in Deliverable(toSend) : RecvAck(i)
      BY <2>5, EndAck
    <2> QED BY <2>1, <2>2, <2>3, <2>4, <2>5 DEF SenderNext
  <1>3. CASE ReceiverStep
    BY <1>3, EndReceiver DEF ReceiverStep
  <1> QED BY <1>1, <1>2, <1>3 DEF Next

LEMMA EndInit == Init => EndInv
  BY DEF Init, SenderInit, ReceiverInit, EndInv, InFlight

(* If no datagram overtakes another, what trySendPkg has numbered always   *)
(* has room in the receiver's buffer, whatever is lost or sent again: the  *)
(* windows that sendAck offers and trySendPkg keeps to are right.          *)
THEOREM WindowAlwaysKept ==
  ASSUME ~Reordering
  PROVE  Spec => []WindowKept
  <1>1. ASSUME TypeOK, FifoInv PROVE WindowKept
    <2>1. nextSeq <= sOut + rwnd /\ sOut + rwnd <= rOut + N
      BY <1>1 DEF FifoInv, WindowInv
    <2> QED BY <1>1, <2>1, Numbers DEF WindowKept
  <1> QED BY <1>1, FifoAlways, PTL

(* If no datagram overtakes another, neither connect() nor                 *)
(* closeConnection() ever takes an old ACK for its answer, however many    *)
(* duplicates there are: the process ends at RSend.cpp:70 or RSend.cpp:86  *)
(* only after a fast retransmission of bytes that were never numbered.     *)
THEOREM RefusedAckAlwaysNew ==
  ASSUME ~Reordering
  PROVE  Spec => []RefusedAckIsNew
  <1>1. Good /\ EndInv /\ [Next]_vars => EndInv'
    BY EndNext
  <1>2. Spec => []Good
    BY FifoAlways, PTL DEF Good
  <1>3. Good /\ EndInv => RefusedAckIsNew
    BY Drained DEF EndInv, RefusedAckIsNew
  <1> QED BY <1>1, <1>2, <1>3, EndInit, PTL DEF Spec

=============================================================================
