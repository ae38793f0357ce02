-------------------------------- MODULE RUDP --------------------------------
(***************************************************************************)
(* One transfer: the sending program (RSend), the receiving program        *)
(* (RRecv) and the network between them.                                   *)
(***************************************************************************)
EXTENDS RSend, RRecv

vars == <<sVars, rVars, toRecv, toSend>>

Init == SenderInit /\ ReceiverInit /\ toRecv = <<>> /\ toSend = <<>>

SenderStep == SenderNext /\ UNCHANGED rVars
ReceiverStep == ReceiverNext /\ UNCHANGED sVars

Next == SenderStep \/ ReceiverStep

Spec == Init /\ [][Next]_vars

-----------------------------------------------------------------------------
Bytes == Nat \cup {Junk}
Flags == {"SYN", "SEQ", "FIN"}

SenderTypeOK ==
  /\ sState \in {"closed", "connecting", "send", "closing"}
  /\ sPc \in {"start", "timer", "manager", "drain", "try", "done"} \cup Waiting \cup Exits
  /\ sCall \in {"connect", "wait", "close"}
  /\ timevts \subseteq [flag : Flags, seq : Nat, len : Nat, n : Nat]
  /\ nextSeq \in Nat /\ rwnd \in 0 .. N
  /\ sOut \in Nat /\ sIn \in sOut .. sOut + N /\ sRing \in [Slots -> Bytes]
  /\ cc \in [cState : Uninitialised, cwnd : Nat, ssthresh : Nat, dupACK : Nat,
             lastAck : Nat]

ReceiverTypeOK ==
  /\ rState \in {"listening", "recv", "closed"}
  /\ rPc \in {"recv", "merge", "reply", "done"}
  /\ rReply \in {"recv", "closed"}
  /\ target \in {"zero", "sender", "garbage"}
  /\ rOut \in Nat /\ rIn \in rOut .. rOut + N /\ rRing \in [Slots -> Bytes]
  /\ cacheRanges \subseteq (Nat \X Nat)
  /\ nextACK \in Nat
  /\ rUser \in {"check", "pop", "done"}
  /\ delivered \in Seq(Bytes)

Packets == [flag : Flags, seq : Nat, data : Seq(Bytes)]
Acks == [ack : Nat, window : 0 .. N]

(* The types, and with them the bounds that the buffers' arithmetic relies *)
(* on: neither buffer ever holds more than N bytes (in - out, which        *)
(* freeSize subtracts from nSize), and no window offered exceeds N.        *)
TypeOK ==
  /\ SenderTypeOK
  /\ ReceiverTypeOK
  /\ toRecv \in Seq(Packets)
  /\ toSend \in Seq(Acks)

-----------------------------------------------------------------------------
InFlight == {toRecv[i] : i \in DOMAIN toRecv}
Holds(ring, from, to) == \A p \in from .. to - 1 : ring[p % N] = p

(* Every byte sent and not acknowledged is covered by a pending timer      *)
(* event, so that its loss is noticed: no sequence of expiries, ACKs and   *)
(* retransmissions in handleTimer, wait and trySendPkg lets one slip.      *)
UnackedCovered ==
  \A p \in sOut .. nextSeq - 1 :
    \E e \in timevts : e.flag = "SEQ" /\ p \in e.seq .. e.seq + e.len - 1

(* The bytes between begin() and end() of the send buffer are the stream's *)
(* bytes at those positions, and nothing beyond end() has been sent with a *)
(* timer: pushes by the application, pops by ACKs and retransmissions do   *)
(* not step on each other.                                                 *)
SendBufferIntact ==
  /\ nextSeq <= sIn /\ sIn <= sOut + N
  /\ Holds(sRing, sOut, sIn)

(* What recv() has returned and what waits in the receive buffer is the    *)
(* beginning of the stream, in order, each byte once.                      *)
StreamIntact ==
  /\ delivered = Stream(0, Len(delivered))
  /\ rOut = Len(delivered)
  /\ Holds(rRing, rOut, rIn)

(* Data cached out of order (deliverData) is not overwritten while it      *)
(* waits to be merged.                                                     *)
CacheIntact ==
  \A r \in cacheRanges : r[2] <= rOut + N /\
    \A p \in r[1] .. r[2] - 1 : p >= nextACK => rRing[p % N] = p

(* Data in flight lies inside the receive buffer, or begins at or before   *)
(* nextACK, where push truncates it: never does deliverData cache a range  *)
(* that starts beyond the room there is, for which set()'s nSize - begin + *)
(* out would wrap.                                                         *)
CacheableFits ==
  \A m \in InFlight : m.flag = "SEQ" =>
    m.seq <= nextACK \/ m.seq + Len(m.data) <= rOut + N

(* RRecv.cpp:160, assert(pushnum == nextCachedEnd - nextACK): merging a    *)
(* cached range pushes all of it.                                          *)
MergeAssert ==
  rPc = "merge" => \A r \in cacheRanges :
    Merges(r) /\ nextACK < r[2] => SetSize(rIn, rOut, r[2] - nextACK) = r[2] - nextACK

(* Once the FIN is sent, and so when close() returns, every byte of the    *)
(* stream is in the receiver's buffer or delivered.                        *)
ClosedMeansAccepted == sCall = "close" => rIn = sIn

(* Until the FIN arrives, the receiver's cumulative ACK never retreats     *)
(* once it knows the sender.                                               *)
AckNeverRetreats ==
  [][rState # "listening" /\ rReply' # "closed" => nextACK' >= nextACK]_vars

(* What trySendPkg has numbered has room in the receiver's buffer, though  *)
(* the window it goes by is as old as the last ACK: only bytes that a fast *)
(* retransmission sends before they are numbered can lie beyond.           *)
WindowKept == nextSeq <= rOut + N

(* closeConnection() ends the process on an ACK it does not expect         *)
(* (RSend.cpp:83) only when that ACK is for bytes the receiver has and     *)
(* trySendPkg has never numbered: an old ACK that is still on its way when *)
(* the FIN is sent is never taken for the answer, nor connect()'s for a    *)
(* SYN sent twice.                                                         *)
RefusedAckIsNew == sPc = "badAck" => nextSeq < rIn

Abstract == INSTANCE ReliableStream WITH
  written <- Stream(0, sIn),
  arrived <- delivered \o Get(rRing, rOut, rIn - rOut),
  closed  <- sPc = "done"

(* The two programs implement one reliable stream of bytes. *)
ImplementsStream == Abstract!Spec

-----------------------------------------------------------------------------
(* What does not hold in every network. *)

(* No data in flight lies beyond the room the receiver has: what is sent   *)
(* is limited by the offered window (RSend.cpp:93), and so every packet    *)
(* can be kept when it arrives.                                            *)
WindowRespected ==
  \A m \in InFlight : m.flag = "SEQ" => m.seq + Len(m.data) <= rOut + N

(* When the receiving application ends, it has every byte of the stream.   *)
DeliveredAll == rUser = "done" => Len(delivered) = sIn

-----------------------------------------------------------------------------
(* Fairness.  No thread stops.  A deadline that is set passes, so an event *)
(* that handleTimer keeps looking at is found expired.  On a path that     *)
(* loses nothing, a datagram in flight arrives; on a lossy one nothing is  *)
(* promised.                                                               *)
SenderThread == (TimerReturns \/ RecvTimeout \/ Manager) /\ UNCHANGED rVars

TimerExpires ==
  /\ \E e \in timevts : TimerDropped(e) \/ TimerResent(e) \/ TimerExhausted(e)
  /\ UNCHANGED rVars

AckArrives == (\E i \in Deliverable(toSend) : RecvAck(i)) /\ UNCHANGED rVars

PacketArrives ==
  (DropForeign \/ \E i \in Deliverable(toRecv) : Receive(i)) /\ UNCHANGED sVars

ReceiverThread ==
  ((\E r \in cacheRanges : Merge(r)) \/ MergeDone \/ Reply) /\ UNCHANGED sVars

UserThread == User /\ UNCHANGED sVars

Fairness ==
  /\ WF_vars(SenderThread) /\ SF_vars(TimerExpires)
  /\ WF_vars(ReceiverThread) /\ WF_vars(UserThread)
  /\ Lossy \/ (SF_vars(AckArrives) /\ WF_vars(PacketArrives))

FairSpec == Spec /\ Fairness

Ended == sPc \in Exits \cup {"done"}

(* Nothing in flight, nothing unacknowledged, data to send and no window   *)
(* to send it in: there is no event left that could open the window.       *)
ZeroWindow == sPc \notin Exits /\ rwnd = 0 /\ nextSeq <= sOut /\ sOut < sIn

(* Once the application asks for the close, the sender comes to an end     *)
(* (the close succeeds or the process gives up) unless it stalls for ever  *)
(* in one of two known ways: on a zero window, or in a recvfrom without a  *)
(* timeout.  No other loop of manager, wait and recvACK runs for ever.     *)
OnlyKnownStalls ==
  sState = "closing" ~> \/ Ended
                        \/ []ZeroWindow
                        \/ [](sPc = "stuck")

(* Once the receiver has handled the FIN its application comes to its end, *)
(* whether it was about to test the state or to pop (RRecv.cpp:25), and    *)
(* whatever happens to the answer on the way back.                         *)
FinReachesUser == rReply = "closed" ~> rUser = "done"

(* A sender that found the window closed goes on when the receiver's       *)
(* application has made room.                                              *)
ZeroWindowReopens == ZeroWindow ~> ~ZeroWindow \/ sPc = "stuck"

=============================================================================
