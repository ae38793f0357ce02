---------------------------- MODULE FifoInvariant ----------------------------
(***************************************************************************)
(* Why the transfer is right on a path that keeps the order of its         *)
(* datagrams, lossy or not: the inductive invariant behind the properties  *)
(* of RUDP, one operator per idea.                                         *)
(***************************************************************************)
EXTENDS RUDP

(* Where each caller of recvACK may be, and in which state. *)
ControlInv ==
  /\ sPc = "start" =>
       /\ sState = "closed" /\ sCall = "connect"
       /\ timevts = {} /\ toRecv = <<>> /\ toSend = <<>> /\ rPc = "recv"
  /\ sState = "connecting" =>
       sCall = "connect" /\ sPc \in {"timer"} \cup Waiting \cup Exits
  /\ sCall = "connect" /\ sPc \in {"timer"} \cup Waiting => sState = "connecting"
  /\ sCall = "close" =>
       sState \in {"closing", "closed"} /\ sPc \in {"timer", "done"} \cup Waiting \cup Exits
  /\ sState = "closed" => sPc \in {"start", "done"}
  /\ sPc = "done" => sState = "closed" /\ sCall = "close"
  /\ sPc = "drain" => sState = "closing"

(* Until connect() has its answer nothing but SYNs is sent. *)
Greeting == sPc = "start" \/ sState = "connecting"

GreetingInv ==
  Greeting =>
    /\ nextSeq = 0 /\ rwnd = 0 /\ sIn = 0 /\ sOut = 0
    /\ \A m \in InFlight : m.flag = "SYN"
    /\ \A e \in timevts : e.flag = "SYN"

(* The sender never forgets a byte that the receiver lacks, and once it    *)
(* has sent the FIN there is none.                                         *)
CursorsInv ==
  /\ sOut <= rIn /\ rIn <= sIn
  /\ sCall = "close" => sOut = sIn

(* No packet has reached the receiver. *)
Fresh ==
  /\ Greeting
  /\ rState = "listening" /\ rPc = "recv" /\ rReply = "recv"
  /\ rIn = 0 /\ cacheRanges = {} /\ toSend = <<>>

(* Between its first packet and the FIN, the receiver acknowledges what it *)
(* has in its buffer.                                                      *)
NextAckInv ==
  /\ Fresh \/ nextACK = rIn \/ rReply = "closed"
  /\ rReply = "closed" =>
       /\ sCall = "close" /\ rPc \in {"reply", "done"}
       /\ \A m \in InFlight : m.flag # "SEQ"

(* A packet with data holds right bytes from the receiver's end() on;      *)
(* those before may be gone from the sender's buffer.                      *)
Harmless(m) ==
  /\ m.flag = "SYN" => m.seq = 0 /\ m.data = <<>>
  /\ m.flag = "FIN" => m.data = <<>> /\ sCall = "close"
  /\ m.flag = "SEQ" =>
       /\ m.seq + Len(m.data) <= sIn
       /\ m.seq <= rIn \/ m.seq + Len(m.data) <= rOut + N
       /\ \A p \in m.seq .. m.seq + Len(m.data) - 1 :
            p >= rIn => m.data[p - m.seq + 1] = p

PacketsInv == \A m \in InFlight : Harmless(m)

EventsInv ==
  \A e \in timevts :
    /\ e.flag = "SYN" => e.seq = 0 /\ e.len = 0
    /\ e.flag = "FIN" => e.len = 0 /\ sCall = "close"
    /\ e.flag = "SEQ" => e.len > 0 /\ e.seq + e.len <= nextSeq

(* The sender's window is never wider than the receiver's, and the ACKs on *)
(* their way only move it on, until the FIN.                               *)
WindowInv ==
  /\ nextSeq <= sOut + rwnd /\ sOut + rwnd <= rOut + N
  /\ sCall # "close" =>
       /\ \A i \in DOMAIN toSend :
            /\ sOut <= toSend[i].ack /\ toSend[i].ack <= rIn
            /\ sOut + rwnd <= toSend[i].ack + toSend[i].window
            /\ toSend[i].ack + toSend[i].window <= rOut + N
            /\ rIn = 0 => toSend[i].window = N
       /\ \A i, j \in DOMAIN toSend : i <= j =>
            /\ toSend[i].ack <= toSend[j].ack
            /\ toSend[i].ack + toSend[i].window <= toSend[j].ack + toSend[j].window

(* What is cached beyond end() is right, and lies in the buffer. *)
CachedWell(r) ==
  /\ r[2] <= sIn /\ r[2] <= rOut + N
  /\ \A p \in r[1] .. r[2] - 1 : p >= rIn => rRing[p % N] = p
  /\ rPc # "merge" => rIn <= r[1]

CacheInv == \A r \in cacheRanges : CachedWell(r)

(* No data follows a FIN, and no SYN follows data: each is taken when it   *)
(* can do no harm.                                                         *)
FinIsLast ==
  \A i, j \in DOMAIN toRecv :
    i < j /\ toRecv[i].flag = "FIN" => toRecv[j].flag # "SEQ"

NothingCached == \A r \in cacheRanges : r[2] <= r[1]

SynIsFirst ==
  \A j \in DOMAIN toRecv : toRecv[j].flag = "SYN" =>
    /\ rIn = 0 /\ NothingCached
    /\ \A i \in 1 .. j : toRecv[i].data = <<>>

(* A SYN can be sent again only while nextSeq is 0, and then no data has   *)
(* been sent; or a fast retransmission has sent some, and the manager is   *)
(* on its way to send it once more and count it.                           *)
Dry == rIn = 0 /\ NothingCached /\ \A m \in InFlight : m.data = <<>>

SynInv ==
  nextSeq = 0 =>
    \/ Dry
    \/ /\ sPc \in {"manager", "drain", "try"} /\ sState \in {"send", "closing"}
       /\ sOut = 0 /\ rwnd = N /\ sIn > 0

FifoInv ==
  /\ ControlInv /\ GreetingInv /\ CursorsInv
  /\ NextAckInv /\ PacketsInv /\ EventsInv /\ WindowInv
  /\ StreamIntact /\ CacheInv
  /\ FinIsLast /\ SynIsFirst /\ SynInv

-----------------------------------------------------------------------------
(* The number of the FIN stays nextSeq, and once it is sent the ACKs on    *)
(* their way are for the whole stream, or for the FIN.                     *)
EndInv ==
  /\ \A m \in InFlight : m.flag = "FIN" => m.seq = nextSeq
  /\ \A e \in timevts : e.flag = "FIN" => e.seq = nextSeq
  /\ sCall = "close" =>
       /\ \A i \in DOMAIN toSend : toSend[i].ack \in {sIn, nextSeq}
       /\ rPc = "reply" => nextACK \in {sIn, nextSeq}
  /\ sPc = "badAck" => sCall = "close" /\ nextSeq < sIn

=============================================================================
