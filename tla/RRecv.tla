-------------------------------- MODULE RRecv --------------------------------
(***************************************************************************)
(* The receiving endpoint, Recipient/RRecv.{h,cpp}, and the loop of        *)
(* Recipient.cpp that reads from it.                                       *)
(*                                                                         *)
(* The manager thread (rPc) takes one packet at a time from the socket:    *)
(*                                                                         *)
(*   recv     blocked in recvPkg (it retries for ever on a timeout)        *)
(*   merge    in the last loop of deliverData, merging cached ranges       *)
(*   reply    the packet is handled: sendAck, then setState(rReply)        *)
(*   done     the manager has ended                                        *)
(*                                                                         *)
(* The application's thread (rUser) is in recv(), about to test the state  *)
(* ("check") or to pop from the buffer ("pop"), or has got the zero bytes  *)
(* that end its loop and has closed the receiver ("done").                 *)
(*                                                                         *)
(* cacheRanges, a list sorted by the ranges' first bytes, is modelled as   *)
(* the set of its ranges: the code only looks at the front, and merging a  *)
(* second copy of a range changes nothing.                                 *)
(***************************************************************************)
EXTENDS RingBuffer, Network

CONSTANTS
  ReadSize,         (* what the application asks of recv(): more than N     *)
  InitialTargets    (* what the uninitialised targetPort may hold           *)

ASSUME ReceiverAssumption ==
  /\ ReadSize \in Nat \ {0}
  /\ InitialTargets \subseteq {"zero", "garbage"}

VARIABLES
  rState, rPc, rReply,
  target,             (* targetPort: zero, the sender's, or garbage         *)
  rIn, rOut, rRing,   (* the receive buffer: end(), begin() and its slots   *)
  cacheRanges,        (* ranges <<first, second>> received out of order     *)
  nextACK,
  rUser,
  delivered           (* every byte recv() has returned, in order           *)

rVars == <<rState, rPc, rReply, target, rIn, rOut, rRing, cacheRanges, nextACK,
           rUser, delivered>>

ReceiverInit ==
  /\ rState = "listening" /\ rPc = "recv" /\ rReply = "recv"
  /\ target \in InitialTargets
  /\ rIn = 0 /\ rOut = 0 /\ rRing = [i \in Slots |-> Junk]
  /\ cacheRanges = {}
  /\ nextACK = Word - 1
  /\ rUser = "check" /\ delivered = <<>>

Ack(ack, window) == [ack |-> ack, window |-> window]

(* Whether r is the front of the sorted list of ranges. *)
IsFront(r) == r \in cacheRanges /\ \A q \in cacheRanges : r[1] <= q[1]

(* How much of a packet's new bytes lies before the first cached range. *)
BeforeCache(wSize) ==
  IF cacheRanges = {} THEN wSize
  ELSE LET front == CHOOSE r \in cacheRanges : IsFront(r)
       IN  AtMost(wSize, Minus(front[1], nextACK))

-----------------------------------------------------------------------------
(* The manager thread.                                                     *)

(* recvPkg(): the first packet ever sets the target when targetPort is 0;  *)
(* packets of anyone but the target are dropped.                           *)
Accepts == target # "garbage"

DropForeign ==
  /\ rPc = "recv" /\ ~Accepts
  /\ \E i \in Deliverable(toRecv) : toRecv' = Rest(toRecv, i)
  /\ UNCHANGED <<rVars, toSend>>

ReceiveSyn(p) ==
  /\ p.flag = "SYN"
  /\ nextACK' = p.seq
  /\ rPc' = "reply" /\ rReply' = "recv"
  /\ UNCHANGED <<rIn, rRing, cacheRanges>>

(* deliverData(), nothing new in the packet. *)
ReceiveOld(p) ==
  /\ p.flag = "SEQ" /\ p.seq <= nextACK /\ p.seq + Len(p.data) <= nextACK
  /\ rPc' = "reply" /\ rReply' = "recv"
  /\ UNCHANGED <<nextACK, rIn, rRing, cacheRanges>>

\* Mutant of ReceiveNext: the bytes already delivered are pushed again.
ReceiveNextWhole(p) ==
  /\ p.flag = "SEQ" /\ p.seq <= nextACK /\ p.seq + Len(p.data) > nextACK
  /\ LET pushnum == SetSize(rIn, rOut, BeforeCache(p.seq + Len(p.data) - nextACK))
     IN  /\ rRing' = Set(rRing, rIn, SubSeq(p.data, 1, pushnum))
         /\ rIn' = rIn + pushnum
         /\ nextACK' = nextACK + pushnum
  /\ rPc' = "merge" /\ rReply' = "recv"
  /\ UNCHANGED cacheRanges

(* deliverData(), the packet holds the next bytes: push them. *)
ReceiveNext(p) ==
  /\ p.flag = "SEQ" /\ p.seq <= nextACK /\ p.seq + Len(p.data) > nextACK
  /\ LET dataOffset == nextACK - p.seq
         wSize      == BeforeCache(p.seq + Len(p.data) - nextACK)
         pushnum    == SetSize(rIn, rOut, wSize)
     IN  /\ rRing' = Set(rRing, rIn, SubSeq(p.data, dataOffset + 1, dataOffset + pushnum))
         /\ rIn' = rIn + pushnum
         /\ nextACK' = nextACK + pushnum
  /\ rPc' = "merge" /\ rReply' = "recv"
  /\ UNCHANGED cacheRanges

\* Mutants of ReceiveAhead: the packet is put at the end of the buffer
\* instead of its place; the range is recorded one byte too long.
ReceiveAheadAtEnd(p) ==
  /\ p.flag = "SEQ" /\ p.seq > nextACK
  /\ LET setnum == SetSize(rIn, rOut, Len(p.data))
     IN  /\ rRing' = Set(rRing, rIn, SubSeq(p.data, 1, setnum))
         /\ cacheRanges' = cacheRanges \cup {<<p.seq, p.seq + setnum>>}
  /\ rPc' = "reply" /\ rReply' = "recv"
  /\ UNCHANGED <<nextACK, rIn>>
ReceiveAheadTooLong(p) ==
  /\ p.flag = "SEQ" /\ p.seq > nextACK
  /\ LET begin  == rIn + p.seq - nextACK
         setnum == SetSize(begin, rOut, Len(p.data))
     IN  /\ rRing' = Set(rRing, begin, SubSeq(p.data, 1, setnum))
         /\ cacheRanges' = cacheRanges \cup {<<p.seq, p.seq + setnum + 1>>}
  /\ rPc' = "reply" /\ rReply' = "recv"
  /\ UNCHANGED <<nextACK, rIn>>

(* deliverData(), the packet lies ahead: put it in its place in the buffer *)
(* and remember the range.                                                 *)
ReceiveAhead(p) ==
  /\ p.flag = "SEQ" /\ p.seq > nextACK
  /\ LET begin  == rIn + p.seq - nextACK
         setnum == SetSize(begin, rOut, Len(p.data))
     IN  /\ rRing' = Set(rRing, begin, SubSeq(p.data, 1, setnum))
         /\ cacheRanges' = cacheRanges \cup {<<p.seq, p.seq + setnum>>}
  /\ rPc' = "reply" /\ rReply' = "recv"
  /\ UNCHANGED <<nextACK, rIn>>

ReceiveFin(p) ==
  /\ p.flag = "FIN"
  /\ nextACK' = p.seq + Len(p.data)
  /\ rPc' = "reply" /\ rReply' = "closed"
  /\ UNCHANGED <<rIn, rRing, cacheRanges>>

(* manager(): recvPkg() returns datagram i and it is handled. *)
Receive(i) ==
  /\ rPc = "recv" /\ Accepts
  /\ target' = "sender"
  /\ toRecv' = Rest(toRecv, i)
  /\ \/ ReceiveSyn(toRecv[i])
     \/ ReceiveOld(toRecv[i])
     \/ ReceiveNext(toRecv[i])
     \/ ReceiveAhead(toRecv[i])
     \/ ReceiveFin(toRecv[i])
  /\ UNCHANGED <<rState, rOut, rUser, delivered, toSend>>

(* Whether the merge loop takes another round. *)
Merges(r) == IsFront(r) /\ nextACK >= r[1]

(* One round of the merge loop: the front range is pushed, as its bytes    *)
(* are in place already, and dropped from the list.                        *)
Merge(r) ==
  /\ rPc = "merge" /\ Merges(r)
  /\ IF nextACK < r[2]
       THEN /\ rIn' = rIn + SetSize(rIn, rOut, r[2] - nextACK)
            /\ nextACK' = r[2]
       ELSE UNCHANGED <<rIn, nextACK>>
  /\ cacheRanges' = cacheRanges \ {r}
  /\ UNCHANGED <<rState, rPc, rReply, target, rOut, rRing, rUser, delivered, toRecv, toSend>>

MergeDone ==
  /\ rPc = "merge"
  /\ \A r \in cacheRanges : ~Merges(r)
  /\ rPc' = "reply"
  /\ UNCHANGED <<rState, rReply, target, rIn, rOut, rRing, cacheRanges, nextACK,
                 rUser, delivered, toRecv, toSend>>

\* Mutant of Reply: the FIN is answered, but the state stays.
ReplyKeepsState ==
  /\ rPc = "reply"
  /\ toSend' = Sent(toSend, Ack(nextACK, FreeSize(rIn, rOut)))
  /\ rPc' = IF rReply = "closed" THEN "done" ELSE "recv"
  /\ UNCHANGED <<rState, rReply, target, rIn, rOut, rRing, cacheRanges, nextACK, rUser,
                 delivered, toRecv>>

(* sendAck() samples the window as it sends; then setState(). *)
Reply ==
  /\ rPc = "reply"
  /\ toSend' = Sent(toSend, Ack(nextACK, FreeSize(rIn, rOut)))
  /\ rState' = rReply
  /\ rPc' = IF rReply = "closed" THEN "done" ELSE "recv"
  /\ UNCHANGED <<rReply, target, rIn, rOut, rRing, cacheRanges, nextACK, rUser,
                 delivered, toRecv>>

-----------------------------------------------------------------------------
(* The application's thread: recv() over and over.                         *)

(* The test of recv()'s loop. A closed receiver makes recv() return 0,     *)
(* which ends the application's loop; it then calls close().               *)
UserChecks ==
  /\ rUser = "check"
  /\ rUser' = IF rState = "closed" THEN "done" ELSE "pop"
  /\ UNCHANGED <<rState, rPc, rReply, target, rIn, rOut, rRing, cacheRanges, nextACK,
                 delivered, toRecv, toSend>>

UserPops ==
  /\ rUser = "pop"
  /\ LET num == GetSize(rIn, rOut, ReadSize)
     IN  /\ delivered' = delivered \o Get(rRing, rOut, num)
         /\ rOut' = rOut + num
  /\ rUser' = "check"
  /\ UNCHANGED <<rState, rPc, rReply, target, rIn, rRing, cacheRanges, nextACK,
                 toRecv, toSend>>

-----------------------------------------------------------------------------
Receiver == \/ DropForeign
            \/ \E i \in Deliverable(toRecv) : Receive(i)
            \/ \E r \in cacheRanges : Merge(r)
            \/ MergeDone
            \/ Reply

User == UserChecks \/ UserPops

ReceiverNext == Receiver \/ User

=============================================================================
