-------------------------------- MODULE RSend --------------------------------
(***************************************************************************)
(* The sending endpoint, Sender/RSend.{h,cpp}.                             *)
(*                                                                         *)
(* Two threads share its state.  The application's thread constructs the   *)
(* object (connect), pushes bytes into the send buffer and finally asks    *)
(* for the close.  The manager thread, started when connect returns, loops *)
(* over trySendPkg and wait.  sPc is the place of whichever thread runs    *)
(* the protocol: the application's during connect, the manager's after.    *)
(*                                                                         *)
(*   start    before connect                                               *)
(*   timer    in recvACK, running handleTimer                              *)
(*   recv     in recvACK, blocked in recvfrom until a timeout expires      *)
(*   stuck    in recvACK, blocked in recvfrom with SO_RCVTIMEO = 0, that   *)
(*            is, until a datagram arrives                                 *)
(*   manager  at the top of the manager's loop                             *)
(*   drain    in the loop, the close requested, before buffer.empty()      *)
(*   try      in the loop of trySendPkg                                    *)
(*   done     the manager has ended                                        *)
(*   timedOut, badAck, trapped   the process has exited: too many          *)
(*            timeouts, an unexpected ACK, a division by zero              *)
(*                                                                         *)
(* sCall names the caller of recvACK: connect, wait or closeConnection.    *)
(*                                                                         *)
(* Time is not modelled: a pending timer event may be found expired each   *)
(* time handleTimer looks, whatever its deadline.                          *)
(***************************************************************************)
EXTENDS RingBuffer, CongestionControl, Network

CONSTANTS
  Total,            (* most bytes the application sends: bounds the stream  *)
  Chunks,           (* sizes of the pieces it hands to send()               *)
  MaxNTimeout,      (* maxNTimeout: 6 in the program                        *)
  InitialCStates    (* what the uninitialised cState may hold               *)

ASSUME SenderAssumption ==
  /\ Total \in Nat
  /\ Chunks \subseteq Nat \ {0}
  /\ N + Total + MSS < Word       \* no wrap-around: streams stay below 4GB
  /\ MaxNTimeout \in Nat
  /\ MSS <= N
  /\ InitialCStates \subseteq Uninitialised

VARIABLES
  sState, sPc, sCall,
  timevts,          (* the pending timer events                             *)
  nextSeq, rwnd,
  sIn, sOut, sRing, (* the send buffer: end(), begin() and its slots        *)
  cc                (* the congestion-control record                        *)

sVars == <<sState, sPc, sCall, timevts, nextSeq, rwnd, sIn, sOut, sRing, cc>>

(* The stream is made of distinguishable bytes: byte p is the number p.    *)
Stream(from, size) == [k \in 1 .. size |-> from + k - 1]

Exits == {"timedOut", "badAck", "trapped"}
Waiting == {"recv", "stuck"}

Packet(flag, seq, data) == [flag |-> flag, seq |-> seq, data |-> data]

Event(flag, seq, len) == [flag |-> flag, seq |-> seq, len |-> len, n |-> 0]

SenderInit ==
  /\ sState = "closed" /\ sPc = "start" /\ sCall = "connect"
  /\ timevts = {}
  /\ nextSeq = 0 /\ rwnd = 0
  /\ sIn = 0 /\ sOut = 0 /\ sRing = [i \in Slots |-> Junk]
  /\ \E s \in InitialCStates : cc = InitialCC(s)

(* sendSeq(seq, size): the packet it builds from the send buffer. *)
Segment(seq, size) ==
  Packet("SEQ", seq, Get(sRing, seq, GetSize(sIn, seq, size)))

(* The packet of an event that is sent again: sendSeq, sendSyn or sendFin. *)
Resent(e) == IF e.flag = "SEQ" THEN Segment(e.seq, e.len) ELSE Packet(e.flag, e.seq, <<>>)

-----------------------------------------------------------------------------
(* The application's thread.                                               *)

(* connect(): the first SYN and its timer, then recvACK. *)
Connect ==
  /\ sPc = "start"
  /\ sState' = "connecting"
  /\ toRecv' = Sent(toRecv, Packet("SYN", nextSeq, <<>>))
  /\ timevts' = timevts \cup {Event("SYN", nextSeq, 0)}
  /\ sPc' = "timer" /\ sCall' = "connect"
  /\ UNCHANGED <<nextSeq, rwnd, sIn, sOut, sRing, cc, toSend>>

(* One round of send()'s loop: what fits of a request of size bytes. A     *)
(* round that copies nothing is a spin and changes nothing.                *)
Push(size) ==
  /\ sState = "send" /\ sPc \notin Exits
  /\ LET partnum == SetSize(sIn, sOut, size)
     IN  /\ partnum > 0
         /\ sRing' = Set(sRing, sIn, Stream(sIn, partnum))
         /\ sIn' = sIn + partnum
  /\ UNCHANGED <<sState, sPc, sCall, timevts, nextSeq, rwnd, sOut, cc, toRecv, toSend>>

(* close(): the request; the join that follows ends when sPc = "done". *)
Close ==
  /\ sState = "send" /\ sPc \notin Exits
  /\ sState' = "closing"
  /\ UNCHANGED <<sPc, sCall, timevts, nextSeq, rwnd, sIn, sOut, sRing, cc, toRecv, toSend>>

-----------------------------------------------------------------------------
(* recvACK(): handleTimer, then recvfrom.                                  *)

\* Mutants of Relevant: the end of the event's bytes is forgotten; any empty
\* packet counts, whatever its number.
RelevantByStart(e) == e.seq > sOut \/ (e.seq = nextSeq /\ e.len = 0)
RelevantIfEmpty(e) == e.seq + e.len > sOut \/ e.len = 0

(* processTimeout(): whether the event still matters. *)
Relevant(e) == e.seq + e.len > sOut \/ (e.seq = nextSeq /\ e.len = 0)

(* handleTimer finds an expired event that needs no retransmission. *)
TimerDropped(e) ==
  /\ sPc = "timer" /\ ~Relevant(e)
  /\ timevts' = timevts \ {e}
  /\ UNCHANGED <<sState, sPc, sCall, nextSeq, rwnd, sIn, sOut, sRing, cc, toRecv, toSend>>

\* Mutant of TimerResent: the timer is set again with the same count.
TimerResentUncounted(e) ==
  /\ sPc = "timer" /\ Relevant(e) /\ e.n <= MaxNTimeout
  /\ toRecv' = Sent(toRecv, Resent(e))
  /\ cc' = AfterTimeout(cc)
  /\ UNCHANGED <<timevts, sState, sPc, sCall, nextSeq, rwnd, sIn, sOut, sRing, toSend>>

(* handleTimer finds an expired event: send again, back to slow start, and *)
(* the timer is set again with twice the timeout.                          *)
TimerResent(e) ==
  /\ sPc = "timer" /\ Relevant(e) /\ e.n <= MaxNTimeout
  /\ toRecv' = Sent(toRecv, Resent(e))
  /\ cc' = AfterTimeout(cc)
  /\ timevts' = (timevts \ {e}) \cup {[e EXCEPT !.n = @ + 1]}
  /\ UNCHANGED <<sState, sPc, sCall, nextSeq, rwnd, sIn, sOut, sRing, toSend>>

(* handleTimer finds an event expired once too often: exit. *)
TimerExhausted(e) ==
  /\ sPc = "timer" /\ Relevant(e) /\ e.n > MaxNTimeout
  /\ sPc' = "timedOut"
  /\ UNCHANGED <<sState, sCall, timevts, nextSeq, rwnd, sIn, sOut, sRing, cc, toRecv, toSend>>

(* handleTimer returns the time left to the next deadline in whole         *)
(* milliseconds; less than one is 0, with which recvfrom never times out.  *)
TimerReturns ==
  /\ sPc = "timer"
  /\ \/ sPc' = "recv"
     \/ timevts # {} /\ sPc' = "stuck"
  /\ UNCHANGED <<sState, sCall, timevts, nextSeq, rwnd, sIn, sOut, sRing, cc, toRecv, toSend>>

(* Where a call of recvACK that returned nullptr leads. *)
AfterNothing == IF sCall = "wait" THEN "manager" ELSE "timer"

(* recvfrom times out. *)
RecvTimeout ==
  /\ sPc = "recv"
  /\ sPc' = AfterNothing
  /\ UNCHANGED <<sState, sCall, timevts, nextSeq, rwnd, sIn, sOut, sRing, cc, toRecv, toSend>>

(* connect() gets its answer. *)
ConnectAck(ack) ==
  /\ sCall = "connect"
  /\ IF ack.ack = nextSeq
       THEN sState' = "send" /\ rwnd' = ack.window /\ sPc' = "manager"
       ELSE UNCHANGED <<sState, rwnd>> /\ sPc' = "badAck"
  /\ UNCHANGED <<sOut, cc, toRecv>>

(* wait() gets an ACK of new data: pop it, open the congestion window. *)
NewAck(ack) ==
  /\ sCall = "wait" /\ ack.ack > sOut
  /\ rwnd' = ack.window
  /\ sOut' = sOut + GetSize(sIn, sOut, ack.ack - sOut)
  /\ IF DividesByZero(cc)
       THEN sPc' = "trapped" /\ UNCHANGED cc
       ELSE sPc' = "manager" /\ cc' = AfterNewAck(cc)
  /\ UNCHANGED <<sState, toRecv>>

(* wait() gets an ACK of nothing new: count duplicates, and retransmit     *)
(* from lastAck when there are enough.                                     *)
OldAck(ack) ==
  /\ sCall = "wait" /\ ack.ack <= sOut
  /\ rwnd' = ack.window
  /\ cc' = AfterOldAck(cc, ack.ack)
  /\ toRecv' = IF EntersRecovery(cc, ack.ack)
                 THEN Sent(toRecv, Segment(ack.ack, MSS))
                 ELSE toRecv
  /\ sPc' = "manager"
  /\ UNCHANGED <<sState, sOut>>

(* closeConnection() gets its answer. *)
CloseAck(ack) ==
  /\ sCall = "close"
  /\ IF ack.ack = nextSeq
       THEN sState' = "closed" /\ sPc' = "done"
       ELSE UNCHANGED sState /\ sPc' = "badAck"
  /\ UNCHANGED <<rwnd, sOut, cc, toRecv>>

(* recvfrom returns datagram i, an ACK. *)
RecvAck(i) ==
  /\ sPc \in Waiting
  /\ toSend' = Rest(toSend, i)
  /\ \/ ConnectAck(toSend[i])
     \/ NewAck(toSend[i])
     \/ OldAck(toSend[i])
     \/ CloseAck(toSend[i])
  /\ UNCHANGED <<sCall, timevts, nextSeq, sIn, sRing>>

-----------------------------------------------------------------------------
(* The manager thread.                                                     *)

(* manager(): the switch on the state, which it loads once a round. *)
ManagerSends ==
  /\ sPc = "manager" /\ sState = "send"
  /\ sPc' = "try"
  /\ UNCHANGED <<sState, sCall, timevts, nextSeq, rwnd, sIn, sOut, sRing, cc, toRecv, toSend>>

(* manager() finds the close requested; it looks at the buffer next. *)
ManagerDrains ==
  /\ sPc = "manager" /\ sState = "closing"
  /\ sPc' = "drain"
  /\ UNCHANGED <<sState, sCall, timevts, nextSeq, rwnd, sIn, sOut, sRing, cc, toRecv, toSend>>

(* manager() finds bytes in the buffer and falls through to send. *)
ManagerGoesOn ==
  /\ sPc = "drain" /\ sIn # sOut
  /\ sPc' = "try"
  /\ UNCHANGED <<sState, sCall, timevts, nextSeq, rwnd, sIn, sOut, sRing, cc, toRecv, toSend>>

\* Mutant of ManagerCloses: the FIN does not wait for the buffer to drain.
ManagerClosesEarly ==
  /\ sPc = "drain"
  /\ toRecv' = Sent(toRecv, Packet("FIN", nextSeq, <<>>))
  /\ timevts' = timevts \cup {Event("FIN", nextSeq, 0)}
  /\ sPc' = "timer" /\ sCall' = "close"
  /\ UNCHANGED <<sState, nextSeq, rwnd, sIn, sOut, sRing, cc, toSend>>

(* manager() finds the buffer empty: closeConnection() sends the FIN and   *)
(* waits for its ACK.                                                      *)
ManagerCloses ==
  /\ sPc = "drain" /\ sIn = sOut
  /\ toRecv' = Sent(toRecv, Packet("FIN", nextSeq, <<>>))
  /\ timevts' = timevts \cup {Event("FIN", nextSeq, 0)}
  /\ sPc' = "timer" /\ sCall' = "close"
  /\ UNCHANGED <<sState, nextSeq, rwnd, sIn, sOut, sRing, cc, toSend>>

\* Mutants of SendSize: a byte of the packet is kept for a NUL; what is
\* already in flight does not count.
SendSizeShort ==
  AtMost(AtMost(MSS - 1, Minus(sOut + rwnd, nextSeq)), AtMost(Minus(sIn, nextSeq), rwnd))
SendSizeWholeWindow == AtMost(AtMost(MSS, Minus(sIn, nextSeq)), rwnd)

(* trySendPkg(): the size of the next packet. The congestion window is not *)
(* one of the bounds.                                                      *)
SendSize ==
  LET remainRwnd   == Minus(sOut + rwnd, nextSeq)
      remainCached == Minus(sIn, nextSeq)
  IN  AtMost(AtMost(MSS, remainRwnd), AtMost(remainCached, rwnd))

(* trySendPkg(): one packet and its timer. *)
TrySendPkg ==
  /\ sPc = "try" /\ SendSize > 0
  /\ toRecv' = Sent(toRecv, Segment(nextSeq, SendSize))
  /\ timevts' = timevts \cup {Event("SEQ", nextSeq, SendSize)}
  /\ nextSeq' = nextSeq + SendSize
  /\ UNCHANGED <<sState, sPc, sCall, rwnd, sIn, sOut, sRing, cc, toSend>>

(* trySendPkg() has nothing it may send: on to wait(). *)
TrySendDone ==
  /\ sPc = "try" /\ ~(SendSize > 0)
  /\ sPc' = "timer" /\ sCall' = "wait"
  /\ UNCHANGED <<sState, timevts, nextSeq, rwnd, sIn, sOut, sRing, cc, toRecv, toSend>>

-----------------------------------------------------------------------------
Application == Connect \/ (\E size \in Chunks : Push(AtMost(size, Total - sIn))) \/ Close

Timer == \/ \E e \in timevts : TimerDropped(e) \/ TimerResent(e) \/ TimerExhausted(e)
         \/ TimerReturns

Manager == \/ ManagerSends \/ ManagerDrains \/ ManagerGoesOn \/ ManagerCloses
           \/ TrySendPkg \/ TrySendDone

SenderNext ==
  Application \/ Timer \/ RecvTimeout \/ Manager \/ (\E i \in Deliverable(toSend) : RecvAck(i))

=============================================================================
