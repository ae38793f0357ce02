------------------------------ MODULE TimerQueue ------------------------------
(***************************************************************************)
(* The sender's timers in real time: the priority queue timevts of RSend,  *)
(* handleTimer, which samples the clock once and then works through the    *)
(* queue, and the recvfrom whose timeout it computes.  RSend has the same  *)
(* steps without time; here the protocol is reduced to numbered packets    *)
(* and cumulative ACKs, and what else processTimeout does (the packet it   *)
(* builds, the congestion record) is left to RSend.  A fast retransmission *)
(* (RSend.cpp:129) sets no timer and counts nowhere: all there is of it    *)
(* here is that an ACK may be for packets that are not numbered yet.       *)
(*                                                                         *)
(* Nothing absolute is kept.  A deadline is stored as the time left to it  *)
(* (rem, negative when it has passed), the sampled clock as the time since *)
(* (lag).  The clock is system_clock: it may be set back, at any time and  *)
(* any number of times.  It is not set forward, which is as if time passed *)
(* for the queue and not for recvfrom.                                     *)
(*                                                                         *)
(* mgr is where the manager's thread is: "busy" outside recvACK, "loop" in *)
(* handleTimer, "recv" in recvfrom with a timeout, "stuck" in recvfrom     *)
(* with the timeout 0, that is, without one, "gaveUp" after the exit.      *)
(***************************************************************************)
EXTENDS Integers

CONSTANTS
  Packets,       (* the packets sent: bounds the instance                   *)
  Ms,            (* units of the clock in a millisecond                     *)
  Rto,           (* getRTO(), in milliseconds: 10 in the program            *)
  IdleMs,        (* what handleTimer returns for an empty queue: 10         *)
  MaxNTimeout,   (* 6 in the program                                        *)
  MaxLate,       (* most units a run of handleTimer takes, and most by      *)
                 (* which lateness is told apart                            *)
  MaxBack        (* most units the clock is set back, in all                *)

ASSUME TimerAssumption ==
  /\ {Packets, Ms, Rto, IdleMs} \subseteq Nat \ {0}
  /\ {MaxNTimeout, MaxLate, MaxBack} \subseteq Nat
  \* arithmetic, for the provers:
  /\ 2^0 = 1 /\ 2^(MaxNTimeout + 1) \in Nat
  /\ \A n \in 0 .. MaxNTimeout + 1 :
       2^n \in 1 .. 2^(MaxNTimeout + 1) /\ 2^(n + 1) = 2 * 2^n

VARIABLES
  timevts,     (* the queue, of events [id, n, rem]                         *)
  mgr, lag,
  left,        (* in recvfrom: the time left to its timeout                 *)
  sent, acked, (* packets 1 .. sent are sent, 1 .. acked acknowledged       *)
  age,         (* how long ago each packet was sent first, while it is not  *)
               (* acknowledged and the clock calm                           *)
  back,        (* how far the clock has been set back                       *)
  calm         (* it was never set back while handleTimer was running       *)

vars == <<timevts, mgr, lag, left, sent, acked, age, back, calm>>

Init ==
  /\ timevts = {} /\ mgr = "busy" /\ lag = 0 /\ left = 0
  /\ sent = 0 /\ acked = 0
  /\ age = [p \in 1 .. Packets |-> 0] /\ back = 0 /\ calm = TRUE

\* Mutant of Armed: every timeout is as long as the first.
ArmedFlat(id, n) == [id |-> id, n |-> n, rem |-> Rto * Ms]

(* setTimer(): the deadline is from the clock as it is then. *)
Armed(id, n) == [id |-> id, n |-> n, rem |-> Rto * Ms * 2^n]

(* top(): std::greater makes it an event of the earliest deadline. *)
Top(queue) == {e \in queue : \A f \in queue : e.rem <= f.rem}

(* now > top().tp, for the now that was sampled. *)
Expired(e) == e.rem + lag < 0

(* Outside recvACK: a packet and its timer. *)
Send ==
  /\ mgr = "busy" /\ sent < Packets
  /\ sent' = sent + 1
  /\ timevts' = timevts \cup {Armed(sent + 1, 0)}
  /\ UNCHANGED <<mgr, lag, left, acked, age, back, calm>>

(* recvACK() calls handleTimer(). *)
Enter ==
  /\ mgr = "busy"
  /\ IF timevts = {} THEN mgr' = "recv" /\ left' = IdleMs * Ms
                     ELSE mgr' = "loop" /\ left' = 0
  /\ lag' = 0
  /\ UNCHANGED <<timevts, sent, acked, age, back, calm>>

(* What a round of handleTimer's loop leaves: the next round, or the       *)
(* return for an empty queue.                                              *)
NextRound ==
  IF timevts' = {} THEN mgr' = "recv" /\ left' = IdleMs * Ms /\ lag' = 0
                   ELSE UNCHANGED <<mgr, left, lag>>

\* Mutant of Resend: the event that is sent again is not popped.
ResendKept(e) ==
  /\ mgr = "loop" /\ e \in Top(timevts) /\ Expired(e)
  /\ e.id > acked /\ e.n <= MaxNTimeout
  /\ timevts' = timevts \cup {Armed(e.id, e.n + 1)}
  /\ NextRound
  /\ UNCHANGED <<sent, acked, age, back, calm>>

(* processTimeout() sends the packet again and sets its timer; only then   *)
(* does handleTimer pop the top: still e, unless the new event is earlier. *)
Resend(e) ==
  /\ mgr = "loop" /\ e \in Top(timevts) /\ Expired(e)
  /\ e.id > acked /\ e.n <= MaxNTimeout
  /\ LET next == Armed(e.id, e.n + 1)
     IN  timevts' = IF next.rem < e.rem THEN timevts ELSE (timevts \ {e}) \cup {next}
  /\ NextRound
  /\ UNCHANGED <<sent, acked, age, back, calm>>

\* Mutant of Drop: the loop goes on before the pop.
DropKept(e) ==
  /\ mgr = "loop" /\ e \in Top(timevts) /\ Expired(e)
  /\ e.id <= acked
  /\ UNCHANGED vars

(* processTimeout() finds the packet acknowledged. *)
Drop(e) ==
  /\ mgr = "loop" /\ e \in Top(timevts) /\ Expired(e)
  /\ e.id <= acked
  /\ timevts' = timevts \ {e}
  /\ NextRound
  /\ UNCHANGED <<sent, acked, age, back, calm>>

GiveUp(e) ==
  /\ mgr = "loop" /\ e \in Top(timevts) /\ Expired(e)
  /\ e.id > acked /\ e.n > MaxNTimeout
  /\ mgr' = "gaveUp" /\ lag' = 0
  /\ UNCHANGED <<timevts, left, sent, acked, age, back, calm>>

\* Mutant of Return: the timeout is rounded up, and 0 becomes 1.
ReturnRoundedUp ==
  /\ mgr = "loop"
  /\ \E e \in Top(timevts) :
       /\ ~Expired(e)
       /\ left' = ((e.rem + lag) \div Ms + 1) * Ms
       /\ mgr' = "recv"
  /\ lag' = 0
  /\ UNCHANGED <<timevts, sent, acked, age, back, calm>>

(* handleTimer() returns the time from now to the next deadline, cast to   *)
(* whole milliseconds.  SO_RCVTIMEO takes 0 for no timeout.                *)
Return ==
  /\ mgr = "loop"
  /\ \E e \in Top(timevts) :
       /\ ~Expired(e)
       /\ left' = ((e.rem + lag) \div Ms) * Ms
       /\ mgr' = IF left' = 0 THEN "stuck" ELSE "recv"
  /\ lag' = 0
  /\ UNCHANGED <<timevts, sent, acked, age, back, calm>>

(* recvfrom times out. *)
RecvTimeout ==
  /\ mgr = "recv" /\ left = 0
  /\ mgr' = "busy"
  /\ UNCHANGED <<timevts, lag, left, sent, acked, age, back, calm>>

(* recvfrom returns an ACK, new or old, for packets up to ack. *)
RecvAck(ack) ==
  /\ mgr \in {"recv", "stuck"}
  /\ acked' = IF ack > acked THEN ack ELSE acked
  /\ age' = [p \in 1 .. Packets |-> IF p <= acked' THEN 0 ELSE age[p]]
  /\ mgr' = "busy" /\ left' = 0
  /\ UNCHANGED <<timevts, lag, sent, back, calm>>

(* A unit later, t units are left; lateness is told apart up to a bound. *)
Latest == 2 * MaxLate + 1
Later(t) == IF t > - Latest THEN t - 1 ELSE t

(* The timeouts that a packet gets, the last one with the count n: the     *)
(* first Rto, each of the others twice the one before.                     *)
Timeouts(n) == Rto * Ms * (2^(n + 1) - 1)

(* Ages are told apart up to a bound. *)
Older(t) == IF t < Timeouts(MaxNTimeout + 1) + Latest THEN t + 1 ELSE t

(* A unit of time passes. *)
Tick ==
  /\ mgr # "gaveUp" /\ (mgr = "loop" => lag < MaxLate)
  /\ timevts' = {[e EXCEPT !.rem = Later(@)] : e \in timevts}
  /\ lag' = IF mgr = "loop" THEN lag + 1 ELSE lag
  /\ left' = IF left > 0 THEN left - 1 ELSE 0
  /\ age' = [p \in 1 .. Packets |-> IF calm /\ p \in acked + 1 .. sent THEN Older(age[p]) ELSE 0]
  /\ UNCHANGED <<mgr, sent, acked, back, calm>>

(* The clock is set back: deadlines and the sampled now move away from it. *)
SetBack(d) ==
  /\ mgr # "gaveUp" /\ back + d <= MaxBack
  /\ timevts' = {[e EXCEPT !.rem = @ + d] : e \in timevts}
  /\ lag' = IF mgr = "loop" THEN lag - d ELSE lag
  /\ back' = back + d
  /\ calm' = (calm /\ mgr # "loop")
  /\ age' = [p \in 1 .. Packets |-> IF calm' THEN age[p] ELSE 0]
  /\ UNCHANGED <<mgr, left, sent, acked>>

Thread ==
  \/ Enter \/ Return \/ RecvTimeout
  \/ \E e \in timevts : Resend(e) \/ Drop(e) \/ GiveUp(e)

Next ==
  \/ Send \/ Thread \/ Tick
  \/ \E ack \in 0 .. Packets : RecvAck(ack)
  \/ \E d \in 1 .. MaxBack : SetBack(d)

Spec == Init /\ [][Next]_vars

(* The thread runs and time passes. *)
FairSpec == Spec /\ WF_vars(Thread) /\ WF_vars(Tick)

-----------------------------------------------------------------------------
(* Every packet that is not acknowledged has exactly one event pending,    *)
(* though processTimeout puts the next one in before handleTimer takes one *)
(* off, and takes off whatever is on top.                                  *)
OneTimerEach ==
  \A p \in acked + 1 .. sent : \E e \in timevts :
    e.id = p /\ \A f \in timevts : f.id = p => f = e

(* The process gives up on a packet (RSend.cpp:221) only when all of its   *)
(* timeouts, doubled each time, have passed since it was sent first: no    *)
(* order of packets, ACKs and expiries, no stale sample of the clock in    *)
(* handleTimer and no clock set back outside it cuts a timeout short.      *)
Patient ==
  mgr = "gaveUp" /\ calm =>
    \E p \in acked + 1 .. sent : age[p] > Timeouts(MaxNTimeout + 1)

(* A thread in recvfrom wakes before the next deadline, or as late after   *)
(* it as handleTimer took since it sampled the clock.                      *)
WakesInTime ==
  mgr = "recv" /\ left > 0 => \A e \in timevts : left <= e.rem + MaxLate

Due(p) == \E e \in timevts : e.id = p /\ e.rem < 0

(* A deadline that passes is noticed, unless the thread is blocked for     *)
(* ever: recvfrom's timeouts and the order of the queue hold none back.    *)
DeadlinesAreNoticed ==
  \A p \in 1 .. Packets : Due(p) ~> ~Due(p) \/ mgr \in {"stuck", "gaveUp"}

=============================================================================
