--------------------------- MODULE TimerQueueProofs ---------------------------
(***************************************************************************)
(* The queue of timers keeps one event per packet, its thread wakes in     *)
(* time, and the process gives up on no packet too early, for any number   *)
(* of packets, any timeouts and any clock that may be set back.            *)
(***************************************************************************)
EXTENDS TimerQueue, TLAPS

Events == [id : 1 .. Packets, n : Nat, rem : Int]

TypeOK ==
  /\ timevts \subseteq Events
  /\ sent \in 0 .. Packets /\ acked \in 0 .. Packets
  /\ lag \in Int /\ left \in Int
  /\ mgr = "loop" => lag <= MaxLate

(* No packet has two events. *)
OnePerPacket == \A e, f \in timevts : e.id = f.id => e = f

(* Every packet that is not acknowledged has one. *)
Covered ==
  /\ \A e \in timevts : e.id <= sent
  /\ \A p \in acked + 1 .. sent : \E e \in timevts : e.id = p

Inductive == TypeOK /\ OnePerPacket /\ Covered /\ WakesInTime

LEMMA Constants ==
  /\ Packets \in Nat /\ Ms \in Nat /\ Ms > 0 /\ Rto \in Nat /\ IdleMs \in Nat
  /\ MaxNTimeout \in Nat /\ MaxLate \in Nat /\ MaxBack \in Nat
  BY TimerAssumption

LEMMA ArmedType ==
  ASSUME NEW id \in 1 .. Packets, NEW n \in Nat
  PROVE  Armed(id, n) \in Events /\ Armed(id, n).id = id
<1>1. 2^n \in Int
  OBVIOUS
<1>2. Rto * Ms \in Int
  BY Constants
<1>3. Rto * Ms * 2^n \in Int
  BY <1>1, <1>2
<1> QED BY <1>3 DEF Armed, Events

(* Rounding down to whole milliseconds never adds to the time. *)
LEMMA RoundedDown ==
  ASSUME NEW x \in Int
  PROVE  (x \div Ms) * Ms \in Int /\ (x \div Ms) * Ms <= x
  BY Constants

LEMMA InitInductive == Init => Inductive
  BY Constants DEF Init, Inductive, TypeOK, OnePerPacket, Covered, WakesInTime

-----------------------------------------------------------------------------
(* A step that replaces an event of a packet that is not acknowledged.     *)
LEMMA ResendInductive ==
  ASSUME Inductive, NEW e \in timevts, Resend(e)
  PROVE  Inductive'
<1> DEFINE next == Armed(e.id, e.n + 1)
<1>1. /\ e \in Events /\ mgr = "loop" /\ e.id > acked
      /\ UNCHANGED <<sent, acked>>
      /\ timevts' = timevts \/ timevts' = (timevts \ {e}) \cup {next}
  BY DEF Inductive, TypeOK, Resend
<1>2. next \in Events /\ next.id = e.id
  BY <1>1, ArmedType DEF Events
<1> HIDE DEF next
<1>3. TypeOK'
  BY Constants, <1>1, <1>2 DEF Inductive, TypeOK, Resend, NextRound
<1>4. OnePerPacket'
  BY <1>1, <1>2 DEF Inductive, OnePerPacket
<1>5. Covered'
  <2>1. \A f \in timevts' : f.id <= sent'
    BY <1>1, <1>2 DEF Inductive, Covered
  <2>2. ASSUME NEW p \in acked' + 1 .. sent'
        PROVE  \E f \in timevts' : f.id = p
    <3>1. PICK f \in timevts : f.id = p
      BY <1>1 DEF Inductive, Covered
    <3>2. f \in timevts' \/ (f = e /\ next \in timevts')
      BY <1>1
    <3> QED BY <1>2, <3>1, <3>2
  <2> QED BY <2>1, <2>2 DEF Covered
<1>6. WakesInTime'
  BY <1>1 DEF Resend, NextRound, WakesInTime
<1> QED BY <1>3, <1>4, <1>5, <1>6 DEF Inductive

(* The other steps of the thread. *)
LEMMA ThreadInductive ==
  ASSUME Inductive, Thread
  PROVE  Inductive'
<1>1. CASE Enter
  BY Constants, <1>1
  DEF Enter, Inductive, TypeOK, OnePerPacket, Covered, WakesInTime
<1>2. CASE Return
  <2>1. PICK e \in Top(timevts) :
          /\ left' = ((e.rem + lag) \div Ms) * Ms
          /\ mgr' = IF left' = 0 THEN "stuck" ELSE "recv"
    BY <1>2 DEF Return
  <2>2. /\ e \in Events /\ lag \in Int /\ lag <= MaxLate /\ timevts' = timevts
        /\ \A f \in timevts : e.rem <= f.rem /\ f.rem \in Int
        /\ lag' = 0 /\ UNCHANGED <<sent, acked>>
    BY <1>2 DEF Top, Return, Inductive, TypeOK, Events
  <2>3. left' \in Int /\ left' <= e.rem + lag
    BY <2>1, <2>2, RoundedDown DEF Events
  <2>4. \A f \in timevts' : left' <= f.rem + MaxLate
    BY Constants, <2>2, <2>3 DEF Events
  <2>5. TypeOK'
    BY Constants, <2>1, <2>2, <2>3 DEF Inductive, TypeOK
  <2> QED
    BY <2>2, <2>4, <2>5 DEF Inductive, OnePerPacket, Covered, WakesInTime
<1>3. CASE RecvTimeout
  BY <1>3 DEF RecvTimeout, Inductive, TypeOK, OnePerPacket, Covered, WakesInTime
<1>4. ASSUME NEW e \in timevts, Drop(e) PROVE Inductive'
  <2>1. /\ timevts' = timevts \ {e} /\ e.id <= acked /\ mgr = "loop"
        /\ UNCHANGED <<sent, acked>>
    BY <1>4 DEF Drop
  <2>2. TypeOK'
    BY Constants, <1>4, <2>1 DEF Drop, NextRound, Inductive, TypeOK
  <2>3. OnePerPacket'
    BY <2>1 DEF Inductive, OnePerPacket
  <2>4. Covered'
    BY <2>1, Constants DEF Inductive, TypeOK, Covered
  <2>5. WakesInTime'
    BY <1>4, <2>1 DEF Drop, NextRound, WakesInTime
  <2> QED BY <2>2, <2>3, <2>4, <2>5 DEF Inductive
<1>5. ASSUME NEW e \in timevts, GiveUp(e) PROVE Inductive'
  BY <1>5 DEF GiveUp, Inductive, TypeOK, OnePerPacket, Covered, WakesInTime
<1> QED
  BY <1>1, <1>2, <1>3, <1>4, <1>5, ResendInductive DEF Thread

(* The clock's steps move the deadlines and nothing else of the events.    *)
LEMMA MovedEvents ==
  ASSUME Inductive, NEW moved \in [timevts -> Events],
         \A e \in timevts : moved[e].id = e.id,
         timevts' = {moved[e] : e \in timevts},
         UNCHANGED <<sent, acked>>
  PROVE  timevts' \subseteq Events /\ OnePerPacket' /\ Covered'
  BY DEF Inductive, TypeOK, OnePerPacket, Covered

LEMMA TickInductive ==
  ASSUME Inductive, Tick
  PROVE  Inductive'
<1> DEFINE moved == [e \in timevts |-> [e EXCEPT !.rem = Later(@)]]
<1>1. \A e \in timevts :
        /\ moved[e] \in Events /\ moved[e].id = e.id
        /\ moved[e].rem = Later(e.rem) /\ e.rem \in Int
  BY Constants DEF Inductive, TypeOK, Events, Later
<1>2. timevts' = {moved[e] : e \in timevts} /\ UNCHANGED <<sent, acked, mgr>>
  BY DEF Tick
<1>3. moved \in [timevts -> Events]
  BY <1>1
<1> HIDE DEF moved
<1>4. timevts' \subseteq Events /\ OnePerPacket' /\ Covered'
  BY <1>1, <1>2, <1>3, MovedEvents
<1>5. TypeOK'
  BY Constants, <1>4 DEF Inductive, TypeOK, Tick
<1>6. WakesInTime'
  <2>1. SUFFICES ASSUME mgr' = "recv", left' > 0, NEW f \in timevts'
                 PROVE  left' <= f.rem + MaxLate
    BY DEF WakesInTime
  <2>2. PICK e \in timevts : f = moved[e]
    BY <1>2
  <2>3. /\ left > 0 /\ left' = left - 1 /\ left \in Int
        /\ left <= e.rem + MaxLate
    BY <1>2, <2>1 DEF Tick, Inductive, TypeOK, WakesInTime
  <2> QED BY Constants, <1>1, <2>2, <2>3 DEF Later
<1> QED BY <1>4, <1>5, <1>6 DEF Inductive

LEMMA SetBackInductive ==
  ASSUME Inductive, NEW d \in 1 .. MaxBack, SetBack(d)
  PROVE  Inductive'
<1> DEFINE moved == [e \in timevts |-> [e EXCEPT !.rem = @ + d]]
<1>1. \A e \in timevts :
        /\ moved[e] \in Events /\ moved[e].id = e.id
        /\ moved[e].rem = e.rem + d /\ e.rem \in Int
  BY Constants DEF Inductive, TypeOK, Events
<1>2. /\ timevts' = {moved[e] : e \in timevts}
      /\ UNCHANGED <<sent, acked, mgr, left>>
  BY DEF SetBack
<1>3. moved \in [timevts -> Events]
  BY <1>1
<1> HIDE DEF moved
<1>4. timevts' \subseteq Events /\ OnePerPacket' /\ Covered'
  BY <1>1, <1>2, <1>3, MovedEvents
<1>5. TypeOK'
  BY Constants, <1>2, <1>4 DEF Inductive, TypeOK, SetBack
<1>6. WakesInTime'
  <2>1. SUFFICES ASSUME mgr' = "recv", left' > 0, NEW f \in timevts'
                 PROVE  left' <= f.rem + MaxLate
    BY DEF WakesInTime
  <2>2. PICK e \in timevts : f = moved[e]
    BY <1>2
  <2>3. left' = left /\ left \in Int /\ left <= e.rem + MaxLate
    BY <1>2, <2>1 DEF Inductive, TypeOK, WakesInTime
  <2> QED BY Constants, <1>1, <2>2, <2>3
<1> QED BY <1>4, <1>5, <1>6 DEF Inductive

-----------------------------------------------------------------------------
LEMMA SendInductive ==
  ASSUME Inductive, Send
  PROVE  Inductive'
<1> DEFINE new == Armed(sent + 1, 0)
<1>1. /\ mgr = "busy" /\ sent + 1 \in 1 .. Packets /\ sent' = sent + 1
      /\ timevts' = timevts \cup {new}
      /\ UNCHANGED <<mgr, lag, left, acked>>
  BY Constants DEF Send, Inductive, TypeOK
<1>2. new \in Events /\ new.id = sent + 1
  BY <1>1, ArmedType
<1> HIDE DEF new
<1>3. TypeOK'
  BY Constants, <1>1, <1>2 DEF Inductive, TypeOK
<1>4. \A e \in timevts : e.id <= sent /\ sent \in Nat /\ e.id \in Nat
  BY DEF Inductive, TypeOK, Covered, Events
<1>5. OnePerPacket'
  BY <1>1, <1>2, <1>4 DEF Inductive, OnePerPacket
<1>6. Covered'
  BY <1>1, <1>2, <1>4 DEF Inductive, TypeOK, Covered
<1>7. WakesInTime'
  BY <1>1 DEF WakesInTime
<1> QED BY <1>3, <1>5, <1>6, <1>7 DEF Inductive

(* What is not acknowledged after an ACK was not before.                   *)
LEMMA FewerLeft ==
  ASSUME NEW a \in Nat, NEW b \in Nat, NEW c \in Nat, a <= b
  PROVE  \A p \in b + 1 .. c : p \in a + 1 .. c
  OBVIOUS

LEMMA RecvAckInductive ==
  ASSUME Inductive, NEW ack \in 0 .. Packets, RecvAck(ack)
  PROVE  Inductive'
<1>1. /\ acked' \in acked .. Packets /\ mgr' = "busy" /\ left' = 0
      /\ UNCHANGED <<timevts, lag, sent>>
  BY Constants DEF RecvAck, Inductive, TypeOK
<1>2. TypeOK'
  BY Constants, <1>1 DEF Inductive, TypeOK
<1>3. OnePerPacket'
  BY <1>1 DEF Inductive, OnePerPacket
<1>4. Covered'
  <2>1. \A p \in acked' + 1 .. sent' : p \in acked + 1 .. sent
    <3>1. /\ sent \in Nat /\ acked \in Nat /\ acked' \in Nat
          /\ acked <= acked' /\ sent' = sent
      BY Constants, <1>1 DEF Inductive, TypeOK
    <3> QED BY <3>1, FewerLeft
  <2> QED BY <1>1, <2>1 DEF Inductive, Covered
<1> QED BY <1>1, <1>2, <1>3, <1>4 DEF Inductive, WakesInTime

LEMMA StepInductive == Inductive /\ [Next]_vars => Inductive'
<1>1. ASSUME Inductive, UNCHANGED vars PROVE Inductive'
  BY <1>1 DEF vars, Inductive, TypeOK, OnePerPacket, Covered, WakesInTime
<1> QED
  BY <1>1, SendInductive, ThreadInductive, TickInductive, RecvAckInductive,
     SetBackInductive DEF Next

LEMMA AlwaysInductive == Spec => []Inductive
  BY InitInductive, StepInductive, PTL DEF Spec

(* handleTimer's push before its pop leaves exactly one event for every    *)
(* packet that is not acknowledged, for any clock: RSend.cpp:209-214.      *)
THEOREM OneTimerAlways == Spec => []OneTimerEach
<1>1. Inductive => OneTimerEach
  <2> SUFFICES ASSUME Inductive, NEW p \in acked + 1 .. sent
               PROVE  \E e \in timevts : e.id = p /\ \A f \in timevts : f.id = p => f = e
    BY DEF OneTimerEach
  <2>1. PICK e \in timevts : e.id = p
    BY DEF Inductive, Covered
  <2> QED BY <2>1 DEF Inductive, OnePerPacket
<1> QED BY <1>1, AlwaysInductive, PTL

(* The timeout handed to recvfrom ends before the next deadline, or as     *)
(* late after it as handleTimer's sample of the clock was old.             *)
THEOREM AlwaysWakesInTime == Spec => []WakesInTime
<1>1. Inductive => WakesInTime
  BY DEF Inductive
<1> QED BY <1>1, AlwaysInductive, PTL

-----------------------------------------------------------------------------
(* While the clock is calm, a packet that is not acknowledged has been     *)
(* waiting for all its timeouts but what is left of the last one.          *)
Waited ==
  \A e \in timevts :
    /\ e.n <= MaxNTimeout + 1 /\ e.rem >= - Latest
    /\ e.id > acked => age[e.id] + e.rem >= Timeouts(e.n)

Patience ==
  /\ age \in [1 .. Packets -> Nat]
  /\ \A p \in sent + 1 .. Packets : age[p] = 0
  /\ calm => lag >= 0 /\ Waited
  /\ Patient

(* The timeouts up to n + 1 are those up to n and the next one; the last   *)
(* sum is the largest.                                                     *)
LEMMA Powers ==
  ASSUME NEW n \in 0 .. MaxNTimeout + 1
  PROVE  /\ 2^n \in Nat /\ 2^n >= 1 /\ 2^n <= 2^(MaxNTimeout + 1)
         /\ 2^(n + 1) = 2 * 2^n
  BY TimerAssumption

LEMMA Unit == Rto * Ms \in Nat
  BY Constants

LEMMA TimeoutsType ==
  ASSUME NEW n \in 0 .. MaxNTimeout + 1
  PROVE  Timeouts(n) \in Nat
<1> DEFINE u == Rto * Ms   x == 2^n
<1>1. u \in Nat /\ x \in Nat /\ x >= 1 /\ 2^(n + 1) = 2 * x
  BY Powers, Unit
<1>2. Timeouts(n) = u * (2 * x - 1)
  BY <1>1 DEF Timeouts
<1> HIDE DEF u, x
<1>3. 2 * x - 1 \in Nat
  BY <1>1
<1>4. u * (2 * x - 1) \in Nat
  BY <1>1, <1>3
<1> QED BY <1>2, <1>4

LEMMA NextTimeout ==
  ASSUME NEW id, NEW n \in 0 .. MaxNTimeout
  PROVE  /\ Armed(id, n + 1).rem \in Nat
         /\ Timeouts(n + 1) = Timeouts(n) + Armed(id, n + 1).rem
<1> DEFINE u == Rto * Ms   x == 2^n   y == 2^(n + 1)
<1>1. n \in 0 .. MaxNTimeout + 1 /\ n + 1 \in 0 .. MaxNTimeout + 1
  BY Constants
<1>2. /\ u \in Nat /\ x \in Nat /\ y \in Nat /\ y = 2 * x
      /\ 2^((n + 1) + 1) = 2 * y
  BY <1>1, Powers, Unit
<1>3. /\ Timeouts(n) = u * (y - 1) /\ Timeouts(n + 1) = u * (2 * y - 1)
      /\ Armed(id, n + 1).rem = u * y
  BY <1>2 DEF Timeouts, Armed
<1> HIDE DEF u, x, y
<1>4. u * y \in Nat /\ u * (2 * y - 1) = u * (y - 1) + u * y
  BY <1>2
<1> QED BY <1>3, <1>4

LEMMA FirstTimeout ==
  ASSUME NEW id
  PROVE  Armed(id, 0).rem \in Nat /\ Armed(id, 0).rem = Timeouts(0)
<1> DEFINE u == Rto * Ms
<1>1. u \in Nat /\ 2^0 = 1 /\ 2^(0 + 1) = 2 * 2^0
  BY Unit, TimerAssumption, Constants
<1>2. Armed(id, 0).rem = u * 1 /\ Timeouts(0) = u * (2 * 1 - 1)
  BY <1>1 DEF Timeouts, Armed
<1> HIDE DEF u
<1> QED BY <1>1, <1>2

LEMMA LastIsLongest ==
  ASSUME NEW n \in 0 .. MaxNTimeout + 1
  PROVE  Timeouts(n) <= Timeouts(MaxNTimeout + 1)
<1> DEFINE u == Rto * Ms   x == 2^n   y == 2^(MaxNTimeout + 1)
<1>1. MaxNTimeout + 1 \in 0 .. MaxNTimeout + 1
  BY Constants
<1>2. /\ u \in Nat /\ x \in Nat /\ y \in Nat /\ x <= y
      /\ 2^(n + 1) = 2 * x /\ 2^((MaxNTimeout + 1) + 1) = 2 * y
  BY <1>1, Powers, Unit
<1>3. /\ Timeouts(n) = u * (2 * x - 1)
      /\ Timeouts(MaxNTimeout + 1) = u * (2 * y - 1)
  BY <1>2 DEF Timeouts
<1> HIDE DEF u, x, y
<1>4. u * (2 * x - 1) <= u * (2 * y - 1)
  BY <1>2
<1> QED BY <1>3, <1>4

-----------------------------------------------------------------------------
LEMMA SendPatience ==
  ASSUME Inductive, Patience, Send
  PROVE  Patience'
<1> DEFINE new == Armed(sent + 1, 0)
<1>1. /\ sent \in Nat /\ sent + 1 \in sent + 1 .. Packets /\ sent' = sent + 1
      /\ timevts' = timevts \cup {new} /\ UNCHANGED <<lag, acked, age, calm>>
      /\ mgr' = "busy"
  BY Constants DEF Send, Inductive, TypeOK
<1>2. /\ new.id = sent + 1 /\ new.n = 0 /\ age[sent + 1] = 0
      /\ new.rem \in Nat /\ new.rem = Timeouts(0)
  BY <1>1, FirstTimeout DEF Armed, Patience
<1> HIDE DEF new
<1>3. \A p \in sent' + 1 .. Packets : p \in sent + 1 .. Packets
  BY <1>1, Constants
<1>4. Latest \in Nat
  BY Constants DEF Latest
<1>5. ASSUME Waited PROVE Waited'
  BY <1>1, <1>2, <1>4, <1>5, Constants DEF Waited
<1> QED BY <1>1, <1>3, <1>5 DEF Patience, Patient

(* The event that replaces an expired one is later than it, as long as the *)
(* sampled clock is not ahead of the clock.                                *)
LEMMA ResendPatience ==
  ASSUME Inductive, Patience, NEW e \in timevts, Resend(e)
  PROVE  Patience'
<1> DEFINE next == Armed(e.id, e.n + 1)
<1>1. /\ e.id \in 1 .. Packets /\ e.n \in 0 .. MaxNTimeout /\ e.rem \in Int
      /\ lag \in Int /\ e.rem + lag < 0 /\ e.id > acked
      /\ UNCHANGED <<sent, acked, age, calm>> /\ (lag' = lag \/ lag' = 0)
      /\ mgr' # "gaveUp"
      /\ timevts' = IF next.rem < e.rem THEN timevts ELSE (timevts \ {e}) \cup {next}
  BY Constants DEF Resend, Expired, NextRound, Inductive, TypeOK, Events
<1>2. /\ next.id = e.id /\ next.n = e.n + 1 /\ next.rem \in Nat
      /\ Timeouts(e.n + 1) = Timeouts(e.n) + next.rem
      /\ Timeouts(e.n) \in Nat
  <2>1. e.n \in 0 .. MaxNTimeout + 1
    BY <1>1, Constants
  <2> QED BY <1>1, <2>1, NextTimeout, TimeoutsType DEF Armed
<1> HIDE DEF next
<1>3. ASSUME lag >= 0, Waited PROVE Waited'
  <2>1. e.rem < 0 /\ age[e.id] \in Nat /\ age[e.id] + e.rem >= Timeouts(e.n)
    BY <1>1, <1>3 DEF Waited, Patience
  <2>2. age[e.id] + next.rem >= Timeouts(next.n)
    BY <1>1, <1>2, <2>1
  <2>3. next.n <= MaxNTimeout + 1 /\ next.rem >= - Latest
    BY <1>1, <1>2, Constants DEF Latest
  <2>4. \A f \in timevts' : f \in timevts \/ f = next
    BY <1>1
  <2> QED BY <1>1, <1>2, <1>3, <2>2, <2>3, <2>4 DEF Waited
<1> QED BY <1>1, <1>3 DEF Patience, Patient

LEMMA GiveUpPatience ==
  ASSUME Inductive, Patience, NEW e \in timevts, GiveUp(e)
  PROVE  Patience'
<1>1. /\ e.id \in Nat /\ e.n \in Nat /\ e.n > MaxNTimeout /\ e.rem \in Int
      /\ lag \in Int /\ e.rem + lag < 0 /\ e.id > acked /\ e.id <= sent
      /\ acked \in Nat /\ sent \in Nat /\ e.id \in 1 .. Packets
      /\ UNCHANGED <<timevts, sent, acked, age, calm>> /\ lag' = 0
  BY Constants DEF GiveUp, Expired, Inductive, TypeOK, Covered, Events
<1>2. ASSUME calm PROVE age[e.id] > Timeouts(MaxNTimeout + 1)
  <2>1. /\ lag >= 0 /\ e.n <= MaxNTimeout + 1 /\ age[e.id] \in Nat
        /\ age[e.id] + e.rem >= Timeouts(e.n)
    BY <1>1, <1>2 DEF Patience, Waited
  <2>2. e.n = MaxNTimeout + 1 /\ MaxNTimeout + 1 \in 0 .. MaxNTimeout + 1
    BY <1>1, <2>1, Constants
  <2>3. Timeouts(e.n) \in Nat
    BY <2>2, TimeoutsType
  <2> QED BY <1>1, <2>1, <2>2, <2>3
<1>3. e.id \in acked + 1 .. sent
  BY <1>1
<1>4. Patient'
  BY <1>1, <1>2, <1>3 DEF Patient
<1> QED BY <1>1, <1>4 DEF Patience, Waited

LEMMA TickPatience ==
  ASSUME Inductive, Patience, Tick
  PROVE  Patience'
<1> DEFINE moved == [e \in timevts |-> [e EXCEPT !.rem = Later(@)]]
           Cap == Timeouts(MaxNTimeout + 1) + Latest
<1>1. /\ mgr' = mgr /\ mgr # "gaveUp" /\ UNCHANGED <<sent, acked, calm>>
      /\ lag \in Int /\ (lag' = lag \/ lag' = lag + 1)
      /\ timevts' = {moved[e] : e \in timevts}
      /\ sent \in Nat /\ acked \in Nat
  BY Constants DEF Tick, Inductive, TypeOK
<1>2. Cap \in Nat /\ Latest \in Nat /\ MaxNTimeout + 1 \in 0 .. MaxNTimeout + 1
      /\ Timeouts(MaxNTimeout + 1) \in Nat
  BY Constants, TimeoutsType DEF Latest
<1>3. \A e \in timevts :
        /\ e.id \in 1 .. Packets /\ e.id <= sent /\ e.n \in Nat /\ e.rem \in Int
        /\ moved[e].id = e.id /\ moved[e].n = e.n /\ moved[e].rem = Later(e.rem)
  BY DEF Inductive, TypeOK, Covered, Events
<1> HIDE DEF moved
<1>4. \A p \in 1 .. Packets :
        /\ age[p] \in Nat
        /\ age'[p] = IF calm /\ p \in acked + 1 .. sent
                     THEN IF age[p] < Cap THEN age[p] + 1 ELSE age[p]
                     ELSE 0
  BY DEF Tick, Older, Patience
<1> HIDE DEF Cap
<1>5. age' \in [1 .. Packets -> Nat]
  <2>1. age' = [p \in 1 .. Packets |-> age'[p]]
    BY DEF Tick
  <2>2. \A p \in 1 .. Packets : age'[p] \in Nat
    BY <1>4
  <2> QED BY <2>1, <2>2
<1>6. \A p \in sent' + 1 .. Packets : age'[p] = 0
  <2>1. \A p \in sent + 1 .. Packets : p \in 1 .. Packets /\ ~(p \in acked + 1 .. sent)
    BY <1>1, Constants
  <2> QED BY <1>1, <1>4, <2>1
<1>7. ASSUME calm, Waited, NEW e \in timevts
      PROVE  /\ moved[e].n <= MaxNTimeout + 1 /\ moved[e].rem >= - Latest
             /\ moved[e].id > acked => age'[e.id] + moved[e].rem >= Timeouts(moved[e].n)
  <2>1. /\ e.n <= MaxNTimeout + 1 /\ e.rem >= - Latest
        /\ e.id > acked => age[e.id] + e.rem >= Timeouts(e.n)
    BY <1>7 DEF Waited
  <2>2. Later(e.rem) \in Int /\ Later(e.rem) >= - Latest /\ Later(e.rem) >= e.rem - 1
    BY <1>2, <1>3, <2>1 DEF Later
  <2>3. ASSUME e.id > acked
        PROVE  age'[e.id] + Later(e.rem) >= Timeouts(e.n)
    <3>1. e.id \in acked + 1 .. sent
      BY <1>1, <1>3, <2>3
    <3>2. age[e.id] \in Nat /\ age'[e.id] = IF age[e.id] < Cap THEN age[e.id] + 1 ELSE age[e.id]
      BY <1>3, <1>4, <1>7, <3>1
    <3>3. /\ Timeouts(e.n) \in Nat /\ Timeouts(e.n) <= Timeouts(MaxNTimeout + 1)
      BY <1>3, <2>1, TimeoutsType, LastIsLongest, Constants
    <3>4. CASE age[e.id] < Cap
      BY <1>3, <2>1, <2>2, <2>3, <3>2, <3>3, <3>4
    <3>5. CASE ~(age[e.id] < Cap)
      BY <1>2, <2>2, <3>2, <3>3, <3>5 DEF Cap
    <3> QED BY <3>4, <3>5
  <2> QED BY <1>3, <2>1, <2>2, <2>3
<1>8. calm' => lag' >= 0 /\ Waited'
  <2>1. SUFFICES ASSUME calm PROVE lag' >= 0 /\ Waited'
    BY <1>1
  <2>2. lag' >= 0 /\ Waited
    BY <1>1, <2>1 DEF Patience
  <2> QED BY <1>1, <1>3, <1>7, <2>1, <2>2 DEF Waited
<1> QED BY <1>1, <1>5, <1>6, <1>8 DEF Patience, Patient

LEMMA SetBackPatience ==
  ASSUME Inductive, Patience, NEW d \in 1 .. MaxBack, SetBack(d)
  PROVE  Patience'
<1> DEFINE moved == [e \in timevts |-> [e EXCEPT !.rem = @ + d]]
<1>1. /\ mgr' = mgr /\ mgr # "gaveUp" /\ UNCHANGED <<sent, acked>>
      /\ timevts' = {moved[e] : e \in timevts} /\ d \in Nat
      /\ age' = [p \in 1 .. Packets |-> IF calm' THEN age[p] ELSE 0]
      /\ lag' = IF mgr = "loop" THEN lag - d ELSE lag
  BY Constants DEF SetBack
<1>2. calm' => calm /\ mgr # "loop"
  BY Zenon DEF SetBack
<1>3. calm' => lag' = lag /\ age' = age
  <2>1. ASSUME calm' PROVE lag' = lag
    BY <1>1, <1>2, <2>1
  <2>2. ASSUME calm' PROVE age' = age
    <3>1. age' = [p \in 1 .. Packets |-> age[p]]
      BY <1>1, <2>2
    <3> QED BY <3>1 DEF Patience
  <2> QED BY <2>1, <2>2
<1>4. age' \in [1 .. Packets -> Nat] /\ \A p \in sent' + 1 .. Packets : age'[p] = 0
  <2>1. CASE calm'
    BY <1>1, <1>3, <2>1 DEF Patience
  <2>2. CASE ~calm'
    <3>1. sent \in Nat
      BY Constants DEF Inductive, TypeOK
    <3> QED BY <1>1, <2>2, <3>1, Constants
  <2> QED BY <2>1, <2>2
<1>5. \A e \in timevts :
        /\ e.rem \in Int /\ e.id \in 1 .. Packets /\ e.n \in Nat
        /\ moved[e].id = e.id /\ moved[e].n = e.n /\ moved[e].rem = e.rem + d
  BY DEF Inductive, TypeOK, Events
<1> HIDE DEF moved
<1>6. ASSUME calm' PROVE lag' >= 0 /\ Waited'
  <2>1. calm /\ lag' = lag /\ age' = age /\ lag >= 0 /\ Waited
    BY <1>2, <1>3, <1>6 DEF Patience
  <2>2. Latest \in Nat
    BY Constants DEF Latest
  <2>3. ASSUME NEW e \in timevts
        PROVE  /\ moved[e].n <= MaxNTimeout + 1 /\ moved[e].rem >= - Latest
               /\ moved[e].id > acked => age[e.id] + moved[e].rem >= Timeouts(moved[e].n)
    <3>1. e.n \in 0 .. MaxNTimeout + 1 /\ age[e.id] \in Nat
      BY <1>5, <2>1, Constants DEF Waited, Patience
    <3>2. Timeouts(e.n) \in Nat
      BY <3>1, TimeoutsType
    <3> QED BY <1>1, <1>5, <2>1, <2>2, <3>1, <3>2 DEF Waited
  <2> QED BY <1>1, <1>5, <2>1, <2>3 DEF Waited
<1> QED BY <1>1, <1>6, <1>4 DEF Patience, Patient

LEMMA RecvAckPatience ==
  ASSUME Inductive, Patience, NEW ack \in 0 .. Packets, RecvAck(ack)
  PROVE  Patience'
<1>1. /\ acked' \in Nat /\ acked \in Nat /\ acked <= acked' /\ sent \in Nat
      /\ UNCHANGED <<timevts, lag, sent, calm>> /\ mgr' = "busy"
      /\ age' = [p \in 1 .. Packets |-> IF p <= acked' THEN 0 ELSE age[p]]
  BY Constants DEF RecvAck, Inductive, TypeOK
<1>2. age' \in [1 .. Packets -> Nat] /\ \A p \in sent' + 1 .. Packets : age'[p] = 0
  BY <1>1, Constants DEF Patience
<1>3. \A e \in timevts : e.id > acked' => age'[e.id] = age[e.id] /\ e.id > acked
  BY <1>1 DEF Inductive, TypeOK, Events
<1> QED BY <1>1, <1>2, <1>3 DEF Patience, Waited, Patient

LEMMA StepPatience == Inductive /\ Patience /\ [Next]_vars => Patience'
<1> SUFFICES ASSUME Inductive, Patience, [Next]_vars PROVE Patience'
  OBVIOUS
<1>1. lag \in Int
  BY DEF Inductive, TypeOK
<1>2. CASE UNCHANGED vars
  BY <1>2 DEF vars, Patience, Waited, Patient
<1>3. CASE Enter \/ Return \/ RecvTimeout
  <2>1. /\ UNCHANGED <<timevts, sent, acked, age, calm>> /\ (lag' = lag \/ lag' = 0)
        /\ mgr' # "gaveUp"
    BY <1>3 DEF Enter, Return, RecvTimeout
  <2> QED BY <1>1, <2>1 DEF Patience, Waited, Patient
<1>4. ASSUME NEW e \in timevts, Drop(e) PROVE Patience'
  <2>1. /\ timevts' \subseteq timevts /\ (lag' = lag \/ lag' = 0)
        /\ UNCHANGED <<sent, acked, age, calm>> /\ mgr' # "gaveUp"
    BY <1>4 DEF Drop, NextRound
  <2> QED BY <1>1, <2>1 DEF Patience, Waited, Patient
<1> QED
  BY <1>2, <1>3, <1>4, SendPatience, ResendPatience, GiveUpPatience, TickPatience,
     SetBackPatience, RecvAckPatience DEF Next, Thread

(* The process gives up on a packet only after all its timeouts, for any   *)
(* timeouts and any number of packets: RSend.cpp:206-239.                  *)
THEOREM AlwaysPatient == Spec => []Patient
<1>1. Init => Patience
  BY DEF Init, Patience, Waited, Patient
<1>2. Patience => Patient
  BY DEF Patience
<1> QED BY <1>1, <1>2, StepPatience, AlwaysInductive, PTL DEF Spec

=============================================================================
