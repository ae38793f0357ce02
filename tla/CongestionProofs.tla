--------------------------- MODULE CongestionProofs ---------------------------
(***************************************************************************)
(* The floor under the congestion window, for every segment size and every *)
(* threshold of duplicates.  The invariant that is inductive adds to       *)
(* WindowFloor the types and that the floor is at most one segment.        *)
(***************************************************************************)
EXTENDS CongestionMachine, TLAPS

USE CongestionAssumption

Records == [cState : Uninitialised, cwnd : Nat, ssthresh : Nat, dupACK : Nat,
            lastAck : Numbers \cup {0}]

Typed == cc \in Records /\ trapped \in BOOLEAN /\ floor \in 0 .. MSS

Inductive == Typed /\ WindowFloor /\ TrapTakesHalvings

-----------------------------------------------------------------------------
(* Halving a natural number. *)
LEMMA Half ==
  ASSUME NEW a \in Nat
  PROVE  a \div 2 \in Nat /\ a \div 2 <= a
  OBVIOUS

(* Halving keeps the order. *)
LEMMA HalfMonotone ==
  ASSUME NEW a \in Nat, NEW b \in Nat, a <= b
  PROVE  a \div 2 <= b \div 2
  OBVIOUS

(* Congestion avoidance opens the window to one segment at least, from     *)
(* whatever it was: cwnd + MSS * (MSS / cwnd) of updateCongestionWindow.   *)
LEMMA AvoidanceStep ==
  ASSUME NEW w \in Nat, w > 0
  PROVE  w + MSS * (MSS \div w) \in Nat /\ w + MSS * (MSS \div w) >= MSS
<1>1. MSS \div w \in Nat
  OBVIOUS
<1>2. CASE MSS <= w
  BY <1>1, <1>2
<1>3. CASE w < MSS
  <2>1. MSS \div w >= 1
    BY <1>3
  <2>2. \A q \in Nat : q >= 1 => MSS * q \in Nat /\ MSS * q >= MSS
    OBVIOUS
  <2> QED BY <1>1, <2>1, <2>2
<1> QED BY <1>2, <1>3

(* A timeout goes back to one segment. *)
LEMMA TimeoutRecord ==
  ASSUME NEW c \in Records
  PROVE  /\ AfterTimeout(c) \in Records
         /\ AfterTimeout(c).cwnd = MSS /\ AfterTimeout(c).cState = "start"
<1>1. c.cwnd \div 2 \in Nat
  BY Half DEF Records
<1>2. "start" \in Uninitialised
  BY DEF Uninitialised, CongestionStates
<1> QED BY <1>1, <1>2 DEF AfterTimeout, Records

(* An ACK of new data opens the window, or ends a recovery. *)
LEMMA NewAckRecord ==
  ASSUME NEW c \in Records, ~DividesByZero(c)
  PROVE  /\ AfterNewAck(c) \in Records
         /\ c.cState = "avoid" =>
              AfterNewAck(c).cState = "avoid" /\ AfterNewAck(c).cwnd >= MSS
         /\ c.cState = "fastRecovery" =>
              AfterNewAck(c).cState = "avoid" /\ AfterNewAck(c).cwnd = c.ssthresh
         /\ c.cState \notin {"avoid", "fastRecovery"} =>
              AfterNewAck(c).cState # "fastRecovery" /\ AfterNewAck(c).cwnd >= c.cwnd
<1>0. /\ c.cwnd \in Nat /\ c.ssthresh \in Nat /\ c.cState \in Uninitialised
      /\ "avoid" \in Uninitialised
  BY DEF Records, Uninitialised, CongestionStates
<1>1. CASE c.cState = "avoid"
  <2> DEFINE w == c.cwnd + MSS * (MSS \div c.cwnd)
  <2>1. c.cwnd > 0
    BY <1>0, <1>1 DEF DividesByZero
  <2>2. w \in Nat /\ w >= MSS
    BY <1>0, <2>1, AvoidanceStep
  <2>3. AfterNewAck(c) = [c EXCEPT !.cwnd = w]
    BY <1>1 DEF AfterNewAck
  <2> HIDE DEF w
  <2> QED BY <1>1, <2>2, <2>3 DEF Records
<1>2. CASE c.cState = "fastRecovery"
  <2>1. AfterNewAck(c) = [c EXCEPT !.cwnd = c.ssthresh, !.dupACK = 0, !.cState = "avoid"]
    BY <1>2 DEF AfterNewAck
  <2>2. [c EXCEPT !.cwnd = c.ssthresh, !.dupACK = 0, !.cState = "avoid"] \in Records
    BY <1>0 DEF Records
  <2>3. AfterNewAck(c) \in Records
    BY <2>1, <2>2
  <2>4. AfterNewAck(c).cState = "avoid" /\ AfterNewAck(c).cwnd = c.ssthresh
    BY <2>1 DEF Records
  <2> QED BY <1>2, <2>3, <2>4
<1>3. CASE c.cState = "start"
  <2> DEFINE next == IF c.cwnd + MSS > c.ssthresh THEN "avoid" ELSE c.cState
  <2>1. AfterNewAck(c) = [c EXCEPT !.cwnd = c.cwnd + MSS, !.cState = next]
    BY <1>3 DEF AfterNewAck
  <2>2. next \in Uninitialised /\ next # "fastRecovery" /\ c.cwnd + MSS \in Nat
    BY <1>0, <1>3
  <2> HIDE DEF next
  <2>3. AfterNewAck(c) \in Records
    BY <2>1, <2>2 DEF Records
  <2>4. AfterNewAck(c).cState = next /\ AfterNewAck(c).cwnd = c.cwnd + MSS
    BY <2>1 DEF Records
  <2> QED BY <1>0, <1>3, <2>2, <2>3, <2>4
<1>4. CASE c.cState = "garbage"
  <2>1. AfterNewAck(c) = c
    BY <1>4 DEF AfterNewAck
  <2> QED BY <1>0, <1>4, <2>1
<1> QED BY <1>0, <1>1, <1>2, <1>3, <1>4 DEF Uninitialised, CongestionStates

(* Any other ACK leaves the window and the threshold alone, grows the      *)
(* window in a recovery, or enters one with half of the window.            *)
LEMMA OldAckRecord ==
  ASSUME NEW c \in Records, NEW ack \in Numbers
  PROVE  /\ AfterOldAck(c, ack) \in Records
         /\ EntersRecovery(c, ack) =>
              /\ c.cState # "fastRecovery"
              /\ AfterOldAck(c, ack).cState = "fastRecovery"
              /\ AfterOldAck(c, ack).ssthresh = c.cwnd \div 2
         /\ ~EntersRecovery(c, ack) =>
              /\ AfterOldAck(c, ack).cState = c.cState
              /\ AfterOldAck(c, ack).ssthresh = c.ssthresh
              /\ AfterOldAck(c, ack).cwnd >= c.cwnd
<1>0. /\ c.cwnd \in Nat /\ c.ssthresh \in Nat /\ c.dupACK \in Nat
      /\ c.cState \in Uninitialised /\ "fastRecovery" \in Uninitialised
      /\ c.cwnd \div 2 \in Nat
  BY Half DEF Records, Uninitialised, CongestionStates
<1>1. CASE ack # c.lastAck
  <2>1. AfterOldAck(c, ack) = [c EXCEPT !.dupACK = 0, !.lastAck = ack] /\ ~EntersRecovery(c, ack)
    BY <1>1 DEF AfterOldAck, EntersRecovery
  <2>2. [c EXCEPT !.dupACK = 0, !.lastAck = ack] \in Records
    BY DEF Records
  <2>3. AfterOldAck(c, ack) \in Records
    BY <2>1, <2>2
  <2>4. /\ AfterOldAck(c, ack).cState = c.cState /\ AfterOldAck(c, ack).cwnd = c.cwnd
        /\ AfterOldAck(c, ack).ssthresh = c.ssthresh
    BY <2>1 DEF Records
  <2> QED BY <1>0, <2>1, <2>3, <2>4
<1>2. CASE ack = c.lastAck /\ c.cState = "fastRecovery"
  <2> DEFINE counted == [c EXCEPT !.dupACK = c.dupACK + 1]
  <2>1. counted \in Records /\ counted.cwnd = c.cwnd /\ counted.cState = c.cState
          /\ counted.ssthresh = c.ssthresh
    BY <1>0 DEF Records
  <2>2. AfterOldAck(c, ack) = [counted EXCEPT !.cwnd = c.cwnd + MSS] /\ ~EntersRecovery(c, ack)
    BY <1>2, <2>1 DEF AfterOldAck, EntersRecovery
  <2> HIDE DEF counted
  <2> QED BY <1>0, <2>1, <2>2 DEF Records
<1>3. CASE ack = c.lastAck /\ EntersRecovery(c, ack)
  <2> DEFINE w == (c.cwnd \div 2) + 3 * MSS
             counted == [c EXCEPT !.dupACK = c.dupACK + 1]
  <2>1. w \in Nat /\ counted \in Records
    BY <1>0 DEF Records
  <2>2. AfterOldAck(c, ack) =
          [counted EXCEPT !.ssthresh = c.cwnd \div 2, !.cwnd = w, !.cState = "fastRecovery"]
    BY <1>3 DEF AfterOldAck, EntersRecovery
  <2>3. c.cState # "fastRecovery"
    BY <1>3 DEF EntersRecovery
  <2> HIDE DEF w, counted
  <2> QED BY <1>0, <1>3, <2>1, <2>2, <2>3 DEF Records
<1>4. CASE ack = c.lastAck /\ c.cState # "fastRecovery" /\ ~EntersRecovery(c, ack)
  <2>1. AfterOldAck(c, ack) = [c EXCEPT !.dupACK = c.dupACK + 1]
    BY <1>4 DEF AfterOldAck
  <2> QED BY <1>0, <1>4, <2>1 DEF Records
<1> QED BY <1>1, <1>2, <1>3, <1>4

LEMMA InitInductive == Init => Inductive
<1> SUFFICES ASSUME Init PROVE Inductive
  OBVIOUS
<1>1. PICK s \in Uninitialised : cc = InitialCC(s)
  BY DEF Init
<1>2. cc \in Records /\ cc.cwnd = MSS /\ cc.ssthresh = 8 * MSS
  BY <1>1 DEF InitialCC, Records
<1>3. trapped = FALSE /\ floor = MSS
  BY DEF Init
<1>4. 8 * MSS >= MSS /\ MSS \in 0 .. MSS
  OBVIOUS
<1>5. WindowFloor
  BY <1>2, <1>3, <1>4 DEF WindowFloor
<1>6. Typed /\ TrapTakesHalvings
  BY <1>2, <1>3, <1>4 DEF Typed, TrapTakesHalvings
<1> QED BY <1>5, <1>6 DEF Inductive

LEMMA StepInductive == Inductive /\ [Next]_vars => Inductive'
<1> SUFFICES ASSUME Inductive, [Next]_vars PROVE Inductive'
  OBVIOUS
<1>0. /\ cc \in Records /\ floor \in 0 .. MSS /\ trapped \in BOOLEAN
      /\ cc.cwnd \in Nat /\ cc.ssthresh \in Nat
  BY DEF Inductive, Typed, Records
<1>1. CASE Timeout
  BY <1>0, <1>1, TimeoutRecord
     DEF Timeout, Inductive, Typed, WindowFloor, TrapTakesHalvings
<1>2. CASE NewAck
  <2>1. CASE DividesByZero(cc)
    BY <1>0, <1>2, <2>1
       DEF NewAck, DividesByZero, Inductive, Typed, WindowFloor, TrapTakesHalvings
  <2>2. CASE ~DividesByZero(cc)
    <3>1. /\ cc' = AfterNewAck(cc) /\ trapped' = trapped /\ trapped = FALSE
          /\ floor' = IF cc.cState = "avoid" THEN MSS ELSE floor
      BY <1>0, <1>2, <2>2 DEF NewAck
    <3>2. cc' \in Records /\ cc'.cwnd \in Nat
      BY <1>0, <2>2, <3>1, NewAckRecord DEF Records
    <3>3. WindowFloor'
      <4>1. CASE cc.cState = "avoid"
        BY <1>0, <2>2, <3>1, <4>1, NewAckRecord DEF WindowFloor
      <4>2. CASE cc.cState = "fastRecovery"
        BY <1>0, <2>2, <3>1, <4>2, NewAckRecord DEF WindowFloor, Inductive
      <4>3. CASE cc.cState \notin {"avoid", "fastRecovery"}
        <5>1. cc'.cState # "fastRecovery" /\ cc'.cwnd >= cc.cwnd
          BY <1>0, <2>2, <3>1, <4>3, NewAckRecord
        <5>2. floor' = floor /\ cc.cwnd >= floor
          BY <3>1, <4>3 DEF WindowFloor, Inductive
        <5> QED BY <1>0, <3>2, <5>1, <5>2 DEF WindowFloor
      <4> QED BY <4>1, <4>2, <4>3
    <3> QED BY <1>0, <3>1, <3>2, <3>3 DEF Inductive, Typed, TrapTakesHalvings
  <2> QED BY <2>1, <2>2
<1>3. ASSUME NEW ack \in Numbers, OldAck(ack) PROVE Inductive'
  <2>1. /\ cc' = AfterOldAck(cc, ack) /\ trapped' = trapped /\ trapped = FALSE
        /\ floor' = IF EntersRecovery(cc, ack) THEN floor \div 2 ELSE floor
    BY <1>0, <1>3 DEF OldAck
  <2>2. cc' \in Records /\ cc'.cwnd \in Nat /\ cc'.ssthresh \in Nat
    BY <1>0, <2>1, OldAckRecord DEF Records
  <2>3. CASE EntersRecovery(cc, ack)
    <3>1. cc'.cState = "fastRecovery" /\ cc'.ssthresh = cc.cwnd \div 2 /\ cc.cwnd >= floor
      BY <1>0, <2>1, <2>3, OldAckRecord DEF WindowFloor, Inductive
    <3>2. floor \div 2 <= cc.cwnd \div 2 /\ floor \div 2 \in 0 .. MSS
      BY <1>0, <3>1, Half, HalfMonotone
    <3> QED BY <1>0, <2>1, <2>2, <2>3, <3>1, <3>2
         DEF Inductive, Typed, WindowFloor, TrapTakesHalvings
  <2>4. CASE ~EntersRecovery(cc, ack)
    <3>1. cc'.cState = cc.cState /\ cc'.ssthresh = cc.ssthresh /\ cc'.cwnd >= cc.cwnd
      BY <1>0, <2>1, <2>4, OldAckRecord
    <3> QED BY <1>0, <2>1, <2>2, <2>4, <3>1
         DEF Inductive, Typed, WindowFloor, TrapTakesHalvings
  <2> QED BY <2>3, <2>4
<1>4. CASE UNCHANGED vars
  BY <1>4 DEF vars, Inductive, Typed, WindowFloor, TrapTakesHalvings
<1> QED BY <1>1, <1>2, <1>3, <1>4 DEF Next

LEMMA AlwaysInductive == Spec => []Inductive
  BY InitInductive, StepInductive, PTL DEF Spec

(* Timeouts and ACKs between two fast recoveries undo every halving but    *)
(* the last, for every MSS (updateCongestionWindow, wait, processTimeout). *)
THEOREM WindowKeepsFloor == Spec => []WindowFloor
  BY AlwaysInductive, PTL DEF Inductive

(* The division of RSend.cpp:276 traps only when a direct succession of    *)
(* fast recoveries has halved one segment to nothing.                      *)
THEOREM TrapNeedsHalvings == Spec => []TrapTakesHalvings
  BY AlwaysInductive, PTL DEF Inductive

=============================================================================
