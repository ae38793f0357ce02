-------------------------- MODULE CongestionControl --------------------------
(***************************************************************************)
(* The congestion-control record of Sender/RSend: cState, cwnd, ssthresh,  *)
(* dupACK and lastAck, and what RSend does to it on a timeout, on an ACK   *)
(* that acknowledges new data, and on one that does not.                   *)
(***************************************************************************)
EXTENDS Integers

CONSTANTS
  MSS,           (* largest body of a packet: 1024 in the program           *)
  DupThreshold   (* duplicate ACKs before a fast retransmit: 3 in the code  *)

ASSUME CongestionAssumption ==
  /\ MSS \in Nat \ {0}
  /\ DupThreshold \in Nat \ {0}

CongestionStates == {"start", "avoid", "fastRecovery"}

(* cState is never initialised: until the first transition it may hold a   *)
(* value of the enum or a bit pattern that is none of them.                *)
Uninitialised == CongestionStates \cup {"garbage"}

InitialCC(s) ==
  [cState |-> s, cwnd |-> MSS, ssthresh |-> 8 * MSS, dupACK |-> 0, lastAck |-> 0]

\* Mutant of AfterTimeout: the window is halved, not set to one segment.
AfterTimeoutHalves(cc) ==
  [cc EXCEPT !.ssthresh = cc.cwnd \div 2, !.cwnd = @ \div 2, !.dupACK = 0,
             !.cState = "start"]

(* processTimeout(): back to slow start. *)
AfterTimeout(cc) ==
  [cc EXCEPT !.ssthresh = cc.cwnd \div 2, !.cwnd = MSS, !.dupACK = 0,
             !.cState = "start"]

(* MSS / cwnd is an unsigned integer division: it traps when cwnd is zero. *)
DividesByZero(cc) == cc.cState = "avoid" /\ cc.cwnd = 0

(* updateCongestionWindow(), called for an ACK of new data. *)
AfterNewAck(cc) ==
  CASE cc.cState = "start" ->
         [cc EXCEPT !.cwnd = @ + MSS,
                    !.cState = IF cc.cwnd + MSS > cc.ssthresh THEN "avoid" ELSE @]
    [] cc.cState = "avoid" -> [cc EXCEPT !.cwnd = @ + MSS * (MSS \div @)]
    [] cc.cState = "fastRecovery" ->
         [cc EXCEPT !.cwnd = cc.ssthresh, !.dupACK = 0, !.cState = "avoid"]
    [] OTHER -> cc

(* wait(): the ACK that makes the sender retransmit from lastAck. *)
EntersRecovery(cc, ack) ==
  /\ ack = cc.lastAck
  /\ cc.cState # "fastRecovery"
  /\ cc.dupACK + 1 >= DupThreshold

\* Mutant of AfterOldAck: a recovery quarters the threshold.
AfterOldAckQuarters(cc, ack) ==
  IF ack # cc.lastAck THEN [cc EXCEPT !.dupACK = 0, !.lastAck = ack]
  ELSE IF EntersRecovery(cc, ack)
    THEN [cc EXCEPT !.dupACK = @ + 1, !.ssthresh = cc.cwnd \div 4,
                    !.cwnd = (cc.cwnd \div 2) + 3 * MSS, !.cState = "fastRecovery"]
    ELSE [cc EXCEPT !.dupACK = @ + 1]

(* wait(), for an ACK that acknowledges nothing new. *)
AfterOldAck(cc, ack) ==
  IF ack # cc.lastAck THEN [cc EXCEPT !.dupACK = 0, !.lastAck = ack]
  ELSE LET counted == [cc EXCEPT !.dupACK = @ + 1]
       IN  IF cc.cState = "fastRecovery" THEN [counted EXCEPT !.cwnd = @ + MSS]
           ELSE IF EntersRecovery(cc, ack)
             THEN [counted EXCEPT !.ssthresh = cc.cwnd \div 2,
                                  !.cwnd = (cc.cwnd \div 2) + 3 * MSS,
                                  !.cState = "fastRecovery"]
             ELSE counted

=============================================================================
