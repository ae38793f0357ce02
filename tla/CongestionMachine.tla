-------------------------- MODULE CongestionMachine --------------------------
(***************************************************************************)
(* The congestion record alone, at the program's own MSS: the timeouts and *)
(* ACKs that handleTimer and wait apply to it, in any order.               *)
(*                                                                         *)
(* The floor is a history variable: MSS, halved by every fast recovery     *)
(* since the last timeout or the last ACK of new data in the state avoid.  *)
(***************************************************************************)
EXTENDS CongestionControl

CONSTANTS
  MaxCwnd,    (* no more ACKs once cwnd is beyond this: bounds the instance *)
  MaxDupACK,  (* no further duplicate once dupACK is at this: the same      *)
  Numbers     (* the numbers ACKs carry                                     *)

VARIABLES cc, trapped, floor

vars == <<cc, trapped, floor>>

Init ==
  /\ \E s \in Uninitialised : cc = InitialCC(s)
  /\ trapped = FALSE /\ floor = MSS

(* A timer event is sent again. *)
Timeout ==
  /\ ~trapped
  /\ cc' = AfterTimeout(cc)
  /\ floor' = MSS
  /\ UNCHANGED trapped

NewAck ==
  /\ ~trapped /\ cc.cwnd <= MaxCwnd
  /\ IF DividesByZero(cc)
       THEN trapped' = TRUE /\ UNCHANGED <<cc, floor>>
       ELSE /\ cc' = AfterNewAck(cc)
            /\ floor' = IF cc.cState = "avoid" THEN MSS ELSE floor
            /\ UNCHANGED trapped

OldAck(ack) ==
  /\ ~trapped /\ cc.cwnd <= MaxCwnd /\ cc.dupACK < MaxDupACK
  /\ cc' = AfterOldAck(cc, ack)
  /\ floor' = IF EntersRecovery(cc, ack) THEN floor \div 2 ELSE floor
  /\ UNCHANGED trapped

Next == Timeout \/ NewAck \/ \E ack \in Numbers : OldAck(ack)

Spec == Init /\ [][Next]_vars

-----------------------------------------------------------------------------
(* The window, or the one that a recovery will restore, is never below the *)
(* floor: timeouts and ACKs in between undo every earlier halving, so it   *)
(* takes recoveries in direct succession to bring cwnd below one segment.  *)
WindowFloor ==
  IF cc.cState = "fastRecovery" THEN cc.ssthresh >= floor ELSE cc.cwnd >= floor

(* The division MSS / cwnd of RSend.cpp:276 traps only after so many       *)
(* recoveries in direct succession that the floor is 0: eleven for 1024.   *)
TrapTakesHalvings == trapped => floor = 0

=============================================================================
