------------------------------- MODULE Network -------------------------------
(***************************************************************************)
(* The UDP service as the two programs see it through the sendto and       *)
(* recvfrom of Common/UDPSock: one sequence of datagrams in flight in each *)
(* direction.  What may be lost or overtaken is the operating system's and *)
(* the wire's doing, not code of the repository.                           *)
(*                                                                         *)
(* A receiver takes the datagram at any index Deliverable allows.  On a    *)
(* lossy path it may skip the datagrams before it, which are then lost; on *)
(* a reordering path the others stay in flight.  Capacity is the room on a *)
(* lossy path (the socket buffers): a datagram sent to a full path is      *)
(* dropped.  The network itself makes no copies: those in the model come   *)
(* from retransmissions.                                                   *)
(***************************************************************************)
EXTENDS Integers, SequencesExt

CONSTANTS
  Lossy,        (* BOOLEAN: datagrams may be lost                           *)
  Reordering,   (* BOOLEAN: a datagram may overtake another                 *)
  Capacity      (* datagrams in flight in one direction of a lossy path     *)

ASSUME NetworkAssumption ==
  /\ Lossy \in BOOLEAN
  /\ Reordering \in BOOLEAN
  /\ Capacity \in Nat \ {0}

VARIABLES
  toRecv,   (* datagrams in flight from RSend to RRecv *)
  toSend    (* datagrams in flight from RRecv to RSend *)

(* sendto(): never blocks and never fails here; a full lossy path drops. *)
Sent(path, dgram) ==
  IF Lossy /\ Len(path) >= Capacity THEN path ELSE Append(path, dgram)

(* The datagrams recvfrom() may return next. *)
Deliverable(path) == IF Lossy \/ Reordering THEN 1 .. Len(path)
                     ELSE {i \in 1 .. Len(path) : i = 1}

(* What is left in flight when recvfrom() has returned datagram i. *)
Rest(path, i) ==
  IF Reordering THEN RemoveAt(path, i) ELSE SubSeq(path, i + 1, Len(path))

=============================================================================
