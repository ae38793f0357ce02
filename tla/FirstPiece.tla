----------------------------- MODULE FirstPiece -----------------------------
(***************************************************************************)
(* A transfer with a note of what the application wrote first.             *)
(*                                                                         *)
(* Sender.cpp:43 writes the file's name with its NUL before the contents,  *)
(* and Recipient.cpp:29 takes the name from the first recv() alone.        *)
(***************************************************************************)
EXTENDS RUDP

VARIABLE firstPiece    (* bytes that the first round of send() copied *)

FirstInit == Init /\ firstPiece = 0
FirstNext == Next /\ firstPiece' = IF firstPiece = 0 THEN sIn' ELSE firstPiece
FirstSpec == FirstInit /\ [][FirstNext]_<<vars, firstPiece>>
FairFirstSpec == FirstSpec /\ Fairness

(* The first bytes in the receive buffer are the whole of the first piece, *)
(* or a segment of a longer one: however the manager, the timers and the   *)
(* duplicate ACKs cut the stream, and whatever is lost or overtakes, the   *)
(* first recv() that returns bytes returns the whole name.                 *)
FirstPieceWhole == rIn > 0 => rIn >= AtMost(firstPiece, MSS)

=============================================================================
