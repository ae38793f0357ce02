--------------------------- MODULE ReliableStream ---------------------------
(***************************************************************************)
(* What the pair of programs promises: one ordered stream of bytes.  The   *)
(* application writes bytes, the transport moves them to the far end in    *)
(* order, each once and unchanged, and the writer learns that the stream   *)
(* is closed only when every byte it wrote has arrived.                    *)
(***************************************************************************)
EXTENDS SequencesExt

VARIABLES
  written,    (* the bytes the sending application has written              *)
  arrived,    (* the bytes that have reached the receiving end, in order    *)
  closed      (* the sending application's close has succeeded              *)

vars == <<written, arrived, closed>>

Init == written = <<>> /\ arrived = <<>> /\ closed = FALSE

(* The application writes some more bytes. *)
Write ==
  /\ ~closed
  /\ written' # written /\ IsPrefix(written, written')
  /\ UNCHANGED <<arrived, closed>>

(* Some more of the written bytes arrive. *)
Arrive ==
  /\ arrived' # arrived /\ IsPrefix(arrived, arrived')
  /\ IsPrefix(arrived', written)
  /\ UNCHANGED <<written, closed>>

(* The close succeeds. *)
Close ==
  /\ ~closed /\ arrived = written
  /\ closed' = TRUE
  /\ UNCHANGED <<written, arrived>>

Next == Write \/ Arrive \/ Close

Spec == Init /\ [][Next]_vars

=============================================================================
