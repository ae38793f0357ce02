----------------------------- MODULE BoundedFifo -----------------------------
(***************************************************************************)
(* What a buffer between two threads promises: a queue of at most Bound    *)
(* bytes.  One thread appends to it, the other takes from its front.       *)
(***************************************************************************)
EXTENDS Integers, SequencesExt

CONSTANT Bound

VARIABLES
  queue,    (* the bytes put and not yet taken, in order                    *)
  taken     (* what the last take returned                                  *)

vars == <<queue, taken>>

Init == queue = <<>> /\ taken = <<>>

Put ==
  /\ IsStrictPrefix(queue, queue') /\ Len(queue') <= Bound
  /\ UNCHANGED taken

Take ==
  /\ Len(taken') <= Len(queue)
  /\ queue = taken' \o queue'

Next == Put \/ Take

Spec == Init /\ [][Next]_vars

=============================================================================
