---------------------------- MODULE MCDatagrams ----------------------------
(* The instance of Datagrams that TLC checks. *)
EXTENDS Datagrams

(* Two senders on one host. *)
TwoSenders == {[addr |-> 1, port |-> 1], [addr |-> 1, port |-> 2]}

(* Bodies of even and odd length.  With the numbers and windows of the cfg *)
(* there are packets whose checksum is 0 and packets whose sum carries     *)
(* again when it is folded.                                                *)
SmallBodies == {<<1>>, <<0, 15>>, <<1, 14, 12>>}

=============================================================================
