------------------------------ MODULE Datagrams ------------------------------
(***************************************************************************)
(* What the two programs do with a datagram before they look at what it    *)
(* says: recvfrom of Common/UDPSock, recvPkg of Recipient/RRecv and        *)
(* recvACK of Sender/RSend.                                                *)
(*                                                                         *)
(* A datagram comes from a sender that was started against this receiver,  *)
(* or from a second one started by mistake, and the wire may change one of *)
(* its bytes.  seen is the datagram a program has just looked at: what was *)
(* sent, what arrived, and the verdict.                                    *)
(***************************************************************************)
EXTENDS RPkg

CONSTANTS
  Sources,    (* the senders' addresses, records [addr, port]               *)
  Numbers, Windows, Bodies    (* what packets carry: small sets             *)

NoPort == 0       \* a target that is not set
Garbage == -1     \* a port that no sender has

(* A socket that sends has a port, and 0 is none. *)
ASSUME SourcesAssumption == \A s \in Sources : s.port \notin {NoPort, Garbage}

(* Numbers and windows are words, and a body fits its size field. *)
ASSUME PacketsAssumption ==
  /\ Numbers \subseteq 0 .. Word - 1 /\ Windows \subseteq 0 .. Word - 1
  /\ \A b \in Bodies : b \in Seq(0 .. Byte - 1) /\ Len(b) < Word

VARIABLES
  target,                (* targetAddr, targetPort                          *)
  recipient, sender,     (* the processes: "running" or "exited"            *)
  seen,
  heard                  (* the sources of all packets recvPkg has returned *)

vars == <<target, recipient, sender, seen, heard>>

Nothing == [sent |-> <<>>, got |-> <<>>, verdict |-> "none"]

(* targetPort is not initialised. *)
Init ==
  /\ target \in {[addr |-> 0, port |-> p] : p \in {NoPort, Garbage}}
  /\ recipient = "running" /\ sender = "running"
  /\ seen = Nothing /\ heard = {}

Packets ==
  {Made(n, 0, f, <<>>) : n \in Numbers, f \in {F_SYN, F_FIN}}
    \cup {Made(n, 0, F_SEQ, b) : n \in Numbers, b \in Bodies}
Acks == {Made(n, w, F_ACK, <<>>) : n \in Numbers, w \in Windows}

(* What may arrive of a datagram: one byte is damaged, or none. *)
Arriving(d) ==
  {d} \cup {[d EXCEPT ![i] = v] : i \in DOMAIN d, v \in 0 .. Byte - 1}

(* The test of the checksum, in both programs: a zero field passes. *)
Passes(d) == CalCheckSum(d) = 0 \/ CheckSum(d) = 0

\* Mutant of Foreign: the port is not compared.
ForeignAddr(from, t) == from.addr # t.addr

Foreign(from, t) == from # t

(* recvPkg(), one round of its loop that recvfrom ends with a datagram.    *)
(* The length is tested first and ends the process, then the target is set *)
(* if there is none, then the source and last the checksum are tested.     *)
RecvPkg(from, sent, got) ==
  /\ recipient = "running" /\ seen = Nothing
  /\ LET known   == IF target.port = NoPort THEN from ELSE target
         verdict == CASE Len(got) # Size(got)  -> "exit"
                      [] Foreign(from, known)  -> "foreign"
                      [] ~Passes(got)          -> "dropped"
                      [] OTHER                 -> "accepted"
     IN  /\ seen' = [sent |-> sent, got |-> got, verdict |-> verdict]
         /\ IF verdict = "exit" THEN recipient' = "exited" /\ UNCHANGED target
                                ELSE target' = known /\ UNCHANGED recipient
         /\ heard' = IF verdict = "accepted" THEN heard \cup {from} ELSE heard
  /\ UNCHANGED sender

(* recvACK()'s tests.  The length is not one of them: with a damaged       *)
(* bodySize the sum runs over bytes that recvfrom has not written, and may *)
(* be anything.                                                            *)
AckPasses(got) ==
  /\ IF Size(got) > Len(got) THEN TRUE ELSE Passes(got)
  /\ FlagsOf(got) = F_ACK

(* ... and what they may refuse. *)
AckFails(got) ==
  \/ Size(got) > Len(got) /\ CheckSum(got) # 0
  \/ Size(got) <= Len(got) /\ ~Passes(got)
  \/ FlagsOf(got) # F_ACK

(* recvACK() with the datagram recvfrom has returned. *)
RecvAck(sent, got) ==
  /\ sender = "running" /\ seen = Nothing
  /\ \/ AckPasses(got) /\ seen' = [sent |-> sent, got |-> got, verdict |-> "accepted"]
     \/ AckFails(got) /\ seen' = [sent |-> sent, got |-> got, verdict |-> "dropped"]
  /\ UNCHANGED <<target, recipient, sender, heard>>

(* recvfrom fails with anything but a timeout: the process exits.  After a *)
(* timeout recvPkg and recvACK's callers just try again.                   *)
SocketFails ==
  /\ \/ recipient = "running" /\ recipient' = "exited" /\ UNCHANGED sender
     \/ sender = "running" /\ sender' = "exited" /\ UNCHANGED recipient
  /\ seen = Nothing
  /\ UNCHANGED <<target, seen, heard>>

(* The packet is handled, or was none; on to recvfrom. *)
Again ==
  /\ seen # Nothing /\ seen' = Nothing
  /\ UNCHANGED <<target, recipient, sender, heard>>

Next ==
  \/ \E from \in Sources, p \in Packets : \E d \in Arriving(p) : RecvPkg(from, p, d)
  \/ \E a \in Acks : \E d \in Arriving(a) : RecvAck(a, d)
  \/ SocketFails \/ Again

Spec == Init /\ [][Next]_vars

-----------------------------------------------------------------------------
(* An ACK is read without its body. *)
SameContent(d, e) ==
  /\ Number(d) = Number(e) /\ Window(d) = Window(e) /\ FlagsOf(d) = FlagsOf(e)
  /\ FlagsOf(d) = F_ACK \/ Body(d) = Body(e)

(* One damaged byte is never taken for the truth, wherever it is, so that  *)
(* RUDP may count damage as loss.  The exception is a packet whose         *)
(* checksum field is 0: RRecv.cpp:114 and RSend.cpp:150 accept it as it    *)
(* is, though calCheckSum produces 0 as any other sum.                     *)
DamageIsCaught ==
  seen.verdict = "accepted" => SameContent(seen.got, seen.sent) \/ CheckSum(seen.got) = 0

(* Nothing that arrives undamaged is dropped for its checksum or ends the  *)
(* process for its length, which RRecv.cpp:100 tests before the checksum.  *)
IntactPasses ==
  seen.verdict \in {"dropped", "exit"} => seen.got # seen.sent

(* All packets handled come from one sender, of however many send: the     *)
(* first to be heard, and none when targetPort holds garbage.              *)
OneSource ==
  \A s \in heard : s = target /\ \A t \in heard : s = t

=============================================================================
