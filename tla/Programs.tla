------------------------------- MODULE Programs -------------------------------
(***************************************************************************)
(* The two programs, Sender.cpp and Recipient.cpp: their arguments, the    *)
(* file that one reads and the other writes, and what lies between them.   *)
(*                                                                         *)
(* The transport is ReliableStream, which RUDP is shown to implement, with *)
(* two things that RUDP leaves to its users: the connection may fail or be *)
(* given up, and a receiver that has seen the FIN returns 0 from recv()    *)
(* though bytes wait (RRecv.cpp:28).                                       *)
(***************************************************************************)
EXTENDS CommandLine

CONSTANTS
  SenderArgs, RecipientArgs,   (* the command lines to try                  *)
  Files,        (* the files that open, with their contents                 *)
  Chars,        (* the characters of their names                            *)
  DefaultFile, DefaultAddr, DefaultPort,
  Addresses,    (* what inet_pton parses                                    *)
  Local,        (* the addresses the recipient can bind                     *)
  ChunkSize,    (* sizeof(filebuffer) in Sender.cpp: 102400                 *)
  RecvSize,     (* sizeof(filebuffer) - 1 in Recipient.cpp: 102399          *)
  MSS

NUL == "NUL"

(* A name is a C string and has no NUL, and one that opens fits into one   *)
(* packet with its NUL: Windows allows 260 characters.                     *)
ASSUME FilesAssumption ==
  /\ \A f \in DOMAIN Files : f \in DOMAIN Chars /\ Files[f] \in Seq(Range(Files[f]))
  /\ \A f \in DOMAIN Chars :
       /\ Chars[f] \in Seq(Range(Chars[f])) /\ Chars[f] # <<>>
       /\ NUL \notin Range(Chars[f]) /\ Len(Chars[f]) < MSS
  /\ ChunkSize \in Nat \ {0} /\ MSS \in Nat /\ RecvSize \in Nat /\ RecvSize >= MSS

(* argv. *)
ASSUME ArgumentsAssumption ==
  \A args \in SenderArgs \cup RecipientArgs : args \in Seq(DOMAIN Shape)

VARIABLES
  sArgs, rArgs,             (* the two command lines                        *)
  sParser, rParser,         (* the parsers                                  *)
  sMain, unread,            (* Sender's main: its place, the file's rest    *)
  written, arrived,         (* the stream, and how much of it is buffered   *)
  fin, closed,              (* the FIN is sent; the receiver has handled it *)
  rMain, ready, taken,      (* Recipient's main: its place, whether recv    *)
                            (* has found the receiver open, bytes it took   *)
  outName, outFile          (* the file it writes                           *)

senderVars == <<sArgs, sParser, sMain, unread>>
streamVars == <<written, arrived, fin, closed>>
recipientVars == <<rArgs, rParser, rMain, ready, taken, outName, outFile>>
vars == <<senderVars, streamVars, recipientVars>>

(* The options the programs declare. *)
CommonOptions ==
  [addr |-> Option("i", "string", DefaultAddr), port |-> Option("p", "port", DefaultPort)]
SenderOptions ==
  [addr |-> CommonOptions.addr, port |-> CommonOptions.port,
   file |-> Option("f", "string", DefaultFile)]

FileName == GetOption(sParser, "file")

Init ==
  /\ sArgs \in SenderArgs /\ rArgs \in RecipientArgs
  /\ sParser = Parser(SenderOptions) /\ rParser = Parser(CommonOptions)
  /\ sMain = "args" /\ unread = <<>>
  /\ written = <<>> /\ arrived = 0 /\ fin = FALSE /\ closed = FALSE
  /\ rMain = "args" /\ ready = FALSE /\ taken = 0
  /\ outName = <<>> /\ outFile = <<>>

-----------------------------------------------------------------------------
(* Sender's main.                                                          *)

(* parse_check: the arguments one by one, and then check. *)
SenderParses ==
  /\ sMain = "args"
  /\ IF IsParsed(sParser, sArgs)
       THEN /\ sMain' = Check(sParser, sArgs)
            /\ UNCHANGED sParser
       ELSE /\ sParser' = ParseNext(sParser, sArgs)
            /\ UNCHANGED sMain
  /\ UNCHANGED <<sArgs, unread, streamVars, recipientVars>>

(* The input file. *)
Open ==
  /\ sMain = "run"
  /\ IF FileName \in DOMAIN Files
       THEN sMain' = "connect" /\ unread' = Files[FileName]
       ELSE sMain' = "failed" /\ UNCHANGED unread
  /\ UNCHANGED <<sArgs, sParser, streamVars, recipientVars>>

(* The recipient that the sender's options name is there. *)
Reachable ==
  /\ rMain = "first"
  /\ GetOption(rParser, "addr") = GetOption(sParser, "addr")
  /\ GetOption(rParser, "port") = GetOption(sParser, "port")

(* RSend sender(addr, port): the connection is made. *)
Connect ==
  /\ sMain = "connect" /\ Reachable
  /\ GetOption(sParser, "addr") \in Addresses
  /\ sMain' = "name"
  /\ UNCHANGED <<sArgs, sParser, unread, streamVars, recipientVars>>

(* An address that does not parse is an exception nobody catches; and the  *)
(* sender exits after too many timeouts, at any time.                      *)
GiveUp ==
  /\ sMain \in {"connect", "name", "read", "close"}
  /\ sMain' = "failed"
  /\ UNCHANGED <<sArgs, sParser, unread, streamVars, recipientVars>>

SendName ==
  /\ sMain = "name"
  /\ written' = Chars[FileName] \o <<NUL>>
  /\ sMain' = "read"
  /\ UNCHANGED <<sArgs, sParser, unread, arrived, fin, closed, recipientVars>>

\* Mutant of SendChunk: a chunk that ends at eof is not sent.
SendChunkWhole ==
  /\ sMain = "read"
  /\ IF Len(unread) < ChunkSize
       THEN sMain' = "close" /\ UNCHANGED <<written, unread>>
       ELSE /\ written' = written \o SubSeq(unread, 1, ChunkSize)
            /\ unread' = SubSeq(unread, ChunkSize + 1, Len(unread))
            /\ UNCHANGED sMain
  /\ UNCHANGED <<sArgs, sParser, arrived, fin, closed, recipientVars>>

(* A round of the loop until eof, which only a short read sets. *)
SendChunk ==
  /\ sMain = "read"
  /\ LET n == IF Len(unread) < ChunkSize THEN Len(unread) ELSE ChunkSize
     IN  /\ written' = written \o SubSeq(unread, 1, n)
         /\ unread' = SubSeq(unread, n + 1, Len(unread))
         /\ sMain' = IF n < ChunkSize THEN "close" ELSE "read"
  /\ UNCHANGED <<sArgs, sParser, arrived, fin, closed, recipientVars>>

(* sender.close() returns on an ACK for all data: it may be one that was   *)
(* sent before the FIN is handled.                                         *)
Close ==
  /\ sMain = "close" /\ fin
  /\ sMain' = "done"
  /\ UNCHANGED <<sArgs, sParser, unread, streamVars, recipientVars>>

-----------------------------------------------------------------------------
(* The transport.                                                          *)

(* The receiver's thread runs until the recipient ends. *)
Receiving == rMain \in {"first", "more"}

(* Bytes become part of the receive buffer.  The first that do are a whole *)
(* packet, so the name is not cut.                                         *)
Arrive ==
  /\ Receiving
  /\ \E k \in 1 .. Len(written) - arrived :
       /\ arrived = 0 => k > Len(Chars[FileName])
       /\ arrived' = arrived + k
  /\ UNCHANGED <<written, fin, closed, senderVars, recipientVars>>

(* The sender is closing and everything is acknowledged. *)
SendFin ==
  /\ sMain = "close" /\ ~fin /\ arrived = Len(written)
  /\ fin' = TRUE
  /\ UNCHANGED <<written, arrived, closed, senderVars, recipientVars>>

(* The receiver handles the FIN, whether the sender waits for that, has    *)
(* returned from close(), or has exited.                                   *)
Finish ==
  /\ Receiving /\ fin /\ ~closed
  /\ closed' = TRUE
  /\ UNCHANGED <<written, arrived, fin, senderVars, recipientVars>>

-----------------------------------------------------------------------------
(* Recipient's main.                                                       *)

(* parse_check. *)
RecipientParses ==
  /\ rMain = "args"
  /\ IF IsParsed(rParser, rArgs)
       THEN /\ rMain' = Check(rParser, rArgs)
            /\ UNCHANGED rParser
       ELSE /\ rParser' = ParseNext(rParser, rArgs)
            /\ UNCHANGED rMain
  /\ UNCHANGED <<rArgs, ready, taken, outName, outFile, streamVars, senderVars>>

(* RRecv reci(addr, port) and its bind. *)
Listen ==
  /\ rMain = "run"
  /\ rMain' = IF GetOption(rParser, "addr") \in Addresses \cap Local THEN "first" ELSE "failed"
  /\ UNCHANGED <<rArgs, rParser, ready, taken, outName, outFile, streamVars, senderVars>>

(* recv() finds the receiver open, and will pop. *)
Test ==
  /\ rMain \in {"first", "more"} /\ ~ready /\ ~closed
  /\ ready' = TRUE
  /\ UNCHANGED <<rArgs, rParser, rMain, taken, outName, outFile, streamVars, senderVars>>

(* recv() pops nothing and tests again. *)
PopNothing ==
  /\ ready /\ taken = arrived
  /\ ready' = FALSE
  /\ UNCHANGED <<rArgs, rParser, rMain, taken, outName, outFile, streamVars, senderVars>>

(* How many bytes pop() copies: what waits, up to the length asked for. *)
PopSize == IF arrived - taken < RecvSize THEN arrived - taken ELSE RecvSize

Popped == SubSeq(written, taken + 1, taken + PopSize)

\* Mutant of TakeName: the NUL stays with the contents.
TakeNameOnly ==
  /\ rMain = "first" /\ ready /\ taken < arrived
  /\ LET size == SelectInSeq(Popped, LAMBDA c : c = NUL) - 1
     IN  /\ outName' = SubSeq(Popped, 1, size)
         /\ outFile' = SubSeq(Popped, size + 1, Len(Popped))
  /\ rMain' = "more" /\ ready' = FALSE /\ taken' = taken + PopSize
  /\ UNCHANGED <<rArgs, rParser, streamVars, senderVars>>

(* The first recv() that returns bytes: strlen() splits off the name, the  *)
(* file is opened, the rest is written.  NameRefused is its other outcome. *)
TakeName ==
  /\ rMain = "first" /\ ready /\ taken < arrived
  /\ LET n == SelectInSeq(Popped, LAMBDA c : c = NUL)
     IN  /\ outName' = SubSeq(Popped, 1, n - 1)
         /\ outFile' = SubSeq(Popped, n + 1, Len(Popped))
  /\ rMain' = "more" /\ ready' = FALSE /\ taken' = taken + PopSize
  /\ UNCHANGED <<rArgs, rParser, streamVars, senderVars>>

(* The file of that name does not open. *)
NameRefused ==
  /\ rMain = "first" /\ ready /\ taken < arrived
  /\ rMain' = "failed" /\ ready' = FALSE /\ taken' = taken + PopSize
  /\ UNCHANGED <<rArgs, rParser, outName, outFile, streamVars, senderVars>>

(* A later recv(). *)
TakeChunk ==
  /\ rMain = "more" /\ ready /\ taken < arrived
  /\ outFile' = outFile \o Popped
  /\ ready' = FALSE /\ taken' = taken + PopSize
  /\ UNCHANGED <<rArgs, rParser, rMain, outName, streamVars, senderVars>>

\* Mutant of TakeEnd: recv returns 0 only when the buffer is empty.
TakeEndDrained ==
  /\ rMain \in {"first", "more"} /\ ~ready /\ closed /\ taken = arrived
  /\ rMain' = IF rMain = "first" THEN "failed" ELSE "done"
  /\ UNCHANGED <<rArgs, rParser, ready, taken, outName, outFile, streamVars, senderVars>>

(* recv() returns 0: in the loop it is the end; the first time the name is *)
(* empty and the file of that name does not open.                          *)
TakeEnd ==
  /\ rMain \in {"first", "more"} /\ ~ready /\ closed
  /\ rMain' = IF rMain = "first" THEN "failed" ELSE "done"
  /\ UNCHANGED <<rArgs, rParser, ready, taken, outName, outFile, streamVars, senderVars>>

-----------------------------------------------------------------------------
SenderMain == SenderParses \/ Open \/ Connect \/ GiveUp \/ SendName \/ SendChunk \/ Close
RecipientMain ==
  \/ RecipientParses \/ Listen \/ Test \/ PopNothing
  \/ TakeName \/ NameRefused \/ TakeChunk \/ TakeEnd

Next == SenderMain \/ Arrive \/ SendFin \/ Finish \/ RecipientMain

Spec == Init /\ [][Next]_vars

(* Both programs run. *)
FairSpec == Spec /\ WF_vars(SenderMain) /\ WF_vars(RecipientMain)

-----------------------------------------------------------------------------
(* A parser's reading of the arguments, said without parsing: an argument  *)
(* is a value if the one before it is not, and ends in the name of an      *)
(* option that takes one.                                                  *)
AsksFor(options, arg) ==
  LET s == Shape[arg]
  IN  {name \in DOMAIN options :
         /\ options[name].valued
         /\ \/ s.kind = "long" /\ ~s.eq /\ s.name = name
            \/ s.kind = "short" /\ options[name].letter = Last(s.letters)}

(* The places of the arguments that are not values. *)
Names(options, args) ==
  {i \in DOMAIN args :
     \/ i = 1
     \/ \E j \in 1 .. i : /\ (i - j) % 2 = 0
                          /\ j = 1 \/ AsksFor(options, args[j - 1]) = {}
                          /\ \A k \in j .. i - 1 : AsksFor(options, args[k]) # {}}

(* The pairs <<i, value>> that give name a value. *)
Given(options, args, name) ==
  {<<i, args[i + 1]>> : i \in {j \in Names(options, args) :
      j < Len(args) /\ name \in AsksFor(options, args[j])}}
  \cup
  {<<i, Shape[args[i]].value>> : i \in {j \in Names(options, args) :
      Shape[args[j]].kind = "long" /\ Shape[args[j]].eq /\ Shape[args[j]].name = name}}

(* Of every option the value that was given last, or the default; every    *)
(* value given was one of the option's.                                    *)
RightOptions(options, args, p) ==
  \A name \in DOMAIN options :
    \E given \in {Given(options, args, name)} :
      /\ \A g \in given : options[name].reader = "port" =>
           g[2] \in DOMAIN IntOf /\ IntOf[g[2]] > 0 /\ IntOf[g[2]] <= MaxPort
      /\ given = {} => GetOption(p, name) = options[name].actual
      /\ \A g \in given : (\A h \in given : h[1] <= g[1])
           => GetOption(p, name) = ReadAs(options[name].reader, g[2])

(* What a program that runs works with is what its arguments say, in       *)
(* whatever order and form they come.  (cmdline.h, parse.)                 *)
OptionsAreRight ==
  /\ sMain = "run" => RightOptions(SenderOptions, sArgs, sParser)
  /\ rMain = "run" => RightOptions(CommonOptions, rArgs, rParser)

(* The output has the name of the input and begins as it does, however the *)
(* stream is cut into chunks, packets and pieces that recv() returns.      *)
CopyIsFaithful ==
  rMain \in {"more", "done"} =>
    outName = Chars[FileName] /\ IsPrefix(outFile, Files[FileName])

(* When the recipient ends, what its file lacks is what recv() left unread *)
(* in the buffer; of what it took nothing is missing.                      *)
OnlyUnreadIsLost ==
  rMain = "done" /\ taken = arrived => outFile = Files[FileName]

(* A recipient whose receiver has handled the FIN ends. *)
RecipientEnds == closed ~> rMain \in {"done", "failed"}

=============================================================================
