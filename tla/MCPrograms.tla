---------------------------- MODULE MCPrograms ----------------------------
(* The instance of Programs that TLC checks. *)
EXTENDS Programs

Long(name) == [kind |-> "long", name |-> name, eq |-> FALSE]
LongIs(name, value) == [kind |-> "long", name |-> name, eq |-> TRUE, value |-> value]
Short(letters) == [kind |-> "short", letters |-> letters]
Plain == [kind |-> "plain"]

Shapes ==
  [a \in {"1", "2", "0", "70000", "x", "a.txt", "here", "there"} |-> Plain]
  @@ ("-" :> [kind |-> "dash"])
  @@ ("--port" :> Long("port")) @@ ("--port=2" :> LongIs("port", "2"))
  @@ ("--port=70000" :> LongIs("port", "70000"))
  @@ ("--file=a.txt" :> LongIs("file", "a.txt")) @@ ("--help" :> Long("help"))
  @@ ("--help=x" :> LongIs("help", "x")) @@ ("--none" :> Long("none"))
  @@ ("-p" :> Short(<<"p">>)) @@ ("-f" :> Short(<<"f">>)) @@ ("-i" :> Short(<<"i">>))
  @@ ("-?" :> Short(<<"?">>)) @@ ("-pf" :> Short(<<"p", "f">>)) @@ ("-z" :> Short(<<"z">>))

Ints == ("0" :> 0) @@ ("1" :> 1) @@ ("2" :> 2) @@ ("70000" :> 70000)

Tried == {"--port", "--port=2", "--port=70000", "--file=a.txt",
          "--none", "-p", "-f", "-?", "-pf", "-", "2", "0", "a.txt"}

MCSenderArgs == UNION {[1 .. n -> Tried] : n \in 0 .. 3}

MCRecipientArgs ==
  {<<>>, <<"-p", "2">>, <<"-i", "there">>, <<"--help">>}

(* One file ends inside a chunk, the other with one; one has a zero byte. *)
MCFiles == ("1.jpg" :> <<"r", "s", "t">>) @@ ("a.txt" :> <<"r", NUL, "s", "t">>)
MCChars == ("1.jpg" :> <<"j">>) @@ ("a.txt" :> <<"a", "t">>)

=============================================================================
