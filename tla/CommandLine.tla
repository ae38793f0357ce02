----------------------------- MODULE CommandLine -----------------------------
(***************************************************************************)
(* The command line parser of Common/cmdline.h as the two programs use it: *)
(* parser::parse over argv, one argument at a time, the options it sets,   *)
(* and check.                                                              *)
(*                                                                         *)
(* An argument is a string.  How it reads (Shape) and which number it      *)
(* stands for (IntOf) are tables: a record                                 *)
(*   [kind |-> "long", name, eq, value]   --name or --name=value           *)
(*   [kind |-> "short", letters]          -abc                             *)
(*   [kind |-> "dash"] or [kind |-> "plain"]                               *)
(***************************************************************************)
EXTENDS Integers, SequencesExt

CONSTANTS
  Shape,    (* the shape of each argument                                   *)
  IntOf,    (* the numbers that some arguments are, in full                 *)
  MaxPort   (* 65535                                                        *)

ASSUME CommandLineAssumption ==
  /\ DOMAIN IntOf \subseteq DOMAIN Shape /\ MaxPort \in Nat \ {0}
  /\ \A a \in DOMAIN Shape :
       Shape[a].kind = "short" => Len(Shape[a].letters) \in Nat \ {0}    \* "-" is a dash

None == "no option"

(* add<T>(name, short_name, desc, need, def, reader). *)
Option(letter, reader, def) ==
  [letter |-> letter, valued |-> TRUE, need |-> FALSE, reader |-> reader,
   has |-> FALSE, actual |-> def]

(* add(name, short_name, desc). *)
Flag(letter) ==
  [letter |-> letter, valued |-> FALSE, need |-> FALSE, reader |-> None,
   has |-> FALSE, actual |-> None]

(* parse_check(): help is added unless there is one. *)
WithHelp(options) ==
  [name \in DOMAIN options \cup {"help"} |->
     IF name \in DOMAIN options THEN options[name] ELSE Flag("?")]

(* Whether a reader takes the value: default_reader<string> all of them,   *)
(* range_reader<int> what lexical_cast reads as a number in the range.     *)
Reads(reader, value) ==
  \/ reader = "string"
  \/ reader = "port" /\ value \in DOMAIN IntOf /\ IntOf[value] \in 1 .. MaxPort

ReadAs(reader, value) == IF reader = "port" THEN IntOf[value] ELSE value

(* A parser: its options, how many arguments it has read, the option that  *)
(* waits for its value, and whether there are no errors so far.            *)
Parser(options) ==
  [options |-> WithHelp(options), read |-> 0, waits |-> None, ok |-> TRUE]

Error(p) == [p EXCEPT !.ok = FALSE]

(* set_option(name). *)
SetFlag(p, name) ==
  IF name \in DOMAIN p.options /\ ~p.options[name].valued
    THEN [p EXCEPT !.options[name].has = TRUE]
    ELSE Error(p)

(* set_option(name, value). *)
SetValue(p, name, value) ==
  IF /\ name \in DOMAIN p.options
     /\ p.options[name].valued
     /\ Reads(p.options[name].reader, value)
    THEN [p EXCEPT !.options[name].has = TRUE,
                   !.options[name].actual = ReadAs(p.options[name].reader, value)]
    ELSE Error(p)

(* The lookup of short names. *)
Named(p, letter) == {name \in DOMAIN p.options : p.options[name].letter = letter}

SetLetter(p, letter) ==
  IF Named(p, letter) = {} THEN Error(p)
  ELSE SetFlag(p, CHOOSE name \in Named(p, letter) : TRUE)

Waits(p, name) == [p EXCEPT !.waits = name]

(* --name=value, --name, and --name with its value in the next argument.   *)
ParseLong(p, arg, isLast) ==
  IF arg.eq THEN SetValue(p, arg.name, arg.value)
  ELSE IF arg.name \notin DOMAIN p.options THEN Error(p)
  ELSE IF ~p.options[arg.name].valued THEN SetFlag(p, arg.name)
  ELSE IF isLast THEN Error(p)
  ELSE Waits(p, arg.name)

(* -abc: only the last letter may take a value, from the next argument. *)
ParseShort(p, arg, isLast) ==
  LET letter == Last(arg.letters)
      after[n \in Nat] == IF n = 0 THEN p ELSE SetLetter(after[n - 1], arg.letters[n])
      before == after[Len(arg.letters) - 1]
      valued == {name \in Named(p, letter) : p.options[name].valued}
  IN  IF valued # {} /\ ~isLast THEN Waits(before, CHOOSE name \in valued : TRUE)
      ELSE SetLetter(before, letter)

\* Mutant of ParseArg: the next argument is parsed again after it was a value.
ParseArgTwice(p, arg, isLast) ==
  LET q == IF p.waits = None THEN p ELSE [SetValue(p, p.waits, arg) EXCEPT !.waits = None]
  IN  CASE Shape[arg].kind = "long"  -> ParseLong(q, Shape[arg], isLast)
        [] Shape[arg].kind = "short" -> ParseShort(q, Shape[arg], isLast)
        [] OTHER -> q

(* One round of parse()'s loop; an argument that is a value was skipped by *)
(* the round before.  A single dash is ignored, a plain argument is kept   *)
(* for rest(), which nobody asks for.                                      *)
ParseArg(p, arg, isLast) ==
  IF p.waits # None THEN [SetValue(p, p.waits, arg) EXCEPT !.waits = None]
  ELSE CASE Shape[arg].kind = "long"  -> ParseLong(p, Shape[arg], isLast)
         [] Shape[arg].kind = "short" -> ParseShort(p, Shape[arg], isLast)
         [] OTHER -> p

(* parse() refuses to start when two options have one short name. *)
Ambiguous(options) ==
  \E m, n \in DOMAIN options : m # n /\ options[m].letter = options[n].letter

(* Where parse()'s loop ends; args is argv without the program's name. *)
IsParsed(p, args) == p.read = Len(args) \/ Ambiguous(p.options)

(* A round of the loop. *)
ParseNext(p, args) ==
  [ParseArg(p, args[p.read + 1], p.read + 1 = Len(args)) EXCEPT !.read = @ + 1]

(* parse()'s answer. *)
Parses(p) ==
  /\ p.ok /\ ~Ambiguous(p.options)
  /\ \A name \in DOMAIN p.options : p.options[name].need => p.options[name].has

(* check(): the usage is printed and the program exits with 0 or with 1,   *)
(* or it runs.                                                             *)
Check(p, args) ==
  IF p.options["help"].has \/ (args = <<>> /\ ~Parses(p)) THEN "usage"
  ELSE IF Parses(p) THEN "run" ELSE "error"

(* get<T>(name). *)
GetOption(p, name) == p.options[name].actual

=============================================================================
