------------------------------- MODULE CmdLine -------------------------------
(***************************************************************************)
(* The command line of wineing.exe (cmd_parse of main.win.cc).  An option  *)
(* is told by single characters of the argument: the third, and if that is *)
(* a "c" the ninth.                                                        *)
(***************************************************************************)
EXTENDS Integers, Sequences

\* An argument "--name=value", with what the code looks at: its third and its
\* ninth character.  In an option shorter than those of the usage the ninth
\* is a character of the value, or one behind the argument.
Argument ==
  [name: STRING, value: STRING, third: {"c", "m", "t", "other"}, ninth: {"i", "other"}]

\* The options of cmd_print_usage.
Options == {"cchan-in", "cchan-out", "mchan", "tape-root"}

\* The characters of an option of the usage are those of its name; in any
\* other argument they may be anything.
Spelled(arg) ==
  /\ arg.name \in {"cchan-in", "cchan-out"} => arg.third = "c"
  /\ arg.name = "cchan-in" => arg.ninth = "i"
  /\ arg.name = "cchan-out" => arg.ninth = "other"
  /\ arg.name = "mchan" => arg.third = "m"
  /\ arg.name = "tape-root" => arg.third = "t"

\* The configuration (w_conf) and the bits of allOpts that are set.
Defaults ==
  [cchan_in |-> "tcp://*:9990", cchan_out |-> "tcp://*:9991",
   mchan |-> "tcp://*:9992", tape_basedir |-> "C:\\md\\", allOpts |-> {}]

SetOption(conf, field, value, bits) ==
  [conf EXCEPT ![field] = value, !.allOpts = @ \cup bits]

\* Mutant of ParseOne: the first case has no break.
ParseOneFallThrough(conf, arg) ==
  IF arg.third = "c" THEN
    LET c == IF arg.ninth = "i"
             THEN SetOption(conf, "cchan_in", arg.value, {1})
             ELSE SetOption(conf, "cchan_out", arg.value, {2})
    IN  SetOption(c, "mchan", arg.value, {4})
  ELSE IF arg.third = "m" THEN SetOption(conf, "mchan", arg.value, {4})
  ELSE IF arg.third = "t" THEN SetOption(conf, "tape_basedir", arg.value, {})
  ELSE conf

\* One turn of the loop.  Anything that does not match is passed over.
ParseOne(conf, arg) ==
  IF arg.third = "c" THEN
    IF arg.ninth = "i"
    THEN SetOption(conf, "cchan_in", arg.value, {1})
    ELSE SetOption(conf, "cchan_out", arg.value, {2})
  ELSE IF arg.third = "m" THEN SetOption(conf, "mchan", arg.value, {4})
  ELSE IF arg.third = "t" THEN SetOption(conf, "tape_basedir", arg.value, {})
  ELSE conf

cmd_parse(argv) ==
  LET parsed[i \in 0..Len(argv)] ==
        IF i = 0 THEN Defaults ELSE ParseOne(parsed[i - 1], argv[i])
  IN  parsed[Len(argv)]

\* Otherwise the program prints its usage and exits.
AllOptionsGiven(argv) == cmd_parse(argv).allOpts = {1, 2, 4}
==============================================================================
