---------------------------- MODULE CmdLine_proofs ----------------------------
(***************************************************************************)
(* Proofs about the command line, for command lines of any length: what    *)
(* cmd_parse makes of the options, and that the server starts only with    *)
(* the channels it was given.  Induction over the arguments is by the      *)
(* least counterexample, a natural number.                                 *)
(***************************************************************************)
EXTENDS Wineing_proofs, WellFoundedInduction

\* A set of numbers that holds zero and the successor of each member up to n
\* holds every number up to n.
LEMMA UpTo ==
  ASSUME NEW n \in Nat, NEW T, 0 \in T, \A i \in 0..n : i \in T /\ i < n => i + 1 \in T
  PROVE  0..n \subseteq T
<1> SUFFICES ASSUME NEW k \in 0..n, k \notin T PROVE FALSE
  OBVIOUS
<1> DEFINE U == {i \in 0..n : i \notin T}
           R == OpToRel(<, Nat)
<1>1. U \subseteq Nat /\ U # {}
  OBVIOUS
<1>2. \A a, b \in Nat : a < b => <<a, b>> \in R
  BY DEF OpToRel
<1>3. IsWellFoundedOn(R, Nat)
  BY NatLessThanWellFounded, Zenon
<1> HIDE DEF R
<1>4. PICK x \in U : \A y \in U : ~(<<y, x>> \in R)
  BY <1>1, <1>3, WFMin
<1>5. x \in 0..n /\ x # 0 /\ x \notin T
  OBVIOUS
<1>6. x - 1 \in 0..n /\ x - 1 < x /\ x - 1 < n /\ (x - 1) + 1 = x
  BY <1>5
<1>7. x - 1 \in T
  <2>1. <<x - 1, x>> \in R
    BY <1>2, <1>5, <1>6
  <2>2. x - 1 \in U => FALSE
    BY <1>4, <2>1, Zenon
  <2> QED BY <1>6, <2>2
<1> QED BY <1>5, <1>6, <1>7

------------------------------------------------------------------------------
(* The loop of cmd_parse                                                   *)

\* What an option can hold: what it was given, or its default.
Value == STRING \cup {Defaults.cchan_in, Defaults.cchan_out, Defaults.mchan,
                      Defaults.tape_basedir}
Conf == [cchan_in: Value, cchan_out: Value, mchan: Value, tape_basedir: Value,
         allOpts: SUBSET {1, 2, 4}]

\* f holds the configuration after each of the first m arguments of line.
Parses(line, m, f) ==
  f = [i \in 0..m |-> IF i = 0 THEN Defaults ELSE ParseOne(f[i - 1], line[i])]

\* The loop has a result after any number of arguments.
LEMMA ParsesExists ==
  ASSUME NEW line, NEW n \in Nat
  PROVE  \E f : Parses(line, n, f)
<1> DEFINE T == {m \in Nat : \E f : Parses(line, m, f)}
<1>1. 0 \in T
  <2>1. Parses(line, 0, [i \in 0..0 |-> Defaults])
    BY DEF Parses
  <2> QED BY <2>1
<1>2. ASSUME NEW m \in 0..n, m \in T, m < n PROVE m + 1 \in T
  <2>1. PICK f : Parses(line, m, f)
    BY <1>2
  <2> DEFINE g == [i \in 0..(m + 1) |-> IF i = m + 1 THEN ParseOne(f[m], line[m + 1]) ELSE f[i]]
  <2>2. f = [i \in 0..m |-> IF i = 0 THEN Defaults ELSE ParseOne(f[i - 1], line[i])]
    BY <2>1 DEF Parses
  <2>3. ASSUME NEW i \in 0..(m + 1)
        PROVE  g[i] = IF i = 0 THEN Defaults ELSE ParseOne(g[i - 1], line[i])
    <3>1. CASE i = m + 1
      <4>1. g[i] = ParseOne(f[m], line[m + 1]) /\ i # 0
        BY <1>2, <3>1
      <4>2. g[i - 1] = f[m]
        BY <1>2, <3>1
      <4> QED BY <3>1, <4>1, <4>2
    <3>2. CASE i = 0
      BY <1>2, <2>2, <3>2
    <3>3. CASE i # 0 /\ i # m + 1
      <4>1. i \in 0..m /\ i - 1 \in 0..m /\ g[i] = f[i] /\ g[i - 1] = f[i - 1]
        BY <1>2, <3>3
      <4>2. f[i] = ParseOne(f[i - 1], line[i])
        BY <2>2, <3>3, <4>1
      <4> QED BY <3>3, <4>1, <4>2
    <3> QED BY <3>1, <3>2, <3>3
  <2>4. g = [i \in 0..(m + 1) |-> IF i = 0 THEN Defaults ELSE ParseOne(g[i - 1], line[i])]
    BY <2>3
  <2>5. Parses(line, m + 1, g)
    BY <2>4, Zenon DEF Parses
  <2> QED BY <1>2, <2>5
<1> HIDE DEF T
<1>3. 0..n \subseteq T
  BY <1>1, <1>2, UpTo
<1> QED BY <1>3 DEF T

\* cmd_parse returns what the loop has after the last argument.
LEMMA cmd_parseResult ==
  ASSUME NEW line, Len(line) \in Nat
  PROVE  \E f : Parses(line, Len(line), f) /\ cmd_parse(line) = f[Len(line)]
<1> DEFINE f == CHOOSE f : Parses(line, Len(line), f)
<1>1. Parses(line, Len(line), f)
  BY ParsesExists
<1>2. cmd_parse(line) = f[Len(line)]
  BY DEF cmd_parse, Parses
<1> QED BY <1>1, <1>2

------------------------------------------------------------------------------
(* What the options become                                                 *)

\* The bit of allOpts that stands for a channel.
Bit == [cchan_in |-> 1, cchan_out |-> 2, mchan |-> 4]

\* cmd_parse takes the argument for channel c.
Takes(c, arg) ==
  \/ c = "cchan_in" /\ arg.third = "c" /\ arg.ninth = "i"
  \/ c = "cchan_out" /\ arg.third = "c" /\ arg.ninth # "i"
  \/ c = "mchan" /\ arg.third = "m"

\* One of the first i arguments of line was taken for channel c, and conf has
\* the value of the last of them.
GivenLast(line, i, c, conf) ==
  \E k \in 1..i :
    /\ Takes(c, line[k])
    /\ line[k].value = conf[c]
    /\ \A j \in (k + 1)..i : ~Takes(c, line[j])

\* The channels there are.
LEMMA Channels ==
  /\ DOMAIN ChannelOption = {"cchan_in", "cchan_out", "mchan"}
  /\ ChannelOption["cchan_in"] = "cchan-in" /\ Bit["cchan_in"] = 1
  /\ ChannelOption["cchan_out"] = "cchan-out" /\ Bit["cchan_out"] = 2
  /\ ChannelOption["mchan"] = "mchan" /\ Bit["mchan"] = 4
BY DEF ChannelOption, Bit

\* Setting a field and some bits changes nothing else.
LEMMA SetOptionEffect ==
  ASSUME NEW conf \in Conf, NEW field \in {"cchan_in", "cchan_out", "mchan", "tape_basedir"},
         NEW value \in Value, NEW bits \in SUBSET {1, 2, 4}
  PROVE  /\ SetOption(conf, field, value, bits) \in Conf
         /\ SetOption(conf, field, value, bits)[field] = value
         /\ \A g \in {"cchan_in", "cchan_out", "mchan", "tape_basedir"} :
              g # field => SetOption(conf, field, value, bits)[g] = conf[g]
         /\ SetOption(conf, field, value, bits).allOpts = conf.allOpts \cup bits
BY DEF SetOption, Conf

\* One turn of the loop: an argument taken for the channel sets it and its
\* bit, any other argument leaves both alone.
LEMMA ParseOneEffect ==
  ASSUME NEW conf \in Conf, NEW arg \in Argument
  PROVE  /\ ParseOne(conf, arg) \in Conf
         /\ \A c \in DOMAIN ChannelOption :
              /\ Takes(c, arg) => /\ ParseOne(conf, arg)[c] = arg.value
                                 /\ Bit[c] \in ParseOne(conf, arg).allOpts
              /\ ~Takes(c, arg) =>
                   /\ ParseOne(conf, arg)[c] = conf[c]
                   /\ Bit[c] \in ParseOne(conf, arg).allOpts <=> Bit[c] \in conf.allOpts
<1>1. arg.third \in {"c", "m", "t", "other"} /\ arg.value \in Value
  BY DEF Argument, Value
<1>2. CASE arg.third = "c" /\ arg.ninth = "i"
  <2>1. ParseOne(conf, arg) = SetOption(conf, "cchan_in", arg.value, {1})
    BY <1>2 DEF ParseOne
  <2>2. /\ ParseOne(conf, arg) \in Conf
        /\ ParseOne(conf, arg)["cchan_in"] = arg.value
        /\ ParseOne(conf, arg)["cchan_out"] = conf["cchan_out"]
        /\ ParseOne(conf, arg)["mchan"] = conf["mchan"]
        /\ ParseOne(conf, arg).allOpts = conf.allOpts \cup {1}
    BY <1>1, <2>1, SetOptionEffect
  <2> QED BY <1>2, <2>2, Channels DEF Takes
<1>3. CASE arg.third = "c" /\ arg.ninth # "i"
  <2>1. ParseOne(conf, arg) = SetOption(conf, "cchan_out", arg.value, {2})
    BY <1>3 DEF ParseOne
  <2>2. /\ ParseOne(conf, arg) \in Conf
        /\ ParseOne(conf, arg)["cchan_in"] = conf["cchan_in"]
        /\ ParseOne(conf, arg)["cchan_out"] = arg.value
        /\ ParseOne(conf, arg)["mchan"] = conf["mchan"]
        /\ ParseOne(conf, arg).allOpts = conf.allOpts \cup {2}
    BY <1>1, <2>1, SetOptionEffect
  <2> QED BY <1>3, <2>2, Channels DEF Takes
<1>4. CASE arg.third = "m"
  <2>1. ParseOne(conf, arg) = SetOption(conf, "mchan", arg.value, {4})
    BY <1>4 DEF ParseOne
  <2>2. /\ ParseOne(conf, arg) \in Conf
        /\ ParseOne(conf, arg)["cchan_in"] = conf["cchan_in"]
        /\ ParseOne(conf, arg)["cchan_out"] = conf["cchan_out"]
        /\ ParseOne(conf, arg)["mchan"] = arg.value
        /\ ParseOne(conf, arg).allOpts = conf.allOpts \cup {4}
    BY <1>1, <2>1, SetOptionEffect
  <2> QED BY <1>4, <2>2, Channels DEF Takes
<1>5. CASE arg.third = "t"
  <2>1. ParseOne(conf, arg) = SetOption(conf, "tape_basedir", arg.value, {})
    BY <1>5 DEF ParseOne
  <2>2. /\ ParseOne(conf, arg) \in Conf
        /\ ParseOne(conf, arg)["cchan_in"] = conf["cchan_in"]
        /\ ParseOne(conf, arg)["cchan_out"] = conf["cchan_out"]
        /\ ParseOne(conf, arg)["mchan"] = conf["mchan"]
        /\ ParseOne(conf, arg).allOpts = conf.allOpts
    <3>1. PICK value \in Value : value = arg.value
      BY <1>1 DEF Value
    <3>2. SetOption(conf, "tape_basedir", value, {}) \in Conf
      BY DEF SetOption, Conf
    <3>3. SetOption(conf, "tape_basedir", value, {}).allOpts = conf.allOpts
      BY DEF SetOption, Conf
    <3>4. \A g \in {"cchan_in", "cchan_out", "mchan"} :
            SetOption(conf, "tape_basedir", value, {})[g] = conf[g]
      BY DEF SetOption, Conf
    <3> QED BY <2>1, <3>1, <3>2, <3>3, <3>4
  <2> QED BY <1>5, <2>2, Channels DEF Takes
<1>6. CASE arg.third = "other"
  <2>1. ParseOne(conf, arg) = conf
    BY <1>6 DEF ParseOne
  <2> QED BY <1>6, <2>1, Channels DEF Takes
<1> QED BY <1>1, <1>2, <1>3, <1>4, <1>5, <1>6

\* A channel has its bit set exactly if some argument was taken for it, and
\* then the value of the last one, whatever the arguments, their order and
\* their number.
LEMMA cmd_parseGives ==
  ASSUME NEW line \in Seq(Argument)
  PROVE  /\ cmd_parse(line) \in Conf
         /\ \A c \in DOMAIN ChannelOption :
              \/ /\ Bit[c] \in cmd_parse(line).allOpts
                 /\ GivenLast(line, Len(line), c, cmd_parse(line))
              \/ /\ Bit[c] \notin cmd_parse(line).allOpts
                 /\ \A k \in 1..Len(line) : ~Takes(c, line[k])
<1>0. Len(line) \in Nat /\ \A i \in 1..Len(line) : line[i] \in Argument
  OBVIOUS
<1>1. PICK f : Parses(line, Len(line), f) /\ cmd_parse(line) = f[Len(line)]
  BY <1>0, cmd_parseResult
<1>2. f = [i \in 0..Len(line) |-> IF i = 0 THEN Defaults ELSE ParseOne(f[i - 1], line[i])]
  BY <1>1 DEF Parses
<1>3. f[0] = Defaults
  BY <1>0, <1>2
<1> DEFINE Good(i) ==
             /\ f[i] \in Conf
             /\ \A c \in DOMAIN ChannelOption :
                  \/ /\ Bit[c] \in f[i].allOpts
                     /\ GivenLast(line, i, c, f[i])
                  \/ /\ Bit[c] \notin f[i].allOpts
                     /\ \A k \in 1..i : ~Takes(c, line[k])
           T == {i \in 0..Len(line) : Good(i)}
<1>4. 0 \in T
  <2>1. Defaults \in Conf /\ Defaults.allOpts = {}
    <3>1. Defaults = [cchan_in |-> Defaults.cchan_in, cchan_out |-> Defaults.cchan_out,
                      mchan |-> Defaults.mchan, tape_basedir |-> Defaults.tape_basedir,
                      allOpts |-> {}]
      BY DEF Defaults
    <3>2. Defaults.allOpts = {}
      BY DEF Defaults
    <3>3. ASSUME NEW p \in Value, NEW q \in Value, NEW r \in Value, NEW d \in Value
          PROVE  [cchan_in |-> p, cchan_out |-> q, mchan |-> r, tape_basedir |-> d,
                  allOpts |-> {}] \in Conf
      BY DEF Conf
    <3>4. Defaults \in Conf
      <4>1. /\ Defaults.cchan_in \in Value /\ Defaults.cchan_out \in Value
            /\ Defaults.mchan \in Value /\ Defaults.tape_basedir \in Value
        BY DEF Value
      <4> QED BY <3>1, <3>3, <4>1, Zenon
    <3> QED BY <3>2, <3>4
  <2> QED BY <1>0, <1>3, <2>1
<1>5. ASSUME NEW i \in 0..Len(line), i \in T, i < Len(line) PROVE i + 1 \in T
  <2>1. i + 1 \in 0..Len(line) /\ i + 1 \in 1..Len(line) /\ i + 1 # 0 /\ (i + 1) - 1 = i
    BY <1>0, <1>5
  <2>2. f[i + 1] = ParseOne(f[i], line[i + 1])
    BY <1>2, <2>1
  <2>3. f[i] \in Conf /\ line[i + 1] \in Argument
    BY <1>0, <1>5, <2>1
  <2>4. /\ f[i + 1] \in Conf
        /\ \A c \in DOMAIN ChannelOption :
             /\ Takes(c, line[i + 1]) => /\ f[i + 1][c] = line[i + 1].value
                                        /\ Bit[c] \in f[i + 1].allOpts
             /\ ~Takes(c, line[i + 1]) =>
                  /\ f[i + 1][c] = f[i][c]
                  /\ Bit[c] \in f[i + 1].allOpts <=> Bit[c] \in f[i].allOpts
    <3>1. PICK conf \in Conf : conf = f[i]
      BY <2>3
    <3>2. PICK arg \in Argument : arg = line[i + 1]
      BY <2>3
    <3>3. /\ ParseOne(conf, arg) \in Conf
          /\ \A c \in DOMAIN ChannelOption :
               /\ Takes(c, arg) => /\ ParseOne(conf, arg)[c] = arg.value
                                  /\ Bit[c] \in ParseOne(conf, arg).allOpts
               /\ ~Takes(c, arg) =>
                    /\ ParseOne(conf, arg)[c] = conf[c]
                    /\ Bit[c] \in ParseOne(conf, arg).allOpts <=> Bit[c] \in conf.allOpts
      BY ParseOneEffect
    <3>4. f[i + 1] = ParseOne(conf, arg)
      BY <2>2, <3>1, <3>2, Zenon
    <3>5. f[i + 1] \in Conf
      BY <3>3, <3>4, Zenon
    <3>6. ASSUME NEW c \in DOMAIN ChannelOption
          PROVE  /\ Takes(c, line[i + 1]) => /\ f[i + 1][c] = line[i + 1].value
                                            /\ Bit[c] \in f[i + 1].allOpts
                 /\ ~Takes(c, line[i + 1]) =>
                      /\ f[i + 1][c] = f[i][c]
                      /\ Bit[c] \in f[i + 1].allOpts <=> Bit[c] \in f[i].allOpts
      <4>1. /\ ParseOne(conf, arg) = f[i + 1] /\ ParseOne(conf, arg)[c] = f[i + 1][c]
            /\ ParseOne(conf, arg).allOpts = f[i + 1].allOpts
            /\ arg.value = line[i + 1].value /\ conf[c] = f[i][c] /\ conf.allOpts = f[i].allOpts
        BY <3>1, <3>2, <3>4, Zenon
      <4>2. CASE Takes(c, line[i + 1])
        <5>1. Takes(c, arg)
          BY <3>2, <4>2, Zenon
        <5>2. ParseOne(conf, arg)[c] = arg.value /\ Bit[c] \in ParseOne(conf, arg).allOpts
          BY <3>3, <5>1, Zenon
        <5>3. f[i + 1][c] = line[i + 1].value /\ Bit[c] \in f[i + 1].allOpts
          BY <4>1, <5>2, Zenon
        <5> QED BY <4>2, <5>3, Zenon
      <4>3. CASE ~Takes(c, line[i + 1])
        <5>1. ~Takes(c, arg)
          BY <3>2, <4>3, Zenon
        <5>2. /\ ParseOne(conf, arg)[c] = conf[c]
              /\ Bit[c] \in ParseOne(conf, arg).allOpts <=> Bit[c] \in conf.allOpts
          BY <3>3, <5>1, Zenon
        <5>3. /\ f[i + 1][c] = f[i][c]
              /\ Bit[c] \in f[i + 1].allOpts <=> Bit[c] \in f[i].allOpts
          BY <4>1, <5>2
        <5> QED BY <4>3, <5>3, Zenon
      <4> QED BY <4>2, <4>3, Zenon
    <3> QED BY <3>5, <3>6
  <2>5. ASSUME NEW c \in DOMAIN ChannelOption
        PROVE  \/ /\ Bit[c] \in f[i + 1].allOpts
                  /\ GivenLast(line, i + 1, c, f[i + 1])
               \/ /\ Bit[c] \notin f[i + 1].allOpts
                  /\ \A k \in 1..(i + 1) : ~Takes(c, line[k])
    <3>0. \A k \in 1..(i + 1) : k \in 1..i \/ k = i + 1
      BY <2>1
    <3>1. CASE Takes(c, line[i + 1])
      <4>1. i + 1 \in 1..(i + 1) /\ (i + 1 + 1)..(i + 1) = {}
        BY <2>1
      <4> QED BY <2>4, <3>1, <4>1 DEF GivenLast
    <3>2. CASE ~Takes(c, line[i + 1]) /\ Bit[c] \in f[i].allOpts
      <4>1. f[i + 1][c] = f[i][c] /\ Bit[c] \in f[i + 1].allOpts
        BY <2>4, <3>2
      <4>2. GivenLast(line, i, c, f[i])
        BY <1>5, <3>2
      <4>3. PICK k \in 1..i : /\ Takes(c, line[k])
                              /\ line[k].value = f[i][c]
                              /\ \A j \in (k + 1)..i : ~Takes(c, line[j])
        BY <4>2 DEF GivenLast
      <4>4. k \in 1..(i + 1) /\ \A j \in (k + 1)..(i + 1) : j \in (k + 1)..i \/ j = i + 1
        BY <2>1
      <4> QED BY <3>2, <4>1, <4>3, <4>4 DEF GivenLast
    <3>3. CASE ~Takes(c, line[i + 1]) /\ Bit[c] \notin f[i].allOpts
      <4>1. \A k \in 1..i : ~Takes(c, line[k])
        BY <1>5, <3>3
      <4>2. Bit[c] \notin f[i + 1].allOpts
        BY <2>4, <3>3
      <4> QED BY <3>0, <3>3, <4>1, <4>2, Zenon
    <3> QED BY <3>1, <3>2, <3>3
  <2> QED BY <2>1, <2>4, <2>5
<1> HIDE DEF T
<1>6. 0..Len(line) \subseteq T
  BY <1>0, <1>4, <1>5, UpTo
<1>7. Good(Len(line))
  BY <1>0, <1>6 DEF T
<1> QED BY <1>1, <1>7

------------------------------------------------------------------------------
(* The server that starts                                                  *)

\* main goes past wineing_init only when every bit is set, and gives up only
\* when one is not or NxCore cannot be loaded.
OptionsInv ==
  /\ mainPc \notin {"init", "exit"} => AllOptionsGiven(argv)
  /\ mainPc = "exit" => ~(AllOptionsGiven(argv) /\ wininf_nxcore_load)

\* Only main changes mainPc, and nobody changes the command line or what
\* became of loading NxCore.
LEMMA OptionsFrame ==
  ASSUME [Next]_vars
  PROVE  argv' = argv /\ nxlib' = nxlib /\ (mainPc' = mainPc \/ MainRun)
<1>1. CASE UNCHANGED vars
  BY <1>1 DEF vars, nxVars, envVars
<1>2. CASE MainRun
  BY <1>2 DEF MainRun, MainStart, MainJoin, MainShutdown, nxVars, envVars
<1>3. CASE CchanInRequest
  <2>1. \/ \E type : Respond(type)
        \/ \E r : Unparsable(r)
    BY <1>3 DEF CchanInRequest, StartWhileRunning, StartFileMissing, StartAccepted, MarketStop,
                Shutdown
  <2> QED BY <2>1 DEF Respond, Unparsable, nxVars, envVars
<1>4. CASE CchanInRun
  BY <1>4 DEF CchanInRun, CchanInBind, CchanInConnect, CchanInSend, CchanInDestroy, CchanInLoop,
              nxVars, envVars
<1>5. CASE CchanOutRun \/ PipeTerm
  BY <1>5 DEF CchanOutRun, CchanOutBind, CchanOutBindInproc, CchanOutLoop, CchanOutRecv,
              CchanOutSend, CchanOutDestroy, PipeTerm, nxVars, envVars
<1>6. CASE MarketRun \/ NxTapeEnd
  <2>1. \/ MarketBind \/ MarketConnect \/ MarketWake \/ MarketDestroy \/ NxCallback \/ NxTapeEnd
        \/ \E next : MarketPoll(next)
        \/ \E status : NxCallbackReturn(status)
    BY <1>6 DEF MarketRun, MarketStopped, MarketShutdown, MarketIdle, MarketStart,
                wininf_nxcore_run
  <2> QED BY <2>1 DEF MarketBind, MarketConnect, MarketWake, MarketDestroy, NxCallback,
                      NxTapeEnd, MarketPoll, NxCallbackReturn, nxVars, envVars
<1>7. CASE Interrupted
  BY <1>7 DEF Interrupted, CchanInRecvInterrupted, CchanInSendInterrupted, CchanInLoop,
              CchanOutRecvInterrupted, CchanOutSendInterrupted, nxVars, envVars
<1> QED BY <1>1, <1>2, <1>3, <1>4, <1>5, <1>6, <1>7 DEF Next

\* Every step keeps it so.
LEMMA NextOptionsInv == OptionsInv /\ [Next]_vars => OptionsInv'
<1> SUFFICES ASSUME OptionsInv, [Next]_vars PROVE OptionsInv'
  OBVIOUS
<1>1. argv' = argv /\ nxlib' = nxlib /\ (mainPc' = mainPc \/ MainRun)
  BY OptionsFrame
<1>2. /\ AllOptionsGiven(argv)' <=> AllOptionsGiven(argv)
      /\ wininf_nxcore_load' <=> wininf_nxcore_load
  BY <1>1 DEF wininf_nxcore_load
<1>3. CASE mainPc' = mainPc
  BY <1>2, <1>3 DEF OptionsInv
<1>4. CASE MainRun
  <2>1. CASE MainStart
    BY <1>2, <2>1 DEF MainStart, OptionsInv
  <2>2. CASE MainJoin \/ MainShutdown
    BY <1>2, <2>2 DEF MainJoin, Join, MainShutdown, OptionsInv
  <2> QED BY <1>4, <2>1, <2>2 DEF MainRun
<1> QED BY <1>1, <1>3, <1>4

\* cmd_parse takes for a channel exactly what counts for it: the characters of
\* an option of the usage are its own.
LEMMA TakesWhatCounts ==
  ASSUME NEW arg \in Argument, Spelled(arg), NEW c \in DOMAIN ChannelOption
  PROVE  Takes(c, arg) <=> CountsFor(c, arg)
BY Channels DEF Argument, Spelled, Options, Takes, CountsFor

\* The command line is one of arguments as they are spelled.
LEMMA LineType ==
  ASSUME TypeOK
  PROVE  argv \in Seq(Argument) /\ \A i \in 1..Len(argv) : Spelled(argv[i])
BY EnvironmentAssumption DEF TypeOK

\* The server runs only with the three channels given last on the command
\* line, for every command line, and refuses it only if one of them is
\* missing: cmd_parse never confuses options of the usage with each other.
THEOREM ChannelsAsGivenAlways == Spec => []ChannelsAsGiven
<1>1. Init => OptionsInv
  BY DEF Init, OptionsInv
<1>2. ASSUME TypeOK, OptionsInv PROVE ChannelsAsGiven
  <2>1. /\ argv \in Seq(Argument)
        /\ \A i \in 1..Len(argv) : argv[i] \in Argument /\ Spelled(argv[i])
    BY <1>2, LineType
  <2>2. \A c \in DOMAIN ChannelOption : \A i \in 1..Len(argv) :
          Takes(c, argv[i]) <=> CountsFor(c, argv[i])
    BY <2>1, TakesWhatCounts
  <2>3. /\ cmd_parse(argv) \in Conf
        /\ \A c \in DOMAIN ChannelOption :
             \/ /\ Bit[c] \in cmd_parse(argv).allOpts
                /\ GivenLast(argv, Len(argv), c, cmd_parse(argv))
             \/ /\ Bit[c] \notin cmd_parse(argv).allOpts
                /\ \A k \in 1..Len(argv) : ~Takes(c, argv[k])
    BY <2>1, cmd_parseGives
  <2>4. ASSUME AllOptionsGiven(argv), NEW c \in DOMAIN ChannelOption
        PROVE  \E i \in 1..Len(argv) :
                 /\ CountsFor(c, argv[i])
                 /\ argv[i].value = cmd_parse(argv)[c]
                 /\ \A j \in (i + 1)..Len(argv) : ~CountsFor(c, argv[j])
    <3>1. Bit[c] \in cmd_parse(argv).allOpts
      BY <2>4, Channels DEF AllOptionsGiven
    <3>2. PICK i \in 1..Len(argv) :
            /\ Takes(c, argv[i])
            /\ argv[i].value = cmd_parse(argv)[c]
            /\ \A j \in (i + 1)..Len(argv) : ~Takes(c, argv[j])
      BY <2>3, <3>1 DEF GivenLast
    <3>3. \A j \in (i + 1)..Len(argv) : j \in 1..Len(argv)
      BY <2>1
    <3> QED BY <2>2, <3>2, <3>3
  <2>5. ASSUME ~AllOptionsGiven(argv)
        PROVE  \E c \in DOMAIN ChannelOption :
                 \A i \in 1..Len(argv) : ~CountsFor(c, argv[i])
    <3>1. cmd_parse(argv).allOpts \subseteq {1, 2, 4} /\ cmd_parse(argv).allOpts # {1, 2, 4}
      BY <2>3, <2>5 DEF Conf, AllOptionsGiven
    <3>2. PICK c \in DOMAIN ChannelOption : Bit[c] \notin cmd_parse(argv).allOpts
      BY <3>1, Channels
    <3> QED BY <2>2, <2>3, <3>2
  <2> QED BY <1>2, <2>4, <2>5 DEF OptionsInv, ChannelsAsGiven
<1> QED BY <1>1, <1>2, NextOptionsInv, WineingTypeOK, PTL DEF Spec
==============================================================================
