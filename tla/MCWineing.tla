------------------------------ MODULE MCWineing ------------------------------
(* Instances of Wineing: two tape files, a directory, a path that does not  *)
(* exist, and the request sets of the runs.                                 *)
EXTENDS Wineing

CONSTANTS TapeA, TapeB, DirD, Junk

MCTapes == {EmptyTape, Junk, TapeA, TapeB, DirD}

Req(type, tape) == [type |-> type, tape |-> tape]

StartA       == Req("MARKET_START", TapeA)
StartB       == Req("MARKET_START", TapeB)
StartDir     == Req("MARKET_START", DirD)
StartMissing == Req("MARKET_START", "no such file")
StartLive    == Req("MARKET_START", NoPath)
Stop         == Req("MARKET_STOP", NoPath)
Down         == Req("SHUTDOWN", NoPath)
Bad          == Req("UNPARSABLE", NoPath)

AllRequests   == {StartA, StartB, StartDir, StartMissing, StartLive, Stop, Down, Bad}
FaultRequests == {StartA, Stop, Down}
PlayRequests  == {StartA, StartLive, Stop, Down}
LiveRequests  == {StartA, StartLive, Stop}
DownRequests  == {StartA, Down}

Arg(name, value, third, ninth) ==
  [name |-> name, value |-> value, third |-> third, ninth |-> ninth]
In      == Arg("cchan-in", "in", "c", "i")
Out     == Arg("cchan-out", "out", "c", "other")
Mkt     == Arg("mchan", "market", "m", "other")
Dir     == Arg("tape-root", "dir", "t", "other")
Verbose == Arg("verbose", "", "other", "other")

OneLine == {<<In, Out, Mkt>>}

\* Two that are accepted: one with an option given twice, the others in another
\* order and one that is unknown, and one without a market channel but with
\* --mode=x and with a --cchan whose value begins with "i"; and three that are
\* refused: two with an option missing, one of them with another given twice,
\* and the options of TestWineingWorks.java.
AnyLine ==
  {<<Mkt, Dir, Arg("cchan-in", "old", "c", "i"), Out, Verbose, In>>,
   <<In, Out, Arg("cchan", "ipc", "c", "i"), Arg("mode", "x", "m", "other")>>,
   <<In, Out>>,
   <<In, In, Out>>,
   <<Arg("cchan", "tcp", "c", "other"), Mkt, Dir>>}
==============================================================================
