----------------------------- MODULE MCLazyState -----------------------------
(* Instances of LazyState: the records the cchan_in thread can publish for  *)
(* one tape file, for a real-time start, for stop and for shutdown.         *)
EXTENDS LazyState

CONSTANTS TapeA

MCTapes == {EmptyTape, TapeA}

MCValues ==
  {[cmd |-> CMD_MARKET_RUN,  size |-> 1, data |-> TapeA],
   [cmd |-> CMD_MARKET_RUN,  size |-> 0, data |-> EmptyTape],
   [cmd |-> CMD_MARKET_STOP, size |-> 1, data |-> TapeA]}
==============================================================================
