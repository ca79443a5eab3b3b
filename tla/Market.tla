-------------------------------- MODULE Market --------------------------------
(***************************************************************************)
(* market_thread of wineing.cc, the NxCore entry point wininf_nxcore_run   *)
(* and the callback nxtape_process of impl/wine/nx.  All three run on the  *)
(* market thread; the callback keeps a copy of the shared record of its    *)
(* own ("nxtape").  NxCore is external: it calls the callback any number   *)
(* of times, and comes back when the tape ends or the callback says stop.  *)
(***************************************************************************)
EXTENDS WineingState

MarketBind ==
  /\ BindOrReturn("market", "connect")
  /\ UNCHANGED <<mainPc, msgVars, in_data, sharedVars, nxVars, ghostVars, interrupts>>

MarketConnect ==
  /\ ConnectInproc("market", "loop")
  /\ UNCHANGED <<mainPc, inproc, pipe, msgVars, in_data, sharedVars, nxVars, ghostVars,
                 interrupts>>

\* Top of the loop: refresh the copy of the shared record, then branch on it.
MarketPoll(next) ==
  /\ Goto("market", "loop", next)
  /\ Shared!Refresh("market")
  /\ UNCHANGED <<mainPc, chanVars, msgVars, in_data, envVars, ghostVars, interrupts>>

\* Mutant of MarketStopped: the break ends the thread.
MarketStoppedEnds ==
  /\ Refreshed("market").cmd = CMD_MARKET_STOP
  /\ MarketPoll("destroy")
  /\ UNCHANGED nxTape

\* The inner loop is left, and entered again by the outer one.
MarketStopped ==
  /\ Refreshed("market").cmd = CMD_MARKET_STOP
  /\ MarketPoll("loop")
  /\ UNCHANGED nxTape

MarketShutdown ==
  /\ Refreshed("market").cmd = CMD_SHUTDOWN
  /\ MarketPoll("destroy")
  /\ UNCHANGED nxTape

MarketIdle ==
  /\ Refreshed("market").cmd \in {CMD_INIT, CMD_MARKET_INIT}
  /\ MarketPoll("sleep")
  /\ UNCHANGED nxTape

MarketWake ==
  /\ Goto("market", "sleep", "loop")
  /\ UNCHANGED <<mainPc, chanVars, msgVars, in_data, sharedVars, nxVars, ghostVars,
                 interrupts>>

\* GetProcAddress may fail; the error is logged and the caller loops.
wininf_nxcore_run(tape) ==
  \/ /\ nxlib = "loaded"
     /\ MarketPoll("nxcore")
     /\ nxTape' = tape
  \/ /\ nxlib = "no function"
     /\ MarketPoll("loop")
     /\ UNCHANGED nxTape

\* NxCore is given t_data.data, whatever t_data.size is.
MarketStart ==
  /\ Refreshed("market").cmd = CMD_MARKET_RUN
  /\ wininf_nxcore_run(Refreshed("market").data)

\* NxCore calls nxtape_process, which first refreshes its copy.
NxCallback ==
  /\ Goto("market", "nxcore", "callback")
  /\ Shared!Refresh("nxtape")
  /\ UNCHANGED <<mainPc, chanVars, msgVars, in_data, nxVars, ghostVars, interrupts>>

\* Mutants of CallbackStop: stop only on shutdown, or only on stop.
CallbackStopOnShutdown == t_data["nxtape"].cmd < CMD_MARKET_STOP
CallbackStopOnStop == t_data["nxtape"].cmd = CMD_MARKET_STOP

\* The callback's return value: NxCALLBACKRETURN_STOP.
CallbackStop == t_data["nxtape"].cmd < CMD_MARKET_RUN

\* The rest of nxtape_process: a status message is sent to the clients, any
\* other kind of message is not; then the callback returns.
NxCallbackReturn(status) ==
  /\ Goto("market", "callback", IF CallbackStop THEN "loop" ELSE "nxcore")
  /\ nxTape' = IF CallbackStop THEN EmptyTape ELSE nxTape
  /\ tail' = IF status /\ g_data.cmd < CMD_MARKET_RUN THEN tail + 1 ELSE tail
  /\ UNCHANGED <<mainPc, chanVars, msgVars, in_data, sharedVars, envVars, reqs, interrupts>>

\* NxCore has come to the end of the tape, or could not open it.
NxTapeEnd ==
  /\ Goto("market", "nxcore", "loop")
  /\ nxTape' = EmptyTape
  /\ UNCHANGED <<mainPc, chanVars, msgVars, in_data, sharedVars, envVars, ghostVars,
                 interrupts>>

MarketDestroy ==
  /\ DestroyChannels("market")
  /\ UNCHANGED <<mainPc, inproc, pipe, msgVars, in_data, sharedVars, nxVars, ghostVars,
                 interrupts>>

MarketRun ==
  \/ MarketBind \/ MarketConnect
  \/ MarketStopped \/ MarketShutdown \/ MarketIdle \/ MarketWake \/ MarketStart
  \/ NxCallback \/ (\E status \in BOOLEAN : NxCallbackReturn(status))
  \/ MarketDestroy
==============================================================================
