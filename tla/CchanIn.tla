------------------------------- MODULE CchanIn -------------------------------
(***************************************************************************)
(* cchan_in_thread of wineing.cc: receives control requests, keeps the     *)
(* command state, publishes it for the other threads and hands the         *)
(* response to cchan_out over the inproc channel.  Receiving a request and *)
(* handling it up to the response is one action; sending the response, the *)
(* only blocking call in between, is another.  The lock, signal and unlock *)
(* of g_market_sync_cond changes nothing: no thread waits on it.           *)
(***************************************************************************)
EXTENDS WineingState

CchanInBind ==
  /\ BindOrReturn("cchan_in", "connect")
  /\ UNCHANGED <<mainPc, msgVars, in_data, sharedVars, nxVars, ghostVars, interrupts>>

CchanInConnect ==
  /\ ConnectInproc("cchan_in", "recv")
  /\ pipe' = IF inproc = "bound" THEN "open" ELSE pipe
  /\ UNCHANGED <<mainPc, inproc, msgVars, in_data, sharedVars, nxVars, ghostVars,
                 interrupts>>

------------------------------------------------------------------------------
(* chan_recv and the switch on req.type()                                  *)

Receive(r) ==
  /\ Len(reqs) < MaxRequests
  /\ reqs' = Append(reqs, r)

Respond(type) ==
  /\ Goto("cchan_in", "recv", "send")
  /\ res' = [id |-> Len(reqs) + 1, type |-> type]
  /\ UNCHANGED <<mainPc, chanVars, inq, held, published, nxVars, interrupts>>

HasTape(r) == r.tape # NoPath

\* The attribute bits Windows returns; INVALID_FILE_ATTRIBUTES is all ones.
INVALID_FILE_ATTRIBUTES == {"DIRECTORY", "NORMAL"}
GetFileAttributes(p) ==
  IF p \in Files THEN {"NORMAL"}
  ELSE IF p \in Dirs THEN {"DIRECTORY"}
  ELSE INVALID_FILE_ATTRIBUTES

\* Mutant of wininf_file_exists: failure is taken to be a zero.
FileExistsUnlessZero(p) == GetFileAttributes(p) # {}

wininf_file_exists(p) ==
  ~(/\ GetFileAttributes(p) = INVALID_FILE_ATTRIBUTES
    /\ "DIRECTORY" \in GetFileAttributes(p))

\* Mutant of StartWhileRunning: the request is dropped instead of refused.
StartIgnored(r) ==
  /\ r.type = "MARKET_START"
  /\ in_data.cmd = CMD_MARKET_RUN
  /\ pc["cchan_in"] = "recv"
  /\ Receive(r)
  /\ UNCHANGED <<mainPc, pc, chanVars, msgVars, in_data, sharedVars, nxVars, tail,
                 interrupts>>

StartWhileRunning(r) ==
  /\ r.type = "MARKET_START"
  /\ in_data.cmd = CMD_MARKET_RUN
  /\ Receive(r)
  /\ Respond("MARKET_START_ERR_RUNNING")
  /\ UNCHANGED <<in_data, sharedVars, tail>>

\* Mutant of StartFileMissing: t_data.cmd is set before the file is checked.
StartFileMissingRunning(r) ==
  /\ r.type = "MARKET_START"
  /\ in_data.cmd # CMD_MARKET_RUN
  /\ HasTape(r) /\ ~wininf_file_exists(r.tape)
  /\ Receive(r)
  /\ Respond("ERR")
  /\ in_data' = [in_data EXCEPT !.size = 0, !.cmd = CMD_MARKET_RUN]
  /\ UNCHANGED <<sharedVars, tail>>

\* t_data.size has been reset before the file turns out to be missing.
StartFileMissing(r) ==
  /\ r.type = "MARKET_START"
  /\ in_data.cmd # CMD_MARKET_RUN
  /\ HasTape(r) /\ ~wininf_file_exists(r.tape)
  /\ Receive(r)
  /\ Respond("ERR")
  /\ in_data' = [in_data EXCEPT !.size = 0]
  /\ UNCHANGED <<sharedVars, tail>>

\* Without a tape file the buffer keeps what it held.
StartRequest(r) ==
  CopyCtrl(in_data, [cmd  |-> CMD_MARKET_RUN,
                     size |-> IF HasTape(r) THEN 1 ELSE 0,
                     data |-> r.tape])

StartAccepted(r) ==
  /\ r.type = "MARKET_START"
  /\ in_data.cmd # CMD_MARKET_RUN
  /\ HasTape(r) => wininf_file_exists(r.tape)
  /\ Receive(r)
  /\ Respond("MARKET_START_OK")
  /\ in_data' = StartRequest(r)
  /\ Publish(in_data')

\* Mutant of MarketStop: the new command is not published.
MarketStopUnpublished(r) ==
  /\ r.type = "MARKET_STOP"
  /\ Receive(r)
  /\ Respond("MARKET_STOP_OK")
  /\ in_data' = [in_data EXCEPT !.cmd = CMD_MARKET_STOP]
  /\ UNCHANGED <<sharedVars, tail>>

MarketStop(r) ==
  /\ r.type = "MARKET_STOP"
  /\ Receive(r)
  /\ Respond("MARKET_STOP_OK")
  /\ in_data' = [in_data EXCEPT !.cmd = CMD_MARKET_STOP]
  /\ Publish(in_data')

Shutdown(r) ==
  /\ r.type = "SHUTDOWN"
  /\ Receive(r)
  /\ Respond("SHUTDOWN_OK")
  /\ in_data' = [in_data EXCEPT !.cmd = CMD_SHUTDOWN]
  /\ Publish(in_data')

\* _recv_ctrl cannot parse the message: no response.
Unparsable(r) ==
  /\ r.type = "UNPARSABLE"
  /\ pc["cchan_in"] = "recv"
  /\ Receive(r)
  /\ UNCHANGED <<mainPc, pc, chanVars, msgVars, in_data, sharedVars, nxVars, tail,
                 interrupts>>

CchanInRecvInterrupted ==
  /\ pc["cchan_in"] = "recv"
  /\ Interrupt
  /\ UNCHANGED <<mainPc, pc, chanVars, msgVars, in_data, sharedVars, nxVars, ghostVars>>

------------------------------------------------------------------------------

\* The loop runs while WINEING_CTRL_CMD_SHUTDOWN < t_data.cmd.
CchanInLoop ==
  /\ Goto("cchan_in", "send", IF CMD_SHUTDOWN < in_data.cmd THEN "recv" ELSE "destroy")
  /\ res' = NoResponse
  /\ UNCHANGED <<mainPc, chanVars, held, published, in_data, sharedVars, nxVars, ghostVars>>

\* chan_send on the PUSH socket.  It blocks once the pipe is gone; while the
\* closed PULL end has not yet torn the pipe down the message is lost.
CchanInSend ==
  /\ pipe = "open"
  /\ inq' = IF inproc = "bound" THEN Append(inq, res) ELSE inq
  /\ CchanInLoop
  /\ UNCHANGED interrupts

\* Mutant of CchanInSendInterrupted: a send that was done is tried again.
CchanInSendRetried ==
  /\ Interrupt
  /\ Goto("cchan_in", "send", "send")
  /\ pipe = "open"
  /\ inq' = Append(inq, res)
  /\ UNCHANGED <<mainPc, chanVars, res, held, published, in_data, sharedVars, nxVars,
                 ghostVars>>

\* The response is gone: the failure is only logged.
CchanInSendInterrupted ==
  /\ Interrupt
  /\ CchanInLoop
  /\ UNCHANGED inq

CchanInDestroy ==
  /\ DestroyChannels("cchan_in")
  /\ UNCHANGED <<mainPc, inproc, pipe, msgVars, in_data, sharedVars, nxVars, ghostVars,
                 interrupts>>

\* What the client makes the thread do, and what it does on its own.
CchanInRequest ==
  \E r \in Requests :
    \/ StartWhileRunning(r) \/ StartFileMissing(r) \/ StartAccepted(r)
    \/ MarketStop(r) \/ Shutdown(r) \/ Unparsable(r)

CchanInRun == CchanInBind \/ CchanInConnect \/ CchanInSend \/ CchanInDestroy
==============================================================================
