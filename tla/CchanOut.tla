------------------------------- MODULE CchanOut -------------------------------
(***************************************************************************)
(* cchan_out_thread of wineing.cc: takes responses from the inproc channel *)
(* and sends them to the clients, until it finds the shutdown command in   *)
(* the shared record.  It looks at the record only between two responses.  *)
(***************************************************************************)
EXTENDS WineingState

CchanOutBind ==
  /\ BindOrReturn("cchan_out", "bind_inproc")
  /\ UNCHANGED <<mainPc, msgVars, in_data, sharedVars, nxVars, ghostVars, interrupts>>

CchanOutBindInproc ==
  /\ OpenSocket("cchan_out")
  /\ \/ /\ Goto("cchan_out", "bind_inproc", "loop")
        /\ inproc' = "bound"
     \/ /\ "inproc" \in BindMayFail
        /\ Goto("cchan_out", "bind_inproc", "failed")
        /\ UNCHANGED inproc
  /\ UNCHANGED <<mainPc, failed, pipe, msgVars, in_data, sharedVars, nxVars, ghostVars,
                 interrupts>>

\* Mutant of CchanOutLoop: the thread also ends when streaming is stopped.
CchanOutLoopStop ==
  /\ Goto("cchan_out", "loop",
          IF Refreshed("cchan_out").cmd < CMD_MARKET_RUN THEN "destroy" ELSE "recv")
  /\ Shared!Refresh("cchan_out")
  /\ UNCHANGED <<mainPc, chanVars, msgVars, in_data, nxVars, ghostVars, interrupts>>

\* Top of the loop: refresh the copy of the shared record and look at it.
CchanOutLoop ==
  /\ Goto("cchan_out", "loop",
          IF Refreshed("cchan_out").cmd = CMD_SHUTDOWN THEN "destroy" ELSE "recv")
  /\ Shared!Refresh("cchan_out")
  /\ UNCHANGED <<mainPc, chanVars, msgVars, in_data, nxVars, ghostVars, interrupts>>

CchanOutRecv ==
  /\ inq # <<>>
  /\ Goto("cchan_out", "recv", "send")
  /\ held' = Head(inq)
  /\ inq' = Tail(inq)
  /\ UNCHANGED <<mainPc, chanVars, res, published, in_data, sharedVars, nxVars,
                 ghostVars, interrupts>>

CchanOutRecvInterrupted ==
  /\ Interrupt
  /\ Goto("cchan_out", "recv", "loop")
  /\ UNCHANGED <<mainPc, chanVars, msgVars, in_data, sharedVars, nxVars, ghostVars>>

CchanOutSend ==
  /\ Goto("cchan_out", "send", "loop")
  /\ published' = Append(published, held)
  /\ held' = NoResponse
  /\ UNCHANGED <<mainPc, chanVars, inq, res, in_data, sharedVars, nxVars, ghostVars,
                 interrupts>>

\* The response is gone: the failure is only logged.
CchanOutSendInterrupted ==
  /\ Interrupt
  /\ Goto("cchan_out", "send", "loop")
  /\ held' = NoResponse
  /\ UNCHANGED <<mainPc, chanVars, inq, res, published, in_data, sharedVars, nxVars,
                 ghostVars>>

\* Closing the PULL socket drops what is queued for it.
CchanOutDestroy ==
  /\ DestroyChannels("cchan_out")
  /\ inproc' = "closed"
  /\ inq' = <<>>
  /\ UNCHANGED <<mainPc, pipe, res, held, published, in_data, sharedVars, nxVars,
                 ghostVars, interrupts>>

\* ZeroMQ tells the PUSH socket that its peer is gone.
PipeTerm ==
  /\ inproc = "closed"
  /\ pipe = "open"
  /\ pipe' = "dead"
  /\ UNCHANGED <<mainPc, pc, sockets, failed, inproc, msgVars, in_data, sharedVars,
                 nxVars, ghostVars, interrupts>>

CchanOutRun ==
  \/ CchanOutBind \/ CchanOutBindInproc \/ CchanOutLoop
  \/ CchanOutRecv \/ CchanOutSend \/ CchanOutDestroy
==============================================================================
