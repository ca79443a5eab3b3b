------------------------- MODULE WineingControl_proofs -------------------------
(***************************************************************************)
(* Proofs about what the server makes of the requests, for any requests,   *)
(* any files and any bounds: which response each one gets and in which     *)
(* order, that none is lost while the server runs, that a command can be   *)
(* seen before its response, and which tape NxCore plays.                  *)
(***************************************************************************)
EXTENDS Wineing_proofs, FiniteSetTheorems

\* cchan_in's command and the shared one are what the requests call for; after
\* a shutdown no request is taken any more.
CommandInv ==
  /\ in_data.cmd \in {CMD_INIT, CMD_MARKET_RUN, CMD_MARKET_STOP, CMD_SHUTDOWN}
  /\ g_data.cmd = in_data.cmd
  /\ Asked("SHUTDOWN") <=> in_data.cmd = CMD_SHUTDOWN
  /\ in_data.cmd = CMD_SHUTDOWN => pc["cchan_in"] \in {"send", "destroy", "done"}
  /\ in_data.cmd # CMD_SHUTDOWN =>
       (in_data.cmd = CMD_MARKET_RUN <=> RunningBefore(Len(reqs) + 1))

\* A thread has a response in its hands exactly while it is sending it.
HandsInv ==
  /\ pc["cchan_in"] # "send" => res = NoResponse
  /\ pc["cchan_in"] = "send" => res \in Response
  /\ pc["cchan_out"] # "send" => held = NoResponse
  /\ pc["cchan_out"] = "send" => held \in Response

\* A response that belongs to a request received and says what it should.
Right(r) == \E i \in 1..Len(reqs) : r.id = i /\ r.type = Expected(i)

\* Where the responses are, from the newest to the oldest: in cchan_in's
\* hands, in the inproc channel, in cchan_out's hands, sent.
ResInv ==
  res # NoResponse => res.id = Len(reqs) /\ Right(res)
QueueInv ==
  /\ \A k \in 1..Len(inq) : Right(inq[k]) /\ (res # NoResponse => inq[k].id < res.id)
  /\ \A k, l \in 1..Len(inq) : k < l => inq[k].id < inq[l].id
HeldInv ==
  held # NoResponse =>
    /\ Right(held) /\ (res # NoResponse => held.id < res.id)
    /\ \A k \in 1..Len(inq) : held.id < inq[k].id
PublishedInv ==
  /\ \A k \in 1..Len(published) :
       /\ Right(published[k])
       /\ res # NoResponse => published[k].id < res.id
       /\ held # NoResponse => published[k].id < held.id
       /\ \A l \in 1..Len(inq) : published[k].id < inq[l].id
  /\ \A k, l \in 1..Len(published) : k < l => published[k].id < published[l].id
ResponseInv == ResInv /\ QueueInv /\ HeldInv /\ PublishedInv

\* cchan_out ends only after a shutdown; until then its end of the inproc
\* channel is up whenever cchan_in sends.
EndInv ==
  /\ pc["cchan_out"] \in {"destroy", "done"} => g_data.cmd = CMD_SHUTDOWN
  /\ inproc = "closed" <=> pc["cchan_out"] = "done"
  /\ inproc = "closed" => inq = <<>>

\* The version counts the requests carried out; no copy is ahead of it.
VersionInv ==
  /\ g_version = VersionOf(Len(reqs))
  /\ \A r \in Reader : t_version[r] <= g_version

\* The shared record carries out the last request that had an effect.
RecordInv ==
  \A i \in 1..Len(reqs) :
    Effective(i) /\ VersionOf(i) = g_version =>
      /\ g_data.cmd = CMD_MARKET_RUN => reqs[i].type = "MARKET_START"
      /\ reqs[i].type = "MARKET_START" /\ HasTape(reqs[i]) =>
           g_data.size = 1 /\ g_data.data = reqs[i].tape

------------------------------------------------------------------------------
(* Steps                                                                   *)

\* Where a step of one thread takes the threads.
LEMMA GotoPlaces ==
  ASSUME TypeOK, NEW t \in Thread, NEW from, NEW to, Goto(t, from, to)
  PROVE  pc[t] = from /\ pc'[t] = to /\ \A q \in Thread : q # t => pc'[q] = pc[q]
BY DEF TypeOK, Goto

\* The market thread moves no message and takes no request.
LEMMA MarketSteps ==
  ASSUME TypeOK, MarketRun \/ NxTapeEnd
  PROVE  /\ UNCHANGED <<msgVars, in_data, g_version, g_data, reqs, inproc, interrupts>>
         /\ pc'["cchan_in"] = pc["cchan_in"]
         /\ pc'["cchan_out"] = pc["cchan_out"]
<1>1. PICK from, to : Goto("market", from, to)
  BY DEF MarketRun, NxTapeEnd, MarketBind, MarketConnect, MarketStopped, MarketShutdown,
         MarketIdle, MarketWake, MarketStart, wininf_nxcore_run, MarketPoll, NxCallback,
         NxCallbackReturn, MarketDestroy, BindOrReturn, ConnectInproc, DestroyChannels
<1>2. pc'["cchan_in"] = pc["cchan_in"] /\ pc'["cchan_out"] = pc["cchan_out"]
  BY <1>1, GotoPlaces DEF Thread
<1>3. UNCHANGED <<msgVars, in_data, g_version, g_data, reqs, inproc, interrupts>>
  BY DEF MarketRun, NxTapeEnd, MarketBind, MarketConnect, MarketStopped, MarketShutdown,
         MarketIdle, MarketWake, MarketStart, wininf_nxcore_run, MarketPoll, NxCallback,
         NxCallbackReturn, MarketDestroy, BindOrReturn, chanVars, sharedVars, ghostVars,
         Shared!Refresh
<1> QED BY <1>2, <1>3

\* Steps that set the threads up, look at the shared record, or end main or
\* cchan_in: no message moves and no request is taken.
SetUp ==
  \/ UNCHANGED vars
  \/ MainRun \/ CchanInBind \/ CchanInConnect \/ CchanInDestroy \/ CchanInRecvInterrupted
  \/ CchanOutBind \/ CchanOutBindInproc \/ CchanOutLoop \/ CchanOutRecvInterrupted
  \/ PipeTerm \/ MarketRun \/ NxTapeEnd

\* The steps of the server, by what they do to requests and responses.
LEMMA StepKinds ==
  [Next]_vars =>
    \/ CchanInRequest \/ CchanInSend \/ CchanInSendInterrupted
    \/ CchanOutRecv \/ CchanOutSend \/ CchanOutSendInterrupted \/ CchanOutDestroy
    \/ SetUp
BY DEF Next, CchanInRun, CchanOutRun, Interrupted, SetUp

\* What a step of the last kind leaves alone, and where it takes the threads.
LEMMA SetUpSteps ==
  ASSUME TypeInv, InprocInv, SetUp
  PROVE  /\ UNCHANGED <<msgVars, in_data, g_version, g_data, reqs>>
         /\ pc["cchan_in"] = "send" <=> pc'["cchan_in"] = "send"
         /\ pc["cchan_in"] \in {"send", "destroy", "done"} =>
              pc'["cchan_in"] \in {"send", "destroy", "done"}
         /\ pc["cchan_out"] = "send" <=> pc'["cchan_out"] = "send"
         /\ pc["cchan_out"] = "done" <=> pc'["cchan_out"] = "done"
         /\ pc'["cchan_out"] = "destroy" => pc["cchan_out"] = "destroy" \/ g_data.cmd = CMD_SHUTDOWN
         /\ inproc = "closed" => inproc' = "closed"
         /\ inproc' = "closed" => inproc = "closed"
         /\ interrupts' = 0 => interrupts = 0
<1> USE DEF Thread
<1>0. TypeOK
  BY DEF TypeInv
<1>1. CASE UNCHANGED vars
  BY <1>1 DEF vars, sharedVars, ghostVars, chanVars
<1>2. CASE MainRun
  <2>1. CASE MainStart
    BY <2>1 DEF MainStart, TypeInv, StartInv, sharedVars, ghostVars, chanVars
  <2>2. CASE MainJoin \/ MainShutdown
    BY <2>2 DEF MainJoin, MainShutdown, sharedVars, ghostVars, chanVars
  <2> QED BY <1>2, <2>1, <2>2 DEF MainRun
<1>3. CASE CchanInBind \/ CchanInConnect \/ CchanInDestroy
  <2>1. PICK from, to :
          /\ Goto("cchan_in", from, to) /\ from # "send" /\ to # "send"
          /\ from = "destroy" => to = "done"
          /\ from # "done"
    BY <1>3 DEF CchanInBind, CchanInConnect, CchanInDestroy, BindOrReturn, ConnectInproc,
                DestroyChannels
  <2>2. UNCHANGED <<msgVars, in_data, g_version, g_data, reqs, inproc, interrupts>>
    BY <1>3 DEF CchanInBind, CchanInConnect, CchanInDestroy, BindOrReturn, sharedVars, ghostVars
  <2> QED BY <1>0, <2>1, <2>2, GotoPlaces
<1>4. CASE CchanInRecvInterrupted \/ PipeTerm
  <2>1. interrupts' = 0 => interrupts = 0
    BY <1>4 DEF CchanInRecvInterrupted, PipeTerm, Interrupt, TypeInv, TypeOK
  <2> QED BY <1>4, <2>1 DEF CchanInRecvInterrupted, PipeTerm, sharedVars, ghostVars, chanVars
<1>5. CASE CchanOutBind \/ CchanOutBindInproc \/ CchanOutRecvInterrupted
  <2>1. PICK from, to :
          /\ Goto("cchan_out", from, to) /\ from \notin {"send", "done"}
          /\ to \notin {"send", "done", "destroy"}
    BY <1>5 DEF CchanOutBind, CchanOutBindInproc, CchanOutRecvInterrupted, BindOrReturn
  <2>2. /\ UNCHANGED <<msgVars, in_data, g_version, g_data, reqs>>
        /\ inproc' = inproc \/ (inproc = "unbound" /\ inproc' = "bound")
    <3>1. CASE CchanOutBindInproc
      BY <3>1 DEF CchanOutBindInproc, Goto, sharedVars, ghostVars, InprocInv
    <3>2. CASE CchanOutBind \/ CchanOutRecvInterrupted
      BY <3>2 DEF CchanOutBind, CchanOutRecvInterrupted, BindOrReturn, sharedVars, ghostVars, chanVars
    <3> QED BY <1>5, <3>1, <3>2
  <2>3. interrupts' = 0 => interrupts = 0
    BY <1>5 DEF CchanOutBind, CchanOutBindInproc, CchanOutRecvInterrupted, Interrupt, TypeInv, TypeOK
  <2> QED BY <1>0, <2>1, <2>2, <2>3, GotoPlaces
<1>6. CASE CchanOutLoop
  BY <1>0, <1>6, GotoPlaces, RefreshedType
     DEF CchanOutLoop, Shared!Refresh, ghostVars, chanVars, Reader
<1>7. CASE MarketRun \/ NxTapeEnd
  BY <1>0, <1>7, MarketSteps
<1> QED BY <1>1, <1>2, <1>3, <1>4, <1>5, <1>6, <1>7 DEF SetUp

------------------------------------------------------------------------------
(* The list of requests grows at its end                                   *)

\* A new request changes nothing about the earlier ones.
LEMMA HistoryKept ==
  ASSUME reqs \in Seq(Requests), NEW r \in Requests, reqs' = Append(reqs, r),
         NEW i \in 1..Len(reqs)
  PROVE  /\ reqs'[i] = reqs[i]
         /\ Starts(i)' <=> Starts(i)
         /\ RunningBefore(i)' <=> RunningBefore(i)
         /\ Expected(i)' = Expected(i)
         /\ Effective(i)' <=> Effective(i)
<1>1. Len(reqs) \in Nat /\ \A k \in 1..Len(reqs) : reqs'[k] = reqs[k]
  OBVIOUS
<1>2. \A k \in 1..Len(reqs) : Starts(k)' <=> Starts(k)
  BY <1>1 DEF Starts
<1>3. RunningBefore(i)' <=> RunningBefore(i)
  BY <1>1, <1>2 DEF RunningBefore
<1>4. Expected(i)' = Expected(i)
  BY <1>1, <1>2, <1>3 DEF Expected
<1> QED BY <1>1, <1>2, <1>3, <1>4 DEF Effective

\* The new request n, and whether streaming is on before and after it.
LEMMA HistoryNew ==
  ASSUME reqs \in Seq(Requests), NEW r \in Requests, reqs' = Append(reqs, r),
         NEW n \in Nat, n = Len(reqs) + 1
  PROVE  /\ Len(reqs') = n /\ reqs'[n] = r
         /\ Starts(n)' <=> (r.type = "MARKET_START" /\ r.tape # "no such file")
         /\ RunningBefore(n)' <=> RunningBefore(n)
         /\ RunningBefore(n + 1)' <=> (Starts(n)' \/ (RunningBefore(n) /\ r.type # "MARKET_STOP"))
         /\ Asked("SHUTDOWN")' <=> (Asked("SHUTDOWN") \/ r.type = "SHUTDOWN")
<1>1. /\ Len(reqs) \in Nat /\ Len(reqs') = n /\ reqs'[n] = r
      /\ \A k \in 1..Len(reqs) : reqs'[k] = reqs[k]
  OBVIOUS
<1>2. \A k \in 1..Len(reqs) : Starts(k)' <=> Starts(k)
  BY <1>1 DEF Starts
<1>3. Starts(n)' <=> (r.type = "MARKET_START" /\ r.tape # "no such file")
  BY <1>1 DEF Starts
<1>4. RunningBefore(n)' <=> RunningBefore(n)
  BY <1>1, <1>2 DEF RunningBefore
<1>5. RunningBefore(n + 1)' <=> (Starts(n)' \/ (RunningBefore(n) /\ r.type # "MARKET_STOP"))
  <2>1. CASE Starts(n)'
    BY <1>1, <2>1 DEF RunningBefore
  <2>2. CASE ~Starts(n)' /\ r.type = "MARKET_STOP"
    BY <1>1, <2>2 DEF RunningBefore
  <2>3. CASE ~Starts(n)' /\ r.type # "MARKET_STOP"
    BY <1>1, <1>2, <2>3 DEF RunningBefore
  <2> QED BY <2>1, <2>2, <2>3
<1>6. Asked("SHUTDOWN")' <=> (Asked("SHUTDOWN") \/ r.type = "SHUTDOWN")
  BY <1>1 DEF Asked
<1> QED BY <1>1, <1>3, <1>4, <1>5, <1>6

\* The path of a request exists, is absent or does not exist.
LEMMA RequestTape ==
  ASSUME NEW r \in Requests
  PROVE  /\ r.type \in {"MARKET_START", "MARKET_STOP", "SHUTDOWN", "UNPARSABLE"}
         /\ r.tape # "no such file" <=> (HasTape(r) => wininf_file_exists(r.tape))
         /\ r.tape \in Path \cup {NoPath} <=> (HasTape(r) => wininf_file_exists(r.tape))
         /\ HasTape(r) /\ wininf_file_exists(r.tape) => r.tape \in Path
<1>1. r \in Request
  BY RequestsAssumption
<1>2. ASSUME NEW p \in Path PROVE wininf_file_exists(p)
  BY <1>2 DEF wininf_file_exists, GetFileAttributes, INVALID_FILE_ATTRIBUTES, Path
<1>3. \A p : wininf_file_exists(p) => p \in Path
  BY ExistingPath
<1> QED BY <1>1, <1>2, <1>3, PathsAssumption DEF Request, HasTape

------------------------------------------------------------------------------
(* Requests                                                                *)

\* What cchan_in makes of request n: the switch of cchan_in_thread, read
\* against the history of requests.
Outcome(r, n) ==
  /\ reqs' = Append(reqs, r)
  /\ pc["cchan_in"] = "recv" /\ pc'["cchan_out"] = pc["cchan_out"]
  /\ UNCHANGED <<inq, held, published, inproc, interrupts, t_version, t_data>>
  /\ \/ /\ r.type = "UNPARSABLE" /\ Expected(n)' = "none"
        /\ pc'["cchan_in"] = "recv" /\ res' = res
     \/ /\ r.type # "UNPARSABLE" /\ Expected(n)' \in ResponseType
        /\ pc'["cchan_in"] = "send" /\ res' = [id |-> n, type |-> Expected(n)']
  /\ in_data' \in Ctrl
  /\ \/ Effective(n)' /\ Publish(in_data')
     \/ ~Effective(n)' /\ UNCHANGED <<g_version, g_data>> /\ in_data'.cmd = in_data.cmd

\* The new value of t_data.cmd.
CommandAfter(r, n) ==
  \/ r.type = "SHUTDOWN" /\ in_data'.cmd = CMD_SHUTDOWN
  \/ r.type = "MARKET_STOP" /\ in_data'.cmd = CMD_MARKET_STOP
  \/ Starts(n)' /\ in_data'.cmd = CMD_MARKET_RUN
  \/ /\ ~Starts(n)' /\ r.type \notin {"SHUTDOWN", "MARKET_STOP"}
     /\ in_data'.cmd = in_data.cmd

\* What becomes of t_data's buffer and of its size.
RecordAfter(r, n) ==
  \/ /\ Starts(n)' /\ Effective(n)'
     /\ in_data' = StartRequest(r) /\ (HasTape(r) => r.tape \in Path)
  \/ /\ ~(Starts(n)' /\ Effective(n)')
     /\ in_data'.data = in_data.data /\ in_data'.size \in {0, in_data.size}

\* Each of the six ways to handle a request has the outcome that the history
\* of requests calls for.
LEMMA RequestOutcome ==
  ASSUME TypeInv, CommandInv, NEW r \in Requests, NEW n \in Nat, n = Len(reqs) + 1,
         \/ StartWhileRunning(r) \/ StartFileMissing(r) \/ StartAccepted(r)
         \/ MarketStop(r) \/ Shutdown(r) \/ Unparsable(r)
  PROVE  Outcome(r, n) /\ CommandAfter(r, n) /\ RecordAfter(r, n)
<1>0. TypeOK /\ in_data \in Ctrl /\ reqs \in Seq(Requests)
  BY DEF TypeInv, TypeOK
<1>1. reqs' = Append(reqs, r)
  BY DEF StartWhileRunning, StartFileMissing, StartAccepted, MarketStop, Shutdown, Unparsable,
         Receive
<1>2. /\ reqs'[n] = r
      /\ Starts(n)' <=> (r.type = "MARKET_START" /\ r.tape # "no such file")
      /\ RunningBefore(n)' <=> RunningBefore(n)
  BY <1>0, <1>1, HistoryNew
<1>3. pc["cchan_in"] = "recv" => (in_data.cmd = CMD_MARKET_RUN <=> RunningBefore(n))
  BY DEF CommandInv, CMD_SHUTDOWN, CMD_MARKET_RUN
<1>4. /\ r.type = "MARKET_STOP" => Expected(n)' = "MARKET_STOP_OK"
      /\ r.type = "SHUTDOWN" => Expected(n)' = "SHUTDOWN_OK"
      /\ r.type = "MARKET_START" /\ RunningBefore(n) => Expected(n)' = "MARKET_START_ERR_RUNNING"
      /\ r.type = "MARKET_START" /\ ~RunningBefore(n) =>
           Expected(n)' = IF r.tape # "no such file" THEN "MARKET_START_OK" ELSE "ERR"
      /\ r.type = "UNPARSABLE" => Expected(n)' = "none"
  BY <1>2 DEF Expected
<1>5. ASSUME NEW type, Respond(type)
      PROVE  /\ pc["cchan_in"] = "recv" /\ pc'["cchan_in"] = "send"
             /\ pc'["cchan_out"] = pc["cchan_out"]
             /\ res' = [id |-> n, type |-> type]
             /\ UNCHANGED <<inq, held, published, inproc, interrupts>>
  BY <1>0, <1>5, GotoPlaces DEF Respond, Thread, chanVars
<1>6. Effective(n)' <=> Expected(n)' \in {"MARKET_START_OK", "MARKET_STOP_OK", "SHUTDOWN_OK"}
  BY DEF Effective
<1>7. CASE StartWhileRunning(r)
  <2>1. /\ r.type = "MARKET_START" /\ in_data.cmd = CMD_MARKET_RUN
        /\ Respond("MARKET_START_ERR_RUNNING") /\ UNCHANGED <<in_data, sharedVars>>
    BY <1>7 DEF StartWhileRunning
  <2>2. Expected(n)' = "MARKET_START_ERR_RUNNING"
    BY <1>3, <1>4, <1>5, <2>1
  <2> QED BY <1>0, <1>1, <1>2, <1>5, <1>6, <2>1, <2>2
          DEF Outcome, CommandAfter, RecordAfter, ResponseType, sharedVars
<1>8. CASE StartFileMissing(r)
  <2>1. /\ r.type = "MARKET_START" /\ in_data.cmd # CMD_MARKET_RUN
        /\ HasTape(r) /\ ~wininf_file_exists(r.tape)
        /\ Respond("ERR") /\ in_data' = [in_data EXCEPT !.size = 0] /\ UNCHANGED sharedVars
    BY <1>8 DEF StartFileMissing
  <2>2. r.tape = "no such file"
    BY <2>1, RequestTape
  <2>3. Expected(n)' = "ERR"
    BY <1>3, <1>4, <1>5, <2>1, <2>2
  <2>4. /\ in_data' \in Ctrl /\ in_data'.cmd = in_data.cmd
        /\ in_data'.data = in_data.data /\ in_data'.size = 0
    BY <1>0, <2>1 DEF Ctrl
  <2> QED BY <1>0, <1>1, <1>2, <1>5, <1>6, <2>1, <2>2, <2>3, <2>4
          DEF Outcome, CommandAfter, RecordAfter, ResponseType, sharedVars
<1>9. CASE StartAccepted(r)
  <2>1. /\ r.type = "MARKET_START" /\ in_data.cmd # CMD_MARKET_RUN
        /\ HasTape(r) => wininf_file_exists(r.tape)
        /\ Respond("MARKET_START_OK") /\ in_data' = StartRequest(r) /\ Publish(in_data')
    BY <1>9 DEF StartAccepted
  <2>2. r.tape # "no such file" /\ (HasTape(r) => r.tape \in Path)
    BY <2>1, RequestTape
  <2>3. Expected(n)' = "MARKET_START_OK"
    BY <1>3, <1>4, <1>5, <2>1, <2>2
  <2>4. in_data' \in Ctrl /\ in_data'.cmd = CMD_MARKET_RUN
    BY <1>0, <2>1, StartRequestType
  <2>5. UNCHANGED <<t_version, t_data>>
    BY <1>0, <2>1, <2>4, PublishEffect
  <2> QED BY <1>0, <1>1, <1>2, <1>5, <1>6, <2>1, <2>2, <2>3, <2>4, <2>5
          DEF Outcome, CommandAfter, RecordAfter, ResponseType
<1>10. CASE MarketStop(r)
  <2>1. /\ r.type = "MARKET_STOP" /\ Respond("MARKET_STOP_OK")
        /\ in_data' = [in_data EXCEPT !.cmd = CMD_MARKET_STOP] /\ Publish(in_data')
    BY <1>10 DEF MarketStop
  <2>2. /\ in_data' \in Ctrl /\ in_data'.cmd = CMD_MARKET_STOP
        /\ in_data'.data = in_data.data /\ in_data'.size = in_data.size
    BY <1>0, <2>1 DEF Ctrl, CMD_MARKET_STOP, CMD_SHUTDOWN, CMD_INIT
  <2>3. UNCHANGED <<t_version, t_data>>
    BY <1>0, <2>1, <2>2, PublishEffect
  <2> QED BY <1>0, <1>1, <1>2, <1>4, <1>5, <1>6, <2>1, <2>2, <2>3
          DEF Outcome, CommandAfter, RecordAfter, ResponseType
<1>11. CASE Shutdown(r)
  <2>1. /\ r.type = "SHUTDOWN" /\ Respond("SHUTDOWN_OK")
        /\ in_data' = [in_data EXCEPT !.cmd = CMD_SHUTDOWN] /\ Publish(in_data')
    BY <1>11 DEF Shutdown
  <2>2. /\ in_data' \in Ctrl /\ in_data'.cmd = CMD_SHUTDOWN
        /\ in_data'.data = in_data.data /\ in_data'.size = in_data.size
    BY <1>0, <2>1 DEF Ctrl, CMD_SHUTDOWN, CMD_INIT
  <2>3. UNCHANGED <<t_version, t_data>>
    BY <1>0, <2>1, <2>2, PublishEffect
  <2> QED BY <1>0, <1>1, <1>2, <1>4, <1>5, <1>6, <2>1, <2>2, <2>3
          DEF Outcome, CommandAfter, RecordAfter, ResponseType
<1>12. CASE Unparsable(r)
  BY <1>0, <1>1, <1>2, <1>4, <1>6, <1>12
     DEF Unparsable, Outcome, CommandAfter, RecordAfter, sharedVars, msgVars, chanVars
<1> QED BY <1>7, <1>8, <1>9, <1>10, <1>11, <1>12

------------------------------------------------------------------------------
(* Messages                                                                *)

\* cchan_in ends its turn: the response is sent, or lost.
LEMMA SendSteps ==
  ASSUME TypeInv, CchanInSend \/ CchanInSendInterrupted
  PROVE  /\ pc["cchan_in"] = "send" /\ pc'["cchan_out"] = pc["cchan_out"]
         /\ pc'["cchan_in"] = IF CMD_SHUTDOWN < in_data.cmd THEN "recv" ELSE "destroy"
         /\ res' = NoResponse
         /\ UNCHANGED <<held, published, inproc, in_data, sharedVars, reqs>>
<1>1. CchanInLoop
  BY DEF CchanInSend, CchanInSendInterrupted
<1>2. Goto("cchan_in", "send", IF CMD_SHUTDOWN < in_data.cmd THEN "recv" ELSE "destroy")
  BY <1>1 DEF CchanInLoop
<1> QED BY <1>1, <1>2, GotoPlaces DEF CchanInLoop, TypeInv, Thread, chanVars, ghostVars

\* cchan_out takes a response.
LEMMA RecvStep ==
  ASSUME TypeInv, CchanOutRecv
  PROVE  /\ pc["cchan_out"] = "recv" /\ pc'["cchan_out"] = "send"
         /\ pc'["cchan_in"] = pc["cchan_in"]
         /\ inq # <<>> /\ held' = Head(inq) /\ inq' = Tail(inq)
         /\ UNCHANGED <<res, published, inproc, in_data, sharedVars, reqs, interrupts>>
BY GotoPlaces DEF CchanOutRecv, TypeInv, Thread, chanVars, ghostVars

\* cchan_out sends it, or loses it.
LEMMA OutSendSteps ==
  ASSUME TypeInv, CchanOutSend \/ CchanOutSendInterrupted
  PROVE  /\ pc["cchan_out"] = "send" /\ pc'["cchan_out"] = "loop"
         /\ pc'["cchan_in"] = pc["cchan_in"]
         /\ held' = NoResponse
         /\ UNCHANGED <<inq, res, inproc, in_data, sharedVars, reqs>>
BY GotoPlaces DEF CchanOutSend, CchanOutSendInterrupted, TypeInv, Thread, chanVars, ghostVars

\* cchan_out closes its end.
LEMMA DestroyStep ==
  ASSUME TypeInv, CchanOutDestroy
  PROVE  /\ pc["cchan_out"] = "destroy" /\ pc'["cchan_out"] = "done"
         /\ pc'["cchan_in"] = pc["cchan_in"]
         /\ inproc' = "closed" /\ inq' = <<>>
         /\ UNCHANGED <<res, held, published, in_data, sharedVars, reqs, interrupts>>
BY GotoPlaces DEF CchanOutDestroy, DestroyChannels, TypeInv, Thread, ghostVars

------------------------------------------------------------------------------
(* Commands                                                                *)

\* Nothing of the invariant changes while no request is taken.
LEMMA CommandFrame ==
  ASSUME CommandInv, UNCHANGED <<in_data, g_data, reqs>>,
         pc["cchan_in"] \in {"send", "destroy", "done"} /\ in_data.cmd = CMD_SHUTDOWN =>
           pc'["cchan_in"] \in {"send", "destroy", "done"}
  PROVE  CommandInv'
BY DEF CommandInv, Asked, RunningBefore, Starts

\* Every step keeps the command in line with the requests.
LEMMA NextCommandInv == TypeInv /\ InprocInv /\ CommandInv /\ [Next]_vars => CommandInv'
<1> SUFFICES ASSUME TypeInv, InprocInv, CommandInv, [Next]_vars PROVE CommandInv'
  OBVIOUS
<1>1. CASE CchanInRequest
  <2>1. PICK r \in Requests :
          \/ StartWhileRunning(r) \/ StartFileMissing(r) \/ StartAccepted(r)
          \/ MarketStop(r) \/ Shutdown(r) \/ Unparsable(r)
    BY <1>1 DEF CchanInRequest
  <2>2. reqs \in Seq(Requests)
    BY DEF TypeInv, TypeOK
  <2>3. PICK n \in Nat : n = Len(reqs) + 1
    BY <2>2
  <2>4. Outcome(r, n) /\ CommandAfter(r, n)
    BY <2>1, <2>3, RequestOutcome
  <2>5. /\ Len(reqs') = n
        /\ Starts(n)' <=> (r.type = "MARKET_START" /\ r.tape # "no such file")
        /\ RunningBefore(n + 1)' <=> (Starts(n)' \/ (RunningBefore(n) /\ r.type # "MARKET_STOP"))
        /\ Asked("SHUTDOWN")' <=> (Asked("SHUTDOWN") \/ r.type = "SHUTDOWN")
    BY <2>2, <2>3, <2>4, HistoryNew DEF Outcome
  <2>6. g_data'.cmd = in_data'.cmd
    <3>1. CASE Publish(in_data')
      BY <2>4, <3>1, PublishEffect DEF Outcome, TypeInv
    <3>2. CASE UNCHANGED <<g_version, g_data>> /\ in_data'.cmd = in_data.cmd
      BY <3>2 DEF CommandInv
    <3> QED BY <2>4, <3>1, <3>2 DEF Outcome
  <2>7. /\ in_data.cmd # CMD_SHUTDOWN
        /\ ~Asked("SHUTDOWN")
        /\ in_data.cmd = CMD_MARKET_RUN <=> RunningBefore(n)
    BY <2>3, <2>4 DEF Outcome, CommandInv
  <2>8. in_data.cmd \in {CMD_INIT, CMD_MARKET_RUN, CMD_MARKET_STOP}
    BY <2>7 DEF CommandInv
  <2>9. r.type = "SHUTDOWN" => pc'["cchan_in"] = "send"
    BY <2>4 DEF Outcome
  <2>10. /\ in_data'.cmd \in {CMD_INIT, CMD_MARKET_RUN, CMD_MARKET_STOP, CMD_SHUTDOWN}
         /\ r.type = "SHUTDOWN" <=> in_data'.cmd = CMD_SHUTDOWN
         /\ in_data'.cmd # CMD_SHUTDOWN => (in_data'.cmd = CMD_MARKET_RUN <=> RunningBefore(n + 1)')
    <3> USE DEF CMD_SHUTDOWN, CMD_MARKET_RUN, CMD_MARKET_STOP, CMD_INIT
    <3>1. CASE r.type = "SHUTDOWN" /\ in_data'.cmd = CMD_SHUTDOWN
      BY <3>1
    <3>2. CASE r.type = "MARKET_STOP" /\ in_data'.cmd = CMD_MARKET_STOP
      BY <2>5, <3>2
    <3>3. CASE Starts(n)' /\ in_data'.cmd = CMD_MARKET_RUN
      <4>1. r.type = "MARKET_START" /\ RunningBefore(n + 1)'
        BY <2>5, <3>3, Zenon
      <4> QED BY <3>3, <4>1
    <3>4. CASE /\ ~Starts(n)' /\ r.type \notin {"SHUTDOWN", "MARKET_STOP"}
               /\ in_data'.cmd = in_data.cmd
      BY <2>5, <2>7, <2>8, <3>4
    <3> QED BY <2>4, <3>1, <3>2, <3>3, <3>4 DEF CommandAfter
  <2> QED BY <2>5, <2>6, <2>7, <2>9, <2>10 DEF CommandInv
<1>2. CASE CchanInSend \/ CchanInSendInterrupted
  <2>1. in_data.cmd = CMD_SHUTDOWN => pc'["cchan_in"] = "destroy"
    BY <1>2, SendSteps DEF CMD_SHUTDOWN
  <2> QED BY <1>2, <2>1, SendSteps, CommandFrame DEF sharedVars
<1>3. CASE CchanOutRecv
  BY <1>3, RecvStep, CommandFrame DEF sharedVars
<1>4. CASE CchanOutSend \/ CchanOutSendInterrupted
  BY <1>4, OutSendSteps, CommandFrame DEF sharedVars
<1>5. CASE CchanOutDestroy
  BY <1>5, DestroyStep, CommandFrame DEF sharedVars
<1>6. CASE SetUp
  BY <1>6, SetUpSteps, CommandFrame
<1> QED BY <1>1, <1>2, <1>3, <1>4, <1>5, <1>6, StepKinds

------------------------------------------------------------------------------
(* Responses                                                               *)

\* No response is the absence of one.
LEMMA NoResponseIsNone == NoResponse \notin Response
BY DEF NoResponse, Response

\* A thread holds a response exactly while it sends it.
LEMMA NextHandsInv == TypeInv /\ InprocInv /\ CommandInv /\ HandsInv /\ [Next]_vars => HandsInv'
<1> SUFFICES ASSUME TypeInv, InprocInv, CommandInv, HandsInv, [Next]_vars PROVE HandsInv'
  OBVIOUS
<1> USE DEF HandsInv
<1>1. CASE CchanInRequest
  <2>1. PICK r \in Requests :
          \/ StartWhileRunning(r) \/ StartFileMissing(r) \/ StartAccepted(r)
          \/ MarketStop(r) \/ Shutdown(r) \/ Unparsable(r)
    BY <1>1 DEF CchanInRequest
  <2>2. PICK n \in Nat : n = Len(reqs) + 1
    BY DEF TypeInv, TypeOK
  <2>3. Outcome(r, n)
    BY <2>1, <2>2, RequestOutcome
  <2>4. pc'["cchan_in"] = "send" => res' \in Response
    BY NextTypeInv DEF TypeInv, SendInv
  <2> QED BY <2>3, <2>4 DEF Outcome
<1>2. CASE CchanInSend \/ CchanInSendInterrupted
  BY <1>2, SendSteps DEF CMD_SHUTDOWN
<1>3. CASE CchanOutRecv
  <2>1. Head(inq) \in Response
    BY <1>3, RecvStep DEF TypeInv, TypeOK
  <2> QED BY <1>3, <2>1, RecvStep
<1>4. CASE CchanOutSend \/ CchanOutSendInterrupted
  BY <1>4, OutSendSteps
<1>5. CASE CchanOutDestroy
  BY <1>5, DestroyStep
<1>6. CASE SetUp
  BY <1>6, SetUpSteps DEF msgVars
<1> QED BY <1>1, <1>2, <1>3, <1>4, <1>5, <1>6, StepKinds

\* cchan_out ends, and closes its end of the channel, only after a shutdown.
LEMMA NextEndInv ==
  TypeInv /\ InprocInv /\ CommandInv /\ EndInv /\ [Next]_vars => EndInv'
<1> SUFFICES ASSUME TypeInv, InprocInv, CommandInv, EndInv, [Next]_vars PROVE EndInv'
  OBVIOUS
<1> USE DEF EndInv
<1>1. CASE CchanInRequest
  <2>1. PICK r \in Requests :
          \/ StartWhileRunning(r) \/ StartFileMissing(r) \/ StartAccepted(r)
          \/ MarketStop(r) \/ Shutdown(r) \/ Unparsable(r)
    BY <1>1 DEF CchanInRequest
  <2>2. PICK n \in Nat : n = Len(reqs) + 1
    BY DEF TypeInv, TypeOK
  <2>3. Outcome(r, n)
    BY <2>1, <2>2, RequestOutcome
  <2>4. g_data.cmd # CMD_SHUTDOWN
    BY <2>3 DEF Outcome, CommandInv
  <2> QED BY <2>3, <2>4 DEF Outcome
<1>2. CASE CchanInSend \/ CchanInSendInterrupted
  <2>1. inproc = "closed" => inq' = inq
    BY <1>2 DEF CchanInSend, CchanInSendInterrupted
  <2> QED BY <1>2, <2>1, SendSteps DEF sharedVars
<1>3. CASE CchanOutRecv
  BY <1>3, RecvStep DEF sharedVars
<1>4. CASE CchanOutSend \/ CchanOutSendInterrupted
  BY <1>4, OutSendSteps DEF sharedVars
<1>5. CASE CchanOutDestroy
  BY <1>5, DestroyStep DEF sharedVars
<1>6. CASE SetUp
  BY <1>6, SetUpSteps DEF msgVars
<1> QED BY <1>1, <1>2, <1>3, <1>4, <1>5, <1>6, StepKinds

\* The history says the same of every request while none is taken.
LEMMA HistorySame ==
  ASSUME UNCHANGED reqs
  PROVE  \A i : /\ Starts(i)' <=> Starts(i)
                /\ RunningBefore(i)' <=> RunningBefore(i)
                /\ Expected(i)' = Expected(i)
                /\ Effective(i)' <=> Effective(i)
BY DEF Effective, Expected, RunningBefore, Starts

\* A new request leaves every response right that was.
LEMMA RequestResponseInv ==
  ASSUME TypeInv, HandsInv, ResponseInv, NEW r \in Requests, NEW n \in Nat, n = Len(reqs) + 1,
         Outcome(r, n)
  PROVE  ResponseInv'
<1>0. reqs \in Seq(Requests) /\ reqs' = Append(reqs, r) /\ Len(reqs') = n
  BY DEF TypeInv, TypeOK, Outcome
<1>1. ASSUME NEW i \in 1..Len(reqs) PROVE i \in 1..Len(reqs') /\ i < n /\ Expected(i)' = Expected(i)
  BY <1>0, HistoryKept
<1>2. /\ UNCHANGED <<inq, held, published>> /\ res = NoResponse
      /\ \/ res' = NoResponse
         \/ res' = [id |-> n, type |-> Expected(n)'] /\ n \in 1..Len(reqs')
  BY <1>0 DEF Outcome, HandsInv
<1>3. ASSUME NEW x, \E i \in 1..Len(reqs) : x.id = i /\ x.type = Expected(i)
      PROVE  x.id < n /\ \E i \in 1..Len(reqs') : x.id = i /\ x.type = Expected(i)'
  BY <1>1, <1>3
<1>4. ResInv'
  BY <1>0, <1>2 DEF ResInv, Right
<1>5. QueueInv'
  BY <1>2, <1>3 DEF ResponseInv, QueueInv, Right
<1>6. HeldInv'
  BY <1>2, <1>3 DEF ResponseInv, HeldInv, Right
<1>7. PublishedInv'
  <2>1. ASSUME NEW k \in 1..Len(published)
        PROVE  /\ published[k].id < n
               /\ \E i \in 1..Len(reqs') : published[k].id = i /\ published[k].type = Expected(i)'
    BY <1>3 DEF ResponseInv, PublishedInv, Right
  <2>2. published' = published /\ held' = held /\ inq' = inq /\ (res' # NoResponse => res'.id = n)
    BY <1>2
  <2> QED BY <2>1, <2>2 DEF ResponseInv, PublishedInv, Right
<1> QED BY <1>4, <1>5, <1>6, <1>7 DEF ResponseInv

\* Every step keeps the responses right and in order.
LEMMA NextResponseInv ==
  TypeInv /\ InprocInv /\ CommandInv /\ HandsInv /\ ResponseInv /\ [Next]_vars => ResponseInv'
<1> SUFFICES ASSUME TypeInv, InprocInv, CommandInv, HandsInv, ResponseInv, [Next]_vars
             PROVE  ResponseInv'
  OBVIOUS
<1>1. CASE CchanInRequest
  <2>1. PICK r \in Requests :
          \/ StartWhileRunning(r) \/ StartFileMissing(r) \/ StartAccepted(r)
          \/ MarketStop(r) \/ Shutdown(r) \/ Unparsable(r)
    BY <1>1 DEF CchanInRequest
  <2>2. PICK n \in Nat : n = Len(reqs) + 1
    BY DEF TypeInv, TypeOK
  <2> QED BY <2>1, <2>2, RequestOutcome, RequestResponseInv
<1>0. /\ inq \in Seq(Response) /\ published \in Seq(Response) /\ Len(inq) \in Nat /\ Len(published) \in Nat
  BY DEF TypeInv, TypeOK
<1> USE DEF ResponseInv, ResInv, QueueInv, HeldInv, PublishedInv, Right
<1>2. CASE CchanInSend \/ CchanInSendInterrupted
  <2>1. /\ res' = NoResponse /\ res # NoResponse /\ UNCHANGED <<held, published, reqs>>
    BY <1>2, SendSteps, NoResponseIsNone DEF HandsInv
  <2>2. \A i : Expected(i)' = Expected(i)
    BY <2>1, HistorySame
  <2>3. CASE inq' = inq
    BY <2>1, <2>2, <2>3
  <2>4. CASE inq' = Append(inq, res)
    <3>1. /\ Len(inq') = Len(inq) + 1 /\ inq'[Len(inq) + 1] = res
          /\ \A k \in 1..Len(inq) : inq'[k] = inq[k]
      BY <1>0, <2>4 DEF TypeInv, TypeOK
    <3>2. \A k \in 1..Len(inq') : k \in 1..Len(inq) \/ (inq'[k] = res /\ k = Len(inq) + 1)
      BY <1>0, <3>1
    <3>3. QueueInv'
      <4>1. \A k \in 1..Len(inq') : Right(inq[k])'
        BY <2>1, <2>2, <3>1, <3>2
      <4>2. \A k, l \in 1..Len(inq') : k < l => inq'[k].id < inq'[l].id
        <5> SUFFICES ASSUME NEW k \in 1..Len(inq'), NEW l \in 1..Len(inq'), k < l
                     PROVE  inq'[k].id < inq'[l].id
          OBVIOUS
        <5>1. k \in 1..Len(inq) /\ inq'[k] = inq[k]
          BY <1>0, <3>1
        <5> QED BY <2>1, <3>1, <3>2, <5>1
      <4> QED BY <2>1, <4>1, <4>2
    <3>4. HeldInv' /\ PublishedInv'
      BY <1>0, <2>1, <2>2, <3>1, <3>2
    <3> QED BY <2>1, <3>3, <3>4
  <2> QED BY <1>2, <2>3, <2>4 DEF CchanInSend, CchanInSendInterrupted
<1>3. CASE CchanOutRecv
  <2>1. /\ held = NoResponse /\ held' = Head(inq) /\ inq' = Tail(inq) /\ inq # <<>>
        /\ UNCHANGED <<res, published, reqs>>
    BY <1>3, RecvStep DEF HandsInv
  <2>2. \A i : Expected(i)' = Expected(i)
    BY <2>1, HistorySame
  <2>3. /\ held' = inq[1] /\ 1 \in 1..Len(inq) /\ Len(inq') = Len(inq) - 1
        /\ \A k \in 1..Len(inq') : k + 1 \in 1..Len(inq) /\ inq'[k] = inq[k + 1] /\ 1 < k + 1
    BY <1>0, <2>1
  <2>4. QueueInv'
    BY <1>0, <2>1, <2>2, <2>3
  <2>5. HeldInv'
    BY <1>0, <2>1, <2>2, <2>3
  <2>6. PublishedInv'
    BY <1>0, <2>1, <2>2, <2>3
  <2> QED BY <2>1, <2>2, <2>4, <2>5, <2>6
<1>4. CASE CchanOutSend \/ CchanOutSendInterrupted
  <2>1. /\ held' = NoResponse /\ held # NoResponse /\ UNCHANGED <<inq, res, reqs>>
    BY <1>4, OutSendSteps, NoResponseIsNone DEF HandsInv
  <2>2. \A i : Expected(i)' = Expected(i)
    BY <2>1, HistorySame
  <2>3. CASE published' = published
    BY <2>1, <2>2, <2>3
  <2>4. CASE published' = Append(published, held)
    <3>1. /\ Len(published') = Len(published) + 1 /\ published'[Len(published) + 1] = held
          /\ \A k \in 1..Len(published) : published'[k] = published[k]
      BY <1>0, <2>4 DEF TypeInv, TypeOK
    <3>2. \A k \in 1..Len(published') :
            k \in 1..Len(published) \/ (published'[k] = held /\ k = Len(published) + 1)
      BY <1>0, <3>1
    <3>3. PublishedInv'
      <4>1. \A k \in 1..Len(published') : Right(published[k])'
        BY <2>1, <2>2, <3>1, <3>2
      <4>2. \A k \in 1..Len(published') :
              /\ res # NoResponse => published'[k].id < res.id
              /\ \A l \in 1..Len(inq) : published'[k].id < inq[l].id
        BY <2>1, <3>1, <3>2
      <4>3. \A k, l \in 1..Len(published') : k < l => published'[k].id < published'[l].id
        <5> SUFFICES ASSUME NEW k \in 1..Len(published'), NEW l \in 1..Len(published'), k < l
                     PROVE  published'[k].id < published'[l].id
          OBVIOUS
        <5>1. k \in 1..Len(published) /\ published'[k] = published[k]
          BY <1>0, <3>1
        <5> QED BY <2>1, <3>1, <3>2, <5>1
      <4> QED BY <2>1, <4>1, <4>2, <4>3
    <3> QED BY <2>1, <2>2, <3>3
  <2> QED BY <1>4, <2>3, <2>4 DEF CchanOutSend, CchanOutSendInterrupted
<1>5. CASE CchanOutDestroy
  <2>1. inq' = <<>> /\ UNCHANGED <<res, held, published, reqs>>
    BY <1>5, DestroyStep
  <2>2. \A i : Expected(i)' = Expected(i)
    BY <2>1, HistorySame
  <2> QED BY <2>1, <2>2
<1>6. CASE SetUp
  <2>1. UNCHANGED <<inq, res, held, published, reqs>>
    BY <1>6, SetUpSteps DEF msgVars
  <2>2. \A i : Expected(i)' = Expected(i)
    BY <2>1, HistorySame
  <2> QED BY <2>1, <2>2
<1> QED BY <1>1, <1>2, <1>3, <1>4, <1>5, <1>6, StepKinds

\* The start state: nothing received, nothing sent, no command.
LEMMA InitControl == Init => InprocInv /\ CommandInv /\ HandsInv /\ ResponseInv /\ EndInv
<1> SUFFICES ASSUME Init PROVE InprocInv /\ CommandInv /\ HandsInv /\ ResponseInv /\ EndInv
  OBVIOUS
<1>1. /\ pc["cchan_in"] = "none" /\ pc["cchan_out"] = "none" /\ inproc = "unbound"
      /\ inq = <<>> /\ res = NoResponse /\ held = NoResponse /\ published = <<>> /\ reqs = <<>>
      /\ in_data.cmd = CMD_INIT /\ g_data.cmd = CMD_INIT
  BY DEF Init, Thread, InitialCtrl
<1>2. InprocInv /\ HandsInv /\ EndInv
  BY <1>1 DEF InprocInv, HandsInv, EndInv
<1>3. CommandInv
  BY <1>1 DEF CommandInv, Asked, RunningBefore, CMD_INIT, CMD_SHUTDOWN, CMD_MARKET_RUN
<1>4. ResponseInv
  BY <1>1 DEF ResponseInv, ResInv, QueueInv, HeldInv, PublishedInv
<1> QED BY <1>2, <1>3, <1>4

\* The invariants hold throughout.
LEMMA ControlInvariant == Spec => [](InprocInv /\ CommandInv /\ HandsInv /\ ResponseInv /\ EndInv)
BY InitControl, NextInprocInv, NextCommandInv, NextHandsInv, NextResponseInv, NextEndInv,
   TypeInvariant, PTL DEF Spec

\* However the threads interleave, calls are interrupted and cchan_out ends,
\* the responses sent are in the order of the requests, none is sent twice,
\* and each says what the requests received so far call for.
THEOREM ResponsesMatchRequestsAlways == Spec => []ResponsesMatchRequests
<1>1. ResponseInv => ResponsesMatchRequests
  BY DEF ResponseInv, PublishedInv, Right, ResponsesMatchRequests
<1> QED BY <1>1, ControlInvariant, PTL

------------------------------------------------------------------------------
(* Nothing is lost while the server runs                                   *)

\* The response to request i has been sent or is somewhere on its way.
Tracked(i) ==
  \/ Answered(i) \/ res.id = i \/ held.id = i
  \/ \E k \in 1..Len(inq) : inq[k].id = i

\* Every step keeps every response, while there is neither a shutdown nor an
\* interrupted call.
LEMMA NextNothingLost ==
  /\ TypeInv /\ InprocInv /\ CommandInv /\ HandsInv /\ EndInv
  /\ NothingLostWhileRunning /\ [Next]_vars
  => NothingLostWhileRunning'
<1> SUFFICES ASSUME TypeInv, InprocInv, CommandInv, HandsInv, EndInv,
                    NothingLostWhileRunning, [Next]_vars,
                    ~Asked("SHUTDOWN")', ~(interrupts' > 0)
             PROVE  \A i \in 1..Len(reqs') : reqs'[i].type = "UNPARSABLE" \/ Tracked(i)'
  BY DEF NothingLostWhileRunning, Tracked
<1>0. /\ inq \in Seq(Response) /\ published \in Seq(Response) /\ reqs \in Seq(Requests)
      /\ Len(inq) \in Nat /\ Len(published) \in Nat /\ Len(reqs) \in Nat
      /\ res \in Response \cup {NoResponse} /\ held \in Response \cup {NoResponse}
      /\ interrupts \in Nat
  BY BoundsAssumption DEF TypeInv, TypeOK
<1>1. NoResponse.id = 0
  BY DEF NoResponse
<1>2. ASSUME ~Asked("SHUTDOWN"), interrupts = 0, NEW i \in 1..Len(reqs),
             reqs[i].type # "UNPARSABLE"
      PROVE  Tracked(i)
  BY <1>2 DEF NothingLostWhileRunning, Tracked
<1>3. TypeInv'
  BY NextTypeInv
<1>4. interrupts' = 0
  BY <1>3, BoundsAssumption DEF TypeInv, TypeOK
<1>5. CASE CchanInRequest
  <2>1. PICK r \in Requests :
          \/ StartWhileRunning(r) \/ StartFileMissing(r) \/ StartAccepted(r)
          \/ MarketStop(r) \/ Shutdown(r) \/ Unparsable(r)
    BY <1>5 DEF CchanInRequest
  <2>2. PICK n \in Nat : n = Len(reqs) + 1
    BY <1>0
  <2>3. Outcome(r, n)
    BY <2>1, <2>2, RequestOutcome
  <2>4. /\ Len(reqs') = n /\ reqs'[n] = r /\ ~Asked("SHUTDOWN") /\ interrupts = 0
        /\ \A i \in 1..Len(reqs) : reqs'[i] = reqs[i]
    <3>1. reqs' = Append(reqs, r) /\ interrupts = 0
      BY <1>4, <2>3 DEF Outcome
    <3>2. \A i \in 1..Len(reqs) : reqs'[i] = reqs[i]
      BY <1>0, <3>1
    <3> QED BY <1>0, <2>2, <3>1, <3>2, HistoryNew
  <2>5. /\ UNCHANGED <<inq, held, published>> /\ res.id = 0
        /\ r.type # "UNPARSABLE" => res'.id = n
    BY <1>1, <2>3 DEF Outcome, HandsInv
  <2>6. ASSUME NEW i \in 1..Len(reqs), reqs'[i].type # "UNPARSABLE" PROVE Tracked(i)'
    <3>1. Tracked(i)
      BY <1>2, <2>4, <2>6
    <3> QED BY <2>5, <3>1 DEF Tracked, Answered
  <2>7. r.type # "UNPARSABLE" => Tracked(n)'
    BY <2>5 DEF Tracked
  <2> QED BY <1>0, <2>2, <2>4, <2>6, <2>7
<1>6. ASSUME UNCHANGED reqs, interrupts = 0, \A i \in 1..Len(reqs) : Tracked(i) => Tracked(i)'
      PROVE  \A i \in 1..Len(reqs') : reqs'[i].type = "UNPARSABLE" \/ Tracked(i)'
  <2>1. ~Asked("SHUTDOWN")
    BY <1>6 DEF Asked
  <2> QED BY <1>2, <1>6, <2>1
<1>7. CASE CchanInSend
  <2>1. /\ UNCHANGED <<held, published, reqs, inproc, in_data, interrupts>>
        /\ inq' = IF inproc = "bound" THEN Append(inq, res) ELSE inq
        /\ pc["cchan_in"] = "send"
    BY <1>7, SendSteps DEF CchanInSend
  <2>2. inproc = "bound"
    <3>1. g_data.cmd # CMD_SHUTDOWN
      BY <2>1 DEF CommandInv, Asked
    <3> QED BY <2>1, <3>1 DEF EndInv, InprocInv, TypeInv, TypeOK
  <2>3. /\ Len(inq') = Len(inq) + 1 /\ inq'[Len(inq) + 1] = res
        /\ \A k \in 1..Len(inq) : k \in 1..Len(inq') /\ inq'[k] = inq[k]
        /\ Len(inq) + 1 \in 1..Len(inq')
    BY <1>0, <2>1, <2>2
  <2>4. \A i \in 1..Len(reqs) : Tracked(i) => Tracked(i)'
    BY <2>1, <2>3 DEF Tracked, Answered
  <2> QED BY <1>4, <1>6, <2>1, <2>4
<1>8. CASE CchanInSendInterrupted \/ CchanOutSendInterrupted
  BY <1>0, <1>4, <1>8 DEF CchanInSendInterrupted, CchanOutSendInterrupted, Interrupt
<1>9. CASE CchanOutRecv
  <2>1. /\ held.id = 0 /\ held' = Head(inq) /\ inq' = Tail(inq) /\ inq # <<>>
        /\ UNCHANGED <<res, published, reqs, interrupts>>
    BY <1>1, <1>9, RecvStep DEF HandsInv
  <2>2. /\ held' = inq[1]
        /\ \A k \in 1..Len(inq) : k = 1 \/ (k - 1 \in 1..Len(inq') /\ inq'[k - 1] = inq[k])
    BY <1>0, <2>1
  <2>3. ASSUME NEW i \in 1..Len(reqs), Tracked(i) PROVE Tracked(i)'
    <3>1. CASE \E k \in 1..Len(inq) : inq[k].id = i
      <4>1. PICK k \in 1..Len(inq) : inq[k].id = i
        BY <3>1
      <4>2. held'.id = i \/ \E l \in 1..Len(inq') : inq'[l].id = i
        BY <2>2, <4>1
      <4> QED BY <4>2 DEF Tracked
    <3> QED BY <2>1, <2>3, <3>1 DEF Tracked, Answered
  <2> QED BY <1>4, <1>6, <2>1, <2>3
<1>10. CASE CchanOutSend
  <2>1. published' = Append(published, held) /\ UNCHANGED <<inq, res, reqs, interrupts>>
    BY <1>10 DEF CchanOutSend, ghostVars
  <2>2. /\ Len(published) + 1 \in 1..Len(published') /\ published'[Len(published) + 1] = held
        /\ \A k \in 1..Len(published) : k \in 1..Len(published') /\ published'[k] = published[k]
    BY <1>0, <2>1
  <2>3. \A i \in 1..Len(reqs) : Tracked(i) => Tracked(i)'
    BY <2>1, <2>2 DEF Tracked, Answered
  <2> QED BY <1>4, <1>6, <2>1, <2>3
<1>11. CASE CchanOutDestroy
  BY <1>11, DestroyStep DEF EndInv, CommandInv, Asked
<1>12. CASE SetUp
  <2>1. UNCHANGED <<inq, res, held, published, reqs>> /\ interrupts = 0
    BY <1>4, <1>12, SetUpSteps DEF msgVars
  <2> QED BY <1>6, <2>1 DEF Tracked, Answered
<1> QED BY <1>5, <1>7, <1>8, <1>9, <1>10, <1>11, <1>12, StepKinds

\* As long as nobody has asked for a shutdown and no call was interrupted, no
\* response is lost between the request and the socket of cchan_out.
THEOREM NothingLostWhileRunningAlways == Spec => []NothingLostWhileRunning
<1>1. Init => NothingLostWhileRunning
  BY DEF Init, NothingLostWhileRunning
<1> QED BY <1>1, NextNothingLost, ControlInvariant, TypeInvariant, PTL DEF Spec

------------------------------------------------------------------------------
(* Versions of the shared record                                           *)

\* A reader's copy stays as it is or is refreshed as a whole.
LEMMA CopySteps ==
  ASSUME TypeOK, SetUp, NEW q \in Reader
  PROVE  \/ t_version'[q] = t_version[q] /\ t_data'[q] = t_data[q]
         \/ t_version'[q] = g_version /\ t_data'[q] = Refreshed(q)
<1>1. ASSUME NEW r \in Reader, Shared!Refresh(r)
      PROVE  \/ t_version'[q] = t_version[q] /\ t_data'[q] = t_data[q]
             \/ t_version'[q] = g_version /\ t_data'[q] = Refreshed(q)
  BY <1>1 DEF Shared!Refresh, TypeOK, Refreshed, CopyCtrl, Shared!CopyCtrl
<1>2. CASE CchanOutLoop
  BY <1>1, <1>2 DEF CchanOutLoop, Reader
<1>3. ASSUME NEW next, MarketPoll(next)
      PROVE  \/ t_version'[q] = t_version[q] /\ t_data'[q] = t_data[q]
             \/ t_version'[q] = g_version /\ t_data'[q] = Refreshed(q)
  BY <1>1, <1>3 DEF MarketPoll, Reader
<1>4. CASE MarketStopped \/ MarketShutdown \/ MarketIdle \/ MarketStart
  BY <1>3, <1>4 DEF MarketStopped, MarketShutdown, MarketIdle, MarketStart, wininf_nxcore_run
<1>5. CASE NxCallback
  BY <1>1, <1>5 DEF NxCallback, Reader
<1>6. CASE \/ MarketBind \/ MarketConnect \/ MarketWake \/ NxTapeEnd \/ MarketDestroy
           \/ (\E status \in BOOLEAN : NxCallbackReturn(status))
  BY <1>6 DEF MarketBind, MarketConnect, MarketWake, NxTapeEnd, MarketDestroy,
              NxCallbackReturn, sharedVars
<1>7. CASE \/ UNCHANGED vars \/ MainRun \/ CchanInBind \/ CchanInConnect \/ CchanInDestroy
           \/ CchanInRecvInterrupted \/ CchanOutBind \/ CchanOutBindInproc
           \/ CchanOutRecvInterrupted \/ PipeTerm
  BY <1>7 DEF vars, MainRun, MainStart, MainJoin, MainShutdown, CchanInBind, CchanInConnect,
              CchanInDestroy, CchanInRecvInterrupted, CchanOutBind, CchanOutBindInproc,
              CchanOutRecvInterrupted, PipeTerm, sharedVars
<1> QED BY <1>2, <1>4, <1>5, <1>6, <1>7 DEF SetUp, MarketRun

\* The requests carried out among the first i are finitely many.
LEMMA EffectiveFinite ==
  ASSUME NEW i \in Int
  PROVE  IsFiniteSet({j \in 1..i : Effective(j)}) /\ VersionOf(i) \in Nat
<1>1. IsFiniteSet(1..i)
  BY FS_Interval
<1>2. IsFiniteSet({j \in 1..i : Effective(j)})
  BY <1>1, FS_Subset
<1> QED BY <1>2, FS_CardinalityType DEF VersionOf

\* Later requests have later versions.
LEMMA VersionMonotone ==
  ASSUME NEW i \in Int, NEW j \in Int, i <= j
  PROVE  VersionOf(i) <= VersionOf(j)
<1>1. {k \in 1..i : Effective(k)} \subseteq {k \in 1..j : Effective(k)}
  OBVIOUS
<1>2. IsFiniteSet({k \in 1..j : Effective(k)})
  BY EffectiveFinite
<1> QED BY <1>1, <1>2, FS_Subset DEF VersionOf

\* A new request gives no other version to the earlier ones.
LEMMA VersionKept ==
  ASSUME reqs \in Seq(Requests), NEW r \in Requests, reqs' = Append(reqs, r),
         NEW i \in 0..Len(reqs)
  PROVE  VersionOf(i)' = VersionOf(i)
<1>1. ASSUME NEW j \in 1..i PROVE Effective(j)' <=> Effective(j)
  <2>1. j \in 1..Len(reqs)
    BY <1>1
  <2> QED BY <2>1, HistoryKept
<1>2. {j \in 1..i : Effective(j)'} = {j \in 1..i : Effective(j)}
  BY <1>1
<1> QED BY <1>2 DEF VersionOf

\* It has the next version if it is carried out, and that of its predecessor
\* if not.
LEMMA VersionNew ==
  ASSUME reqs \in Seq(Requests), NEW r \in Requests, reqs' = Append(reqs, r),
         NEW m \in Nat, m = Len(reqs)
  PROVE  VersionOf(m + 1)' = IF Effective(m + 1)' THEN VersionOf(m) + 1 ELSE VersionOf(m)
<1> DEFINE S == {j \in 1..m : Effective(j)'}
<1>1. Cardinality(S) = VersionOf(m)
  <2>1. VersionOf(m)' = VersionOf(m)
    BY VersionKept
  <2> QED BY <2>1 DEF VersionOf
<1>2. IsFiniteSet(S) /\ m + 1 \notin S
  <2>1. IsFiniteSet(1..m)
    BY FS_Interval
  <2>2. IsFiniteSet(S)
    BY <2>1, FS_Subset
  <2> QED BY <2>2
<1>3. VersionOf(m + 1)' = Cardinality({j \in 1..(m + 1) : Effective(j)'})
  BY DEF VersionOf
<1>4. CASE Effective(m + 1)'
  <2>1. {j \in 1..(m + 1) : Effective(j)'} = S \cup {m + 1}
    BY <1>4
  <2>2. Cardinality(S \cup {m + 1}) = Cardinality(S) + 1
    BY <1>2, FS_AddElement
  <2> QED BY <1>1, <1>3, <1>4, <2>1, <2>2
<1>5. CASE ~Effective(m + 1)'
  <2>1. {j \in 1..(m + 1) : Effective(j)'} = S
    BY <1>5
  <2> QED BY <1>1, <1>3, <1>5, <2>1
<1> QED BY <1>4, <1>5

\* While no request is taken every request keeps its version.
LEMMA VersionSame ==
  ASSUME UNCHANGED reqs
  PROVE  \A i : VersionOf(i)' = VersionOf(i)
<1>1. TAKE i
<1>2. {j \in 1..i : Effective(j)'} = {j \in 1..i : Effective(j)}
  BY HistorySame
<1> QED BY <1>2 DEF VersionOf

\* Every step keeps the count of requests carried out, and no copy is newer
\* than the record.
LEMMA NextVersionInv ==
  TypeInv /\ InprocInv /\ CommandInv /\ VersionInv /\ [Next]_vars => VersionInv'
<1> SUFFICES ASSUME TypeInv, InprocInv, CommandInv, VersionInv, [Next]_vars PROVE VersionInv'
  OBVIOUS
<1>0. /\ TypeOK /\ g_version \in Nat /\ t_version \in [Reader -> Int] /\ reqs \in Seq(Requests)
      /\ g_version = VersionOf(Len(reqs)) /\ \A r \in Reader : t_version[r] <= g_version
  BY DEF TypeInv, TypeOK, VersionInv
<1>1. CASE CchanInRequest
  <2>1. PICK r \in Requests :
          \/ StartWhileRunning(r) \/ StartFileMissing(r) \/ StartAccepted(r)
          \/ MarketStop(r) \/ Shutdown(r) \/ Unparsable(r)
    BY <1>1 DEF CchanInRequest
  <2>2. PICK m \in Nat : m = Len(reqs)
    BY <1>0
  <2>3. Outcome(r, m + 1)
    BY <2>1, <2>2, RequestOutcome
  <2>4. VersionOf(m + 1)' = IF Effective(m + 1)' THEN g_version + 1 ELSE g_version
    BY <1>0, <2>2, <2>3, VersionNew DEF Outcome
  <2>5. Len(reqs') = m + 1 /\ UNCHANGED t_version
    BY <1>0, <2>2, <2>3 DEF Outcome
  <2>6. g_version' = VersionOf(m + 1)' /\ g_version <= g_version'
    BY <1>0, <2>3, <2>4 DEF Outcome, Publish, Shared!Publish
  <2>7. g_version' = VersionOf(Len(reqs))'
    BY <2>5, <2>6 DEF VersionOf
  <2> QED BY <1>0, <2>4, <2>5, <2>6, <2>7 DEF VersionInv
<1>2. ASSUME UNCHANGED <<g_version, reqs>>,
             \A r \in Reader : t_version'[r] = t_version[r] \/ t_version'[r] = g_version
      PROVE  VersionInv'
  <2>1. VersionOf(Len(reqs))' = VersionOf(Len(reqs))
    BY <1>2, HistorySame DEF VersionOf
  <2> QED BY <1>0, <1>2, <2>1 DEF VersionInv
<1>3. CASE CchanInSend \/ CchanInSendInterrupted
  BY <1>2, <1>3, SendSteps DEF sharedVars
<1>4. CASE CchanOutRecv
  BY <1>2, <1>4, RecvStep DEF sharedVars
<1>5. CASE CchanOutSend \/ CchanOutSendInterrupted
  BY <1>2, <1>5, OutSendSteps DEF sharedVars
<1>6. CASE CchanOutDestroy
  BY <1>2, <1>6, DestroyStep DEF sharedVars
<1>7. CASE SetUp
  BY <1>0, <1>2, <1>7, SetUpSteps, CopySteps
<1> QED BY <1>1, <1>3, <1>4, <1>5, <1>6, <1>7, StepKinds

\* The count holds throughout.
LEMMA VersionInvariant == Spec => []VersionInv
<1>1. Init => VersionInv
  <2> SUFFICES ASSUME Init PROVE VersionInv
    OBVIOUS
  <2>1. {j \in 1..0 : Effective(j)} = {}
    OBVIOUS
  <2>2. VersionOf(0) = 0
    BY <2>1, FS_EmptySet DEF VersionOf
  <2> QED BY <2>2 DEF Init, VersionInv
<1> QED BY <1>1, NextVersionInv, ControlInvariant, TypeInvariant, PTL DEF Spec

\* A client never reads that a request was accepted before the command is in
\* the shared record, with the version of that request or a later one.
THEOREM ResponseAfterEffectAlways == Spec => []ResponseAfterEffect
<1>1. TypeInv /\ ResponseInv /\ VersionInv => ResponseAfterEffect
  <2> SUFFICES ASSUME TypeInv, ResponseInv, VersionInv, NEW k \in 1..Len(published)
               PROVE  VersionOf(published[k].id) <= g_version
    BY DEF ResponseAfterEffect
  <2>1. PICK i \in 1..Len(reqs) : published[k].id = i
    BY DEF ResponseInv, PublishedInv, Right
  <2>2. Len(reqs) \in Nat
    BY DEF TypeInv, TypeOK
  <2>3. VersionOf(i) <= VersionOf(Len(reqs))
    BY <2>2, VersionMonotone
  <2> QED BY <2>1, <2>3 DEF VersionInv
<1> QED BY <1>1, ControlInvariant, VersionInvariant, TypeInvariant, PTL

------------------------------------------------------------------------------
(* The tape that is played                                                 *)

\* What a start request leaves in the shared record.
LEMMA StartRecord ==
  ASSUME TypeOK, NEW r \in Requests, in_data' = StartRequest(r), Publish(in_data')
  PROVE  /\ HasTape(r) => g_data'.size = 1 /\ g_data'.data = r.tape
         /\ ~HasTape(r) => g_data'.size = 0 /\ g_data'.data = g_data.data
<1>1. g_data' = CopyCtrl(g_data, in_data')
  BY DEF Publish, Shared!Publish, CopyCtrl, Shared!CopyCtrl
<1> QED BY <1>1 DEF StartRequest, CopyCtrl

\* Every step keeps the record that of the last request carried out.
LEMMA NextRecordInv ==
  TypeInv /\ InprocInv /\ CommandInv /\ VersionInv /\ RecordInv /\ [Next]_vars => RecordInv'
<1> SUFFICES ASSUME TypeInv, InprocInv, CommandInv, VersionInv, RecordInv, [Next]_vars
             PROVE  RecordInv'
  OBVIOUS
<1>0. TypeOK /\ g_version \in Nat /\ reqs \in Seq(Requests) /\ Len(reqs) \in Nat
  BY DEF TypeInv, TypeOK
<1>1. CASE CchanInRequest
  <2>1. PICK r \in Requests :
          \/ StartWhileRunning(r) \/ StartFileMissing(r) \/ StartAccepted(r)
          \/ MarketStop(r) \/ Shutdown(r) \/ Unparsable(r)
    BY <1>1 DEF CchanInRequest
  <2>2. PICK m \in Nat : m = Len(reqs)
    BY <1>0
  <2>3. Outcome(r, m + 1) /\ CommandAfter(r, m + 1) /\ RecordAfter(r, m + 1)
    BY <2>1, <2>2, RequestOutcome
  <2>4. reqs' = Append(reqs, r) /\ Len(reqs') = m + 1 /\ reqs'[m + 1] = r
    BY <1>0, <2>2, <2>3 DEF Outcome
  <2>5. ASSUME NEW i \in 1..m
        PROVE  /\ reqs'[i] = reqs[i] /\ (Effective(i)' <=> Effective(i))
               /\ VersionOf(i)' = VersionOf(i) /\ VersionOf(i) <= g_version
               /\ VersionOf(i) \in Nat
    <3>1. i \in 1..Len(reqs) /\ i \in 0..Len(reqs) /\ i \in Int /\ i <= Len(reqs)
      BY <2>2, <2>5
    <3>2. reqs'[i] = reqs[i] /\ (Effective(i)' <=> Effective(i))
      BY <1>0, <2>4, <3>1, HistoryKept
    <3>3. VersionOf(i)' = VersionOf(i)
      BY <1>0, <2>4, <3>1, VersionKept
    <3>4. VersionOf(i) <= g_version /\ VersionOf(i) \in Nat
      <4>1. VersionOf(i) <= VersionOf(Len(reqs))
        BY <1>0, <3>1, VersionMonotone
      <4>2. VersionOf(i) \in Nat
        BY <3>1, EffectiveFinite
      <4> QED BY <4>1, <4>2 DEF VersionInv
    <3> QED BY <3>2, <3>3, <3>4
  <2>6. CASE ~Effective(m + 1)'
    <3>1. UNCHANGED <<g_version, g_data>>
      BY <2>3, <2>6 DEF Outcome
    <3>2. \A i \in 1..(m + 1) : i \in 1..m \/ i = m + 1
      OBVIOUS
    <3> QED BY <2>2, <2>4, <2>5, <2>6, <3>1, <3>2 DEF RecordInv, HasTape
  <2>7. CASE Effective(m + 1)'
    <3>1. g_version' = g_version + 1 /\ Publish(in_data') /\ in_data' \in Ctrl
      BY <2>3, <2>7 DEF Outcome, Publish, Shared!Publish
    <3>2. g_data'.cmd = in_data'.cmd
      BY <1>0, <3>1, PublishEffect
    <3>3. Starts(m + 1)' <=> (r.type = "MARKET_START" /\ r.tape # "no such file")
      BY <2>4 DEF Starts
    <3>4. Expected(m + 1)' \in {"MARKET_START_OK", "MARKET_STOP_OK", "SHUTDOWN_OK"}
      BY <2>7 DEF Effective
    <3>5. r.type = "MARKET_START" => Starts(m + 1)'
      BY <2>4, <3>4 DEF Expected
    <3>6. r.type \in {"MARKET_START", "MARKET_STOP", "SHUTDOWN"}
      BY <2>3, <3>4, RequestTape DEF Outcome
    <3>7. g_data'.cmd = CMD_MARKET_RUN => r.type = "MARKET_START"
      <4>1. r.type = "MARKET_STOP" => in_data'.cmd = CMD_MARKET_STOP
        BY <2>3, <3>3 DEF CommandAfter
      <4>2. r.type = "SHUTDOWN" => in_data'.cmd = CMD_SHUTDOWN
        BY <2>3, <3>3 DEF CommandAfter
      <4> QED BY <3>2, <3>6, <4>1, <4>2 DEF CMD_MARKET_RUN, CMD_MARKET_STOP, CMD_SHUTDOWN
    <3>8. r.type = "MARKET_START" /\ HasTape(r) => g_data'.size = 1 /\ g_data'.data = r.tape
      BY <1>0, <2>3, <2>7, <3>1, <3>5, StartRecord DEF RecordAfter
    <3>9. \A i \in 1..(m + 1) : (i \in 1..m /\ VersionOf(i)' # g_version') \/ i = m + 1
      BY <1>0, <2>5, <3>1
    <3> QED BY <2>4, <3>7, <3>8, <3>9 DEF RecordInv, HasTape
  <2> QED BY <2>6, <2>7
<1>2. ASSUME UNCHANGED <<g_version, g_data, reqs>> PROVE RecordInv'
  <2>1. \A i : (Effective(i)' <=> Effective(i)) /\ VersionOf(i)' = VersionOf(i)
    BY <1>2, HistorySame, VersionSame
  <2> QED BY <1>2, <2>1 DEF RecordInv, HasTape
<1>3. CASE CchanInSend \/ CchanInSendInterrupted
  BY <1>2, <1>3, SendSteps DEF sharedVars
<1>4. CASE CchanOutRecv
  BY <1>2, <1>4, RecvStep DEF sharedVars
<1>5. CASE CchanOutSend \/ CchanOutSendInterrupted
  BY <1>2, <1>5, OutSendSteps DEF sharedVars
<1>6. CASE CchanOutDestroy
  BY <1>2, <1>6, DestroyStep DEF sharedVars
<1>7. CASE SetUp
  BY <1>2, <1>7, SetUpSteps
<1> QED BY <1>1, <1>3, <1>4, <1>5, <1>6, <1>7, StepKinds

\* It is so throughout.
LEMMA RecordInvariant == Spec => []RecordInv
<1>1. Init => RecordInv
  BY DEF Init, RecordInv
<1> QED BY <1>1, NextRecordInv, ControlInvariant, VersionInvariant, TypeInvariant, PTL DEF Spec

\* A step that takes no request, and neither enters NxCore nor changes what it
\* plays or what the market thread has seen.
LEMMA PlayFrame ==
  ASSUME PlaysRequestedTape, UNCHANGED reqs,
         \/ pc'["market"] \notin {"nxcore", "callback"}
         \/ /\ InNxCore /\ nxTape' = nxTape
            /\ t_version'["market"] = t_version["market"]
         \/ /\ pc'["market"] = pc["market"] /\ nxTape' = nxTape
            /\ t_version'["market"] = t_version["market"]
  PROVE  PlaysRequestedTape'
<1>1. \A i : (Effective(i)' <=> Effective(i)) /\ VersionOf(i)' = VersionOf(i)
  BY HistorySame, VersionSame
<1> QED BY <1>1 DEF PlaysRequestedTape, InNxCore, HasTape

\* The market thread, NxCore and the callback.
LEMMA MarketPlays ==
  ASSUME TypeInv, CommandInv, VersionInv, RecordInv, PlaysRequestedTape, MarketRun \/ NxTapeEnd
  PROVE  PlaysRequestedTape'
<1>0. TypeOK /\ UNCHANGED <<reqs, g_version, g_data>>
  BY MarketSteps DEF TypeInv
<1>1. CASE \/ MarketBind \/ MarketConnect \/ MarketStopped \/ MarketShutdown \/ MarketIdle
           \/ MarketWake \/ NxTapeEnd \/ MarketDestroy
  <2>1. PICK from, to : Goto("market", from, to) /\ to \notin {"nxcore", "callback"}
    BY <1>1 DEF MarketBind, MarketConnect, MarketStopped, MarketShutdown, MarketIdle, MarketWake,
                NxTapeEnd, MarketDestroy, MarketPoll, BindOrReturn, ConnectInproc, DestroyChannels
  <2> QED BY <1>0, <2>1, MarketGoto, PlayFrame
<1>2. CASE MarketStart /\ nxlib = "no function"
  BY <1>0, <1>2, MarketGoto, PlayFrame DEF MarketStart, wininf_nxcore_run, MarketPoll
<1>3. CASE MarketStart /\ nxlib = "loaded"
  <2>1. /\ Refreshed("market").cmd = CMD_MARKET_RUN /\ nxTape' = Refreshed("market").data
        /\ Shared!Refresh("market")
    BY <1>3 DEF MarketStart, wininf_nxcore_run, MarketPoll
  <2>2. t_version'["market"] = g_version /\ g_data.cmd = CMD_MARKET_RUN
    BY <1>0, <2>1, RefreshedType DEF Shared!Refresh, TypeOK, Reader
  <2>3. 0 < g_data.size => nxTape' = g_data.data
    BY <2>1 DEF Refreshed, CopyCtrl
  <2>4. \A i : (Effective(i)' <=> Effective(i)) /\ VersionOf(i)' = VersionOf(i)
    BY <1>0, HistorySame, VersionSame
  <2>5. ASSUME NEW i \in 1..Len(reqs), Effective(i), VersionOf(i) = g_version
        PROVE  reqs[i].type = "MARKET_START" /\ (HasTape(reqs[i]) => nxTape' = reqs[i].tape)
    BY <2>2, <2>3, <2>5 DEF RecordInv
  <2> QED BY <1>0, <2>2, <2>4, <2>5 DEF PlaysRequestedTape, HasTape
<1>4. CASE NxCallback
  <2>1. /\ pc["market"] = "nxcore" /\ nxTape' = nxTape
        /\ t_version'["market"] = t_version["market"]
    BY <1>0, <1>4, MarketGoto DEF NxCallback, Shared!Refresh, TypeOK, Reader, nxVars
  <2> QED BY <1>0, <2>1, PlayFrame DEF InNxCore
<1>5. ASSUME NEW status \in BOOLEAN, NxCallbackReturn(status) PROVE PlaysRequestedTape'
  <2>1. /\ pc["market"] = "callback" /\ t_version' = t_version
        /\ pc'["market"] = "loop" \/ nxTape' = nxTape
    BY <1>0, <1>5, MarketGoto DEF NxCallbackReturn, sharedVars
  <2> QED BY <1>0, <2>1, PlayFrame DEF InNxCore
<1> QED BY <1>1, <1>2, <1>3, <1>4, <1>5 DEF MarketRun, MarketStart, wininf_nxcore_run

\* The steps of all threads but the market thread.
Others ==
  \/ UNCHANGED vars \/ MainRun \/ CchanInRequest \/ CchanInRun \/ CchanOutRun \/ PipeTerm
  \/ Interrupted

\* They leave the playback and the market thread's copy of the record alone.
LEMMA OtherSteps ==
  ASSUME TypeInv, Others
  PROVE  /\ nxTape' = nxTape /\ (InNxCore' <=> InNxCore)
         /\ t_version'["market"] = t_version["market"]
<1>0. TypeOK
  BY DEF TypeInv
<1>1. CASE UNCHANGED vars
  BY <1>1 DEF vars, nxVars, sharedVars, InNxCore
<1>2. CASE MainRun
  <2>1. UNCHANGED <<nxTape, t_version>>
    BY <1>2 DEF MainRun, MainStart, MainJoin, MainShutdown, nxVars, sharedVars
  <2>2. InNxCore' <=> InNxCore
    BY <1>2 DEF MainRun, MainStart, MainJoin, MainShutdown, TypeInv, StartInv, InNxCore, Thread
  <2> QED BY <2>1, <2>2
<1>3. ASSUME UNCHANGED <<nxTape, t_version>>, pc'["market"] = pc["market"]
      PROVE  /\ nxTape' = nxTape /\ (InNxCore' <=> InNxCore)
             /\ t_version'["market"] = t_version["market"]
  BY <1>3 DEF InNxCore
<1>4. CASE CchanInRequest
  <2>1. PICK r \in Requests :
          \/ StartWhileRunning(r) \/ StartFileMissing(r) \/ StartAccepted(r)
          \/ MarketStop(r) \/ Shutdown(r) \/ Unparsable(r)
    BY <1>4 DEF CchanInRequest
  <2>2. \/ \E type : Respond(type)
        \/ Unparsable(r)
    BY <2>1 DEF StartWhileRunning, StartFileMissing, StartAccepted, MarketStop, Shutdown
  <2>3. nxTape' = nxTape /\ pc'["market"] = pc["market"]
    BY <1>0, <2>2, OtherThread DEF Respond, Unparsable, nxVars
  <2>4. t_version' = t_version
    BY <2>1 DEF StartWhileRunning, StartFileMissing, StartAccepted, MarketStop, Shutdown,
                Unparsable, Publish, Shared!Publish, sharedVars
  <2> QED BY <1>3, <2>3, <2>4
<1>5. CASE CchanInRun \/ CchanInSendInterrupted
  <2>1. PICK from, to : Goto("cchan_in", from, to)
    BY <1>5 DEF CchanInRun, CchanInBind, CchanInConnect, CchanInSend, CchanInDestroy,
                CchanInSendInterrupted, CchanInLoop, BindOrReturn, ConnectInproc, DestroyChannels
  <2>2. UNCHANGED <<nxTape, t_version>>
    BY <1>5 DEF CchanInRun, CchanInBind, CchanInConnect, CchanInSend, CchanInDestroy,
                CchanInSendInterrupted, CchanInLoop, sharedVars, nxVars
  <2> QED BY <1>0, <1>3, <2>1, <2>2, OtherThread
<1>6. CASE CchanInRecvInterrupted \/ PipeTerm
  BY <1>3, <1>6 DEF CchanInRecvInterrupted, PipeTerm, sharedVars, nxVars
<1>7. CASE CchanOutRun \/ CchanOutRecvInterrupted \/ CchanOutSendInterrupted
  <2>1. PICK from, to : Goto("cchan_out", from, to)
    BY <1>7 DEF CchanOutRun, CchanOutBind, CchanOutBindInproc, CchanOutLoop, CchanOutRecv,
                CchanOutSend, CchanOutDestroy, CchanOutRecvInterrupted,
                CchanOutSendInterrupted, BindOrReturn, DestroyChannels
  <2>2. UNCHANGED nxTape /\ t_version'["market"] = t_version["market"]
    <3>1. CASE CchanOutLoop
      BY <1>0, <3>1 DEF CchanOutLoop, Shared!Refresh, TypeOK, Reader, nxVars
    <3>2. CASE ~CchanOutLoop
      BY <1>7, <3>2 DEF CchanOutRun, CchanOutBind, CchanOutBindInproc, CchanOutRecv,
                CchanOutSend, CchanOutDestroy, CchanOutRecvInterrupted,
                CchanOutSendInterrupted, sharedVars, nxVars
    <3> QED BY <3>1, <3>2
  <2> QED BY <1>0, <2>1, <2>2, OtherThread DEF InNxCore
<1> QED BY <1>1, <1>2, <1>4, <1>5, <1>6, <1>7 DEF Others, Interrupted

\* Every step keeps NxCore on the tape of the request it was started for.
LEMMA NextPlays ==
  /\ TypeInv /\ InprocInv /\ CommandInv /\ VersionInv /\ RecordInv /\ PlaysRequestedTape
  /\ [Next]_vars
  => PlaysRequestedTape'
<1> SUFFICES ASSUME TypeInv, InprocInv, CommandInv, VersionInv, RecordInv, PlaysRequestedTape,
                    [Next]_vars
             PROVE  PlaysRequestedTape'
  OBVIOUS
<1>1. CASE MarketRun \/ NxTapeEnd
  BY <1>1, MarketPlays
<1>2. CASE CchanInRequest
  <2>0. /\ reqs \in Seq(Requests) /\ Len(reqs) \in Nat /\ g_version \in Nat
        /\ t_version["market"] \in Int /\ t_version["market"] <= g_version
    BY DEF TypeInv, TypeOK, VersionInv, Reader
  <2>1. PICK r \in Requests :
          \/ StartWhileRunning(r) \/ StartFileMissing(r) \/ StartAccepted(r)
          \/ MarketStop(r) \/ Shutdown(r) \/ Unparsable(r)
    BY <1>2 DEF CchanInRequest
  <2>2. PICK m \in Nat : m = Len(reqs)
    BY <2>0
  <2>3. reqs' = Append(reqs, r) /\ Len(reqs') = m + 1
    BY <2>0, <2>1, <2>2, RequestOutcome DEF Outcome
  <2>4. /\ nxTape' = nxTape /\ (InNxCore' <=> InNxCore)
        /\ t_version'["market"] = t_version["market"]
    BY <1>2, OtherSteps DEF Others
  <2>5. ASSUME NEW i \in 1..m
        PROVE  /\ reqs'[i] = reqs[i] /\ (Effective(i)' <=> Effective(i))
               /\ VersionOf(i)' = VersionOf(i)
    <3>1. i \in 1..Len(reqs) /\ i \in 0..Len(reqs)
      BY <2>2, <2>5
    <3> QED BY <2>0, <2>3, <3>1, HistoryKept, VersionKept
  <2>6. Effective(m + 1)' => VersionOf(m + 1)' # t_version["market"]
    BY <2>0, <2>2, <2>3, VersionNew DEF VersionInv
  <2>7. \A i \in 1..(m + 1) : i \in 1..m \/ i = m + 1
    OBVIOUS
  <2> QED BY <2>2, <2>3, <2>4, <2>5, <2>6, <2>7 DEF PlaysRequestedTape, HasTape
<1>3. ASSUME Others, UNCHANGED reqs PROVE PlaysRequestedTape'
  BY <1>3, OtherSteps, PlayFrame DEF InNxCore
<1>4. CASE \/ CchanInSend \/ CchanInSendInterrupted \/ CchanOutRecv \/ CchanOutSend
           \/ CchanOutSendInterrupted \/ CchanOutDestroy
  BY <1>3, <1>4, SendSteps, RecvStep, OutSendSteps, DestroyStep
     DEF Others, CchanInRun, CchanOutRun, Interrupted
<1>5. CASE SetUp /\ ~(MarketRun \/ NxTapeEnd)
  BY <1>3, <1>5, SetUpSteps DEF Others, SetUp, CchanInRun, CchanOutRun, Interrupted
<1> QED BY <1>1, <1>2, <1>4, <1>5, StepKinds

\* Whatever NxCore plays is the tape that the start request named, copied
\* through the record of cchan_in, the shared record and the market thread's
\* copy; and it plays for a start request only.
THEOREM PlaysRequestedTapeAlways == Spec => []PlaysRequestedTape
<1>1. Init => PlaysRequestedTape
  BY DEF Init, PlaysRequestedTape
<1> QED BY <1>1, NextPlays, ControlInvariant, VersionInvariant, RecordInvariant, TypeInvariant,
           PTL DEF Spec
==============================================================================
