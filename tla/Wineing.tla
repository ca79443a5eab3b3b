------------------------------- MODULE Wineing -------------------------------
(***************************************************************************)
(* The Wineing server: main (main.win.cc, wineing_init, wineing_run and    *)
(* wineing_shutdown) and its three threads.                                *)
(***************************************************************************)
EXTENDS CchanIn, CchanOut, Market, FiniteSets

Init ==
  /\ mainPc = "init"
  /\ pc = [t \in Thread |-> "none"]
  /\ sockets = [t \in Thread |-> 0]
  /\ failed = [t \in Thread |-> 0]
  /\ inproc = "unbound"
  /\ pipe = "none"
  /\ inq = <<>>
  /\ res = NoResponse
  /\ held = NoResponse
  /\ published = <<>>
  /\ \E d \in InitialBuffers : in_data = InitialCtrl(d)
  /\ g_version = 0
  /\ \E d \in InitialBuffers : g_data = InitialCtrl(d)
  /\ t_version = [r \in Reader |-> -1]
  /\ \E d \in [Reader -> InitialBuffers] : t_data = [r \in Reader |-> InitialCtrl(d[r])]
  /\ argv \in CommandLines
  /\ nxlib \in NxLibs
  /\ nxTape = EmptyTape
  /\ tail = 0
  /\ reqs = <<>>
  /\ interrupts = 0

------------------------------------------------------------------------------
(* main                                                                    *)

wininf_nxcore_load == nxlib # "no dll"

\* cmd_parse, wineing_init, then wineing_run up to the joins: the three
\* threads exist.  exit(1) if an option is missing or the library cannot be
\* loaded.
MainStart ==
  /\ mainPc = "init"
  /\ \/ /\ AllOptionsGiven(argv) /\ wininf_nxcore_load
        /\ mainPc' = "join_market"
        /\ pc' = [t \in Thread |-> "bind"]
     \/ /\ ~(AllOptionsGiven(argv) /\ wininf_nxcore_load)
        /\ mainPc' = "exit"
        /\ UNCHANGED pc
  /\ UNCHANGED <<chanVars, msgVars, in_data, sharedVars, nxVars, ghostVars, interrupts>>

Returned(t) == pc[t] \in {"done", "failed"}

\* The three pthread_join calls of wineing_run, in their order.
Join(t, from, to) ==
  /\ mainPc = from
  /\ Returned(t)
  /\ mainPc' = to

MainJoin ==
  /\ \/ Join("market", "join_market", "join_out")
     \/ Join("cchan_out", "join_out", "join_in")
     \/ Join("cchan_in", "join_in", "term")
  /\ UNCHANGED <<pc, chanVars, msgVars, in_data, sharedVars, nxVars, ghostVars, interrupts>>

\* zmq_term returns when every socket is closed.
chan_shutdown == \A t \in Thread : sockets[t] = 0

\* wineing_shutdown; what follows chan_shutdown cannot block.
MainShutdown ==
  /\ mainPc = "term"
  /\ chan_shutdown
  /\ mainPc' = "done"
  /\ UNCHANGED <<pc, chanVars, msgVars, in_data, sharedVars, nxVars, ghostVars, interrupts>>

MainRun == MainStart \/ MainJoin \/ MainShutdown

------------------------------------------------------------------------------

Interrupted ==
  \/ CchanInRecvInterrupted \/ CchanInSendInterrupted
  \/ CchanOutRecvInterrupted \/ CchanOutSendInterrupted

Next ==
  \/ MainRun
  \/ CchanInRequest \/ CchanInRun
  \/ CchanOutRun \/ PipeTerm
  \/ MarketRun \/ NxTapeEnd
  \/ Interrupted

Spec == Init /\ [][Next]_vars

\* The scheduler runs every thread that is not blocked; NxCore keeps calling
\* its callback, and a tape file ends.  Real-time data need not end.  Nothing
\* is assumed of the client: it need not send, and nothing of signals.
Fairness ==
  /\ WF_vars(MainRun)
  /\ WF_vars(CchanInRun)
  /\ WF_vars(CchanOutRun)
  /\ WF_vars(PipeTerm)
  /\ WF_vars(MarketRun)
  /\ SF_vars(nxTape # EmptyTape /\ NxTapeEnd)

FairSpec == Spec /\ Fairness

------------------------------------------------------------------------------
(* Types                                                                   *)

ThreadPc ==
  {"none", "bind", "connect", "bind_inproc", "recv", "send", "loop", "sleep",
   "nxcore", "callback", "destroy", "done", "failed"}

\* Types of the state of wineing.cc.
TypeOK ==
  /\ mainPc \in {"init", "exit", "join_market", "join_out", "join_in", "term", "done"}
  /\ pc \in [Thread -> ThreadPc]
  /\ sockets \in [Thread -> Nat]
  /\ failed \in [Thread -> 0..MaxRetries]
  /\ inproc \in {"unbound", "bound", "closed"}
  /\ pipe \in {"none", "open", "dead"}
  /\ inq \in Seq(Response)
  /\ res \in Response \cup {NoResponse}
  /\ held \in Response \cup {NoResponse}
  /\ published \in Seq(Response)
  /\ in_data \in Ctrl
  /\ g_version \in Nat
  /\ g_data \in Ctrl
  /\ t_version \in [Reader -> Int]
  /\ t_data \in [Reader -> Ctrl]
  /\ argv \in CommandLines
  /\ nxlib \in NxLibs
  /\ nxTape \in Tapes
  /\ tail \in Nat
  /\ reqs \in Seq(Requests)
  /\ interrupts \in 0..MaxInterrupts

------------------------------------------------------------------------------
(* What the requests received so far ask for, read off the list of         *)
(* requests alone.                                                         *)

Starts(i) ==
  /\ reqs[i].type = "MARKET_START"
  /\ reqs[i].tape # "no such file"

\* Streaming is on when request i arrives.
RunningBefore(i) ==
  \E j \in 1..(i - 1) :
    /\ Starts(j)
    /\ \A k \in (j + 1)..(i - 1) : reqs[k].type # "MARKET_STOP"

Expected(i) ==
  CASE reqs[i].type = "MARKET_STOP" -> "MARKET_STOP_OK"
    [] reqs[i].type = "SHUTDOWN" -> "SHUTDOWN_OK"
    [] reqs[i].type = "MARKET_START" /\ RunningBefore(i) -> "MARKET_START_ERR_RUNNING"
    [] reqs[i].type = "MARKET_START" /\ ~RunningBefore(i) ->
         IF Starts(i) THEN "MARKET_START_OK" ELSE "ERR"
    [] OTHER -> "none"

\* Request i changes what the server does.
Effective(i) == Expected(i) \in {"MARKET_START_OK", "MARKET_STOP_OK", "SHUTDOWN_OK"}

\* The version of the shared record that carries out request i.
VersionOf(i) == Cardinality({j \in 1..i : Effective(j)})

Asked(type) == \E i \in 1..Len(reqs) : reqs[i].type = type

Answered(i) == \E k \in 1..Len(published) : published[k].id = i

------------------------------------------------------------------------------
(* Safety                                                                  *)

\* Clients get responses in the order of the requests, none twice, and each
\* says what the whole history of requests calls for (the switch of
\* cchan_in_thread and its t_data.cmd, and the two queues up to cchan_out).
ResponsesMatchRequests ==
  /\ \A k \in 1..Len(published) : published[k].type = Expected(published[k].id)
  /\ \A k, l \in 1..Len(published) : k < l => published[k].id < published[l].id

\* When a client reads that its request was accepted, the other threads can
\* already see it: the command is published before the response is sent.
ResponseAfterEffect ==
  \A k \in 1..Len(published) :
    Effective(published[k].id) => VersionOf(published[k].id) <= g_version

\* After streaming is stopped at most two more market data messages go out:
\* one of a callback that had already looked, one of the callback that finds
\* out (nxtape_process sends first and returns NxCALLBACKRETURN_STOP after).
StopTail == tail <= 2

\* While nobody has asked for a shutdown and no call was interrupted, every
\* request that could be read has its response sent or on its way: in
\* cchan_in's hands, in the inproc channel or in cchan_out's.
NothingLostWhileRunning ==
  Asked("SHUTDOWN") \/ interrupts > 0 \/
    \A i \in 1..Len(reqs) :
      \/ reqs[i].type = "UNPARSABLE"
      \/ Answered(i) \/ res.id = i \/ held.id = i
      \/ \E k \in 1..Len(inq) : inq[k].id = i

\* No request is taken by a server whose response thread gave up: cchan_in
\* waits for the inproc end, which cchan_out binds after its own endpoint.
NoRequestWithoutCchanOut == pc["cchan_out"] = "failed" => reqs = <<>>

InNxCore == pc["market"] \in {"nxcore", "callback"}

\* NxCore plays for a start request only, and when the request names a tape,
\* that one: the path survives the four buffers it is copied through.
PlaysRequestedTape ==
  InNxCore =>
    \A i \in 1..Len(reqs) :
      Effective(i) /\ VersionOf(i) = t_version["market"] =>
        /\ reqs[i].type = "MARKET_START"
        /\ HasTape(reqs[i]) => nxTape = reqs[i].tape

\* A thread that ends normally leaves open exactly the sockets of its failed
\* attempts to connect; when there were none and every thread ended normally
\* nothing holds up zmq_term.
OnlyRetriesLeak ==
  \A t \in Thread : pc[t] = "done" => sockets[t] = failed[t]

\* The option of cmd_print_usage for each channel.
ChannelOption == [cchan_in |-> "cchan-in", cchan_out |-> "cchan-out", mchan |-> "mchan"]

\* The argument counts for channel c: it is the channel's option, or none of
\* the usage's options but one that has the characters of the channel's.
CountsFor(c, arg) ==
  \/ arg.name = ChannelOption[c]
  \/ /\ arg.name \notin Options
     /\ IF c = "mchan" THEN arg.third = "m"
        ELSE arg.third = "c" /\ (c = "cchan_in" <=> arg.ninth = "i")

\* The server runs only with three channels, each the last that was given,
\* whatever the order of the options and however often they come, and refuses
\* exactly the command lines in which one is missing: the options of the usage
\* are never confused with each other, although cmd_parse tells them by two
\* characters and counts them in a bit mask.  The exception is an argument
\* that is not in the usage: --mode=x counts for --mchan, --cchan=ipc for
\* --cchan-in.
ChannelsAsGiven ==
  /\ mainPc \notin {"init", "exit"} =>
       \A c \in DOMAIN ChannelOption :
         \E i \in 1..Len(argv) :
           /\ CountsFor(c, argv[i])
           /\ argv[i].value = cmd_parse(argv)[c]
           /\ \A j \in (i + 1)..Len(argv) : ~CountsFor(c, argv[j])
  /\ mainPc = "exit" =>
       \/ ~wininf_nxcore_load
       \/ \E c \in DOMAIN ChannelOption :
            \A i \in 1..Len(argv) : ~CountsFor(c, argv[i])

------------------------------------------------------------------------------
(* The control service that the server implements                          *)

Playback == IF InNxCore THEN {nxTape} ELSE {}

Mode ==
  IF g_data.cmd = CMD_MARKET_RUN THEN "running"
  ELSE IF g_data.cmd = CMD_SHUTDOWN THEN "down" ELSE "idle"

RunningTape ==
  IF g_data.cmd = CMD_MARKET_RUN /\ 0 < g_data.size THEN g_data.data ELSE NoPath

\* The responses on their way to the client.
Slot(r) == IF r = NoResponse THEN <<>> ELSE <<r>>
OnTheWay == Slot(held) \o inq \o Slot(res)

Service == INSTANCE CtrlService
  WITH Paths <- Path, mode <- Mode, tape <- RunningTape, owed <- OnTheWay,
       answers <- published, playing <- Playback, faults <- interrupts

\* The three threads, the inproc channel between two of them and the copies
\* of the shared record implement the control service: a request is judged
\* and takes effect in one step, its response is lost only to an interrupted
\* call or after a shutdown, and NxCore is given the tape of the start that
\* is in force when it is called.
ImplementsService == Service!Spec

------------------------------------------------------------------------------
(* Liveness                                                                *)

\* A stop or a shutdown ends the playback it finds, even of a feed that never
\* ends by itself, unless a start is accepted before the callback looks.
StopEndsPlayback ==
  (InNxCore /\ g_data.cmd < CMD_MARKET_RUN)
    ~> (~InNxCore \/ g_data.cmd = CMD_MARKET_RUN)

\* An accepted start is played, unless another command comes first or the
\* thread is in a real-time feed that an earlier start began: a callback
\* that comes after both the stop and the start does not end it.
StartPlayedUnlessBusy ==
  \A v \in 1..MaxRequests :
    (g_version = v /\ g_data.cmd = CMD_MARKET_RUN)
      ~> \/ g_version # v
         \/ InNxCore /\ (t_version["market"] = v \/ nxTape = EmptyTape)

\* Every request that could be read is answered, unless a shutdown comes.
AnsweredUnlessShutdown ==
  \A i \in 1..MaxRequests :
    (i <= Len(reqs) /\ reqs[i].type # "UNPARSABLE")
      ~> (Answered(i) \/ Asked("SHUTDOWN"))

\* A shutdown request that finds cchan_out waiting for a response, and the
\* market thread past its start-up, is answered, and every thread ends.
QuietShutdown ==
  /\ res.type = "SHUTDOWN_OK"
  /\ pc["cchan_out"] = "recv"
  /\ inq = <<>>
  /\ pc["market"] \notin {"bind", "connect"}

OrderlyShutdown ==
  QuietShutdown ~>
    /\ \E k \in 1..Len(published) : published[k].type = "SHUTDOWN_OK"
    /\ \A t \in Thread : Returned(t)
    /\ (\A t \in Thread : failed[t] = 0) => mainPc = "done"

------------------------------------------------------------------------------
(* What the documentation says and the code does not do                    *)

\* WineingCtrlProto.proto: "For every Request the server will respond with a
\* Response message."
EveryRequestAnswered ==
  \A i \in 1..MaxRequests :
    (i <= Len(reqs) /\ reqs[i].type # "UNPARSABLE") ~> Answered(i)

\* WineingCtrlProto.proto: SHUTDOWN "Shutdowns the application"; wineing.h:
\* wineing_shutdown "does a clean shutdown".  cchan_in can block sending its
\* last response to a cchan_out that has already ended, the market thread can
\* miss the inproc endpoint, and a forgotten socket can hold up zmq_term.
ShutdownEndsApplication == Asked("SHUTDOWN") ~> mainPc = "done"

\* WineingCtrlProto.proto: without a tape file "wineing tries to connect to
\* the real-time feed".
RealTimeWithoutTape ==
  InNxCore =>
    \A i \in 1..Len(reqs) :
      Effective(i) /\ VersionOf(i) = t_version["market"] /\ ~HasTape(reqs[i]) =>
        nxTape = EmptyTape

\* An accepted start reaches NxCore, unless another command comes first:
\* wineing "will try to play pack the given" tape (WineingCtrlProto.proto).
\* A stop and a start that come between two looks of the callback leave an
\* earlier playback running, which need not end.
StartReachesNxCore ==
  \A v \in 1..MaxRequests :
    (g_version = v /\ g_data.cmd = CMD_MARKET_RUN)
      ~> (g_version # v \/ (InNxCore /\ t_version["market"] = v))
==============================================================================
