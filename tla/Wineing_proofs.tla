---------------------------- MODULE Wineing_proofs ----------------------------
(***************************************************************************)
(* Proofs about the server for any requests, any files and any bounds on   *)
(* requests, retries and interrupted calls: the types, what happens to the *)
(* sockets, how much market data follows a stop, and that no request is    *)
(* taken without a thread that answers it.                                 *)
(***************************************************************************)
EXTENDS Wineing, TLAPS

\* Where a thread is, by the channels it has set up.
OneChannel  == {"connect", "bind_inproc"}
TwoChannels == {"recv", "send", "loop", "sleep", "nxcore", "callback", "destroy"}

\* No thread exists before main has created all three.
StartInv == mainPc = "init" => \A t \in Thread : pc[t] = "none"

\* How many sockets a thread has open besides those of failed attempts.
SocketInv ==
  \A t \in Thread :
    /\ pc[t] \in {"none", "bind", "done"} => sockets[t] = failed[t]
    /\ pc[t] \in OneChannel => sockets[t] = failed[t] + 1
    /\ pc[t] \in TwoChannels => sockets[t] = failed[t] + 2

\* A thread that is about to send has something to send.
SendInv ==
  /\ pc["cchan_in"] = "send" => res \in Response
  /\ pc["cchan_out"] = "send" => held \in Response

TypeInv == TypeOK /\ StartInv /\ SocketInv /\ SendInv

------------------------------------------------------------------------------
(* Operations on the shared record                                         *)

\* The record and the copies of it keep their types.
LEMMA CopyCtrlType ==
  ASSUME NEW dst \in Ctrl, NEW src \in Ctrl
  PROVE  CopyCtrl(dst, src) \in Ctrl /\ CopyCtrl(dst, src).cmd = src.cmd
BY DEF CopyCtrl, Ctrl

\* What lazy_update_global_if_owner does to the state.
LEMMA PublishEffect ==
  ASSUME TypeOK, NEW d \in Ctrl, Publish(d)
  PROVE  /\ g_version' \in Nat
         /\ g_data' \in Ctrl
         /\ g_data'.cmd = d.cmd
         /\ tail' \in Nat
         /\ tail' = IF d.cmd < CMD_MARKET_RUN THEN tail ELSE 0
         /\ UNCHANGED <<t_version, t_data>>
<1>1. g_data' = CopyCtrl(g_data, d)
  BY DEF Publish, Shared!Publish, CopyCtrl, Shared!CopyCtrl
<1>2. g_data' \in Ctrl /\ g_data'.cmd = d.cmd
  BY <1>1, CopyCtrlType DEF TypeOK
<1> QED BY <1>2 DEF Publish, Shared!Publish, TypeOK

\* What lazy_update_local_if_changed does to the state.
LEMMA RefreshEffect ==
  ASSUME TypeOK, NEW r \in Reader, Shared!Refresh(r)
  PROVE  /\ UNCHANGED <<g_version, g_data>>
         /\ t_version' \in [Reader -> Int]
         /\ t_data' \in [Reader -> Ctrl]
         /\ t_data'[r].cmd = g_data.cmd
         /\ \A q \in Reader : q # r => t_data'[q] = t_data[q]
<1>1. t_data' = [t_data EXCEPT ![r] = CopyCtrl(t_data[r], g_data)]
  BY DEF Shared!Refresh, CopyCtrl, Shared!CopyCtrl
<1>2. CopyCtrl(t_data[r], g_data) \in Ctrl /\ CopyCtrl(t_data[r], g_data).cmd = g_data.cmd
  BY CopyCtrlType DEF TypeOK
<1> QED BY <1>1, <1>2 DEF Shared!Refresh, TypeOK

\* What a reader will hold is a control record.
LEMMA RefreshedType ==
  ASSUME TypeOK, NEW r \in Reader
  PROVE  Refreshed(r) \in Ctrl /\ Refreshed(r).cmd = g_data.cmd
BY CopyCtrlType DEF TypeOK, Refreshed

------------------------------------------------------------------------------
(* Types and sockets                                                       *)

\* Every w_ctrl starts as a control record.
LEMMA InitialCtrlType ==
  ASSUME NEW d \in InitialBuffers
  PROVE  InitialCtrl(d) \in Ctrl
<1>1. d \in Tapes
  BY PathsAssumption
<1> QED BY <1>1 DEF InitialCtrl, Ctrl, CMD_INIT, CMD_SHUTDOWN

\* The start state has its types and no open socket.
LEMMA InitTypeInv == Init => TypeInv
<1> SUFFICES ASSUME Init PROVE TypeInv
  OBVIOUS
<1>1. in_data \in Ctrl /\ g_data \in Ctrl
  BY InitialCtrlType DEF Init
<1>2. t_data \in [Reader -> Ctrl]
  <2>1. PICK d \in [Reader -> InitialBuffers] : t_data = [r \in Reader |-> InitialCtrl(d[r])]
    BY DEF Init
  <2>2. \A r \in Reader : InitialCtrl(d[r]) \in Ctrl
    BY InitialCtrlType
  <2> QED BY <2>1, <2>2
<1>3. TypeOK
  BY <1>1, <1>2, EmptyTapeAssumption, BoundsAssumption DEF Init, TypeOK, ThreadPc
<1>4. StartInv /\ SocketInv /\ SendInv
  BY DEF Init, StartInv, SocketInv, SendInv, OneChannel, TwoChannels, Thread
<1> QED BY <1>3, <1>4 DEF TypeInv

\* What a step of thread t does to the places of the threads.
LEMMA GotoEffect ==
  ASSUME TypeInv, NEW t \in Thread, NEW from \in ThreadPc, from # "none",
         NEW to \in ThreadPc, Goto(t, from, to), UNCHANGED mainPc
  PROVE  /\ pc[t] = from
         /\ pc' \in [Thread -> ThreadPc]
         /\ pc'[t] = to
         /\ \A q \in Thread : q # t => pc'[q] = pc[q]
         /\ StartInv'
BY DEF TypeInv, TypeOK, StartInv, Goto

\* A step of a thread that has both its channels, and keeps them.
LEMMA LoopStep ==
  ASSUME TypeInv, NEW t \in Thread, NEW from \in TwoChannels, NEW to \in TwoChannels,
         Goto(t, from, to), UNCHANGED <<mainPc, sockets, failed>>
  PROVE  pc' \in [Thread -> ThreadPc] /\ StartInv' /\ SocketInv'
<1>1. from \in ThreadPc /\ from # "none" /\ to \in ThreadPc
  BY DEF TwoChannels, ThreadPc
<1>2. SocketInv'
  BY <1>1, GotoEffect DEF TypeInv, SocketInv, OneChannel, TwoChannels
<1> QED BY <1>1, <1>2, GotoEffect

\* main creates the threads, joins them and shuts down.
LEMMA MainTypeInv == TypeInv /\ MainRun => TypeInv'
<1> SUFFICES ASSUME TypeInv, MainRun PROVE TypeInv'
  OBVIOUS
<1> USE DEF TypeInv, TypeOK, StartInv, SocketInv, SendInv, OneChannel, TwoChannels, ThreadPc,
            chanVars, msgVars, sharedVars, nxVars, envVars, ghostVars
<1>1. CASE MainStart
  BY <1>1 DEF MainStart, Thread
<1>2. CASE MainJoin
  BY <1>2 DEF MainJoin, Join
<1>3. CASE MainShutdown
  BY <1>3 DEF MainShutdown
<1> QED BY <1>1, <1>2, <1>3 DEF MainRun

\* Opening the first socket, with or without success.
LEMMA BindTypeInv ==
  ASSUME TypeInv, NEW t \in Thread, NEW next \in OneChannel, BindOrReturn(t, next),
         UNCHANGED <<mainPc, msgVars, in_data, sharedVars, nxVars, ghostVars, interrupts>>
  PROVE  TypeInv'
<1>1. PICK to \in {next, "failed"} : Goto(t, "bind", to)
  BY DEF BindOrReturn
<1>2. /\ pc' \in [Thread -> ThreadPc]
      /\ pc[t] = "bind" /\ pc'[t] = to
      /\ \A q \in Thread : q # t => pc'[q] = pc[q]
      /\ StartInv'
  BY <1>1, GotoEffect DEF OneChannel, ThreadPc
<1>3. /\ sockets' = [sockets EXCEPT ![t] = @ + 1]
      /\ UNCHANGED <<failed, inproc, pipe>>
  BY DEF BindOrReturn, OpenSocket
<1>4. TypeOK'
  BY <1>2, <1>3 DEF TypeInv, TypeOK, msgVars, sharedVars, nxVars, envVars, ghostVars
<1>5. SocketInv'
  BY <1>2, <1>3 DEF TypeInv, TypeOK, SocketInv, OneChannel, TwoChannels
<1>6. SendInv'
  BY <1>2 DEF TypeInv, SendInv, OneChannel, Thread, msgVars
<1> QED BY <1>2, <1>4, <1>5, <1>6 DEF TypeInv

\* One attempt to connect to the inproc endpoint.
LEMMA ConnectTypeInv ==
  ASSUME TypeInv, NEW t \in Thread, NEW next \in {"recv", "loop"}, ConnectInproc(t, next),
         UNCHANGED <<mainPc, inproc, msgVars, in_data, sharedVars, nxVars, ghostVars,
                     interrupts>>,
         pipe' \in {"none", "open", "dead"}
  PROVE  TypeInv'
<1>1. PICK to \in {next, "connect"} : Goto(t, "connect", to)
  BY DEF ConnectInproc
<1>2. /\ pc' \in [Thread -> ThreadPc]
      /\ pc[t] = "connect" /\ pc'[t] = to
      /\ \A q \in Thread : q # t => pc'[q] = pc[q]
      /\ StartInv'
  BY <1>1, GotoEffect DEF ThreadPc
<1>3. sockets' = [sockets EXCEPT ![t] = @ + 1] /\ sockets' \in [Thread -> Nat]
  BY DEF ConnectInproc, OpenSocket, TypeInv, TypeOK
<1>4. \/ pc'[t] = next /\ failed' = failed
      \/ /\ pc'[t] = "connect" /\ failed[t] < MaxRetries
         /\ failed' = [failed EXCEPT ![t] = @ + 1]
  BY DEF ConnectInproc, Goto, TypeInv, TypeOK
<1>5. failed' \in [Thread -> 0..MaxRetries]
  <2>1. failed \in [Thread -> 0..MaxRetries] /\ MaxRetries \in Nat
    BY BoundsAssumption DEF TypeInv, TypeOK
  <2>2. CASE failed[t] < MaxRetries /\ failed' = [failed EXCEPT ![t] = @ + 1]
    <3>1. failed[t] + 1 \in 0..MaxRetries
      BY <2>1, <2>2
    <3> QED BY <2>1, <2>2, <3>1
  <2> QED BY <1>4, <2>1, <2>2
<1>6. TypeOK'
  BY <1>2, <1>3, <1>5 DEF TypeInv, TypeOK, msgVars, sharedVars, nxVars, envVars, ghostVars
<1>7. SocketInv'
  <2>1. sockets[t] = failed[t] + 1 /\ sockets[t] \in Nat /\ failed[t] \in Nat
    BY <1>2, BoundsAssumption DEF TypeInv, TypeOK, SocketInv, OneChannel
  <2>2. CASE pc'[t] = next /\ failed' = failed
    BY <1>2, <1>3, <2>1, <2>2 DEF TypeInv, TypeOK, SocketInv, OneChannel, TwoChannels
  <2>3. CASE pc'[t] = "connect" /\ failed' = [failed EXCEPT ![t] = @ + 1]
    BY <1>2, <1>3, <2>1, <2>3 DEF TypeInv, TypeOK, SocketInv, OneChannel, TwoChannels
  <2> QED BY <1>4, <2>2, <2>3
<1>8. SendInv'
  BY <1>2 DEF TypeInv, SendInv, Thread, msgVars
<1> QED BY <1>2, <1>6, <1>7, <1>8 DEF TypeInv

\* A thread closes its two sockets.
LEMMA DestroyTypeInv ==
  ASSUME TypeInv, NEW t \in Thread, DestroyChannels(t),
         UNCHANGED <<mainPc, pipe, res, held, published, in_data, sharedVars, nxVars,
                     ghostVars, interrupts>>,
         inproc' \in {"unbound", "bound", "closed"}, inq' \in Seq(Response)
  PROVE  TypeInv'
<1>1. /\ pc' \in [Thread -> ThreadPc]
      /\ pc[t] = "destroy" /\ pc'[t] = "done"
      /\ \A q \in Thread : q # t => pc'[q] = pc[q]
      /\ StartInv'
  BY GotoEffect DEF DestroyChannels, ThreadPc
<1>2. sockets[t] = failed[t] + 2 /\ failed[t] \in Nat
  BY <1>1, BoundsAssumption DEF TypeInv, TypeOK, SocketInv, TwoChannels
<1>3. /\ sockets' \in [Thread -> Nat]
      /\ sockets'[t] = failed[t]
      /\ \A q \in Thread : q # t => sockets'[q] = sockets[q]
      /\ failed' = failed
  <2>1. sockets' = [sockets EXCEPT ![t] = sockets[t] - 2] /\ failed' = failed
    BY DEF DestroyChannels
  <2>2. sockets[t] - 2 = failed[t]
    BY <1>2
  <2>3. sockets \in [Thread -> Nat]
    BY DEF TypeInv, TypeOK
  <2> QED BY <1>2, <2>1, <2>2, <2>3
<1>4. TypeOK'
  BY <1>1, <1>2, <1>3 DEF TypeInv, TypeOK, sharedVars, nxVars, envVars, ghostVars
<1>5. SocketInv'
  BY <1>1, <1>3 DEF TypeInv, TypeOK, SocketInv, OneChannel, TwoChannels
<1>6. SendInv'
  BY <1>1 DEF TypeInv, SendInv, Thread
<1> QED BY <1>1, <1>4, <1>5, <1>6 DEF TypeInv

\* A request that is taken up: its number and its response have their types.
LEMMA RespondType ==
  ASSUME TypeInv, NEW r \in Requests, Receive(r), NEW type \in ResponseType, Respond(type)
  PROVE  /\ StartInv' /\ SocketInv' /\ SendInv'
         /\ pc' \in [Thread -> ThreadPc]
         /\ reqs' \in Seq(Requests)
         /\ res' \in Response
         /\ UNCHANGED <<mainPc, chanVars, inq, held, published, nxVars, interrupts>>
<1>1. /\ Goto("cchan_in", "recv", "send") /\ res' = [id |-> Len(reqs) + 1, type |-> type]
      /\ UNCHANGED <<mainPc, chanVars, inq, held, published, nxVars, interrupts>>
  BY DEF Respond
<1>2. pc' \in [Thread -> ThreadPc] /\ StartInv' /\ SocketInv'
  BY <1>1, LoopStep DEF Thread, TwoChannels, chanVars
<1>3. reqs \in Seq(Requests)
  BY DEF TypeInv, TypeOK
<1>4. reqs' \in Seq(Requests) /\ Len(reqs) + 1 \in 1..MaxRequests
  BY <1>3, BoundsAssumption DEF Receive
<1>5. res' \in Response
  BY <1>1, <1>4 DEF Response
<1>6. SendInv'
  BY <1>1, <1>5 DEF SendInv, TypeInv, TypeOK, Goto, Thread
<1> QED BY <1>1, <1>2, <1>4, <1>5, <1>6

\* Types after a request that is taken up, from those of the records it sets.
LEMMA RequestTypeInv ==
  ASSUME TypeInv, NEW r \in Requests, Receive(r), NEW type \in ResponseType, Respond(type),
         in_data' \in Ctrl,
         \/ UNCHANGED <<sharedVars, tail>>
         \/ in_data' \in Ctrl /\ Publish(in_data')
  PROVE  TypeInv'
<1>1. /\ g_version' \in Nat /\ g_data' \in Ctrl /\ tail' \in Nat
      /\ t_version' \in [Reader -> Int] /\ t_data' \in [Reader -> Ctrl]
  <2>1. CASE UNCHANGED <<sharedVars, tail>>
    BY <2>1 DEF TypeInv, TypeOK, sharedVars
  <2>2. CASE Publish(in_data')
    <3>1. TypeOK
      BY DEF TypeInv
    <3>2. /\ g_version' \in Nat /\ g_data' \in Ctrl /\ tail' \in Nat
          /\ UNCHANGED <<t_version, t_data>>
      BY <2>2, <3>1, PublishEffect
    <3> QED BY <3>1, <3>2 DEF TypeOK
  <2> QED BY <2>1, <2>2
<1>2. /\ StartInv' /\ SocketInv' /\ SendInv'
      /\ pc' \in [Thread -> ThreadPc]
      /\ reqs' \in Seq(Requests)
      /\ res' \in Response
      /\ UNCHANGED <<mainPc, chanVars, inq, held, published, nxVars, interrupts>>
  BY RespondType
<1>3. TypeOK'
  BY <1>1, <1>2 DEF TypeInv, TypeOK, chanVars, nxVars, envVars
<1> QED BY <1>2, <1>3 DEF TypeInv

\* A path that wininf_file_exists accepts is a path there is.
LEMMA ExistingPath ==
  ASSUME NEW p, wininf_file_exists(p)
  PROVE  p \in Path
BY DEF wininf_file_exists, GetFileAttributes, INVALID_FILE_ATTRIBUTES, Path

\* The record a start request makes.
LEMMA StartRequestType ==
  ASSUME NEW r \in Requests, in_data \in Ctrl, HasTape(r) => wininf_file_exists(r.tape)
  PROVE  StartRequest(r) \in Ctrl /\ StartRequest(r).cmd = CMD_MARKET_RUN
<1>1. HasTape(r) => r.tape \in Tapes
  <2>1. Path \subseteq Tapes
    BY PathsAssumption
  <2> QED BY <2>1, ExistingPath
<1> QED BY <1>1 DEF StartRequest, CopyCtrl, Ctrl, CMD_MARKET_RUN, CMD_SHUTDOWN, CMD_INIT

\* cchan_in takes a request.
LEMMA CchanInRequestTypeInv == TypeInv /\ CchanInRequest => TypeInv'
<1> SUFFICES ASSUME TypeInv, NEW r \in Requests,
                    \/ StartWhileRunning(r) \/ StartFileMissing(r) \/ StartAccepted(r)
                    \/ MarketStop(r) \/ Shutdown(r) \/ Unparsable(r)
             PROVE  TypeInv'
  BY DEF CchanInRequest
<1>0. in_data \in Ctrl
  BY DEF TypeInv, TypeOK
<1>1. CASE StartWhileRunning(r)
  BY <1>0, <1>1, RequestTypeInv DEF StartWhileRunning, ResponseType
<1>2. CASE StartFileMissing(r)
  <2>1. in_data' \in Ctrl
    BY <1>0, <1>2 DEF StartFileMissing, Ctrl
  <2> QED BY <1>2, <2>1, RequestTypeInv DEF StartFileMissing, ResponseType
<1>3. CASE StartAccepted(r)
  <2>1. in_data' \in Ctrl
    BY <1>0, <1>3, StartRequestType DEF StartAccepted
  <2> QED BY <1>3, <2>1, RequestTypeInv DEF StartAccepted, ResponseType
<1>4. CASE MarketStop(r)
  <2>1. in_data' \in Ctrl
    BY <1>0, <1>4 DEF MarketStop, Ctrl, CMD_MARKET_STOP, CMD_SHUTDOWN, CMD_INIT
  <2> QED BY <1>4, <2>1, RequestTypeInv DEF MarketStop, ResponseType
<1>5. CASE Shutdown(r)
  <2>1. in_data' \in Ctrl
    BY <1>0, <1>5 DEF Shutdown, Ctrl, CMD_SHUTDOWN, CMD_INIT
  <2> QED BY <1>5, <2>1, RequestTypeInv DEF Shutdown, ResponseType
<1>6. CASE Unparsable(r)
  <2>1. reqs' \in Seq(Requests)
    BY <1>6 DEF Unparsable, Receive, TypeInv, TypeOK
  <2> QED BY <1>6, <2>1 DEF Unparsable, TypeInv, TypeOK, StartInv, SocketInv, SendInv,
                            chanVars, msgVars, sharedVars, nxVars, envVars
<1> QED BY <1>1, <1>2, <1>3, <1>4, <1>5, <1>6

\* The end of a turn of cchan_in, whatever becomes of the response.
LEMMA CchanInLoopTypeInv ==
  ASSUME TypeInv, CchanInLoop, inq' \in Seq(Response), interrupts' \in 0..MaxInterrupts
  PROVE  TypeInv'
<1>1. PICK to \in {"recv", "destroy"} : Goto("cchan_in", "send", to)
  BY DEF CchanInLoop
<1>2. /\ res' = NoResponse
      /\ UNCHANGED <<mainPc, chanVars, held, published, in_data, sharedVars, nxVars, ghostVars>>
  BY DEF CchanInLoop
<1>3. pc' \in [Thread -> ThreadPc] /\ StartInv' /\ SocketInv'
  BY <1>1, <1>2, LoopStep DEF Thread, TwoChannels, chanVars
<1>4. SendInv'
  BY <1>1, <1>2 DEF SendInv, TypeInv, TypeOK, Goto, Thread
<1>5. TypeOK'
  BY <1>2, <1>3 DEF TypeInv, TypeOK, chanVars, sharedVars, nxVars, envVars, ghostVars
<1> QED BY <1>3, <1>4, <1>5 DEF TypeInv

\* The count of interrupted calls stays within its bound.
LEMMA InterruptType == TypeInv /\ Interrupt => interrupts' \in 0..MaxInterrupts
BY BoundsAssumption DEF TypeInv, TypeOK, Interrupt

\* cchan_in on its own: start-up, sending a response, ending.
LEMMA CchanInRunTypeInv == TypeInv /\ (CchanInRun \/ CchanInSendInterrupted) => TypeInv'
<1> SUFFICES ASSUME TypeInv, CchanInRun \/ CchanInSendInterrupted PROVE TypeInv'
  OBVIOUS
<1>1. CASE CchanInBind
  BY <1>1, BindTypeInv DEF CchanInBind, Thread, OneChannel
<1>2. CASE CchanInConnect
  <2>1. pipe' \in {"none", "open", "dead"}
    BY <1>2 DEF CchanInConnect, TypeInv, TypeOK
  <2> QED BY <1>2, <2>1, ConnectTypeInv DEF CchanInConnect, Thread
<1>3. CASE CchanInSend
  <2>1. res \in Response
    BY <1>3 DEF CchanInSend, CchanInLoop, Goto, TypeInv, SendInv
  <2>2. inq' \in Seq(Response) /\ interrupts' \in 0..MaxInterrupts
    BY <1>3, <2>1 DEF CchanInSend, TypeInv, TypeOK
  <2> QED BY <1>3, <2>2, CchanInLoopTypeInv DEF CchanInSend
<1>4. CASE CchanInSendInterrupted
  <2>1. inq' \in Seq(Response) /\ interrupts' \in 0..MaxInterrupts
    BY <1>4, InterruptType DEF CchanInSendInterrupted, TypeInv, TypeOK
  <2> QED BY <1>4, <2>1, CchanInLoopTypeInv DEF CchanInSendInterrupted
<1>5. CASE CchanInDestroy
  <2>1. inproc' \in {"unbound", "bound", "closed"} /\ inq' \in Seq(Response)
    BY <1>5 DEF CchanInDestroy, TypeInv, TypeOK, msgVars
  <2> QED BY <1>5, <2>1, DestroyTypeInv DEF CchanInDestroy, Thread, msgVars
<1> QED BY <1>1, <1>2, <1>3, <1>4, <1>5 DEF CchanInRun

\* A turn of one of the loops that only moves messages of cchan_out.
LEMMA CchanOutStepTypeInv ==
  ASSUME TypeInv, NEW from \in TwoChannels, NEW to \in TwoChannels,
         Goto("cchan_out", from, to),
         UNCHANGED <<mainPc, chanVars, res, in_data, sharedVars, nxVars, ghostVars>>,
         inq' \in Seq(Response), published' \in Seq(Response),
         held' \in Response \cup {NoResponse}, to = "send" => held' \in Response,
         interrupts' \in 0..MaxInterrupts
  PROVE  TypeInv'
<1>1. pc' \in [Thread -> ThreadPc] /\ StartInv' /\ SocketInv'
  BY LoopStep DEF Thread, chanVars
<1>2. SendInv'
  BY DEF SendInv, TypeInv, TypeOK, Goto, Thread
<1>3. TypeOK'
  BY <1>1 DEF TypeInv, TypeOK, chanVars, sharedVars, nxVars, envVars, ghostVars
<1> QED BY <1>1, <1>2, <1>3 DEF TypeInv

\* The second bind of cchan_out.
LEMMA BindInprocTypeInv == TypeInv /\ CchanOutBindInproc => TypeInv'
<1> SUFFICES ASSUME TypeInv, CchanOutBindInproc PROVE TypeInv'
  OBVIOUS
<1>1. PICK to \in {"loop", "failed"} : Goto("cchan_out", "bind_inproc", to)
  BY DEF CchanOutBindInproc
<1>2. /\ pc' \in [Thread -> ThreadPc]
      /\ pc["cchan_out"] = "bind_inproc" /\ pc'["cchan_out"] = to
      /\ \A q \in Thread : q # "cchan_out" => pc'[q] = pc[q]
      /\ StartInv'
  <2>1. UNCHANGED mainPc
    BY DEF CchanOutBindInproc
  <2> QED BY <1>1, <2>1, GotoEffect DEF ThreadPc, Thread
<1>3. /\ sockets' = [sockets EXCEPT !["cchan_out"] = @ + 1]
      /\ inproc' \in {"unbound", "bound", "closed"}
      /\ UNCHANGED <<mainPc, failed, pipe, msgVars, in_data, sharedVars, nxVars, ghostVars,
                     interrupts>>
  BY DEF CchanOutBindInproc, OpenSocket, TypeInv, TypeOK
<1>4. TypeOK'
  <2>1. sockets' \in [Thread -> Nat]
    BY <1>3 DEF TypeInv, TypeOK, Thread
  <2> QED BY <1>2, <1>3, <2>1 DEF TypeInv, TypeOK, msgVars, sharedVars, nxVars, envVars, ghostVars
<1>5. SocketInv'
  BY <1>2, <1>3 DEF TypeInv, TypeOK, SocketInv, OneChannel, TwoChannels
<1>6. SendInv'
  BY <1>2, <1>3 DEF TypeInv, SendInv, Thread, msgVars
<1> QED BY <1>2, <1>4, <1>5, <1>6 DEF TypeInv

\* A thread refreshes its copy of the shared record.
LEMMA RefreshTypeInv ==
  ASSUME TypeInv, NEW r \in Reader, Shared!Refresh(r),
         NEW t \in {"cchan_out", "market"}, NEW from \in TwoChannels,
         NEW to \in TwoChannels \ {"send"}, Goto(t, from, to),
         UNCHANGED <<mainPc, chanVars, msgVars, in_data, envVars, ghostVars, interrupts>>,
         nxTape' \in Tapes
  PROVE  TypeInv'
<1>1. pc' \in [Thread -> ThreadPc] /\ StartInv' /\ SocketInv'
  BY LoopStep DEF Thread, chanVars
<1>2. SendInv'
  BY DEF SendInv, TypeInv, TypeOK, Goto, Thread, msgVars
<1>3. /\ UNCHANGED <<g_version, g_data>>
      /\ t_version' \in [Reader -> Int]
      /\ t_data' \in [Reader -> Ctrl]
  BY RefreshEffect DEF TypeInv
<1>4. TypeOK'
  BY <1>1, <1>3 DEF TypeInv, TypeOK, chanVars, msgVars, envVars, ghostVars
<1> QED BY <1>1, <1>2, <1>4 DEF TypeInv

\* cchan_out, and ZeroMQ tearing down the inproc pipe.
LEMMA CchanOutTypeInv ==
  /\ TypeInv
  /\ CchanOutRun \/ PipeTerm \/ CchanOutRecvInterrupted \/ CchanOutSendInterrupted
  => TypeInv'
<1> SUFFICES ASSUME TypeInv,
                    CchanOutRun \/ PipeTerm \/ CchanOutRecvInterrupted \/ CchanOutSendInterrupted
             PROVE  TypeInv'
  OBVIOUS
<1>0. /\ inq \in Seq(Response) /\ published \in Seq(Response)
      /\ held \in Response \cup {NoResponse} /\ interrupts \in 0..MaxInterrupts
      /\ inproc \in {"unbound", "bound", "closed"} /\ nxTape \in Tapes
  BY DEF TypeInv, TypeOK
<1>1. CASE CchanOutBind
  BY <1>1, BindTypeInv DEF CchanOutBind, Thread, OneChannel
<1>2. CASE CchanOutBindInproc
  BY <1>2, BindInprocTypeInv
<1>3. CASE CchanOutLoop
  <2>1. PICK to \in {"destroy", "recv"} : Goto("cchan_out", "loop", to)
    BY <1>3 DEF CchanOutLoop
  <2> QED BY <1>0, <1>3, <2>1, RefreshTypeInv DEF CchanOutLoop, TwoChannels, Reader, nxVars, envVars
<1>4. CASE CchanOutRecv
  <2>1. Head(inq) \in Response /\ Tail(inq) \in Seq(Response)
    BY <1>0, <1>4 DEF CchanOutRecv
  <2> QED BY <1>0, <1>4, <2>1, CchanOutStepTypeInv DEF CchanOutRecv, TwoChannels
<1>5. CASE CchanOutRecvInterrupted
  <2>1. interrupts' \in 0..MaxInterrupts
    BY <1>5, InterruptType DEF CchanOutRecvInterrupted
  <2> QED BY <1>0, <1>5, <2>1, CchanOutStepTypeInv
          DEF CchanOutRecvInterrupted, TwoChannels, msgVars
<1>6. CASE CchanOutSend
  <2>1. held \in Response
    BY <1>6 DEF CchanOutSend, Goto, TypeInv, SendInv
  <2>2. published' \in Seq(Response)
    BY <1>0, <1>6, <2>1 DEF CchanOutSend
  <2> QED BY <1>0, <1>6, <2>2, CchanOutStepTypeInv DEF CchanOutSend, TwoChannels
<1>7. CASE CchanOutSendInterrupted
  <2>1. interrupts' \in 0..MaxInterrupts
    BY <1>7, InterruptType DEF CchanOutSendInterrupted
  <2> QED BY <1>0, <1>7, <2>1, CchanOutStepTypeInv DEF CchanOutSendInterrupted, TwoChannels
<1>8. CASE CchanOutDestroy
  BY <1>8, DestroyTypeInv DEF CchanOutDestroy, Thread
<1>9. CASE PipeTerm
  BY <1>9 DEF PipeTerm, TypeInv, TypeOK, StartInv, SocketInv, SendInv, msgVars, sharedVars,
              nxVars, envVars, ghostVars
<1> QED BY <1>1, <1>2, <1>3, <1>4, <1>5, <1>6, <1>7, <1>8, <1>9 DEF CchanOutRun

\* A step of the market thread that reads nothing of the shared record.
LEMMA MarketStepTypeInv ==
  ASSUME TypeInv, NEW from \in TwoChannels, NEW to \in TwoChannels,
         Goto("market", from, to),
         UNCHANGED <<mainPc, chanVars, msgVars, in_data, sharedVars, envVars, reqs, interrupts>>,
         nxTape' \in Tapes, tail' \in Nat
  PROVE  TypeInv'
<1>1. pc' \in [Thread -> ThreadPc] /\ StartInv' /\ SocketInv'
  BY LoopStep DEF Thread, chanVars
<1>2. SendInv'
  BY DEF SendInv, TypeInv, TypeOK, Goto, Thread, msgVars
<1>3. TypeOK'
  BY <1>1 DEF TypeInv, TypeOK, chanVars, msgVars, sharedVars, envVars
<1> QED BY <1>1, <1>2, <1>3 DEF TypeInv

\* The top of the market thread's loop.
LEMMA MarketPollTypeInv ==
  ASSUME TypeInv, NEW next \in {"loop", "destroy", "sleep", "nxcore"}, MarketPoll(next),
         nxTape' \in Tapes
  PROVE  TypeInv'
BY RefreshTypeInv DEF MarketPoll, TwoChannels, Reader

\* The market thread, NxCore and the callback.
LEMMA MarketTypeInv == TypeInv /\ (MarketRun \/ NxTapeEnd) => TypeInv'
<1> SUFFICES ASSUME TypeInv, MarketRun \/ NxTapeEnd PROVE TypeInv'
  OBVIOUS
<1>0. nxTape \in Tapes /\ tail \in Nat
  BY DEF TypeInv, TypeOK
<1>1. CASE MarketBind
  BY <1>1, BindTypeInv DEF MarketBind, Thread, OneChannel
<1>2. CASE MarketConnect
  <2>1. pipe' \in {"none", "open", "dead"}
    BY <1>2 DEF MarketConnect, TypeInv, TypeOK
  <2> QED BY <1>2, <2>1, ConnectTypeInv DEF MarketConnect, Thread
<1>3. CASE MarketStopped \/ MarketShutdown \/ MarketIdle
  BY <1>0, <1>3, MarketPollTypeInv DEF MarketStopped, MarketShutdown, MarketIdle
<1>4. CASE MarketWake
  BY <1>0, <1>4, MarketStepTypeInv DEF MarketWake, TwoChannels, nxVars, envVars, ghostVars
<1>5. CASE MarketStart
  <2>1. Refreshed("market").data \in Tapes
    BY RefreshedType DEF TypeInv, Reader, Ctrl
  <2> QED BY <1>0, <1>5, <2>1, MarketPollTypeInv DEF MarketStart, wininf_nxcore_run
<1>6. CASE NxCallback
  BY <1>0, <1>6, RefreshTypeInv DEF NxCallback, TwoChannels, Reader, nxVars, envVars
<1>7. ASSUME NEW status \in BOOLEAN, NxCallbackReturn(status) PROVE TypeInv'
  <2>1. PICK to \in {"loop", "nxcore"} : Goto("market", "callback", to)
    BY <1>7 DEF NxCallbackReturn
  <2>2. nxTape' \in Tapes /\ tail' \in Nat
    BY <1>0, <1>7, EmptyTapeAssumption DEF NxCallbackReturn
  <2> QED BY <1>7, <2>1, <2>2, MarketStepTypeInv DEF NxCallbackReturn, TwoChannels
<1>8. CASE NxTapeEnd
  BY <1>0, <1>8, MarketStepTypeInv, EmptyTapeAssumption DEF NxTapeEnd, TwoChannels, ghostVars
<1>9. CASE MarketDestroy
  <2>1. inproc' \in {"unbound", "bound", "closed"} /\ inq' \in Seq(Response)
    BY <1>9 DEF MarketDestroy, TypeInv, TypeOK, msgVars
  <2> QED BY <1>9, <2>1, DestroyTypeInv DEF MarketDestroy, Thread, msgVars
<1> QED BY <1>1, <1>2, <1>3, <1>4, <1>5, <1>6, <1>7, <1>8, <1>9 DEF MarketRun

\* An interrupted receive of cchan_in changes only the count.
LEMMA CchanInRecvInterruptedTypeInv == TypeInv /\ CchanInRecvInterrupted => TypeInv'
<1> SUFFICES ASSUME TypeInv, CchanInRecvInterrupted PROVE TypeInv'
  OBVIOUS
<1>1. interrupts' \in 0..MaxInterrupts
  BY InterruptType DEF CchanInRecvInterrupted
<1> QED BY <1>1 DEF CchanInRecvInterrupted, TypeInv, TypeOK, StartInv, SocketInv, SendInv,
                    chanVars, msgVars, sharedVars, nxVars, envVars, ghostVars

\* Every step keeps the types.
LEMMA NextTypeInv == TypeInv /\ [Next]_vars => TypeInv'
<1> SUFFICES ASSUME TypeInv, [Next]_vars PROVE TypeInv'
  OBVIOUS
<1>1. CASE UNCHANGED vars
  BY <1>1 DEF vars, TypeInv, TypeOK, StartInv, SocketInv, SendInv, chanVars, msgVars,
              sharedVars, nxVars, envVars, ghostVars
<1>2. CASE Next
  BY <1>2, MainTypeInv, CchanInRequestTypeInv, CchanInRunTypeInv, CchanOutTypeInv,
     MarketTypeInv, CchanInRecvInterruptedTypeInv DEF Next, Interrupted
<1> QED BY <1>1, <1>2

\* The invariant holds throughout.
LEMMA TypeInvariant == Spec => []TypeInv
BY InitTypeInv, NextTypeInv, PTL DEF Spec

\* The state of wineing.cc keeps its types: in particular every response in
\* the inproc channel is a response to a request, and no thread closes more
\* sockets than it opened.
THEOREM WineingTypeOK == Spec => []TypeOK
<1>1. TypeInv => TypeOK
  BY DEF TypeInv
<1> QED BY <1>1, TypeInvariant, PTL

\* A thread that ends normally has closed every socket but those that
\* chan_bind forgot when an attempt to connect failed.
THEOREM OnlyRetriesLeakAlways == Spec => []OnlyRetriesLeak
<1>1. TypeInv => OnlyRetriesLeak
  BY DEF TypeInv, SocketInv, OnlyRetriesLeak
<1> QED BY <1>1, TypeInvariant, PTL

------------------------------------------------------------------------------
(* Market data after a stop                                                *)

\* How much more can follow depends on where the market thread is, and on
\* what the callback saw when it looked at the shared record.
TailInv ==
  /\ tail <= 2
  /\ CMD_MARKET_RUN <= g_data.cmd => tail = 0
  /\ pc["market"] = "nxcore" => tail <= 1
  /\ pc["market"] = "callback" =>
       tail <= IF CMD_MARKET_RUN <= t_data["nxtape"].cmd THEN 0 ELSE 1

\* Steps that publish nothing, send nothing and leave the playback alone or
\* leave it.
LEMMA TailFrame ==
  ASSUME TailInv, UNCHANGED <<g_data, tail>>,
         \/ pc'["market"] \notin {"nxcore", "callback"}
         \/ pc'["market"] = pc["market"] /\ t_data'["nxtape"] = t_data["nxtape"]
  PROVE  TailInv'
BY DEF TailInv

\* A step of another thread leaves the market thread where it is.
LEMMA OtherThread ==
  ASSUME TypeOK, NEW t \in {"cchan_in", "cchan_out"}, NEW from, NEW to, Goto(t, from, to)
  PROVE  pc'["market"] = pc["market"]
BY DEF TypeOK, Goto, Thread

\* A step of the market thread takes it where it says.
LEMMA MarketGoto ==
  ASSUME TypeOK, NEW from, NEW to, Goto("market", from, to)
  PROVE  pc["market"] = from /\ pc'["market"] = to
BY DEF TypeOK, Goto, Thread

\* Requests: a new command either keeps the count or sets it back.
LEMMA CchanInRequestTailInv == TypeOK /\ TailInv /\ CchanInRequest => TailInv'
<1> SUFFICES ASSUME TypeOK, TailInv, NEW r \in Requests,
                    \/ StartWhileRunning(r) \/ StartFileMissing(r) \/ StartAccepted(r)
                    \/ MarketStop(r) \/ Shutdown(r) \/ Unparsable(r)
             PROVE  TailInv'
  BY DEF CchanInRequest
<1>1. CASE StartWhileRunning(r) \/ StartFileMissing(r)
  <2>1. pc'["market"] = pc["market"]
    BY <1>1, OtherThread DEF StartWhileRunning, StartFileMissing, Respond
  <2> QED BY <1>1, <2>1, TailFrame DEF StartWhileRunning, StartFileMissing, sharedVars
<1>2. CASE Unparsable(r)
  BY <1>2, TailFrame DEF Unparsable, sharedVars
<1>3. ASSUME NEW type, Respond(type), in_data' \in Ctrl, Publish(in_data') PROVE TailInv'
  <2>1. pc'["market"] = pc["market"]
    BY <1>3, OtherThread DEF Respond
  <2>2. /\ g_data'.cmd = in_data'.cmd
        /\ tail' = IF in_data'.cmd < CMD_MARKET_RUN THEN tail ELSE 0
        /\ UNCHANGED t_data
    BY <1>3, PublishEffect
  <2>3. in_data'.cmd \in Int /\ tail \in Nat
    BY <1>3 DEF TypeOK, Ctrl, CMD_SHUTDOWN, CMD_INIT
  <2> QED BY <2>1, <2>2, <2>3 DEF TailInv, CMD_MARKET_RUN
<1>4. in_data \in Ctrl
  BY DEF TypeOK
<1>5. CASE StartAccepted(r)
  BY <1>3, <1>4, <1>5, StartRequestType DEF StartAccepted
<1>6. CASE MarketStop(r)
  <2>1. in_data' \in Ctrl
    BY <1>4, <1>6 DEF MarketStop, Ctrl, CMD_MARKET_STOP, CMD_SHUTDOWN, CMD_INIT
  <2> QED BY <1>3, <1>6, <2>1 DEF MarketStop
<1>7. CASE Shutdown(r)
  <2>1. in_data' \in Ctrl
    BY <1>4, <1>7 DEF Shutdown, Ctrl, CMD_SHUTDOWN, CMD_INIT
  <2> QED BY <1>3, <1>7, <2>1 DEF Shutdown
<1> QED BY <1>1, <1>2, <1>5, <1>6, <1>7

\* The market thread, NxCore and the callback.
LEMMA MarketTailInv == TypeOK /\ TailInv /\ (MarketRun \/ NxTapeEnd) => TailInv'
<1> SUFFICES ASSUME TypeOK, TailInv, MarketRun \/ NxTapeEnd PROVE TailInv'
  OBVIOUS
<1>1. CASE MarketBind \/ MarketConnect \/ MarketDestroy
  <2>1. PICK from, to : Goto("market", from, to) /\ to \notin {"nxcore", "callback"}
    BY <1>1 DEF MarketBind, MarketConnect, MarketDestroy, BindOrReturn, ConnectInproc,
                DestroyChannels
  <2> QED BY <1>1, <2>1, MarketGoto, TailFrame
          DEF MarketBind, MarketConnect, MarketDestroy, sharedVars, ghostVars
<1>2. CASE MarketWake \/ NxTapeEnd
  BY <1>2, MarketGoto, TailFrame DEF MarketWake, NxTapeEnd, sharedVars, ghostVars
<1>3. ASSUME NEW next \in {"loop", "destroy", "sleep"}, MarketPoll(next) PROVE TailInv'
  <2>1. UNCHANGED <<g_data, tail>> /\ pc'["market"] = next
    BY <1>3, MarketGoto DEF MarketPoll, Shared!Refresh, ghostVars
  <2> QED BY <2>1, TailFrame
<1>4. CASE MarketStopped \/ MarketShutdown \/ MarketIdle
  BY <1>3, <1>4 DEF MarketStopped, MarketShutdown, MarketIdle
<1>5. CASE MarketStart
  <2>1. CASE MarketPoll("loop")
    BY <1>3, <2>1
  <2>2. CASE MarketPoll("nxcore")
    <3>1. g_data.cmd = CMD_MARKET_RUN
      BY <1>5, RefreshedType DEF MarketStart, Reader
    <3>2. UNCHANGED <<g_data, tail>> /\ pc'["market"] = "nxcore"
      BY <2>2, MarketGoto DEF MarketPoll, Shared!Refresh, ghostVars
    <3> QED BY <3>1, <3>2 DEF TailInv, CMD_MARKET_RUN
  <2> QED BY <1>5, <2>1, <2>2 DEF MarketStart, wininf_nxcore_run
<1>6. CASE NxCallback
  <2>1. /\ UNCHANGED <<g_data, tail>> /\ t_data'["nxtape"].cmd = g_data.cmd
        /\ pc["market"] = "nxcore" /\ pc'["market"] = "callback"
    BY <1>6, MarketGoto, RefreshEffect DEF NxCallback, ghostVars, Reader
  <2> QED BY <2>1 DEF TailInv, TypeOK
<1>7. ASSUME NEW status \in BOOLEAN, NxCallbackReturn(status) PROVE TailInv'
  <2>1. /\ pc["market"] = "callback"
        /\ pc'["market"] = IF CallbackStop THEN "loop" ELSE "nxcore"
    BY <1>7, MarketGoto DEF NxCallbackReturn
  <2>2. /\ tail' = IF status /\ g_data.cmd < CMD_MARKET_RUN THEN tail + 1 ELSE tail
        /\ UNCHANGED <<g_data, t_data>>
    BY <1>7 DEF NxCallbackReturn, sharedVars
  <2>3. g_data.cmd \in Int /\ t_data["nxtape"].cmd \in Int /\ tail \in Nat
    BY DEF TypeOK, Ctrl, Reader, CMD_SHUTDOWN, CMD_INIT
  <2> QED BY <2>1, <2>2, <2>3 DEF TailInv, CallbackStop, CMD_MARKET_RUN
<1> QED BY <1>1, <1>2, <1>4, <1>5, <1>6, <1>7 DEF MarketRun

\* The other threads send no market data.
LEMMA OthersTailInv ==
  /\ TypeOK /\ TailInv
  /\ MainRun \/ CchanInRun \/ CchanOutRun \/ PipeTerm \/ Interrupted
  => TailInv'
<1> SUFFICES ASSUME TypeOK, TailInv,
                    MainRun \/ CchanInRun \/ CchanOutRun \/ PipeTerm \/ Interrupted
             PROVE  TailInv'
  OBVIOUS
<1>1. CASE MainRun
  <2>1. UNCHANGED <<g_data, tail, t_data>>
    BY <1>1 DEF MainRun, MainStart, MainJoin, MainShutdown, sharedVars, ghostVars
  <2>2. pc'["market"] \notin {"nxcore", "callback"} \/ pc'["market"] = pc["market"]
    BY <1>1 DEF MainRun, MainStart, MainJoin, MainShutdown, Thread
  <2> QED BY <2>1, <2>2, TailFrame
<1>2. CASE CchanInRun \/ CchanInSendInterrupted
  <2>1. PICK from, to : Goto("cchan_in", from, to)
    BY <1>2 DEF CchanInRun, CchanInBind, CchanInConnect, CchanInSend, CchanInDestroy,
                CchanInSendInterrupted, CchanInLoop, BindOrReturn, ConnectInproc, DestroyChannels
  <2>2. UNCHANGED <<g_data, tail, t_data>>
    BY <1>2 DEF CchanInRun, CchanInBind, CchanInConnect, CchanInSend, CchanInDestroy,
                CchanInSendInterrupted, CchanInLoop, sharedVars, ghostVars
  <2> QED BY <2>1, <2>2, OtherThread, TailFrame
<1>3. CASE CchanInRecvInterrupted \/ PipeTerm
  BY <1>3, TailFrame DEF CchanInRecvInterrupted, PipeTerm, sharedVars, ghostVars
<1>4. CASE CchanOutRun \/ CchanOutRecvInterrupted \/ CchanOutSendInterrupted
  <2>1. PICK from, to : Goto("cchan_out", from, to)
    BY <1>4 DEF CchanOutRun, CchanOutBind, CchanOutBindInproc, CchanOutLoop, CchanOutRecv,
                CchanOutSend, CchanOutDestroy, CchanOutRecvInterrupted,
                CchanOutSendInterrupted, BindOrReturn, DestroyChannels
  <2>2. UNCHANGED <<g_data, tail>> /\ t_data'["nxtape"] = t_data["nxtape"]
    <3>1. CASE CchanOutLoop
      BY <3>1, RefreshEffect DEF CchanOutLoop, ghostVars, Reader
    <3>2. CASE ~CchanOutLoop
      BY <1>4, <3>2 DEF CchanOutRun, CchanOutBind, CchanOutBindInproc, CchanOutRecv,
                CchanOutSend, CchanOutDestroy, CchanOutRecvInterrupted,
                CchanOutSendInterrupted, sharedVars, ghostVars
    <3> QED BY <3>1, <3>2
  <2> QED BY <2>1, <2>2, OtherThread, TailFrame
<1> QED BY <1>1, <1>2, <1>3, <1>4 DEF Interrupted

\* Every step keeps the bound.
LEMMA NextTailInv == TypeOK /\ TailInv /\ [Next]_vars => TailInv'
<1> SUFFICES ASSUME TypeOK, TailInv, [Next]_vars PROVE TailInv'
  OBVIOUS
<1>1. CASE UNCHANGED vars
  BY <1>1 DEF vars, TailInv, sharedVars, ghostVars
<1>2. CASE Next
  BY <1>2, CchanInRequestTailInv, MarketTailInv, OthersTailInv DEF Next
<1> QED BY <1>1, <1>2

\* At most two messages of market data follow a stop, for any requests in any
\* order, and however the threads interleave.
THEOREM StopTailAlways == Spec => []StopTail
<1>1. Init => TailInv
  BY DEF Init, TailInv, Thread
<1>2. TailInv => StopTail
  BY DEF TailInv, StopTail
<1> QED BY <1>1, <1>2, NextTailInv, WineingTypeOK, PTL DEF Spec

------------------------------------------------------------------------------
(* No request without a thread that answers it                             *)

\* The inproc endpoint comes up with cchan_out, and cchan_in waits for it.
InprocInv ==
  /\ pc["cchan_out"] \in {"none", "bind", "bind_inproc", "failed"} => inproc = "unbound"
  /\ inproc = "unbound" =>
       reqs = <<>> /\ pc["cchan_in"] \in {"none", "bind", "connect", "failed"}

\* Every step keeps that.
LEMMA NextInprocInv == TypeInv /\ InprocInv /\ [Next]_vars => InprocInv'
<1> SUFFICES ASSUME TypeOK, StartInv, InprocInv, [Next]_vars PROVE InprocInv'
  BY DEF TypeInv
<1> USE DEF InprocInv, TypeOK, Thread, Goto
<1>1. CASE UNCHANGED vars
  BY <1>1 DEF vars, chanVars, ghostVars
<1>2. CASE MainRun
  BY <1>2 DEF StartInv, MainRun, MainStart, MainJoin, MainShutdown, chanVars, ghostVars
<1>3. CASE CchanInRequest
  BY <1>3 DEF CchanInRequest, StartWhileRunning, StartFileMissing, StartAccepted, MarketStop,
              Shutdown, Unparsable, Respond, chanVars
<1>4. CASE CchanInBind \/ CchanInConnect
  BY <1>4 DEF CchanInBind, CchanInConnect, BindOrReturn, ConnectInproc, ghostVars
<1>5. CASE CchanInSend \/ CchanInSendInterrupted \/ CchanInRecvInterrupted \/ CchanInDestroy
  BY <1>5 DEF CchanInSend, CchanInSendInterrupted, CchanInRecvInterrupted, CchanInDestroy,
              CchanInLoop, DestroyChannels, chanVars, ghostVars
<1>6. CASE CchanOutBind \/ CchanOutBindInproc
  BY <1>6 DEF CchanOutBind, CchanOutBindInproc, BindOrReturn, ghostVars
<1>7. CASE CchanOutLoop \/ CchanOutRecv \/ CchanOutSend \/ PipeTerm
           \/ CchanOutRecvInterrupted \/ CchanOutSendInterrupted
  BY <1>7 DEF CchanOutLoop, CchanOutRecv, CchanOutSend, PipeTerm, CchanOutRecvInterrupted,
              CchanOutSendInterrupted, chanVars, ghostVars
<1>8. CASE CchanOutDestroy
  BY <1>8 DEF CchanOutDestroy, DestroyChannels, ghostVars
<1>9. CASE MarketRun \/ NxTapeEnd
  <2>1. PICK from, to : Goto("market", from, to)
    <3> HIDE DEF Goto
    <3> QED BY <1>9 DEF MarketRun, NxTapeEnd, MarketBind, MarketConnect, MarketStopped,
              MarketShutdown, MarketIdle, MarketWake, MarketStart, wininf_nxcore_run, MarketPoll,
              NxCallback, NxCallbackReturn, MarketDestroy, BindOrReturn, ConnectInproc,
              DestroyChannels
  <2>2. UNCHANGED <<inproc, reqs>>
    BY <1>9 DEF MarketRun, NxTapeEnd, MarketBind, MarketConnect, MarketStopped,
              MarketShutdown, MarketIdle, MarketWake, MarketStart, wininf_nxcore_run, MarketPoll,
              NxCallback, NxCallbackReturn, MarketDestroy, BindOrReturn, chanVars, ghostVars
  <2> QED BY <2>1, <2>2
<1> QED BY <1>1, <1>2, <1>3, <1>4, <1>5, <1>6, <1>7, <1>8, <1>9
        DEF Next, CchanInRun, CchanOutRun, Interrupted

\* If cchan_out could not set up its channels, no request is ever taken.
THEOREM NoRequestWithoutCchanOutAlways == Spec => []NoRequestWithoutCchanOut
<1>1. Init => InprocInv
  BY DEF Init, InprocInv, Thread
<1>2. InprocInv => NoRequestWithoutCchanOut
  BY DEF InprocInv, NoRequestWithoutCchanOut
<1> QED BY <1>1, <1>2, NextInprocInv, TypeInvariant, PTL DEF Spec
==============================================================================
