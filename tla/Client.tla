-------------------------------- MODULE Client --------------------------------
(***************************************************************************)
(* The Java client (src/main/java/org/instilled/wineing): an application   *)
(* thread that calls the API of WineingExampleClient, and three workers,   *)
(* each a thread with a ZeroMQ channel of its own.  API calls put requests *)
(* into a bounded queue that WorkerCtrlOut empties.                        *)
(*                                                                         *)
(* ZMQChannel.receive with a buffer, which WorkerCtrlIn and WorkerMarket   *)
(* call, throws an IllegalStateException that they do not catch: they end  *)
(* with their first receive, and no response is ever processed.            *)
(*                                                                         *)
(* jzmq is external: closing a socket twice does nothing, using a closed   *)
(* one throws a ZMQException, and a connected PUSH socket accepts messages *)
(* (it queues them while the server is not there).                         *)
(***************************************************************************)
EXTENDS Naturals, Sequences

CONSTANTS
  Types,          \* the request types the application uses
  QueueCapacity,  \* of WorkerCtrlOut's queue (20 in the code)
  MaxCalls        \* bound: API calls of the application

ASSUME TypesAssumption == Types \subseteq {"MARKET_START", "MARKET_STOP", "SHUTDOWN"}
ASSUME ClientBoundsAssumption == QueueCapacity \in Nat \ {0} /\ MaxCalls \in Nat

Worker == {"ctrl_in", "ctrl_out", "market"}

\* The order of _workers, in which client.shutdown() goes through them.
workers == <<"ctrl_in", "ctrl_out", "market">>

\* A request's id is its position among the calls (in the code the time in
\* nanoseconds, taken to differ from call to call).
Request == [id: 1..MaxCalls, type: Types]

VARIABLES
  app,         \* what the application thread does
  call,        \* the request of the API call that is under way, if any
  turn,        \* client.shutdown(): the position of the worker it is at
  pc,          \* where each worker's run() is
  running,     \* the workers' _running
  channel,     \* the workers' channels: "none", "open" or "closed"
  queue,       \* _ctrlQueue
  hand,        \* what WorkerCtrlOut has taken and not yet sent
  sent,        \* requests given to ZeroMQ, in order
  processors,  \* ids with a processor in _responseProcessors
  accepted     \* ghost: requests whose API call returned normally, in order

appVars == <<app, call, turn>>
workerVars == <<pc, running, channel>>
requestVars == <<queue, hand, sent, processors, accepted>>
vars == <<appVars, workerVars, requestVars>>

\* client.start() has started the threads; none of them has run yet.
Init ==
  /\ app = "calls"
  /\ call = <<>>
  /\ turn = 1
  /\ pc = [w \in Worker |-> "start"]
  /\ running = [w \in Worker |-> FALSE]
  /\ channel = [w \in Worker |-> "none"]
  /\ queue = <<>>
  /\ hand = <<>>
  /\ sent = <<>>
  /\ processors = {}
  /\ accepted = <<>>

------------------------------------------------------------------------------
(* The application: API calls                                              *)

NextId == Len(accepted) + 1

\* WineingRemoteAPIImpl.put, which all API calls end in: the processor, if
\* there is one, is registered before the request is queued.
Register(type, p) ==
  /\ app = "calls"
  /\ Len(accepted) < MaxCalls
  /\ app' = "add"
  /\ call' = <<[id |-> NextId, type |-> type]>>
  /\ processors' = IF p THEN processors \cup {NextId} ELSE processors
  /\ UNCHANGED <<turn, workerVars, queue, hand, sent, accepted>>

\* Mutant of AddRequest: the queue has no limit.
AddUnbounded ==
  /\ app = "add"
  /\ queue' = queue \o call
  /\ accepted' = accepted \o call
  /\ app' = "calls"
  /\ call' = <<>>
  /\ UNCHANGED <<turn, workerVars, hand, sent, processors>>

\* Mutant of AddRequest: offer, whose result nobody looks at, instead of add.
AddOffer ==
  /\ app = "add"
  /\ queue' = IF Len(queue) < QueueCapacity THEN queue \o call ELSE queue
  /\ accepted' = accepted \o call
  /\ app' = "calls"
  /\ call' = <<>>
  /\ UNCHANGED <<turn, workerVars, hand, sent, processors>>

\* add throws when the queue is full; the application does not catch it.
AddRequest ==
  /\ app = "add"
  /\ call' = <<>>
  /\ \/ /\ Len(queue) < QueueCapacity
        /\ queue' = queue \o call
        /\ accepted' = accepted \o call
        /\ app' = "calls"
     \/ /\ Len(queue) = QueueCapacity
        /\ app' = "dead"
        /\ UNCHANGED <<queue, accepted>>
  /\ UNCHANGED <<turn, workerVars, hand, sent, processors>>

------------------------------------------------------------------------------
(* The application: client.shutdown()                                      *)

\* The worker is done with; the loop goes on, or has ended.
NextWorker ==
  /\ turn' = turn + 1
  /\ app' = IF turn = Len(workers) THEN "done" ELSE "flag"

\* _running = false; for WorkerMarket that is all.
ShutdownFlag ==
  /\ app \in {"calls", "flag"}
  /\ running' = [running EXCEPT ![workers[turn]] = FALSE]
  /\ IF workers[turn] = "market" THEN NextWorker ELSE app' = "close" /\ UNCHANGED turn
  /\ UNCHANGED <<call, pc, channel, requestVars>>

\* The channel is closed.  If run() has not yet created it, this is a
\* NullPointerException in the application.
ShutdownClose ==
  /\ app = "close"
  /\ \/ /\ channel[workers[turn]] = "none"
        /\ app' = "dead"
        /\ UNCHANGED <<turn, channel>>
     \/ /\ channel[workers[turn]] # "none"
        /\ channel' = [channel EXCEPT ![workers[turn]] = "closed"]
        /\ NextWorker
  /\ UNCHANGED <<call, pc, running, requestVars>>

------------------------------------------------------------------------------
(* The workers                                                             *)

Goto(w, from, to) == pc[w] = from /\ pc' = [pc EXCEPT ![w] = to]

\* Mutant of RunBegin: _running keeps its initial value.
RunBeginNotRunning(w) ==
  /\ Goto(w, "start", "init")
  /\ UNCHANGED <<appVars, running, channel, requestVars>>

\* run() begins with _running = true, whatever shutdown() did before.
RunBegin(w) ==
  /\ Goto(w, "start", "init")
  /\ running' = [running EXCEPT ![w] = TRUE]
  /\ UNCHANGED <<appVars, channel, requestVars>>

\* The channel and its socket are created.
ChannelInit(w) ==
  /\ Goto(w, "init", "connect")
  /\ channel' = [channel EXCEPT ![w] = "open"]
  /\ UNCHANGED <<appVars, running, requestVars>>

\* bind() connects; the application may have closed the socket already.
ChannelConnect(w) ==
  /\ Goto(w, "connect", IF channel[w] = "open" THEN "loop" ELSE "dead")
  /\ UNCHANGED <<appVars, running, channel, requestVars>>

\* Mutant of WorkerReceive: the exception is caught as those of ZeroMQ are.
WorkerReceiveCaught(w) ==
  /\ w \in {"ctrl_in", "market"}
  /\ running[w]
  /\ Goto(w, "loop", "loop")
  /\ UNCHANGED <<appVars, running, channel, requestVars>>

\* while (_running) of WorkerCtrlIn and WorkerMarket: receive throws.
WorkerReceive(w) ==
  /\ w \in {"ctrl_in", "market"}
  /\ running[w]
  /\ Goto(w, "loop", "dead")
  /\ UNCHANGED <<appVars, running, channel, requestVars>>

\* while (_running) of WorkerCtrlOut, up to take().
CtrlOutLoop ==
  /\ running["ctrl_out"]
  /\ Goto("ctrl_out", "loop", "take")
  /\ UNCHANGED <<appVars, running, channel, requestVars>>

\* Mutant of CtrlOutTake: the request is looked at, not taken.
CtrlOutPeek ==
  /\ queue # <<>>
  /\ Goto("ctrl_out", "take", "send")
  /\ hand' = <<Head(queue)>>
  /\ UNCHANGED <<appVars, running, channel, queue, sent, processors, accepted>>

\* take() waits for a request.
CtrlOutTake ==
  /\ queue # <<>>
  /\ Goto("ctrl_out", "take", "send")
  /\ hand' = <<Head(queue)>>
  /\ queue' = Tail(queue)
  /\ UNCHANGED <<appVars, running, channel, sent, processors, accepted>>

\* Mutant of CtrlOutSend: no break after a SHUTDOWN request.
CtrlOutSendNoBreak ==
  /\ channel["ctrl_out"] = "open"
  /\ sent' = sent \o hand
  /\ hand' = <<>>
  /\ Goto("ctrl_out", "send", "loop")
  /\ UNCHANGED <<appVars, running, channel, queue, processors, accepted>>

\* After a SHUTDOWN request the loop is left.
CtrlOutSend ==
  /\ channel["ctrl_out"] = "open"
  /\ sent' = sent \o hand
  /\ hand' = <<>>
  /\ Goto("ctrl_out", "send", IF hand[1].type = "SHUTDOWN" THEN "close" ELSE "loop")
  /\ UNCHANGED <<appVars, running, channel, queue, processors, accepted>>

\* The application has closed the channel: the exception ends the thread.
CtrlOutSendClosed ==
  /\ channel["ctrl_out"] = "closed"
  /\ Goto("ctrl_out", "send", "dead")
  /\ UNCHANGED <<appVars, running, channel, requestVars>>

\* The end of run(): the worker closes its channel.
WorkerClose(w) ==
  /\ \/ ~running[w] /\ Goto(w, "loop", "ended")
     \/ Goto(w, "close", "ended")
  /\ channel' = [channel EXCEPT ![w] = "closed"]
  /\ UNCHANGED <<appVars, running, requestVars>>

------------------------------------------------------------------------------

Start(w) == RunBegin(w) \/ ChannelInit(w) \/ ChannelConnect(w)
CtrlOut == CtrlOutLoop \/ CtrlOutTake \/ CtrlOutSend \/ CtrlOutSendClosed
WorkerRun(w) ==
  Start(w) \/ WorkerReceive(w) \/ (w = "ctrl_out" /\ CtrlOut) \/ WorkerClose(w)

ShutdownClient == ShutdownFlag \/ ShutdownClose

Next ==
  \/ \E type \in Types, p \in BOOLEAN : Register(type, p)
  \/ AddRequest
  \/ ShutdownClient
  \/ \E w \in Worker : WorkerRun(w)

Spec == Init /\ [][Next]_vars

\* Every thread that can go on does.  The application need not call the API
\* and need not begin client.shutdown(), but gets through what it has begun.
FairSpec ==
  /\ Spec
  /\ \A w \in Worker : WF_vars(WorkerRun(w))
  /\ WF_vars(AddRequest)
  /\ WF_vars(app # "calls" /\ ShutdownClient)

------------------------------------------------------------------------------
(* Safety                                                                  *)

\* Types of the client's state; the queue keeps its capacity.
TypeOK ==
  /\ app \in {"calls", "add", "flag", "close", "done", "dead"}
  /\ call \in Seq(Request)
  /\ turn \in 1..(Len(workers) + 1)
  /\ pc \in [Worker -> {"start", "init", "connect", "loop", "take", "send", "close",
                        "ended", "dead"}]
  /\ running \in [Worker -> BOOLEAN]
  /\ channel \in [Worker -> {"none", "open", "closed"}]
  /\ queue \in Seq(Request) /\ Len(queue) <= QueueCapacity
  /\ hand \in Seq(Request)
  /\ sent \in Seq(Request)
  /\ processors \subseteq 1..MaxCalls
  /\ accepted \in Seq(Request)

\* A request whose API call returned is sent, with WorkerCtrlOut or in the
\* queue, once and in the order of the calls, whatever becomes of the threads.
RequestsAccounted == accepted = sent \o hand \o queue

\* A SHUTDOWN request is among the first n that were accepted.
ShutdownRequested(n) ==
  \E i \in 1..Len(accepted) : i <= n /\ accepted[i].type = "SHUTDOWN"

\* client.shutdown() has reached WorkerCtrlOut and cleared its _running.
OutShutdown == turn > 2 \/ (turn = 2 /\ app # "flag")

\* A processor does not wait for nothing while the client is up: its request
\* was sent, or WorkerCtrlOut, alive, has it or finds it in the queue, or its
\* call is under way.  The exception is the request that met a full queue, and
\* then the application has been told (it died of the exception).  A client is
\* not up for requests behind a SHUTDOWN, and for none after client.shutdown().
ProcessorsAnswerable ==
  LET unsent == hand \o queue \o call
      Has(s, id) == \E i \in 1..Len(s) : s[i].id = id
  IN  \A id \in processors :
        \/ ShutdownRequested(id - 1) \/ OutShutdown
        \/ Has(sent, id)
        \/ Has(unsent, id) /\ pc["ctrl_out"] \notin {"close", "ended", "dead"}
        \/ app = "dead" /\ id = NextId

\* WorkerCtrlOut sends nothing after a SHUTDOWN request, however many
\* requests were queued behind it.
NothingAfterShutdown ==
  \A i \in 1..(Len(sent) - 1) : sent[i].type # "SHUTDOWN"

------------------------------------------------------------------------------
(* Liveness                                                                *)

\* A request that was accepted is sent, although nobody listens for the
\* responses any more, unless a SHUTDOWN request is ahead of it or
\* client.shutdown() gets to WorkerCtrlOut first.
AcceptedIsSent ==
  \A n \in 1..MaxCalls :
    (n <= Len(accepted))
      ~> (n <= Len(sent) \/ ShutdownRequested(n - 1) \/ OutShutdown)

Finished(w) == pc[w] \in {"ended", "dead"}

\* A SHUTDOWN request brings the client down: every worker's thread ends, even
\* if client.shutdown() is never called or fails because it came too early.
ShutdownRequestEndsWorkers ==
  ShutdownRequested(Len(accepted)) ~> (\A w \in Worker : Finished(w))

\* client.shutdown() alone ends every worker, even one whose run() sets
\* _running after shutdown() has cleared it, with one exception: WorkerCtrlOut
\* stays in take() if it waits for a request.
ShutdownReleasesWorkers ==
  app = "done" ~>
    \A w \in Worker :
      Finished(w) \/ (w = "ctrl_out" /\ pc[w] = "take" /\ queue = <<>>)

------------------------------------------------------------------------------
(* What the client's comments say                                          *)

\* WineingExampleClient.java:121 has api.shutdown() "terminate the
\* application", so the server gets the SHUTDOWN request.  The code lets
\* client.shutdown() close the channel under the request; only a sleep of one
\* second is between them.
ShutdownRequestIsSent ==
  \A n \in 1..MaxCalls :
    (ShutdownRequested(n) /\ ~ShutdownRequested(n - 1)) ~> (n <= Len(sent))
==============================================================================
