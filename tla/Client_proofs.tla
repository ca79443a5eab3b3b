----------------------------- MODULE Client_proofs -----------------------------
(***************************************************************************)
(* Proofs about the Java client for any request types, any capacity of the *)
(* queue and any number of calls: the types, where an accepted request is, *)
(* whose response processors are, and that SHUTDOWN is the last request.   *)
(***************************************************************************)
EXTENDS Client, SequenceTheorems, TLAPS

\* client.shutdown() has a worker at hand until it is through.
TurnInv ==
  /\ app \in {"calls", "flag", "close"} => turn \in 1..3
  /\ app \in {"calls", "add"} => turn = 1

\* The application has a request at hand from its registration to add().
CallInv ==
  /\ app = "add" => Len(call) = 1
  /\ app # "add" => call = <<>>

\* WorkerCtrlOut holds a request from take() to the end of send().
HandInv ==
  /\ pc["ctrl_out"] \in {"start", "init", "connect", "loop", "take"} => hand = <<>>
  /\ pc["ctrl_out"] = "send" => Len(hand) = 1

TypeInv == TypeOK /\ TurnInv /\ CallInv /\ HandInv

\* The workers in their order.
LEMMA WorkersOrder ==
  /\ Len(workers) = 3
  /\ \A i \in 1..3 : workers[i] \in Worker
BY DEF workers, Worker

\* The start state has its types.
LEMMA InitTypeInv == Init => TypeInv
BY WorkersOrder, ClientBoundsAssumption DEF Init, TypeInv, TypeOK, TurnInv, CallInv, HandInv, Worker

\* An API call begins.
LEMMA RegisterTypeInv ==
  ASSUME TypeInv, NEW type \in Types, NEW p \in BOOLEAN, Register(type, p)
  PROVE  TypeInv'
<1> DEFINE r == [id |-> NextId, type |-> type]
<1>1. accepted \in Seq(Request) /\ Len(accepted) < MaxCalls /\ MaxCalls \in Nat
  BY ClientBoundsAssumption DEF TypeInv, TypeOK, Register
<1>2. NextId \in 1..MaxCalls
  BY <1>1 DEF NextId
<1>3. r \in Request
  BY <1>2 DEF Request
<1>4. processors' \subseteq 1..MaxCalls
  BY <1>2 DEF Register, TypeInv, TypeOK
<1>5. call' \in Seq(Request) /\ Len(call') = 1
  <2>1. call' = <<r>>
    BY DEF Register
  <2> HIDE DEF r
  <2> QED BY <1>3, <2>1
<1> QED BY <1>4, <1>5
        DEF Register, workerVars, TypeInv, TypeOK, TurnInv, CallInv, HandInv

\* An API call returns, or meets a full queue.
LEMMA AddRequestTypeInv == TypeInv /\ AddRequest => TypeInv'
<1> SUFFICES ASSUME TypeInv, AddRequest PROVE TypeInv'
  OBVIOUS
<1>1. /\ accepted \in Seq(Request) /\ queue \in Seq(Request) /\ call \in Seq(Request)
      /\ Len(call) = 1 /\ Len(queue) <= QueueCapacity /\ QueueCapacity \in Nat
  BY ClientBoundsAssumption DEF TypeInv, TypeOK, CallInv, AddRequest
<1>2. UNCHANGED <<turn, pc, running, channel, hand, sent, processors>>
  BY DEF AddRequest, workerVars
<1>3. app = "add" /\ call' = <<>>
  BY DEF AddRequest
<1>4. CASE Len(queue) < QueueCapacity /\ queue' = queue \o call
           /\ accepted' = accepted \o call /\ app' = "calls"
  <2>1. /\ queue \o call \in Seq(Request) /\ Len(queue \o call) = Len(queue) + 1
        /\ accepted \o call \in Seq(Request)
    <3>1. /\ queue \o call \in Seq(Request) /\ Len(queue \o call) = Len(queue) + Len(call)
          /\ accepted \o call \in Seq(Request)
      BY <1>1, ConcatProperties, Zenon
    <3> QED BY <1>1, <3>1
  <2>2. Len(queue) + 1 <= QueueCapacity
    BY <1>1, <1>4
  <2>3. /\ queue' \in Seq(Request) /\ Len(queue') <= QueueCapacity
        /\ accepted' \in Seq(Request)
    BY <1>4, <2>1, <2>2
  <2> QED BY <1>2, <1>3, <1>4, <2>3 DEF TypeInv, TypeOK, TurnInv, CallInv, HandInv
<1>5. CASE app' = "dead" /\ UNCHANGED <<queue, accepted>>
  BY <1>2, <1>3, <1>5 DEF TypeInv, TypeOK, TurnInv, CallInv, HandInv
<1> QED BY <1>4, <1>5 DEF AddRequest

\* client.shutdown() goes through the workers.
LEMMA ShutdownTypeInv == TypeInv /\ ShutdownClient => TypeInv'
<1> SUFFICES ASSUME TypeInv, ShutdownClient PROVE TypeInv'
  OBVIOUS
<1>1. app \in {"calls", "flag", "close"} /\ turn \in 1..3 /\ workers[turn] \in Worker
  BY WorkersOrder DEF ShutdownClient, ShutdownFlag, ShutdownClose, TypeInv, TurnInv
<1>2. CASE ShutdownFlag
  BY <1>1, <1>2, WorkersOrder
     DEF ShutdownFlag, NextWorker, requestVars, TypeInv, TypeOK, TurnInv, CallInv, HandInv
<1>3. CASE ShutdownClose
  <2>1. UNCHANGED <<call, pc, running, queue, hand, sent, processors, accepted>>
    BY <1>3 DEF ShutdownClose, requestVars
  <2>2. app = "close" /\ app' \in {"dead", "done", "flag"}
    BY <1>3 DEF ShutdownClose, NextWorker
  <2>3. /\ turn' \in 1..4 /\ (app' = "flag" => turn' \in 1..3)
        /\ channel' \in [Worker -> {"none", "open", "closed"}]
    <3>1. channel \in [Worker -> {"none", "open", "closed"}]
      BY DEF TypeInv, TypeOK
    <3>2. CASE app' = "dead" /\ UNCHANGED <<turn, channel>>
      BY <1>1, <3>1, <3>2
    <3>3. CASE channel' = [channel EXCEPT ![workers[turn]] = "closed"] /\ NextWorker
      BY <1>1, <3>1, <3>3, WorkersOrder DEF NextWorker
    <3> QED BY <1>3, <3>2, <3>3 DEF ShutdownClose
  <2>4. TypeOK'
    BY <2>1, <2>2, <2>3, WorkersOrder DEF TypeInv, TypeOK
  <2> QED BY <2>1, <2>2, <2>3, <2>4 DEF TypeInv, TurnInv, CallInv, HandInv
<1> QED BY <1>2, <1>3 DEF ShutdownClient

\* The workers.
LEMMA WorkerTypeInv ==
  ASSUME TypeInv, NEW w \in Worker, WorkerRun(w)
  PROVE  TypeInv'
<1> USE DEF TypeInv, TypeOK, TurnInv, CallInv, HandInv, Goto, appVars, requestVars, Worker
<1>1. CASE Start(w)
  <2>1. CASE RunBegin(w)
    BY <2>1 DEF RunBegin
  <2>2. CASE ChannelInit(w)
    BY <2>2 DEF ChannelInit
  <2>3. CASE ChannelConnect(w)
    BY <2>3 DEF ChannelConnect
  <2> QED BY <1>1, <2>1, <2>2, <2>3 DEF Start
<1>2. CASE WorkerReceive(w)
  BY <1>2 DEF WorkerReceive
<1>3. CASE CtrlOutLoop
  BY <1>3 DEF CtrlOutLoop
<1>4. CASE CtrlOutTake
  <2>1. Head(queue) \in Request /\ Tail(queue) \in Seq(Request)
        /\ Len(Tail(queue)) = Len(queue) - 1
    BY <1>4 DEF CtrlOutTake
  <2>2. hand' \in Seq(Request) /\ Len(hand') = 1
    BY <1>4, <2>1 DEF CtrlOutTake
  <2> QED BY <1>4, <2>1, <2>2, ClientBoundsAssumption DEF CtrlOutTake
<1>5. CASE CtrlOutSend
  <2>1. sent' \in Seq(Request)
    BY <1>5 DEF CtrlOutSend
  <2> QED BY <1>5, <2>1 DEF CtrlOutSend
<1>6. CASE CtrlOutSendClosed
  BY <1>6 DEF CtrlOutSendClosed
<1>7. CASE WorkerClose(w)
  BY <1>7 DEF WorkerClose
<1> QED BY <1>1, <1>2, <1>3, <1>4, <1>5, <1>6, <1>7 DEF WorkerRun, CtrlOut

\* Every step keeps the types.
LEMMA NextTypeInv == TypeInv /\ [Next]_vars => TypeInv'
<1> SUFFICES ASSUME TypeInv, [Next]_vars PROVE TypeInv'
  OBVIOUS
<1>1. CASE UNCHANGED vars
  BY <1>1 DEF vars, appVars, workerVars, requestVars, TypeInv, TypeOK, TurnInv, CallInv, HandInv
<1> QED BY <1>1, RegisterTypeInv, AddRequestTypeInv, ShutdownTypeInv, WorkerTypeInv DEF Next

\* The invariant holds throughout.
LEMMA TypeInvariant == Spec => []TypeInv
BY InitTypeInv, NextTypeInv, PTL DEF Spec

\* The state of the client keeps its types: the queue never exceeds its
\* capacity, and client.shutdown() never runs past the last worker.
THEOREM ClientTypeOK == Spec => []TypeOK
<1>1. TypeInv => TypeOK
  BY DEF TypeInv
<1> QED BY <1>1, TypeInvariant, PTL

------------------------------------------------------------------------------
(* Where an accepted request is                                            *)

\* Steps of the workers and of client.shutdown() that move no request.
Idle == UNCHANGED requestVars

\* What a step does to the requests: the two parts of an API call,
\* WorkerCtrlOut taking or sending one, or nothing.
LEMMA RequestSteps ==
  ASSUME [Next]_vars
  PROVE  \/ \E type \in Types, p \in BOOLEAN : Register(type, p)
         \/ AddRequest
         \/ CtrlOutTake \/ CtrlOutSend
         \/ Idle
<1>1. CASE UNCHANGED vars
  BY <1>1 DEF vars, Idle
<1>2. CASE ShutdownClient
  BY <1>2 DEF ShutdownClient, ShutdownFlag, ShutdownClose, Idle
<1>3. ASSUME NEW w \in Worker, WorkerRun(w), ~CtrlOutTake, ~CtrlOutSend PROVE Idle
  BY <1>3 DEF WorkerRun, Start, RunBegin, ChannelInit, ChannelConnect, WorkerReceive, CtrlOut,
              CtrlOutLoop, CtrlOutSendClosed, WorkerClose, Idle
<1> QED BY <1>1, <1>2, <1>3 DEF Next

\* Every step keeps the account.
LEMMA NextRequestsAccounted == TypeInv /\ RequestsAccounted /\ [Next]_vars => RequestsAccounted'
<1> SUFFICES ASSUME TypeInv, RequestsAccounted, [Next]_vars PROVE RequestsAccounted'
  OBVIOUS
<1>1. /\ accepted \in Seq(Request) /\ queue \in Seq(Request) /\ hand \in Seq(Request)
      /\ sent \in Seq(Request)
  BY DEF TypeInv, TypeOK
<1>2. CASE AddRequest
  <2>1. CASE queue' = queue \o call /\ accepted' = accepted \o call
    <3>1. sent \o hand \in Seq(Request) /\ call \in Seq(Request)
      BY <1>1 DEF TypeInv, TypeOK
    <3>2. PICK x \in Seq(Request) : x = sent \o hand
      BY <3>1, Zenon
    <3>3. (x \o queue) \o call = x \o (queue \o call)
      BY <1>1, <3>1
    <3> QED BY <1>2, <2>1, <3>2, <3>3 DEF AddRequest, RequestsAccounted
  <2>2. CASE UNCHANGED <<queue, accepted>>
    BY <1>2, <2>2 DEF AddRequest, RequestsAccounted
  <2> QED BY <1>2, <2>1, <2>2 DEF AddRequest
<1>3. CASE CtrlOutTake
  <2>1. hand = <<>> /\ queue # <<>>
    BY <1>3 DEF CtrlOutTake, Goto, TypeInv, HandInv
  <2>2. sent \o <<>> \o queue = sent \o <<Head(queue)>> \o Tail(queue)
    <3>1. /\ <<Head(queue)>> \in Seq(Request) /\ Tail(queue) \in Seq(Request)
          /\ queue = <<Head(queue)>> \o Tail(queue)
      BY <1>1, <2>1
    <3>2. sent \o <<>> = sent
      BY <1>1
    <3> QED BY <1>1, <3>1, <3>2, ConcatAssociative
  <2> QED BY <1>3, <2>1, <2>2 DEF CtrlOutTake, RequestsAccounted
<1>4. CASE CtrlOutSend
  <2>1. (sent \o hand) \o <<>> \o queue = sent \o hand \o queue
    BY <1>1
  <2> QED BY <1>4, <2>1 DEF CtrlOutSend, RequestsAccounted
<1>5. CASE UNCHANGED <<accepted, sent, hand, queue>>
  BY <1>5 DEF RequestsAccounted
<1> QED BY <1>2, <1>3, <1>4, <1>5, RequestSteps DEF Register, Idle, requestVars

\* A request whose API call returned is in exactly one place, at its turn,
\* whatever the threads do and whichever of them have ended.
THEOREM RequestsAccountedAlways == Spec => []RequestsAccounted
<1>1. Init => RequestsAccounted
  BY DEF Init, RequestsAccounted
<1> QED BY <1>1, NextRequestsAccounted, TypeInvariant, PTL DEF Spec

------------------------------------------------------------------------------
(* Response processors                                                     *)

\* The ids of the accepted requests count the calls, and the call under way
\* has the next one; a processor is that of an accepted request, of the call
\* under way, or of the request that met a full queue.
ProcessorInv ==
  /\ \A i \in 1..Len(accepted) : accepted[i].id = i
  /\ app = "add" => call[1].id = NextId
  /\ \A id \in processors :
       id \in 1..Len(accepted) \/ (app \in {"add", "dead"} /\ id = NextId)

\* The application neither registers a processor nor gets a new request
\* while a call is under way, nor after it has died.
LEMMA ApplicationBusy ==
  ASSUME [Next]_vars, app \in {"add", "dead"}, ~AddRequest
  PROVE  UNCHANGED <<app, call, accepted, processors>>
<1>1. CASE UNCHANGED vars
  BY <1>1 DEF vars, appVars, requestVars
<1>2. ASSUME NEW w \in Worker, WorkerRun(w)
      PROVE  UNCHANGED <<app, call, accepted, processors>>
  BY <1>2 DEF WorkerRun, Start, RunBegin, ChannelInit, ChannelConnect, WorkerReceive, CtrlOut,
              CtrlOutLoop, CtrlOutTake, CtrlOutSend, CtrlOutSendClosed, WorkerClose, appVars,
              requestVars
<1> QED BY <1>1, <1>2 DEF Next, Register, ShutdownClient, ShutdownFlag, ShutdownClose

\* Only a registration begins a call.
LEMMA CallBegins ==
  ASSUME [Next]_vars, app # "add", app' = "add"
  PROVE  \E type \in Types, p \in BOOLEAN : Register(type, p)
<1>1. CASE UNCHANGED vars
  BY <1>1 DEF vars, appVars
<1>2. ASSUME NEW w \in Worker, WorkerRun(w) PROVE UNCHANGED app
  BY <1>2 DEF WorkerRun, Start, RunBegin, ChannelInit, ChannelConnect, WorkerReceive, CtrlOut,
              CtrlOutLoop, CtrlOutTake, CtrlOutSend, CtrlOutSendClosed, WorkerClose, appVars
<1>3. CASE ShutdownClient
  BY <1>3 DEF ShutdownClient, ShutdownFlag, ShutdownClose, NextWorker
<1> QED BY <1>1, <1>2, <1>3 DEF Next, AddRequest

\* Every step keeps the processors' requests.
LEMMA NextProcessorInv == TypeInv /\ ProcessorInv /\ [Next]_vars => ProcessorInv'
<1> SUFFICES ASSUME TypeInv, ProcessorInv, [Next]_vars PROVE ProcessorInv'
  OBVIOUS
<1>1. accepted \in Seq(Request) /\ call \in Seq(Request)
  BY DEF TypeInv, TypeOK
<1>2. CASE AddRequest
  <2>0. app = "add" /\ Len(call) = 1 /\ call[1].id = Len(accepted) + 1 /\ UNCHANGED processors
    BY <1>2 DEF AddRequest, TypeInv, CallInv, ProcessorInv, NextId
  <2>1. \A id \in processors' : id \in 1..Len(accepted) \/ id = Len(accepted) + 1
    BY <2>0 DEF ProcessorInv, NextId
  <2>2. CASE accepted' = accepted \o call /\ app' = "calls"
    <3>1. /\ Len(accepted') = Len(accepted) + 1
          /\ \A i \in 1..Len(accepted) : accepted'[i] = accepted[i]
          /\ accepted'[Len(accepted) + 1] = call[1]
      <4>1. /\ Len(accepted \o call) = Len(accepted) + Len(call)
            /\ \A i \in 1..Len(accepted) + Len(call) :
                 (accepted \o call)[i] = IF i <= Len(accepted) THEN accepted[i]
                                         ELSE call[i - Len(accepted)]
        BY <1>1, ConcatProperties, Zenon
      <4>2. Len(accepted) \in Nat
        BY <1>1
      <4> QED BY <2>0, <2>2, <4>1, <4>2
    <3>2. Len(accepted) \in Nat
      BY <1>1
    <3>3. \A i \in 1..Len(accepted') : accepted'[i].id = i
      BY <2>0, <3>1, <3>2 DEF ProcessorInv
    <3>4. \A id \in processors' : id \in 1..Len(accepted')
      BY <2>1, <3>1, <3>2
    <3> QED BY <2>2, <3>3, <3>4 DEF ProcessorInv
  <2>3. CASE app' = "dead" /\ UNCHANGED accepted
    BY <2>1, <2>3 DEF ProcessorInv, NextId
  <2> QED BY <1>2, <2>2, <2>3 DEF AddRequest
<1>3. ASSUME NEW type \in Types, NEW p \in BOOLEAN, Register(type, p)
      PROVE  ProcessorInv'
  <2>1. \A id \in processors' : id \in 1..Len(accepted) \/ id = NextId
    BY <1>3 DEF Register, ProcessorInv
  <2>2. call'[1].id = NextId /\ app' = "add" /\ UNCHANGED accepted
    BY <1>3 DEF Register
  <2> QED BY <2>1, <2>2 DEF ProcessorInv, NextId
<1>4. CASE app \in {"add", "dead"} /\ ~AddRequest
  BY <1>4, ApplicationBusy DEF ProcessorInv, NextId
<1>5. CASE /\ app \notin {"add", "dead"}
           /\ ~\E type \in Types, p \in BOOLEAN : Register(type, p)
  <2>1. app' # "add" /\ ~AddRequest
    BY <1>5, CallBegins DEF AddRequest
  <2>2. UNCHANGED <<accepted, processors>>
    BY <1>5, <2>1, RequestSteps DEF CtrlOutTake, CtrlOutSend, Idle, requestVars
  <2> QED BY <1>5, <2>1, <2>2 DEF ProcessorInv
<1> QED BY <1>2, <1>3, <1>4, <1>5

\* How WorkerCtrlOut can end: it has sent a SHUTDOWN request, or
\* client.shutdown() has reached it, which alone clears _running once run()
\* has set it and closes the channel under it.
EndInv ==
  /\ pc["ctrl_out"] \in {"close", "ended", "dead"} =>
       OutShutdown \/ \E i \in 1..Len(sent) : sent[i].type = "SHUTDOWN"
  /\ pc["ctrl_out"] # "start" /\ ~running["ctrl_out"] => OutShutdown
  /\ channel["ctrl_out"] = "closed" => OutShutdown \/ pc["ctrl_out"] = "ended"
  /\ pc["ctrl_out"] = "connect" => channel["ctrl_out"] # "none"

\* client.shutdown() does not come back to WorkerCtrlOut.
LEMMA OutShutdownStays == TypeInv /\ OutShutdown /\ [Next]_vars => OutShutdown'
<1> SUFFICES ASSUME TypeInv, OutShutdown, [Next]_vars PROVE OutShutdown'
  OBVIOUS
<1>0. turn \in 1..4 /\ (app \in {"calls", "add"} => turn = 1)
  BY WorkersOrder DEF TypeInv, TypeOK, TurnInv
<1>1. CASE UNCHANGED <<app, turn>>
  BY <1>1 DEF OutShutdown
<1>2. ASSUME NEW w \in Worker, WorkerRun(w) PROVE UNCHANGED <<app, turn>>
  BY <1>2 DEF WorkerRun, Start, RunBegin, ChannelInit, ChannelConnect, WorkerReceive, CtrlOut,
              CtrlOutLoop, CtrlOutTake, CtrlOutSend, CtrlOutSendClosed, WorkerClose, appVars
<1>3. CASE ShutdownFlag
  BY <1>0, <1>3 DEF ShutdownFlag, NextWorker, OutShutdown
<1>4. CASE ShutdownClose
  BY <1>0, <1>4 DEF ShutdownClose, NextWorker, OutShutdown
<1>5. ~AddRequest /\ \A type \in Types, p \in BOOLEAN : ~Register(type, p)
  BY <1>0 DEF AddRequest, Register, OutShutdown
<1> QED BY <1>1, <1>2, <1>3, <1>4, <1>5 DEF Next, ShutdownClient, vars, appVars

\* client.shutdown() clears _running and closes the channel of WorkerCtrlOut
\* only when it has reached it.
LEMMA ShutdownEndInv == TypeInv /\ EndInv /\ ShutdownClient => EndInv'
<1> SUFFICES ASSUME TypeInv, EndInv, ShutdownClient PROVE EndInv'
  OBVIOUS
<1>0. /\ turn \in 1..3 /\ workers[1] = "ctrl_in" /\ workers[2] = "ctrl_out"
      /\ workers[3] = "market" /\ (app = "calls" => turn = 1)
  BY DEF ShutdownClient, ShutdownFlag, ShutdownClose, TypeInv, TurnInv, workers
<1>1. /\ running \in [Worker -> BOOLEAN]
      /\ channel \in [Worker -> {"none", "open", "closed"}]
      /\ "ctrl_out" \in Worker
  BY DEF TypeInv, TypeOK, Worker
<1>2. UNCHANGED <<pc, sent>>
  BY DEF ShutdownClient, ShutdownFlag, ShutdownClose, requestVars
<1>3. OutShutdown => OutShutdown'
  <2>1. [Next]_vars
    BY DEF Next
  <2> QED BY <2>1, OutShutdownStays
<1>4. /\ running'["ctrl_out"] = running["ctrl_out"] \/ OutShutdown'
      /\ channel'["ctrl_out"] = channel["ctrl_out"] \/ OutShutdown'
      /\ channel'["ctrl_out"] = "none" => channel["ctrl_out"] = "none"
  <2>1. CASE ShutdownFlag /\ turn = 2
    BY <1>0, <1>1, <2>1 DEF ShutdownFlag, OutShutdown
  <2>2. CASE ShutdownFlag /\ turn # 2
    <3>1. PICK v \in Worker : v = workers[turn] /\ v # "ctrl_out"
      BY <1>0, <2>2 DEF Worker
    <3>2. running' = [running EXCEPT ![v] = FALSE] /\ UNCHANGED channel
      BY <2>2, <3>1 DEF ShutdownFlag
    <3> QED BY <1>1, <3>1, <3>2
  <2>3. CASE ShutdownClose /\ turn = 2
    <3>1. OutShutdown
      BY <2>3 DEF ShutdownClose, OutShutdown
    <3> QED BY <1>0, <1>1, <1>3, <2>3, <3>1 DEF ShutdownClose
  <2>4. CASE ShutdownClose /\ turn # 2
    BY <1>0, <1>1, <2>4 DEF ShutdownClose
  <2> QED BY <2>1, <2>2, <2>3, <2>4 DEF ShutdownClient
<1>5. /\ pc'["ctrl_out"] \in {"close", "ended", "dead"} =>
           OutShutdown' \/ \E i \in 1..Len(sent') : sent'[i].type = "SHUTDOWN"
      /\ pc'["ctrl_out"] = "connect" => channel'["ctrl_out"] # "none"
  BY <1>2, <1>3, <1>4 DEF EndInv
<1>6. pc'["ctrl_out"] # "start" /\ ~running'["ctrl_out"] => OutShutdown'
  <2>1. CASE OutShutdown'
    BY <2>1, Zenon
  <2>2. CASE ~OutShutdown'
    BY <1>2, <1>3, <1>4, <2>2 DEF EndInv
  <2> QED BY <2>1, <2>2
<1>7. channel'["ctrl_out"] = "closed" => OutShutdown' \/ pc'["ctrl_out"] = "ended"
  BY <1>2, <1>3, <1>4 DEF EndInv
<1> QED BY <1>5, <1>6, <1>7 DEF EndInv

\* A step of another worker leaves WorkerCtrlOut alone, and one of its own
\* ends it only as stated.
LEMMA WorkerEndInv ==
  ASSUME TypeInv, EndInv, NEW w \in Worker, WorkerRun(w)
  PROVE  EndInv'
<1>1. /\ pc \in [Worker -> {"start", "init", "connect", "loop", "take", "send", "close",
                            "ended", "dead"}]
      /\ running \in [Worker -> BOOLEAN]
      /\ channel \in [Worker -> {"none", "open", "closed"}]
      /\ "ctrl_out" \in Worker
  BY DEF TypeInv, TypeOK, Worker
<1>2. OutShutdown' = OutShutdown
  <2>1. UNCHANGED <<app, turn>>
    BY DEF WorkerRun, Start, RunBegin, ChannelInit, ChannelConnect, WorkerReceive, CtrlOut,
           CtrlOutLoop, CtrlOutTake, CtrlOutSend, CtrlOutSendClosed, WorkerClose, appVars
  <2> QED BY <2>1 DEF OutShutdown
<1>3. CASE CtrlOutSend
  <2>1. /\ sent \in Seq(Request) /\ hand \in Seq(Request) /\ Len(hand) = 1
        /\ sent' = sent \o hand
    BY <1>3 DEF CtrlOutSend, Goto, TypeInv, TypeOK, HandInv
  <2>2. /\ Len(sent') = Len(sent) + Len(hand)
        /\ \A i \in 1..Len(sent) + Len(hand) :
             sent'[i] = IF i <= Len(sent) THEN sent[i] ELSE hand[i - Len(sent)]
    BY <2>1, ConcatProperties, Zenon
  <2>3. Len(sent) \in Nat /\ Len(sent') = Len(sent) + 1 /\ sent'[Len(sent) + 1] = hand[1]
    BY <2>1, <2>2
  <2>4. /\ pc'["ctrl_out"] = IF hand[1].type = "SHUTDOWN" THEN "close" ELSE "loop"
        /\ pc["ctrl_out"] = "send" /\ UNCHANGED <<running, channel>>
    BY <1>1, <1>3 DEF CtrlOutSend, Goto
  <2> QED BY <1>2, <2>3, <2>4 DEF EndInv
<1>4. CASE CtrlOutTake \/ CtrlOutLoop
  <2>1. /\ pc["ctrl_out"] \in {"loop", "take"} /\ pc'["ctrl_out"] \in {"take", "send"}
        /\ UNCHANGED <<running, channel, sent>>
    BY <1>1, <1>4 DEF CtrlOutTake, CtrlOutLoop, Goto, requestVars
  <2> QED BY <1>2, <2>1 DEF EndInv
<1>5. CASE CtrlOutSendClosed
  <2>1. /\ pc["ctrl_out"] = "send" /\ pc'["ctrl_out"] = "dead"
        /\ channel["ctrl_out"] = "closed" /\ UNCHANGED <<running, channel, sent>>
    BY <1>1, <1>5 DEF CtrlOutSendClosed, Goto, requestVars
  <2> QED BY <1>2, <2>1 DEF EndInv
<1>6. CASE (Start(w) \/ WorkerReceive(w) \/ WorkerClose(w)) /\ w # "ctrl_out"
  <2>1. /\ pc'["ctrl_out"] = pc["ctrl_out"] /\ running'["ctrl_out"] = running["ctrl_out"]
        /\ channel'["ctrl_out"] = channel["ctrl_out"] /\ UNCHANGED sent
    BY <1>1, <1>6 DEF Start, RunBegin, ChannelInit, ChannelConnect, WorkerReceive, WorkerClose,
                      Goto, requestVars
  <2> QED BY <1>2, <2>1 DEF EndInv
<1>7. CASE w = "ctrl_out" /\ RunBegin(w)
  <2>1. /\ pc'["ctrl_out"] = "init" /\ pc["ctrl_out"] = "start"
        /\ running'["ctrl_out"] /\ UNCHANGED <<channel, sent>>
    BY <1>1, <1>7 DEF RunBegin, Goto, requestVars
  <2> QED BY <1>2, <2>1 DEF EndInv
<1>8. CASE w = "ctrl_out" /\ ChannelInit(w)
  <2>1. /\ pc'["ctrl_out"] = "connect" /\ pc["ctrl_out"] = "init"
        /\ channel'["ctrl_out"] = "open" /\ UNCHANGED <<running, sent>>
    BY <1>1, <1>8 DEF ChannelInit, Goto, requestVars
  <2> QED BY <1>2, <2>1 DEF EndInv
<1>9. CASE w = "ctrl_out" /\ ChannelConnect(w)
  <2>1. /\ pc'["ctrl_out"] = (IF channel["ctrl_out"] = "open" THEN "loop" ELSE "dead")
        /\ pc["ctrl_out"] = "connect" /\ UNCHANGED <<running, channel, sent>>
    BY <1>1, <1>9 DEF ChannelConnect, Goto, requestVars
  <2>2. channel["ctrl_out"] \in {"none", "open", "closed"}
    BY <1>1
  <2> QED BY <1>2, <2>1, <2>2 DEF EndInv
<1>10. CASE w = "ctrl_out" /\ WorkerClose(w)
  <2>1. /\ pc'["ctrl_out"] = "ended" /\ UNCHANGED <<running, sent>>
        /\ \/ pc["ctrl_out"] = "loop" /\ ~running["ctrl_out"]
           \/ pc["ctrl_out"] = "close"
    BY <1>1, <1>10 DEF WorkerClose, Goto, requestVars
  <2> QED BY <1>2, <2>1 DEF EndInv
<1> QED BY <1>3, <1>4, <1>5, <1>6, <1>7, <1>8, <1>9, <1>10
        DEF WorkerRun, Start, CtrlOut, WorkerReceive

\* Every step keeps it.
LEMMA NextEndInv == TypeInv /\ EndInv /\ [Next]_vars => EndInv'
<1> SUFFICES ASSUME TypeInv, EndInv, [Next]_vars PROVE EndInv'
  OBVIOUS
<1>1. CASE UNCHANGED <<pc, running, channel, sent>>
  BY <1>1, OutShutdownStays DEF EndInv
<1> QED BY <1>1, ShutdownEndInv, WorkerEndInv
        DEF Next, Register, AddRequest, vars, workerVars, requestVars

\* A request that was not sent is held by a WorkerCtrlOut that is alive, or
\* a SHUTDOWN was sent ahead of it, or client.shutdown() has come.
LEMMA Answerable ==
  TypeInv /\ RequestsAccounted /\ ProcessorInv /\ EndInv => ProcessorsAnswerable
<1> SUFFICES ASSUME TypeInv, RequestsAccounted, ProcessorInv, EndInv,
                    NEW id \in processors, ~OutShutdown, ~ShutdownRequested(id - 1),
                    ~(app = "dead" /\ id = NextId)
             PROVE  \/ \E i \in 1..Len(sent) : sent[i].id = id
                    \/ /\ \E i \in 1..Len(hand \o queue \o call) :
                            (hand \o queue \o call)[i].id = id
                       /\ pc["ctrl_out"] \notin {"close", "ended", "dead"}
  BY DEF ProcessorsAnswerable
<1>1. /\ sent \in Seq(Request) /\ hand \in Seq(Request) /\ queue \in Seq(Request)
      /\ call \in Seq(Request) /\ id \in Nat
  BY ClientBoundsAssumption DEF TypeInv, TypeOK
<1>2. PICK u \in Seq(Request) : u = hand \o queue
  <2>1. hand \o queue \in Seq(Request)
    BY <1>1, ConcatProperties, Zenon
  <2> QED BY <2>1, Zenon
<1>3. accepted = sent \o u
  BY <1>1, <1>2 DEF RequestsAccounted
<1>4. /\ Len(accepted) = Len(sent) + Len(u)
      /\ \A i \in 1..Len(sent) + Len(u) :
           accepted[i] = IF i <= Len(sent) THEN sent[i] ELSE u[i - Len(sent)]
  BY <1>1, <1>3, ConcatProperties, Zenon
<1>5. /\ Len(u \o call) = Len(u) + Len(call)
      /\ \A i \in 1..Len(u) + Len(call) :
           (u \o call)[i] = IF i <= Len(u) THEN u[i] ELSE call[i - Len(u)]
  BY <1>1, ConcatProperties, Zenon
<1>6. Len(sent) \in Nat /\ Len(u) \in Nat /\ Len(call) \in Nat
  BY <1>1
<1>7. CASE id <= Len(sent)
  <2>1. id \in 1..Len(accepted)
    BY <1>1, <1>4, <1>6, <1>7 DEF ProcessorInv, NextId
  <2>2. id \in 1..Len(sent) /\ accepted[id] = sent[id] /\ accepted[id].id = id
    BY <1>4, <1>6, <1>7, <2>1 DEF ProcessorInv
  <2> QED BY <2>2
<1>8. CASE id > Len(sent)
  <2>1. pc["ctrl_out"] \notin {"close", "ended", "dead"}
    <3>1. ASSUME NEW i \in 1..Len(sent) PROVE sent[i].type # "SHUTDOWN"
      <4>1. i \in 1..Len(accepted) /\ accepted[i] = sent[i] /\ i <= id - 1
        BY <1>1, <1>4, <1>6, <1>8
      <4> QED BY <4>1 DEF ShutdownRequested
    <3> QED BY <3>1 DEF EndInv
  <2>2. \E i \in 1..Len(u \o call) : (u \o call)[i].id = id
    <3>1. CASE id \in 1..Len(accepted)
      <4>1. PICK i \in 1..Len(u) : i = id - Len(sent)
        BY <1>1, <1>4, <1>6, <1>8, <3>1
      <4>2. accepted[id] = u[i] /\ accepted[id].id = id
        BY <1>1, <1>4, <1>6, <1>8, <3>1, <4>1 DEF ProcessorInv
      <4>3. i \in 1..Len(u \o call) /\ (u \o call)[i] = u[i]
        BY <1>5, <1>6
      <4> QED BY <4>2, <4>3
    <3>2. CASE app = "add" /\ id = NextId
      <4>1. Len(call) = 1 /\ call[1].id = id
        BY <3>2 DEF TypeInv, CallInv, ProcessorInv
      <4>2. Len(u) + 1 \in 1..Len(u \o call) /\ (u \o call)[Len(u) + 1] = call[1]
        BY <1>5, <1>6, <4>1
      <4> QED BY <4>1, <4>2
    <3> QED BY <3>1, <3>2 DEF ProcessorInv
  <2> QED BY <1>2, <2>1, <2>2
<1> QED BY <1>1, <1>6, <1>7, <1>8

\* While the client is up a registered processor has a request that was sent
\* or that a live WorkerCtrlOut is still to send, for any number of calls and
\* any capacity of the queue; if not, its request met a full queue and the
\* application died of it.
THEOREM ProcessorsAnswerableAlways == Spec => []ProcessorsAnswerable
<1>1. Init => ProcessorInv /\ EndInv
  BY DEF Init, ProcessorInv, EndInv, Worker
<1> QED BY <1>1, NextProcessorInv, NextEndInv, Answerable, TypeInvariant,
           RequestsAccountedAlways, PTL DEF Spec

------------------------------------------------------------------------------
(* SHUTDOWN is the last request                                            *)

\* As long as WorkerCtrlOut may still send, it has sent no SHUTDOWN.
LastInv ==
  /\ NothingAfterShutdown
  /\ pc["ctrl_out"] \in {"start", "init", "connect", "loop", "take", "send"} =>
       \A i \in 1..Len(sent) : sent[i].type # "SHUTDOWN"

\* Sending one request.
LEMMA SendLastInv == TypeInv /\ LastInv /\ CtrlOutSend => LastInv'
<1> SUFFICES ASSUME TypeInv, LastInv, CtrlOutSend PROVE LastInv'
  OBVIOUS
<1>1. /\ sent \in Seq(Request) /\ hand \in Seq(Request) /\ Len(hand) = 1
      /\ \A i \in 1..Len(sent) : sent[i].type # "SHUTDOWN"
  BY DEF CtrlOutSend, Goto, TypeInv, TypeOK, HandInv, LastInv
<1>2. /\ Len(sent') = Len(sent) + 1
      /\ \A i \in 1..Len(sent) : sent'[i] = sent[i]
      /\ sent'[Len(sent) + 1] = hand[1]
  <2>1. sent' = sent \o hand
    BY DEF CtrlOutSend
  <2>2. /\ Len(sent') = Len(sent) + Len(hand)
        /\ \A i \in 1..Len(sent) + Len(hand) :
             sent'[i] = IF i <= Len(sent) THEN sent[i] ELSE hand[i - Len(sent)]
    BY <1>1, <2>1, ConcatProperties, Zenon
  <2>3. Len(sent) \in Nat
    BY <1>1
  <2> QED BY <1>1, <2>2, <2>3
<1>3. pc'["ctrl_out"] = IF hand[1].type = "SHUTDOWN" THEN "close" ELSE "loop"
  BY DEF CtrlOutSend, Goto, TypeInv, TypeOK, Worker
<1> QED BY <1>1, <1>2, <1>3 DEF LastInv, NothingAfterShutdown

\* WorkerCtrlOut does not come back once it has left its loop.
LEMMA CtrlOutProgress ==
  ASSUME TypeInv, [Next]_vars,
         pc'["ctrl_out"] \in {"start", "init", "connect", "loop", "take", "send"}
  PROVE  pc["ctrl_out"] \in {"start", "init", "connect", "loop", "take", "send"}
<1>1. CASE UNCHANGED pc
  BY <1>1
<1>2. ASSUME NEW w \in Worker, WorkerRun(w)
      PROVE  pc["ctrl_out"] \in {"start", "init", "connect", "loop", "take", "send"}
  <2>1. PICK v, from, to :
          /\ v \in Worker /\ Goto(v, from, to)
          /\ from = "close" => to = "ended"
          /\ from \notin {"ended", "dead"}
    BY <1>2 DEF WorkerRun, Start, RunBegin, ChannelInit, ChannelConnect, WorkerReceive, CtrlOut,
                CtrlOutLoop, CtrlOutTake, CtrlOutSend, CtrlOutSendClosed, WorkerClose
  <2> QED BY <2>1 DEF Goto, TypeInv, TypeOK, Worker
<1> QED BY <1>1, <1>2 DEF Next, Register, AddRequest, ShutdownClient, ShutdownFlag, ShutdownClose,
                          vars, workerVars

\* WorkerCtrlOut sends nothing after a SHUTDOWN request, for any requests
\* queued behind it.
THEOREM NothingAfterShutdownAlways == Spec => []NothingAfterShutdown
<1>1. Init => LastInv
  BY DEF Init, LastInv, NothingAfterShutdown
<1>2. TypeInv /\ LastInv /\ [Next]_vars => LastInv'
  <2> SUFFICES ASSUME TypeInv, LastInv, [Next]_vars PROVE LastInv'
    OBVIOUS
  <2>1. CASE CtrlOutSend
    BY <2>1, SendLastInv
  <2>2. CASE UNCHANGED sent
    BY <2>2, CtrlOutProgress DEF LastInv, NothingAfterShutdown
  <2> QED BY <2>1, <2>2, RequestSteps DEF Register, AddRequest, CtrlOutTake, Idle, requestVars
<1>3. LastInv => NothingAfterShutdown
  BY DEF LastInv
<1> QED BY <1>1, <1>2, <1>3, TypeInvariant, PTL DEF Spec
==============================================================================
