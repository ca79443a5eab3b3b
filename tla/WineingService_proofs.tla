------------------------- MODULE WineingService_proofs -------------------------
(***************************************************************************)
(* Proof that the server implements the control service, for any requests, *)
(* any files and any bounds: the start states of the server are start      *)
(* states of the service, and every step of a thread is a step of the      *)
(* service or none.                                                        *)
(***************************************************************************)
EXTENDS WineingControl_proofs

------------------------------------------------------------------------------
(* The responses on their way                                              *)

\* What is in a thread's hands is a sequence of at most one response.
LEMMA SlotType ==
  ASSUME NEW r \in Response \cup {NoResponse}
  PROVE  Slot(r) \in Seq(Response)
BY DEF Slot

\* The responses on their way are responses, in every state of the server.
LEMMA OnTheWayType ==
  ASSUME TypeOK
  PROVE  /\ Slot(held) \in Seq(Response) /\ Slot(res) \in Seq(Response) /\ inq \in Seq(Response)
         /\ Slot(held) \o inq \in Seq(Response)
         /\ OnTheWay \in Seq(Response)
<1>1. Slot(held) \in Seq(Response) /\ Slot(res) \in Seq(Response) /\ inq \in Seq(Response)
  BY SlotType DEF TypeOK
<1>2. Slot(held) \o inq \in Seq(Response)
  BY <1>1
<1> QED BY <1>1, <1>2 DEF OnTheWay

\* A request puts its response at the end.
LEMMA RequestLine ==
  ASSUME TypeOK, UNCHANGED <<held, inq>>, res = NoResponse, res' \in Response
  PROVE  OnTheWay' = Append(OnTheWay, res')
<1>1. Slot(res) = <<>> /\ Slot(res') = <<res'>>
  BY NoResponseIsNone DEF Slot
<1>2. PICK x \in Seq(Response) : x = Slot(held) \o inq
  BY OnTheWayType
<1>3. OnTheWay = x \o <<>> /\ OnTheWay' = x \o <<res'>>
  BY <1>1, <1>2 DEF OnTheWay
<1>4. x \o <<>> = x /\ x \o <<res'>> = Append(x, res')
  OBVIOUS
<1> QED BY <1>3, <1>4, Zenon

\* Handing it to the channel leaves it there.
LEMMA SendLine ==
  ASSUME TypeOK, res \in Response, res' = NoResponse, inq' = Append(inq, res), UNCHANGED held
  PROVE  OnTheWay' = OnTheWay
<1>1. Slot(res) = <<res>> /\ Slot(res') = <<>>
  BY NoResponseIsNone DEF Slot
<1>2. PICK x \in Seq(Response) : x = Slot(held)
  BY OnTheWayType
<1>3. PICK q \in Seq(Response) : q = inq
  BY OnTheWayType
<1>4. OnTheWay = (x \o q) \o <<res>> /\ OnTheWay' = (x \o Append(q, res)) \o <<>>
  BY <1>1, <1>2, <1>3 DEF OnTheWay
<1>5. (x \o Append(q, res)) \o <<>> = (x \o q) \o <<res>>
  OBVIOUS
<1> QED BY <1>4, <1>5, Zenon

\* So does taking it from the channel.
LEMMA RecvLine ==
  ASSUME TypeOK, inq # <<>>, held = NoResponse, held' = Head(inq), inq' = Tail(inq),
         UNCHANGED res
  PROVE  OnTheWay' = OnTheWay
<1>0. PICK q \in Seq(Response) : q = inq
  BY OnTheWayType
<1>1. q # <<>> /\ Head(q) \in Response
  BY <1>0
<1>2. Slot(held) = <<>> /\ Slot(held') = <<Head(q)>>
  BY <1>0, <1>1, NoResponseIsNone DEF Slot
<1>3. PICK y \in Seq(Response) : y = Slot(res)
  BY OnTheWayType
<1>4. OnTheWay = (<<>> \o q) \o y /\ OnTheWay' = (<<Head(q)>> \o Tail(q)) \o y
  BY <1>0, <1>2, <1>3 DEF OnTheWay
<1>5. <<>> \o q = q /\ <<Head(q)>> \o Tail(q) = q
  BY <1>1
<1> QED BY <1>4, <1>5, Zenon

\* The response that cchan_out sends is the first, and is gone afterwards.
LEMMA OutSendLine ==
  ASSUME TypeOK, held \in Response, held' = NoResponse, UNCHANGED <<inq, res>>
  PROVE  OnTheWay # <<>> /\ Head(OnTheWay) = held /\ OnTheWay' = Tail(OnTheWay)
<1>1. Slot(held) = <<held>> /\ Slot(held') = <<>>
  BY NoResponseIsNone DEF Slot
<1>2. PICK q \in Seq(Response) : q = inq
  BY OnTheWayType
<1>3. PICK y \in Seq(Response) : y = Slot(res)
  BY OnTheWayType
<1>4. OnTheWay = (<<held>> \o q) \o y /\ OnTheWay' = (<<>> \o q) \o y
  BY <1>1, <1>2, <1>3 DEF OnTheWay
<1>5. /\ (<<held>> \o q) \o y # <<>> /\ Head((<<held>> \o q) \o y) = held
      /\ Tail((<<held>> \o q) \o y) = q \o y
  OBVIOUS
<1>6. <<>> \o q = q
  OBVIOUS
<1> QED BY <1>4, <1>5, <1>6, Zenon

\* An interrupted send of cchan_in loses the last one.
LEMMA LoseLast ==
  ASSUME TypeOK, res \in Response, res' = NoResponse, UNCHANGED <<held, inq>>
  PROVE  \E i \in 1..Len(OnTheWay) : OnTheWay' = Service!OwedWithout(i, i)
<1>1. Slot(res) = <<res>> /\ Slot(res') = <<>>
  BY NoResponseIsNone DEF Slot
<1>2. PICK x \in Seq(Response) : x = Slot(held) \o inq
  BY OnTheWayType
<1>3. OnTheWay = x \o <<res>> /\ OnTheWay' = x \o <<>>
  BY <1>1, <1>2 DEF OnTheWay
<1>4. PICK s \in Seq(Response) : s = x \o <<res>>
  <2>1. x \o <<res>> \in Seq(Response)
    OBVIOUS
  <2> QED BY <2>1, Zenon
<1>5. /\ Len(s) = Len(x) + 1 /\ Len(s) \in 1..Len(s) /\ Len(s) - 1 = Len(x)
      /\ SubSeq(s, 1, Len(s) - 1) = x /\ SubSeq(s, Len(s) + 1, Len(s)) = <<>>
  <2>1. Len(s) = Len(x) + 1 /\ \A k \in 1..Len(x) : s[k] = x[k]
    BY <1>4
  <2>2. SubSeq(s, 1, Len(x)) = x
    BY <2>1
  <2>3. SubSeq(s, Len(s) + 1, Len(s)) = <<>>
    OBVIOUS
  <2> QED BY <2>1, <2>2, <2>3
<1>6. x \o <<>> = SubSeq(s, 1, Len(s) - 1) \o SubSeq(s, Len(s) + 1, Len(s))
  BY <1>5, Zenon
<1>7. OnTheWay = s
  BY <1>3, <1>4, Zenon
<1>8. OnTheWay' = Service!OwedWithout(Len(s), Len(s))
  BY <1>3, <1>6, <1>7, Zenon DEF Service!OwedWithout
<1> QED BY <1>5, <1>7, <1>8, Zenon

\* An interrupted send of cchan_out loses the first one.
LEMMA LoseFirst ==
  ASSUME TypeOK, held \in Response, held' = NoResponse, UNCHANGED <<inq, res>>
  PROVE  \E i \in 1..Len(OnTheWay) : OnTheWay' = Service!OwedWithout(i, i)
<1>1. PICK s \in Seq(Response) : s = OnTheWay
  BY OnTheWayType
<1>2. s # <<>> /\ OnTheWay' = Tail(s)
  BY <1>1, OutSendLine, Zenon
<1>3. 1 \in 1..Len(s) /\ SubSeq(s, 1, 1 - 1) \o SubSeq(s, 1 + 1, Len(s)) = Tail(s)
  BY <1>2
<1>4. OnTheWay' = Service!OwedWithout(1, 1)
  BY <1>1, <1>2, <1>3, Zenon DEF Service!OwedWithout
<1> QED BY <1>1, <1>3, <1>4, Zenon

\* A send to a closed channel loses the response, the only one.
LEMMA LoseOnly ==
  ASSUME TypeOK, held = NoResponse, inq = <<>>, res \in Response, res' = NoResponse,
         UNCHANGED <<held, inq>>
  PROVE  \E i \in 1..Len(OnTheWay) : \E j \in i..Len(OnTheWay) : OnTheWay' = Service!OwedWithout(i, j)
<1>1. PICK i \in 1..Len(OnTheWay) : OnTheWay' = Service!OwedWithout(i, i)
  BY LoseLast
<1>2. i \in i..Len(OnTheWay)
  OBVIOUS
<1> QED BY <1>1, <1>2, Zenon

\* Closing cchan_out's end of the channel loses those in the channel.
LEMMA LoseQueue ==
  ASSUME TypeOK, held = NoResponse, inq # <<>>, inq' = <<>>, UNCHANGED <<held, res>>
  PROVE  \E i \in 1..Len(OnTheWay) : \E j \in i..Len(OnTheWay) : OnTheWay' = Service!OwedWithout(i, j)
<1>0. PICK q \in Seq(Response) : q = inq
  BY OnTheWayType
<1>1. PICK y \in Seq(Response) : y = Slot(res)
  BY OnTheWayType
<1>2. Slot(held) = <<>>
  BY DEF Slot
<1>3. OnTheWay = (<<>> \o q) \o y /\ OnTheWay' = (<<>> \o <<>>) \o y
  BY <1>0, <1>1, <1>2 DEF OnTheWay
<1>4. <<>> \o q = q /\ (<<>> \o <<>>) \o y = y
  OBVIOUS
<1>5. PICK s \in Seq(Response) : s = q \o y
  <2>1. q \o y \in Seq(Response)
    OBVIOUS
  <2> QED BY <2>1, Zenon
<1>6. OnTheWay = s /\ OnTheWay' = y
  BY <1>3, <1>4, <1>5, Zenon
<1>7. /\ 1 \in 1..Len(s) /\ Len(q) \in 1..Len(s)
      /\ SubSeq(s, 1, 1 - 1) = <<>> /\ SubSeq(s, Len(q) + 1, Len(s)) = y
  <2>1. /\ Len(s) = Len(q) + Len(y) /\ Len(q) \in Nat /\ Len(y) \in Nat /\ Len(q) > 0
        /\ \A k \in 1..Len(y) : s[Len(q) + k] = y[k]
    BY <1>0, <1>5
  <2>2. SubSeq(s, Len(q) + 1, Len(s)) = y
    BY <2>1
  <2>3. SubSeq(s, 1, 1 - 1) = <<>>
    OBVIOUS
  <2> QED BY <2>1, <2>2, <2>3
<1>8. y = SubSeq(s, 1, 1 - 1) \o SubSeq(s, Len(q) + 1, Len(s))
  <2>1. <<>> \o y = y
    OBVIOUS
  <2> QED BY <1>7, <2>1, Zenon
<1>9. OnTheWay' = Service!OwedWithout(1, Len(q))
  BY <1>6, <1>8, Zenon DEF Service!OwedWithout
<1> QED BY <1>6, <1>7, <1>9, Zenon

------------------------------------------------------------------------------
(* The buffers                                                             *)

\* Every buffer holds what it held at the start or the path of some request;
\* a buffer in use holds a path.
BufferInv ==
  /\ in_data.data \in Service!Remembered /\ (0 < in_data.size => in_data.data \in Path)
  /\ g_data.data \in Service!Remembered /\ (0 < g_data.size => g_data.data \in Path)
  /\ \A r \in Reader : t_data[r].data \in Service!Remembered

\* No request is forgotten.
LEMMA RememberedGrows ==
  ASSUME reqs \in Seq(Requests), NEW r \in Requests, reqs' = Append(reqs, r)
  PROVE  /\ Service!Remembered \subseteq Service!Remembered'
         /\ r.tape \in Path => r.tape \in Service!Remembered'
<1>1. /\ Len(reqs) \in Nat /\ Len(reqs') = Len(reqs) + 1 /\ reqs'[Len(reqs) + 1] = r
      /\ \A i \in 1..Len(reqs) : i \in 1..Len(reqs') /\ reqs'[i] = reqs[i]
  OBVIOUS
<1>2. {reqs[i].tape : i \in 1..Len(reqs)} \subseteq {reqs'[i].tape : i \in 1..Len(reqs')}
  BY <1>1
<1>3. r.tape \in {reqs'[i].tape : i \in 1..Len(reqs')}
  BY <1>1
<1> QED BY <1>2, <1>3, Zenon DEF Service!Remembered

\* Every step keeps the buffers so.
LEMMA NextBufferInv ==
  TypeInv /\ InprocInv /\ CommandInv /\ BufferInv /\ [Next]_vars => BufferInv'
<1> SUFFICES ASSUME TypeInv, InprocInv, CommandInv, BufferInv, [Next]_vars PROVE BufferInv'
  OBVIOUS
<1>0. TypeOK /\ reqs \in Seq(Requests) /\ in_data \in Ctrl /\ g_data \in Ctrl
  BY DEF TypeInv, TypeOK
<1>1. CASE CchanInRequest
  <2>1. PICK r \in Requests :
          \/ StartWhileRunning(r) \/ StartFileMissing(r) \/ StartAccepted(r)
          \/ MarketStop(r) \/ Shutdown(r) \/ Unparsable(r)
    BY <1>1 DEF CchanInRequest
  <2>2. PICK n \in Nat : n = Len(reqs) + 1
    BY <1>0
  <2>3. Outcome(r, n) /\ RecordAfter(r, n)
    BY <2>1, <2>2, RequestOutcome
  <2>4. /\ Service!Remembered \subseteq Service!Remembered'
        /\ r.tape \in Path => r.tape \in Service!Remembered'
    BY <1>0, <2>3, RememberedGrows DEF Outcome
  <2>5. in_data'.data \in Service!Remembered' /\ (0 < in_data'.size => in_data'.data \in Path)
    <3>1. CASE in_data' = StartRequest(r) /\ (HasTape(r) => r.tape \in Path)
      BY <2>4, <3>1 DEF StartRequest, CopyCtrl, BufferInv
    <3>2. CASE in_data'.data = in_data.data /\ in_data'.size \in {0, in_data.size}
      BY <2>4, <3>2 DEF BufferInv
    <3> QED BY <2>3, <3>1, <3>2 DEF RecordAfter
  <2>6. g_data'.data \in Service!Remembered' /\ (0 < g_data'.size => g_data'.data \in Path)
    <3>1. CASE Publish(in_data')
      <4>1. g_data' = CopyCtrl(g_data, in_data')
        BY <3>1 DEF Publish, Shared!Publish, CopyCtrl, Shared!CopyCtrl
      <4> QED BY <2>4, <2>5, <4>1 DEF CopyCtrl, BufferInv
    <3>2. CASE UNCHANGED g_data
      BY <2>4, <3>2 DEF BufferInv
    <3> QED BY <2>3, <3>1, <3>2 DEF Outcome
  <2>7. \A q \in Reader : t_data'[q].data \in Service!Remembered'
    BY <2>3, <2>4 DEF Outcome, BufferInv
  <2> QED BY <2>5, <2>6, <2>7 DEF BufferInv
<1>2. ASSUME UNCHANGED <<in_data, g_data, reqs>>,
             \A q \in Reader : t_data'[q] = t_data[q] \/ t_data'[q] = Refreshed(q)
      PROVE  BufferInv'
  <2>1. Service!Remembered' = Service!Remembered
    BY <1>2 DEF Service!Remembered
  <2>2. ASSUME NEW q \in Reader PROVE t_data'[q].data \in Service!Remembered
    <3>1. Refreshed(q).data = IF 0 < g_data.size THEN g_data.data ELSE t_data[q].data
      BY DEF Refreshed, CopyCtrl
    <3>2. g_data.data \in Service!Remembered /\ t_data[q].data \in Service!Remembered
      BY DEF BufferInv
    <3> QED BY <1>2, <3>1, <3>2
  <2> QED BY <1>2, <2>1, <2>2 DEF BufferInv
<1>3. CASE CchanInSend \/ CchanInSendInterrupted
  BY <1>2, <1>3, SendSteps DEF sharedVars
<1>4. CASE CchanOutRecv
  BY <1>2, <1>4, RecvStep DEF sharedVars
<1>5. CASE CchanOutSend \/ CchanOutSendInterrupted
  BY <1>2, <1>5, OutSendSteps DEF sharedVars
<1>6. CASE CchanOutDestroy
  BY <1>2, <1>6, DestroyStep DEF sharedVars
<1>7. CASE SetUp
  BY <1>0, <1>2, <1>7, SetUpSteps, CopySteps
<1> QED BY <1>1, <1>3, <1>4, <1>5, <1>6, <1>7, StepKinds

\* It is so throughout.
LEMMA BufferInvariant == Spec => []BufferInv
<1>1. Init => BufferInv
  BY DEF Init, BufferInv, InitialCtrl, Service!Remembered
<1> QED BY <1>1, NextBufferInv, ControlInvariant, TypeInvariant, PTL DEF Spec

------------------------------------------------------------------------------
(* The refinement                                                          *)

\* The start states.
LEMMA InitRefines == Init => Service!Init
<1> SUFFICES ASSUME Init PROVE Service!Init
  OBVIOUS
<1>1. /\ g_data.cmd = CMD_INIT /\ pc["market"] = "none" /\ held = NoResponse /\ res = NoResponse
      /\ inq = <<>> /\ published = <<>> /\ reqs = <<>> /\ interrupts = 0
  BY DEF Init, Thread, InitialCtrl
<1>2. Mode = "idle" /\ RunningTape = NoPath
  BY <1>1 DEF Mode, RunningTape, CMD_INIT, CMD_MARKET_RUN, CMD_SHUTDOWN
<1>3. Playback = {}
  BY <1>1 DEF Playback, InNxCore
<1>4. OnTheWay = <<>>
  BY <1>1 DEF OnTheWay, Slot
<1> QED BY <1>1, <1>2, <1>3, <1>4 DEF Service!Init

\* What the service sees of the shared record.
LEMMA ModeSame ==
  ASSUME UNCHANGED g_data
  PROVE  Mode' = Mode /\ RunningTape' = RunningTape
BY DEF Mode, RunningTape

\* A request is judged by the mode of the service and takes effect at once.
LEMMA RequestRefines ==
  TypeInv /\ CommandInv /\ HandsInv /\ CchanInRequest => Service!Next
<1> SUFFICES ASSUME TypeInv, CommandInv, HandsInv, NEW r \in Requests,
                    \/ StartWhileRunning(r) \/ StartFileMissing(r) \/ StartAccepted(r)
                    \/ MarketStop(r) \/ Shutdown(r) \/ Unparsable(r)
             PROVE  \/ Service!Start(r) \/ Service!RefuseStart(r) \/ Service!Stop(r)
                    \/ Service!GoDown(r) \/ Service!Ignore(r)
  BY Zenon DEF CchanInRequest, Service!Next
<1>0. TypeOK /\ in_data \in Ctrl
  BY DEF TypeInv, TypeOK
<1>1. PICK n \in Nat : n = Len(reqs) + 1
  BY DEF TypeInv, TypeOK
<1>2. Outcome(r, n)
  BY <1>1, RequestOutcome
<1>3. /\ reqs' = Append(reqs, r) /\ pc["cchan_in"] = "recv"
      /\ UNCHANGED <<inq, held, published, interrupts>>
  BY <1>2 DEF Outcome
<1>4. Playback' = Playback
  <2>1. CchanInRequest
    BY DEF CchanInRequest
  <2> QED BY <2>1, OtherSteps DEF Others, Playback
<1>5. /\ Mode = IF in_data.cmd = CMD_MARKET_RUN THEN "running" ELSE "idle"
      /\ Mode # "down"
  BY <1>3 DEF CommandInv, Mode, CMD_SHUTDOWN, CMD_MARKET_RUN
<1>6. ASSUME NEW type \in ResponseType, Respond(type) PROVE Service!Owe(r, type)
  <2>1. res' = [id |-> Len(reqs) + 1, type |-> type]
    BY <1>6 DEF Respond
  <2>2. res = NoResponse /\ res' \in Response
    <3>1. res' \in Response
      BY <1>6, RespondType DEF StartWhileRunning, StartFileMissing, StartAccepted,
         MarketStop, Shutdown, Unparsable
    <3> QED BY <1>3, <3>1 DEF HandsInv
  <2>3. OnTheWay' = Append(OnTheWay, res')
    BY <1>0, <1>3, <2>2, RequestLine
  <2> QED BY <1>3, <1>4, <2>1, <2>3, Zenon DEF Service!Owe
<1>7. CASE StartWhileRunning(r)
  <2>1. Service!Owe(r, "MARKET_START_ERR_RUNNING")
    BY <1>6, <1>7 DEF StartWhileRunning, ResponseType
  <2>2. r.type = "MARKET_START" /\ Mode = "running" /\ UNCHANGED <<Mode, RunningTape>>
    BY <1>5, <1>7, ModeSame DEF StartWhileRunning, sharedVars
  <2> QED BY <2>1, <2>2, Zenon DEF Service!RefuseStart
<1>8. CASE StartFileMissing(r)
  <2>1. Service!Owe(r, "ERR")
    BY <1>6, <1>8 DEF StartFileMissing, ResponseType
  <2>2. r.type = "MARKET_START" /\ Mode = "idle" /\ UNCHANGED <<Mode, RunningTape>>
    BY <1>5, <1>8, ModeSame DEF StartFileMissing, sharedVars
  <2>3. ~Service!Playable(r)
    BY <1>8, RequestTape DEF StartFileMissing, Service!Playable
  <2> QED BY <2>1, <2>2, <2>3, Zenon DEF Service!RefuseStart
<1>9. CASE StartAccepted(r)
  <2>1. Service!Owe(r, "MARKET_START_OK")
    BY <1>6, <1>9 DEF StartAccepted, ResponseType
  <2>2. r.type = "MARKET_START" /\ Mode = "idle"
    BY <1>5, <1>9 DEF StartAccepted
  <2>3. Service!Playable(r)
    BY <1>9, RequestTape DEF StartAccepted, Service!Playable
  <2>4. g_data'.cmd = CMD_MARKET_RUN
    BY <1>0, <1>9, StartRequestType, PublishEffect DEF StartAccepted
  <2>5. /\ HasTape(r) => g_data'.size = 1 /\ g_data'.data = r.tape
        /\ ~HasTape(r) => g_data'.size = 0
    BY <1>0, <1>9, StartRecord DEF StartAccepted
  <2>6. Mode' = "running" /\ RunningTape' = r.tape
    BY <2>4, <2>5 DEF Mode, RunningTape, HasTape
  <2> QED BY <2>1, <2>2, <2>3, <2>6, Zenon DEF Service!Start
<1>10. ASSUME in_data' \in Ctrl, Publish(in_data'), in_data'.cmd # CMD_MARKET_RUN
       PROVE  /\ Mode' = IF in_data'.cmd = CMD_SHUTDOWN THEN "down" ELSE "idle"
              /\ RunningTape' = NoPath
  <2>1. g_data'.cmd = in_data'.cmd
    BY <1>0, <1>10, PublishEffect
  <2> QED BY <1>10, <2>1 DEF Mode, RunningTape
<1>11. CASE MarketStop(r)
  <2>1. Service!Owe(r, "MARKET_STOP_OK")
    BY <1>6, <1>11 DEF MarketStop, ResponseType
  <2>2. in_data' \in Ctrl /\ in_data'.cmd = CMD_MARKET_STOP /\ Publish(in_data')
    BY <1>0, <1>11 DEF MarketStop, Ctrl, CMD_MARKET_STOP, CMD_SHUTDOWN, CMD_INIT
  <2>3. Mode' = "idle" /\ RunningTape' = NoPath
    BY <1>10, <2>2 DEF CMD_MARKET_STOP, CMD_SHUTDOWN, CMD_MARKET_RUN
  <2>4. r.type = "MARKET_STOP"
    BY <1>11 DEF MarketStop
  <2> QED BY <1>5, <2>1, <2>3, <2>4, Zenon DEF Service!Stop
<1>12. CASE Shutdown(r)
  <2>1. Service!Owe(r, "SHUTDOWN_OK")
    BY <1>6, <1>12 DEF Shutdown, ResponseType
  <2>2. in_data' \in Ctrl /\ in_data'.cmd = CMD_SHUTDOWN /\ Publish(in_data')
    BY <1>0, <1>12 DEF Shutdown, Ctrl, CMD_SHUTDOWN, CMD_INIT
  <2>3. Mode' = "down" /\ RunningTape' = NoPath
    BY <1>10, <2>2 DEF CMD_SHUTDOWN, CMD_MARKET_RUN
  <2>4. r.type = "SHUTDOWN"
    BY <1>12 DEF Shutdown
  <2> QED BY <1>5, <2>1, <2>3, <2>4, Zenon DEF Service!GoDown
<1>13. CASE Unparsable(r)
  <2>1. r.type = "UNPARSABLE" /\ UNCHANGED <<g_data, res>>
    BY <1>13 DEF Unparsable, sharedVars, msgVars
  <2>2. UNCHANGED <<Mode, RunningTape>>
    BY <2>1, ModeSame
  <2>3. OnTheWay' = OnTheWay
    BY <1>3, <2>1 DEF OnTheWay
  <2> QED BY <1>3, <1>4, <1>5, <2>1, <2>2, <2>3, Zenon DEF Service!Ignore
<1> QED BY <1>7, <1>8, <1>9, <1>11, <1>12, <1>13

\* Sending a response within the server is no step of the service; it may
\* lose the response to an interrupted call, or after a shutdown.
LEMMA SendRefines ==
  /\ TypeInv /\ InprocInv /\ CommandInv /\ HandsInv /\ EndInv
  /\ CchanInSend \/ CchanInSendInterrupted
  => [Service!Next]_Service!vars
<1> SUFFICES ASSUME TypeInv, InprocInv, CommandInv, HandsInv, EndInv,
                    CchanInSend \/ CchanInSendInterrupted
             PROVE  Service!Next \/ UNCHANGED Service!vars
  OBVIOUS
<1>0. TypeOK
  BY DEF TypeInv
<1>1. /\ pc["cchan_in"] = "send" /\ res' = NoResponse /\ res \in Response
      /\ UNCHANGED <<held, published, g_data, reqs>>
  BY SendSteps DEF HandsInv, sharedVars
<1>2. UNCHANGED <<Mode, RunningTape>>
  BY <1>1, ModeSame
<1>3. Playback' = Playback
  BY OtherSteps DEF Others, CchanInRun, Interrupted, Playback
<1>4. CASE CchanInSend /\ inproc = "bound"
  <2>1. inq' = Append(inq, res) /\ UNCHANGED interrupts
    BY <1>4 DEF CchanInSend
  <2>2. OnTheWay' = OnTheWay
    BY <1>0, <1>1, <2>1, SendLine
  <2> QED BY <1>1, <1>2, <1>3, <2>1, <2>2, Zenon DEF Service!vars
<1>5. CASE CchanInSend /\ inproc # "bound"
  <2>1. inq' = inq /\ UNCHANGED interrupts
    BY <1>5 DEF CchanInSend
  <2>2. inproc = "closed"
    BY <1>1, <1>5 DEF InprocInv, TypeInv, TypeOK
  <2>3. pc["cchan_out"] = "done" /\ inq = <<>> /\ g_data.cmd = CMD_SHUTDOWN
    BY <2>2 DEF EndInv
  <2>4. held = NoResponse
    BY <2>3 DEF HandsInv
  <2>5. Mode = "down"
    BY <2>3 DEF Mode, CMD_SHUTDOWN, CMD_MARKET_RUN
  <2>6. \E i \in 1..Len(OnTheWay) : \E j \in i..Len(OnTheWay) : OnTheWay' = Service!OwedWithout(i, j)
    BY <1>0, <1>1, <2>1, <2>3, <2>4, LoseOnly
  <2>7. Service!Drop
    BY <1>1, <1>2, <1>3, <2>1, <2>5, <2>6, Zenon DEF Service!Drop
  <2> QED BY <2>7, Zenon DEF Service!Next
<1>6. CASE CchanInSendInterrupted
  <2>1. inq' = inq /\ interrupts' = interrupts + 1
    BY <1>6 DEF CchanInSendInterrupted, Interrupt
  <2>2. \E i \in 1..Len(OnTheWay) : OnTheWay' = Service!OwedWithout(i, i)
    BY <1>0, <1>1, <2>1, LoseLast
  <2>3. Service!Fault
    BY <1>1, <1>2, <1>3, <2>1, <2>2, Zenon DEF Service!Fault
  <2> QED BY <2>3, Zenon DEF Service!Next
<1> QED BY <1>4, <1>5, <1>6

\* cchan_out takes a response from the channel: no step of the service.
LEMMA RecvRefines ==
  TypeInv /\ HandsInv /\ CchanOutRecv => UNCHANGED Service!vars
<1> SUFFICES ASSUME TypeInv, HandsInv, CchanOutRecv PROVE UNCHANGED Service!vars
  OBVIOUS
<1>1. /\ inq # <<>> /\ held = NoResponse /\ held' = Head(inq) /\ inq' = Tail(inq)
      /\ UNCHANGED <<res, published, g_data, reqs, interrupts>>
  BY RecvStep DEF HandsInv, sharedVars
<1>2. OnTheWay' = OnTheWay
  BY <1>1, RecvLine DEF TypeInv
<1>3. UNCHANGED <<Mode, RunningTape>>
  BY <1>1, ModeSame
<1>4. Playback' = Playback
  BY OtherSteps DEF Others, CchanOutRun, Playback
<1> QED BY <1>1, <1>2, <1>3, <1>4, Zenon DEF Service!vars

\* Sending it to the clients answers a request, or loses the answer to an
\* interrupted call.
LEMMA OutSendRefines ==
  TypeInv /\ HandsInv /\ (CchanOutSend \/ CchanOutSendInterrupted) => Service!Next
<1> SUFFICES ASSUME TypeInv, HandsInv, CchanOutSend \/ CchanOutSendInterrupted
             PROVE  Service!Next
  OBVIOUS
<1>0. TypeOK
  BY DEF TypeInv
<1>1. /\ held \in Response /\ held' = NoResponse
      /\ UNCHANGED <<inq, res, g_data, reqs>>
  BY OutSendSteps DEF HandsInv, sharedVars
<1>2. UNCHANGED <<Mode, RunningTape>>
  BY <1>1, ModeSame
<1>3. Playback' = Playback
  BY OtherSteps DEF Others, CchanOutRun, Interrupted, Playback
<1>4. CASE CchanOutSend
  <2>1. published' = Append(published, held) /\ UNCHANGED interrupts
    BY <1>4 DEF CchanOutSend
  <2>2. OnTheWay # <<>> /\ Head(OnTheWay) = held /\ OnTheWay' = Tail(OnTheWay)
    BY <1>0, <1>1, OutSendLine
  <2>3. Service!Answer
    BY <1>1, <1>2, <1>3, <2>1, <2>2, Zenon DEF Service!Answer
  <2> QED BY <2>3, Zenon DEF Service!Next
<1>5. CASE CchanOutSendInterrupted
  <2>1. interrupts' = interrupts + 1 /\ UNCHANGED published
    BY <1>5 DEF CchanOutSendInterrupted, Interrupt
  <2>2. \E i \in 1..Len(OnTheWay) : OnTheWay' = Service!OwedWithout(i, i)
    BY <1>0, <1>1, LoseFirst
  <2>3. Service!Fault
    BY <1>1, <1>2, <1>3, <2>1, <2>2, Zenon DEF Service!Fault
  <2> QED BY <2>3, Zenon DEF Service!Next
<1> QED BY <1>4, <1>5

\* cchan_out ends after a shutdown and drops what is in the channel.
LEMMA DestroyRefines ==
  /\ TypeInv /\ HandsInv /\ EndInv /\ CchanOutDestroy
  => [Service!Next]_Service!vars
<1> SUFFICES ASSUME TypeInv, HandsInv, EndInv, CchanOutDestroy
             PROVE  Service!Next \/ UNCHANGED Service!vars
  OBVIOUS
<1>0. TypeOK
  BY DEF TypeInv
<1>1. /\ held = NoResponse /\ inq' = <<>>
      /\ UNCHANGED <<res, held, published, g_data, reqs, interrupts>>
      /\ g_data.cmd = CMD_SHUTDOWN
  BY DestroyStep DEF HandsInv, EndInv, sharedVars
<1>2. UNCHANGED <<Mode, RunningTape>> /\ Mode = "down"
  BY <1>1, ModeSame DEF Mode, CMD_SHUTDOWN, CMD_MARKET_RUN
<1>3. Playback' = Playback
  BY OtherSteps DEF Others, CchanOutRun, Playback
<1>4. CASE inq = <<>>
  <2>1. OnTheWay' = OnTheWay
    BY <1>1, <1>4 DEF OnTheWay
  <2> QED BY <1>1, <1>2, <1>3, <2>1, Zenon DEF Service!vars
<1>5. CASE inq # <<>>
  <2>1. \E i \in 1..Len(OnTheWay) : \E j \in i..Len(OnTheWay) : OnTheWay' = Service!OwedWithout(i, j)
    BY <1>0, <1>1, <1>5, LoseQueue
  <2>2. Service!Drop
    BY <1>1, <1>2, <1>3, <2>1, Zenon DEF Service!Drop
  <2> QED BY <2>2, Zenon DEF Service!Next
<1> QED BY <1>4, <1>5

\* Steps that set threads up or look at the shared record are no steps of the
\* service; an interrupted receive is a fault that costs nothing.
LEMMA SetUpRefines ==
  /\ TypeInv /\ InprocInv /\ SetUp /\ ~(MarketRun \/ NxTapeEnd)
  => [Service!Next]_Service!vars
<1> SUFFICES ASSUME TypeInv, InprocInv, SetUp, ~(MarketRun \/ NxTapeEnd)
             PROVE  Service!Next \/ UNCHANGED Service!vars
  OBVIOUS
<1>1. UNCHANGED <<inq, res, held, published, g_data, reqs>>
  BY SetUpSteps DEF msgVars
<1>2. UNCHANGED <<Mode, RunningTape, OnTheWay>>
  BY <1>1, ModeSame DEF OnTheWay
<1>3. Playback' = Playback
  BY OtherSteps DEF Others, SetUp, CchanInRun, CchanOutRun, Interrupted, Playback
<1>4. CASE interrupts' = interrupts
  BY <1>1, <1>2, <1>3, <1>4, Zenon DEF Service!vars
<1>5. CASE interrupts' = interrupts + 1
  <2>1. Service!Fault
    BY <1>1, <1>2, <1>3, <1>5, Zenon DEF Service!Fault
  <2> QED BY <2>1, Zenon DEF Service!Next
<1>6. interrupts' = interrupts \/ interrupts' = interrupts + 1
  BY DEF SetUp, vars, MainRun, MainStart, MainJoin, MainShutdown, CchanInBind, CchanInConnect,
         CchanInDestroy, CchanInRecvInterrupted, CchanOutBind, CchanOutBindInproc, CchanOutLoop,
         CchanOutRecvInterrupted, PipeTerm, Interrupt
<1> QED BY <1>4, <1>5, <1>6

\* NxCore is given the tape of the start that is in force, or what a buffer
\* remembers; it comes back when the tape ends or the callback says stop.
LEMMA MarketRefines ==
  /\ TypeInv /\ BufferInv /\ (MarketRun \/ NxTapeEnd)
  => [Service!Next]_Service!vars
<1> SUFFICES ASSUME TypeInv, BufferInv, MarketRun \/ NxTapeEnd
             PROVE  Service!Next \/ UNCHANGED Service!vars
  OBVIOUS
<1>0. TypeOK
  BY DEF TypeInv
<1>1. UNCHANGED <<inq, res, held, published, g_data, reqs, interrupts>>
  BY <1>0, MarketSteps DEF msgVars
<1>2. UNCHANGED <<Mode, RunningTape, OnTheWay>>
  BY <1>1, ModeSame DEF OnTheWay
<1>3. CASE Playback' = Playback
  BY <1>1, <1>2, <1>3, Zenon DEF Service!vars
<1>4. CASE Playback # {} /\ Playback' = {}
  <2>1. Service!EndPlayback
    BY <1>1, <1>2, <1>4, Zenon DEF Service!EndPlayback
  <2> QED BY <2>1, Zenon DEF Service!Next
<1>5. CASE \/ MarketBind \/ MarketConnect \/ MarketStopped \/ MarketShutdown \/ MarketIdle
           \/ MarketWake \/ MarketDestroy \/ (MarketStart /\ nxlib = "no function")
  <2>1. PICK from, to :
          /\ Goto("market", from, to) /\ from \notin {"nxcore", "callback"}
          /\ to \notin {"nxcore", "callback"}
    <3>1. CASE MarketBind \/ MarketConnect \/ MarketWake \/ MarketDestroy
      BY <3>1 DEF MarketBind, MarketConnect, MarketWake, MarketDestroy, BindOrReturn,
                  ConnectInproc, DestroyChannels
    <3>2. CASE \/ MarketStopped \/ MarketShutdown \/ MarketIdle
               \/ (MarketStart /\ nxlib = "no function")
      <4>1. PICK next \in {"loop", "destroy", "sleep"} : MarketPoll(next)
        BY <3>2 DEF MarketStopped, MarketShutdown, MarketIdle, MarketStart, wininf_nxcore_run
      <4>2. Goto("market", "loop", next)
        BY <4>1 DEF MarketPoll
      <4> QED BY <4>2
    <3> QED BY <1>5, <3>1, <3>2
  <2> QED BY <1>0, <1>3, <2>1, MarketGoto DEF Playback, InNxCore
<1>6. CASE MarketStart /\ nxlib = "loaded"
  <2>1. /\ pc["market"] = "loop" /\ pc'["market"] = "nxcore"
        /\ Refreshed("market").cmd = CMD_MARKET_RUN /\ nxTape' = Refreshed("market").data
    BY <1>0, <1>6, MarketGoto DEF MarketStart, wininf_nxcore_run, MarketPoll
  <2>2. Playback = {} /\ Playback' = {nxTape'}
    BY <2>1 DEF Playback, InNxCore
  <2>3. g_data.cmd = CMD_MARKET_RUN
    BY <1>0, <2>1, RefreshedType DEF Reader
  <2>4. Mode = "running" /\ RunningTape = IF 0 < g_data.size THEN g_data.data ELSE NoPath
    BY <2>3 DEF Mode, RunningTape
  <2>5. nxTape' = IF 0 < g_data.size THEN g_data.data ELSE t_data["market"].data
    BY <2>1 DEF Refreshed, CopyCtrl
  <2>6. /\ 0 < g_data.size => g_data.data # NoPath
        /\ t_data["market"].data \in Service!Remembered
    BY PathsAssumption DEF BufferInv, Reader
  <2>7. nxTape' \in IF RunningTape = NoPath THEN Service!Remembered ELSE {RunningTape}
    BY <2>4, <2>5, <2>6
  <2>8. Service!BeginPlayback
    BY <1>1, <1>2, <2>2, <2>4, <2>7, Zenon DEF Service!BeginPlayback
  <2> QED BY <2>8, Zenon DEF Service!Next
<1>7. CASE NxCallback
  <2>1. pc["market"] = "nxcore" /\ pc'["market"] = "callback" /\ nxTape' = nxTape
    BY <1>0, <1>7, MarketGoto DEF NxCallback, nxVars
  <2> QED BY <1>3, <2>1 DEF Playback, InNxCore
<1>8. ASSUME NEW status \in BOOLEAN, NxCallbackReturn(status)
      PROVE  Service!Next \/ UNCHANGED Service!vars
  <2>1. /\ pc["market"] = "callback"
        /\ pc'["market"] = "loop" \/ (pc'["market"] = "nxcore" /\ nxTape' = nxTape)
    BY <1>0, <1>8, MarketGoto DEF NxCallbackReturn
  <2> QED BY <1>3, <1>4, <2>1 DEF Playback, InNxCore
<1>9. CASE NxTapeEnd
  <2>1. pc["market"] = "nxcore" /\ pc'["market"] = "loop"
    BY <1>0, <1>9, MarketGoto DEF NxTapeEnd
  <2> QED BY <1>4, <2>1 DEF Playback, InNxCore
<1> QED BY <1>5, <1>6, <1>7, <1>8, <1>9 DEF MarketRun, MarketStart, wininf_nxcore_run

\* Every step of the server is a step of the service, or none.
LEMMA NextRefines ==
  /\ TypeInv /\ InprocInv /\ CommandInv /\ HandsInv /\ EndInv /\ BufferInv /\ [Next]_vars
  => [Service!Next]_Service!vars
BY StepKinds, RequestRefines, SendRefines, RecvRefines, OutSendRefines, DestroyRefines,
   SetUpRefines, MarketRefines

\* Three threads, two queues and four copies of a record look to a client like
\* one service: it judges a request when it arrives, by its mode; it answers
\* in order; it loses a response only to a fault or after a shutdown; and it
\* plays the tape of the start in force.
THEOREM ServerImplementsService == Spec => ImplementsService
<1>1. Service!Init /\ [][Service!Next]_Service!vars => ImplementsService
  BY DEF ImplementsService, Service!Spec
<1> QED BY <1>1, InitRefines, NextRefines, TypeInvariant, ControlInvariant, BufferInvariant,
           PTL DEF Spec
==============================================================================
