# Wineing, specified in TLA+

Wineing lets a Linux program use NxCore, a Windows library that delivers market
data. The server (`src/main/c`, run under Wine) is told over a control channel
to start and stop streaming; it calls NxCore, whose callback sends the data on a
third channel. A Java client shows how to use it. This directory models server
and client as a set of TLA+ modules, checks them with TLC and proves the
safety properties with TLAPS.

## 1. The system

### Components

| part | state | operations | talks to |
|---|---|---|---|
| `conc.cc`, versioned shared state | `g_version`, `g_lock`; the record and the local copies belong to the callers | `lazy_init`, `lazy_update_global_if_owner`, `lazy_update_local_if_changed`, `lazy_destroy` | used by all threads |
| `w_ctrl` (`wineing.h`) | command, size, data buffer (the path of a tape) | two copy functions | copied by `conc.cc` |
| `chan.cc`, channels | a ZeroMQ context, sockets | `chan_init`, `chan_bind`, `chan_recv`, `chan_send`, `chan_destroy`, `chan_shutdown` | ZeroMQ 2.2 |
| `cchan_in_thread` | its record `t_data`, a version, the response under way | one case per request type | publishes the record; sends responses to `cchan_out` over `inproc://ctrl.out` |
| `cchan_out_thread` | its copy of the record, the response it holds | take a response, send it | reads the record |
| `market_thread`, `nxinf.cc`, `nxtape.cc` | two copies of the record (thread and callback) | loop, `wininf_nxcore_run`, `nxtape_process` | reads the record, calls NxCore, sends market data |
| `main.win.cc`, `wineing_init/run/shutdown` | - | create and join the threads, end ZeroMQ | all |
| command line (`cmd_parse`) | the options | parse | main |
| Java example client | a request queue, a table of response processors, three workers | send, dispatch, shut down | the server's three channels |
| protobuf messages, logging, linux stubs | - | - | - |

### What is hard about it

* **Locking by version.** `conc.cc` compares versions without its lock and raises
  the version before it copies the record. Is a reader's version always that of
  the record it holds? (sections 3 and 5: yes with one writer.)
* **A record is a level, not an event.** The threads see the newest command, not
  the sequence of commands: a stop and a start that come between two looks are
  invisible. What of the requests then takes effect?
* **A buffer with a size.** The path is copied only if the size is not zero, and
  is used whatever the size is.
* **Two ways from `cchan_in` to `cchan_out`.** The response goes through a queue,
  the shutdown command through the shared record, and the command can overtake
  the responses.
* **Start-up and end.** Three threads bind and connect in any order and retry;
  `main` joins them in a fixed order and `zmq_term` waits for every socket.
* **A callback on a foreign stack.** NxCore calls `nxtape_process` when it likes;
  the only way to end a playback is the callback's return value.
* **A client that shuts down from outside.** The application clears the flags and
  closes the channels of threads that may not have set them up yet, or are
  about to use them, or wait in a queue that nobody fills.

### What makes each part correct

* shared state: no reader keeps a mix of two records; a reader's version names
  its record; every update reaches a polling reader;
* control: each response says what the history of requests calls for, in order,
  at most once, after the command can be seen by the others; none is lost while
  the server runs;
* market: a stop ends the playback with a bounded tail of messages; an accepted
  start is played, and it is the tape that was asked for;
* start-up and end: nothing is accepted that cannot be answered; sockets are
  closed; a shutdown ends the application; the channels are those of the
  command line;
* client: a request whose call returned is sent, once and in order; its threads
  end.

`PROJECT.json` lists the hazards by line, each with the properties that
watch it.

## 2. Modules

    WCtrl            the control record and its copy functions
    SharedCtrl       what conc.h promises: publish and refresh, each in one step
    LazyState        conc.cc, one action per access to shared memory
      MCLazyState            instances for TLC
      LazyState_proofs       invariants, for any number of threads
      LazyShared_proofs      LazyState implements SharedCtrl
    CtrlService      what the control protocol promises: one step per request
    CmdLine          cmd_parse
    WineingState     the server's state, chan.cc, ZeroMQ
      CchanIn, CchanOut, Market      the three threads
      Wineing                main, the composition, the properties
        MCWineing            instances for TLC
        Wineing_proofs       types, sockets, start-up and the tail after a stop
        WineingControl_proofs  responses and tapes against the requests received
        WineingService_proofs  Wineing implements CtrlService
        CmdLine_proofs       cmd_parse, for command lines of any length
    Client           the Java client: application thread, queue, three workers
      MCClient               an instance for TLC
      Client_proofs          invariants, for any queue and number of calls

`Wineing` uses the operations of `SharedCtrl`; that `conc.cc` provides them is
the refinement that `LazyState` states, TLC checks and `LazyShared_proofs`
proves. Its assumption, one writer, holds in `wineing.cc`: only
`cchan_in_thread` calls `lazy_update_global_if_owner`. In turn `Wineing`
implements `CtrlService` (`ImplementsService`, proved in
`WineingService_proofs`). `Client` is a module of its own:
the server takes requests in any order and number (up to the bound), hence also
those of this client, and this client reads nothing the server sends.

### CtrlService

The service has a mode (idle, running, down), the tape of the start it runs for,
the responses it owes and those it has sent, and what is being played. A request
is judged and takes effect in one step. In `Wineing` that step is the one of
`cchan_in`; the mapping reads the mode and the tape off the shared record
(`Mode`, `RunningTape`), the responses owed are what `cchan_out` holds, then what
is in the inproc channel, then what `cchan_in` is about to send (`OnTheWay`), and
what is played is the argument NxCore was called with (`Playback`). The service
says precisely what may be lost: at most one response per interrupted call, and
any of those still owed once the service is down. It also says what a start
without a tape plays: whatever path the buffers hold; and that a start that names
a directory is accepted, since `wininf_file_exists` refuses a path only if its
attributes are invalid and have the directory bit (`nxinf.cc:51`).

### LazyState

Threads are writers or readers. `pc` is the place inside a call: the compare
(`UpdateGlobalOwner`, `UpdateGlobalNotOwner`, `UpdateLocalSame`,
`UpdateLocalChanged`), the lock, the version, one step per field of the copy
function, the unlock. The unlocked compare is a data race in the C++ sense; on
the platform it is one aligned load, so it yields the
value before or after a concurrent store and nothing else. The values a writer
publishes come from `Values`; `history` is a ghost that lists the records
published.

### The server

| variable | stands for |
|---|---|
| `pc[t]`, `mainPc` | the place of a thread, and of `main`, between two blocking calls |
| `sockets[t]`, `failed[t]` | sockets opened and not closed by the thread; failed attempts to connect to `inproc` |
| `inproc`, `pipe`, `inq` | the PULL end `cchan_out` binds, the pipe from `cchan_in`'s PUSH socket, what is in it |
| `res`, `held`, `published` | the response `cchan_in` is about to send, the one `cchan_out` has taken, those sent to clients |
| `in_data` | `t_data` of `cchan_in_thread` |
| `g_version`, `g_data`, `t_version`, `t_data` | the shared record; the copies of `cchan_out`, `market` and the callback (`nxtape`) |
| `argv`, `nxlib`, `nxTape` | the command line; what came of loading NxCore; the argument of the running `NxCoreProcessTape` |
| `reqs`, `tail` | ghosts: requests received; market data sent since streaming was stopped |

| action | code |
|---|---|
| `CchanInBind`, `CchanOutBind`, `MarketBind` | `chan_init` and the first `chan_bind`; a thread whose bind fails returns and leaves the socket |
| `CchanInConnect`, `MarketConnect` | one turn of the loop that repeats `chan_bind` on the inproc channel |
| `CchanOutBindInproc` | the second bind of `cchan_out_thread` |
| `StartWhileRunning`, `StartFileMissing`, `StartAccepted`, `MarketStop`, `Shutdown`, `Unparsable` | `chan_recv` and the switch of `cchan_in_thread` |
| `CchanInSend`, `CchanInSendInterrupted` | `chan_send` of the response and the loop's condition |
| `CchanOutLoop`, `CchanOutRecv`, `CchanOutSend`, ... | the loop of `cchan_out_thread` |
| `MarketStopped`, `MarketShutdown`, `MarketIdle`, `MarketWake`, `MarketStart` | the loop of `market_thread`, one action per branch |
| `NxCallback`, `NxCallbackReturn`, `NxTapeEnd` | `nxtape_process` in two steps (its look at the record; its message and return value), and NxCore coming back |
| `MainStart`, `MainJoin`, `MainShutdown` | `cmd_parse`, `wineing_init` and `wineing_run`; the joins; `wineing_shutdown` |
| `PipeTerm` | ZeroMQ: the PUSH socket learns that its peer is gone |

Handling a request touches nothing another thread writes between `chan_recv` and
the publication, so receiving and handling it is one action. A request's id is
its position in `reqs`.

ZeroMQ 2.2 is external. The model has what the code relies on: an inproc connect
fails unless the endpoint is bound; PUSH blocks without a peer; what is queued
for a PULL socket goes with it; a message sent between the close and `PipeTerm`
is lost; a call may fail because a signal interrupted it; `zmq_term` waits for
every socket. NxCore is external too: it calls back any number of times and
returns when the callback says so or the tape ends; a tape file ends, a
real-time feed need not.

`CmdLine` keeps how `cmd_parse` tells the options and the bits it collects;
later values replace earlier ones. An argument has a name, a value, and the two
characters the code looks at, the third and the ninth. In the four options of the
usage these are fixed (`Spelled`); in any other argument they may be anything, so
that `--mode=x` is taken for `--mchan` and `--config=x` for a control channel,
although the usage (`main.win.cc:55`) has these options as required ones
(`CountsFor` in `ChannelsAsGiven`).
With `--cchan=VALUE` (the option of `TestWineingWorks.java`, from an earlier
version) the ninth character is the first of the value: a value that begins with
"i" sets `cchan_in`, any other sets `cchan_out`. With the test's values one of
the two is missing, and the program prints its usage and exits.

### Client

| variable | stands for |
|---|---|
| `app`, `call`, `turn` | the application thread: between API calls, in one (with the request it is about to queue), in `client.shutdown()` (at which worker, and whether at the flag or the channel), through with it, or ended by an exception |
| `pc[w]`, `running[w]`, `channel[w]` | the place of a worker in `run()`, its `_running`, its channel |
| `queue`, `hand`, `sent` | `_ctrlQueue`, what `WorkerCtrlOut` has taken, what it has given to ZeroMQ |
| `processors` | the keys of `_responseProcessors` |
| `accepted` | ghost: requests whose API call returned |

| action | code |
|---|---|
| `Register` | an API call up to `setResponseProcessor` in `WineingRemoteAPIImpl.put`, in which all calls end |
| `AddRequest` | its `addRequest`; a full queue throws in the application, whose processor stays registered |
| `ShutdownFlag`, `ShutdownClose` | `shutdown()` of one worker, in two steps; a channel that does not exist yet is a `NullPointerException` in the application |
| `RunBegin`, `ChannelInit`, `ChannelConnect` | the beginning of `run()` |
| `WorkerReceive` | the loop of `WorkerCtrlIn` and `WorkerMarket`: `ZMQChannel.receive` with a buffer throws "Method not implemented." and ends the thread |
| `CtrlOutLoop`, `CtrlOutTake`, `CtrlOutSend`, `CtrlOutSendClosed` | the loop of `WorkerCtrlOut` |
| `WorkerClose` | the end of `run()` |

The example's `main` makes a fixed series of calls with sleeps between them; the
model lets the application make any calls, and begin `client.shutdown()` at any
time, since a sleep promises nothing about other threads.

## 3. Runs

| run | what it shows |
|---|---|
| `lazy_one_writer` | types; a reader's version names its record; the lock and copy steps implement `SharedCtrl`; an update reaches every polling reader |
| `lazy_two_writers` | two writers can both pass the owner compare, and still no reader keeps a mix of two records |
| `lazy_owner` (violated) | the second of those writers publishes although its version is no longer the shared one |
| `server` | all kinds of requests, three of them, from start-up to the end: types, right responses in order, visible effects before responses, nothing lost while running, at most two messages after a stop, the requested tape is the one played; every step is a step of `CtrlService` |
| `server_faults` | command lines with options missing or repeated, failing binds, a missing library or function, an interrupted call, attempts to connect that come too early: the server still implements `CtrlService`, only failed attempts leave sockets, no request without `cchan_out`, the channels are those given last, and only command lines that lack one are refused |
| `server_live` | under fairness, with tapes that end and a feed that does not: a stop ends the playback, an accepted start is played unless another command comes first or an endless feed keeps the thread, requests are answered unless a shutdown comes, a shutdown that finds the threads waiting ends everything |
| `client` | a queue of two and three calls: the queue keeps its bound, an accepted request is neither lost nor repeated nor overtaken, a processor's request is sent or still to be sent as long as the client is up, nothing is sent after SHUTDOWN; under fairness accepted requests are sent, a SHUTDOWN request ends all workers, `client.shutdown()` ends all but a `WorkerCtrlOut` that waits in `take()` |
| `doc_answered` (violated) | a response not yet taken when `cchan_out` sees the shutdown is never sent |
| `doc_shutdown` (violated) | a shutdown need not end the application |
| `doc_realtime` (violated) | a start without a tape after one with a tape plays the old tape |
| `doc_restart` (violated) | a stop and a start between two callbacks of a real-time feed: the start is acknowledged and never played |
| `doc_client_request` (violated) | `client.shutdown()` overtakes the SHUTDOWN request, which then is never sent |

The violated runs state what a comment of the repository says; `PROJECT.json`
quotes each under `findings`. Of `doc_shutdown` TLC prints one counterexample;
there are three independent causes:

1. `cchan_in` publishes the shutdown, `cchan_out` sees it and closes its socket
   before the response is sent, and `chan_send` blocks without a peer;
2. the market thread has not connected when `cchan_out` closes the endpoint, and
   repeats `chan_bind` forever, never looking at the command;
3. an attempt to connect that came too early left a socket open (`chan_bind`
   overwrites the handle), and `zmq_term` waits for it.

`OrderlyShutdown` in `server_live` states when none of them applies, and holds.

What the client run says is worth reading closely:

* `WorkerCtrlIn` and `WorkerMarket` end at their first receive, so the client
  never processes a response and its table of processors only grows; requests
  are sent all the same (`AcceptedIsSent`).
* After `client.shutdown()` without a SHUTDOWN request, `WorkerCtrlOut` can stay
  in `take()` and keep the process alive: the comment in
  `WineingExampleClient.shutdown` says the context is destroyed to release the
  threads, but the call is commented out. `ShutdownReleasesWorkers`
  states this exception, and that there is no other.
* `client.shutdown()` does not wait for the queue to empty. A request that was
  accepted, in the queue or in the hands of `WorkerCtrlOut`, is then lost, also
  a SHUTDOWN request, and the server goes on: `ShutdownRequestIsSent`
  (`doc_client_request`). The example sleeps for a second between the two calls.
  `AcceptedIsSent` and `ProcessorsAnswerable` state that nothing else has this
  effect: they except requests behind a SHUTDOWN, and the time from
  the moment `client.shutdown()` has cleared the `_running` of `WorkerCtrlOut`.
* `WorkerMarket.shutdown()` may come before `run()` sets `_running`; the worker
  ends only because its receive throws. The mutant of `ShutdownReleasesWorkers`
  catches the exception, and the worker then runs for ever.
* Requests called after SHUTDOWN are accepted until the queue is full, and never
  sent.

### Bounds

* `MaxRequests = 3`: the longest patterns of interest are start-stop-start (a
  restart between two looks, a real-time start after a tape) and a request
  queued behind another when a shutdown comes. The answer to a request depends
  on the earlier ones only through one command.
* `MaxRetries` caps failed attempts to connect. It is 0 where only the order of
  start-up matters (a thread then waits for the endpoint, which is what the
  retry loop amounts to) and 1 where leaked sockets matter; one is enough to
  hold up `zmq_term`. The limit of 512 sockets per context is not reached.
* `QueueCapacity = 2`, `MaxCalls = 3`: the queue can be full, and a request can
  be sent, in the worker's hands and queued at the same time. The code's 20 only
  makes this take longer. Of the request types a start and SHUTDOWN are used; the
  client treats a stop as it treats a start.
* `CommandLines`: in `server_faults` two that are accepted, one with options in
  another order and one given twice, one with arguments that are not in the usage
  and count for a channel, and three that are refused. The proof has no such
  bound.
* `MaxInterrupts` caps interrupted calls: 1 in `server_faults`, which covers the
  loss of one response at each of the four calls.
* `MaxUpdates`: 2 with one writer, 3 with two, so that a reader can be between
  two records that are both newer than its own.
* Two tapes, a directory, a missing path; buffers start empty, or as `Junk` in
  `server_faults` (they come from `new char[]`).

Deadlock checking is off in the runs of `Wineing` and `Client`: the server stops
when it has ended, when a thread could not bind, and when the bound on requests
is reached; the client stops when its threads have ended or wait for requests.
It is on for `LazyState`.

### Fairness

The operating system runs every thread that can go on: weak fairness of
`MainRun`, `CchanInRun`, `CchanOutRun` and `MarketRun`, each the steps of one
thread; and of `PipeTerm`, ZeroMQ's own thread. A thread in NxCore can go on
because NxCore keeps calling back. That a tape ends is strong fairness of
`NxTapeEnd` for a non-empty tape, since the callback may be running each time
one looks; there is none for the real-time feed. Nothing is assumed of clients
or signals: neither requests nor interrupted calls have to happen. In `Client`
each worker goes on when it can, and the application gets through an API call and
through `client.shutdown()` once it has begun it; it need not begin either. In
`LazyState`, a writer that has begun a call gets through it, and readers keep
polling; nobody has to begin an update. Weak fairness suffices for the lock
because the runs have a bounded number of updates.

## 4. Mutants

Each property of a passing run has a mutant in `PROJECT.json`: a definition
next to the one it replaces, changed the way a slip in the code would be (a lock
not taken, a path copied by the wrong size, a command not published, a comparison
that forgets one command, a socket closed twice or not at all, a missing break,
`offer` for `add`), under which TLC
finds the property violated.

## 5. Proofs

TLAPS proves, for every value of the constants that satisfies the named
assumptions in the modules that declare them:

| theorem | says |
|---|---|
| `LazyTypeOK` | types of `LazyState` |
| `NoTornReads` | any number of writers and readers: no reader keeps a mix |
| `VersionsNameRecords` | one writer: a reader's version names its record |
| `OnlyOwnerUpdates` | one writer: only the holder of the shared version publishes |
| `LazyImplementsShared` | one writer: `Spec => Shared!Spec` |
| `WineingTypeOK` | types of the server |
| `OnlyRetriesLeakAlways` | a thread that ends normally leaves exactly the sockets of its failed attempts |
| `StopTailAlways` | at most two messages of market data after a stop |
| `NoRequestWithoutCchanOutAlways` | if `cchan_out` could not set up, no request is taken |
| `ResponsesMatchRequestsAlways` | responses are sent in the order of the requests, none twice, each right for the history of requests |
| `NothingLostWhileRunningAlways` | no response is lost before a shutdown is asked for or a call interrupted |
| `ResponseAfterEffectAlways` | a request is carried out before its response is sent |
| `PlaysRequestedTapeAlways` | NxCore plays for a start request only, and the tape it names |
| `ServerImplementsService` | `Spec => Service!Spec`: the server is one control service to its clients |
| `ChannelsAsGivenAlways` | any command line: the server runs only with the three channels given last, and refuses only lines that lack one |
| `ClientTypeOK` | types of the client; the queue keeps its capacity |
| `RequestsAccountedAlways` | an accepted request is sent, held or queued, once and in order |
| `ProcessorsAnswerableAlways` | while the client is up, the request of a processor was sent or a live `WorkerCtrlOut` is still to send it, or its call failed |
| `NothingAfterShutdownAlways` | nothing is sent after SHUTDOWN |

**LazyState.** `NoTornRead` alone is not inductive: it says nothing of a copy
under way. `CopyInv` adds that exactly the threads in the critical section hold
the lock, that the shared record is the last one published up to the fields a
writer has still to copy, and the same for a reader's copy. With one writer
(`SingleWriter`: any two writers are the same) `IInv` adds that the writer's
version is the shared one and that versions count the records published; the
refinement follows, with publication at the step that raises `g_version` and a
refresh at the step that reads it under the lock.

**Wineing.** `TypeInv` ties the number of open sockets to the place of each
thread (`SocketInv`; without it, that `sockets` stays a natural number cannot be
shown) and says that a thread about to send has a response to send. `TailInv`
is the argument for "two": a callback that saw the running command has an empty
tail when it returns, NxCore between two callbacks has at most one message in
it, and the callback that sees the stop adds the last. `InprocInv` says that the
inproc endpoint comes up with `cchan_out` and that `cchan_in` is still before its
first receive until then.

**Responses.** That the responses sent are right says nothing of those not sent
yet, so `ResponseInv` says it of each place a response can be in: `cchan_in`'s
hands, the inproc channel, `cchan_out`'s hands, sent; and that the ids increase
from the last place to the first. A new response is right because of
`CommandInv`: the command in `cchan_in`'s record, which is all it keeps of the
past, is "run" exactly when the history of requests says that streaming is on,
and after a shutdown no request is taken. `Expected` looks at a whole history, so
each step that receives a request needs that it judges the earlier requests as
before (`HistoryKept`) and the new one by the command (`RequestOutcome`).
`NothingLostWhileRunning` is preserved by itself, given `EndInv`: `cchan_out`
closes the inproc channel, and with it what is queued, only after a shutdown.

**Effects and tapes.** `VersionInv` says that the shared version counts the
requests that had an effect. It relates a counter in the code to the number of
such requests in the history, and needs facts about cardinalities
(`VersionNew`, `VersionKept`, `VersionMonotone`). `ResponseAfterEffect` follows
with `ResponseInv`. `RecordInv` says that the shared record is the one of the last
request that had an effect; when the market thread refreshes its copy and calls
NxCore, `PlaysRequestedTape` comes from it. Until NxCore returns the thread does
not look at the record, and a new request has a version the thread has not seen.

**The service.** `ServerImplementsService` shows for each step of a thread which
step of `CtrlService` it is. The steps of `cchan_in` that receive a request are
`Start`, `RefuseStart`, `Stop`, `GoDown` and `Ignore`; the mode is read off the
shared record, which `CommandInv` ties to the command `cchan_in` decides by.
`Answer` is `cchan_out`'s send. Passing a response on, from `cchan_in` to the
channel or from there to `cchan_out`, leaves the line `OnTheWay` as it is. An
interrupted call is a `Fault`, which takes at most the first or the last of the
line (`LoseFirst`, `LoseLast`). Two steps lose responses without a fault, the end
of `cchan_out` (`LoseQueue`) and a send into a channel whose end is gone
(`LoseOnly`), and `EndInv` shows that both come after a shutdown: they are `Drop`.
Calling NxCore is `BeginPlayback`; that the tape it finds in a buffer is one that
some request named, or was there from the start, is `BufferInv`.

**The command line.** What `cmd_parse` computes is a recursion over the
arguments. The induction is over a natural number and is made by the least
counterexample (`UpTo`, from `WFMin` of the library), which needs no theorem with
an operator as its parameter. It shows that the recursion has a value
(`ParsesExists`) and that after each argument, for any arguments, a channel has
its bit set exactly if one was taken for it, and then the value of the last one
(`cmd_parseGives`, where `Takes` is the test of the characters). What is taken
for a channel is the channel's own option and no other of the usage
(`TakesWhatCounts`); `OptionsInv` ties this to the server that runs or has exited.

**Client.** `RequestsAccounted` is preserved by itself, given that
`WorkerCtrlOut` holds one request from `take()` to the end of `send()` and none
before (`HandInv`). For `NothingAfterShutdown`, `LastInv` adds that
`WorkerCtrlOut` never goes on with its loop once it has sent SHUTDOWN. For the
processors, `ProcessorInv` adds that ids are positions in `accepted` and that the
call under way has the next one, and `EndInv` how `WorkerCtrlOut` can have ended:
after it sent a SHUTDOWN, or because `client.shutdown()` had reached it. That it
cannot end otherwise needs that `_running` is cleared and the channel closed under
it only by `client.shutdown()`, which does not turn back (`OutShutdownStays`). A
request not sent is then with a live worker, or behind the SHUTDOWN that was sent.

**Assumptions.** The theorems about the server use `PathsAssumption` (files and
directories are buffer contents; the empty path, the absent path and the path
that does not exist are different from them and the latter two from each other),
`RequestsAssumption`, `EnvironmentAssumption` (command lines are sequences of
any arguments with a value; the options of the usage have their own characters),
`BoundsAssumption` and `EmptyTapeAssumption`. The bounds
only have to be natural numbers.

**Only model-checked.** Liveness: `UpdatesReachReaders` of `LazyState`, the
properties of `server_live`, and `AcceptedIsSent`, `ShutdownRequestEndsWorkers`
and `ShutdownReleasesWorkers` of `Client`; the provers do not handle fairness and
`ENABLED`. Every invariant and every refinement that a passing run checks is
proved.

## 6. Not modelled

* Of the Java client: `processResponse` and `setDefaultResponseProcessor`, which
  are never reached (no response is received), and its command line, which
  commons-cli parses. A ZeroMQ socket closed by one thread while another uses it
  is not safe in ZeroMQ; the model takes the close to come before or after the
  use. Request ids are nanosecond times, taken to differ.
* Arguments without "=": `cmd_parse_opt` then looks beyond the argument.
* Message contents and encodings beyond what is listed; paths are assumed to
  fit the 1024-byte buffers, whose length the code does not check.
* Slow or absent subscribers of the PUB sockets: sending to them never blocks in
  ZeroMQ, and whether a subscriber gets a message is not the server's doing. (A
  response sent before a client has connected is dropped.)
* `g_market_sync_cond`: it is signalled and nobody waits on it. The market thread
  spins when stopped and sleeps when nothing was started.
* The market data buffer that is not freed, logging, the linux stubs.

## 7. Plan

1. done: `WCtrl`, `SharedCtrl`, `LazyState`, the server, their runs, the theorems
   above.
2. done: `CtrlService` and the refinement, `CmdLine`, `Client`.
3. done: proofs of all invariants that the runs check and of both refinements.
4. Order and meaning of the responses as a theorem of `CtrlService` itself, so
   that it can be read without the server.
