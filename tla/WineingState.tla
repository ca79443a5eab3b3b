----------------------------- MODULE WineingState -----------------------------
(***************************************************************************)
(* The state that the threads of wineing.cc share, and the operations of   *)
(* net/chan.cc on it.  The threads are in CchanIn, CchanOut and Market;    *)
(* Wineing puts them together.                                             *)
(*                                                                         *)
(* The shared control record is that of SharedCtrl: one step publishes it, *)
(* one step copies it.  LazyState shows that conc.cc provides this.        *)
(* ZeroMQ 2.2 is external; what the code relies on is modelled:            *)
(*  - a socket stays open until it is closed, and zmq_term waits for every *)
(*    socket of the context to be closed;                                  *)
(*  - connecting to an inproc endpoint that nobody has bound fails;        *)
(*  - PUSH blocks while it has no peer; messages queued for a PULL socket  *)
(*    are gone when that socket is closed;                                 *)
(*  - a call can fail because a signal interrupted it.                     *)
(***************************************************************************)
EXTENDS WCtrl, CmdLine

CONSTANTS
  Requests,       \* what the client may send
  NoPath,         \* tape_file is absent from a request
  Files, Dirs,    \* paths of tape files and of directories; others do not exist
  InitialBuffers, \* what new char[] may return: contents of the data buffers
  BindMayFail,    \* endpoints whose bind may fail
  NxLibs,         \* what may become of loading the NxCore library
  CommandLines,   \* the command lines the program may be started with
  MaxRequests,    \* bound: requests received
  MaxRetries,     \* bound: failed attempts of a thread to connect to inproc
  MaxInterrupts   \* bound: ZMQ calls that a signal interrupts

Thread == {"cchan_in", "cchan_out", "market"}
Reader == {"cchan_out", "market", "nxtape"}
Path   == Files \cup Dirs

Request ==
  [type: {"MARKET_START", "MARKET_STOP", "SHUTDOWN", "UNPARSABLE"},
   tape: Path \cup {NoPath, "no such file"}]

ResponseType ==
  {"MARKET_START_OK", "MARKET_STOP_OK", "SHUTDOWN_OK", "ERR",
   "MARKET_START_ERR_RUNNING"}

Response == [id: 1..MaxRequests, type: ResponseType]
NoResponse == [id |-> 0, type |-> "none"]

ASSUME PathsAssumption ==
  /\ Path \subseteq Tapes
  /\ EmptyTape \notin Path
  /\ NoPath \notin Path
  /\ "no such file" \notin Path
  /\ NoPath # "no such file"
  /\ InitialBuffers \subseteq Tapes

ASSUME RequestsAssumption == Requests \subseteq Request

ASSUME EnvironmentAssumption ==
  /\ BindMayFail \subseteq Thread \cup {"inproc"}
  /\ NxLibs \subseteq {"loaded", "no dll", "no function"}
  /\ \A line \in CommandLines :
       line \in Seq(Argument) /\ \A i \in 1..Len(line) : Spelled(line[i])

ASSUME BoundsAssumption ==
  /\ MaxRequests \in Nat
  /\ MaxRetries \in Nat
  /\ MaxInterrupts \in Nat

VARIABLES
  mainPc, pc,     \* where main and the threads are
  sockets,        \* per thread: the sockets it opened and has not closed
  failed,         \* per thread: its failed attempts to connect to inproc
  inproc,         \* the PULL end of inproc://ctrl.out, owned by cchan_out
  pipe,           \* the pipe from cchan_in's PUSH socket to that end
  inq,            \* responses in that pipe
  res,            \* the Response cchan_in is about to send
  held,           \* the Response cchan_out has received and not yet sent
  published,      \* Responses sent on cchan_out, in order
  in_data,        \* cchan_in's t_data
  g_version, g_data,   \* the shared record and its version
  t_version, t_data,   \* the readers' copies
  argv,           \* the command line
  nxlib,          \* the outcome of loading NxCore
  nxTape,         \* the tape argument of the running NxCoreProcessTape
  tail,           \* ghost: market data sent since streaming was last stopped
  reqs,           \* ghost: requests received, in order
  interrupts      \* ZMQ calls interrupted so far

chanVars   == <<sockets, failed, inproc, pipe>>
msgVars    == <<inq, res, held, published>>
sharedVars == <<g_version, g_data, t_version, t_data>>
envVars    == <<argv, nxlib>>
nxVars     == <<envVars, nxTape>>
ghostVars  == <<tail, reqs>>
vars == <<mainPc, pc, chanVars, msgVars, in_data, sharedVars, nxVars, ghostVars,
          interrupts>>

Shared == INSTANCE SharedCtrl
  WITH Readers <- Reader, ver <- g_version, cur <- g_data,
       seen <- t_version, view <- t_data

\* What reader r will hold once it has refreshed its copy.
Refreshed(r) == CopyCtrl(t_data[r], g_data)

Publish(d) ==
  /\ Shared!Publish(d)
  /\ tail' = IF d.cmd < CMD_MARKET_RUN THEN tail ELSE 0

Goto(t, from, to) == pc[t] = from /\ pc' = [pc EXCEPT ![t] = to]

Interrupt == interrupts < MaxInterrupts /\ interrupts' = interrupts + 1

------------------------------------------------------------------------------
(* net/chan.cc                                                             *)

\* zmq_socket
OpenSocket(t) == sockets' = [sockets EXCEPT ![t] = @ + 1]

\* chan_init and chan_bind on a TCP endpoint.  A thread whose bind fails
\* returns at once and does not close the socket.
BindOrReturn(t, next) ==
  /\ OpenSocket(t)
  /\ \/ Goto(t, "bind", next)
     \/ t \in BindMayFail /\ Goto(t, "bind", "failed")
  /\ UNCHANGED <<failed, inproc, pipe>>

\* Mutant of ConnectInproc: the result of chan_bind is not looked at.
ConnectInprocOnce(t, next) ==
  /\ OpenSocket(t)
  /\ Goto(t, "connect", next)
  /\ UNCHANGED failed

\* One turn of "while(0 > chan_bind(cchan_out_inmem)) sleep(1)".  chan_bind
\* opens a new socket each time; the socket of a failed attempt is forgotten.
ConnectInproc(t, next) ==
  /\ OpenSocket(t)
  /\ \/ /\ inproc = "bound"
        /\ Goto(t, "connect", next)
        /\ UNCHANGED failed
     \/ /\ inproc # "bound"
        /\ failed[t] < MaxRetries
        /\ Goto(t, "connect", "connect")
        /\ failed' = [failed EXCEPT ![t] = @ + 1]

\* Mutant of DestroyChannels: the second chan_destroy is missing.
DestroyOneChannel(t) ==
  /\ Goto(t, "destroy", "done")
  /\ sockets' = [sockets EXCEPT ![t] = @ - 1]
  /\ UNCHANGED failed

\* Mutant of DestroyChannels: the sockets are closed twice.
DestroyTwice(t) ==
  /\ Goto(t, "destroy", "done")
  /\ sockets' = [sockets EXCEPT ![t] = @ - 4]
  /\ UNCHANGED failed

\* chan_destroy of the two channels of a thread that ends normally.
DestroyChannels(t) ==
  /\ Goto(t, "destroy", "done")
  /\ sockets' = [sockets EXCEPT ![t] = @ - 2]
  /\ UNCHANGED failed
==============================================================================
