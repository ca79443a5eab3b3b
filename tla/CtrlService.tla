----------------------------- MODULE CtrlService -----------------------------
(***************************************************************************)
(* What the control protocol of Wineing promises its clients, without      *)
(* threads, channels or copies of a shared record: a request is judged     *)
(* when it arrives, by the mode the service is in; its response is owed    *)
(* from then on; responses go out in the order in which they became due;   *)
(* the service plays the tape of the start it runs for.                    *)
(*                                                                         *)
(* Two things may cost a client its response: a fault loses at most one,   *)
(* and a service that goes down may drop responses it still owes.          *)
(***************************************************************************)
EXTENDS Naturals, Sequences

CONSTANTS
  Requests,       \* what the clients may send
  Paths,          \* paths that exist
  NoPath,         \* a request without a tape
  InitialBuffers  \* what is played if no request has named a tape yet

VARIABLES
  reqs,     \* the requests received, in order
  mode,     \* "idle", "running" or "down"
  tape,     \* running: the tape of the accepted start, or NoPath
  owed,     \* responses decided and not yet sent, in order
  answers,  \* responses sent, in order
  playing,  \* the tape that is being played, as a set of at most one
  faults    \* calls that failed

vars == <<reqs, mode, tape, owed, answers, playing, faults>>

Init ==
  /\ reqs = <<>>
  /\ mode = "idle"
  /\ tape = NoPath
  /\ owed = <<>>
  /\ answers = <<>>
  /\ playing = {}
  /\ faults = 0

------------------------------------------------------------------------------
(* Requests                                                                *)

\* The next request is r, and its response is of the given type.
Owe(r, type) ==
  /\ reqs' = Append(reqs, r)
  /\ owed' = Append(owed, [id |-> Len(reqs) + 1, type |-> type])
  /\ UNCHANGED <<answers, playing, faults>>

Playable(r) == r.tape \in Paths \cup {NoPath}

Start(r) ==
  /\ r.type = "MARKET_START"
  /\ mode = "idle"
  /\ Playable(r)
  /\ Owe(r, "MARKET_START_OK")
  /\ mode' = "running"
  /\ tape' = r.tape

RefuseStart(r) ==
  /\ r.type = "MARKET_START"
  /\ \/ mode = "running" /\ Owe(r, "MARKET_START_ERR_RUNNING")
     \/ mode = "idle" /\ ~Playable(r) /\ Owe(r, "ERR")
  /\ UNCHANGED <<mode, tape>>

Stop(r) ==
  /\ r.type = "MARKET_STOP"
  /\ mode # "down"
  /\ Owe(r, "MARKET_STOP_OK")
  /\ mode' = "idle"
  /\ tape' = NoPath

GoDown(r) ==
  /\ r.type = "SHUTDOWN"
  /\ mode # "down"
  /\ Owe(r, "SHUTDOWN_OK")
  /\ mode' = "down"
  /\ tape' = NoPath

\* A request that cannot be read gets no response.
Ignore(r) ==
  /\ r.type = "UNPARSABLE"
  /\ mode # "down"
  /\ reqs' = Append(reqs, r)
  /\ UNCHANGED <<mode, tape, owed, answers, playing, faults>>

------------------------------------------------------------------------------
(* Responses                                                               *)

Answer ==
  /\ owed # <<>>
  /\ answers' = Append(answers, Head(owed))
  /\ owed' = Tail(owed)
  /\ UNCHANGED <<reqs, mode, tape, playing, faults>>

\* The responses that are owed, without the i-th up to the j-th.
OwedWithout(i, j) == SubSeq(owed, 1, i - 1) \o SubSeq(owed, j + 1, Len(owed))

Fault ==
  /\ faults' = faults + 1
  /\ owed' \in {owed} \cup {OwedWithout(i, i) : i \in 1..Len(owed)}
  /\ UNCHANGED <<reqs, mode, tape, answers, playing>>

Drop ==
  /\ mode = "down"
  /\ \E i \in 1..Len(owed) : \E j \in i..Len(owed) : owed' = OwedWithout(i, j)
  /\ UNCHANGED <<reqs, mode, tape, answers, playing, faults>>

------------------------------------------------------------------------------
(* Playback                                                                *)

\* The tapes that a start without one may find in the buffers.
Remembered == InitialBuffers \cup (Paths \cap {reqs[i].tape : i \in 1..Len(reqs)})

BeginPlayback ==
  /\ mode = "running"
  /\ playing = {}
  /\ \E t \in IF tape = NoPath THEN Remembered ELSE {tape} : playing' = {t}
  /\ UNCHANGED <<reqs, mode, tape, owed, answers, faults>>

EndPlayback ==
  /\ playing # {}
  /\ playing' = {}
  /\ UNCHANGED <<reqs, mode, tape, owed, answers, faults>>

------------------------------------------------------------------------------

Next ==
  \/ \E r \in Requests :
       Start(r) \/ RefuseStart(r) \/ Stop(r) \/ GoDown(r) \/ Ignore(r)
  \/ Answer \/ Fault \/ Drop
  \/ BeginPlayback \/ EndPlayback

Spec == Init /\ [][Next]_vars
==============================================================================
