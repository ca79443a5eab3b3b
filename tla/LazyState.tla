------------------------------ MODULE LazyState ------------------------------
(***************************************************************************)
(* The versioned shared state of impl/all/conc/conc.cc, one action per     *)
(* access to shared memory, with the copy functions that wineing.h passes  *)
(* to it.  g_version is compared without the lock; the compare is one      *)
(* aligned load, so it yields the old or the new value.  Everything else   *)
(* happens under g_lock.  A writer is a thread that calls                  *)
(* lazy_update_global_if_owner, a reader one that calls                    *)
(* lazy_update_local_if_changed.  Wineing has a single writer, the         *)
(* cchan_in thread; the library does not ask for that.                     *)
(***************************************************************************)
EXTENDS WCtrl, Sequences

CONSTANTS Writers, Readers,
          Values,      \* the records that callers publish
          NoThread,    \* g_lock is free
          MaxUpdates   \* bound: how many updates are begun

ASSUME ThreadsAssumption ==
  /\ Writers \cap Readers = {}
  /\ NoThread \notin Writers \cup Readers

ASSUME ValuesAssumption == Values \subseteq Ctrl

ASSUME MaxUpdatesAssumption == MaxUpdates \in Nat

Threads == Writers \cup Readers

VARIABLES g_version, g_data, g_lock,
          t_version,   \* thread local version of each thread
          t_data,      \* thread local record of each thread
          pc,
          history,     \* ghost: the records published, in order
          updates      \* number of updates begun, for MaxUpdates

vars == <<g_version, g_data, g_lock, t_version, t_data, pc, history, updates>>

Copying == {"copy_cmd", "copy_size", "copy_data"}
WriterPc == {"idle", "g_lock", "g_return", "g_version", "unlock"} \cup Copying
ReaderPc == {"idle", "l_lock", "l_version", "unlock"} \cup Copying

Step(t, from, to) == pc[t] = from /\ pc' = [pc EXCEPT ![t] = to]

\* lazy_init(0), and the static t_version of the threads: 0 for the writer
\* (DEFAULTS_SHARED_VERSION_INIT), -1 for readers (..._READ_INIT).
Init ==
  /\ g_version = 0
  /\ \E d \in Tapes : g_data = InitialCtrl(d)
  /\ g_lock = NoThread
  /\ t_version = [t \in Threads |-> IF t \in Writers THEN 0 ELSE -1]
  /\ \E d \in [Threads -> Tapes] : t_data = [t \in Threads |-> InitialCtrl(d[t])]
  /\ pc = [t \in Threads |-> "idle"]
  /\ history = <<g_data>>
  /\ updates = 0

------------------------------------------------------------------------------
(* lazy_update_global_if_owner                                             *)

\* The caller fills its record with v and calls; the unlocked compare finds
\* that it owns the current version.
UpdateGlobalOwner(w, v) ==
  /\ updates < MaxUpdates
  /\ t_version[w] = g_version
  /\ Step(w, "idle", "g_lock")
  /\ t_data' = [t_data EXCEPT ![w] = CopyCtrl(@, v)]
  /\ updates' = updates + 1
  /\ UNCHANGED <<g_version, g_data, g_lock, t_version, history>>

\* The compare fails: nothing is published.
UpdateGlobalNotOwner(w, v) ==
  /\ updates < MaxUpdates
  /\ t_version[w] # g_version
  /\ Step(w, "idle", "g_return")
  /\ t_data' = [t_data EXCEPT ![w] = CopyCtrl(@, v)]
  /\ updates' = updates + 1
  /\ UNCHANGED <<g_version, g_data, g_lock, t_version, history>>

\* The version is loaded once more and returned; the caller stores it.
ReturnVersion(w) ==
  /\ Step(w, "g_return", "idle")
  /\ t_version' = [t_version EXCEPT ![w] = g_version]
  /\ UNCHANGED <<g_version, g_data, g_lock, t_data, history, updates>>

\* Mutant of GlobalVersion: --t_version.
GlobalVersionDown(w) ==
  /\ Step(w, "g_version", "copy_cmd")
  /\ t_version' = [t_version EXCEPT ![w] = @ - 1]
  /\ g_version' = t_version'[w]
  /\ history' = Append(history, CopyCtrl(g_data, t_data[w]))
  /\ UNCHANGED <<g_data, g_lock, t_data, updates>>

GlobalVersion(w) ==
  /\ Step(w, "g_version", "copy_cmd")
  /\ t_version' = [t_version EXCEPT ![w] = @ + 1]
  /\ g_version' = t_version'[w]
  /\ history' = Append(history, CopyCtrl(g_data, t_data[w]))
  /\ UNCHANGED <<g_data, g_lock, t_data, updates>>

------------------------------------------------------------------------------
(* lazy_update_local_if_changed                                            *)

\* The unlocked compare finds the reader's own version: the call returns.
UpdateLocalSame(r) ==
  /\ pc[r] = "idle"
  /\ t_version[r] = g_version
  /\ UNCHANGED vars

\* Mutant of UpdateLocalChanged: the version is only looked at the first time.
UpdateLocalOnce(r) ==
  /\ t_version[r] = -1
  /\ Step(r, "idle", "l_lock")
  /\ UNCHANGED <<g_version, g_data, g_lock, t_version, t_data, history, updates>>

\* The unlocked compare finds another version.
UpdateLocalChanged(r) ==
  /\ t_version[r] # g_version
  /\ Step(r, "idle", "l_lock")
  /\ UNCHANGED <<g_version, g_data, g_lock, t_version, t_data, history, updates>>

\* Mutant of LocalVersion: the reader counts updates instead of reading g_version.
LocalVersionCounted(r) ==
  /\ Step(r, "l_version", "copy_cmd")
  /\ t_version' = [t_version EXCEPT ![r] = @ + 1]
  /\ UNCHANGED <<g_version, g_data, g_lock, t_data, history, updates>>

LocalVersion(r) ==
  /\ Step(r, "l_version", "copy_cmd")
  /\ t_version' = [t_version EXCEPT ![r] = g_version]
  /\ UNCHANGED <<g_version, g_data, g_lock, t_data, history, updates>>

------------------------------------------------------------------------------
(* The critical section of both                                            *)

Lock(t, from, to) ==
  /\ g_lock = NoThread
  /\ g_lock' = t
  /\ Step(t, from, to)
  /\ UNCHANGED <<g_version, g_data, t_version, t_data, history, updates>>

\* Mutants of GlobalLock and LocalLock: the lock is not taken.
GlobalLockSkipped(w) ==
  /\ Step(w, "g_lock", "g_version")
  /\ UNCHANGED <<g_version, g_data, g_lock, t_version, t_data, history, updates>>
LocalLockSkipped(r) ==
  /\ Step(r, "l_lock", "l_version")
  /\ UNCHANGED <<g_version, g_data, g_lock, t_version, t_data, history, updates>>

GlobalLock(w) == Lock(w, "g_lock", "g_version")
LocalLock(r)  == Lock(r, "l_lock", "l_version")

\* One field of the copy function, in the order of its statements.
CopyField(dst, src, step) ==
  [cmd  |-> IF step = "copy_cmd" THEN src.cmd ELSE dst.cmd,
   size |-> IF step = "copy_size" THEN src.size ELSE dst.size,
   data |-> IF step = "copy_data" THEN CopyCtrl(dst, src).data ELSE dst.data]

NextCopy == [copy_cmd |-> "copy_size", copy_size |-> "copy_data", copy_data |-> "unlock"]

CopyToShared(w) ==
  /\ pc[w] \in Copying
  /\ pc' = [pc EXCEPT ![w] = NextCopy[@]]
  /\ g_data' = CopyField(g_data, t_data[w], pc[w])
  /\ UNCHANGED <<g_version, g_lock, t_version, t_data, history, updates>>

CopyToLocal(r) ==
  /\ pc[r] \in Copying
  /\ pc' = [pc EXCEPT ![r] = NextCopy[@]]
  /\ t_data' = [t_data EXCEPT ![r] = CopyField(@, g_data, pc[r])]
  /\ UNCHANGED <<g_version, g_data, g_lock, t_version, history, updates>>

Unlock(t) ==
  /\ Step(t, "unlock", "idle")
  /\ g_lock' = NoThread
  /\ UNCHANGED <<g_version, g_data, t_version, t_data, history, updates>>

------------------------------------------------------------------------------

\* What a writer that is inside a call does next.
WriterFinish(w) ==
  \/ ReturnVersion(w)
  \/ GlobalLock(w) \/ GlobalVersion(w) \/ CopyToShared(w) \/ Unlock(w)

WriterNext(w) ==
  \/ \E v \in Values : UpdateGlobalOwner(w, v)
  \/ \E v \in Values : UpdateGlobalNotOwner(w, v)
  \/ WriterFinish(w)

ReaderNext(r) ==
  \/ UpdateLocalSame(r)
  \/ UpdateLocalChanged(r)
  \/ LocalLock(r) \/ LocalVersion(r) \/ CopyToLocal(r) \/ Unlock(r)

Next == (\E w \in Writers : WriterNext(w)) \/ (\E r \in Readers : ReaderNext(r))

Spec == Init /\ [][Next]_vars

\* A thread inside a call is scheduled and gets through it, and readers keep
\* polling.  Nobody has to begin an update.
Fairness ==
  /\ \A w \in Writers : WF_vars(WriterFinish(w))
  /\ \A r \in Readers : WF_vars(ReaderNext(r))

FairSpec == Spec /\ Fairness

------------------------------------------------------------------------------
(* Properties                                                              *)

\* Types of the state of conc.cc and of the records of wineing.h.
TypeOK ==
  /\ g_version \in Nat
  /\ g_data \in Ctrl
  /\ g_lock \in Threads \cup {NoThread}
  /\ t_version \in [Threads -> Int]
  /\ t_data \in [Threads -> Ctrl]
  /\ pc \in [Threads -> WriterPc \cup ReaderPc]
  /\ \A w \in Writers : pc[w] \in WriterPc
  /\ \A r \in Readers : pc[r] \in ReaderPc
  /\ history \in Seq(Ctrl)
  /\ updates \in 0..MaxUpdates

\* Any number of writers: once lazy_update_local_if_changed has returned, the
\* reader's record is one that some writer published as a whole, never a mix
\* of two of them.
NoTornRead ==
  \A r \in Readers :
    pc[r] = "idle" /\ t_version[r] >= 0 =>
      \E i \in 1..Len(history) : SameCtrl(t_data[r], history[i])

\* One writer: the version a reader keeps names exactly the record it keeps.
\* This is what makes the unlocked compare of lazy_update_local_if_changed
\* sound: a version found equal means that the local record is the latest.
VersionNamesRecord ==
  \A r \in Readers :
    pc[r] = "idle" /\ t_version[r] >= 0 =>
      /\ t_version[r] < Len(history)
      /\ SameCtrl(t_data[r], history[t_version[r] + 1])

\* lazy_update_global_if_owner updates "only if both, the shared and the
\* thread local versions match" (conc.h): a step that publishes follows a
\* state in which the publisher's version is the shared one.
UpdatesOnlyIfOwner ==
  [][\A w \in Writers :
       GlobalVersion(w) => t_version[w] = g_version]_vars

\* A record once published reaches every reader that keeps polling, or a
\* later one does.
UpdatesReachReaders ==
  \A r \in Readers : \A v \in 1..MaxUpdates :
    g_version >= v ~> t_version[r] >= v

------------------------------------------------------------------------------
(* conc.cc implements SharedCtrl.  A record is published at the step that  *)
(* raises g_version, and a reader takes its copy at the step that reads    *)
(* g_version under the lock; the fields that are still to be copied at     *)
(* that moment are those the copy will move while the lock is held.        *)

Current ==
  IF \E w \in Writers : pc[w] \in Copying
  THEN CopyCtrl(g_data, t_data[CHOOSE w \in Writers : pc[w] \in Copying])
  ELSE g_data

LocalView(r) ==
  IF pc[r] \in Copying THEN CopyCtrl(t_data[r], g_data) ELSE t_data[r]

Shared == INSTANCE SharedCtrl
  WITH ver  <- g_version,
       cur  <- Current,
       seen <- [r \in Readers |-> t_version[r]],
       view <- [r \in Readers |-> LocalView(r)]

\* With one writer, the fine-grained lock and copy steps of conc.cc are
\* indistinguishable from publishing and copying the record in one step.
ImplementsShared == Shared!Spec
==============================================================================
