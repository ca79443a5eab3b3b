--------------------------- MODULE LazyState_proofs ---------------------------
(***************************************************************************)
(* Proofs about LazyState for any number of readers, any records and any   *)
(* bound on the number of updates.  The invariant rests on three facts:    *)
(* the lock has one holder; the single writer's version is always the      *)
(* shared one; and inside the critical section the fields that have been   *)
(* copied agree with the source of the copy.                               *)
(***************************************************************************)
EXTENDS LazyState, TLAPS

\* Wineing's situation: only cchan_in publishes.
SingleWriter == \A v, w \in Writers : v = w

------------------------------------------------------------------------------
(* The invariant that holds for any number of writers                      *)

\* Versions of writers come from g_version and only grow.
TypeInv == TypeOK /\ \A w \in Writers : t_version[w] \in Nat

Critical == {"g_version", "l_version", "unlock"} \cup Copying

LockInv == \A t \in Threads : pc[t] \in Critical <=> g_lock = t

\* dst has taken over the fields of src that precede the copy step.
CopiedUpTo(dst, src, step) ==
  /\ step \in {"copy_size", "copy_data"} => dst.cmd = src.cmd
  /\ step = "copy_data" => dst.size = src.size

\* The shared record is the last one published, up to the copy under way.
SharedInv ==
  /\ Len(history) > 0
  /\ (\A w \in Writers : pc[w] \notin Copying) => g_data = history[Len(history)]
  /\ \A w \in Writers :
       pc[w] \in Copying =>
         /\ CopyCtrl(g_data, t_data[w]) = history[Len(history)]
         /\ CopiedUpTo(g_data, t_data[w], pc[w])

\* A reader's copy is that of the shared record, up to the copy under way, and
\* between two calls it is some record that was published.
BetweenCopies == {"idle", "l_lock", "l_version"}

ReaderInv ==
  \A r \in Readers :
    /\ pc[r] \in Copying => CopiedUpTo(t_data[r], g_data, pc[r])
    /\ pc[r] = "unlock" => SameCtrl(t_data[r], g_data)
    /\ pc[r] \in BetweenCopies /\ t_version[r] >= 0 =>
         \E i \in 1..Len(history) : SameCtrl(t_data[r], history[i])

CopyInv == TypeInv /\ LockInv /\ SharedInv /\ ReaderInv

------------------------------------------------------------------------------
(* What a single writer adds                                               *)

OwnerInv == \A w \in Writers : t_version[w] = g_version

\* Versions number the records published, and a reader's version is the number
\* of the record it holds.
VersionInv ==
  /\ Len(history) = g_version + 1
  /\ \A r \in Readers :
       /\ t_version[r] \in -1..g_version
       /\ pc[r] \in Copying \cup {"unlock"} => t_version[r] = g_version
       /\ pc[r] \in BetweenCopies /\ t_version[r] >= 0 =>
            SameCtrl(t_data[r], history[t_version[r] + 1])

IInv == CopyInv /\ OwnerInv /\ VersionInv

------------------------------------------------------------------------------
(* The copy functions                                                      *)

\* _copy_local_to_shared and _copy_shared_to_local yield a control record.
LEMMA CopyCtrlType ==
  ASSUME NEW dst \in Ctrl, NEW src \in Ctrl
  PROVE  CopyCtrl(dst, src) \in Ctrl
BY DEF CopyCtrl, Ctrl

\* One statement of a copy function keeps the destination a control record.
LEMMA CopyFieldType ==
  ASSUME NEW dst \in Ctrl, NEW src \in Ctrl, NEW step \in Copying
  PROVE  CopyField(dst, src, step) \in Ctrl
BY DEF CopyField, CopyCtrl, Ctrl, Copying

\* The steps of a copy, in their order.
LEMMA NextCopyIs ==
  /\ NextCopy["copy_cmd"] = "copy_size"
  /\ NextCopy["copy_size"] = "copy_data"
  /\ NextCopy["copy_data"] = "unlock"
BY DEF NextCopy

\* A statement of a copy function does not change what the whole copy yields.
LEMMA CopyFieldKeepsCopy ==
  ASSUME NEW dst \in Ctrl, NEW src \in Ctrl, NEW step \in Copying
  PROVE  CopyCtrl(CopyField(dst, src, step), src) = CopyCtrl(dst, src)
BY DEF CopyField, CopyCtrl, Ctrl, Copying

\* A statement of a copy function extends what has been copied.
LEMMA CopyFieldProgress ==
  ASSUME NEW dst \in Ctrl, NEW src \in Ctrl, NEW step \in Copying,
         CopiedUpTo(dst, src, step)
  PROVE  CopiedUpTo(CopyField(dst, src, step), src, NextCopy[step])
BY DEF CopyField, CopyCtrl, Ctrl, Copying, NextCopy, CopiedUpTo

\* After the last statement the copy is complete.
LEMMA CopyFieldLast ==
  ASSUME NEW dst \in Ctrl, NEW src \in Ctrl, CopiedUpTo(dst, src, "copy_data")
  PROVE  CopyField(dst, src, "copy_data") = CopyCtrl(dst, src)
BY DEF CopyField, CopyCtrl, Ctrl, CopiedUpTo

\* A complete copy agrees with its source on what a reader may use.
LEMMA CopyCtrlSame ==
  ASSUME NEW dst \in Ctrl, NEW src \in Ctrl
  PROVE  SameCtrl(CopyCtrl(dst, src), src)
BY DEF SameCtrl, CopyCtrl, Ctrl

------------------------------------------------------------------------------
(* Types                                                                   *)

\* The start state of conc.cc and of the threads has its types.
LEMMA InitTypeInv == Init => TypeInv
BY EmptyTapeAssumption, MaxUpdatesAssumption, ThreadsAssumption
   DEF Init, TypeInv, TypeOK, InitialCtrl, Ctrl, Threads, WriterPc, ReaderPc, Copying,
       CMD_INIT, CMD_SHUTDOWN

\* Every step of a call keeps the types.
LEMMA NextTypeInv == TypeInv /\ [Next]_vars => TypeInv'
<1> SUFFICES ASSUME TypeInv, [Next]_vars PROVE TypeInv'
  OBVIOUS
<1> USE ThreadsAssumption DEF TypeInv, TypeOK, Threads, WriterPc, ReaderPc, Step
<1>1. ASSUME NEW w \in Writers, NEW v \in Values, 
             UpdateGlobalOwner(w, v) \/ UpdateGlobalNotOwner(w, v)
      PROVE  TypeInv'
  <2>1. CopyCtrl(t_data[w], v) \in Ctrl
    BY CopyCtrlType, ValuesAssumption
  <2>2. updates' \in 0..MaxUpdates
    BY <1>1, MaxUpdatesAssumption DEF UpdateGlobalOwner, UpdateGlobalNotOwner
  <2> QED BY <1>1, <2>1, <2>2 DEF UpdateGlobalOwner, UpdateGlobalNotOwner
<1>2. ASSUME NEW w \in Writers, ReturnVersion(w) PROVE TypeInv'
  BY <1>2 DEF ReturnVersion
<1>3. ASSUME NEW w \in Writers, GlobalLock(w) PROVE TypeInv'
  BY <1>3 DEF GlobalLock, Lock
<1>4. ASSUME NEW w \in Writers, GlobalVersion(w) PROVE TypeInv'
  <2>1. CopyCtrl(g_data, t_data[w]) \in Ctrl
    BY CopyCtrlType
  <2> QED BY <1>4, <2>1 DEF GlobalVersion, Copying
<1>5. ASSUME NEW w \in Writers, CopyToShared(w) PROVE TypeInv'
  <2>1. CopyField(g_data, t_data[w], pc[w]) \in Ctrl
    BY <1>5, CopyFieldType DEF CopyToShared
  <2>2. NextCopy[pc[w]] \in Copying \cup {"unlock"}
    BY <1>5 DEF CopyToShared, NextCopy, Copying
  <2> QED BY <1>5, <2>1, <2>2 DEF CopyToShared
<1>6. ASSUME NEW t \in Threads, Unlock(t) PROVE TypeInv'
  BY <1>6 DEF Unlock
<1>7. ASSUME NEW r \in Readers, UpdateLocalSame(r) PROVE TypeInv'
  BY <1>7 DEF UpdateLocalSame, vars
<1>8. ASSUME NEW r \in Readers, UpdateLocalChanged(r) PROVE TypeInv'
  BY <1>8 DEF UpdateLocalChanged
<1>9. ASSUME NEW r \in Readers, LocalLock(r) PROVE TypeInv'
  BY <1>9 DEF LocalLock, Lock
<1>10. ASSUME NEW r \in Readers, LocalVersion(r) PROVE TypeInv'
  BY <1>10 DEF LocalVersion, Copying
<1>11. ASSUME NEW r \in Readers, CopyToLocal(r) PROVE TypeInv'
  <2>1. CopyField(t_data[r], g_data, pc[r]) \in Ctrl
    BY <1>11, CopyFieldType DEF CopyToLocal
  <2>2. NextCopy[pc[r]] \in Copying \cup {"unlock"}
    BY <1>11 DEF CopyToLocal, NextCopy, Copying
  <2> QED BY <1>11, <2>1, <2>2 DEF CopyToLocal
<1>12. CASE UNCHANGED vars
  BY <1>12 DEF vars
<1> QED
  BY <1>1, <1>2, <1>3, <1>4, <1>5, <1>6, <1>7, <1>8, <1>9, <1>10, <1>11, <1>12
     DEF Next, WriterNext, WriterFinish, ReaderNext

\* The types of conc.cc's state hold throughout, for any number of threads.
THEOREM LazyTypeOK == Spec => []TypeOK
<1>1. TypeInv => TypeOK
  BY DEF TypeInv
<1> QED
  BY <1>1, InitTypeInv, NextTypeInv, PTL DEF Spec

------------------------------------------------------------------------------
(* The lock                                                                *)

\* g_lock belongs to the thread in the critical section and to no other.
LEMMA NextLockInv == TypeInv /\ LockInv /\ [Next]_vars => LockInv'
<1> SUFFICES ASSUME TypeInv, LockInv, [Next]_vars PROVE LockInv'
  OBVIOUS
<1> USE ThreadsAssumption
    DEF TypeInv, TypeOK, Threads, WriterPc, ReaderPc, Step, LockInv, Critical
<1>1. ASSUME NEW w \in Writers, NEW v \in Values,
             UpdateGlobalOwner(w, v) \/ UpdateGlobalNotOwner(w, v)
      PROVE  LockInv'
  BY <1>1 DEF UpdateGlobalOwner, UpdateGlobalNotOwner, Copying
<1>2. ASSUME NEW w \in Writers, ReturnVersion(w) PROVE LockInv'
  BY <1>2 DEF ReturnVersion, Copying
<1>3. ASSUME NEW w \in Writers, GlobalLock(w) PROVE LockInv'
  BY <1>3 DEF GlobalLock, Lock, Copying
<1>4. ASSUME NEW w \in Writers, GlobalVersion(w) PROVE LockInv'
  BY <1>4 DEF GlobalVersion, Copying
<1>5. ASSUME NEW w \in Writers, CopyToShared(w) PROVE LockInv'
  <2>1. NextCopy[pc[w]] \in Critical
    BY <1>5 DEF CopyToShared, NextCopy, Copying
  <2> QED BY <1>5, <2>1 DEF CopyToShared
<1>6. ASSUME NEW t \in Threads, Unlock(t) PROVE LockInv'
  BY <1>6 DEF Unlock, Copying
<1>7. ASSUME NEW r \in Readers, UpdateLocalSame(r) PROVE LockInv'
  BY <1>7 DEF UpdateLocalSame, vars
<1>8. ASSUME NEW r \in Readers, UpdateLocalChanged(r) PROVE LockInv'
  BY <1>8 DEF UpdateLocalChanged, Copying
<1>9. ASSUME NEW r \in Readers, LocalLock(r) PROVE LockInv'
  BY <1>9 DEF LocalLock, Lock, Copying
<1>10. ASSUME NEW r \in Readers, LocalVersion(r) PROVE LockInv'
  BY <1>10 DEF LocalVersion, Copying
<1>11. ASSUME NEW r \in Readers, CopyToLocal(r) PROVE LockInv'
  <2>1. NextCopy[pc[r]] \in Critical
    BY <1>11 DEF CopyToLocal, NextCopy, Copying
  <2> QED BY <1>11, <2>1 DEF CopyToLocal
<1>12. CASE UNCHANGED vars
  BY <1>12 DEF vars
<1> QED
  BY <1>1, <1>2, <1>3, <1>4, <1>5, <1>6, <1>7, <1>8, <1>9, <1>10, <1>11, <1>12
     DEF Next, WriterNext, WriterFinish, ReaderNext

\* Two threads are never in the critical section together.
LEMMA MutualExclusion ==
  ASSUME LockInv, NEW s \in Threads, NEW t \in Threads,
         pc[s] \in Critical, pc[t] \in Critical
  PROVE  s = t
BY DEF LockInv

------------------------------------------------------------------------------
(* The shared record                                                       *)

\* A writer that copies finds the shared record as its last step left it.
LEMMA NextSharedInv == TypeInv /\ LockInv /\ SharedInv /\ [Next]_vars => SharedInv'
<1> SUFFICES ASSUME TypeInv, LockInv, SharedInv, [Next]_vars PROVE SharedInv'
  OBVIOUS
<1> USE ThreadsAssumption DEF TypeInv, TypeOK, Threads, Step, SharedInv
<1>1. ASSUME NEW w \in Writers, NEW v \in Values,
             UpdateGlobalOwner(w, v) \/ UpdateGlobalNotOwner(w, v)
      PROVE  SharedInv'
  BY <1>1 DEF UpdateGlobalOwner, UpdateGlobalNotOwner, Copying
<1>2. ASSUME NEW w \in Writers, ReturnVersion(w) PROVE SharedInv'
  BY <1>2 DEF ReturnVersion, Copying
<1>3. ASSUME NEW w \in Writers, GlobalLock(w) PROVE SharedInv'
  BY <1>3 DEF GlobalLock, Lock, Copying
<1>4. ASSUME NEW w \in Writers, GlobalVersion(w) PROVE SharedInv'
  <2>1. \A u \in Writers : u # w => pc[u] \notin Copying
    BY <1>4, MutualExclusion DEF GlobalVersion, Critical
  <2>2. CopyCtrl(g_data, t_data[w]) \in Ctrl
    BY CopyCtrlType
  <2>3. /\ Len(history') = Len(history) + 1
        /\ history'[Len(history')] = CopyCtrl(g_data, t_data[w])
    BY <1>4, <2>2 DEF GlobalVersion
  <2> QED BY <1>4, <2>1, <2>3 DEF GlobalVersion, Copying, CopiedUpTo
<1>5. ASSUME NEW w \in Writers, CopyToShared(w) PROVE SharedInv'
  <2>1. \A u \in Writers : u # w => pc[u] \notin Copying
    BY <1>5, MutualExclusion DEF CopyToShared, Critical
  <2>2. g_data' = CopyField(g_data, t_data[w], pc[w]) /\ pc[w] \in Copying
    BY <1>5 DEF CopyToShared
  <2>3. CopyCtrl(g_data', t_data[w]) = history[Len(history)]
    BY <2>2, CopyFieldKeepsCopy
  <2>4. CopiedUpTo(g_data', t_data[w], NextCopy[pc[w]])
    BY <2>2, CopyFieldProgress
  <2>5. pc[w] = "copy_data" => g_data' = history[Len(history)]
    BY <2>2, CopyFieldLast
  <2>6. pc[w] # "copy_data" => NextCopy[pc[w]] \in Copying
    BY <2>2 DEF NextCopy, Copying
  <2> QED BY <1>5, <2>1, <2>3, <2>4, <2>5, <2>6 DEF CopyToShared
<1>6. ASSUME NEW t \in Threads, Unlock(t) PROVE SharedInv'
  BY <1>6 DEF Unlock, Copying
<1>7. ASSUME NEW r \in Readers, UpdateLocalSame(r) PROVE SharedInv'
  BY <1>7 DEF UpdateLocalSame, vars
<1>8. ASSUME NEW r \in Readers, UpdateLocalChanged(r) PROVE SharedInv'
  BY <1>8 DEF UpdateLocalChanged
<1>9. ASSUME NEW r \in Readers, LocalLock(r) PROVE SharedInv'
  BY <1>9 DEF LocalLock, Lock
<1>10. ASSUME NEW r \in Readers, LocalVersion(r) PROVE SharedInv'
  BY <1>10 DEF LocalVersion
<1>11. ASSUME NEW r \in Readers, CopyToLocal(r) PROVE SharedInv'
  BY <1>11 DEF CopyToLocal
<1>12. CASE UNCHANGED vars
  BY <1>12 DEF vars
<1> QED
  BY <1>1, <1>2, <1>3, <1>4, <1>5, <1>6, <1>7, <1>8, <1>9, <1>10, <1>11, <1>12
     DEF Next, WriterNext, WriterFinish, ReaderNext

------------------------------------------------------------------------------
(* The readers' copies                                                     *)

\* A record once published stays in the history.
LEMMA HistoryGrows ==
  ASSUME TypeInv, [Next]_vars
  PROVE  /\ Len(history') >= Len(history)
         /\ \A i \in 1..Len(history) : history'[i] = history[i]
<1>1. ASSUME NEW w \in Writers, GlobalVersion(w)
      PROVE  /\ Len(history') >= Len(history)
             /\ \A i \in 1..Len(history) : history'[i] = history[i]
  <2>1. CopyCtrl(g_data, t_data[w]) \in Ctrl
    BY CopyCtrlType DEF TypeInv, TypeOK, Threads
  <2> QED BY <1>1, <2>1 DEF GlobalVersion, TypeInv, TypeOK
<1>2. CASE UNCHANGED history
  BY <1>2 DEF TypeInv, TypeOK
<1> QED
  BY <1>1, <1>2
     DEF Next, WriterNext, WriterFinish, ReaderNext, UpdateGlobalOwner,
         UpdateGlobalNotOwner, ReturnVersion, GlobalLock, LocalLock, Lock, CopyToShared,
         Unlock, UpdateLocalSame, UpdateLocalChanged, LocalVersion, CopyToLocal, vars

\* While a reader copies nobody changes the shared record, and when it is done
\* its record agrees with the last one published.
LEMMA NextReaderInv == CopyInv /\ [Next]_vars => ReaderInv'
<1> SUFFICES ASSUME TypeInv, LockInv, SharedInv, ReaderInv, [Next]_vars PROVE ReaderInv'
  BY DEF CopyInv
<1> DEFINE Published(d) == \E i \in 1..Len(history) : SameCtrl(d, history[i])
<1>0. \A d : Published(d) => Published(d)'
  BY HistoryGrows DEF TypeInv, TypeOK
<1> USE ThreadsAssumption DEF TypeInv, TypeOK, Threads, Step, ReaderInv, BetweenCopies
<1>1. ASSUME NEW w \in Writers, NEW v \in Values,
             UpdateGlobalOwner(w, v) \/ UpdateGlobalNotOwner(w, v)
      PROVE  ReaderInv'
  BY <1>1 DEF UpdateGlobalOwner, UpdateGlobalNotOwner
<1>2. ASSUME NEW w \in Writers, ReturnVersion(w) PROVE ReaderInv'
  BY <1>2 DEF ReturnVersion
<1>3. ASSUME NEW w \in Writers, GlobalLock(w) PROVE ReaderInv'
  BY <1>3 DEF GlobalLock, Lock
<1>4. ASSUME NEW w \in Writers, GlobalVersion(w) PROVE ReaderInv'
  <2>1. \A r \in Readers : /\ pc'[r] = pc[r]
                           /\ t_data'[r] = t_data[r]
                           /\ t_version'[r] = t_version[r]
    BY <1>4 DEF GlobalVersion
  <2>2. g_data' = g_data
    BY <1>4 DEF GlobalVersion
  <2> HIDE DEF Published
  <2>3. \A r \in Readers : pc[r] \in BetweenCopies /\ t_version[r] >= 0 => Published(t_data[r])
    BY DEF Published
  <2>4. \A r \in Readers : pc[r] \in BetweenCopies /\ t_version[r] >= 0 => Published(t_data[r])'
    BY <1>0, <2>1, <2>3 DEF Published
  <2> QED BY <2>1, <2>2, <2>4 DEF Published
<1>5. ASSUME NEW w \in Writers, CopyToShared(w) PROVE ReaderInv'
  <2>1. \A r \in Readers : pc[r] \notin Copying \cup {"unlock"}
    BY <1>5, MutualExclusion DEF CopyToShared, Critical
  <2> QED BY <1>5, <2>1 DEF CopyToShared, Copying
<1>6. ASSUME NEW t \in Threads, Unlock(t) PROVE ReaderInv'
  <2>1. ASSUME t \in Readers PROVE Published(t_data[t])
    <3>1. \A w \in Writers : pc[w] \notin Copying
      BY <1>6, <2>1, MutualExclusion DEF Unlock, Critical, Copying
    <3>2. g_data = history[Len(history)] /\ Len(history) \in 1..Len(history)
      BY <3>1 DEF SharedInv
    <3>3. SameCtrl(t_data[t], g_data)
      BY <1>6, <2>1 DEF Unlock
    <3> QED BY <3>2, <3>3
  <2> QED BY <1>6, <2>1 DEF Unlock, Copying
<1>7. ASSUME NEW r \in Readers, UpdateLocalSame(r) PROVE ReaderInv'
  BY <1>7 DEF UpdateLocalSame, vars
<1>8. ASSUME NEW r \in Readers, UpdateLocalChanged(r) PROVE ReaderInv'
  BY <1>8 DEF UpdateLocalChanged, Copying
<1>9. ASSUME NEW r \in Readers, LocalLock(r) PROVE ReaderInv'
  BY <1>9 DEF LocalLock, Lock, Copying
<1>10. ASSUME NEW r \in Readers, LocalVersion(r) PROVE ReaderInv'
  BY <1>10 DEF LocalVersion, Copying, CopiedUpTo
<1>11. ASSUME NEW r \in Readers, CopyToLocal(r) PROVE ReaderInv'
  <2>1. pc[r] \in Copying /\ t_data'[r] = CopyField(t_data[r], g_data, pc[r])
    BY <1>11 DEF CopyToLocal
  <2>2. CopiedUpTo(t_data'[r], g_data, NextCopy[pc[r]])
    BY <2>1, CopyFieldProgress
  <2>3. pc[r] = "copy_data" => SameCtrl(t_data'[r], g_data)
    BY <2>1, CopyFieldLast, CopyCtrlSame
  <2>4. /\ NextCopy[pc[r]] \in Copying \cup {"unlock"}
        /\ NextCopy[pc[r]] = "unlock" => pc[r] = "copy_data"
    BY <2>1 DEF NextCopy, Copying
  <2> QED BY <1>11, <2>2, <2>3, <2>4 DEF CopyToLocal, Copying
<1>12. CASE UNCHANGED vars
  BY <1>12 DEF vars
<1> QED
  BY <1>1, <1>2, <1>3, <1>4, <1>5, <1>6, <1>7, <1>8, <1>9, <1>10, <1>11, <1>12
     DEF Next, WriterNext, WriterFinish, ReaderNext

\* CopyInv holds at the start and is inductive.
LEMMA InitCopyInv == Init => CopyInv
<1> SUFFICES ASSUME Init PROVE CopyInv
  OBVIOUS
<1>1. TypeInv
  BY InitTypeInv
<1>2. LockInv
  BY ThreadsAssumption DEF Init, LockInv, Critical, Copying, Threads
<1>3. SharedInv
  BY DEF Init, SharedInv, Copying, Threads
<1>4. ReaderInv
  BY ThreadsAssumption DEF Init, ReaderInv, Copying, Threads
<1> QED BY <1>1, <1>2, <1>3, <1>4 DEF CopyInv

\* Every step of a call keeps CopyInv.
LEMMA NextCopyInv == CopyInv /\ [Next]_vars => CopyInv'
BY NextTypeInv, NextLockInv, NextSharedInv, NextReaderInv DEF CopyInv

\* Any number of writers: a reader never keeps a mix of two records.
THEOREM NoTornReads == Spec => []NoTornRead
<1>1. CopyInv => NoTornRead
  BY DEF CopyInv, ReaderInv, NoTornRead, BetweenCopies
<1> QED
  BY <1>1, InitCopyInv, NextCopyInv, PTL DEF Spec

------------------------------------------------------------------------------
(* One writer                                                              *)

\* The only writer always holds the shared version.
LEMMA NextOwnerInv ==
  ASSUME SingleWriter
  PROVE  TypeInv /\ OwnerInv /\ [Next]_vars => OwnerInv'
<1> SUFFICES ASSUME TypeInv, OwnerInv, [Next]_vars PROVE OwnerInv'
  OBVIOUS
<1> USE ThreadsAssumption DEF TypeInv, TypeOK, Threads, OwnerInv
<1>1. ASSUME NEW w \in Writers, GlobalVersion(w) PROVE OwnerInv'
  BY <1>1, SingleWriter DEF GlobalVersion, SingleWriter
<1>2. ASSUME NEW w \in Writers, ReturnVersion(w) PROVE OwnerInv'
  BY <1>2 DEF ReturnVersion
<1>3. ASSUME NEW r \in Readers, LocalVersion(r) PROVE OwnerInv'
  BY <1>3 DEF LocalVersion
<1>4. CASE UNCHANGED <<g_version, t_version>>
  BY <1>4
<1> QED
  BY <1>1, <1>2, <1>3, <1>4
     DEF Next, WriterNext, WriterFinish, ReaderNext, UpdateGlobalOwner,
         UpdateGlobalNotOwner, GlobalLock, LocalLock, Lock, CopyToShared, Unlock,
         UpdateLocalSame, UpdateLocalChanged, CopyToLocal, vars

\* Versions keep naming records: raising the version appends the record it
\* names, and a reader takes version and record in one critical section.
LEMMA NextVersionInv ==
  ASSUME SingleWriter
  PROVE  IInv /\ [Next]_vars => VersionInv'
<1> SUFFICES ASSUME IInv, [Next]_vars PROVE VersionInv'
  OBVIOUS
<1>0. TypeInv /\ LockInv /\ SharedInv /\ ReaderInv /\ OwnerInv /\ VersionInv
  BY DEF IInv, CopyInv
<1> USE <1>0, ThreadsAssumption
    DEF TypeInv, TypeOK, Threads, Step, VersionInv, BetweenCopies
<1>1. ASSUME NEW w \in Writers, NEW v \in Values,
             UpdateGlobalOwner(w, v) \/ UpdateGlobalNotOwner(w, v)
      PROVE  VersionInv'
  BY <1>1 DEF UpdateGlobalOwner, UpdateGlobalNotOwner
<1>2. ASSUME NEW w \in Writers, ReturnVersion(w) PROVE VersionInv'
  BY <1>2 DEF ReturnVersion
<1>3. ASSUME NEW w \in Writers, GlobalLock(w) PROVE VersionInv'
  BY <1>3 DEF GlobalLock, Lock
<1>4. ASSUME NEW w \in Writers, GlobalVersion(w) PROVE VersionInv'
  <2>1. \A r \in Readers : pc[r] \notin Copying \cup {"unlock"}
    BY <1>4, MutualExclusion DEF GlobalVersion, Critical
  <2>2. /\ g_version' = g_version + 1
        /\ \A r \in Readers : /\ pc'[r] = pc[r]
                              /\ t_data'[r] = t_data[r]
                              /\ t_version'[r] = t_version[r]
    BY <1>4 DEF GlobalVersion, OwnerInv
  <2>3. /\ Len(history') = Len(history) + 1
        /\ \A i \in 1..Len(history) : history'[i] = history[i]
    <3>1. CopyCtrl(g_data, t_data[w]) \in Ctrl
      BY CopyCtrlType
    <3> QED BY <1>4, <3>1 DEF GlobalVersion
  <2>4. ASSUME NEW r \in Readers, t_version[r] >= 0
        PROVE  history'[t_version[r] + 1] = history[t_version[r] + 1]
    BY <2>3, <2>4
  <2> QED BY <2>1, <2>2, <2>3, <2>4
<1>5. ASSUME NEW w \in Writers, CopyToShared(w) PROVE VersionInv'
  BY <1>5 DEF CopyToShared
<1>6. ASSUME NEW t \in Threads, Unlock(t) PROVE VersionInv'
  <2>1. ASSUME t \in Readers
        PROVE  SameCtrl(t_data[t], history[t_version[t] + 1])
    <3>1. \A w \in Writers : pc[w] \notin Copying
      BY <1>6, <2>1, MutualExclusion DEF Unlock, Critical, Copying
    <3>2. g_data = history[g_version + 1]
      BY <3>1 DEF SharedInv
    <3>3. SameCtrl(t_data[t], g_data) /\ t_version[t] = g_version
      BY <1>6, <2>1 DEF Unlock, ReaderInv
    <3> QED BY <3>2, <3>3
  <2> QED BY <1>6, <2>1 DEF Unlock, Copying
<1>7. ASSUME NEW r \in Readers, UpdateLocalSame(r) PROVE VersionInv'
  BY <1>7 DEF UpdateLocalSame, vars
<1>8. ASSUME NEW r \in Readers, UpdateLocalChanged(r) PROVE VersionInv'
  BY <1>8 DEF UpdateLocalChanged, Copying
<1>9. ASSUME NEW r \in Readers, LocalLock(r) PROVE VersionInv'
  BY <1>9 DEF LocalLock, Lock, Copying
<1>10. ASSUME NEW r \in Readers, LocalVersion(r) PROVE VersionInv'
  BY <1>10 DEF LocalVersion, Copying
<1>11. ASSUME NEW r \in Readers, CopyToLocal(r) PROVE VersionInv'
  <2>1. NextCopy[pc[r]] \in Copying \cup {"unlock"}
    BY <1>11 DEF CopyToLocal, NextCopy, Copying
  <2> QED BY <1>11, <2>1 DEF CopyToLocal, Copying
<1>12. CASE UNCHANGED vars
  BY <1>12 DEF vars
<1> QED
  BY <1>1, <1>2, <1>3, <1>4, <1>5, <1>6, <1>7, <1>8, <1>9, <1>10, <1>11, <1>12
     DEF Next, WriterNext, WriterFinish, ReaderNext

\* IInv holds at the start.
LEMMA InitIInv == Init => IInv
<1> SUFFICES ASSUME Init PROVE IInv
  OBVIOUS
<1>1. CopyInv
  BY InitCopyInv
<1>2. OwnerInv
  BY DEF Init, OwnerInv, Threads
<1>3. VersionInv
  BY ThreadsAssumption DEF Init, VersionInv, Threads, Copying
<1> QED BY <1>1, <1>2, <1>3 DEF IInv

\* Every step of a call keeps IInv.
LEMMA NextIInv ==
  ASSUME SingleWriter
  PROVE  IInv /\ [Next]_vars => IInv'
BY NextCopyInv, NextOwnerInv, NextVersionInv DEF IInv, CopyInv

\* With one writer IInv holds throughout.
LEMMA LazyIInv ==
  ASSUME SingleWriter
  PROVE  Spec => []IInv
BY InitIInv, NextIInv, PTL DEF Spec

\* With one writer, the version a reader keeps names the record it keeps: the
\* unlocked compare of lazy_update_local_if_changed is sound.
THEOREM VersionsNameRecords ==
  ASSUME SingleWriter
  PROVE  Spec => []VersionNamesRecord
<1>1. IInv => VersionNamesRecord
  BY DEF IInv, CopyInv, VersionInv, VersionNamesRecord, BetweenCopies, TypeInv, TypeOK,
         Threads
<1> QED
  BY <1>1, LazyIInv, PTL

\* With one writer, a record is only published by the thread that holds the
\* shared version; LazyOwner.cfg shows that two writers break this.
THEOREM OnlyOwnerUpdates ==
  ASSUME SingleWriter
  PROVE  Spec => UpdatesOnlyIfOwner
<1>1. IInv => \A w \in Writers : GlobalVersion(w) => t_version[w] = g_version
  BY DEF IInv, OwnerInv
<1>2. IInv /\ [Next]_vars =>
        [\A w \in Writers : GlobalVersion(w) => t_version[w] = g_version]_vars
  BY <1>1
<1> QED
  BY <1>2, LazyIInv, PTL DEF Spec, UpdatesOnlyIfOwner
==============================================================================
