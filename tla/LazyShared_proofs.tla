-------------------------- MODULE LazyShared_proofs --------------------------
(***************************************************************************)
(* Proof that, with one writer, LazyState implements SharedCtrl: what      *)
(* conc.cc does step by step looks to its callers like publishing and      *)
(* copying the record at once.  It is this that lets the model of the      *)
(* server use the two operations of SharedCtrl.                            *)
(***************************************************************************)
EXTENDS LazyState_proofs

View == [r \in Readers |-> LocalView(r)]
Seen == [r \in Readers |-> t_version[r]]

\* The record of the abstract specification is the last one published.
LEMMA CurrentIsLast ==
  ASSUME SingleWriter, SharedInv
  PROVE  Current = history[Len(history)]
<1>1. CASE \A w \in Writers : pc[w] \notin Copying
  BY <1>1 DEF Current, SharedInv
<1>2. ASSUME NEW w \in Writers, pc[w] \in Copying
      PROVE  Current = history[Len(history)]
  <2>1. (CHOOSE u \in Writers : pc[u] \in Copying) = w
    BY <1>2, SingleWriter DEF SingleWriter
  <2> QED BY <1>2, <2>1 DEF Current, SharedInv
<1> QED BY <1>1, <1>2

\* The same of the state after a step.
LEMMA CurrentIsLastNext ==
  ASSUME SingleWriter, SharedInv'
  PROVE  Current' = history'[Len(history')]
<1>1. CASE \A w \in Writers : pc'[w] \notin Copying
  BY <1>1 DEF Current, SharedInv
<1>2. ASSUME NEW w \in Writers, pc'[w] \in Copying
      PROVE  Current' = history'[Len(history')]
  <2>1. (CHOOSE u \in Writers : pc'[u] \in Copying) = w
    BY <1>2, SingleWriter DEF SingleWriter
  <2> QED BY <1>2, <2>1 DEF Current, SharedInv
<1> QED BY <1>1, <1>2

\* The start states of conc.cc are start states of the abstract record.
LEMMA InitShared == Init => Shared!Init
<1> SUFFICES ASSUME Init PROVE Shared!Init
  OBVIOUS
<1>1. g_version = 0 /\ Seen = [r \in Readers |-> -1]
  BY ThreadsAssumption DEF Init, Seen, Threads
<1>2. Current = g_data
  BY DEF Init, Current, Threads, Copying
<1>3. \E d \in Tapes : g_data = Shared!InitialCtrl(d)
  BY DEF Init, InitialCtrl, Shared!InitialCtrl, CMD_INIT, Shared!CMD_INIT
<1>4. \E d \in [Readers -> Tapes] : View = [r \in Readers |-> Shared!InitialCtrl(d[r])]
  <2>1. PICK d \in [Threads -> Tapes] : t_data = [t \in Threads |-> InitialCtrl(d[t])]
    BY DEF Init
  <2>2. [r \in Readers |-> d[r]] \in [Readers -> Tapes]
    BY <2>1 DEF Threads
  <2>3. \A r \in Readers : LocalView(r) = InitialCtrl(d[r])
    BY <2>1 DEF Init, LocalView, Threads, Copying
  <2>4. View = [r \in Readers |-> Shared!InitialCtrl([q \in Readers |-> d[q]][r])]
    BY <2>3 DEF View, InitialCtrl, Shared!InitialCtrl, CMD_INIT, Shared!CMD_INIT
  <2> QED BY <2>2, <2>4
<1> QED BY <1>1, <1>2, <1>3, <1>4 DEF Shared!Init, Seen, View

\* Raising the version publishes the writer's record.
LEMMA PublishStep ==
  ASSUME SingleWriter, IInv, IInv', NEW w \in Writers, GlobalVersion(w)
  PROVE  \E v \in Shared!Ctrl : Shared!Publish(v)
<1> USE ThreadsAssumption DEF IInv, CopyInv, TypeInv, TypeOK, Threads, Step
<1>1. t_data[w] \in Shared!Ctrl
  BY DEF Ctrl, Shared!Ctrl, CMD_INIT, Shared!CMD_INIT, CMD_SHUTDOWN, Shared!CMD_SHUTDOWN
<1>2. g_version' = g_version + 1
  BY DEF GlobalVersion, OwnerInv
<1>3. \A t \in Threads : pc[t] \in Copying => FALSE
  BY MutualExclusion DEF GlobalVersion, Critical, Copying
<1>4. Current = g_data
  BY <1>3 DEF Current
<1>5. Current' = CopyCtrl(g_data, t_data[w])
  <2>1. CopyCtrl(g_data, t_data[w]) \in Ctrl
    BY CopyCtrlType
  <2>2. history'[Len(history')] = CopyCtrl(g_data, t_data[w])
    BY <2>1 DEF GlobalVersion
  <2>3. Current' = history'[Len(history')]
    BY CurrentIsLastNext
  <2> QED BY <2>2, <2>3
<1>6. Seen' = Seen /\ View' = View
  BY DEF GlobalVersion, Seen, View, LocalView, Copying
<1>7. Shared!Publish(t_data[w])
  BY <1>2, <1>4, <1>5, <1>6
     DEF Shared!Publish, CopyCtrl, Shared!CopyCtrl, Seen, View
<1> QED BY <1>1, <1>7

\* Reading the version under the lock takes the copy.
LEMMA RefreshStep ==
  ASSUME SingleWriter, IInv, IInv', NEW r \in Readers, LocalVersion(r)
  PROVE  Shared!Refresh(r)
<1> USE ThreadsAssumption DEF IInv, CopyInv, TypeInv, TypeOK, Threads, Step
<1>1. \A t \in Threads : pc[t] \notin Copying
  BY MutualExclusion DEF LocalVersion, Critical, Copying
<1>2. Current = g_data
  BY <1>1 DEF Current
<1>3. Current' = Current
  BY CurrentIsLast, CurrentIsLastNext DEF LocalVersion
<1>4. Seen' = [Seen EXCEPT ![r] = g_version]
  BY DEF LocalVersion, Seen
<1>5. View' = [View EXCEPT ![r] = CopyCtrl(t_data[r], g_data)]
  BY <1>1 DEF LocalVersion, View, LocalView, Copying
<1>6. View[r] = t_data[r]
  BY <1>1 DEF View, LocalView
<1>7. View' = [View EXCEPT ![r] = Shared!CopyCtrl(View[r], Current)]
  BY <1>2, <1>5, <1>6 DEF CopyCtrl, Shared!CopyCtrl
<1> QED BY <1>3, <1>4, <1>7 DEF Shared!Refresh, Seen, View, LocalVersion

\* Copying one field does not show.
LEMMA CopyToLocalStutters ==
  ASSUME IInv, NEW r \in Readers, CopyToLocal(r)
  PROVE  View' = View
<1> USE ThreadsAssumption DEF IInv, CopyInv, TypeInv, TypeOK, Threads
<1>1. /\ pc[r] \in Copying
      /\ t_data' = [t_data EXCEPT ![r] = CopyField(t_data[r], g_data, pc[r])]
      /\ pc' = [pc EXCEPT ![r] = NextCopy[pc[r]]]
      /\ g_data' = g_data
  BY DEF CopyToLocal
<1>2. CopyCtrl(t_data'[r], g_data) = CopyCtrl(t_data[r], g_data)
  BY <1>1, CopyFieldKeepsCopy
<1>3. pc[r] = "copy_data" => t_data'[r] = CopyCtrl(t_data[r], g_data)
  BY <1>1, CopyFieldLast DEF ReaderInv
<1>4. pc[r] # "copy_data" => pc'[r] \in Copying
  BY <1>1 DEF NextCopy, Copying
<1>5. pc[r] = "copy_data" => pc'[r] = "unlock"
  BY <1>1 DEF NextCopy, Copying
<1>6. LocalView(r)' = LocalView(r)
  BY <1>1, <1>2, <1>3, <1>4, <1>5 DEF LocalView, Copying
<1>7. \A q \in Readers : q # r => LocalView(q)' = LocalView(q)
  BY <1>1 DEF LocalView
<1> QED BY <1>6, <1>7 DEF View

\* Every step of conc.cc publishes, refreshes, or does not show.
LEMMA NextShared ==
  ASSUME SingleWriter, IInv, IInv', [Next]_vars
  PROVE  [Shared!Next]_(Shared!sharedVars)
<1> USE ThreadsAssumption DEF IInv, CopyInv, TypeInv, TypeOK, Threads, Step
<1> DEFINE Stutters == UNCHANGED <<g_version, Current, Seen, View>>
<1>0. history' = history => Current' = Current
  BY CurrentIsLast, CurrentIsLastNext
<1>1. ASSUME NEW w \in Writers, NEW v \in Values,
             UpdateGlobalOwner(w, v) \/ UpdateGlobalNotOwner(w, v)
      PROVE  Stutters
  BY <1>0, <1>1
     DEF UpdateGlobalOwner, UpdateGlobalNotOwner, Seen, View, LocalView, Copying
<1>2. ASSUME NEW w \in Writers, ReturnVersion(w) PROVE Stutters
  BY <1>0, <1>2 DEF ReturnVersion, Seen, View, LocalView, Copying
<1>3. ASSUME NEW w \in Writers, GlobalLock(w) PROVE Stutters
  BY <1>0, <1>3 DEF GlobalLock, Lock, Seen, View, LocalView, Copying
<1>4. ASSUME NEW w \in Writers, GlobalVersion(w) PROVE Shared!Next
  BY <1>4, PublishStep DEF Shared!Next
<1>5. ASSUME NEW w \in Writers, CopyToShared(w) PROVE Stutters
  <2>1. \A r \in Readers : pc[r] \notin Copying
    BY <1>5, MutualExclusion DEF CopyToShared, Critical
  <2> QED BY <1>0, <1>5, <2>1 DEF CopyToShared, Seen, View, LocalView
<1>6. ASSUME NEW t \in Threads, Unlock(t) PROVE Stutters
  BY <1>0, <1>6 DEF Unlock, Seen, View, LocalView, Copying
<1>7. ASSUME NEW r \in Readers, UpdateLocalSame(r) PROVE Stutters
  BY <1>0, <1>7 DEF UpdateLocalSame, vars, Seen, View, LocalView
<1>8. ASSUME NEW r \in Readers, UpdateLocalChanged(r) PROVE Stutters
  BY <1>0, <1>8 DEF UpdateLocalChanged, Seen, View, LocalView, Copying
<1>9. ASSUME NEW r \in Readers, LocalLock(r) PROVE Stutters
  BY <1>0, <1>9 DEF LocalLock, Lock, Seen, View, LocalView, Copying
<1>10. ASSUME NEW r \in Readers, LocalVersion(r) PROVE Shared!Next
  BY <1>10, RefreshStep DEF Shared!Next
<1>11. ASSUME NEW r \in Readers, CopyToLocal(r) PROVE Stutters
  BY <1>0, <1>11, CopyToLocalStutters DEF CopyToLocal, Seen
<1>12. ASSUME UNCHANGED vars PROVE Stutters
  BY <1>0, <1>12 DEF vars, Seen, View, LocalView
<1>13. Shared!Next \/ Stutters
  <2> HIDE DEF Stutters
  <2> QED
    BY <1>1, <1>2, <1>3, <1>4, <1>5, <1>6, <1>7, <1>8, <1>9, <1>10, <1>11, <1>12
       DEF Next, WriterNext, WriterFinish, ReaderNext
<1> QED BY <1>13 DEF Shared!sharedVars, Seen, View

\* With one writer, conc.cc implements SharedCtrl: callers see a record that is
\* published as a whole and copied as a whole.
THEOREM LazyImplementsShared ==
  ASSUME SingleWriter
  PROVE  Spec => ImplementsShared
<1>1. Init => Shared!Init
  BY InitShared
<1>2. IInv /\ IInv' /\ [Next]_vars => [Shared!Next]_(Shared!sharedVars)
  BY NextShared
<1>3. Spec => []IInv
  BY LazyIInv
<1> QED
  BY <1>1, <1>2, <1>3, PTL DEF Spec, ImplementsShared, Shared!Spec
==============================================================================
