------------------------------ MODULE SharedCtrl ------------------------------
(***************************************************************************)
(* What conc.h promises the threads of Wineing, without the mechanism: one *)
(* versioned control record that is replaced as a whole and copied as a    *)
(* whole.  LazyState (the code of conc.cc) is shown to implement this      *)
(* specification, and the threads of Wineing use its two operations.       *)
(***************************************************************************)
EXTENDS WCtrl

CONSTANTS Readers

VARIABLES ver,   \* number of times the record was published
          cur,   \* the record
          seen,  \* for each reader, the version of its copy; -1 before any
          view   \* for each reader, its copy

sharedVars == <<ver, cur, seen, view>>

Init ==
  /\ ver = 0
  /\ \E d \in Tapes : cur = InitialCtrl(d)
  /\ seen = [r \in Readers |-> -1]
  /\ \E d \in [Readers -> Tapes] : view = [r \in Readers |-> InitialCtrl(d[r])]

\* lazy_update_global_if_owner, called by the owner with local record v.
Publish(v) ==
  /\ ver' = ver + 1
  /\ cur' = CopyCtrl(cur, v)
  /\ UNCHANGED <<seen, view>>

\* lazy_update_local_if_changed, called by r.
Refresh(r) ==
  /\ seen' = [seen EXCEPT ![r] = ver]
  /\ view' = [view EXCEPT ![r] = CopyCtrl(@, cur)]
  /\ UNCHANGED <<ver, cur>>

Next == (\E v \in Ctrl : Publish(v)) \/ (\E r \in Readers : Refresh(r))

Spec == Init /\ [][Next]_sharedVars
==============================================================================
