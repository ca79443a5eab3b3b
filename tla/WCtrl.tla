-------------------------------- MODULE WCtrl --------------------------------
(***************************************************************************)
(* The control record w_ctrl that the threads of Wineing share             *)
(* (inc/core/wineing.h): a command, a data buffer that holds the path of   *)
(* the tape to play, and the number of bytes of the buffer that are in     *)
(* use.  Paths are opaque values; of the size only "zero or not" matters.  *)
(***************************************************************************)
EXTENDS Integers

CONSTANTS Tapes,     \* the contents a data buffer may have
          EmptyTape  \* the empty string: NxCore then streams real-time data

ASSUME EmptyTapeAssumption == EmptyTape \in Tapes

CMD_INIT        == 4
CMD_MARKET_RUN  == 3
CMD_MARKET_STOP == 2
CMD_MARKET_INIT == 1
CMD_SHUTDOWN    == 0

Ctrl == [cmd: CMD_SHUTDOWN..CMD_INIT, size: {0, 1}, data: Tapes]

\* The value of every w_ctrl at start-up; the buffer comes from new char[],
\* so its content d is whatever the memory held.
InitialCtrl(d) == [cmd |-> CMD_INIT, size |-> 0, data |-> d]

\* Mutant of CopyCtrl: the size test looks at the destination.
CopyCtrlDstSize(dst, src) ==
  [cmd  |-> src.cmd,
   size |-> src.size,
   data |-> IF 0 < dst.size THEN src.data ELSE dst.data]

\* _copy_local_to_shared and _copy_shared_to_local: cmd and size are always
\* copied, the buffer only when the source says it is in use.
CopyCtrl(dst, src) ==
  [cmd  |-> src.cmd,
   size |-> src.size,
   data |-> IF 0 < src.size THEN src.data ELSE dst.data]

\* Two records that agree on everything a reader may use.
SameCtrl(a, b) ==
  /\ a.cmd = b.cmd
  /\ a.size = b.size
  /\ 0 < a.size => a.data = b.data
==============================================================================
