--------------------------------- MODULE HidQueue ---------------------------------
(***************************************************************************)
(* What a hid_device promises who reads it: its input reports in the order *)
(* they came, each one once, only the oldest ones missing when more than   *)
(* Capacity of them were waiting; errors, on Linux, when none is left.     *)
(***************************************************************************)
EXTENDS Integers, Sequences

CONSTANTS
  Capacity,    (* reports that wait at most                                   *)
  ErrorsLast   (* whether an error is for an empty queue only                 *)

VARIABLES
  waiting,   (* the reports that wait, oldest first                           *)
  came,      (* reports that came so far; they are numbered 1, 2, ...         *)
  result     (* of the last read: a report, 0 for none, -1 for an error       *)

vars == <<waiting, came, result>>

Init == waiting = <<>> /\ came = 0 /\ result = 0

Come ==
  /\ came' = came + 1
  /\ waiting' = Append(IF Len(waiting) < Capacity THEN waiting ELSE Tail(waiting), came + 1)
  /\ UNCHANGED result

Read ==
  /\ waiting # <<>>
  /\ result' = Head(waiting) /\ waiting' = Tail(waiting)
  /\ UNCHANGED came

(* nothing came in time                                                      *)
TimeOut == result' = 0 /\ UNCHANGED <<waiting, came>>

Fail == (ErrorsLast => waiting = <<>>) /\ result' = -1 /\ UNCHANGED <<waiting, came>>

Close == waiting' = <<>> /\ UNCHANGED <<came, result>>

Next == Come \/ Read \/ TimeOut \/ Fail \/ Close

Spec == Init /\ [][Next]_vars
================================================================================
