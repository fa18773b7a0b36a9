----------------------------- MODULE LedOperations -----------------------------
(***************************************************************************)
(* struct LedOperation (include/led-server-thread.h): what process_request *)
(* hands to the LED thread.  A name is all the LED thread looks at.        *)
(***************************************************************************)
EXTENDS Integers

CONSTANTS
  AlertNames,   (* alert names clients send (non-empty strings)              *)
  MoodNames,    (* moodlight names clients send, "default" among them        *)
  MaxOps        (* bound: calls of PushOperation in one behaviour            *)

(* the empty std::string: no alert, no moodlight                            *)
NoName == ""

ASSUME NamesAssumption == NoName \notin AlertNames /\ NoName \notin MoodNames
ASSUME MaxOpsAssumption == MaxOps \in Nat

(* the (opcode, param) pairs process_request calls PushOperation with        *)
Requests ==
       [opcode : {"SET_LEDS_OFF"},  param : {NoName}]
  \cup [opcode : {"SET_ALERT"},     param : AlertNames \cup {NoName}]
  \cup [opcode : {"SET_MOODLIGHT"}, param : MoodNames \cup {NoName}]

(* a queued LedOperation; id numbers the accepted calls, 1, 2, ...           *)
Operations ==
       [id : 1..MaxOps, opcode : {"SET_LEDS_OFF"},  param : {NoName}]
  \cup [id : 1..MaxOps, opcode : {"SET_ALERT"},     param : AlertNames \cup {NoName}]
  \cup [id : 1..MaxOps, opcode : {"SET_MOODLIGHT"}, param : MoodNames \cup {NoName}]

Operation(i, r) == [id |-> i, opcode |-> r.opcode, param |-> r.param]

(* a NULL LedOperation pointer                                               *)
NoOp == [id |-> 0, opcode |-> "NULL", param |-> NoName]
================================================================================
