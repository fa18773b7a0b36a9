------------------------------- MODULE LedService -------------------------------
(***************************************************************************)
(* What the LED thread promises the rest of led-server, without threads,   *)
(* locks, time or a device: accepted operations take effect once, in the   *)
(* order they were accepted, none of them while an alert is playing, and   *)
(* as long as the service is open none of them waits for ever.             *)
(***************************************************************************)
EXTENDS LedOperations, Sequences

VARIABLES
  pending,  (* accepted operations that have not taken effect, oldest first  *)
  playing,  (* the alert on the LEDs, NoName for none                        *)
  mood,     (* the moodlight to return to, NoName for none                   *)
  open      (* the server was not told to stop                               *)

vars == <<pending, playing, mood, open>>

Init == pending = <<>> /\ playing = NoName /\ mood = NoName /\ open = TRUE

(* an operation is accepted                                                  *)
Submit(o) ==
  /\ open
  /\ pending' = Append(pending, o)
  /\ UNCHANGED <<playing, mood, open>>

(* the oldest pending operation takes effect; never during an alert          *)
Apply ==
  /\ pending # <<>> /\ playing = NoName
  /\ pending' = Tail(pending)
  /\ LET o == Head(pending) IN
       \/ o.opcode = "SET_LEDS_OFF"  /\ mood' = NoName      /\ UNCHANGED playing
       \/ o.opcode = "SET_MOODLIGHT" /\ mood' = o.param /\ UNCHANGED playing
       \/ o.opcode = "SET_ALERT"     /\ playing' = o.param /\ UNCHANGED mood
  /\ UNCHANGED open

(* an alert has been shown to its end                                        *)
AlertEnds ==
  /\ playing # NoName
  /\ playing' = NoName
  /\ UNCHANGED <<pending, mood, open>>

Close == open /\ open' = FALSE /\ UNCHANGED <<pending, playing, mood>>

(* the operations that have not taken effect are dropped                     *)
Drop == ~open /\ pending' = <<>> /\ UNCHANGED <<playing, mood, open>>

Next == (\E o \in Operations : Submit(o)) \/ Apply \/ AlertEnds \/ Close \/ Drop

Spec == Init /\ [][Next]_vars

(* while it is open, the service keeps applying operations and ending alerts *)
FairSpec == Spec /\ WF_vars(open /\ Apply) /\ WF_vars(open /\ AlertEnds)
================================================================================
