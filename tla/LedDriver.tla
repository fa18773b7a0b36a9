-------------------------------- MODULE LedDriver --------------------------------
(***************************************************************************)
(* What a driver of LedDriverAbstract promises the LED thread: a call      *)
(* takes effect at most once, has taken effect when it answers true, and   *)
(* changes nothing but what it names.  A lamp forgets its settings with    *)
(* its power, and a driver never reaches a lamp again that lost it.        *)
(***************************************************************************)
EXTENDS LedSettings

CONSTANT PowerOn    (* what the lamp is set to when it gets power             *)

VARIABLES
  settings,   (* what the lamp is set to                                      *)
  handle,     (* the driver's hold on the lamp: "none", "live" or "dead"      *)
  asked,      (* the call in progress, NoCall for none                        *)
  happened,   (* it took effect                                               *)
  answer      (* what the last call that ended answered                       *)

vars == <<settings, handle, asked, happened, answer>>

Init ==
  /\ settings = PowerOn /\ handle = "none"
  /\ asked = NoCall /\ happened = FALSE /\ answer = TRUE

Open ==
  /\ handle = "none" /\ handle' = "live"
  /\ UNCHANGED <<settings, asked, happened, answer>>

Close ==
  /\ asked = NoCall /\ handle' = "none"
  /\ UNCHANGED <<settings, asked, happened, answer>>

Ask ==
  /\ handle # "none" /\ asked = NoCall
  /\ asked' \in Calls
  /\ UNCHANGED <<settings, handle, happened, answer>>

(* the call takes effect before, or without, an answer that says so          *)
Happen ==
  /\ handle = "live" /\ asked # NoCall /\ ~happened
  /\ settings' = Effect(settings, asked)
  /\ happened' = TRUE
  /\ UNCHANGED <<handle, asked, answer>>

Answers(value) == asked # NoCall /\ asked' = NoCall /\ happened' = FALSE /\ answer' = value

AnswerTrue ==
  /\ handle = "live"
  /\ Answers(TRUE)
  /\ settings' = IF happened THEN settings ELSE Effect(settings, asked)
  /\ UNCHANGED handle

(* the last try may still get through                                        *)
AnswerFalse ==
  /\ Answers(FALSE)
  /\ \/ UNCHANGED settings
     \/ handle = "live" /\ ~happened /\ settings' = Effect(settings, asked)
  /\ UNCHANGED handle

PowerLost ==
  /\ settings' = PowerOn
  /\ handle' = IF handle = "live" THEN "dead" ELSE handle
  /\ UNCHANGED <<asked, happened, answer>>

Next == Open \/ Close \/ Ask \/ Happen \/ AnswerTrue \/ AnswerFalse \/ PowerLost

Spec == Init /\ [][Next]_vars
================================================================================
