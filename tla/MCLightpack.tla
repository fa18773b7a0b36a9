------------------------------- MODULE MCLightpack -------------------------------
(* The frames, options and start-up settings of the LED thread, for TLC.      *)
EXTENDS Lightpack

RGB(red, green, blue) == [r |-> red, g |-> green, b |-> blue]
Uniform(color) == [i \in Leds |-> color]
(* the frames of Alert(), and for each LED one frame of Moodlight() in which  *)
(* it differs from all others                                                 *)
AlertFrames == {Uniform(RGB(0, 0, 0)), Uniform(RGB(0, 255, 0)), Uniform(RGB(255, 0, 0)),
                Uniform(RGB(255, 255, 0)), Uniform(RGB(255, 255, 255))}
MoodFrames  == {[i \in Leds |-> IF i = n THEN RGB(0, 255, 255) ELSE RGB(255, 0, 255)] : n \in Leds}
AllFrames == AlertFrames \cup MoodFrames

AtPowerOn == [leds |-> [i \in Leds |-> [r |-> 4095, g |-> 4095, b |-> 4095]],
              delay |-> 0, depth |-> 0, smooth |-> 0]
================================================================================
