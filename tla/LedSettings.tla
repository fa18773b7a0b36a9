------------------------------- MODULE LedSettings -------------------------------
(***************************************************************************)
(* The calls of LedDriverAbstract (include/ld-abstract.h) and what each    *)
(* one asks of a lamp with LP_LEDS LEDs of 12 bits per colour.             *)
(***************************************************************************)
EXTENDS Integers

LP_LEDS == 10
Leds == 0..(LP_LEDS - 1)
Color == [r : 0..255, g : 0..255, b : 0..255]
MaxLevel == 4095    \* 12 bits
MaxWord  == 65535   \* the two bytes of an option

CONSTANTS
  Frames,         (* the LedColors SetLedColors is called with                *)
  RefreshDelays,  (* the values SetOption("refresh-delay", v) is called with  *)
  ColorDepths,    (* ... "color-depth"                                        *)
  Slowdowns       (* ... "smooth-slowdown"                                    *)

ASSUME CallsAssumption ==
  /\ Frames \subseteq [Leds -> Color]
  /\ RefreshDelays \subseteq 0..MaxWord
  /\ ColorDepths \subseteq 0..255 /\ Slowdowns \subseteq 0..255

OffCalls    == {[call |-> "SetLedsOff"]}
FrameCalls  == [call : {"SetLedColors"}, colors : Frames]
OptionCalls ==
       [call : {"SetOption"}, option : {"refresh-delay"},   value : RefreshDelays]
  \cup [call : {"SetOption"}, option : {"color-depth"},     value : ColorDepths]
  \cup [call : {"SetOption"}, option : {"smooth-slowdown"}, value : Slowdowns]
Calls == OffCalls \cup FrameCalls \cup OptionCalls
NoCall == [call |-> "none"]

(* color.r = colors[i].r * (4095 / 255.0): the double truncated to unsigned, *)
(* for every value from 0 to 255 the integer quotient.                       *)
Scale(v) == (v * MaxLevel) \div 255

Level == [r : 0..MaxLevel, g : 0..MaxLevel, b : 0..MaxLevel]
LevelOf(color) == [r |-> Scale(color.r), g |-> Scale(color.g), b |-> Scale(color.b)]
Dark == [r |-> 0, g |-> 0, b |-> 0]

(* What a lamp is set to; leds[i] is the LED that shows colors[i].           *)
Settings == [leds : [Leds -> Level], delay : 0..MaxWord, depth : 0..255, smooth : 0..255]

(* the settings after call c                                                 *)
Effect(s, c) ==
  CASE c.call = "SetLedsOff"   -> [s EXCEPT !.leds = [i \in Leds |-> Dark]]
    [] c.call = "SetLedColors" -> [s EXCEPT !.leds = [i \in Leds |-> LevelOf(c.colors[i])]]
    [] c.call = "SetOption" /\ c.option = "refresh-delay"   -> [s EXCEPT !.delay = c.value]
    [] c.call = "SetOption" /\ c.option = "color-depth"     -> [s EXCEPT !.depth = c.value]
    [] c.call = "SetOption" /\ c.option = "smooth-slowdown" -> [s EXCEPT !.smooth = c.value]
================================================================================
