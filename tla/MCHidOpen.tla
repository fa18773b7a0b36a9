-------------------------------- MODULE MCHidOpen --------------------------------
(* HidOpen for TLC: two Lightpacks, one with two HID interfaces, a composite  *)
(* keyboard and a hub.                                                        *)
EXTENDS HidOpen, TLC

CONSTANTS lightpack, twin, keyboard, hub

All == {lightpack, twin, keyboard, hub}
Known == {lightpack, twin}
Composite == {lightpack, twin, keyboard}
Interfaces == lightpack :> <<0>> @@ twin :> <<0, 1>> @@ keyboard :> <<0, 1>> @@ hub :> <<>>
================================================================================
