-------------------------------- MODULE Lightpack --------------------------------
(***************************************************************************)
(* LedDriverLightpack (ld-lightpack.cpp): the report it builds for each    *)
(* call in buffer_write, and Write(), which sends it and tries once more.  *)
(* hid_write (hidapi/linux/hid-libusb.c) may report a failure although the *)
(* report got through.  The firmware is external: it reads the opcode and  *)
(* the bytes that belong to it.                                            *)
(***************************************************************************)
EXTENDS LedSettings

CONSTANT PowerOn    (* what the Lightpack is set to when it gets power        *)

ASSUME PowerOnAssumption == PowerOn \in Settings

VARIABLES
  plugged,       (* the Lightpack is attached and can be claimed              *)
  lamp,          (* what it is set to; leds by the number of the LED          *)
  dh,            (* the hid_device: "none", "live", "dead"; "absent" while   *)
                 (* there is no driver object                               *)
  buffer_write,
  try,           (* Write(): 0 outside, else the number of the hid_write      *)
  (* history *)
  call,          (* the call in progress                                      *)
  delivered,     (* a report of this call got through                         *)
  answer         (* what the last Write() returned                            *)

vars == <<plugged, lamp, dh, buffer_write, try, call, delivered, answer>>
history == <<call, delivered, answer>>

--------------------------------------------------------------------------------
(* The report: buffer_write[0] is the report id, the rest goes out.          *)

LP_BUFFER_SIZE == 65
LP_INDEX_OPCODE == 1
LP_INDEX_DATA == 2
Index == 0..(LP_BUFFER_SIZE - 1)
Buffers == [Index -> 0..255]

OpcodeOf(c) ==
  CASE c.call = "SetLedColors" -> 1
    [] c.call = "SetLedsOff"   -> 2
    [] c.call = "SetOption" /\ c.option = "refresh-delay"   -> 3
    [] c.call = "SetOption" /\ c.option = "color-depth"     -> 4
    [] c.call = "SetOption" /\ c.option = "smooth-slowdown" -> 5

(* led_remap_custom: the LED that shows colors[i]                            *)
Remap == [i \in Leds |->
  CASE i = 0 -> 4 [] i = 1 -> 3 [] i = 2 -> 0 [] i = 3 -> 1 [] i = 4 -> 2 [] OTHER -> i]

led_color_size == 6
Slot(i) == LP_INDEX_DATA + Remap[i] * led_color_size

HighUnshifted(level) == (level \div 16) * 16    \* bug variant: no >> 4
High(level) == (level \div 16) % 256    \* (level & 0x0FF0) >> 4
Low(level)  == level % 16               \* level & 0x000F

(* the six bytes of a LED                                                    *)
Byte(color, k) ==
  LET l == LevelOf(color) IN
    CASE k = 0 -> High(l.r) [] k = 1 -> High(l.g) [] k = 2 -> High(l.b)
      [] k = 3 -> Low(l.r)  [] k = 4 -> Low(l.g)  [] k = 5 -> Low(l.b)

(* memset, then the loop over the colours: the last colour that writes byte  *)
(* j stays there.                                                            *)
Writers(j) == {i \in Leds : j - Slot(i) \in 0..(led_color_size - 1)}
LastWriter(j) == CHOOSE i \in Writers(j) : \A k \in Writers(j) : k <= i
FrameBytes(colors) ==
  [j \in Index |-> IF Writers(j) = {} THEN 0
                   ELSE Byte(colors[LastWriter(j)], j - Slot(LastWriter(j)))]

(* bug variant: one byte for every option                                    *)
OptionBytesOne(c) == [buffer_write EXCEPT ![LP_INDEX_DATA] = c.value % 256]

(* SetOption overwrites one or two bytes and leaves the rest as it was       *)
OptionBytes(c) ==
  IF c.option = "refresh-delay"
  THEN [buffer_write EXCEPT ![LP_INDEX_DATA] = c.value % 256,
                            ![LP_INDEX_DATA + 1] = (c.value \div 256) % 256]
  ELSE [buffer_write EXCEPT ![LP_INDEX_DATA] = c.value % 256]

WithHeader(bytes, c) == [bytes EXCEPT ![0] = 0, ![LP_INDEX_OPCODE] = OpcodeOf(c)]

(* What the firmware makes of settings l when it gets report b.              *)
DecodeLed(b, n) ==
  LET at == LP_INDEX_DATA + n * led_color_size IN
    [r |-> b[at] * 16 + b[at + 3], g |-> b[at + 1] * 16 + b[at + 4],
     b |-> b[at + 2] * 16 + b[at + 5]]
Firmware(l, b) ==
  CASE b[LP_INDEX_OPCODE] = 1 -> [l EXCEPT !.leds = [n \in Leds |-> DecodeLed(b, n)]]
    [] b[LP_INDEX_OPCODE] = 2 -> [l EXCEPT !.leds = [n \in Leds |-> Dark]]
    [] b[LP_INDEX_OPCODE] = 3 -> [l EXCEPT !.delay = b[LP_INDEX_DATA]
                                                        + 256 * b[LP_INDEX_DATA + 1]]
    [] b[LP_INDEX_OPCODE] = 4 -> [l EXCEPT !.depth = b[LP_INDEX_DATA]]
    [] b[LP_INDEX_OPCODE] = 5 -> [l EXCEPT !.smooth = b[LP_INDEX_DATA]]

--------------------------------------------------------------------------------
(* The object. *)

(* the constructor allocates the buffers and does not clear them             *)
New ==
  /\ dh = "absent" /\ dh' = "none"
  /\ \E junk \in {0, 255} : buffer_write' = [j \in Index |-> junk]
  /\ UNCHANGED <<plugged, lamp, try, history>>

(* Open: the first Lightpack of the enumeration, or an exception             *)
Open ==
  /\ dh = "none" /\ plugged
  /\ dh' = "live"
  /\ UNCHANGED <<plugged, lamp, buffer_write, try, history>>

Close ==
  /\ dh \in {"live", "dead"} /\ try = 0
  /\ dh' = "none"
  /\ UNCHANGED <<plugged, lamp, buffer_write, try, history>>

(* the destructor, also after Open has thrown                                *)
Delete ==
  /\ dh # "absent" /\ try = 0
  /\ dh' = "absent"
  /\ UNCHANGED <<plugged, lamp, buffer_write, try, history>>

(* A call fills the buffer and enters Write().                               *)
Enter(c, bytes) ==
  /\ dh \in {"live", "dead"} /\ try = 0
  /\ buffer_write' = WithHeader(bytes, c)
  /\ try' = 1
  /\ call' = c
  /\ UNCHANGED <<plugged, lamp, dh, delivered, answer>>

SetLedsOff   == \E c \in OffCalls : Enter(c, buffer_write)
SetLedColors == \E c \in FrameCalls : Enter(c, FrameBytes(c.colors))
SetOption    == \E c \in OptionCalls : Enter(c, OptionBytes(c))

--------------------------------------------------------------------------------
(* Write(): hid_write, and once more when it fails. *)

Return(value) ==
  /\ try' = 0 /\ call' = NoCall /\ delivered' = FALSE
  /\ answer' = value
  /\ UNCHANGED <<plugged, dh, buffer_write>>

Written ==
  /\ try > 0 /\ dh = "live"
  /\ lamp' = Firmware(lamp, buffer_write)
  /\ Return(TRUE)

(* what a failed hid_write has done to the Lightpack                         *)
Failed(through) ==
  /\ try > 0
  /\ through => dh = "live"
  /\ lamp' = IF through THEN Firmware(lamp, buffer_write) ELSE lamp

TryAgain ==
  \E through \in BOOLEAN :
    /\ Failed(through) /\ try = 1
    /\ try' = 2
    /\ delivered' = (delivered \/ through)
    /\ UNCHANGED <<plugged, dh, buffer_write, call, answer>>

GiveUp ==
  \E through \in BOOLEAN :
    /\ Failed(through) /\ try = 2
    /\ Return(FALSE)

WriteStep == Written \/ TryAgain \/ GiveUp

--------------------------------------------------------------------------------
(* The USB bus. *)

Unplug ==
  /\ plugged /\ plugged' = FALSE
  /\ dh' = IF dh = "live" THEN "dead" ELSE dh
  /\ lamp' = PowerOn
  /\ UNCHANGED <<buffer_write, try, history>>

Plug ==
  /\ ~plugged /\ plugged' = TRUE
  /\ UNCHANGED <<lamp, dh, buffer_write, try, history>>

--------------------------------------------------------------------------------
Init ==
  /\ plugged \in BOOLEAN /\ lamp = PowerOn
  /\ dh = "absent" /\ try = 0
  /\ buffer_write = [j \in Index |-> 0]
  /\ call = NoCall /\ delivered = FALSE /\ answer = TRUE

Next ==
  \/ New \/ Open \/ Close \/ Delete
  \/ SetLedsOff \/ SetLedColors \/ SetOption
  \/ WriteStep
  \/ Unplug \/ Plug

Spec == Init /\ [][Next]_vars

--------------------------------------------------------------------------------
(* Properties. *)

TypeOK ==
  /\ plugged \in BOOLEAN /\ lamp \in Settings
  /\ dh \in {"absent", "none", "live", "dead"}
  /\ buffer_write \in Buffers
  /\ try \in 0..2 /\ call \in Calls \cup {NoCall}
  /\ delivered \in BOOLEAN /\ answer \in BOOLEAN

(* The bytes, the LEDs' order and the second try come out right: the driver  *)
(* implements LedDriver, where a call takes effect once and changes only     *)
(* what it names.  LED Remap[i] is the one LedDriver calls i.                *)
InOrder(l) == [leds |-> [i \in Leds |-> l.leds[Remap[i]]],
               delay |-> l.delay, depth |-> l.depth, smooth |-> l.smooth]
Driver == INSTANCE LedDriver WITH
            settings <- InOrder(lamp),
            handle   <- IF dh = "absent" THEN "none" ELSE dh,
            asked    <- call,
            happened <- delivered,
            PowerOn  <- InOrder(PowerOn)
DriverSpec == Driver!Spec
================================================================================
