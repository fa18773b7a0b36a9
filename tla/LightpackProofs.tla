----------------------------- MODULE LightpackProofs -----------------------------
(***************************************************************************)
(* Proofs about LedDriverLightpack: its reports carry what was asked for,  *)
(* for all colours and option values, and with its second try it           *)
(* implements LedDriver.                                                   *)
(***************************************************************************)
EXTENDS Lightpack, TLAPS

(* The bytes of SetLedColors: 12 bits in two bytes, none of them lost.       *)
LEMMA Bits ==
  ASSUME NEW v \in 0..255
  PROVE  /\ Scale(v) \in 0..MaxLevel
         /\ High(Scale(v)) \in 0..255 /\ Low(Scale(v)) \in 0..255
         /\ High(Scale(v)) * 16 + Low(Scale(v)) = Scale(v)
<1>1. Scale(v) \in 0..MaxLevel
  BY SMT DEF Scale, MaxLevel
<1>2. \A l \in 0..MaxLevel : High(l) \in 0..255 /\ Low(l) \in 0..255 /\ High(l) * 16 + Low(l) = l
  <2> TAKE l \in 0..MaxLevel
  <2>1. l \div 16 \in 0..255 /\ l % 16 \in 0..15 /\ l = 16 * (l \div 16) + (l % 16)
    BY SMT DEF MaxLevel
  <2>2. (l \div 16) % 256 = l \div 16
    BY <2>1
  <2> QED BY <2>1, <2>2 DEF High, Low
<1>3. PICK l \in 0..MaxLevel : l = Scale(v)
  BY <1>1
<1> QED BY <1>2, <1>3

(* led_remap_custom is a permutation of the LEDs.                            *)
LEMMA Permutation ==
  /\ \A i \in Leds : Remap[i] \in Leds
  /\ \A i, k \in Leds : Remap[i] = Remap[k] => i = k
  /\ \A n \in Leds : \E i \in Leds : Remap[i] = n
<1>1. \A i \in Leds : Remap[i] = (IF i = 0 THEN 4 ELSE IF i = 1 THEN 3 ELSE IF i = 2 THEN 0
                          ELSE IF i = 3 THEN 1 ELSE IF i = 4 THEN 2 ELSE i)
  BY DEF Remap, Leds, LP_LEDS
<1> QED BY <1>1 DEF Leds, LP_LEDS

(* Every byte of a LED's six is inside the buffer and written for that LED   *)
(* alone.                                                                    *)
LEMMA OwnBytes ==
  ASSUME NEW i \in Leds, NEW k \in 0..5
  PROVE  /\ Slot(i) + k \in 2..61 /\ Slot(i) + k \in Index
         /\ LastWriter(Slot(i) + k) = i /\ Writers(Slot(i) + k) # {}
<1>1. Slot(i) \in Int /\ Slot(i) + k \in 2..61
  BY Permutation DEF Slot, LP_INDEX_DATA, led_color_size, Leds, LP_LEDS
<1>2. ASSUME NEW n \in Leds
      PROVE  (Slot(i) + k) - Slot(n) \in 0..(led_color_size - 1) <=> n = i
  <2>1. Remap[i] \in 0..9 /\ Remap[n] \in 0..9 /\ (Remap[i] = Remap[n] => i = n)
    BY Permutation DEF Leds, LP_LEDS
  <2>2. (Slot(i) + k) - Slot(n) = 6 * (Remap[i] - Remap[n]) + k
    BY <2>1 DEF Slot, LP_INDEX_DATA, led_color_size
  <2>3. (Slot(i) + k) - Slot(n) \in 0..5 <=> Remap[i] = Remap[n]
    BY <2>1, <2>2
  <2> QED BY <2>1, <2>3 DEF led_color_size
<1>3. Writers(Slot(i) + k) = {i}
  BY <1>2 DEF Writers
<1>4. LastWriter(Slot(i) + k) = i
  BY <1>3 DEF LastWriter, Leds, LP_LEDS
<1> QED BY <1>1, <1>3, <1>4 DEF Index, LP_BUFFER_SIZE

(* Every byte of a LED is a byte.                                            *)
LEMMA ByteTyped ==
  ASSUME NEW color \in Color, NEW k \in 0..5
  PROVE  Byte(color, k) \in 0..255
<1>1. color.r \in 0..255 /\ color.g \in 0..255 /\ color.b \in 0..255
  BY DEF Color
<1>2. /\ High(Scale(color.r)) \in 0..255 /\ Low(Scale(color.r)) \in 0..255
      /\ High(Scale(color.g)) \in 0..255 /\ Low(Scale(color.g)) \in 0..255
      /\ High(Scale(color.b)) \in 0..255 /\ Low(Scale(color.b)) \in 0..255
  BY <1>1, Bits
<1> QED BY <1>2 DEF Byte, LevelOf

(* The report of SetLedColors is typed, and any report with its data bytes   *)
(* decodes to the 12 bits of each colour at the LED that shows it.           *)
LEMMA FrameReport ==
  ASSUME NEW colors \in [Leds -> Color]
  PROVE  /\ FrameBytes(colors) \in Buffers
         /\ \A b \in Buffers :
              (\A j \in 2..61 : b[j] = FrameBytes(colors)[j]) =>
                \A i \in Leds : DecodeLed(b, Remap[i]) = LevelOf(colors[i])
<1>1. ASSUME NEW i \in Leds, NEW k \in 0..5
      PROVE  FrameBytes(colors)[Slot(i) + k] = Byte(colors[i], k)
  <2>1. /\ Slot(i) + k \in Index
        /\ LastWriter(Slot(i) + k) = i /\ Writers(Slot(i) + k) # {}
    BY OwnBytes
  <2>2. (Slot(i) + k) - Slot(i) = k
    BY Permutation DEF Slot, LP_INDEX_DATA, led_color_size, Leds, LP_LEDS
  <2> QED BY <2>1, <2>2 DEF FrameBytes
<1>2. ASSUME NEW j \in Index, Writers(j) # {}
      PROVE  FrameBytes(colors)[j] \in 0..255
  <2>1. PICK i \in Leds : j - Slot(i) \in 0..5
    BY <1>2 DEF Writers, led_color_size
  <2>2. PICK k \in 0..5 : j = Slot(i) + k
    BY <2>1, Permutation DEF Slot, LP_INDEX_DATA, led_color_size, Leds, LP_LEDS, Index
  <2> QED BY <2>2, <1>1, ByteTyped
<1>3. FrameBytes(colors) \in Buffers
  BY <1>2 DEF FrameBytes, Buffers
<1>4. ASSUME NEW b \in Buffers, \A j \in 2..61 : b[j] = FrameBytes(colors)[j],
             NEW i \in Leds
      PROVE  DecodeLed(b, Remap[i]) = LevelOf(colors[i])
  <2>1. \A k \in 0..5 : b[Slot(i) + k] = Byte(colors[i], k)
    BY <1>1, <1>4, OwnBytes
  <2>2. LP_INDEX_DATA + Remap[i] * led_color_size = Slot(i)
    BY DEF Slot
  <2>3. Slot(i) \in Int
    BY Permutation DEF Slot, LP_INDEX_DATA, led_color_size, Leds, LP_LEDS
  <2>4. /\ b[Slot(i)] = High(Scale(colors[i].r)) /\ b[Slot(i) + 3] = Low(Scale(colors[i].r))
        /\ b[Slot(i) + 1] = High(Scale(colors[i].g)) /\ b[Slot(i) + 4] = Low(Scale(colors[i].g))
        /\ b[Slot(i) + 2] = High(Scale(colors[i].b)) /\ b[Slot(i) + 5] = Low(Scale(colors[i].b))
    BY <2>1, <2>3 DEF Byte, LevelOf
  <2>5. colors[i].r \in 0..255 /\ colors[i].g \in 0..255 /\ colors[i].b \in 0..255
    BY DEF Color
  <2>6. /\ b[Slot(i)] * 16 + b[Slot(i) + 3] = Scale(colors[i].r)
        /\ b[Slot(i) + 1] * 16 + b[Slot(i) + 4] = Scale(colors[i].g)
        /\ b[Slot(i) + 2] * 16 + b[Slot(i) + 5] = Scale(colors[i].b)
    BY <2>4, <2>5, Bits
  <2> QED BY ONLY <2>2, <2>6 DEF DecodeLed, LevelOf
<1> QED BY <1>3, <1>4

--------------------------------------------------------------------------------
(* Report b says what call c asks for.                                       *)
Carries(b, c) ==
  /\ b[LP_INDEX_OPCODE] = OpcodeOf(c)
  /\ c.call = "SetLedColors" =>
       \A i \in Leds : DecodeLed(b, Remap[i]) = LevelOf(c.colors[i])
  /\ c.call = "SetOption" /\ c.option = "refresh-delay" =>
       b[LP_INDEX_DATA] + 256 * b[LP_INDEX_DATA + 1] = c.value
  /\ c.call = "SetOption" /\ c.option # "refresh-delay" => b[LP_INDEX_DATA] = c.value

(* The calls by kind, with the types of what they carry.                     *)
LEMMA CallKinds ==
  ASSUME NEW c \in Calls
  PROVE  /\ c # NoCall
         /\ \/ c.call = "SetLedsOff"
            \/ c.call = "SetLedColors" /\ c.colors \in [Leds -> Color]
            \/ c.call = "SetOption" /\ c.option = "refresh-delay" /\ c.value \in 0..MaxWord
            \/ c.call = "SetOption" /\ c.option = "color-depth" /\ c.value \in 0..255
            \/ c.call = "SetOption" /\ c.option = "smooth-slowdown" /\ c.value \in 0..255
<1>1. CASE c \in OffCalls
  BY <1>1 DEF OffCalls, NoCall
<1>2. CASE c \in FrameCalls
  BY <1>2, CallsAssumption DEF FrameCalls, NoCall
<1>3. CASE c \in OptionCalls
  <2>1. /\ c.call = "SetOption"
        /\ \/ c.option = "refresh-delay" /\ c.value \in RefreshDelays
           \/ c.option = "color-depth" /\ c.value \in ColorDepths
           \/ c.option = "smooth-slowdown" /\ c.value \in Slowdowns
    BY <1>3 DEF OptionCalls
  <2>2. c # NoCall
    BY <2>1 DEF NoCall
  <2> QED BY <2>1, <2>2, CallsAssumption
<1> QED BY <1>1, <1>2, <1>3 DEF Calls

(* The colours a frame asks for are levels.                                  *)
LEMMA LevelTyped ==
  ASSUME NEW color \in Color
  PROVE  LevelOf(color) \in Level
<1>1. color.r \in 0..255 /\ color.g \in 0..255 /\ color.b \in 0..255
  BY DEF Color
<1> QED BY <1>1, Bits DEF LevelOf, Level

(* Settings as a record.                                                     *)
LEMMA SettingsShape ==
  \A l \in Settings :
    /\ l.leds \in [Leds -> Level] /\ l.delay \in 0..MaxWord
    /\ l.depth \in 0..255 /\ l.smooth \in 0..255
    /\ l = [leds |-> l.leds, delay |-> l.delay, depth |-> l.depth, smooth |-> l.smooth]
  BY DEF Settings

(* Setting the LEDs or one of the options, once and twice.                   *)
LEMMA PutLeds ==
  ASSUME NEW l \in Settings, NEW f \in [Leds -> Level]
  PROVE  /\ [l EXCEPT !.leds = f] \in Settings
         /\ [[l EXCEPT !.leds = f] EXCEPT !.leds = f] = [l EXCEPT !.leds = f]
         /\ InOrder([l EXCEPT !.leds = f])
              = [InOrder(l) EXCEPT !.leds = [i \in Leds |-> f[Remap[i]]]]
<1>1. [l EXCEPT !.leds = f]
        = [leds |-> f, delay |-> l.delay, depth |-> l.depth, smooth |-> l.smooth]
  BY SettingsShape
<1>2. [l EXCEPT !.leds = f] \in Settings
  BY <1>1, SettingsShape DEF Settings
<1>3. InOrder([l EXCEPT !.leds = f])
        = [leds |-> [i \in Leds |-> f[Remap[i]]], delay |-> l.delay,
           depth |-> l.depth, smooth |-> l.smooth]
  BY <1>1 DEF InOrder
<1>4. [InOrder(l) EXCEPT !.leds = [i \in Leds |-> f[Remap[i]]]]
        = [leds |-> [i \in Leds |-> f[Remap[i]]], delay |-> l.delay,
           depth |-> l.depth, smooth |-> l.smooth]
  <2>1. InOrder(l) = [leds |-> [i \in Leds |-> l.leds[Remap[i]]], delay |-> l.delay,
                      depth |-> l.depth, smooth |-> l.smooth]
    BY DEF InOrder
  <2> QED BY <2>1
<1>5. [[l EXCEPT !.leds = f] EXCEPT !.leds = f] = [l EXCEPT !.leds = f]
  BY <1>1
<1> QED BY <1>2, <1>3, <1>4, <1>5

LEMMA PutDelay ==
  ASSUME NEW l \in Settings, NEW v \in 0..MaxWord
  PROVE  /\ [l EXCEPT !.delay = v] \in Settings
         /\ [[l EXCEPT !.delay = v] EXCEPT !.delay = v] = [l EXCEPT !.delay = v]
         /\ InOrder([l EXCEPT !.delay = v]) = [InOrder(l) EXCEPT !.delay = v]
<1>1. [l EXCEPT !.delay = v]
        = [leds |-> l.leds, delay |-> v, depth |-> l.depth, smooth |-> l.smooth]
  BY SettingsShape
<1>2. [l EXCEPT !.delay = v] \in Settings
  BY <1>1, SettingsShape DEF Settings
<1>3. InOrder([l EXCEPT !.delay = v]) = [InOrder(l) EXCEPT !.delay = v]
  <2>1. InOrder(l) = [leds |-> [i \in Leds |-> l.leds[Remap[i]]], delay |-> l.delay,
                      depth |-> l.depth, smooth |-> l.smooth]
    BY DEF InOrder
  <2>2. InOrder([l EXCEPT !.delay = v])
          = [leds |-> [i \in Leds |-> l.leds[Remap[i]]], delay |-> v, depth |-> l.depth, smooth |-> l.smooth]
    BY <1>1 DEF InOrder
  <2> QED BY <2>1, <2>2
<1>4. [[l EXCEPT !.delay = v] EXCEPT !.delay = v] = [l EXCEPT !.delay = v]
  BY <1>1
<1> QED BY <1>2, <1>3, <1>4

LEMMA PutDepth ==
  ASSUME NEW l \in Settings, NEW v \in 0..255
  PROVE  /\ [l EXCEPT !.depth = v] \in Settings
         /\ [[l EXCEPT !.depth = v] EXCEPT !.depth = v] = [l EXCEPT !.depth = v]
         /\ InOrder([l EXCEPT !.depth = v]) = [InOrder(l) EXCEPT !.depth = v]
<1>1. [l EXCEPT !.depth = v]
        = [leds |-> l.leds, delay |-> l.delay, depth |-> v, smooth |-> l.smooth]
  BY SettingsShape
<1>2. [l EXCEPT !.depth = v] \in Settings
  BY <1>1, SettingsShape DEF Settings
<1>3. InOrder([l EXCEPT !.depth = v]) = [InOrder(l) EXCEPT !.depth = v]
  <2>1. InOrder(l) = [leds |-> [i \in Leds |-> l.leds[Remap[i]]], delay |-> l.delay,
                      depth |-> l.depth, smooth |-> l.smooth]
    BY DEF InOrder
  <2>2. InOrder([l EXCEPT !.depth = v])
          = [leds |-> [i \in Leds |-> l.leds[Remap[i]]], delay |-> l.delay, depth |-> v, smooth |-> l.smooth]
    BY <1>1 DEF InOrder
  <2> QED BY <2>1, <2>2
<1>4. [[l EXCEPT !.depth = v] EXCEPT !.depth = v] = [l EXCEPT !.depth = v]
  BY <1>1
<1> QED BY <1>2, <1>3, <1>4

LEMMA PutSmooth ==
  ASSUME NEW l \in Settings, NEW v \in 0..255
  PROVE  /\ [l EXCEPT !.smooth = v] \in Settings
         /\ [[l EXCEPT !.smooth = v] EXCEPT !.smooth = v] = [l EXCEPT !.smooth = v]
         /\ InOrder([l EXCEPT !.smooth = v]) = [InOrder(l) EXCEPT !.smooth = v]
<1>1. [l EXCEPT !.smooth = v]
        = [leds |-> l.leds, delay |-> l.delay, depth |-> l.depth, smooth |-> v]
  BY SettingsShape
<1>2. [l EXCEPT !.smooth = v] \in Settings
  BY <1>1, SettingsShape DEF Settings
<1>3. InOrder([l EXCEPT !.smooth = v]) = [InOrder(l) EXCEPT !.smooth = v]
  <2>1. InOrder(l) = [leds |-> [i \in Leds |-> l.leds[Remap[i]]], delay |-> l.delay,
                      depth |-> l.depth, smooth |-> l.smooth]
    BY DEF InOrder
  <2>2. InOrder([l EXCEPT !.smooth = v])
          = [leds |-> [i \in Leds |-> l.leds[Remap[i]]], delay |-> l.delay, depth |-> l.depth, smooth |-> v]
    BY <1>1 DEF InOrder
  <2> QED BY <2>1, <2>2
<1>4. [[l EXCEPT !.smooth = v] EXCEPT !.smooth = v] = [l EXCEPT !.smooth = v]
  BY <1>1
<1> QED BY <1>2, <1>3, <1>4

(* A report that carries a call has the call's effect, however often it gets *)
(* through.                                                                  *)
LEMMA FirmwareEffect ==
  ASSUME NEW l \in Settings, NEW b \in Buffers, NEW c \in Calls, Carries(b, c)
  PROVE  /\ Firmware(l, b) \in Settings
         /\ InOrder(Firmware(l, b)) = Effect(InOrder(l), c)
         /\ Firmware(Firmware(l, b), b) = Firmware(l, b)
<1>1. CASE c.call = "SetLedsOff"
  <2> DEFINE f == [n \in Leds |-> Dark]
  <2>1. Dark \in Level
    BY SMT DEF Dark, Level, MaxLevel
  <2>2. f \in [Leds -> Level]
    BY <2>1
  <2>3. [i \in Leds |-> f[Remap[i]]] = [i \in Leds |-> Dark]
    BY Permutation
  <2>4. Effect(InOrder(l), c) = [InOrder(l) EXCEPT !.leds = [i \in Leds |-> Dark]]
    BY <1>1 DEF Effect
  <2>5. \A s : Firmware(s, b) = [s EXCEPT !.leds = f]
    BY <1>1 DEF Carries, OpcodeOf, Firmware
  <2> HIDE DEF f
  <2>6. /\ [l EXCEPT !.leds = f] \in Settings
        /\ [[l EXCEPT !.leds = f] EXCEPT !.leds = f] = [l EXCEPT !.leds = f]
        /\ InOrder([l EXCEPT !.leds = f])
             = [InOrder(l) EXCEPT !.leds = [i \in Leds |-> f[Remap[i]]]]
    BY <2>2, PutLeds
  <2>7. Firmware(l, b) = [l EXCEPT !.leds = f]
    BY <2>5, Zenon
  <2>8. Firmware([l EXCEPT !.leds = f], b) = [[l EXCEPT !.leds = f] EXCEPT !.leds = f]
    BY <2>5, Zenon
  <2> QED BY ONLY <2>3, <2>4, <2>6, <2>7, <2>8, Zenon
<1>2. CASE c.call = "SetLedColors"
  <2> DEFINE f == [n \in Leds |-> DecodeLed(b, n)]
  <2>1. \A i \in Leds : DecodeLed(b, Remap[i]) = LevelOf(c.colors[i])
    BY <1>2 DEF Carries
  <2>2. f \in [Leds -> Level]
    BY <1>2, <2>1, CallKinds, LevelTyped, Permutation
  <2>3. [i \in Leds |-> f[Remap[i]]] = [i \in Leds |-> LevelOf(c.colors[i])]
    BY <2>1, Permutation
  <2>4. Effect(InOrder(l), c) = [InOrder(l) EXCEPT !.leds = [i \in Leds |-> LevelOf(c.colors[i])]]
    BY <1>2 DEF Effect
  <2>5. \A s : Firmware(s, b) = [s EXCEPT !.leds = f]
    BY <1>2 DEF Carries, OpcodeOf, Firmware
  <2> HIDE DEF f
  <2>6. /\ [l EXCEPT !.leds = f] \in Settings
        /\ [[l EXCEPT !.leds = f] EXCEPT !.leds = f] = [l EXCEPT !.leds = f]
        /\ InOrder([l EXCEPT !.leds = f])
             = [InOrder(l) EXCEPT !.leds = [i \in Leds |-> f[Remap[i]]]]
    BY <2>2, PutLeds
  <2>7. Firmware(l, b) = [l EXCEPT !.leds = f]
    BY <2>5, Zenon
  <2>8. Firmware([l EXCEPT !.leds = f], b) = [[l EXCEPT !.leds = f] EXCEPT !.leds = f]
    BY <2>5, Zenon
  <2> QED BY ONLY <2>3, <2>4, <2>6, <2>7, <2>8, Zenon
<1>3. CASE c.call = "SetOption" /\ c.option = "refresh-delay"
  <2>1. c.value \in 0..MaxWord /\ Effect(InOrder(l), c) = [InOrder(l) EXCEPT !.delay = c.value]
    BY <1>3, CallKinds DEF Effect
  <2>2. \A s : Firmware(s, b) = [s EXCEPT !.delay = c.value]
    BY <1>3, <2>1 DEF Carries, OpcodeOf, Firmware
  <2>3. /\ [l EXCEPT !.delay = c.value] \in Settings
        /\ [[l EXCEPT !.delay = c.value] EXCEPT !.delay = c.value] = [l EXCEPT !.delay = c.value]
        /\ InOrder([l EXCEPT !.delay = c.value]) = [InOrder(l) EXCEPT !.delay = c.value]
    BY <2>1, PutDelay
  <2>4. /\ Firmware(l, b) = [l EXCEPT !.delay = c.value]
        /\ Firmware([l EXCEPT !.delay = c.value], b)
             = [[l EXCEPT !.delay = c.value] EXCEPT !.delay = c.value]
    BY <2>2, Zenon
  <2> QED BY ONLY <2>1, <2>3, <2>4, Zenon
<1>4. CASE c.call = "SetOption" /\ c.option = "color-depth"
  <2>1. c.value \in 0..255 /\ Effect(InOrder(l), c) = [InOrder(l) EXCEPT !.depth = c.value]
    BY <1>4, CallKinds DEF Effect
  <2>2. \A s : Firmware(s, b) = [s EXCEPT !.depth = c.value]
    BY <1>4, <2>1 DEF Carries, OpcodeOf, Firmware
  <2>3. /\ [l EXCEPT !.depth = c.value] \in Settings
        /\ [[l EXCEPT !.depth = c.value] EXCEPT !.depth = c.value] = [l EXCEPT !.depth = c.value]
        /\ InOrder([l EXCEPT !.depth = c.value]) = [InOrder(l) EXCEPT !.depth = c.value]
    BY <2>1, PutDepth
  <2>4. /\ Firmware(l, b) = [l EXCEPT !.depth = c.value]
        /\ Firmware([l EXCEPT !.depth = c.value], b)
             = [[l EXCEPT !.depth = c.value] EXCEPT !.depth = c.value]
    BY <2>2, Zenon
  <2> QED BY ONLY <2>1, <2>3, <2>4, Zenon
<1>5. CASE c.call = "SetOption" /\ c.option = "smooth-slowdown"
  <2>1. c.value \in 0..255 /\ Effect(InOrder(l), c) = [InOrder(l) EXCEPT !.smooth = c.value]
    BY <1>5, CallKinds DEF Effect
  <2>2. \A s : Firmware(s, b) = [s EXCEPT !.smooth = c.value]
    BY <1>5, <2>1 DEF Carries, OpcodeOf, Firmware
  <2>3. /\ [l EXCEPT !.smooth = c.value] \in Settings
        /\ [[l EXCEPT !.smooth = c.value] EXCEPT !.smooth = c.value] = [l EXCEPT !.smooth = c.value]
        /\ InOrder([l EXCEPT !.smooth = c.value]) = [InOrder(l) EXCEPT !.smooth = c.value]
    BY <2>1, PutSmooth
  <2>4. /\ Firmware(l, b) = [l EXCEPT !.smooth = c.value]
        /\ Firmware([l EXCEPT !.smooth = c.value], b)
             = [[l EXCEPT !.smooth = c.value] EXCEPT !.smooth = c.value]
    BY <2>2, Zenon
  <2> QED BY ONLY <2>1, <2>3, <2>4, Zenon
<1> QED BY <1>1, <1>2, <1>3, <1>4, <1>5, CallKinds

--------------------------------------------------------------------------------
(* The inductive invariant: during a call the buffer carries it, and when a  *)
(* report of it got through, another one changes nothing.                    *)
CallInv ==
  /\ try > 0 <=> call # NoCall
  /\ try > 0 => dh \in {"live", "dead"} /\ Carries(buffer_write, call)
  /\ delivered => try = 2
  /\ delivered /\ dh = "live" => Firmware(lamp, buffer_write) = lamp
LPInv == TypeOK /\ CallInv

LEMMA InitLPInv == Init => LPInv
<1> SUFFICES ASSUME Init PROVE LPInv
  OBVIOUS
<1>1. buffer_write \in Buffers
  BY DEF Init, Buffers
<1>2. TypeOK
  <2>1. lamp \in Settings /\ call \in Calls \cup {NoCall}
    BY PowerOnAssumption DEF Init
  <2>2. plugged \in BOOLEAN /\ delivered \in BOOLEAN /\ answer \in BOOLEAN
    BY Zenon DEF Init
  <2>3. dh \in {"absent", "none", "live", "dead"} /\ try \in 0..2
    BY DEF Init
  <2> QED BY <1>1, <2>1, <2>2, <2>3, Zenon DEF TypeOK
<1>3. CallInv
  BY DEF Init, CallInv
<1> QED BY <1>2, <1>3 DEF LPInv

(* The two bytes of an option.                                               *)
LEMMA WordSplits ==
  \A v \in 0..MaxWord :
    /\ v \div 256 \in 0..255 /\ (v \div 256) % 256 = v \div 256
    /\ v = 256 * (v \div 256) + (v % 256)
<1> TAKE v \in 0..MaxWord
<1>1. v \div 256 \in 0..255 /\ v = 256 * (v \div 256) + (v % 256)
  <2>1. v \in Nat /\ v <= MaxWord
    BY SMT
  <2>2. v = 256 * (v \div 256) + (v % 256)
    BY ONLY <2>1, SMT
  <2>3. v \div 256 \in 0..255
    <3>1. v % 256 \in 0..255 /\ v \div 256 \in Int
      BY ONLY <2>1, SMT
    <3>2. v \in Nat /\ v < 256 * 256
      BY ONLY <2>1, SMTT(60) DEF MaxWord
    <3> QED BY ONLY <2>2, <3>1, <3>2, SMT
  <2> QED BY <2>2, <2>3
<1>2. (v \div 256) % 256 = v \div 256
  BY ONLY <1>1, SMT
<1> QED BY <1>1, <1>2

(* A report is its data with the two bytes of the header replaced.           *)
LEMMA HeaderReplaced ==
  ASSUME NEW bytes \in Buffers, NEW c \in Calls
  PROVE  /\ WithHeader(bytes, c) \in Buffers
         /\ WithHeader(bytes, c)[LP_INDEX_OPCODE] = OpcodeOf(c)
         /\ \A j \in 2..64 : WithHeader(bytes, c)[j] = bytes[j]
<1> DEFINE o == OpcodeOf(c)
<1>1. o \in 1..5
  BY CallKinds DEF OpcodeOf
<1>2. Buffers = [0..64 -> 0..255]
  BY DEF Buffers, Index, LP_BUFFER_SIZE
<1>3. WithHeader(bytes, c) = [bytes EXCEPT ![0] = 0, ![1] = o]
  BY DEF WithHeader, LP_INDEX_OPCODE
<1> HIDE DEF o
<1>4. bytes \in [0..64 -> 0..255]
  BY <1>2
<1>5. [bytes EXCEPT ![0] = 0, ![1] = o] \in [0..64 -> 0..255]
  BY ONLY <1>1, <1>4
<1>6. [bytes EXCEPT ![0] = 0, ![1] = o][1] = o
  BY ONLY <1>4
<1>7. \A j \in 2..64 : [bytes EXCEPT ![0] = 0, ![1] = o][j] = bytes[j]
  BY ONLY <1>4
<1>8. o = OpcodeOf(c)
  BY DEF o
<1> QED BY <1>2, <1>3, <1>5, <1>6, <1>7, <1>8 DEF LP_INDEX_OPCODE

(* A call's bytes, headed by its opcode, carry it.                           *)
LEMMA HeadedBytes ==
  ASSUME NEW c \in Calls, NEW bytes \in Buffers, buffer_write \in Buffers,
         c.call = "SetLedColors" => bytes = FrameBytes(c.colors),
         c.call = "SetOption" => bytes = OptionBytes(c)
  PROVE  /\ WithHeader(bytes, c) \in Buffers
         /\ Carries(WithHeader(bytes, c), c)
<1> DEFINE b == WithHeader(bytes, c)
<1>1. OpcodeOf(c) \in 1..5
  BY CallKinds DEF OpcodeOf
<1>2. buffer_write \in [0..64 -> 0..255]
  <2>1. Buffers = [0..64 -> 0..255]
    BY ONLY DEF Buffers, Index, LP_BUFFER_SIZE
  <2> QED BY <2>1
<1>3. /\ b \in Buffers /\ b[LP_INDEX_OPCODE] = OpcodeOf(c)
      /\ \A j \in 2..64 : b[j] = bytes[j]
  BY HeaderReplaced
<1> HIDE DEF b
<1>4. ASSUME c.call = "SetLedColors", NEW i \in Leds
      PROVE  DecodeLed(b, Remap[i]) = LevelOf(c.colors[i])
  <2>1. c.colors \in [Leds -> Color]
    BY <1>4, CallKinds
  <2>2. \A j \in 2..61 : b[j] = FrameBytes(c.colors)[j]
    BY <1>3, <1>4
  <2> QED BY <1>3, <2>1, <2>2, FrameReport
<1>5. ASSUME c.call = "SetOption"
      PROVE  /\ c.option = "refresh-delay" =>
                  b[LP_INDEX_DATA] + 256 * b[LP_INDEX_DATA + 1] = c.value
             /\ c.option # "refresh-delay" => b[LP_INDEX_DATA] = c.value
  <2>1. CASE c.option = "refresh-delay"
    <3>1. c.value \in 0..MaxWord
      BY <1>5, <2>1, CallKinds
    <3>2. bytes = [buffer_write EXCEPT ![2] = c.value % 256, ![3] = (c.value \div 256) % 256]
      BY <1>5, <2>1 DEF OptionBytes, LP_INDEX_DATA
    <3>3. b[2] = c.value % 256 /\ b[3] = (c.value \div 256) % 256
      <4>1. DOMAIN buffer_write = 0..64
        BY ONLY <1>2
      <4>2. bytes[2] = c.value % 256
        BY ONLY <3>2, <4>1
      <4>3. bytes[3] = (c.value \div 256) % 256
        BY ONLY <3>2, <4>1
      <4> QED BY <1>3, <4>2, <4>3
    <3>4. /\ c.value \div 256 \in 0..255 /\ (c.value \div 256) % 256 = c.value \div 256
          /\ c.value = 256 * (c.value \div 256) + (c.value % 256)
      BY <3>1, WordSplits
    <3> QED BY <2>1, <3>1, <3>3, <3>4 DEF LP_INDEX_DATA
  <2>2. CASE c.option # "refresh-delay"
    <3>1. c.value \in 0..255
      BY <1>5, <2>2, CallKinds
    <3>2. bytes = [buffer_write EXCEPT ![2] = c.value % 256]
      BY <1>5, <2>2 DEF OptionBytes, LP_INDEX_DATA
    <3>3. b[2] = c.value % 256
      <4>1. DOMAIN buffer_write = 0..64
        BY ONLY <1>2
      <4>2. bytes[2] = c.value % 256
        BY ONLY <3>2, <4>1
      <4> QED BY <1>3, <4>2
    <3> QED BY <2>2, <3>1, <3>3 DEF LP_INDEX_DATA
  <2> QED BY <2>1, <2>2
<1>6. Carries(b, c)
  BY <1>3, <1>4, <1>5 DEF Carries
<1> QED BY <1>3, <1>6 DEF b

(* Each call of the driver is of its kind and enters Write() with a buffer   *)
(* that carries it.                                                          *)
LEMMA EnterCarries ==
  ASSUME LPInv, SetLedsOff \/ SetLedColors \/ SetOption
  PROVE  /\ dh \in {"live", "dead"} /\ try = 0 /\ try' = 1
         /\ call' \in Calls
         /\ buffer_write' \in Buffers /\ Carries(buffer_write', call')
         /\ UNCHANGED <<plugged, lamp, dh, delivered, answer>>
<1>1. buffer_write \in Buffers
  BY DEF LPInv, TypeOK
<1>2. ASSUME NEW c \in Calls, NEW bytes \in Buffers, Enter(c, bytes),
             c.call = "SetLedColors" => bytes = FrameBytes(c.colors),
             c.call = "SetOption" => bytes = OptionBytes(c)
      PROVE  /\ dh \in {"live", "dead"} /\ try = 0 /\ try' = 1
             /\ call' \in Calls
             /\ buffer_write' \in Buffers /\ Carries(buffer_write', call')
             /\ UNCHANGED <<plugged, lamp, dh, delivered, answer>>
  <2>1. WithHeader(bytes, c) \in Buffers /\ Carries(WithHeader(bytes, c), c)
    BY <1>1, <1>2, HeadedBytes
  <2>2. buffer_write' = WithHeader(bytes, c) /\ call' = c
    BY <1>2 DEF Enter
  <2>3. /\ dh \in {"live", "dead"} /\ try = 0 /\ try' = 1
        /\ UNCHANGED <<plugged, lamp, dh, delivered, answer>>
    BY <1>2 DEF Enter
  <2> QED BY <2>1, <2>2, <2>3
<1>3. CASE SetLedsOff
  <2>1. PICK c \in OffCalls : Enter(c, buffer_write)
    BY <1>3 DEF SetLedsOff
  <2>2. c \in Calls /\ c.call = "SetLedsOff"
    BY DEF OffCalls, Calls
  <2> QED BY <1>1, <1>2, <2>1, <2>2
<1>4. CASE SetLedColors
  <2>1. PICK c \in FrameCalls : Enter(c, FrameBytes(c.colors))
    BY <1>4 DEF SetLedColors
  <2>2. c \in Calls /\ c.call = "SetLedColors"
    BY DEF FrameCalls, Calls
  <2>3. FrameBytes(c.colors) \in Buffers
    BY <2>2, CallKinds, FrameReport
  <2> QED BY <1>2, <2>1, <2>2, <2>3
<1>5. CASE SetOption
  <2>1. PICK c \in OptionCalls : Enter(c, OptionBytes(c))
    BY <1>5 DEF SetOption
  <2>2. c \in Calls /\ c.call = "SetOption"
    BY DEF OptionCalls, Calls
  <2>3. OptionBytes(c) \in Buffers
    <3>1. c.value \in Int
      BY <2>2, CallKinds
    <3>2. c.value % 256 \in 0..255 /\ (c.value \div 256) % 256 \in 0..255
      BY <3>1
    <3> QED BY <1>1, <3>2 DEF OptionBytes, Buffers, Index, LP_BUFFER_SIZE, LP_INDEX_DATA
  <2> QED BY <1>2, <2>1, <2>2, <2>3
<1> QED BY <1>3, <1>4, <1>5

(* During a call, a report has the call's effect on the lamp.                *)
LEMMA InCall ==
  ASSUME LPInv, try > 0
  PROVE  /\ call \in Calls /\ dh \in {"live", "dead"} /\ lamp \in Settings
         /\ Firmware(lamp, buffer_write) \in Settings
         /\ InOrder(Firmware(lamp, buffer_write)) = Effect(InOrder(lamp), call)
         /\ Firmware(Firmware(lamp, buffer_write), buffer_write) = Firmware(lamp, buffer_write)
<1>1. call \in Calls
  BY DEF LPInv, TypeOK, CallInv
<1>2. Carries(buffer_write, call) /\ buffer_write \in Buffers /\ lamp \in Settings
      /\ dh \in {"live", "dead"}
  BY DEF LPInv, TypeOK, CallInv
<1> QED BY <1>1, <1>2, FirmwareEffect

(* After Write() no call is in progress.                                     *)
LEMMA Returns ==
  ASSUME LPInv, NEW value \in BOOLEAN, Return(value), lamp' \in Settings
  PROVE  LPInv'
<1>1. /\ try' = 0 /\ call' = NoCall /\ delivered' = FALSE /\ answer' = value
      /\ plugged' = plugged /\ dh' = dh /\ buffer_write' = buffer_write
  BY DEF Return
<1>2. call' \in Calls \cup {NoCall} /\ try' \in 0..2
  BY <1>1
<1>3. delivered' \in BOOLEAN /\ answer' \in BOOLEAN
  BY <1>1, Zenon
<1>4. TypeOK'
  BY <1>1, <1>2, <1>3, Zenon DEF LPInv, TypeOK
<1>5. CallInv'
  BY <1>1 DEF CallInv
<1> QED BY <1>4, <1>5 DEF LPInv

LEMMA LPStep == LPInv /\ [Next]_vars => LPInv'
<1> SUFFICES ASSUME LPInv, [Next]_vars PROVE LPInv'
  OBVIOUS
<1>1. CASE New
  <2>1. buffer_write' \in Buffers
    BY <1>1 DEF New, Buffers
  <2>2. try = 0 /\ ~delivered /\ UNCHANGED <<plugged, lamp, try, history>> /\ dh' = "none"
    BY <1>1 DEF New, LPInv, CallInv, TypeOK
  <2> QED BY <2>1, <2>2 DEF LPInv, TypeOK, CallInv, history
<1>2. CASE Open \/ Close \/ Delete
  BY <1>2 DEF Open, Close, Delete, LPInv, TypeOK, CallInv, history
<1>3. CASE SetLedsOff \/ SetLedColors \/ SetOption
  <2>1. call' # NoCall
    BY <1>3, EnterCarries, CallKinds
  <2>2. ~delivered
    BY <1>3, EnterCarries DEF LPInv, CallInv, TypeOK
  <2> QED BY <1>3, <2>1, <2>2, EnterCarries DEF LPInv, TypeOK, CallInv
<1>4. CASE Written
  <2>1. try > 0 /\ lamp' \in Settings
    BY <1>4, InCall DEF Written
  <2>2. Return(TRUE)
    BY <1>4 DEF Written
  <2> QED BY <2>1, <2>2, Returns
<1>5. CASE TryAgain
  <2>1. PICK through \in BOOLEAN :
          /\ Failed(through) /\ try = 1 /\ try' = 2 /\ delivered' = (delivered \/ through)
          /\ UNCHANGED <<plugged, dh, buffer_write, call, answer>>
    BY <1>5 DEF TryAgain
  <2>2. ~delivered
    BY <2>1 DEF LPInv, CallInv, TypeOK
  <2>3. CASE through
    <3>1. lamp' = Firmware(lamp, buffer_write)
      BY <2>1, <2>3 DEF Failed
    <3>2. lamp' \in Settings /\ Firmware(lamp', buffer_write) = lamp'
      BY <2>1, <3>1, InCall
    <3> QED BY <2>1, <3>2 DEF LPInv, TypeOK, CallInv
  <2>4. CASE ~through
    <3>1. UNCHANGED lamp /\ ~delivered'
      BY <2>1, <2>2, <2>4 DEF Failed
    <3> QED BY <2>1, <3>1 DEF LPInv, TypeOK, CallInv
  <2> QED BY <2>3, <2>4
<1>6. CASE GiveUp
  <2>1. PICK through \in BOOLEAN : Failed(through) /\ try = 2 /\ Return(FALSE)
    BY <1>6 DEF GiveUp
  <2>2. lamp' \in Settings
    BY <2>1, InCall DEF Failed
  <2> QED BY <2>1, <2>2, Returns
<1>7. CASE Unplug
  BY <1>7, PowerOnAssumption DEF Unplug, LPInv, TypeOK, CallInv, history
<1>8. CASE Plug
  BY <1>8 DEF Plug, LPInv, TypeOK, CallInv, history
<1>9. CASE UNCHANGED vars
  BY <1>9 DEF vars, LPInv, TypeOK, CallInv
<1> QED BY <1>1, <1>2, <1>3, <1>4, <1>5, <1>6, <1>7, <1>8, <1>9 DEF Next, WriteStep

(* TypeOK: whatever the LED thread calls, the buffer holds bytes and the     *)
(* lamp is set to something it can show.                                     *)
THEOREM TypeCorrect == Spec => []TypeOK
<1>1. LPInv => TypeOK
  BY DEF LPInv
<1> QED BY InitLPInv, LPStep, <1>1, PTL DEF Spec

--------------------------------------------------------------------------------
(* The driver implements LedDriver. *)

(* LedDriver has its own copies of the definitions of LedSettings.           *)
LEMMA SameSettings ==
  /\ Driver!NoCall = NoCall /\ Driver!Calls = Calls
  /\ \A l, c : Driver!Effect(l, c) = Effect(l, c)
<1>1. Driver!NoCall = NoCall
  BY DEF NoCall, Driver!NoCall
<1>2. Driver!Calls = Calls
  BY DEF Calls, OffCalls, FrameCalls, OptionCalls,
         Driver!Calls, Driver!OffCalls, Driver!FrameCalls, Driver!OptionCalls
<1>3. ASSUME NEW l, NEW c
      PROVE  Driver!Effect(l, c) = Effect(l, c)
  BY DEF Effect, Driver!Effect, Leds, Driver!Leds, LP_LEDS, Driver!LP_LEDS, Dark, Driver!Dark,
         LevelOf, Driver!LevelOf, Scale, Driver!Scale, MaxLevel, Driver!MaxLevel
<1> QED BY <1>1, <1>2, <1>3

LEMMA InitDriver == Init => Driver!Init
  BY DEF Init, Driver!Init, NoCall, Driver!NoCall

LEMMA StepDriver == LPInv /\ [Next]_vars => [Driver!Next]_Driver!vars
<1> SUFFICES ASSUME LPInv, [Next]_vars PROVE [Driver!Next]_Driver!vars
  OBVIOUS
<1>1. CASE New
  BY <1>1 DEF New, history, Driver!vars
<1>2. CASE Open
  <2>1. Driver!Open
    BY <1>2 DEF Open, history, Driver!Open
  <2> QED BY <2>1 DEF Driver!Next
<1>3. CASE Close \/ Delete
  <2>1. call = NoCall
    BY <1>3 DEF Close, Delete, LPInv, CallInv, TypeOK
  <2>2. Driver!Close
    BY <1>3, <2>1, SameSettings DEF Close, Delete, history, Driver!Close
  <2> QED BY <2>2 DEF Driver!Next
<1>4. CASE SetLedsOff \/ SetLedColors \/ SetOption
  <2>1. call = NoCall
    BY <1>4, EnterCarries DEF LPInv, CallInv, TypeOK
  <2>2. Driver!Ask
    BY <1>4, <2>1, EnterCarries, SameSettings DEF Driver!Ask
  <2> QED BY <2>2 DEF Driver!Next
<1>5. CASE Written
  <2>1. /\ try > 0 /\ dh = "live" /\ lamp' = Firmware(lamp, buffer_write)
        /\ call' = NoCall /\ delivered' = FALSE /\ answer' = TRUE /\ dh' = dh
    BY <1>5 DEF Written, Return
  <2>2. call # NoCall
    BY <2>1 DEF LPInv, CallInv
  <2>3. InOrder(lamp') = Effect(InOrder(lamp), call)
    BY <2>1, InCall
  <2>4. delivered => lamp' = lamp
    BY <2>1 DEF LPInv, CallInv
  <2>5. Driver!Answers(TRUE)
    BY <2>1, <2>2, SameSettings, Zenon DEF Driver!Answers
  <2>6. InOrder(lamp') = IF delivered THEN InOrder(lamp) ELSE Driver!Effect(InOrder(lamp), call)
    BY <2>3, <2>4, SameSettings, Zenon
  <2>7. Driver!AnswerTrue
    BY <2>1, <2>5, <2>6 DEF Driver!AnswerTrue
  <2> QED BY <2>7 DEF Driver!Next
<1>6. CASE TryAgain
  <2>1. PICK through \in BOOLEAN :
          /\ Failed(through) /\ try = 1 /\ delivered' = (delivered \/ through)
          /\ UNCHANGED <<dh, call, answer>>
    BY <1>6 DEF TryAgain
  <2>2. ~delivered /\ call # NoCall
    BY <2>1 DEF LPInv, CallInv, TypeOK
  <2>3. CASE through
    <3>1. dh = "live" /\ lamp' = Firmware(lamp, buffer_write)
      BY <2>1, <2>3 DEF Failed
    <3>2. InOrder(lamp') = Driver!Effect(InOrder(lamp), call)
      BY <2>1, <3>1, InCall, SameSettings
    <3>3. delivered' = TRUE
      BY <2>1, <2>3, Zenon
    <3>4. Driver!Happen
      BY <2>1, <2>2, <3>1, <3>2, <3>3, SameSettings DEF Driver!Happen
    <3> QED BY <3>4 DEF Driver!Next
  <2>4. CASE ~through
    <3>1. lamp' = lamp
      BY <2>1, <2>4 DEF Failed
    <3>2. delivered' = delivered
      BY <2>1, <2>4, Zenon DEF LPInv, TypeOK
    <3> QED BY <2>1, <3>1, <3>2 DEF Driver!vars
  <2> QED BY <2>3, <2>4
<1>7. CASE GiveUp
  <2>1. PICK through \in BOOLEAN : Failed(through) /\ try = 2 /\ Return(FALSE)
    BY <1>7 DEF GiveUp
  <2>2. /\ call' = NoCall /\ delivered' = FALSE /\ answer' = FALSE /\ dh' = dh
        /\ call # NoCall
    BY <2>1 DEF Return, LPInv, CallInv, TypeOK
  <2>3. Driver!Answers(FALSE)
    BY <2>2, SameSettings, Zenon DEF Driver!Answers
  <2>4. lamp' = lamp \/ (dh = "live" /\ ~delivered
                         /\ InOrder(lamp') = Driver!Effect(InOrder(lamp), call))
    <3>1. CASE through /\ ~delivered
      BY <2>1, <3>1, InCall, SameSettings DEF Failed
    <3>2. CASE through /\ delivered
      BY <2>1, <3>2 DEF Failed, LPInv, CallInv
    <3>3. CASE ~through
      BY <2>1, <3>3 DEF Failed
    <3> QED BY <3>1, <3>2, <3>3
  <2>5. Driver!AnswerFalse
    BY <2>2, <2>3, <2>4 DEF Driver!AnswerFalse
  <2> QED BY <2>5 DEF Driver!Next
<1>8. CASE Unplug
  <2>1. Driver!PowerLost
    BY <1>8 DEF Unplug, history, Driver!PowerLost
  <2> QED BY <2>1 DEF Driver!Next
<1>9. CASE Plug \/ UNCHANGED vars
  BY <1>9 DEF Plug, vars, history, Driver!vars
<1> QED BY <1>1, <1>2, <1>3, <1>4, <1>5, <1>6, <1>7, <1>8, <1>9 DEF Next, WriteStep

(* DriverSpec: for all colours and option values, every call of the driver   *)
(* reaches the lamp as LedDriver promises, whatever the two tries of Write() *)
(* did.                                                                      *)
THEOREM ImplementsDriver == Spec => DriverSpec
<1> QED BY InitLPInv, LPStep, InitDriver, StepDriver, PTL DEF Spec, DriverSpec, Driver!Spec
================================================================================
