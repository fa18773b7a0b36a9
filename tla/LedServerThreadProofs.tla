------------------------- MODULE LedServerThreadProofs -------------------------
(***************************************************************************)
(* Theorems about the LED thread, for every set of names and every bound   *)
(* on the number of calls: type correctness, the mutex discipline, the     *)
(* device index, first-in-first-out exactly-once delivery, what the alert  *)
(* leaves behind and how long it is waited for, that alerts are never      *)
(* overwritten, and that the thread implements LedService.                 *)
(***************************************************************************)
EXTENDS LedServerThread, SequenceTheorems, TLAPS

(* Each accepted call was counted by `offered` when it began.              *)
CallsCounted ==
  /\ accepted <= offered
  /\ main = "push" => accepted < offered

(* main leaves its loop exactly when it has called Terminate, and destroys *)
(* the server only after the LED thread has left Run.                      *)
Ending ==
  /\ terminate <=> main \in {"join", "done"}
  /\ pc = "exited" => terminate
  /\ main = "done" => pc = "exited"

(* Where the LED thread holds an operation, plays an alert, or delays.     *)
Inside(place) == pc \in {"delay", "sleep", "peeklock", "peek"} /\ delay.ret = place
InAlert == pc = "alert" \/ Inside("alert")

Control ==
  /\ op # NoOp => pc = "dispatch"
  /\ op = NoOp \/ op.id > 0
  /\ InAlert => alert # NoName
  /\ alert # NoName => pc \in {"select", "exited"} \/ InAlert
  /\ pc \in {"peeklock", "peek"} => delay.interruptable
  /\ delay.interruptable => delay.ret = "top"
  /\ pc \in {"peeklock", "peek", "sleep"} => delay.left > 0

(* The vector of devices, followed through Run, OpenDevices and Delay.     *)
DevicesKnown ==
  /\ pc \in {"open", "publish"} => devices = 0
  /\ pc = "publish" => handle # "none"
  /\ pc \in {"delay", "sleep"} /\ delay.interruptable => devices = 1
  /\ DeviceIndexSafe
  /\ QueuedHasDevice

LedInv ==
  /\ TypeOK
  /\ QueueExclusive
  /\ CallsCounted
  /\ Ending
  /\ Control
  /\ DevicesKnown
  /\ ExactlyOnceInOrder

--------------------------------------------------------------------------------
(* The script of Alert(): 19 calls, each a SetOption of 0 or 255, a frame, or *)
(* a Delay of at most 15 ticks.                                              *)
LEMMA Script ==
  /\ AlertLength = 19
  /\ \A i \in 1..19 :
       /\ AlertScript[i].call \in {"option", "frame", "delay"}
       /\ AlertScript[i].call = "option" => AlertScript[i].arg \in {0, 255}
       /\ AlertScript[i].call = "delay" => Ticks(AlertScript[i].arg) \in 0..15
<1>1. AlertLength = 19
  BY DEF AlertLength, AlertScript
<1>2. \A i \in 1..19 : i = 1 \/ i = 2 \/ i = 3 \/ i = 4 \/ i = 5 \/ i = 6 \/ i = 7
        \/ i = 8 \/ i = 9 \/ i = 10 \/ i = 11 \/ i = 12 \/ i = 13 \/ i = 14 \/ i = 15
        \/ i = 16 \/ i = 17 \/ i = 18 \/ i = 19
  OBVIOUS
<1>3. \A i \in 1..19 : AlertScript[i] \in {Option(0), Option(255), Colors, Black, Wait(50), Wait(200), Wait(1500)}
  BY <1>2 DEF AlertScript
<1>4. Ticks(50) = 1 /\ Ticks(200) = 2 /\ Ticks(1500) = 15
  BY DEF Ticks
<1>5. QED
  BY <1>1, <1>3, <1>4 DEF Option, Colors, Black, Wait

(* The operation Run dispatches is one it was given.                         *)
LEMMA OperationFields ==
  /\ \A o \in Operations :
       /\ o.id \in 1..MaxOps /\ o # NoOp
       /\ o.opcode \in {"SET_LEDS_OFF", "SET_ALERT", "SET_MOODLIGHT"}
       /\ o.opcode = "SET_ALERT" => o.param \in AlertNames \cup {NoName}
       /\ o.opcode = "SET_MOODLIGHT" => o.param \in MoodNames \cup {NoName}
  /\ NoOp.opcode = "NULL"
  /\ \A i \in 1..MaxOps : \A r \in Requests :
       Operation(i, r) \in Operations /\ Operation(i, r).id = i
<1>1. \A o \in Operations : o.id \in 1..MaxOps
  BY DEF Operations
<1>2. NoOp.id = 0 /\ NoOp.opcode = "NULL"
  BY DEF NoOp
<1>3. \A o \in Operations :
       /\ o.opcode \in {"SET_LEDS_OFF", "SET_ALERT", "SET_MOODLIGHT"}
       /\ o.opcode = "SET_ALERT" => o.param \in AlertNames \cup {NoName}
       /\ o.opcode = "SET_MOODLIGHT" => o.param \in MoodNames \cup {NoName}
  BY DEF Operations
<1>4. \A i \in 1..MaxOps : \A r \in Requests :
       Operation(i, r) \in Operations /\ Operation(i, r).id = i
  BY DEF Operation, Operations, Requests
<1>5. QED
  BY <1>1, <1>2, <1>3, <1>4, MaxOpsAssumption

(* The delays Run and its helpers ask for.                                   *)
LEMMA DelayTicks ==
  \A ms \in {50, 200, 500, 1000, 1500} : Ticks(ms) \in 1..15
BY DEF Ticks

LEMMA InitInv == Init => LedInv
<1> SUFFICES ASSUME Init PROVE LedInv
  OBVIOUS
<1>1. TypeOK
  <2>1. arg \in Requests /\ op \in Operations \cup {NoOp}
    BY DEF Init, NoArg, Requests
  <2>2. delay \in [left : 0..15, interruptable : BOOLEAN, ret : {"top", "alert"}]
    BY DEF Init, NoDelay
  <2>3. step \in 1..(AlertLength + 1) /\ leds \in Shows /\ queue \in Seq(Operations)
    BY Script DEF Init, Shows
  <2>4. offered \in 0..MaxOps /\ accepted \in 0..MaxOps /\ taken \in 0..MaxOps
    BY MaxOpsAssumption DEF Init
  <2>5. waited \in Nat /\ smooth \in {0, 255} /\ devices \in 0..1
    BY DEF Init
  <2>6. terminate \in BOOLEAN /\ plugged \in BOOLEAN /\ lost \in BOOLEAN
    BY DEF Init
  <2>7. QED
    BY <2>1, <2>2, <2>3, <2>4, <2>5, <2>6 DEF Init, TypeOK
<1>2. QueueExclusive /\ CallsCounted /\ Ending
  BY DEF Init, QueueExclusive, LedInside, MainInside, CallsCounted, Ending
<1>3. Control
  BY DEF Init, Control, InAlert, Inside, NoDelay
<1>4. DevicesKnown /\ ExactlyOnceInOrder
  BY DEF Init, DevicesKnown, DeviceIndexSafe, PlayingPc, QueuedHasDevice, ExactlyOnceInOrder,
         NoDelay
<1>5. QED
  BY <1>1, <1>2, <1>3, <1>4 DEF LedInv

LEMMA TypeStep == LedInv /\ [Next]_vars => TypeOK'
<1> SUFFICES ASSUME LedInv, [Next]_vars PROVE TypeOK'
  OBVIOUS
<1> USE DEF LedInv, TypeOK, vars, shared, led, device, mainVars, history, Goto
<1>1. CASE LoopTest
  BY <1>1 DEF LoopTest
<1>2. CASE OpenSucceeds
  BY <1>2 DEF OpenSucceeds
<1>3. CASE OpenFails
  BY <1>3, DelayTicks DEF OpenFails, CallDelay
<1>4. CASE Publish
  BY <1>4 DEF Publish, DevicesKnown
<1>5. CASE PopLock
  BY <1>5 DEF PopLock
<1>6. CASE Pop
  <2>1. queue' \in Seq(Operations)
    <3>1. CASE queue = <<>>
      BY <1>6, <3>1 DEF Pop
    <3>2. CASE queue # <<>>
      BY <1>6, <3>2 DEF Pop
    <3>3. QED
      BY <3>1, <3>2
  <2>2. op' \in Operations \cup {NoOp}
    <3>1. CASE queue = <<>>
      BY <1>6, <3>1 DEF Pop
    <3>2. CASE queue # <<>>
      <4>1. Head(queue) \in Operations
        BY <3>2
      <4>2. QED
        BY <1>6, <3>2, <4>1 DEF Pop
    <3>3. QED
      BY <3>1, <3>2
  <2>3. taken' \in 0..MaxOps /\ waited' \in Nat
    <3>1. CASE queue = <<>>
      BY <1>6, <3>1 DEF Pop
    <3>2. CASE queue # <<>>
      <4>1. Len(queue) \in Nat /\ Len(queue) > 0
        BY <3>2
      <4>2. taken + 1 <= accepted
        BY <1>6, <4>1 DEF Pop, ExactlyOnceInOrder, Ending
      <4>3. QED
        BY <1>6, <3>2, <4>2, MaxOpsAssumption DEF Pop
    <3>3. QED
      BY <3>1, <3>2
  <2>4. QED
    BY <1>6, <2>1, <2>2, <2>3 DEF Pop
<1>7. CASE DispatchNothing
  BY <1>7 DEF DispatchNothing
<1>8. CASE DispatchLedsOff
  BY <1>8 DEF DispatchLedsOff, Show, Written, Shows
<1>9. CASE DispatchMoodlight
  BY <1>9, OperationFields DEF DispatchMoodlight
<1>10. CASE DispatchAlert
  BY <1>10, OperationFields DEF DispatchAlert
<1>11. CASE SelectAlert
  BY <1>11, Script DEF SelectAlert
<1>12. CASE SelectMoodlight
  BY <1>12 DEF SelectMoodlight
<1>13. CASE SelectIdle
  BY <1>13, DelayTicks DEF SelectIdle, CallDelay
<1>14. CASE Moodlight
  <2>1. leds' \in Shows /\ lost' \in BOOLEAN
    <3>1. CASE moodlight = "default"
      <4>1. Show("mood")
        BY ONLY <1>14, <3>1 DEF Moodlight
      <4>2. (leds' = "mood" \/ leds' = leds) /\ lost' \in BOOLEAN
        BY <4>1 DEF Show, Written
      <4> QED BY <4>2 DEF Shows, Lit
    <3>2. CASE moodlight # "default"
      BY <1>14, <3>2 DEF Moodlight
    <3>3. QED
      BY <3>1, <3>2
  <2>2. delay' \in [left : 0..15, interruptable : BOOLEAN, ret : {"top", "alert"}]
    BY <1>14, DelayTicks DEF Moodlight, CallDelay
  <2>3. QED
    BY <1>14, <2>1, <2>2 DEF Moodlight, CallDelay
<1>15. CASE AlertOption
  <2>1. step \in 1..19 /\ step' = step + 1
    BY <1>15, Script DEF AlertOption, AlertCall
  <2>2. smooth' \in {0, 255} /\ lost' \in BOOLEAN
    <3>1. AlertScript[step].call = "option" /\ SetSmooth(AlertScript[step].arg)
      BY ONLY <1>15 DEF AlertOption, AlertCall
    <3>2. AlertScript[step].arg \in {0, 255}
      BY ONLY <2>1, <3>1, Script
    <3>3. smooth \in {0, 255} /\ lost \in BOOLEAN
      OBVIOUS
    <3> QED BY ONLY <3>1, <3>2, <3>3 DEF SetSmooth, Written
  <2>3. step' \in 1..(AlertLength + 1)
    BY ONLY <2>1, Script
  <2>4. QED
    BY <1>15, <2>2, <2>3 DEF AlertOption, AlertCall
<1>16. CASE AlertFrame
  <2>1. step \in 1..19 /\ step' = step + 1
    BY <1>16, Script DEF AlertFrame, AlertCall
  <2>2. leds' \in Shows /\ lost' \in BOOLEAN
    BY <1>16 DEF AlertFrame, Show, Written, Shows, Lit, AlertColor
  <2>3. step' \in 1..(AlertLength + 1)
    BY ONLY <2>1, Script
  <2>4. QED
    BY <1>16, <2>2, <2>3 DEF AlertFrame, AlertCall
<1>17. CASE AlertWait
  <2>1. step \in 1..19 /\ step' = step + 1
    BY <1>17, Script DEF AlertWait, AlertCall
  <2>2. Ticks(AlertScript[step].arg) \in 0..15
    BY <1>17, <2>1, Script DEF AlertWait, AlertCall
  <2>3. delay' \in [left : 0..15, interruptable : BOOLEAN, ret : {"top", "alert"}]
    BY <1>17, <2>2 DEF AlertWait, CallDelay
  <2>4. step' \in 1..(AlertLength + 1)
    BY ONLY <2>1, Script
  <2>5. QED
    BY <1>17, <2>3, <2>4 DEF AlertWait, AlertCall, CallDelay
<1>18. CASE AlertClear
  BY <1>18 DEF AlertClear
<1>19. CASE DelayTest
  BY <1>19 DEF DelayTest, NoDelay
<1>20. CASE PeekLock
  BY <1>20 DEF PeekLock
<1>21. CASE Peek
  BY <1>21 DEF Peek, NoDelay
<1>22. CASE Sleep
  <2>1. delay.left > 0 /\ delay.left \in 0..15
    BY <1>22 DEF Sleep, Control
  <2>2. delay' \in [left : 0..15, interruptable : BOOLEAN, ret : {"top", "alert"}]
    <3>1. delay' = [delay EXCEPT !.left = delay.left - 1]
      BY <1>22 DEF Sleep
    <3>2. delay.left - 1 \in 0..15
      BY <2>1
    <3>3. delay \in [left : 0..15, interruptable : BOOLEAN, ret : {"top", "alert"}]
      OBVIOUS
    <3>4. QED
      BY ONLY <3>1, <3>2, <3>3
  <2>3. QED
    BY <1>22, <2>2 DEF Sleep
<1>23. CASE PushLock
  <2>1. offered' \in 0..MaxOps
    BY <1>23, MaxOpsAssumption DEF PushLock
  <2>2. QED
    BY <1>23, <2>1 DEF PushLock
<1>24. CASE Push
  <2>1. accepted + 1 \in 1..MaxOps
    BY <1>24, MaxOpsAssumption DEF Push, CallsCounted
  <2>2. Operation(accepted + 1, arg) \in Operations
    BY <2>1, OperationFields
  <2>3. queue' \in Seq(Operations) /\ accepted' \in 0..MaxOps
    <3>1. CASE queue' = Append(queue, Operation(accepted + 1, arg)) /\ accepted' = accepted + 1
      <4>1. queue \in Seq(Operations)
        OBVIOUS
      <4>2. queue' \in Seq(Operations)
        BY ONLY <2>2, <3>1, <4>1
      <4>3. accepted' \in 0..MaxOps
        BY ONLY <2>1, <3>1, MaxOpsAssumption
      <4> QED BY <4>2, <4>3
    <3>2. CASE UNCHANGED <<queue, accepted>>
      BY <3>2
    <3>3. \/ queue' = Append(queue, Operation(accepted + 1, arg)) /\ accepted' = accepted + 1
          \/ UNCHANGED <<queue, accepted>>
      BY ONLY <1>24 DEF Push
    <3> QED BY <3>1, <3>2, <3>3
  <2>4. arg' \in Requests
    BY <1>24 DEF Push, NoArg, Requests
  <2>5. QED
    BY <1>24, <2>3, <2>4 DEF Push
<1>25. CASE Terminate
  BY <1>25 DEF Terminate
<1>26. CASE Destroy
  BY <1>26 DEF Destroy
<1>27. CASE Unplug
  <2>1. leds' \in Shows /\ handle' \in {"none", "live", "dead"} /\ smooth' \in {0, 255}
    BY <1>27 DEF Unplug, Shows
  <2>2. plugged' \in BOOLEAN
    BY <1>27 DEF Unplug
  <2>3. QED
    BY <1>27, <2>1, <2>2 DEF Unplug
<1>28. CASE Plug
  BY <1>28 DEF Plug
<1>29. CASE UNCHANGED vars
  BY <1>29
<1>30. QED
  BY <1>1, <1>2, <1>3, <1>4, <1>5, <1>6, <1>7, <1>8, <1>9, <1>10, <1>11, <1>12, <1>13, <1>14, <1>15, <1>16, <1>17, <1>18, <1>19, <1>20, <1>21, <1>22, <1>23, <1>24, <1>25, <1>26, <1>27, <1>28, <1>29 DEF Next, LedStep, MainStep

LEMMA MutexStep == LedInv /\ [Next]_vars => (QueueExclusive /\ CallsCounted /\ Ending)'
<1> SUFFICES ASSUME LedInv, [Next]_vars PROVE (QueueExclusive /\ CallsCounted /\ Ending)'
  OBVIOUS
<1> USE DEF LedInv, TypeOK, QueueExclusive, LedInside, MainInside, CallsCounted, Ending, vars, shared, led, device, mainVars, history, Goto
<1>1. CASE LoopTest
  BY <1>1 DEF LoopTest
<1>2. CASE OpenSucceeds
  BY <1>2 DEF OpenSucceeds
<1>3. CASE OpenFails
  BY <1>3 DEF OpenFails, CallDelay
<1>4. CASE Publish
  BY <1>4 DEF Publish
<1>5. CASE PopLock
  BY <1>5 DEF PopLock
<1>6. CASE Pop
  BY <1>6 DEF Pop
<1>7. CASE DispatchNothing
  BY <1>7 DEF DispatchNothing
<1>8. CASE DispatchLedsOff
  BY <1>8 DEF DispatchLedsOff, Show, Written
<1>9. CASE DispatchMoodlight
  BY <1>9 DEF DispatchMoodlight
<1>10. CASE DispatchAlert
  BY <1>10 DEF DispatchAlert
<1>11. CASE SelectAlert
  BY <1>11 DEF SelectAlert
<1>12. CASE SelectMoodlight
  BY <1>12 DEF SelectMoodlight
<1>13. CASE SelectIdle
  BY <1>13 DEF SelectIdle, CallDelay
<1>14. CASE Moodlight
  BY <1>14 DEF Moodlight, CallDelay, Show, Written
<1>15. CASE AlertOption
  BY <1>15 DEF AlertOption, AlertCall, SetSmooth, Written
<1>16. CASE AlertFrame
  BY <1>16 DEF AlertFrame, AlertCall, Show, Written
<1>17. CASE AlertWait
  BY <1>17 DEF AlertWait, AlertCall, CallDelay
<1>18. CASE AlertClear
  BY <1>18 DEF AlertClear
<1>19. CASE DelayTest
  BY <1>19 DEF DelayTest
<1>20. CASE PeekLock
  BY <1>20 DEF PeekLock
<1>21. CASE Peek
  BY <1>21 DEF Peek
<1>22. CASE Sleep
  BY <1>22 DEF Sleep
<1>23. CASE PushLock
  BY <1>23 DEF PushLock
<1>24. CASE Push
  BY <1>24 DEF Push, SeenSizes
<1>25. CASE Terminate
  BY <1>25 DEF Terminate
<1>26. CASE Destroy
  BY <1>26 DEF Destroy
<1>27. CASE Unplug
  BY <1>27 DEF Unplug
<1>28. CASE Plug
  BY <1>28 DEF Plug
<1>29. CASE UNCHANGED vars
  BY <1>29
<1>30. QED
  BY <1>1, <1>2, <1>3, <1>4, <1>5, <1>6, <1>7, <1>8, <1>9, <1>10, <1>11, <1>12, <1>13, <1>14, <1>15, <1>16, <1>17, <1>18, <1>19, <1>20, <1>21, <1>22, <1>23, <1>24, <1>25, <1>26, <1>27, <1>28, <1>29 DEF Next, LedStep, MainStep

LEMMA ControlStep == LedInv /\ [Next]_vars => Control'
<1> SUFFICES ASSUME LedInv, [Next]_vars PROVE Control'
  OBVIOUS
<1> USE DEF LedInv, TypeOK, Control, Inside, InAlert, vars, shared, led, device, mainVars, history, Goto
<1>1. CASE LoopTest
  BY <1>1 DEF LoopTest
<1>2. CASE OpenSucceeds
  BY <1>2 DEF OpenSucceeds
<1>3. CASE OpenFails
  BY <1>3 DEF OpenFails, CallDelay
<1>4. CASE Publish
  BY <1>4 DEF Publish
<1>5. CASE PopLock
  BY <1>5 DEF PopLock
<1>6. CASE Pop
  <2>1. op' = NoOp \/ op'.id > 0
    <3>1. CASE queue = <<>>
      BY <1>6, <3>1 DEF Pop
    <3>2. CASE queue # <<>>
      <4>1. Head(queue) \in Operations
        BY <3>2
      <4>2. QED
        BY <1>6, <3>2, <4>1, OperationFields DEF Pop
    <3>3. QED
      BY <3>1, <3>2
  <2>2. QED
    BY <1>6, <2>1 DEF Pop
<1>7. CASE DispatchNothing
  BY <1>7 DEF DispatchNothing
<1>8. CASE DispatchLedsOff
  BY <1>8 DEF DispatchLedsOff, Show, Written
<1>9. CASE DispatchMoodlight
  BY <1>9 DEF DispatchMoodlight
<1>10. CASE DispatchAlert
  BY <1>10 DEF DispatchAlert
<1>11. CASE SelectAlert
  BY <1>11 DEF SelectAlert
<1>12. CASE SelectMoodlight
  BY <1>12 DEF SelectMoodlight
<1>13. CASE SelectIdle
  BY <1>13 DEF SelectIdle, CallDelay
<1>14. CASE Moodlight
  BY <1>14 DEF Moodlight, CallDelay, Show, Written
<1>15. CASE AlertOption
  BY <1>15 DEF AlertOption, AlertCall, SetSmooth, Written
<1>16. CASE AlertFrame
  BY <1>16 DEF AlertFrame, AlertCall, Show, Written
<1>17. CASE AlertWait
  BY <1>17 DEF AlertWait, AlertCall, CallDelay
<1>18. CASE AlertClear
  BY <1>18 DEF AlertClear
<1>19. CASE DelayTest
  <2>1. CASE terminate
    BY <1>19, <2>1 DEF DelayTest, NoDelay
  <2>2. CASE ~terminate /\ delay.left = 0
    BY <1>19, <2>2 DEF DelayTest, NoDelay
  <2>3. CASE ~terminate /\ delay.left > 0
    BY <1>19, <2>3 DEF DelayTest, NoDelay
  <2>4. QED
    BY <2>1, <2>2, <2>3
<1>20. CASE PeekLock
  BY <1>20 DEF PeekLock
<1>21. CASE Peek
  <2>1. CASE queue = <<>>
    BY <1>21, <2>1 DEF Peek
  <2>2. CASE queue # <<>>
    BY <1>21, <2>2 DEF Peek, NoDelay
  <2>3. QED
    BY <2>1, <2>2
<1>22. CASE Sleep
  BY <1>22 DEF Sleep
<1>23. CASE PushLock
  BY <1>23 DEF PushLock
<1>24. CASE Push
  BY <1>24 DEF Push, SeenSizes
<1>25. CASE Terminate
  BY <1>25 DEF Terminate
<1>26. CASE Destroy
  BY <1>26 DEF Destroy
<1>27. CASE Unplug
  BY <1>27 DEF Unplug
<1>28. CASE Plug
  BY <1>28 DEF Plug
<1>29. CASE UNCHANGED vars
  BY <1>29
<1>30. QED
  BY <1>1, <1>2, <1>3, <1>4, <1>5, <1>6, <1>7, <1>8, <1>9, <1>10, <1>11, <1>12, <1>13, <1>14, <1>15, <1>16, <1>17, <1>18, <1>19, <1>20, <1>21, <1>22, <1>23, <1>24, <1>25, <1>26, <1>27, <1>28, <1>29 DEF Next, LedStep, MainStep

LEMMA QueueStep == LedInv /\ [Next]_vars => (DevicesKnown /\ ExactlyOnceInOrder)'
<1> SUFFICES ASSUME LedInv, [Next]_vars PROVE (DevicesKnown /\ ExactlyOnceInOrder)'
  OBVIOUS
<1> USE DEF LedInv, TypeOK, DevicesKnown, DeviceIndexSafe, PlayingPc, QueuedHasDevice, ExactlyOnceInOrder, Ending, vars, shared, led, device, mainVars, history, Goto
<1>1. CASE LoopTest
  BY <1>1 DEF LoopTest
<1>2. CASE OpenSucceeds
  BY <1>2 DEF OpenSucceeds
<1>3. CASE OpenFails
  BY <1>3 DEF OpenFails, CallDelay
<1>4. CASE Publish
  BY <1>4 DEF Publish
<1>5. CASE PopLock
  BY <1>5 DEF PopLock
<1>6. CASE Pop
  <2>1. CASE queue = <<>>
    BY <1>6, <2>1 DEF Pop
  <2>2. CASE queue # <<>>
    <3>1. /\ Len(queue') = Len(queue) - 1 /\ Len(queue) > 0 /\ Len(queue) \in Nat
          /\ \A i \in 1..Len(queue') : queue'[i] = queue[i + 1]
          /\ op' = queue[1]
      <4>1. queue' = Tail(queue) /\ op' = Head(queue)
        BY <1>6, <2>2 DEF Pop
      <4>2. queue \in Seq(Operations)
        OBVIOUS
      <4>3. QED
        BY ONLY <2>2, <4>1, <4>2, HeadTailProperties
    <3>2. main # "done" /\ main' = main /\ taken' = taken + 1 /\ accepted' = accepted
      BY <1>6, <2>2 DEF Pop
    <3>3. ExactlyOnceInOrder'
      <4>1. queue[1].id = taken + 1
        BY <3>1, <3>2
      <4>2. \A i \in 1..Len(queue') : queue'[i].id = taken' + i
        BY <3>1, <3>2
      <4>3. accepted' = taken' + Len(queue')
        BY <3>1, <3>2
      <4>4. QED
        BY <3>1, <3>2, <4>1, <4>2, <4>3
    <3>4. DevicesKnown'
      BY <1>6, <2>2 DEF Pop
    <3>5. QED
      BY <3>3, <3>4
  <2>3. QED
    BY <2>1, <2>2
<1>7. CASE DispatchNothing
  BY <1>7 DEF DispatchNothing
<1>8. CASE DispatchLedsOff
  BY <1>8 DEF DispatchLedsOff, Show, Written
<1>9. CASE DispatchMoodlight
  BY <1>9 DEF DispatchMoodlight
<1>10. CASE DispatchAlert
  BY <1>10 DEF DispatchAlert
<1>11. CASE SelectAlert
  BY <1>11 DEF SelectAlert
<1>12. CASE SelectMoodlight
  BY <1>12 DEF SelectMoodlight
<1>13. CASE SelectIdle
  BY <1>13 DEF SelectIdle, CallDelay
<1>14. CASE Moodlight
  BY <1>14 DEF Moodlight, CallDelay, Show, Written
<1>15. CASE AlertOption
  BY <1>15 DEF AlertOption, AlertCall, SetSmooth, Written
<1>16. CASE AlertFrame
  BY <1>16 DEF AlertFrame, AlertCall, Show, Written
<1>17. CASE AlertWait
  BY <1>17 DEF AlertWait, AlertCall, CallDelay
<1>18. CASE AlertClear
  BY <1>18 DEF AlertClear
<1>19. CASE DelayTest
  BY <1>19 DEF DelayTest
<1>20. CASE PeekLock
  BY <1>20 DEF PeekLock
<1>21. CASE Peek
  BY <1>21 DEF Peek
<1>22. CASE Sleep
  BY <1>22 DEF Sleep
<1>23. CASE PushLock
  BY <1>23 DEF PushLock
<1>24. CASE Push
  <2>1. DevicesKnown'
    BY <1>24 DEF Push, SeenSizes
  <2>2. CASE UNCHANGED <<queue, accepted>>
    BY <1>24, <2>1, <2>2 DEF Push
  <2>3. CASE /\ queue' = Append(queue, Operation(accepted + 1, arg))
             /\ accepted' = accepted + 1
    <3>1. accepted + 1 \in 1..MaxOps
      BY <1>24, MaxOpsAssumption DEF Push, CallsCounted
    <3>2. Operation(accepted + 1, arg) \in Operations /\ Operation(accepted + 1, arg).id = accepted + 1
      BY <3>1, OperationFields
    <3>3. /\ Len(queue') = Len(queue) + 1 /\ Len(queue) \in Nat
          /\ \A i \in 1..Len(queue) : queue'[i] = queue[i]
          /\ queue'[Len(queue) + 1] = Operation(accepted + 1, arg)
      BY <2>3, <3>2
    <3>4. main # "done" /\ UNCHANGED <<taken, op>>
      BY <1>24 DEF Push
    <3>5. ExactlyOnceInOrder'
      BY ONLY <2>3, <3>2, <3>3, <3>4, TypeOK, ExactlyOnceInOrder DEF ExactlyOnceInOrder, TypeOK
    <3>6. QED
      BY <2>1, <3>5
  <2>4. QED
    BY <1>24, <2>2, <2>3 DEF Push
<1>25. CASE Terminate
  BY <1>25 DEF Terminate
<1>26. CASE Destroy
  BY <1>26 DEF Destroy
<1>27. CASE Unplug
  BY <1>27 DEF Unplug
<1>28. CASE Plug
  BY <1>28 DEF Plug
<1>29. CASE UNCHANGED vars
  BY <1>29
<1>30. QED
  BY <1>1, <1>2, <1>3, <1>4, <1>5, <1>6, <1>7, <1>8, <1>9, <1>10, <1>11, <1>12, <1>13, <1>14, <1>15, <1>16, <1>17, <1>18, <1>19, <1>20, <1>21, <1>22, <1>23, <1>24, <1>25, <1>26, <1>27, <1>28, <1>29 DEF Next, LedStep, MainStep

LEMMA LedInvariant == Spec => []LedInv
<1>1. LedInv /\ [Next]_vars => LedInv'
  BY TypeStep, MutexStep, ControlStep, QueueStep DEF LedInv
<1>2. QED
  BY InitInv, <1>1, PTL DEF Spec

--------------------------------------------------------------------------------
(* The theorems. *)

(* Every variable of the LED thread keeps its type, whatever the names and   *)
(* however many operations: in particular step never runs off AlertScript.   *)
THEOREM TypeCorrect == Spec => []TypeOK
<1>1. LedInv => TypeOK
  BY DEF LedInv
<1>2. QED
  BY LedInvariant, <1>1, PTL

(* The queue is only used with the mutex held, by one thread at a time.      *)
THEOREM MutexCorrect == Spec => []QueueExclusive
<1>1. LedInv => QueueExclusive
  BY DEF LedInv
<1>2. QED
  BY LedInvariant, <1>1, PTL

(* devices[0] exists whenever Run, Alert or Moodlight index it.              *)
THEOREM DeviceIndexCorrect == Spec => []DeviceIndexSafe
<1>1. LedInv => DeviceIndexSafe
  BY DEF LedInv, DevicesKnown
<1>2. QED
  BY LedInvariant, <1>1, PTL

(* Every accepted operation is taken exactly once, in order.                 *)
THEOREM DeliveryCorrect == Spec => []ExactlyOnceInOrder
<1>1. LedInv => ExactlyOnceInOrder
  BY DEF LedInv
<1>2. QED
  BY LedInvariant, <1>1, PTL

(* Nothing is queued that no device will play.                               *)
THEOREM QueuedHasDeviceCorrect == Spec => []QueuedHasDevice
<1>1. LedInv => QueuedHasDevice
  BY DEF LedInv, DevicesKnown
<1>2. QED
  BY LedInvariant, <1>1, PTL

(* An alert that plays ends by itself: no step replaces its name by another, *)
(* and only alert.clear() at the end of Alert() empties it.                  *)
THEOREM AlertsAreNotOverwritten == Spec => AlertNeverOverwritten
<1> DEFINE Ends == alert # NoName => alert' = alert \/ (alert' = NoName /\ step = AlertLength + 1)
<1>1. ASSUME LedInv, [Next]_vars PROVE [Ends]_vars
  <2> USE DEF vars, shared, led, device, mainVars, history, Goto
  <2>1. CASE DispatchAlert
    <3>1. alert = NoName
      BY <1>1, <2>1 DEF DispatchAlert, LedInv, Control, InAlert, Inside
    <3>2. QED
      BY <3>1
  <2>2. CASE AlertClear
    BY <2>2 DEF AlertClear
  <2>3. CASE MainStep \/ Unplug \/ Plug \/ UNCHANGED vars
    <3>1. alert' = alert
      BY ONLY <2>3 DEF MainStep, PushLock, Push, Terminate, Destroy, Unplug, Plug,
                         vars, led
    <3> QED BY <3>1
  <2>4. CASE LoopTest \/ OpenSucceeds \/ OpenFails \/ Publish \/ PopLock \/ Pop
    <3>1. alert' = alert
      BY ONLY <2>4 DEF LoopTest, OpenSucceeds, OpenFails, Publish, PopLock, Pop,
                         CallDelay, led, shared
    <3> QED BY <3>1
  <2>5. CASE DispatchNothing \/ DispatchLedsOff \/ DispatchMoodlight
    <3>1. alert' = alert
      BY ONLY <2>5 DEF DispatchNothing, DispatchLedsOff, DispatchMoodlight
    <3> QED BY <3>1
  <2>6. CASE SelectAlert \/ SelectMoodlight \/ SelectIdle \/ Moodlight
    <3>1. CASE SelectAlert \/ SelectMoodlight \/ SelectIdle
      BY ONLY <3>1 DEF SelectAlert, SelectMoodlight, SelectIdle
    <3>2. CASE Moodlight
      BY ONLY <3>2 DEF Moodlight
    <3> QED BY <2>6, <3>1, <3>2
  <2>7. CASE AlertOption \/ AlertFrame \/ AlertWait
    <3>1. alert' = alert
      BY ONLY <2>7 DEF AlertOption, AlertFrame, AlertWait, AlertCall
    <3> QED BY <3>1
  <2>8. CASE DelayTest \/ PeekLock \/ Peek \/ Sleep
    <3>1. alert' = alert
      BY ONLY <2>8 DEF DelayTest, PeekLock, Peek, Sleep, led
    <3> QED BY <3>1
  <2>9. QED
    BY <1>1, <2>1, <2>2, <2>3, <2>4, <2>5, <2>6, <2>7, <2>8 DEF Next, LedStep
<1>2. QED
  BY LedInvariant, <1>1, PTL DEF Spec, AlertNeverOverwritten

--------------------------------------------------------------------------------
(* What the LEDs show, the smoothing and how long the queue waits.           *)

(* With the LEDs turned off there is no moodlight to light them, and Alert() *)
(* leaves them black after its last call.                                    *)
LightsKnown ==
  /\ moodOp = "SET_LEDS_OFF" => moodlight = NoName
  /\ pc = "moodlight" => alert = NoName /\ moodlight # NoName
  /\ InAlert /\ step = AlertLength + 1 /\ ~lost => leds \notin Lit
  /\ OffMeansDark

(* A device that is open and missed no write fades its colours, except from  *)
(* the first call of Alert() to its 17th, SetOption("smooth-slowdown", 255). *)
SmoothKnown ==
  /\ alert = NoName \/ pc = "select" => step = 1
  /\ handle = "live" /\ ~lost /\ (step = 1 \/ step > 17) => smooth = 255

(* The ticks Alert() has slept when it comes to each of its calls.           *)
Spent == <<0, 0, 0, 1, 1, 3, 3, 4, 4, 6, 6, 7, 7, 9, 9, 10, 10, 10, 25, 25>>

(* The head of the queue has waited at most for the part of an alert that    *)
(* was played; whoever sleeps outside an alert either saw an empty queue     *)
(* just before, or has no device and so no queue.                            *)
WaitKnown ==
  /\ waited <= MaxWait
  /\ queue = <<>> /\ main # "done" => waited = 0
  /\ pc \in {"dispatch", "select", "moodlight"} => waited = 0
  /\ pc = "alert" => waited <= Spent[step]
  /\ pc \in {"delay", "sleep"} /\ delay.ret = "alert" => waited + delay.left <= Spent[step]
  /\ pc \in {"delay", "sleep"} /\ delay.ret = "top" /\ ~delay.interruptable => devices = 0
  /\ pc = "sleep" /\ delay.interruptable => waited = 0

(* The calls of AlertScript that these invariants turn on.                   *)
LEMMA ScriptEnds ==
  /\ AlertScript[17] = Option(255)
  /\ AlertScript[19] = Black
  /\ \A i \in 1..19 : AlertScript[i].call = "option" => i \in {1, 17}
<1>1. AlertScript[17] = Option(255) /\ AlertScript[19] = Black
  BY DEF AlertScript
<1>2. \A i \in 1..19 : i \notin {1, 17} => AlertScript[i] \in {Colors, Black, Wait(50), Wait(200), Wait(1500)}
  BY DEF AlertScript
<1>3. QED
  BY <1>1, <1>2 DEF Colors, Black, Wait

LEMMA SpentSteps ==
  /\ Spent[1] = 0
  /\ \A i \in 1..20 : Spent[i] \in 0..25
  /\ \A i \in 1..19 :
       Spent[i + 1] = Spent[i] + IF AlertScript[i].call = "delay" THEN Ticks(AlertScript[i].arg) ELSE 0
<1>1. Ticks(50) = 1 /\ Ticks(200) = 2 /\ Ticks(1500) = 15
  BY DEF Ticks
<1>2. Spent[1] = 0 /\ \A i \in 1..20 : Spent[i] \in 0..25
  BY DEF Spent
<1>3. ASSUME NEW i \in 1..19
      PROVE  Spent[i + 1] = Spent[i] + IF AlertScript[i].call = "delay" THEN Ticks(AlertScript[i].arg) ELSE 0
  <2>1. CASE i \in {3, 7, 11, 15}
    <3>1. AlertScript[i] = Wait(50) /\ Spent[i + 1] = Spent[i] + 1
      BY <2>1 DEF AlertScript, Spent
    <3> QED BY <3>1, <1>1 DEF Wait
  <2>2. CASE i \in {5, 9, 13}
    <3>1. AlertScript[i] = Wait(200) /\ Spent[i + 1] = Spent[i] + 2
      BY <2>2 DEF AlertScript, Spent
    <3> QED BY <3>1, <1>1 DEF Wait
  <2>3. CASE i = 18
    <3>1. AlertScript[i] = Wait(1500) /\ Spent[i + 1] = Spent[i] + 15
      BY <2>3 DEF AlertScript, Spent
    <3> QED BY <3>1, <1>1 DEF Wait
  <2>4. CASE i \in {1, 2, 4, 6, 8, 10, 12, 14, 16, 17, 19}
    <3>1. AlertScript[i] \in {Option(0), Option(255), Colors, Black} /\ Spent[i + 1] = Spent[i]
      BY <2>4 DEF AlertScript, Spent
    <3>2. AlertScript[i].call # "delay" /\ Spent[i] \in 0..25
      BY <3>1, <1>2 DEF Option, Colors, Black
    <3> QED BY <3>1, <3>2
  <2> QED BY <2>1, <2>2, <2>3, <2>4
<1> QED BY <1>2, <1>3

LEMMA LightsStep == LedInv /\ LightsKnown /\ [Next]_vars => LightsKnown'
<1> SUFFICES ASSUME LedInv, LightsKnown, [Next]_vars PROVE LightsKnown'
  OBVIOUS
<1> USE DEF LedInv, TypeOK, Control, Inside, InAlert, LightsKnown, OffMeansDark, Lit, vars, shared, led, device, mainVars, history, Goto
<1>1. CASE LoopTest
  BY <1>1 DEF LoopTest
<1>2. CASE OpenSucceeds
  BY <1>2 DEF OpenSucceeds
<1>3. CASE OpenFails
  BY <1>3 DEF OpenFails, CallDelay
<1>4. CASE Publish
  BY <1>4 DEF Publish
<1>5. CASE PopLock
  BY <1>5 DEF PopLock
<1>6. CASE Pop
  BY <1>6 DEF Pop
<1>7. CASE DispatchNothing
  BY <1>7 DEF DispatchNothing
<1>8. CASE DispatchLedsOff
  BY <1>8 DEF DispatchLedsOff, Show, Written
<1>9. CASE DispatchMoodlight
  BY <1>9 DEF DispatchMoodlight
<1>10. CASE DispatchAlert
  BY <1>10 DEF DispatchAlert
<1>11. CASE SelectAlert
  BY <1>11, Script DEF SelectAlert
<1>12. CASE SelectMoodlight
  BY <1>12 DEF SelectMoodlight
<1>13. CASE SelectIdle
  BY <1>13 DEF SelectIdle, CallDelay
<1>14. CASE Moodlight
  BY <1>14 DEF Moodlight, CallDelay, Show, Written
<1>15. CASE AlertOption
  <2>1. step \in 1..19 /\ step # 19 /\ step' = step + 1
    <3>1. step \in 1..19 /\ step' = step + 1 /\ AlertScript[step].call = "option"
      BY <1>15, Script DEF AlertOption, AlertCall
    <3> QED BY <3>1, ScriptEnds
  <2>2. step' # AlertLength + 1
    BY ONLY <2>1, Script
  <2> QED BY <1>15, <2>1, <2>2 DEF AlertOption, AlertCall
<1>16. CASE AlertFrame
  <2>1. step \in 1..19 /\ step' = step + 1 /\ alert # NoName
    BY <1>16, Script DEF AlertFrame, AlertCall
  <2>2. step = 19 => (lost' \/ leds' = "black")
    <3>1. step = 19 => AlertScript[step].arg = 0
      BY ScriptEnds DEF Black
    <3>2. Show(IF AlertScript[step].arg = 1 THEN AlertColor(alert) ELSE "black")
      BY ONLY <1>16 DEF AlertFrame
    <3>3. ASSUME step = 19, NEW ok \in BOOLEAN, Written(ok), leds' = IF ok THEN "black" ELSE leds
          PROVE  lost' \/ leds' = "black"
      BY ONLY <3>3, lost \in BOOLEAN DEF Written
    <3>4. step = 19 => Show("black")
      BY ONLY <3>1, <3>2
    <3> QED BY ONLY <3>3, <3>4 DEF Show
  <2>3. step' = AlertLength + 1 => step = 19
    BY ONLY <2>1, Script
  <2> QED BY <1>16, <2>1, <2>2, <2>3 DEF AlertFrame, AlertCall
<1>17. CASE AlertWait
  <2>1. step \in 1..19 /\ step # 19 /\ step' = step + 1
    <3>1. step \in 1..19 /\ step' = step + 1 /\ AlertScript[step].call = "delay"
      BY <1>17, Script DEF AlertWait, AlertCall
    <3> QED BY <3>1, ScriptEnds DEF Black
  <2>2. step' # AlertLength + 1
    BY ONLY <2>1, Script
  <2> QED BY <1>17, <2>1, <2>2 DEF AlertWait, AlertCall, CallDelay
<1>18. CASE AlertClear
  BY <1>18 DEF AlertClear
<1>19. CASE DelayTest
  BY <1>19 DEF DelayTest
<1>20. CASE PeekLock
  BY <1>20 DEF PeekLock
<1>21. CASE Peek
  BY <1>21 DEF Peek
<1>22. CASE Sleep
  BY <1>22 DEF Sleep
<1>23. CASE PushLock
  BY <1>23 DEF PushLock
<1>24. CASE Push
  BY <1>24 DEF Push
<1>25. CASE Terminate
  BY <1>25 DEF Terminate
<1>26. CASE Destroy
  BY <1>26 DEF Destroy
<1>27. CASE Unplug
  BY <1>27 DEF Unplug
<1>28. CASE Plug
  BY <1>28 DEF Plug
<1>29. CASE UNCHANGED vars
  BY <1>29
<1>30. QED
  BY <1>1, <1>2, <1>3, <1>4, <1>5, <1>6, <1>7, <1>8, <1>9, <1>10, <1>11, <1>12, <1>13, <1>14, <1>15, <1>16, <1>17, <1>18, <1>19, <1>20, <1>21, <1>22, <1>23, <1>24, <1>25, <1>26, <1>27, <1>28, <1>29 DEF Next, LedStep, MainStep

LEMMA SmoothStep == LedInv /\ SmoothKnown /\ [Next]_vars => SmoothKnown'
<1> SUFFICES ASSUME LedInv, SmoothKnown, [Next]_vars PROVE SmoothKnown'
  OBVIOUS
<1> USE DEF LedInv, TypeOK, Control, Inside, InAlert, SmoothKnown, vars, shared, led, device, mainVars, history, Goto
<1>1. CASE LoopTest
  BY <1>1 DEF LoopTest
<1>2. CASE OpenSucceeds
  BY <1>2 DEF OpenSucceeds
<1>3. CASE OpenFails
  BY <1>3 DEF OpenFails, CallDelay
<1>4. CASE Publish
  BY <1>4 DEF Publish
<1>5. CASE PopLock
  BY <1>5 DEF PopLock
<1>6. CASE Pop
  BY <1>6 DEF Pop
<1>7. CASE DispatchNothing
  BY <1>7 DEF DispatchNothing
<1>8. CASE DispatchLedsOff
  BY <1>8 DEF DispatchLedsOff, Show, Written
<1>9. CASE DispatchMoodlight
  BY <1>9 DEF DispatchMoodlight
<1>10. CASE DispatchAlert
  BY <1>10 DEF DispatchAlert
<1>11. CASE SelectAlert
  BY <1>11 DEF SelectAlert
<1>12. CASE SelectMoodlight
  BY <1>12 DEF SelectMoodlight
<1>13. CASE SelectIdle
  BY <1>13 DEF SelectIdle, CallDelay
<1>14. CASE Moodlight
  <2>1. (~lost' => ~lost) /\ UNCHANGED <<alert, step, handle, smooth>>
    <3>1. CASE moodlight = "default"
      BY <1>14, <3>1 DEF Moodlight, Show, Written
    <3>2. CASE moodlight # "default"
      BY <1>14, <3>2 DEF Moodlight
    <3> QED BY <3>1, <3>2
  <2>2. pc = "moodlight" /\ pc' = "delay"
    BY <1>14 DEF Moodlight, CallDelay
  <2> QED BY <2>1, <2>2
<1>15. CASE AlertOption
  <2>1. step \in 1..19 /\ step' = step + 1 /\ AlertScript[step].call = "option"
    BY <1>15, Script DEF AlertOption, AlertCall
  <2>2. step \in {1, 17}
    BY ONLY <2>1, ScriptEnds
  <2>3. alert' # NoName /\ pc' = "alert"
    BY <1>15 DEF AlertOption, AlertCall
  <2>4. CASE step = 1
    BY ONLY <2>1, <2>3, <2>4 DEF SmoothKnown
  <2>5. CASE step = 17
    <3>1. AlertScript[step].arg = 255
      BY ONLY <2>5, ScriptEnds DEF Option
    <3>2. SetSmooth(AlertScript[step].arg)
      BY ONLY <1>15 DEF AlertOption
    <3>3. lost' \/ smooth' = 255
      <4>1. ASSUME NEW ok \in BOOLEAN, Written(ok), smooth' = IF ok THEN 255 ELSE smooth
            PROVE  lost' \/ smooth' = 255
        BY ONLY <4>1, lost \in BOOLEAN DEF Written
      <4> QED BY ONLY <3>1, <3>2, <4>1 DEF SetSmooth
    <3> QED BY ONLY <2>3, <3>3 DEF SmoothKnown
  <2> QED BY <2>2, <2>4, <2>5
<1>16. CASE AlertFrame
  <2>1. step \in 1..19 /\ step' = step + 1 /\ AlertScript[step].call = "frame" /\ alert' # NoName
        /\ pc' = "alert"
    BY <1>16, Script DEF AlertFrame, AlertCall
  <2>2. step # 17
    BY ONLY <2>1, ScriptEnds DEF Option
  <2>3. smooth' = smooth /\ handle' = handle /\ (~lost' => ~lost)
    BY <1>16, lost \in BOOLEAN DEF AlertFrame, AlertCall, Show, Written
  <2> QED BY ONLY <2>1, <2>2, <2>3, SmoothKnown DEF SmoothKnown
<1>17. CASE AlertWait
  <2>1. step \in 1..19 /\ step' = step + 1 /\ AlertScript[step].call = "delay" /\ alert' # NoName
        /\ pc' = "delay"
    BY <1>17, Script DEF AlertWait, AlertCall, CallDelay
  <2>2. step # 17
    BY ONLY <2>1, ScriptEnds DEF Option
  <2>3. smooth' = smooth /\ handle' = handle /\ lost' = lost
    BY <1>17 DEF AlertWait, AlertCall
  <2> QED BY ONLY <2>1, <2>2, <2>3, SmoothKnown DEF SmoothKnown
<1>18. CASE AlertClear
  <2>1. step = 20
    BY <1>18, Script DEF AlertClear
  <2> QED BY <1>18, <2>1 DEF AlertClear
<1>19. CASE DelayTest
  BY <1>19 DEF DelayTest
<1>20. CASE PeekLock
  BY <1>20 DEF PeekLock
<1>21. CASE Peek
  BY <1>21 DEF Peek
<1>22. CASE Sleep
  BY <1>22 DEF Sleep
<1>23. CASE PushLock
  BY <1>23 DEF PushLock
<1>24. CASE Push
  BY <1>24 DEF Push
<1>25. CASE Terminate
  BY <1>25 DEF Terminate
<1>26. CASE Destroy
  BY <1>26 DEF Destroy
<1>27. CASE Unplug
  BY <1>27 DEF Unplug
<1>28. CASE Plug
  BY <1>28 DEF Plug
<1>29. CASE UNCHANGED vars
  BY <1>29
<1>30. QED
  BY <1>1, <1>2, <1>3, <1>4, <1>5, <1>6, <1>7, <1>8, <1>9, <1>10, <1>11, <1>12, <1>13, <1>14, <1>15, <1>16, <1>17, <1>18, <1>19, <1>20, <1>21, <1>22, <1>23, <1>24, <1>25, <1>26, <1>27, <1>28, <1>29 DEF Next, LedStep, MainStep

LEMMA WaitStep == LedInv /\ WaitKnown /\ [Next]_vars => WaitKnown'
<1> SUFFICES ASSUME LedInv, WaitKnown, [Next]_vars PROVE WaitKnown'
  OBVIOUS
<1> USE DEF LedInv, TypeOK, Ending, Control, Inside, InAlert, DevicesKnown, DeviceIndexSafe, PlayingPc, QueuedHasDevice, WaitKnown, MaxWait, vars, shared, led, device, mainVars, history, Goto
<1>1. CASE LoopTest
  BY <1>1 DEF LoopTest
<1>2. CASE OpenSucceeds
  BY <1>2 DEF OpenSucceeds
<1>3. CASE OpenFails
  BY <1>3 DEF OpenFails, CallDelay
<1>4. CASE Publish
  BY <1>4 DEF Publish
<1>5. CASE PopLock
  BY <1>5 DEF PopLock
<1>6. CASE Pop
  <2>1. pc = "pop" /\ pc' = "dispatch" /\ main # "done" /\ UNCHANGED <<main, delay, devices>>
    BY <1>6 DEF Pop
  <2>2. waited' = 0
    BY <1>6, <2>1 DEF Pop
  <2> QED BY <2>1, <2>2
<1>7. CASE DispatchNothing
  BY <1>7 DEF DispatchNothing
<1>8. CASE DispatchLedsOff
  BY <1>8 DEF DispatchLedsOff, Show, Written
<1>9. CASE DispatchMoodlight
  BY <1>9 DEF DispatchMoodlight
<1>10. CASE DispatchAlert
  BY <1>10 DEF DispatchAlert
<1>11. CASE SelectAlert
  <2>1. waited' = 0 /\ Spent[step'] = 0
    BY <1>11, SpentSteps DEF SelectAlert
  <2> QED BY <1>11, <2>1 DEF SelectAlert
<1>12. CASE SelectMoodlight
  BY <1>12 DEF SelectMoodlight
<1>13. CASE SelectIdle
  BY <1>13 DEF SelectIdle, CallDelay
<1>14. CASE Moodlight
  BY <1>14 DEF Moodlight, CallDelay, Show, Written
<1>15. CASE AlertOption
  <2>1. step \in 1..19 /\ step' = step + 1 /\ AlertScript[step].call = "option"
    BY <1>15, Script DEF AlertOption, AlertCall
  <2>2. Spent[step'] = Spent[step]
    BY ONLY <2>1, SpentSteps
  <2> QED BY <1>15, <2>2 DEF AlertOption, AlertCall
<1>16. CASE AlertFrame
  <2>1. step \in 1..19 /\ step' = step + 1 /\ AlertScript[step].call = "frame"
    BY <1>16, Script DEF AlertFrame, AlertCall
  <2>2. Spent[step'] = Spent[step]
    BY ONLY <2>1, SpentSteps
  <2> QED BY <1>16, <2>2 DEF AlertFrame, AlertCall
<1>17. CASE AlertWait
  <2>1. step \in 1..19 /\ step' = step + 1 /\ AlertScript[step].call = "delay"
    BY <1>17, Script DEF AlertWait, AlertCall
  <2>2. Spent[step'] = Spent[step] + Ticks(AlertScript[step].arg) /\ Spent[step] \in 0..25
        /\ Ticks(AlertScript[step].arg) \in 0..15
    BY ONLY <2>1, SpentSteps, Script
  <2>3. delay'.left = Ticks(AlertScript[step].arg) /\ delay'.ret = "alert" /\ ~delay'.interruptable
        /\ waited' = waited /\ queue' = queue /\ main' = main /\ pc' = "delay"
    BY <1>17 DEF AlertWait, AlertCall, CallDelay
  <2>4. waited' + delay'.left <= Spent[step']
    <3>1. waited <= Spent[step]
      BY <1>17 DEF AlertWait, AlertCall
    <3>2. waited \in Nat
      OBVIOUS
    <3> QED BY ONLY <3>1, <3>2, <2>2, <2>3
  <2> QED BY <2>2, <2>3, <2>4
<1>18. CASE AlertClear
  BY <1>18 DEF AlertClear
<1>19. CASE DelayTest
  <2>1. waited' = waited /\ UNCHANGED <<queue, devices, main, step>>
    BY <1>19 DEF DelayTest
  <2>2. \/ pc' = "exited"
        \/ pc' = delay.ret /\ delay.left = 0
        \/ pc' \in {"peeklock", "sleep"} /\ delay' = delay
           /\ (pc' = "peeklock" => delay.interruptable) /\ (pc' = "sleep" => ~delay.interruptable)
    BY <1>19 DEF DelayTest
  <2>3. pc = "delay" /\ delay.ret \in {"top", "alert"}
    BY <1>19 DEF DelayTest
  <2> QED BY <2>1, <2>2, <2>3
<1>20. CASE PeekLock
  BY <1>20 DEF PeekLock
<1>21. CASE Peek
  <2>1. pc = "peek" /\ UNCHANGED <<queue, main, waited, devices, step>>
    BY <1>21 DEF Peek
  <2>2. \/ pc' = "top" /\ delay' = NoDelay
        \/ pc' = "sleep" /\ delay' = delay /\ queue = <<>> /\ main # "done"
    BY <1>21 DEF Peek
  <2> QED BY <2>1, <2>2
<1>22. CASE Sleep
  <2>1. pc = "sleep" /\ pc' = "delay" /\ main # "done" /\ delay.left > 0
        /\ UNCHANGED <<queue, devices, main, step>>
    BY <1>22 DEF Sleep
  <2>2. /\ delay'.left = delay.left - 1
        /\ delay'.ret = delay.ret /\ delay'.interruptable = delay.interruptable
    BY <1>22 DEF Sleep
  <2>3. waited' = IF queue # <<>> THEN waited + 1 ELSE 0
    BY <1>22 DEF Sleep
  <2>4. delay.ret = "alert" => waited' + delay'.left <= Spent[step'] /\ waited' <= 25
    <3>1. step \in 1..20
      BY Script
    <3>2. Spent[step] \in 0..25 /\ Spent[step'] = Spent[step]
      BY ONLY <2>1, <3>1, SpentSteps
    <3>3. delay.left \in 0..15 /\ waited \in Nat
      BY <2>1
    <3>4. waited' \in Nat /\ waited' <= waited + 1
      BY ONLY <2>3, <3>3
    <3>5. ASSUME delay.ret = "alert"
          PROVE  waited' + delay'.left <= Spent[step'] /\ waited' <= 25
      <4>1. waited + delay.left <= Spent[step]
        BY <2>1, <3>5
      <4> QED BY ONLY <2>1, <2>2, <3>2, <3>3, <3>4, <4>1
    <3> QED BY <3>5
  <2>5. delay.ret = "top" => waited' <= 1
    BY <2>1, <2>3
  <2>6. delay.ret \in {"top", "alert"}
    OBVIOUS
  <2> QED BY <2>1, <2>2, <2>3, <2>4, <2>5, <2>6
<1>23. CASE PushLock
  BY <1>23 DEF PushLock
<1>24. CASE Push
  <2>1. /\ pc # "exited" \/ main # "done"
        /\ main = "push" /\ UNCHANGED <<pc, delay, devices, step, waited>>
    BY <1>24 DEF Push, led
  <2>2. queue' = <<>> => queue = <<>>
    <3>1. queue \in Seq(Operations)
      OBVIOUS
    <3>2. \A e : Append(queue, e) # <<>>
      BY <3>1
    <3>3. (\E e : queue' = Append(queue, e)) \/ queue' = queue
      BY ONLY <1>24 DEF Push
    <3> QED BY <3>2, <3>3
  <2> QED BY <2>1, <2>2
<1>25. CASE Terminate
  BY <1>25 DEF Terminate
<1>26. CASE Destroy
  <2>1. pc' = "exited" /\ main' = "done" /\ waited' = waited
    BY <1>26 DEF Destroy
  <2> QED BY <2>1
<1>27. CASE Unplug
  BY <1>27 DEF Unplug
<1>28. CASE Plug
  BY <1>28 DEF Plug
<1>29. CASE UNCHANGED vars
  BY <1>29
<1>30. QED
  BY <1>1, <1>2, <1>3, <1>4, <1>5, <1>6, <1>7, <1>8, <1>9, <1>10, <1>11, <1>12, <1>13, <1>14, <1>15, <1>16, <1>17, <1>18, <1>19, <1>20, <1>21, <1>22, <1>23, <1>24, <1>25, <1>26, <1>27, <1>28, <1>29 DEF Next, LedStep, MainStep

LEMMA PlayInvariant == Spec => [](LightsKnown /\ SmoothKnown /\ WaitKnown)
<1>1. Init => LightsKnown /\ SmoothKnown /\ WaitKnown
  <2> SUFFICES ASSUME Init PROVE LightsKnown /\ SmoothKnown /\ WaitKnown
    OBVIOUS
  <2> USE DEF Init
  <2>1. LightsKnown
    BY DEF LightsKnown, InAlert, Inside, OffMeansDark
  <2>2. SmoothKnown
    BY DEF SmoothKnown
  <2>3. WaitKnown
    BY DEF WaitKnown, MaxWait
  <2> QED BY <2>1, <2>2, <2>3
<1>2. LedInv /\ LightsKnown /\ SmoothKnown /\ WaitKnown /\ [Next]_vars
        => (LightsKnown /\ SmoothKnown /\ WaitKnown)'
  BY LightsStep, SmoothStep, WaitStep
<1>3. QED
  BY LedInvariant, <1>1, <1>2, PTL DEF Spec

(* Off stays dark: no alert and no moodlight relights LEDs that were turned  *)
(* off, as long as no USB write is lost.                                     *)
THEOREM OffCorrect == Spec => []OffMeansDark
<1>1. LightsKnown => OffMeansDark
  BY DEF LightsKnown
<1>2. QED
  BY PlayInvariant, <1>1, PTL

(* Alert() always turns smoothing on again before anything else is played.   *)
THEOREM SmoothCorrect == Spec => []SmoothRestored
<1>1. SmoothKnown => SmoothRestored
  BY DEF SmoothKnown, SmoothRestored
<1>2. QED
  BY PlayInvariant, <1>1, PTL

(* The head of the queue waits for one alert at the longest, and never while *)
(* the LED thread idles.                                                     *)
THEOREM WaitCorrect == Spec => []HeadWaitBounded
<1>1. LedInv /\ WaitKnown => HeadWaitBounded
  <2> SUFFICES ASSUME LedInv, WaitKnown PROVE HeadWaitBounded
    OBVIOUS
  <2>1. ASSUME pc = "sleep", alert = NoName PROVE waited = 0
    <3>1. delay.ret = "top" /\ main # "done"
      BY <2>1 DEF LedInv, Control, InAlert, Inside, TypeOK, Ending
    <3>2. CASE delay.interruptable
      BY <2>1, <3>2 DEF WaitKnown
    <3>3. CASE ~delay.interruptable
      <4>1. devices = 0
        BY <2>1, <3>1, <3>3 DEF WaitKnown
      <4>2. queue = <<>>
        BY <2>1, <4>1 DEF LedInv, DevicesKnown, QueuedHasDevice
      <4> QED BY <3>1, <4>2 DEF WaitKnown
    <3> QED BY <3>2, <3>3
  <2>2. waited <= MaxWait
    BY DEF WaitKnown
  <2> QED BY <2>1, <2>2 DEF HeadWaitBounded
<1>2. QED
  BY LedInvariant, PlayInvariant, <1>1, PTL

--------------------------------------------------------------------------------
(* The LED thread implements LedService. *)

(* What a queue does when one operation goes in front of it or behind it.    *)
LEMMA Prepend ==
  ASSUME NEW S, NEW q \in Seq(S), NEW e \in S
  PROVE  /\ <<e>> \o q # <<>>
         /\ Head(<<e>> \o q) = e
         /\ Tail(<<e>> \o q) = q
<1>1. <<e>> \in Seq(S) /\ Len(<<e>>) = 1 /\ <<e>>[1] = e
  OBVIOUS
<1>2. /\ <<e>> \o q \in Seq(S) /\ Len(<<e>> \o q) = 1 + Len(q)
      /\ \A i \in 1..(1 + Len(q)) : (<<e>> \o q)[i] = IF i <= 1 THEN <<e>>[i] ELSE q[i - 1]
  BY <1>1, ConcatProperties
<1>3. QED
  BY <1>1, <1>2, HeadTailProperties, SeqEqual

LEMMA HeadAndTail ==
  ASSUME NEW S, NEW q \in Seq(S), q # <<>>
  PROVE  <<Head(q)>> \o Tail(q) = q
<1>1. Head(q) = q[1] /\ Head(q) \in S /\ Tail(q) \in Seq(S) /\ Len(Tail(q)) = Len(q) - 1
      /\ \A i \in 1..Len(Tail(q)) : Tail(q)[i] = q[i + 1]
  BY HeadTailProperties
<1>2. QED
  BY <1>1, ConcatProperties, SeqEqual

LEMMA AppendToConcat ==
  \A p, q \in Seq(Operations) : \A e \in Operations : Append(p \o q, e) = p \o Append(q, e)
<1> SUFFICES ASSUME NEW p \in Seq(Operations), NEW q \in Seq(Operations), NEW e \in Operations
             PROVE  Append(p \o q, e) = p \o Append(q, e)
  OBVIOUS
<1> DEFINE l == Append(p \o q, e)
           r == p \o Append(q, e)
<1>1. /\ p \o q \in Seq(Operations) /\ Len(p \o q) = Len(p) + Len(q)
      /\ \A i \in 1..(Len(p) + Len(q)) : (p \o q)[i] = IF i <= Len(p) THEN p[i] ELSE q[i - Len(p)]
  BY ConcatProperties
<1>2. /\ Append(q, e) \in Seq(Operations) /\ Len(Append(q, e)) = Len(q) + 1
      /\ \A i \in 1..(Len(q) + 1) : Append(q, e)[i] = IF i <= Len(q) THEN q[i] ELSE e
  OBVIOUS
<1>3. /\ r \in Seq(Operations) /\ Len(r) = Len(p) + (Len(q) + 1)
      /\ \A i \in 1..(Len(p) + (Len(q) + 1)) : r[i] = IF i <= Len(p) THEN p[i] ELSE Append(q, e)[i - Len(p)]
  <2>1. \A t \in Seq(Operations) :
          /\ p \o t \in Seq(Operations) /\ Len(p \o t) = Len(p) + Len(t)
          /\ \A i \in 1..(Len(p) + Len(t)) : (p \o t)[i] = IF i <= Len(p) THEN p[i] ELSE t[i - Len(p)]
    BY ConcatProperties
  <2>2. QED
    BY <1>2, <2>1
<1>4. /\ l \in Seq(Operations) /\ Len(l) = Len(p) + Len(q) + 1
      /\ \A i \in 1..(Len(p) + Len(q) + 1) : l[i] = IF i <= Len(p) + Len(q) THEN (p \o q)[i] ELSE e
  BY <1>1
<1>5. Len(p) \in Nat /\ Len(q) \in Nat
  OBVIOUS
<1> HIDE DEF l, r
<1>6. ASSUME NEW i \in 1..(Len(p) + Len(q) + 1) PROVE l[i] = r[i]
  <2>1. CASE i <= Len(p)
    BY <2>1, <1>1, <1>3, <1>4, <1>5
  <2>2. CASE i > Len(p)
    <3>1. r[i] = Append(q, e)[i - Len(p)] /\ i - Len(p) \in 1..(Len(q) + 1)
      BY <2>2, <1>3, <1>5
    <3>2. CASE i <= Len(p) + Len(q)
      BY <2>2, <3>1, <3>2, <1>1, <1>2, <1>4, <1>5
    <3>3. CASE i > Len(p) + Len(q)
      <4>1. i = Len(p) + Len(q) + 1 /\ i - Len(p) = Len(q) + 1
        BY <3>3, <1>5
      <4>2. Append(q, e)[Len(q) + 1] = e
        BY <1>2, <1>5
      <4>3. l[i] = e
        BY <4>1, <1>4, <1>5
      <4>4. QED
        BY <3>1, <4>1, <4>2, <4>3
    <3>4. QED
      BY <3>2, <3>3, <1>5
  <2>3. QED
    BY <2>1, <2>2, <1>5
<1>7. l = r
  BY <1>3, <1>4, <1>5, <1>6, SeqEqual
<1>8. QED
  BY <1>7 DEF l, r

LEMMA SameNames == Service!NoName = NoName /\ Service!Operations = Operations
<1>1. Service!NoName = NoName
  BY Zenon DEF Service!NoName, NoName
<1>2. QED
  BY <1>1 DEF Operations, Service!Operations

LEMMA InitRefines == Init => Service!Init
<1> SUFFICES ASSUME Init PROVE Service!Init
  OBVIOUS
<1>1. InHand = <<>> /\ queue = <<>>
  BY DEF Init, InHand
<1>2. InHand \o queue = <<>>
  BY <1>1
<1>3. QED
  BY <1>2, SameNames DEF Init, Service!Init

LEMMA StepRefines == LedInv /\ [Next]_vars => [Service!Next]_(Service!vars)
<1> SUFFICES ASSUME LedInv, [Next]_vars PROVE [Service!Next]_(Service!vars)
  OBVIOUS
<1> USE DEF vars, shared, led, device, mainVars, history, Goto
<1> DEFINE Stutter == UNCHANGED <<op, queue, alert, moodlight, terminate>>
<1>1. Stutter => UNCHANGED Service!vars
  BY DEF Service!vars, InHand
<1>2. queue \in Seq(Operations) /\ op \in Operations \cup {NoOp}
  BY DEF LedInv, TypeOK
<1>3. op = NoOp => InHand = <<>> /\ InHand \o queue = queue
  BY <1>2, ConcatEmptySeq DEF InHand
<1>4. op # NoOp =>
        /\ InHand = <<op>>
        /\ InHand \o queue # <<>> /\ Head(InHand \o queue) = op /\ Tail(InHand \o queue) = queue
  BY <1>2, Prepend DEF InHand
<1>5. CASE Pop
  <2>1. op = NoOp
    BY <1>5 DEF Pop, LedInv, Control
  <2>2. CASE queue = <<>>
    BY <1>1, <1>5, <2>2 DEF Pop
  <2>3. CASE queue # <<>>
    <3>1. op' = Head(queue) /\ queue' = Tail(queue) /\ UNCHANGED <<alert, moodlight, terminate>>
      BY <1>5, <2>3 DEF Pop
    <3>2. op' # NoOp
      <4>1. Head(queue) \in Operations
        BY <1>2, <2>3
      <4>2. QED
        BY <3>1, <4>1, OperationFields
    <3>3. (InHand \o queue)' = InHand \o queue
      BY <1>2, <1>3, <2>1, <2>3, <3>1, <3>2, HeadAndTail DEF InHand
    <3>4. QED
      BY <3>1, <3>3 DEF Service!vars
  <2>4. QED
    BY <2>2, <2>3
<1>6. CASE DispatchLedsOff \/ DispatchMoodlight \/ DispatchAlert
  <2>1. op # NoOp
    BY <1>6, OperationFields DEF DispatchLedsOff, DispatchMoodlight, DispatchAlert
  <2>2. op' = NoOp /\ queue' = queue /\ terminate' = terminate
    BY <1>6 DEF DispatchLedsOff, DispatchMoodlight, DispatchAlert
  <2>3. (InHand \o queue)' = Tail(InHand \o queue)
    <3>1. (InHand \o queue)' = queue
      BY <1>2, <2>2, ConcatEmptySeq DEF InHand
    <3>2. QED
      BY <1>4, <2>1, <3>1
  <2>4. alert = NoName
    BY <1>6 DEF DispatchLedsOff, DispatchMoodlight, DispatchAlert, LedInv, Control, InAlert, Inside
  <2>5. \/ op.opcode = "SET_LEDS_OFF"  /\ moodlight' = NoName   /\ UNCHANGED alert
        \/ op.opcode = "SET_MOODLIGHT" /\ moodlight' = op.param /\ UNCHANGED alert
        \/ op.opcode = "SET_ALERT"     /\ alert' = op.param /\ UNCHANGED moodlight
    BY <1>6 DEF DispatchLedsOff, DispatchMoodlight, DispatchAlert
  <2>6. Service!Apply
    BY <1>4, <2>1, <2>2, <2>3, <2>4, <2>5, SameNames DEF Service!Apply
  <2>7. QED
    BY <2>6 DEF Service!Next
<1>7. CASE AlertClear
  <2>1. alert # NoName
    BY <1>7 DEF AlertClear, LedInv, Control, InAlert
  <2>2. Service!AlertEnds
    BY <1>7, <2>1, SameNames DEF AlertClear, Service!AlertEnds, InHand
  <2>3. QED
    BY <2>2 DEF Service!Next
<1>8. CASE Push
  <2>1. CASE UNCHANGED queue
    BY <1>1, <1>8, <2>1 DEF Push
  <2>2. CASE queue' = Append(queue, Operation(accepted + 1, arg))
    <3> DEFINE o == Operation(accepted + 1, arg)
    <3>1. accepted + 1 \in 1..MaxOps /\ arg \in Requests
      BY <1>8, MaxOpsAssumption DEF Push, LedInv, CallsCounted, TypeOK
    <3>2. o \in Operations
      BY <3>1, OperationFields
    <3>3. InHand \in Seq(Operations) /\ InHand' = InHand
      BY <1>2, <1>8 DEF InHand, Push
    <3>4. Append(InHand \o queue, o) = InHand \o Append(queue, o)
      <4>1. queue \in Seq(Operations)
        BY <1>2
      <4>2. \A e \in Operations : Append(InHand \o queue, e) = InHand \o Append(queue, e)
        BY ONLY <4>1, <3>3, AppendToConcat
      <4>3. QED
        BY ONLY <4>2, <3>2
    <3>5. (InHand \o queue)' = Append(InHand \o queue, o)
      BY <2>2, <3>3, <3>4
    <3>6. ~terminate
      BY <1>8 DEF Push, LedInv, Ending
    <3>7. UNCHANGED <<alert, moodlight, terminate>>
      BY <1>8 DEF Push
    <3>8. Service!Submit(o)
      BY <3>5, <3>6, <3>7 DEF Service!Submit
    <3>9. QED
      BY <3>2, <3>8, SameNames DEF Service!Next
  <2>3. QED
    BY <1>8, <2>1, <2>2 DEF Push
<1>9. CASE Terminate
  <2>1. ~terminate
    BY <1>9 DEF Terminate, LedInv, Ending
  <2>2. Service!Close
    BY <1>9, <2>1 DEF Terminate, Service!Close, InHand
  <2>3. QED
    BY <2>2 DEF Service!Next
<1>10. CASE Destroy
  <2>1. terminate /\ op = NoOp
    BY <1>10 DEF Destroy, LedInv, Ending, Control
  <2>2. (InHand \o queue)' = <<>>
    BY <1>10, <2>1 DEF Destroy, InHand
  <2>3. Service!Drop
    BY <1>10, <2>1, <2>2 DEF Destroy, Service!Drop
  <2>4. QED
    BY <2>3 DEF Service!Next
<1>11. CASE LoopTest \/ OpenSucceeds \/ OpenFails \/ Publish \/ PopLock
  BY <1>1, <1>11 DEF LoopTest, OpenSucceeds, OpenFails, Publish, PopLock, CallDelay
<1>12. CASE DispatchNothing \/ SelectAlert \/ SelectMoodlight \/ SelectIdle \/ Moodlight
  <2>1. CASE Moodlight
    BY <1>1, <2>1 DEF Moodlight
  <2>2. CASE DispatchNothing \/ SelectAlert \/ SelectMoodlight \/ SelectIdle
    BY <1>1, <2>2 DEF DispatchNothing, SelectAlert, SelectMoodlight, SelectIdle
  <2>3. QED
    BY <1>12, <2>1, <2>2
<1>13. CASE AlertOption \/ AlertFrame \/ AlertWait
  BY <1>1, <1>13 DEF AlertOption, AlertFrame, AlertWait, AlertCall
<1>14. CASE DelayTest \/ PeekLock \/ Peek \/ Sleep
  BY <1>1, <1>14 DEF DelayTest, PeekLock, Peek, Sleep
<1>15. CASE PushLock \/ Unplug \/ Plug \/ UNCHANGED vars
  BY <1>1, <1>15 DEF PushLock, Unplug, Plug
<1>16. QED
  BY <1>5, <1>6, <1>7, <1>8, <1>9, <1>10, <1>11, <1>12, <1>13, <1>14, <1>15
     DEF Next, LedStep, MainStep

(* The LED thread, with its lock, its delays and its device, does nothing a  *)
(* LedService may not do: accepted operations take effect once, in order and *)
(* never during an alert.                                                    *)
THEOREM ImplementsService == Spec => ServiceSpec
<1>1. LedInv /\ [Next]_vars => [Service!Next]_(Service!vars)
  BY StepRefines
<1>2. QED
  BY InitRefines, LedInvariant, <1>1, PTL DEF Spec, ServiceSpec, Service!Spec
================================================================================
