---------------------------- MODULE LedServerThread ----------------------------
(***************************************************************************)
(* The LED thread of led-server (led-server-thread.cpp): the thread that   *)
(* owns the Lightpack and plays operations on it, and the three calls the  *)
(* main thread makes into it: PushOperation, Terminate and, after the      *)
(* pthread_join at the end of main, the destructor.                        *)
(*                                                                         *)
(* Both threads run here at the grain of their shared accesses: taking the *)
(* mutex, the critical section, an unlocked read of `terminate`, one USB   *)
(* write, one usleep(100 ms) of Delay.  Time is counted in such sleeps.    *)
(***************************************************************************)
EXTENDS LedOperations, Sequences

VARIABLES
  (* shared between the two threads *)
  mutex,          (* "free", or the thread holding it: "led" or "main"       *)
  queue,          (* std::queue<LedOperation *>                              *)
  devices,        (* devices.size()                                          *)
  terminate,
  (* the LED thread *)
  pc,             (* where the LED thread is                                 *)
  op,             (* Run's local op, NoOp for NULL                           *)
  moodlight, alert,
  step,           (* position of Alert() in AlertScript                      *)
  delay,          (* Delay()'s frame: ticks left, interruptable, return pc   *)
  (* the main thread *)
  main,           (* "idle" | "push" | "join" | "done"                       *)
  arg,            (* the operation PushOperation is called with              *)
  (* the Lightpack *)
  plugged,        (* the device is attached and can be claimed               *)
  handle,         (* its hid_device: "none", "live", or "dead" (unplugged)   *)
  leds,           (* what the LEDs show                                      *)
  smooth,         (* the firmware's smooth-slowdown setting                  *)
  (* history *)
  offered,        (* calls of PushOperation so far                           *)
  accepted,       (* those that queued their operation                       *)
  taken,          (* operations the LED thread took off the queue            *)
  moodOp,         (* opcode of the last off/moodlight operation applied      *)
  lost,           (* some USB write failed twice                             *)
  waited          (* ticks slept since the head of the queue became head     *)

shared   == <<mutex, queue, devices, terminate>>
led      == <<pc, op, moodlight, alert, step, delay>>
device   == <<plugged, handle, leds, smooth>>
mainVars == <<main, arg>>
history  == <<offered, accepted, taken, moodOp, lost, waited>>
vars     == <<shared, led, device, mainVars, history>>

--------------------------------------------------------------------------------
(* What the Lightpack can show, and how Alert() drives it. *)

(* the colour Alert() fills `colors` with                                    *)
AlertColor(name) ==
  CASE name = "link-up"         -> "green"
    [] name = "link-down"       -> "red"
    [] name = "generic-warning" -> "yellow"
    [] OTHER                    -> "white"

Lit == {"green", "red", "yellow", "white", "mood"}
Shows == Lit \cup {"boot", "off", "black"}

(* Alert() as the list of its calls: SetOption("smooth-slowdown", v),        *)
(* SetLedColors(colors) (arg 1) or SetLedColors(black) (arg 0), Delay(ms).   *)
Option(v) == [call |-> "option", arg |-> v]
Colors    == [call |-> "frame",  arg |-> 1]
Black     == [call |-> "frame",  arg |-> 0]
Wait(ms)  == [call |-> "delay",  arg |-> ms]

(* bug variant: smoothing is left off after the flashes                      *)
AlertScriptRough == <<
  Option(0), Black, Wait(50),
  Colors, Wait(200), Black, Wait(50),
  Colors, Wait(200), Black, Wait(50),
  Colors, Wait(200), Black, Wait(50),
  Colors, Option(0), Wait(1500), Black >>

AlertScript == <<
  Option(0), Black, Wait(50),
  Colors, Wait(200), Black, Wait(50),
  Colors, Wait(200), Black, Wait(50),
  Colors, Wait(200), Black, Wait(50),
  Colors, Option(255), Wait(1500), Black >>

AlertLength == Len(AlertScript)

(* bug variant: i >= 0                                                       *)
TicksOneMore(ms) == ms \div 100 + 1

(* for (i = ms; i > 0; i -= 100): the iterations of Delay's loop             *)
Ticks(ms) == (ms + 99) \div 100

--------------------------------------------------------------------------------
(* Helpers of the LED thread. *)

Goto(from, to) == pc = from /\ pc' = to

(* no call of PushOperation is in progress                                   *)
NoArg == [opcode |-> "SET_LEDS_OFF", param |-> NoName]

NoDelay == [left |-> 0, interruptable |-> FALSE, ret |-> "top"]

(* Call Delay(ms, interruptable) from a place that continues at `ret`.       *)
CallDelay(from, ms, interruptable, ret) ==
  /\ Goto(from, "delay")
  /\ delay' = [left |-> Ticks(ms), interruptable |-> interruptable, ret |-> ret]

(* LedDriverLightpack::Write: both hid_write attempts fail or one gets       *)
(* through; the result is discarded by every caller.  A dead handle always   *)
(* fails.                                                                    *)
Written(ok) ==
  /\ ok => handle = "live"
  /\ lost' = (lost \/ ~ok)

Show(what) ==
  \E ok \in BOOLEAN :
    /\ Written(ok)
    /\ leds' = IF ok THEN what ELSE leds

SetSmooth(value) ==
  \E ok \in BOOLEAN :
    /\ Written(ok)
    /\ smooth' = IF ok THEN value ELSE smooth

--------------------------------------------------------------------------------
(* Run(): the loop of the LED thread. *)

(* bug variant: the loop goes on without a device                            *)
LoopTestNoOpen ==
  /\ Goto("top", IF terminate THEN "exited" ELSE "lock")
  /\ UNCHANGED <<shared, op, moodlight, alert, step, delay, device, mainVars, history>>

(* `!terminate` of the for loop, then `devices.size() == 0`                  *)
LoopTest ==
  /\ \/ terminate /\ Goto("top", "exited")
     \/ ~terminate /\ devices = 0 /\ Goto("top", "open")
     \/ ~terminate /\ devices > 0 /\ Goto("top", "lock")
  /\ UNCHANGED <<shared, op, moodlight, alert, step, delay, device, mainVars, history>>

(* OpenDevices(): Open() finds and opens the Lightpack, and the three        *)
(* SetOption calls write to it; push_back is the separate step Publish.      *)
OpenSucceeds ==
  /\ plugged
  /\ Goto("open", "publish")
  /\ handle' = "live"
  /\ \E ok \in BOOLEAN :
       /\ lost' = (lost \/ ~ok)
       /\ smooth' = IF ok THEN 255 ELSE smooth
  /\ UNCHANGED <<shared, op, moodlight, alert, step, delay, plugged, leds, mainVars,
                 offered, accepted, taken, moodOp, waited>>

(* bug variant: the exception of Open() ends the thread                      *)
OpenFailsUncaught ==
  /\ ~plugged
  /\ Goto("open", "exited")
  /\ UNCHANGED <<shared, op, moodlight, alert, step, delay, device, mainVars, history>>

(* Open() throws "no devices found", the driver is deleted, Delay(1000)      *)
OpenFails ==
  /\ ~plugged
  /\ CallDelay("open", 1000, FALSE, "top")
  /\ UNCHANGED <<shared, op, moodlight, alert, step, device, mainVars, history>>

(* devices.push_back(lightpack), without the mutex                           *)
Publish ==
  /\ Goto("publish", "lock")
  /\ devices' = devices + 1
  /\ UNCHANGED <<mutex, queue, terminate, op, moodlight, alert, step, delay,
                 device, mainVars, history>>

PopLock ==
  /\ mutex = "free"
  /\ mutex' = "led"
  /\ Goto("lock", "pop")
  /\ UNCHANGED <<queue, devices, terminate, op, moodlight, alert, step, delay,
                 device, mainVars, history>>

(* bug variant: front() without pop()                                        *)
PopKeeping ==
  /\ Goto("pop", "dispatch")
  /\ mutex' = "free"
  /\ IF queue # <<>>
     THEN op' = Head(queue) /\ taken' = taken + 1 /\ waited' = 0
     ELSE UNCHANGED <<op, taken, waited>>
  /\ UNCHANGED <<queue, devices, terminate, moodlight, alert, step, delay, device, mainVars,
                 offered, accepted, moodOp, lost>>

(* front(), pop() and the unlock                                             *)
Pop ==
  /\ Goto("pop", "dispatch")
  /\ mutex' = "free"
  /\ IF queue # <<>>
     THEN /\ op' = Head(queue)
          /\ queue' = Tail(queue)
          /\ taken' = taken + 1
          /\ waited' = 0
     ELSE UNCHANGED <<op, queue, taken, waited>>
  /\ UNCHANGED <<devices, terminate, moodlight, alert, step, delay, device, mainVars,
                 offered, accepted, moodOp, lost>>

(* the switch on op->opcode; the operation is then deleted                   *)
DispatchNothing ==
  /\ op = NoOp
  /\ Goto("dispatch", "select")
  /\ UNCHANGED <<shared, op, moodlight, alert, step, delay, device, mainVars, history>>

(* bug variant: moodlight.clear() is missing                                 *)
DispatchLedsOffKeepsMood ==
  /\ op.opcode = "SET_LEDS_OFF"
  /\ Goto("dispatch", "select")
  /\ Show("off")
  /\ moodOp' = op.opcode
  /\ op' = NoOp
  /\ UNCHANGED <<shared, moodlight, alert, step, delay, plugged, handle, smooth, mainVars,
                 offered, accepted, taken, waited>>

DispatchLedsOff ==
  /\ op.opcode = "SET_LEDS_OFF"
  /\ Goto("dispatch", "select")
  /\ Show("off")
  /\ moodlight' = NoName
  /\ moodOp' = op.opcode
  /\ op' = NoOp
  /\ UNCHANGED <<shared, alert, step, delay, plugged, handle, smooth, mainVars,
                 offered, accepted, taken, waited>>

DispatchMoodlight ==
  /\ op.opcode = "SET_MOODLIGHT"
  /\ Goto("dispatch", "select")
  /\ moodlight' = op.param
  /\ moodOp' = op.opcode
  /\ op' = NoOp
  /\ UNCHANGED <<shared, alert, step, delay, device, mainVars,
                 offered, accepted, taken, lost, waited>>

DispatchAlert ==
  /\ op.opcode = "SET_ALERT"
  /\ Goto("dispatch", "select")
  /\ alert' = op.param
  /\ op' = NoOp
  /\ UNCHANGED <<shared, moodlight, step, delay, device, mainVars, history>>

(* if (alert.size()) ... else if (moodlight.size()) ... else Delay(500)      *)
SelectAlert ==
  /\ alert # NoName
  /\ Goto("select", "alert")
  /\ step' = 1
  /\ UNCHANGED <<shared, op, moodlight, alert, delay, device, mainVars, history>>

SelectMoodlight ==
  /\ alert = NoName /\ moodlight # NoName
  /\ Goto("select", "moodlight")
  /\ UNCHANGED <<shared, op, moodlight, alert, step, delay, device, mainVars, history>>

SelectIdle ==
  /\ alert = NoName /\ moodlight = NoName
  /\ CallDelay("select", 500, TRUE, "top")
  /\ UNCHANGED <<shared, op, moodlight, alert, step, device, mainVars, history>>

(* Moodlight(): a random frame when the mood is "default", then Delay(1500). *)
Moodlight ==
  /\ CallDelay("moodlight", 1500, TRUE, "top")
  /\ IF moodlight = "default" THEN Show("mood") ELSE UNCHANGED <<leds, lost>>
  /\ UNCHANGED <<shared, op, moodlight, alert, step, plugged, handle, smooth, mainVars,
                 offered, accepted, taken, moodOp, waited>>

--------------------------------------------------------------------------------
(* Alert(), one action per kind of call. *)

AlertCall(call) ==
  /\ pc = "alert" /\ step <= AlertLength
  /\ AlertScript[step].call = call
  /\ step' = step + 1
  /\ UNCHANGED <<shared, op, moodlight, alert, mainVars,
                 plugged, handle, offered, accepted, taken, moodOp, waited>>

AlertOption ==
  /\ AlertCall("option")
  /\ SetSmooth(AlertScript[step].arg)
  /\ UNCHANGED <<pc, delay, leds>>

AlertFrame ==
  /\ AlertCall("frame")
  /\ Show(IF AlertScript[step].arg = 1 THEN AlertColor(alert) ELSE "black")
  /\ UNCHANGED <<pc, delay, smooth>>

AlertWait ==
  /\ AlertCall("delay")
  /\ CallDelay("alert", AlertScript[step].arg, FALSE, "alert")
  /\ UNCHANGED <<leds, smooth, lost>>

(* bug variant: alert.clear() is missing                                     *)
AlertClearMissing ==
  /\ step = AlertLength + 1
  /\ Goto("alert", "top")
  /\ step' = 1
  /\ UNCHANGED <<shared, op, moodlight, alert, delay, device, mainVars, history>>

(* alert.clear(), and back to the loop in Run                                *)
AlertClear ==
  /\ step = AlertLength + 1
  /\ Goto("alert", "top")
  /\ alert' = NoName
  /\ step' = 1
  /\ UNCHANGED <<shared, op, moodlight, delay, device, mainVars, history>>

--------------------------------------------------------------------------------
(* Delay(). *)

(* the loop condition, and pthread_exit when it ended because of terminate   *)
DelayTest ==
  /\ \/ terminate /\ Goto("delay", "exited")
     \/ ~terminate /\ delay.left = 0 /\ Goto("delay", delay.ret)
     \/ ~terminate /\ delay.left > 0
          /\ Goto("delay", IF delay.interruptable THEN "peeklock" ELSE "sleep")
  /\ delay' = IF pc' \in {"peeklock", "sleep"} THEN delay ELSE NoDelay
  /\ UNCHANGED <<shared, op, moodlight, alert, step, device, mainVars, history>>

PeekLock ==
  /\ mutex = "free"
  /\ mutex' = "led"
  /\ Goto("peeklock", "peek")
  /\ UNCHANGED <<queue, devices, terminate, op, moodlight, alert, step, delay,
                 device, mainVars, history>>

(* bug variant: size() > 1                                                   *)
PeekPastOne ==
  /\ Goto("peek", IF Len(queue) > 1 THEN delay.ret ELSE "sleep")
  /\ mutex' = "free"
  /\ delay' = IF Len(queue) > 1 THEN NoDelay ELSE delay
  /\ UNCHANGED <<queue, devices, terminate, op, moodlight, alert, step,
                 device, mainVars, history>>

(* bug variant: Delay() returns before it unlocks                            *)
PeekLeavesLocked ==
  /\ Goto("peek", IF queue # <<>> THEN delay.ret ELSE "sleep")
  /\ mutex' = IF queue # <<>> THEN mutex ELSE "free"
  /\ delay' = IF queue # <<>> THEN NoDelay ELSE delay
  /\ UNCHANGED <<queue, devices, terminate, op, moodlight, alert, step,
                 device, mainVars, history>>

(* queue.size() > 0 interrupts the delay                                     *)
Peek ==
  /\ Goto("peek", IF queue # <<>> THEN delay.ret ELSE "sleep")
  /\ mutex' = "free"
  /\ delay' = IF queue # <<>> THEN NoDelay ELSE delay
  /\ UNCHANGED <<queue, devices, terminate, op, moodlight, alert, step,
                 device, mainVars, history>>

Sleep ==
  /\ Goto("sleep", "delay")
  /\ delay' = [delay EXCEPT !.left = @ - 1]
  /\ waited' = IF queue # <<>> THEN waited + 1 ELSE 0
  /\ UNCHANGED <<shared, op, moodlight, alert, step, device, mainVars,
                 offered, accepted, taken, moodOp, lost>>

LedStep ==
  \/ LoopTest \/ OpenSucceeds \/ OpenFails \/ Publish
  \/ PopLock \/ Pop
  \/ DispatchNothing \/ DispatchLedsOff \/ DispatchMoodlight \/ DispatchAlert
  \/ SelectAlert \/ SelectMoodlight \/ SelectIdle \/ Moodlight
  \/ AlertOption \/ AlertFrame \/ AlertWait \/ AlertClear
  \/ DelayTest \/ PeekLock \/ Peek \/ Sleep

--------------------------------------------------------------------------------
(* The main thread's calls. *)

(* bug variant: PushOperation does not lock                                  *)
PushLockMissing ==
  /\ main = "idle" /\ offered < MaxOps
  /\ mutex' = "main"
  /\ main' = "push"
  /\ arg' \in Requests
  /\ offered' = offered + 1
  /\ UNCHANGED <<queue, devices, terminate, led, device,
                 accepted, taken, moodOp, lost, waited>>

(* process_request calls PushOperation, which takes the mutex                *)
PushLock ==
  /\ main = "idle" /\ offered < MaxOps
  /\ mutex = "free"
  /\ mutex' = "main"
  /\ main' = "push"
  /\ arg' \in Requests
  /\ offered' = offered + 1
  /\ UNCHANGED <<queue, devices, terminate, led, device,
                 accepted, taken, moodOp, lost, waited>>

(* bug variant: operations are queued whether or not there is a device       *)
SeenSizesUnchecked == {1}

(* What devices.size() may read: Publish runs without the mutex, so a read   *)
(* while it is in progress may see the vector before or after the insertion. *)
SeenSizes == IF pc = "publish" THEN {devices, devices + 1} ELSE {devices}

(* `if (devices.size())` queue a new LedOperation; unlock                    *)
Push ==
  /\ main = "push"
  /\ \E size \in SeenSizes :
       IF size > 0
       THEN /\ queue' = Append(queue, Operation(accepted + 1, arg))
            /\ accepted' = accepted + 1
       ELSE UNCHANGED <<queue, accepted>>
  /\ mutex' = "free"
  /\ main' = "idle"
  /\ arg' = NoArg
  /\ UNCHANGED <<devices, terminate, led, device, offered, taken, moodOp, lost, waited>>

(* SIGINT, SIGHUP, SIGTERM: Terminate(), then main goes to pthread_join      *)
Terminate ==
  /\ main = "idle"
  /\ terminate' = TRUE
  /\ main' = "join"
  /\ UNCHANGED <<mutex, queue, devices, led, device, arg, history>>

(* bug variant: main does not wait for the LED thread                        *)
DestroyUnjoined ==
  /\ main = "join"
  /\ main' = "done"
  /\ queue' = <<>>
  /\ devices' = 0
  /\ handle' = "none"
  /\ UNCHANGED <<mutex, terminate, led, plugged, leds, smooth, arg, history>>

(* pthread_join returns; ~LedServerThread frees the queue and the devices    *)
Destroy ==
  /\ main = "join" /\ pc = "exited"
  /\ main' = "done"
  /\ queue' = <<>>
  /\ devices' = 0
  /\ handle' = "none"
  /\ UNCHANGED <<mutex, terminate, led, plugged, leds, smooth, arg, history>>

MainStep == PushLock \/ Push \/ Terminate \/ Destroy

--------------------------------------------------------------------------------
(* The USB bus. *)

(* The Lightpack loses its power; a hid_device on it stays dead for ever.    *)
Unplug ==
  /\ plugged
  /\ plugged' = FALSE
  /\ handle' = IF handle = "live" THEN "dead" ELSE handle
  /\ leds' = "boot" /\ smooth' = 0
  /\ UNCHANGED <<shared, led, mainVars, history>>

Plug ==
  /\ ~plugged
  /\ plugged' = TRUE
  /\ UNCHANGED <<shared, led, handle, leds, smooth, mainVars, history>>

--------------------------------------------------------------------------------
Init ==
  /\ mutex = "free" /\ queue = <<>> /\ devices = 0 /\ terminate = FALSE
  /\ pc = "top" /\ op = NoOp /\ moodlight = NoName /\ alert = NoName /\ step = 1
  /\ delay = NoDelay
  /\ main = "idle" /\ arg = NoArg
  /\ plugged \in BOOLEAN /\ handle = "none" /\ leds = "boot" /\ smooth = 0
  /\ offered = 0 /\ accepted = 0 /\ taken = 0 /\ moodOp = "NULL"
  /\ lost = FALSE /\ waited = 0

Next == LedStep \/ MainStep \/ Unplug \/ Plug

Spec == Init /\ [][Next]_vars

(* The scheduler runs the LED thread; PushOperation and, once the LED thread *)
(* has exited, the rest of main finish.  Nothing makes a signal, a request   *)
(* or a plug event happen.                                                   *)
Fairness == WF_vars(LedStep) /\ WF_vars(Push) /\ WF_vars(Destroy)

FairSpec == Spec /\ Fairness

--------------------------------------------------------------------------------
(* Properties. *)

TypeOK ==
  /\ mutex \in {"free", "led", "main"}
  /\ queue \in Seq(Operations)
  /\ devices \in 0..1 /\ terminate \in BOOLEAN
  /\ pc \in {"top", "open", "publish", "lock", "pop", "dispatch", "select", "alert",
             "moodlight", "delay", "peeklock", "peek", "sleep", "exited"}
  /\ op \in Operations \cup {NoOp}
  /\ moodlight \in MoodNames \cup {NoName} /\ alert \in AlertNames \cup {NoName}
  /\ step \in 1..(AlertLength + 1)
  /\ delay \in [left : 0..15, interruptable : BOOLEAN, ret : {"top", "alert"}]
  /\ main \in {"idle", "push", "join", "done"} /\ arg \in Requests
  /\ plugged \in BOOLEAN /\ handle \in {"none", "live", "dead"}
  /\ leds \in Shows /\ smooth \in {0, 255}
  /\ offered \in 0..MaxOps /\ accepted \in 0..MaxOps /\ taken \in 0..MaxOps
  /\ moodOp \in {"NULL", "SET_LEDS_OFF", "SET_MOODLIGHT"}
  /\ lost \in BOOLEAN /\ waited \in Nat

(* The queue is only touched by the thread that holds the mutex, the two     *)
(* critical sections never overlap, and neither thread stops with the mutex  *)
(* held (pthread_exit inside Delay never runs between lock and unlock).      *)
LedInside  == pc \in {"pop", "peek"}
MainInside == main = "push"
QueueExclusive ==
  /\ ~(LedInside /\ MainInside)
  /\ mutex = "led" <=> LedInside
  /\ mutex = "main" <=> MainInside

(* Run, Alert and Moodlight index devices[0]: whenever the LED thread may    *)
(* still do so, also from within a delay of Alert, the vector has its one    *)
(* element, although OpenDevices and PushOperation share it without a lock.  *)
PlayingPc == {"lock", "pop", "dispatch", "select", "alert", "moodlight", "peeklock", "peek"}
DeviceIndexSafe ==
  /\ pc \in PlayingPc => devices = 1
  /\ pc \in {"delay", "sleep"} /\ delay.ret = "alert" => devices = 1
  /\ devices = 1 => handle # "none"

(* Until the destructor drops what is left, every operation PushOperation    *)
(* accepted is taken exactly once and in order: the queue holds exactly the  *)
(* accepted operations that were not taken, oldest first, and the operation  *)
(* being dispatched is the last one taken.                                   *)
ExactlyOnceInOrder ==
  main # "done" =>
    /\ accepted = taken + Len(queue)
    /\ \A i \in 1..Len(queue) : queue[i].id = taken + i
    /\ op # NoOp => op.id = taken

(* An operation is never queued for a server that has no device to play it   *)
(* on: a queued operation implies an opened device or the insertion of one   *)
(* under way, which PushOperation saw half done.                             *)
QueuedHasDevice == queue # <<>> => devices = 1 \/ pc = "publish"

(* An alert is played to its end, or cut by termination, before any other    *)
(* operation is applied: alert never changes from one name to another, and   *)
(* no operation is in hand while it plays.                                   *)
AlertNeverOverwritten ==
  [][alert # NoName => alert' = alert \/ (alert' = NoName /\ step = AlertLength + 1)]_vars

(* "Turn off all LEDs" lasts: when the latest off or moodlight operation is  *)
(* an off and no alert plays, the LEDs show no colour, however many alerts   *)
(* came and went since; only a USB write that failed twice can break it.     *)
OffMeansDark ==
  moodOp = "SET_LEDS_OFF" /\ alert = NoName /\ ~lost => leds \notin Lit

(* Alert() turns smoothing off to flash and always turns it on again: outside *)
(* an alert a working Lightpack fades its colours, unless a write was lost.   *)
SmoothRestored ==
  pc \in PlayingPc /\ alert = NoName /\ handle = "live" /\ ~lost => smooth = 255

(* The interruptable delays do their job: the oldest queued operation is     *)
(* taken after at most one alert (25 sleeps of 100 ms), and an idle or       *)
(* moodlight delay never starts another sleep while an operation that was    *)
(* there at the end of the last one waits.                                   *)
MaxWait == 25
HeadWaitBounded ==
  /\ waited <= MaxWait
  /\ pc = "sleep" /\ alert = NoName => waited = 0

(* Terminate() makes the LED thread exit and main return.                    *)
TerminateEnds == terminate ~> main = "done"

(* A Lightpack that is plugged in and stays is opened in the end, unless the *)
(* server is told to stop.                                                   *)
OpensWhenPlugged == <>[]plugged => <>(devices = 1 \/ terminate)

(* The service a client relies on, see LedService: the operation in hand is  *)
(* still pending, it takes effect when it is dispatched.                     *)
InHand == IF op = NoOp THEN <<>> ELSE <<op>>
Service == INSTANCE LedService WITH
             pending <- InHand \o queue,
             playing <- alert,
             mood    <- moodlight,
             open    <- ~terminate
ServiceSpec == Service!Spec
ServiceFairSpec == Service!FairSpec
================================================================================
