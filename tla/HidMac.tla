---------------------------------- MODULE HidMac ----------------------------------
(***************************************************************************)
(* One hid_device of hidapi on Mac OS X (hidapi/mac/hid.c) from hid_open   *)
(* to hid_close: the thread that owns it, its read thread, and the removal *)
(* callback of the HID manager.                                            *)
(*                                                                         *)
(* CoreFoundation and IOKit are external.  The read thread runs a run loop *)
(* of its own, which delivers input reports; the manager's callbacks run   *)
(* in the run loop of the thread that called hid_init first, and only when *)
(* that thread calls process_pending_events: in hid_enumerate and          *)
(* hid_open_path.                                                          *)
(***************************************************************************)
EXTENDS Integers, Sequences

CONSTANTS
  QueueLimit,   (* 30 in hid_report_callback                                  *)
  MaxReports,   (* bound: input reports the device sends                      *)
  MaxCalls,     (* bound: calls of hid_read_timeout                           *)
  Managers      (* who may have called hid_init first: "user", the thread     *)
                (* that owns the device, or "other"                           *)

ASSUME MacAssumption ==
  /\ QueueLimit \in Nat /\ MaxReports \in Nat /\ MaxCalls \in Nat
  /\ Managers \subseteq {"user", "other"}

VARIABLES
  (* the hid_device *)
  mutex,           (* "free" or "user"; nobody else keeps it over a step      *)
  input_reports,   (* as the numbers of the reports                           *)
  shutdown_thread, disconnected,
  run_loop,        (* dev->run_loop and dev->source are set                   *)
  arrived,         (* count of each pthread_barrier: "start", "shutdown"      *)
  (* the threads *)
  thread, user,    (* where the read thread and the owner of the device are   *)
  mode,            (* of hid_read_timeout: "poll", "timed", "blocking"        *)
  manager,
  (* CoreFoundation, IOKit and the device *)
  signalled,       (* CFRunLoopSourceSignal(dev->source)                      *)
  stopped,         (* CFRunLoopStop(dev->run_loop)                            *)
  registered,      (* the callbacks, and the device with the thread's loop    *)
  plugged,
  removal,         (* of the device: "none", "pending", "called", "handled"   *)
  (* history *)
  came,            (* reports hid_report_callback has put on the list         *)
  result,          (* of the last hid_read_timeout                            *)
  called,
  spurious,        (* pthread_cond_wait returned for no reason in a barrier   *)
  misused          (* a run loop was used that does not exist (any more)      *)

device   == <<mutex, input_reports, shutdown_thread, disconnected, run_loop, arrived>>
loop     == <<signalled, stopped>>
hardware == <<registered, plugged, removal>>
calls    == <<mode, result, called>>
history  == <<came, spurious, misused>>
vars     == <<device, thread, user, manager, loop, hardware, calls, history>>

Thread(from, to) == thread = from /\ thread' = to
User(from, to)   == user = from /\ user' = to

--------------------------------------------------------------------------------
(* pthread_barrier_wait of barrier b: the first of the two to come sleeps,   *)
(* the second wakes it; pthread_cond_wait is called once, not in a loop.     *)

AfterThread(at) == CASE at = "startWait" -> "test"  [] at = "shutdownWait" -> "ended"
AfterUser(at) == CASE at = "startWait" -> "idle"  [] at = "shutdownWait" -> "join"
Waiting(b) == IF b = "start" THEN "startWait" ELSE "shutdownWait"

ThreadWaits(b) ==
  /\ thread = b
  /\ IF arrived[b] + 1 < 2
     THEN /\ thread' = Waiting(b) /\ UNCHANGED user
          /\ arrived' = [arrived EXCEPT ![b] = @ + 1]
     ELSE /\ thread' = AfterThread(Waiting(b))
          /\ user' = IF user = Waiting(b) THEN AfterUser(user) ELSE user
          /\ arrived' = [arrived EXCEPT ![b] = 0]
  /\ UNCHANGED <<mutex, input_reports, shutdown_thread, disconnected, run_loop,
                 manager, loop, hardware, calls, history>>

UserWaits(b) ==
  /\ user = b
  /\ IF arrived[b] + 1 < 2
     THEN /\ user' = Waiting(b) /\ UNCHANGED thread
          /\ arrived' = [arrived EXCEPT ![b] = @ + 1]
     ELSE /\ user' = AfterUser(Waiting(b))
          /\ thread' = IF thread = Waiting(b) THEN AfterThread(thread) ELSE thread
          /\ arrived' = [arrived EXCEPT ![b] = 0]
  /\ UNCHANGED <<mutex, input_reports, shutdown_thread, disconnected, run_loop,
                 manager, loop, hardware, calls, history>>

BarrierSpurious ==
  /\ \/ /\ thread \in {"startWait", "shutdownWait"}
        /\ thread' = AfterThread(thread) /\ UNCHANGED user
     \/ /\ user \in {"startWait", "shutdownWait"}
        /\ user' = AfterUser(user) /\ UNCHANGED thread
  /\ spurious' = TRUE
  /\ UNCHANGED <<device, manager, loop, hardware, calls, came, misused>>

Barrier == \E b \in {"start", "shutdown"} : ThreadWaits(b) \/ UserWaits(b)

--------------------------------------------------------------------------------
(* hid_open and hid_open_path. *)

(* hid_enumerate: the manager's devices with this VID and PID, of which      *)
(* hid_open takes the first; NULL when there is none or hid_init fails       *)
Enumerate ==
  /\ \/ plugged /\ User("none", "path")
     \/ User("none", "closed")
  /\ UNCHANGED <<device, thread, manager, loop, hardware, calls, history>>

(* hid_open_path: the device with this path is looked for again and opened,  *)
(* the callbacks are registered and the read thread is created; or NULL,     *)
(* after free_hid_device unless it was hid_init that failed                  *)
OpenPath ==
  /\ \/ /\ plugged /\ User("path", "start")
        /\ Thread("none", "create")
        /\ registered' = TRUE
     \/ User("path", "closed") /\ UNCHANGED <<thread, registered>>
  /\ UNCHANGED <<device, manager, loop, plugged, removal, calls, history>>

--------------------------------------------------------------------------------
(* The run loops. *)

(* CFRunLoopStop(dev->run_loop), CFRunLoopWakeUp(dev->run_loop): the loop of *)
(* a thread that is there                                                    *)
LoopExists == run_loop /\ thread # "ended"

Unplug ==
  /\ plugged /\ plugged' = FALSE
  /\ removal' = "pending"
  /\ UNCHANGED <<device, thread, user, manager, loop, registered, calls, history>>

(* Another thread that polls has called hid_device_removal_callback, for     *)
(* which hid_close does not wait when it takes the callback back.            *)
RemovalCalled ==
  /\ manager = "other" /\ registered
  /\ removal = "pending" /\ removal' = "called"
  /\ UNCHANGED <<device, thread, user, manager, loop, registered, plugged, calls, history>>

(* hid_device_removal_callback, when the manager's thread polls, for a       *)
(* device that free_hid_device has not taken off the list.  A loop that does *)
(* not run at the moment may forget that it was stopped.                     *)
Removal ==
  /\ removal \in {"pending", "called"} /\ removal' = "handled"
  /\ manager = "user" => user = "idle"
  /\ IF registered \/ (removal = "called" /\ user # "closed")
     THEN /\ disconnected' = TRUE
          /\ misused' = ~LoopExists
          /\ stopped' \in IF thread = "run" THEN {TRUE} ELSE {stopped, TRUE}
     ELSE UNCHANGED <<disconnected, misused, stopped>>
  /\ UNCHANGED <<mutex, input_reports, shutdown_thread, run_loop, arrived, thread, user,
                 manager, signalled, registered, plugged, calls, came, spurious>>

(* pthread_cond_signal and pthread_cond_broadcast                            *)
Wake == user' = IF user = "wait" THEN "woken" ELSE user

(* bug variant: reports are counted one too low                              *)
ReportPopsLate ==
  /\ thread = "run" /\ registered /\ plugged /\ came < MaxReports
  /\ mutex = "free"
  /\ input_reports' = Append(IF Len(input_reports) - 2 > QueueLimit
                             THEN Tail(input_reports) ELSE input_reports, came + 1)
  /\ came' = came + 1
  /\ Wake
  /\ UNCHANGED <<mutex, shutdown_thread, disconnected, run_loop, arrived, thread,
                 manager, loop, hardware, calls, spurious, misused>>

(* hid_report_callback: the report goes to the end of the list, the oldest   *)
(* one goes when num_queued exceeds the limit, a reader is always signalled. *)
ReportCallback ==
  /\ thread = "run" /\ registered /\ plugged /\ came < MaxReports
  /\ mutex = "free"
  /\ input_reports' = Append(IF Len(input_reports) - 1 > QueueLimit
                             THEN Tail(input_reports) ELSE input_reports, came + 1)
  /\ came' = came + 1
  /\ Wake
  /\ UNCHANGED <<mutex, shutdown_thread, disconnected, run_loop, arrived, thread,
                 manager, loop, hardware, calls, spurious, misused>>

--------------------------------------------------------------------------------
(* read_thread. *)

(* the source is made and the loop stored                                    *)
StoreLoop ==
  /\ Thread("create", "start")
  /\ run_loop' = TRUE
  /\ UNCHANGED <<mutex, input_reports, shutdown_thread, disconnected, arrived, user,
                 manager, loop, hardware, calls, history>>

Test ==
  /\ Thread("test", IF shutdown_thread \/ disconnected THEN "wake" ELSE "run")
  /\ UNCHANGED <<device, user, manager, loop, hardware, calls, history>>

(* CFRunLoopRunInMode returns after 1000 s                                   *)
RunTimesOut ==
  /\ Thread("run", "test")
  /\ UNCHANGED <<device, user, manager, loop, hardware, calls, history>>

(* It was stopped, by the removal callback or by perform_signal_callback,    *)
(* which it runs when the source is signalled.  It never finds the loop      *)
(* finished: the source stays in its mode.                                   *)
RunStopped ==
  /\ stopped \/ signalled
  /\ Thread("run", "wake")
  /\ shutdown_thread' = TRUE
  /\ stopped' = FALSE /\ signalled' = FALSE
  /\ UNCHANGED <<mutex, input_reports, disconnected, run_loop, arrived, user,
                 manager, hardware, calls, history>>

(* bug variants: the broadcast without the mutex; no barrier after it        *)
WakeUnlocked ==
  /\ Thread("wake", "shutdown")
  /\ Wake
  /\ UNCHANGED <<device, manager, loop, hardware, calls, history>>
WakeAndEnd ==
  /\ mutex = "free"
  /\ Thread("wake", "ended")
  /\ Wake
  /\ UNCHANGED <<device, manager, loop, hardware, calls, history>>

(* the broadcast, under the mutex                                            *)
WakeAll ==
  /\ mutex = "free"
  /\ Thread("wake", "shutdown")
  /\ Wake
  /\ UNCHANGED <<device, manager, loop, hardware, calls, history>>

ThreadStep == StoreLoop \/ Test \/ RunStopped \/ WakeAll

--------------------------------------------------------------------------------
(* hid_read_timeout. *)

ReadCall ==
  /\ User("idle", "read") /\ called < MaxCalls
  /\ called' = called + 1
  /\ mode' \in {"poll", "timed", "blocking"}
  /\ UNCHANGED <<device, thread, manager, loop, hardware, result, history>>

(* what it returns, and the list it leaves, when it unlocks the mutex        *)
Answer(value, rest) ==
  /\ result' = value /\ input_reports' = rest
  /\ user' = "idle" /\ mutex' = "free"
FallAsleep == user' = "sleep" /\ mutex' = "user" /\ UNCHANGED <<result, input_reports>>

Gone == disconnected \/ shutdown_thread

Read ==
  /\ user = "read" /\ mutex = "free"
  /\ \/ input_reports # <<>> /\ Answer(Head(input_reports), Tail(input_reports))
     \/ /\ input_reports = <<>>
        /\ \/ Gone /\ Answer(-1, <<>>)
           \/ ~Gone /\ mode = "poll" /\ Answer(0, <<>>)
           \/ ~Gone /\ mode # "poll" /\ FallAsleep
  /\ UNCHANGED <<shutdown_thread, disconnected, run_loop, arrived, thread, manager, loop,
                 hardware, mode, called, history>>

(* pthread_cond_wait and pthread_cond_timedwait: unlock and wait; a wake-up  *)
(* for no reason; the time that is over                                      *)
Sleep ==
  /\ User("sleep", "wait")
  /\ mutex' = "free"
  /\ UNCHANGED <<input_reports, shutdown_thread, disconnected, run_loop, arrived, thread,
                 manager, loop, hardware, calls, history>>

WakeSpurious ==
  /\ User("wait", "woken")
  /\ UNCHANGED <<device, thread, manager, loop, hardware, calls, history>>

TimeUp ==
  /\ mode = "timed"
  /\ User("wait", "late")
  /\ UNCHANGED <<device, thread, manager, loop, hardware, calls, history>>

(* bug variant: a report is taken without a look at the list                 *)
WokenTakes ==
  /\ user = "woken" /\ mutex = "free"
  /\ \/ Gone /\ Answer(-1, input_reports)
     \/ ~Gone /\ input_reports = <<>> /\ Answer(came, <<>>)
     \/ ~Gone /\ input_reports # <<>> /\ Answer(Head(input_reports), Tail(input_reports))
  /\ UNCHANGED <<shutdown_thread, disconnected, run_loop, arrived, thread, manager, loop,
                 hardware, mode, called, history>>

(* cond_wait and cond_timedwait, once awake: an error when the device is     *)
(* gone, even with reports on the list, else the first report, else sleep    *)
Woken ==
  /\ user = "woken" /\ mutex = "free"
  /\ \/ Gone /\ Answer(-1, input_reports)
     \/ ~Gone /\ input_reports = <<>> /\ FallAsleep
     \/ ~Gone /\ input_reports # <<>> /\ Answer(Head(input_reports), Tail(input_reports))
  /\ UNCHANGED <<shutdown_thread, disconnected, run_loop, arrived, thread, manager, loop,
                 hardware, mode, called, history>>

(* ETIMEDOUT, whatever came in between                                       *)
ReadTimesOut ==
  /\ user = "late" /\ mutex = "free"
  /\ Answer(0, input_reports)
  /\ UNCHANGED <<shutdown_thread, disconnected, run_loop, arrived, thread, manager, loop,
                 hardware, mode, called, history>>

--------------------------------------------------------------------------------
(* hid_close. *)

(* the callbacks are unregistered and the device moved to the main run loop, *)
(* unless it was disconnected                                                *)
Close ==
  /\ User("idle", "close")
  /\ registered' = (registered /\ disconnected)
  /\ UNCHANGED <<device, thread, manager, loop, plugged, removal, calls, history>>

(* shutdown_thread = 1, CFRunLoopSourceSignal, CFRunLoopWakeUp               *)
SignalLoop ==
  /\ User("close", "shutdown")
  /\ shutdown_thread' = TRUE
  /\ signalled' = TRUE
  /\ misused' = ~LoopExists
  /\ UNCHANGED <<mutex, input_reports, disconnected, run_loop, arrived, thread, manager,
                 stopped, hardware, calls, came, spurious>>

Join ==
  /\ thread = "ended"
  /\ User("join", "free")
  /\ UNCHANGED <<device, thread, manager, loop, hardware, calls, history>>

(* the reports are deleted; free_hid_device takes the device off the list    *)
Free ==
  /\ User("free", "closed")
  /\ input_reports' = <<>>
  /\ registered' = FALSE
  /\ UNCHANGED <<mutex, shutdown_thread, disconnected, run_loop, arrived, thread, manager,
                 loop, plugged, removal, calls, history>>

UserStep == Read \/ Sleep \/ Woken \/ ReadTimesOut \/ SignalLoop \/ Join \/ Free

--------------------------------------------------------------------------------
Init ==
  /\ mutex = "free" /\ input_reports = <<>>
  /\ shutdown_thread = FALSE /\ disconnected = FALSE /\ run_loop = FALSE
  /\ arrived = [b \in {"start", "shutdown"} |-> 0]
  /\ thread = "none" /\ user = "none" /\ mode = "poll" /\ manager \in Managers
  /\ signalled = FALSE /\ stopped = FALSE
  /\ registered = FALSE /\ plugged = TRUE /\ removal = "none"
  /\ came = 0 /\ result = 0 /\ called = 0 /\ spurious = FALSE /\ misused = FALSE

(* Nothing is known of a program that has used a run loop that is not there. *)
Next ==
  /\ ~misused
  /\ \/ Enumerate \/ OpenPath \/ Barrier \/ BarrierSpurious \/ ThreadStep \/ RunTimesOut
     \/ ReportCallback \/ Unplug \/ RemovalCalled \/ Removal
     \/ ReadCall \/ UserStep \/ WakeSpurious \/ TimeUp \/ Close

Spec == Init /\ [][Next]_vars

(* Both threads run, the run loop returns after 1000 s, and a manager other  *)
(* than the user polls again and again.  The user need not call anything.    *)
Fairness ==
  /\ WF_vars(~misused /\ ThreadStep) /\ WF_vars(~misused /\ RunTimesOut)
  /\ WF_vars(~misused /\ Barrier) /\ SF_vars(~misused /\ UserStep)
  /\ WF_vars(~misused /\ manager = "other" /\ Removal)

FairSpec == Spec /\ Fairness

--------------------------------------------------------------------------------
(* Properties. *)

TypeOK ==
  /\ mutex \in {"free", "user"}
  /\ input_reports \in Seq(1..MaxReports) /\ Len(input_reports) <= QueueLimit + 2
  /\ shutdown_thread \in BOOLEAN /\ disconnected \in BOOLEAN /\ run_loop \in BOOLEAN
  /\ arrived \in [{"start", "shutdown"} -> 0..1]
  /\ thread \in {"none", "create", "start", "startWait", "test", "run", "wake",
                 "shutdown", "shutdownWait", "ended"}
  /\ user \in {"none", "path", "start", "startWait", "idle", "read", "sleep", "wait",
               "woken", "late", "close", "shutdown", "shutdownWait", "join", "free", "closed"}
  /\ mode \in {"poll", "timed", "blocking"} /\ manager \in Managers
  /\ signalled \in BOOLEAN /\ stopped \in BOOLEAN /\ registered \in BOOLEAN
  /\ plugged \in BOOLEAN /\ removal \in {"none", "pending", "called", "handled"}
  /\ came \in 0..MaxReports /\ result \in -1..MaxReports /\ called \in 0..MaxCalls
  /\ spurious \in BOOLEAN /\ misused \in BOOLEAN

(* "This thread still needs to be valid when that function is called on the  *)
(* other thread" (read_thread): every run loop that is stopped or woken is   *)
(* there, provided that one thread does all of it and that no barrier is     *)
(* passed by a wake-up for no reason.                                        *)
LoopValid == manager = "user" /\ ~spurious => ~misused

(* The list is a queue, as on Linux; but a reader that was asleep when the   *)
(* device went gets an error before the reports that are left.               *)
Queue == INSTANCE HidQueue WITH waiting <- input_reports, Capacity <- QueueLimit + 2,
                                ErrorsLast <- FALSE
QueueSpec == Queue!Spec

(* A reader does not sleep on next to a report.                              *)
WaitingReaderServed == (user = "wait" /\ input_reports # <<>>) ~> user # "wait" \/ misused

(* "Wake any threads which are waiting on data" (read_thread)                *)
ReaderReleased ==
  (thread \in {"shutdown", "shutdownWait", "ended"} /\ user \in {"wait", "woken"})
     ~> user = "idle" \/ misused

(* A reader of an unplugged device is told when another thread polls the     *)
(* manager, even if the run loop forgot that it was stopped.                 *)
ReaderToldOfUnplug ==
  (manager = "other" /\ registered /\ ~plugged /\ user \in {"wait", "woken"})
     ~> user = "idle" \/ misused

(* hid_close returns.                                                        *)
CloseEnds == user = "close" ~> user = "closed" \/ misused

(* Every call that is to return does: a reader next to a report, after the   *)
(* read thread, or of an unplugged device, and hid_close.                    *)
CallsReturn ==
  WaitingReaderServed /\ ReaderReleased /\ ReaderToldOfUnplug /\ CloseEnds
====================================================================================
