-------------------------------- MODULE HidWindows --------------------------------
(***************************************************************************)
(* One hid_device of hidapi on Windows (hidapi/windows/hid.c) from hid_open*)
(* to hid_close.  There is no read thread: one overlapped ReadFile at most *)
(* is under way, and a hid_read_timeout that gives up leaves it there for  *)
(* the next one.                                                           *)
(*                                                                         *)
(* Windows and its HID class driver are external.  The driver keeps the    *)
(* reports nobody has asked for yet, completes the read, and sets its      *)
(* event, which WaitForSingleObject resets.                                *)
(***************************************************************************)
EXTENDS Integers, Sequences

CONSTANTS
  MaxReports,   (* bound: input reports the device sends; the driver's buffer *)
                (* holds as many                                              *)
  MaxCalls,     (* bound: calls of hid_read_timeout and hid_write             *)
  Closers       (* which thread may call hid_close: the "same" that reads and *)
                (* writes, or an "other", after the last call has returned    *)

ASSUME WindowsAssumption ==
  MaxReports \in Nat /\ MaxCalls \in Nat /\ Closers \subseteq {"same", "other"}

VARIABLES
  user,          (* where the thread that uses the device is                  *)
  mode,          (* of hid_read_timeout: "timed" (0 ms too) or "blocking"     *)
  read_pending,
  event,         (* dev->ol.hEvent is signalled                               *)
  handles,       (* kernel objects the program has open for the device        *)
  listed,        (* hid_enumerate has recorded a device                       *)
  read,          (* the overlapped read: "none", "pending", "done", "failed"  *)
  held,          (* the report in read_buf, 0 for none                        *)
  ring,          (* reports the driver keeps                                  *)
  plugged,
  closer,
  (* history *)
  came,          (* reports the device sent; they are numbered                *)
  result,        (* of the last hid_read_timeout                              *)
  called

device == <<read_pending, event, handles>>
driver == <<read, held, ring, plugged, came>>
call   == <<mode, result, called>>
vars   == <<user, device, driver, call, closer, listed>>

User(from, to) == user = from /\ user' = to

--------------------------------------------------------------------------------
(* hid_open and hid_open_path. *)

(* hid_init: hid.dll and its ten functions                                   *)
InitLibrary ==
  /\ User("none", "enumerate") \/ User("none", "closed")
  /\ UNCHANGED <<device, driver, call, closer, listed>>

(* hid_enumerate opens every HID device in turn, without sharing when it     *)
(* can, and skips one it cannot open.                                        *)
EnumProbe ==
  /\ User("enumerate", "probe")
  /\ handles' = handles \cup {"probe"}
  /\ UNCHANGED <<read_pending, event, driver, call, closer, listed>>

(* bug variant: a device with another VID or PID stays open                  *)
EnumRecordLeaving ==
  /\ User("probe", "enumerate")
  /\ listed' \in {listed, TRUE}
  /\ handles' = IF listed' THEN handles \ {"probe"} ELSE handles
  /\ UNCHANGED <<read_pending, event, driver, call, closer>>

(* The device is recorded when its VID and PID match; HidD_GetAttributes is  *)
(* taken to succeed, so that any device may match.  It is closed again.      *)
EnumRecord ==
  /\ User("probe", "enumerate")
  /\ listed' \in {listed, TRUE}
  /\ handles' = handles \ {"probe"}
  /\ UNCHANGED <<read_pending, event, driver, call, closer>>

(* hid_open calls hid_open_path for the first one, or answers NULL           *)
EnumEnd ==
  /\ \/ listed /\ User("enumerate", "path")
     \/ ~listed /\ User("enumerate", "closed")
  /\ UNCHANGED <<device, driver, call, closer, listed>>

(* new_hid_device makes the event, open_device tries twice; the event is not *)
(* closed when it fails                                                      *)
OpenHandle ==
  /\ \/ plugged /\ User("path", "caps") /\ handles' = handles \cup {"event", "device"}
     \/ User("path", "closed") /\ handles' = handles \cup {"event"}
  /\ UNCHANGED <<read_pending, event, driver, call, closer, listed>>

(* HidD_GetPreparsedData and HidP_GetCaps; label err when one fails          *)
Caps ==
  /\ \/ plugged /\ User("caps", "idle") /\ UNCHANGED handles
     \/ User("caps", "closed") /\ handles' = handles \ {"device"}
  /\ UNCHANGED <<read_pending, event, driver, call, closer, listed>>

--------------------------------------------------------------------------------
(* The device and the driver. *)

Complete(how, report) == read' = how /\ held' = report /\ event' = TRUE

ReportComes ==
  /\ plugged /\ came < MaxReports /\ user \notin {"none", "enumerate", "probe", "path", "closed"}
  /\ came' = came + 1
  /\ \/ read = "pending" /\ Complete("done", came + 1) /\ UNCHANGED ring
     \/ read # "pending" /\ ring' = Append(ring, came + 1) /\ UNCHANGED <<read, held, event>>
  /\ UNCHANGED <<user, read_pending, handles, plugged, call, closer, listed>>

ReadFails ==
  /\ read = "pending" /\ user # "closed"
  /\ Complete("failed", 0)
  /\ UNCHANGED <<user, read_pending, handles, ring, plugged, came, call, closer, listed>>

Unplug ==
  /\ plugged /\ plugged' = FALSE
  /\ IF read = "pending" THEN Complete("failed", 0) ELSE UNCHANGED <<read, held, event>>
  /\ UNCHANGED <<user, read_pending, handles, ring, came, call, closer, listed>>

--------------------------------------------------------------------------------
(* hid_read_timeout. *)

(* a read that was left by the last call is waited for, not started again    *)
ReadCall ==
  /\ user = "idle" /\ called < MaxCalls
  /\ user' = IF read_pending THEN "wait" ELSE "start"
  /\ called' = called + 1
  /\ mode' \in {"timed", "blocking"}
  /\ UNCHANGED <<device, driver, result, closer, listed>>

(* ResetEvent and ReadFile: at once, later, or an error                      *)
StartRead ==
  /\ user = "start"
  /\ \/ /\ plugged /\ ring # <<>>
        /\ user' = "wait" /\ read_pending' = TRUE
        /\ Complete("done", Head(ring)) /\ ring' = Tail(ring)
        /\ UNCHANGED result
     \/ /\ plugged /\ ring = <<>>
        /\ user' = "wait" /\ read_pending' = TRUE
        /\ read' = "pending" /\ held' = 0 /\ event' = FALSE
        /\ UNCHANGED <<ring, result>>
     \/ /\ user' = "idle" /\ result' = -1
        /\ read_pending' = FALSE /\ event' = FALSE
        /\ UNCHANGED <<read, held, ring>>
  /\ UNCHANGED <<handles, plugged, came, mode, called, closer, listed>>

(* bug variant: the read is forgotten when it does not end in time           *)
WaitForgetting ==
  /\ user = "wait"
  /\ \/ mode = "blocking" /\ user' = "result" /\ UNCHANGED <<event, read_pending, result>>
     \/ /\ mode = "timed" /\ event
        /\ user' = "result" /\ event' = FALSE /\ UNCHANGED <<read_pending, result>>
     \/ /\ mode = "timed" /\ ~event
        /\ user' = "idle" /\ result' = 0 /\ read_pending' = FALSE /\ UNCHANGED event
  /\ UNCHANGED <<handles, driver, mode, called, closer, listed>>

(* bug variant: the answer of WaitForSingleObject is not looked at           *)
WaitUnchecked ==
  /\ User("wait", "result")
  /\ event' = FALSE
  /\ UNCHANGED <<read_pending, handles, driver, call, closer, listed>>

(* WaitForSingleObject; the read stays when the time is over                 *)
Wait ==
  /\ user = "wait"
  /\ \/ mode = "blocking" /\ user' = "result" /\ UNCHANGED <<event, result>>
     \/ mode = "timed" /\ event /\ user' = "result" /\ event' = FALSE /\ UNCHANGED result
     \/ mode = "timed" /\ ~event /\ user' = "idle" /\ result' = 0 /\ UNCHANGED event
  /\ UNCHANGED <<read_pending, handles, driver, mode, called, closer, listed>>

(* bug variant: the report of a timed call is dropped                        *)
ResultDropped ==
  /\ User("result", "idle")
  /\ \/ read = "done" /\ result' = IF mode = "timed" THEN 0 ELSE held
     \/ read = "failed" /\ result' = -1
  /\ read' = "none" /\ held' = 0 /\ read_pending' = FALSE
  /\ event' \in {event, FALSE}
  /\ UNCHANGED <<handles, ring, plugged, came, mode, called, closer, listed>>

(* GetOverlappedResult waits for the end of the read; it resets the event    *)
(* only if it had to wait.                                                   *)
Result ==
  /\ User("result", "idle")
  /\ \/ read = "done" /\ result' = held
     \/ read = "failed" /\ result' = -1
  /\ read' = "none" /\ held' = 0 /\ read_pending' = FALSE
  /\ event' \in {event, FALSE}
  /\ UNCHANGED <<handles, ring, plugged, came, mode, called, closer, listed>>

(* hid_write: WriteFile and GetOverlappedResult on an OVERLAPPED of its own  *)
WriteCall ==
  /\ User("idle", "writing") /\ called < MaxCalls
  /\ called' = called + 1
  /\ UNCHANGED <<device, driver, mode, result, closer, listed>>

WriteReturn ==
  /\ User("writing", "idle")
  /\ UNCHANGED <<device, driver, call, closer, listed>>

--------------------------------------------------------------------------------
(* hid_close: CancelIo ends the reads of the thread that calls it, before it *)
(* returns, and of no other; then the handles are closed, read_buf and the   *)
(* OVERLAPPED are freed.                                                     *)
Close ==
  /\ User("idle", "closed")
  /\ ring' = <<>> /\ held' = 0
  /\ read' = IF read = "pending" /\ closer = "other" THEN "pending" ELSE "none"
  /\ handles' = {}
  /\ UNCHANGED <<read_pending, event, plugged, came, call, closer, listed>>

UserStep == StartRead \/ Wait \/ Result \/ WriteReturn

--------------------------------------------------------------------------------
Init ==
  /\ user = "none" /\ mode = "timed" /\ read_pending = FALSE /\ event = FALSE
  /\ handles = {} /\ read = "none" /\ held = 0 /\ ring = <<>> /\ plugged = TRUE
  /\ listed = FALSE /\ closer \in Closers /\ came = 0 /\ result = 0 /\ called = 0

Next ==
  \/ InitLibrary \/ EnumProbe \/ EnumRecord \/ EnumEnd \/ OpenHandle \/ Caps
  \/ ReportComes \/ ReadFails \/ Unplug
  \/ ReadCall \/ WriteCall \/ UserStep \/ Close

Spec == Init /\ [][Next]_vars

--------------------------------------------------------------------------------
(* Properties. *)

TypeOK ==
  /\ user \in {"none", "enumerate", "probe", "path", "caps", "idle", "start", "wait",
               "result", "writing", "closed"}
  /\ mode \in {"timed", "blocking"} /\ read_pending \in BOOLEAN /\ event \in BOOLEAN
  /\ handles \subseteq {"event", "device", "probe"} /\ listed \in BOOLEAN
  /\ read \in {"none", "pending", "done", "failed"} /\ held \in 0..MaxReports
  /\ (held # 0) = (read = "done")
  /\ user # "closed" => read_pending = (read # "none")
  /\ ring \in Seq(1..MaxReports) /\ plugged \in BOOLEAN /\ closer \in Closers
  /\ came \in 0..MaxReports /\ result \in -1..MaxReports /\ called \in 0..MaxCalls

(* A read that was given up is still there and no second one is started over *)
(* it: the reports come out in order and once.                               *)
Queue == INSTANCE HidQueue WITH
           waiting <- IF read = "done" THEN <<held>> \o ring ELSE ring,
           Capacity <- MaxReports, ErrorsLast <- FALSE
QueueSpec == Queue!Spec

(* "There was no data this time" (hid_read_timeout): a call with a timeout   *)
(* never gets to GetOverlappedResult, which waits for ever, while the read   *)
(* is under way; the event it saw is never that of an earlier read.          *)
TimedReadEnds == user = "result" /\ mode = "timed" => read # "pending"

(* hid_close frees the buffer and the OVERLAPPED of a read only when that is *)
(* over, provided that the thread that reads closes the device.              *)
FreedQuietly == user = "closed" /\ closer = "same" => read # "pending"

(* "This will make it so that a HID device can only be opened once"          *)
(* (open_device): a device hid_enumerate looked into, that could not be used *)
(* or was closed is not kept open, or nobody could open it any more.         *)
DeviceReleased ==
  /\ user \in {"path", "closed"} => handles \subseteq {"event"}
  /\ user # "probe" => "probe" \notin handles

(* hid_close and a failed hid_open leave nothing of the device behind.       *)
ClosedCleanly == FreedQuietly /\ DeviceReleased
====================================================================================
