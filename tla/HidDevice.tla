--------------------------------- MODULE HidDevice ---------------------------------
(***************************************************************************)
(* One hid_device of hidapi on Linux (hidapi/linux/hid-libusb.c) from the  *)
(* start of its read thread to hid_close: the thread, the callback of its  *)
(* one interrupt transfer, the list of input reports behind a mutex and a  *)
(* condition, hid_read_timeout, hid_write and hid_close called by one user *)
(* thread.                                                                 *)
(*                                                                         *)
(* libusb is external.  It runs the callback in whichever thread handles   *)
(* events: the read thread, or the user thread during hid_write.           *)
(***************************************************************************)
EXTENDS Integers, Sequences

CONSTANTS
  QueueLimit,   (* 30 in read_callback                                        *)
  MaxReports,   (* bound: input reports the device sends                      *)
  MaxCalls,     (* bound: calls of hid_read_timeout and hid_write             *)
  Faults        (* calls of libusb that may fail while the device is there:   *)
                (* "submit", "events" (libusb_handle_events in the loop),     *)
                (* "early" (the one after libusb_cancel_transfer returns for  *)
                (* another reason)                                            *)

ASSUME DeviceAssumption ==
  /\ QueueLimit \in Nat /\ MaxReports \in Nat /\ MaxCalls \in Nat
  /\ Faults \subseteq {"submit", "events", "early"}

VARIABLES
  (* shared *)
  mutex,           (* "free" or who holds it: "thread", "user"                *)
  input_reports,   (* the list, as the numbers of the reports                 *)
  shutdown_thread,
  (* the read thread *)
  thread,          (* where it is                                             *)
  (* the user thread *)
  user,            (* where it is                                             *)
  mode,            (* of hid_read_timeout: "poll", "timed", "blocking"        *)
  (* libusb and the device *)
  transfer,        (* "none", "idle", "pending", or how it ended              *)
  callback,        (* where read_callback is: "none", "lock", "append",       *)
                   (* "submit"                                                *)
  runner,          (* the thread it runs in, "none" when it does not          *)
  plugged,
  (* history *)
  sent,            (* reports the device sent                                 *)
  came,            (* those read_callback has put on the list                 *)
  result,          (* of the last hid_read_timeout                            *)
  called,          (* calls so far                                            *)
  faulted          (* the calls of libusb that failed                         *)

vars == <<mutex, input_reports, shutdown_thread, thread, user, mode, transfer,
          callback, runner, plugged, sent, came, result, called, faulted>>
shared == <<mutex, input_reports, shutdown_thread>>
userVars == <<user, mode, result, called>>
usb == <<transfer, callback, runner, plugged, sent, came, faulted>>

Ends == {"completed", "timedOut", "error", "cancelled", "noDevice"}
InFlight == transfer \in Ends \cup {"pending"}

--------------------------------------------------------------------------------
(* libusb. *)

(* libusb_submit_transfer; nobody looks at its result                        *)
Submit ==
  \/ plugged /\ transfer' = "pending" /\ UNCHANGED faulted
  \/ ~plugged /\ transfer' = "idle" /\ faulted' = faulted \cup {"submit"}
  \/ "submit" \in Faults /\ transfer' = "idle" /\ faulted' = faulted \cup {"submit"}

(* The device sends a report, or the 5 s are over, or something goes wrong.  *)
DeviceSends ==
  /\ plugged /\ transfer = "pending" /\ sent < MaxReports
  /\ transfer' = "completed"
  /\ sent' = sent + 1
  /\ UNCHANGED <<shared, thread, userVars, callback, runner, plugged, came, faulted>>

TransferEnds ==
  /\ transfer = "pending" /\ plugged
  /\ transfer' \in {"timedOut", "error"}
  /\ UNCHANGED <<shared, thread, userVars, callback, runner, plugged, sent, came, faulted>>

Unplug ==
  /\ plugged /\ plugged' = FALSE
  /\ transfer' = IF transfer = "pending" THEN "noDevice" ELSE transfer
  /\ UNCHANGED <<shared, thread, userVars, callback, runner, sent, came, faulted>>

(* A thread that handles events starts the callback of a transfer that has   *)
(* ended.                                                                    *)
Handles(who) ==
  \/ who = "thread" /\ thread \in {"events", "lastEvents"}
  \/ who = "user" /\ user = "writing"

--------------------------------------------------------------------------------
(* read_callback. *)

CallbackDone == callback' = "none" /\ runner' = "none"

(* the status of the transfer                                                *)
Callback(who) ==
  /\ Handles(who) /\ runner = "none"
  /\ transfer \in Ends
  /\ transfer' = "idle"
  /\ CASE transfer = "completed" ->
            callback' = "lock" /\ runner' = who /\ UNCHANGED shutdown_thread
       [] transfer \in {"cancelled", "noDevice"} ->
            shutdown_thread' = TRUE /\ CallbackDone
       [] transfer \in {"timedOut", "error"} ->
            callback' = "submit" /\ runner' = who /\ UNCHANGED shutdown_thread
  /\ thread' = IF who = "thread" /\ callback' = "none"
               THEN IF thread = "events" THEN "test" ELSE "wakeLock"
               ELSE thread
  /\ UNCHANGED <<mutex, input_reports, userVars, plugged, sent, came, faulted>>

CallbackLock ==
  /\ callback = "lock" /\ mutex = "free"
  /\ mutex' = runner
  /\ callback' = "append"
  /\ UNCHANGED <<input_reports, shutdown_thread, thread, userVars, transfer, runner,
                 plugged, sent, came, faulted>>

(* pthread_cond_signal and pthread_cond_broadcast                            *)
Wake == user' = IF user = "wait" THEN "woken" ELSE user

(* bug variant: the reports are counted one too low                          *)
CallbackAppendPopsLate ==
  /\ callback = "append"
  /\ input_reports' = Append(IF Len(input_reports) - 2 > QueueLimit
                             THEN Tail(input_reports) ELSE input_reports, came + 1)
  /\ came' = came + 1
  /\ IF input_reports = <<>> THEN Wake ELSE UNCHANGED user
  /\ mutex' = "free"
  /\ callback' = "submit"
  /\ UNCHANGED <<shutdown_thread, thread, mode, result, called, transfer, runner,
                 plugged, sent, faulted>>

(* The report goes to the end of the list; when num_queued, the number of    *)
(* reports before the last one, exceeds the limit, the oldest one goes.      *)
CallbackAppend ==
  /\ callback = "append"
  /\ input_reports' = Append(IF Len(input_reports) - 1 > QueueLimit
                             THEN Tail(input_reports) ELSE input_reports, came + 1)
  /\ came' = came + 1
  /\ IF input_reports = <<>> THEN Wake ELSE UNCHANGED user
  /\ mutex' = "free"
  /\ callback' = "submit"
  /\ UNCHANGED <<shutdown_thread, thread, mode, result, called, transfer, runner,
                 plugged, sent, faulted>>

(* Resubmission; libusb_handle_events returns when the callback has.         *)
CallbackSubmit ==
  /\ callback = "submit"
  /\ Submit
  /\ CallbackDone
  /\ thread' = IF runner = "thread"
               THEN IF thread = "events" THEN "test" ELSE "wakeLock"
               ELSE thread
  /\ UNCHANGED <<shared, userVars, plugged, sent, came>>

CallbackStep ==
  \/ \E who \in {"thread", "user"} : Callback(who)
  \/ CallbackLock \/ CallbackAppend \/ CallbackSubmit

--------------------------------------------------------------------------------
(* read_thread. *)

Goto(from, to) == thread = from /\ thread' = to

(* the transfer is allocated and submitted for the first time                *)
FirstSubmit ==
  /\ Goto("start", "barrier")
  /\ Submit
  /\ UNCHANGED <<shared, userVars, callback, runner, plugged, sent, came>>

(* pthread_barrier_wait, in both threads                                     *)
Barrier ==
  /\ Goto("barrier", "test")
  /\ user = "barrier" /\ user' = "idle"
  /\ UNCHANGED <<shared, mode, result, called, usb>>

Test ==
  /\ Goto("test", IF shutdown_thread THEN "cancel" ELSE "events")
  /\ UNCHANGED <<shared, userVars, usb>>

(* libusb_handle_events returns without this transfer's callback: its own    *)
(* timeout, or another thread or another device had an event                 *)
EventsReturn ==
  /\ Goto("events", "test")
  /\ runner # "thread"
  /\ UNCHANGED <<shared, userVars, usb>>

EventsFail ==
  /\ "events" \in Faults
  /\ Goto("events", "cancel")
  /\ runner # "thread"
  /\ faulted' = faulted \cup {"events"}
  /\ UNCHANGED <<shared, userVars, transfer, callback, runner, plugged, sent, came>>

(* bug variant: the transfer is not cancelled                                *)
CancelMissing ==
  /\ Goto("cancel", "wakeLock")
  /\ UNCHANGED <<shared, userVars, usb>>

(* libusb_cancel_transfer succeeds for a transfer in flight                  *)
Cancel ==
  /\ \/ InFlight /\ Goto("cancel", "lastEvents") /\ transfer' = "cancelled"
     \/ ~InFlight /\ Goto("cancel", "wakeLock") /\ UNCHANGED transfer
  /\ UNCHANGED <<shared, userVars, callback, runner, plugged, sent, came, faulted>>

(* libusb_handle_events after the cancellation returns without the callback: *)
(* the user thread ran it, or something else happened first                  *)
LastEventsReturn ==
  /\ Goto("lastEvents", "wakeLock")
  /\ runner # "thread"
  /\ \/ ~InFlight /\ runner = "none" /\ UNCHANGED faulted
     \/ "early" \in Faults /\ faulted' = faulted \cup {"early"}
  /\ UNCHANGED <<shared, userVars, transfer, callback, runner, plugged, sent, came>>

(* bug variant: the broadcast without the mutex                              *)
WakeUnlocked ==
  /\ Goto("wakeLock", "ended")
  /\ Wake
  /\ UNCHANGED <<shared, mode, result, called, usb>>

(* The mutex, so that a reader that has seen shutdown_thread unset sleeps    *)
(* before the broadcast.                                                     *)
WakeLock ==
  /\ mutex = "free" /\ mutex' = "thread"
  /\ Goto("wakeLock", "wake")
  /\ UNCHANGED <<input_reports, shutdown_thread, userVars, usb>>

WakeAll ==
  /\ Goto("wake", "ended")
  /\ Wake
  /\ mutex' = "free"
  /\ UNCHANGED <<input_reports, shutdown_thread, mode, result, called, usb>>

ThreadStep ==
  \/ FirstSubmit \/ Test \/ EventsReturn \/ EventsFail
  \/ Cancel \/ LastEventsReturn \/ WakeLock \/ WakeAll

--------------------------------------------------------------------------------
(* The user thread. *)

User(from, to) == user = from /\ user' = to

(* hid_open_path: pthread_create                                             *)
Create ==
  /\ User("open", "barrier")
  /\ Goto("none", "start")
  /\ UNCHANGED <<shared, mode, result, called, usb>>

(* hid_read_timeout: 0, positive or -1 milliseconds                          *)
ReadCall ==
  /\ User("idle", "read") /\ called < MaxCalls
  /\ called' = called + 1
  /\ mode' \in {"poll", "timed", "blocking"}
  /\ UNCHANGED <<shared, thread, result, usb>>

(* pthread_mutex_lock, or pthread_cond_wait when it returns                  *)
ReadLock ==
  /\ user \in {"read", "woken"} /\ user' = "locked"
  /\ mutex = "free" /\ mutex' = "user"
  /\ UNCHANGED <<input_reports, shutdown_thread, thread, mode, result, called, usb>>

(* what hid_read_timeout returns after it unlocks the mutex                  *)
Answer(value, rest) ==
  /\ result' = value /\ input_reports' = rest
  /\ user' = "idle" /\ mutex' = "free"

(* bug variant: the read thread's end comes before the reports it left       *)
ReadCheckShutdownFirst ==
  /\ user = "locked"
  /\ \/ shutdown_thread /\ Answer(-1, input_reports)
     \/ /\ ~shutdown_thread /\ input_reports # <<>>
        /\ Answer(Head(input_reports), Tail(input_reports))
     \/ /\ ~shutdown_thread /\ input_reports = <<>>
        /\ \/ mode = "poll" /\ Answer(0, <<>>)
           \/ mode # "poll" /\ user' = "sleep" /\ UNCHANGED <<result, input_reports, mutex>>
  /\ UNCHANGED <<shutdown_thread, thread, mode, called, usb>>

(* The first report, -1 after the end of the read thread, 0 when polling.    *)
(* shutdown_thread is written without the mutex.                             *)
ReadCheck ==
  /\ user = "locked"
  /\ \/ input_reports # <<>> /\ Answer(Head(input_reports), Tail(input_reports))
     \/ /\ input_reports = <<>>
        /\ \/ shutdown_thread /\ Answer(-1, <<>>)
           \/ ~shutdown_thread /\ mode = "poll" /\ Answer(0, <<>>)
           \/ /\ ~shutdown_thread /\ mode # "poll"
              /\ user' = "sleep" /\ UNCHANGED <<result, input_reports, mutex>>
  /\ UNCHANGED <<shutdown_thread, thread, mode, called, usb>>

(* pthread_cond_wait, pthread_cond_timedwait: unlock and wait                *)
Sleep ==
  /\ User("sleep", "wait")
  /\ mutex' = "free"
  /\ UNCHANGED <<input_reports, shutdown_thread, thread, mode, result, called, usb>>

(* a wake-up for no reason                                                   *)
Spurious ==
  /\ User("wait", "woken")
  /\ UNCHANGED <<shared, thread, mode, result, called, usb>>

(* The time of pthread_cond_timedwait is over: no signal reaches it any more *)
TimeUp ==
  /\ mode = "timed"
  /\ User("wait", "late")
  /\ UNCHANGED <<shared, thread, mode, result, called, usb>>

(* It returns ETIMEDOUT with the mutex, whatever came in between.            *)
ReadTimesOut ==
  /\ user = "late" /\ mutex = "free"
  /\ Answer(0, input_reports)
  /\ UNCHANGED <<shutdown_thread, thread, mode, called, usb>>

(* hid_write: a synchronous transfer, which handles events until it ends     *)
WriteCall ==
  /\ User("idle", "writing") /\ called < MaxCalls
  /\ called' = called + 1
  /\ UNCHANGED <<shared, thread, mode, result, usb>>

WriteReturn ==
  /\ User("writing", "idle")
  /\ runner # "user"
  /\ UNCHANGED <<shared, thread, mode, result, called, usb>>

(* hid_close                                                                 *)
Close ==
  /\ User("idle", "join")
  /\ shutdown_thread' = TRUE
  /\ UNCHANGED <<mutex, input_reports, thread, mode, result, called, usb>>

(* pthread_join returns; the transfer, the handle and the list are freed     *)
Free ==
  /\ User("join", "closed") /\ thread = "ended"
  /\ input_reports' = <<>>
  /\ UNCHANGED <<mutex, shutdown_thread, thread, mode, result, called, usb>>

UserStep == ReadLock \/ ReadCheck \/ Sleep \/ ReadTimesOut \/ WriteReturn \/ Free

--------------------------------------------------------------------------------
Init ==
  /\ mutex = "free" /\ input_reports = <<>> /\ shutdown_thread = FALSE
  /\ thread = "none" /\ user = "open" /\ mode = "poll"
  /\ transfer = "none" /\ callback = "none" /\ runner = "none" /\ plugged = TRUE
  /\ sent = 0 /\ came = 0 /\ result = 0 /\ called = 0 /\ faulted = {}

Next ==
  \/ Create \/ Barrier \/ ThreadStep \/ CallbackStep
  \/ ReadCall \/ WriteCall \/ Close \/ UserStep \/ Spurious \/ TimeUp
  \/ DeviceSends \/ TransferEnds \/ Unplug

Spec == Init /\ [][Next]_vars

(* Both threads run and libusb handles events; the transfer ends after 5 s   *)
(* and libusb_handle_events returns after 60 s.  The user need not call.     *)
Fairness ==
  /\ WF_vars(Create) /\ WF_vars(Barrier) /\ WF_vars(ThreadStep) /\ SF_vars(CallbackStep)
  /\ SF_vars(UserStep) /\ WF_vars(DeviceSends \/ TransferEnds)

FairSpec == Spec /\ Fairness

--------------------------------------------------------------------------------
(* Properties. *)

(* Every variable has its type; the list holds at most two reports more than *)
(* the limit of read_callback.                                               *)
TypeOK ==
  /\ mutex \in {"free", "thread", "user"}
  /\ input_reports \in Seq(1..MaxReports) /\ Len(input_reports) <= QueueLimit + 2
  /\ shutdown_thread \in BOOLEAN
  /\ thread \in {"none", "start", "barrier", "test", "events", "cancel", "lastEvents",
                 "wakeLock", "wake", "ended"}
  /\ user \in {"open", "barrier", "idle", "read", "locked", "sleep", "wait", "woken", "late",
               "writing", "join", "closed"}
  /\ mode \in {"poll", "timed", "blocking"}
  /\ transfer \in {"none", "idle", "pending"} \cup Ends
  /\ callback \in {"none", "lock", "append", "submit"}
  /\ runner \in {"none", "thread", "user"}
  /\ plugged \in BOOLEAN /\ sent \in 0..MaxReports /\ came \in 0..MaxReports
  /\ result \in -1..MaxReports /\ called \in 0..MaxCalls
  /\ faulted \subseteq {"submit", "events", "early"}

(* The list, filled by a callback in one of two threads and emptied by       *)
(* hid_read_timeout, is a queue: the reports come out in order and once,     *)
(* only the oldest are dropped, an error is returned when none is left.      *)
Queue == INSTANCE HidQueue WITH waiting <- input_reports, Capacity <- QueueLimit + 2,
                                ErrorsLast <- TRUE

QueueSpec == Queue!Spec

(* When hid_close frees the transfer, the device and the list, the transfer  *)
(* is not in flight any more and no thread runs its callback, as long as no  *)
(* call of libusb failed.                                                    *)
FreedQuietly == user = "closed" /\ faulted = {} => ~InFlight /\ callback = "none"

(* A reader that sleeps while a report is on the list wakes up: the signal   *)
(* for the report that makes the list non-empty is enough.                   *)
WaitingReaderServed == (user = "wait" /\ input_reports # <<>>) ~> user # "wait"

(* When the read thread ends, and not by an error of libusb_handle_events, a *)
(* reader gets its answer: "Wake any threads which are waiting on data"      *)
(* (read_thread).                                                            *)
ReaderReleased ==
  (thread = "ended" /\ "events" \notin faulted /\ user \in {"wait", "woken"}) ~> user = "idle"

(* A reader of an unplugged device gets its answer: "the device has been     *)
(* disconnected. An error code of -1 should be returned" (hid_read_timeout). *)
ReaderToldOfUnplug == (~plugged /\ user \in {"wait", "woken"}) ~> user = "idle"

(* It does when the transfer was in flight and libusb_handle_events did not  *)
(* fail; the result of a submission is ignored, and nobody notices later.    *)
NoticedUnplugReported ==
  (~plugged /\ user \in {"wait", "woken"})
     ~> user = "idle" \/ faulted \cap {"submit", "events"} # {}

(* hid_close returns.                                                        *)
CloseEnds == user = "join" ~> user = "closed"

(* Every call that is to return does: a reader next to a report, after the   *)
(* read thread, or of a device whose loss was noticed, and hid_close.        *)
CallsReturn ==
  WaitingReaderServed /\ ReaderReleased /\ NoticedUnplugReported /\ CloseEnds
====================================================================================
