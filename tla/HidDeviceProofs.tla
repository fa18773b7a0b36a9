------------------------------ MODULE HidDeviceProofs ------------------------------
(***************************************************************************)
(* Theorems about one hid_device on Linux, for every limit of the list,    *)
(* every number of reports and calls and every fault of libusb: type       *)
(* correctness and the length of the list, that hid_close frees nothing    *)
(* that is in use, that no reader sleeps in vain, and that the list is a   *)
(* HidQueue.                                                               *)
(***************************************************************************)
EXTENDS HidDevice, SequenceTheorems, TLAPS

Before == {"none", "start", "barrier"}
After  == {"wakeLock", "wake", "ended"}

(* Which thread may be where: hid_open_path waits for the read thread to     *)
(* start, hid_close for it to end, and a thread that is in read_callback     *)
(* handles events.                                                           *)
ControlKnown ==
  /\ thread \in Before => user \in {"open", "barrier"} /\ ~shutdown_thread
  /\ thread \in {"none", "start"} => transfer = "none"
  /\ runner = "user" => user = "writing"
  /\ runner = "thread" => thread \in {"events", "lastEvents"}
  /\ callback = "none" <=> runner = "none"
  /\ callback # "none" => transfer = "idle"
  /\ user \in {"join", "closed"} => shutdown_thread
  /\ user = "closed" => thread = "ended"

(* Unless libusb failed, the read thread leaves its loop for shutdown_thread *)
(* alone.  Before hid_close only the loss of the device sets it, and then    *)
(* the transfer is over for good; after hid_close no callback runs in the    *)
(* user thread, and the read thread does not end before the transfer it      *)
(* cancelled has.                                                            *)
TransferKnown ==
  faulted = {} =>
    /\ thread \in After \cup {"cancel", "lastEvents"} => shutdown_thread
    /\ shutdown_thread /\ user \notin {"join", "closed"} => ~InFlight /\ runner = "none"
    /\ thread = "lastEvents" => transfer = "cancelled"
    /\ thread \in After => ~InFlight /\ runner = "none"

(* A report read_callback has yet to put on the list was sent before.        *)
ReportsKnown ==
  came + (IF callback \in {"lock", "append"} \/ transfer = "completed" THEN 1 ELSE 0) <= sent

DeviceInv == TypeOK /\ ControlKnown /\ TransferKnown /\ ReportsKnown

--------------------------------------------------------------------------------
(* TypeOK in three parts: flags and places, numbers, faults.                 *)
FlagTypes ==
  /\ mutex \in {"free", "thread", "user"}
  /\ shutdown_thread \in BOOLEAN
  /\ thread \in {"none", "start", "barrier", "test", "events", "cancel", "lastEvents",
                 "wakeLock", "wake", "ended"}
  /\ user \in {"open", "barrier", "idle", "read", "locked", "sleep", "wait", "woken", "late",
               "writing", "join", "closed"}
  /\ mode \in {"poll", "timed", "blocking"}
  /\ transfer \in {"none", "idle", "pending"} \cup Ends
  /\ callback \in {"none", "lock", "append", "submit"}
  /\ runner \in {"none", "thread", "user"}
  /\ plugged \in BOOLEAN
NumberTypes ==
  /\ input_reports \in Seq(1..MaxReports) /\ Len(input_reports) <= QueueLimit + 2
  /\ sent \in 0..MaxReports /\ came \in 0..MaxReports
  /\ result \in -1..MaxReports /\ called \in 0..MaxCalls

FaultTypes == faulted \subseteq {"submit", "events", "early"}

LEMMA Types == TypeOK <=> FlagTypes /\ NumberTypes /\ FaultTypes
BY DEF TypeOK, FlagTypes, NumberTypes, FaultTypes

(* What the actions of read_callback do to the rest.                         *)
LEMMA CallbackCases ==
  ASSUME NEW who \in {"thread", "user"}, Callback(who)
  PROVE  /\ Handles(who) /\ runner = "none" /\ transfer' = "idle"
         /\ \/ transfer = "completed" /\ callback' = "lock" /\ runner' = who
               /\ UNCHANGED shutdown_thread
            \/ transfer \in {"cancelled", "noDevice"} /\ shutdown_thread' = TRUE
               /\ callback' = "none" /\ runner' = "none"
            \/ transfer \in {"timedOut", "error"} /\ callback' = "submit" /\ runner' = who
               /\ UNCHANGED shutdown_thread
         /\ thread' = IF who = "thread" /\ callback' = "none"
                      THEN IF thread = "events" THEN "test" ELSE "wakeLock"
                      ELSE thread
         /\ UNCHANGED <<mutex, input_reports, userVars, plugged, sent, came, faulted>>
<1>1. transfer \in Ends
  BY DEF Callback
<1>2. CASE transfer = "completed"
  BY <1>2 DEF Callback
<1>3. CASE transfer \in {"cancelled", "noDevice"}
  BY <1>3 DEF Callback, CallbackDone
<1>4. CASE transfer \in {"timedOut", "error"}
  BY <1>4 DEF Callback
<1>5. QED
  BY <1>1, <1>2, <1>3, <1>4 DEF Ends

LEMMA SubmitCases ==
  ASSUME Submit
  PROVE  transfer' \in {"pending", "idle"} /\ (faulted' = faulted \/ faulted' = faulted \cup {"submit"})
BY DEF Submit

LEMMA InitInv == Init => DeviceInv
<1> SUFFICES ASSUME Init PROVE DeviceInv
  OBVIOUS
<1>1. FlagTypes /\ FaultTypes
  BY DEF Init, FlagTypes, FaultTypes
<1>2. NumberTypes
  <2>1. input_reports \in Seq(1..MaxReports) /\ Len(input_reports) = 0
    BY EmptySeq DEF Init
  <2> QED BY <2>1, DeviceAssumption DEF Init, NumberTypes
<1>3. ControlKnown
  BY DEF Init, ControlKnown, Before
<1>4. TransferKnown
  BY DEF Init, TransferKnown, InFlight, Ends, After
<1>5. ReportsKnown
  BY DEF Init, ReportsKnown
<1>6. QED
  BY <1>1, <1>2, <1>3, <1>4, <1>5, Types DEF DeviceInv

LEMMA FlagsStep == DeviceInv /\ [Next]_vars => FlagTypes'
<1> SUFFICES ASSUME FlagTypes, ControlKnown, [Next]_vars PROVE FlagTypes'
  BY Types DEF DeviceInv
<1> USE DEF FlagTypes, Ends, vars, shared, userVars, usb, Goto, User, Wake
<1>1. CASE Create
  BY <1>1 DEF Create
<1>2. CASE Barrier
  BY <1>2 DEF Barrier
<1>3. CASE FirstSubmit
  BY <1>3, SubmitCases DEF FirstSubmit
<1>4. CASE Test
  BY <1>4 DEF Test
<1>5. CASE EventsReturn
  BY <1>5 DEF EventsReturn
<1>6. CASE EventsFail
  BY <1>6 DEF EventsFail
<1>7. CASE Cancel
  BY <1>7 DEF Cancel
<1>8. CASE LastEventsReturn
  BY <1>8 DEF LastEventsReturn
<1>9. CASE WakeLock
  BY <1>9 DEF WakeLock
<1>10. CASE WakeAll
  BY <1>10 DEF WakeAll
<1>11. CASE CallbackLock
  BY <1>11 DEF CallbackLock, ControlKnown
<1>12. CASE CallbackAppend
  BY <1>12 DEF CallbackAppend
<1>13. CASE CallbackSubmit
  BY <1>13, SubmitCases DEF CallbackSubmit, CallbackDone
<1>14. CASE ReadCall
  BY <1>14 DEF ReadCall
<1>15. CASE WriteCall
  BY <1>15 DEF WriteCall
<1>16. CASE Close
  BY <1>16 DEF Close
<1>17. CASE Spurious
  BY <1>17 DEF Spurious
<1>18. CASE TimeUp
  BY <1>18 DEF TimeUp
<1>19. CASE ReadLock
  BY <1>19 DEF ReadLock
<1>20. CASE ReadCheck
  BY <1>20 DEF ReadCheck, Answer
<1>21. CASE Sleep
  BY <1>21 DEF Sleep
<1>22. CASE ReadTimesOut
  BY <1>22 DEF ReadTimesOut, Answer
<1>23. CASE WriteReturn
  BY <1>23 DEF WriteReturn
<1>24. CASE Free
  BY <1>24 DEF Free
<1>25. CASE DeviceSends
  BY <1>25 DEF DeviceSends
<1>26. CASE TransferEnds
  BY <1>26 DEF TransferEnds
<1>27. CASE Unplug
  <2>1. transfer' \in {"none", "idle", "pending"} \cup Ends
    BY <1>27 DEF Unplug
  <2>2. plugged' \in BOOLEAN /\ UNCHANGED <<mutex, shutdown_thread, thread, user, mode, callback, runner>>
    BY <1>27 DEF Unplug
  <2> QED BY <2>1, <2>2
<1>28. ASSUME NEW who \in {"thread", "user"}, Callback(who) PROVE FlagTypes'
  BY <1>28, CallbackCases
<1>29. CASE UNCHANGED vars
  BY <1>29
<1>30. QED
  BY <1>1, <1>2, <1>3, <1>4, <1>5, <1>6, <1>7, <1>8, <1>9, <1>10, <1>11, <1>12, <1>13, <1>14, <1>15, <1>16, <1>17, <1>18, <1>19, <1>20, <1>21, <1>22, <1>23, <1>24, <1>25, <1>26, <1>27, <1>28, <1>29 DEF Next, ThreadStep, CallbackStep, UserStep

LEMMA FaultsStep == DeviceInv /\ [Next]_vars => FaultTypes'
<1> SUFFICES ASSUME FaultTypes, [Next]_vars PROVE FaultTypes'
  BY Types DEF DeviceInv
<1> USE DEF FaultTypes, vars, usb
<1>1. CASE UNCHANGED faulted
  BY <1>1
<1>2. CASE FirstSubmit \/ CallbackSubmit
  <2>1. Submit
    BY <1>2 DEF FirstSubmit, CallbackSubmit
  <2> QED BY <2>1, SubmitCases
<1>3. CASE EventsFail
  BY <1>3 DEF EventsFail
<1>4. CASE LastEventsReturn
  BY <1>4 DEF LastEventsReturn
<1>5. ASSUME NEW who \in {"thread", "user"}, Callback(who) PROVE UNCHANGED faulted
  BY <1>5 DEF Callback
<1>6. CASE Create \/ Barrier \/ Test \/ EventsReturn \/ Cancel \/ WakeLock \/ WakeAll
  BY <1>1, <1>6 DEF Create, Barrier, Test, EventsReturn, Cancel, WakeLock, WakeAll
<1>7. CASE CallbackLock \/ CallbackAppend \/ DeviceSends \/ TransferEnds \/ Unplug
  BY <1>1, <1>7 DEF CallbackLock, CallbackAppend, DeviceSends, TransferEnds, Unplug
<1>8. CASE ReadCall \/ WriteCall \/ Close \/ Spurious \/ TimeUp \/ UserStep
  BY <1>1, <1>8 DEF ReadCall, WriteCall, Close, Spurious, TimeUp, UserStep, ReadLock,
       ReadCheck, Sleep, ReadTimesOut, WriteReturn, Free
<1>9. CASE UNCHANGED vars
  BY <1>1, <1>9
<1>10. QED
  BY <1>1, <1>2, <1>3, <1>4, <1>5, <1>6, <1>7, <1>8, <1>9 DEF Next, ThreadStep, CallbackStep

LEMMA NumbersStep == DeviceInv /\ [Next]_vars => NumberTypes'
<1> SUFFICES ASSUME NumberTypes, ReportsKnown, [Next]_vars PROVE NumberTypes'
  BY Types DEF DeviceInv
<1> USE DEF NumberTypes, vars, shared, userVars, usb
<1>1. CASE UNCHANGED <<input_reports, sent, came, result, called>>
  BY <1>1
<1>2. CASE CallbackAppend
  <2>1. came + 1 \in 1..MaxReports /\ came' = came + 1 /\ UNCHANGED <<sent, result, called>>
    BY <1>2, DeviceAssumption DEF CallbackAppend, ReportsKnown
  <2>2. Len(input_reports) \in Nat
    BY LenProperties
  <2>3. CASE Len(input_reports) - 1 > QueueLimit
    <3>1. input_reports # <<>>
      BY <2>3, DeviceAssumption
    <3>2. Tail(input_reports) \in Seq(1..MaxReports) /\ Len(Tail(input_reports)) = Len(input_reports) - 1
      BY <3>1, HeadTailProperties
    <3>3. input_reports' = Append(Tail(input_reports), came + 1)
      BY <1>2, <2>3 DEF CallbackAppend
    <3>4. input_reports' \in Seq(1..MaxReports) /\ Len(input_reports') = Len(Tail(input_reports)) + 1
      BY <2>1, <3>2, <3>3, AppendProperties
    <3> QED BY <2>1, <2>2, <3>2, <3>4, DeviceAssumption
  <2>4. CASE ~(Len(input_reports) - 1 > QueueLimit)
    <3>1. input_reports' = Append(input_reports, came + 1)
      BY <1>2, <2>4 DEF CallbackAppend
    <3>2. input_reports' \in Seq(1..MaxReports) /\ Len(input_reports') = Len(input_reports) + 1
      BY <2>1, <3>1, AppendProperties
    <3> QED BY <2>1, <2>2, <2>4, <3>2, DeviceAssumption
  <2> QED BY <2>3, <2>4
<1>3. CASE ReadCheck
  <2>1. input_reports # <<>> => Head(input_reports) \in 1..MaxReports
          /\ Tail(input_reports) \in Seq(1..MaxReports) /\ Len(Tail(input_reports)) = Len(input_reports) - 1
    BY HeadTailProperties
  <2>2. Len(input_reports) \in Nat
    BY LenProperties
  <2>3. UNCHANGED <<sent, came, called>>
    BY <1>3 DEF ReadCheck
  <2>4. CASE /\ input_reports # <<>>
             /\ result' = Head(input_reports) /\ input_reports' = Tail(input_reports)
    BY ONLY <2>1, <2>2, <2>3, <2>4, NumberTypes, DeviceAssumption DEF NumberTypes
  <2>5. CASE (result' = -1 \/ result' = 0 \/ result' = result) /\ input_reports' = input_reports
    BY ONLY <2>3, <2>5, NumberTypes, DeviceAssumption DEF NumberTypes
  <2> QED BY <1>3, <2>4, <2>5 DEF ReadCheck, Answer
<1>4. CASE ReadTimesOut
  BY <1>4, DeviceAssumption DEF ReadTimesOut, Answer
<1>5. CASE Free
  <2>1. input_reports' \in Seq(1..MaxReports) /\ Len(input_reports') = 0
    BY <1>5, EmptySeq DEF Free
  <2> QED BY <1>5, <2>1, DeviceAssumption DEF Free
<1>6. CASE ReadCall \/ WriteCall
  BY <1>6, DeviceAssumption DEF ReadCall, WriteCall
<1>7. CASE DeviceSends
  BY <1>7, DeviceAssumption DEF DeviceSends
<1>8. CASE ThreadStep
  BY <1>1, <1>8 DEF ThreadStep, FirstSubmit, Test, EventsReturn, EventsFail, Cancel,
       LastEventsReturn, WakeLock, WakeAll
<1>9. ASSUME NEW who \in {"thread", "user"}, Callback(who) PROVE NumberTypes'
  BY <1>1, <1>9 DEF Callback
<1>10. CASE CallbackLock \/ CallbackSubmit
  BY <1>1, <1>10 DEF CallbackLock, CallbackSubmit
<1>11. CASE Create \/ Barrier \/ Close \/ Spurious \/ TimeUp \/ TransferEnds \/ Unplug
  BY <1>1, <1>11 DEF Create, Barrier, Close, Spurious, TimeUp, TransferEnds, Unplug
<1>12. CASE ReadLock \/ Sleep \/ WriteReturn
  BY <1>1, <1>12 DEF ReadLock, Sleep, WriteReturn
<1>13. QED
  BY <1>1, <1>2, <1>3, <1>4, <1>5, <1>6, <1>7, <1>8, <1>9, <1>10, <1>11, <1>12
     DEF Next, CallbackStep, UserStep

LEMMA ControlStep == DeviceInv /\ [Next]_vars => ControlKnown'
<1> SUFFICES ASSUME FlagTypes, ControlKnown, [Next]_vars PROVE ControlKnown'
  BY Types DEF DeviceInv
<1> USE DEF FlagTypes, ControlKnown, Before, Ends, vars, shared, userVars, usb, Goto, User, Wake
<1>1. CASE Create \/ Barrier \/ Test
  BY <1>1 DEF Create, Barrier, Test
<1>2. CASE FirstSubmit
  BY <1>2 DEF FirstSubmit
<1>3. CASE EventsReturn \/ EventsFail \/ LastEventsReturn
  BY <1>3 DEF EventsReturn, EventsFail, LastEventsReturn
<1>4. CASE Cancel
  BY <1>4 DEF Cancel, InFlight
<1>5. CASE WakeLock \/ WakeAll
  BY <1>5 DEF WakeLock, WakeAll
<1>6. ASSUME NEW who \in {"thread", "user"}, Callback(who) PROVE ControlKnown'
  BY <1>6, CallbackCases DEF Handles
<1>7. CASE CallbackLock \/ CallbackAppend
  BY <1>7 DEF CallbackLock, CallbackAppend
<1>8. CASE CallbackSubmit
  BY <1>8 DEF CallbackSubmit, CallbackDone
<1>9. CASE ReadCall \/ WriteCall \/ Close \/ Spurious \/ TimeUp
  BY <1>9 DEF ReadCall, WriteCall, Close, Spurious, TimeUp
<1>10. CASE UserStep
  BY <1>10 DEF UserStep, ReadLock, ReadCheck, Sleep, ReadTimesOut, WriteReturn, Free, Answer
<1>11. CASE DeviceSends \/ TransferEnds \/ Unplug
  BY <1>11 DEF DeviceSends, TransferEnds, Unplug
<1>12. CASE UNCHANGED vars
  BY <1>12
<1>13. QED
  BY <1>1, <1>2, <1>3, <1>4, <1>5, <1>6, <1>7, <1>8, <1>9, <1>10, <1>11, <1>12
     DEF Next, ThreadStep, CallbackStep

LEMMA TransferStep == DeviceInv /\ [Next]_vars => TransferKnown'
<1> SUFFICES ASSUME FlagTypes, ControlKnown, TransferKnown, [Next]_vars, faulted' = {}
             PROVE  TransferKnown'
  BY Types DEF DeviceInv, TransferKnown
<1> USE DEF FlagTypes, ControlKnown, TransferKnown, Before, After, InFlight, Ends,
            vars, shared, userVars, usb, Goto, User, Wake
<1>1. CASE Create \/ Barrier \/ Test
  BY <1>1 DEF Create, Barrier, Test
<1>2. CASE FirstSubmit
  <2>1. faulted = {}
    BY <1>2, SubmitCases DEF FirstSubmit
  <2> QED BY <1>2, <2>1 DEF FirstSubmit
<1>3. CASE EventsReturn \/ EventsFail \/ LastEventsReturn
  BY <1>3 DEF EventsReturn, EventsFail, LastEventsReturn
<1>4. CASE Cancel
  BY <1>4 DEF Cancel
<1>5. CASE WakeLock \/ WakeAll
  BY <1>5 DEF WakeLock, WakeAll
<1>6. ASSUME NEW who \in {"thread", "user"}, Callback(who) PROVE TransferKnown'
  BY <1>6, CallbackCases DEF Handles
<1>7. CASE CallbackLock \/ CallbackAppend
  BY <1>7 DEF CallbackLock, CallbackAppend
<1>8. CASE CallbackSubmit
  <2>1. faulted = {}
    BY <1>8, SubmitCases DEF CallbackSubmit
  <2> QED BY <1>8, <2>1 DEF CallbackSubmit, CallbackDone
<1>9. CASE ReadCall \/ WriteCall \/ Close \/ Spurious \/ TimeUp
  BY <1>9 DEF ReadCall, WriteCall, Close, Spurious, TimeUp
<1>10. CASE UserStep
  BY <1>10 DEF UserStep, ReadLock, ReadCheck, Sleep, ReadTimesOut, WriteReturn, Free, Answer
<1>11. CASE DeviceSends \/ TransferEnds \/ Unplug
  BY <1>11 DEF DeviceSends, TransferEnds, Unplug
<1>12. CASE UNCHANGED vars
  BY <1>12
<1>13. QED
  BY <1>1, <1>2, <1>3, <1>4, <1>5, <1>6, <1>7, <1>8, <1>9, <1>10, <1>11, <1>12
     DEF Next, ThreadStep, CallbackStep

LEMMA ReportsStep == DeviceInv /\ [Next]_vars => ReportsKnown'
<1> SUFFICES ASSUME NumberTypes, ControlKnown, ReportsKnown, [Next]_vars PROVE ReportsKnown'
  BY Types DEF DeviceInv
<1> USE DEF NumberTypes, ReportsKnown, vars, shared, userVars, usb, Goto, User
<1>1. CASE UNCHANGED <<callback, transfer, came, sent>>
  BY <1>1
<1>2. CASE FirstSubmit
  BY <1>2, SubmitCases DEF FirstSubmit
<1>3. CASE Cancel
  BY <1>3 DEF Cancel
<1>4. ASSUME NEW who \in {"thread", "user"}, Callback(who) PROVE ReportsKnown'
  <2>1. /\ transfer' = "idle" /\ UNCHANGED <<sent, came>>
        /\ transfer = "completed" \/ callback' \notin {"lock", "append"}
    BY <1>4, CallbackCases
  <2> QED BY <2>1
<1>5. CASE CallbackLock \/ CallbackAppend
  BY <1>5 DEF CallbackLock, CallbackAppend, ControlKnown
<1>6. CASE CallbackSubmit
  BY <1>6, SubmitCases DEF CallbackSubmit, CallbackDone
<1>7. CASE DeviceSends
  BY <1>7 DEF DeviceSends, ControlKnown
<1>8. CASE TransferEnds \/ Unplug
  BY <1>8 DEF TransferEnds, Unplug
<1>9. CASE Create \/ Barrier \/ ReadCall \/ WriteCall \/ Close \/ Spurious \/ TimeUp \/ UserStep
  BY <1>1, <1>9 DEF Create, Barrier, ReadCall, WriteCall, Close, Spurious, TimeUp,
       UserStep, ReadLock, ReadCheck, Sleep, ReadTimesOut, WriteReturn, Free
<1>10. CASE Test \/ EventsReturn \/ EventsFail \/ LastEventsReturn \/ WakeLock \/ WakeAll
  BY <1>1, <1>10 DEF Test, EventsReturn, EventsFail, LastEventsReturn, WakeLock, WakeAll
<1>11. QED
  BY <1>1, <1>2, <1>3, <1>4, <1>5, <1>6, <1>7, <1>8, <1>9, <1>10 DEF Next, ThreadStep, CallbackStep

LEMMA DeviceInvariant == Spec => []DeviceInv
<1>1. DeviceInv /\ [Next]_vars => DeviceInv'
  <2> SUFFICES ASSUME DeviceInv, [Next]_vars PROVE DeviceInv'
    OBVIOUS
  <2>1. TypeOK'
    BY FlagsStep, NumbersStep, FaultsStep DEF TypeOK, FlagTypes, NumberTypes, FaultTypes
  <2>2. QED
    BY <2>1, ControlStep, TransferStep, ReportsStep DEF DeviceInv
<1>2. QED
  BY InitInv, <1>1, PTL DEF Spec

--------------------------------------------------------------------------------
(* Every variable keeps its type; in particular the list never holds more    *)
(* than two reports above the limit, however slowly it is read.              *)
THEOREM TypeCorrect == Spec => []TypeOK
<1>1. DeviceInv => TypeOK
  BY DEF DeviceInv
<1>2. QED
  BY DeviceInvariant, <1>1, PTL

(* hid_close frees the transfer and the list only when libusb and both       *)
(* threads are through with them, unless a call of libusb failed.            *)
THEOREM FreedCorrect == Spec => []FreedQuietly
<1>1. DeviceInv => FreedQuietly
  BY DEF DeviceInv, ControlKnown, TransferKnown, After, FreedQuietly
<1>2. QED
  BY DeviceInvariant, <1>1, PTL

--------------------------------------------------------------------------------
(* No wake-up is lost. *)

(* pthread_cond_wait is safe: whoever sleeps sleeps without a report, and    *)
(* not after the broadcast that ends the read thread, although it looked at  *)
(* shutdown_thread before that was set without the mutex; only an error of   *)
(* libusb_handle_events ends the thread with shutdown_thread unset.          *)
NobodySleepsInVain ==
  user = "wait" => input_reports = <<>> /\ (thread = "ended" => "events" \in faulted)

(* The mutex is held from a look at the list to pthread_cond_wait, while a   *)
(* report is appended, and for the broadcast.                                *)
MutexKnown ==
  /\ mutex = "user" <=> user \in {"locked", "sleep"} \/ (callback = "append" /\ runner = "user")
  /\ mutex = "thread" <=> thread = "wake" \/ (callback = "append" /\ runner = "thread")

(* The read thread leaves its loop for shutdown_thread or that error.        *)
EndKnown ==
  thread \in After \cup {"cancel", "lastEvents"} => shutdown_thread \/ "events" \in faulted

(* So far for whoever is about to sleep, too.                                *)
SleepKnown ==
  user \in {"sleep", "wait"} => input_reports = <<>> /\ (thread = "ended" => "events" \in faulted)

WakeInv == MutexKnown /\ EndKnown /\ SleepKnown

LEMMA MutexStep == DeviceInv /\ MutexKnown /\ [Next]_vars => MutexKnown'
<1> SUFFICES ASSUME FlagTypes, ControlKnown, MutexKnown, [Next]_vars PROVE MutexKnown'
  BY Types DEF DeviceInv
<1> USE DEF FlagTypes, ControlKnown, MutexKnown, Before, vars, shared, userVars, usb, Goto, User, Wake
<1>1. CASE Create \/ Barrier \/ Test
  BY <1>1 DEF Create, Barrier, Test
<1>2. CASE FirstSubmit
  BY <1>2 DEF FirstSubmit
<1>3. CASE EventsReturn \/ EventsFail \/ LastEventsReturn
  BY <1>3 DEF EventsReturn, EventsFail, LastEventsReturn
<1>4. CASE Cancel
  BY <1>4 DEF Cancel
<1>5. CASE WakeLock \/ WakeAll
  BY <1>5 DEF WakeLock, WakeAll
<1>6. ASSUME NEW who \in {"thread", "user"}, Callback(who) PROVE MutexKnown'
  BY <1>6, CallbackCases DEF Handles
<1>7. CASE CallbackLock \/ CallbackAppend
  BY <1>7 DEF CallbackLock, CallbackAppend
<1>8. CASE CallbackSubmit
  BY <1>8 DEF CallbackSubmit, CallbackDone
<1>9. CASE ReadCall \/ WriteCall \/ Close \/ Spurious \/ TimeUp
  BY <1>9 DEF ReadCall, WriteCall, Close, Spurious, TimeUp
<1>10. CASE ReadLock \/ Sleep \/ ReadTimesOut \/ WriteReturn \/ Free
  BY <1>10 DEF ReadLock, Sleep, ReadTimesOut, WriteReturn, Free, Answer
<1>11. CASE ReadCheck
  BY <1>11 DEF ReadCheck, Answer
<1>12. CASE DeviceSends \/ TransferEnds \/ Unplug
  BY <1>12 DEF DeviceSends, TransferEnds, Unplug
<1>13. CASE UNCHANGED vars
  BY <1>13
<1>14. QED
  BY <1>1, <1>2, <1>3, <1>4, <1>5, <1>6, <1>7, <1>8, <1>9, <1>10, <1>11, <1>12, <1>13
     DEF Next, ThreadStep, CallbackStep, UserStep

(* libusb_handle_events is never un-failed.                                  *)
LEMMA FaultsStay == [Next]_vars => faulted \subseteq faulted'
<1> SUFFICES ASSUME [Next]_vars PROVE faulted \subseteq faulted'
  OBVIOUS
<1> USE DEF vars, usb
<1>1. CASE FirstSubmit \/ CallbackSubmit
  BY <1>1, SubmitCases DEF FirstSubmit, CallbackSubmit
<1>2. CASE EventsFail \/ LastEventsReturn
  BY <1>2 DEF EventsFail, LastEventsReturn
<1>3. ASSUME NEW who \in {"thread", "user"}, Callback(who) PROVE UNCHANGED faulted
  BY <1>3 DEF Callback
<1>4. CASE Create \/ Barrier \/ Test \/ EventsReturn \/ Cancel \/ WakeLock \/ WakeAll
  BY <1>4 DEF Create, Barrier, Test, EventsReturn, Cancel, WakeLock, WakeAll
<1>5. CASE CallbackLock \/ CallbackAppend \/ DeviceSends \/ TransferEnds \/ Unplug
  BY <1>5 DEF CallbackLock, CallbackAppend, DeviceSends, TransferEnds, Unplug
<1>6. CASE ReadCall \/ WriteCall \/ Close \/ Spurious \/ TimeUp \/ UserStep
  BY <1>6 DEF ReadCall, WriteCall, Close, Spurious, TimeUp, UserStep, ReadLock,
     ReadCheck, Sleep, ReadTimesOut, WriteReturn, Free
<1>7. CASE UNCHANGED vars
  BY <1>7
<1>8. QED
  BY <1>1, <1>2, <1>3, <1>4, <1>5, <1>6, <1>7 DEF Next, ThreadStep, CallbackStep

LEMMA EndStep == DeviceInv /\ EndKnown /\ [Next]_vars => EndKnown'
<1> SUFFICES ASSUME FlagTypes, ControlKnown, EndKnown, [Next]_vars,
                      "events" \notin faulted'
             PROVE  EndKnown'
  BY Types DEF DeviceInv, EndKnown
<1>0. "events" \notin faulted
  BY FaultsStay
<1> USE <1>0 DEF FlagTypes, EndKnown, After, vars, shared, userVars, usb, Goto, User, Wake
<1>1. CASE Create \/ Barrier \/ Test \/ FirstSubmit
  BY <1>1 DEF Create, Barrier, Test, FirstSubmit
<1>2. CASE EventsReturn \/ EventsFail \/ LastEventsReturn
  BY <1>2 DEF EventsReturn, EventsFail, LastEventsReturn
<1>3. CASE Cancel \/ WakeLock \/ WakeAll
  BY <1>3 DEF Cancel, WakeLock, WakeAll
<1>4. ASSUME NEW who \in {"thread", "user"}, Callback(who) PROVE EndKnown'
  BY <1>4, CallbackCases DEF Handles
<1>5. CASE CallbackLock \/ CallbackAppend
  BY <1>5 DEF CallbackLock, CallbackAppend
<1>6. CASE CallbackSubmit
  <2>1. \/ UNCHANGED <<thread, shutdown_thread>>
        \/ thread' = "test"
        \/ thread = "lastEvents" /\ UNCHANGED shutdown_thread
    BY <1>6 DEF CallbackSubmit, CallbackDone, ControlKnown
  <2> QED BY <2>1
<1>7. CASE ReadCall \/ WriteCall \/ Close \/ Spurious \/ TimeUp
  BY <1>7 DEF ReadCall, WriteCall, Close, Spurious, TimeUp
<1>8. CASE UserStep
  BY <1>8 DEF UserStep, ReadLock, ReadCheck, Sleep, ReadTimesOut, WriteReturn, Free
<1>9. CASE DeviceSends \/ TransferEnds \/ Unplug
  BY <1>9 DEF DeviceSends, TransferEnds, Unplug
<1>10. CASE UNCHANGED vars
  BY <1>10
<1>11. QED
  BY <1>1, <1>2, <1>3, <1>4, <1>5, <1>6, <1>7, <1>8, <1>9, <1>10
     DEF Next, ThreadStep, CallbackStep

LEMMA SleepStep == DeviceInv /\ WakeInv /\ [Next]_vars => SleepKnown'
<1> SUFFICES ASSUME FlagTypes, ControlKnown, MutexKnown, EndKnown, SleepKnown, [Next]_vars
             PROVE  SleepKnown'
  BY Types DEF DeviceInv, WakeInv
<1>0. "events" \in faulted => "events" \in faulted'
  BY FaultsStay
<1> USE <1>0 DEF FlagTypes, SleepKnown, vars, shared, userVars, usb, Goto, User, Wake
<1>1. CASE Create \/ Barrier \/ Test \/ FirstSubmit
  BY <1>1 DEF Create, Barrier, Test, FirstSubmit
<1>2. CASE EventsReturn \/ EventsFail \/ LastEventsReturn \/ Cancel \/ WakeLock
  BY <1>2 DEF EventsReturn, EventsFail, LastEventsReturn, Cancel, WakeLock
<1>3. CASE WakeAll
  BY <1>3 DEF WakeAll, MutexKnown
<1>4. ASSUME NEW who \in {"thread", "user"}, Callback(who) PROVE SleepKnown'
  BY <1>4, CallbackCases
<1>5. CASE CallbackLock
  BY <1>5 DEF CallbackLock
<1>6. CASE CallbackAppend
  <2>1. user # "sleep"
    BY <1>6 DEF CallbackAppend, MutexKnown, ControlKnown
  <2>2. user' \notin {"sleep", "wait"}
    BY <1>6, <2>1 DEF CallbackAppend
  <2> QED BY <2>2
<1>7. CASE CallbackSubmit
  BY <1>7 DEF CallbackSubmit
<1>8. CASE ReadCall \/ WriteCall \/ Close \/ Spurious \/ TimeUp
  BY <1>8 DEF ReadCall, WriteCall, Close, Spurious, TimeUp
<1>9. CASE ReadCheck
  BY <1>9 DEF ReadCheck, Answer, EndKnown, After
<1>10. CASE ReadLock \/ Sleep \/ ReadTimesOut \/ WriteReturn \/ Free
  BY <1>10 DEF ReadLock, Sleep, ReadTimesOut, WriteReturn, Free, Answer
<1>11. CASE DeviceSends \/ TransferEnds \/ Unplug
  BY <1>11 DEF DeviceSends, TransferEnds, Unplug
<1>12. CASE UNCHANGED vars
  BY <1>12
<1>13. QED
  BY <1>1, <1>2, <1>3, <1>4, <1>5, <1>6, <1>7, <1>8, <1>9, <1>10, <1>11, <1>12
     DEF Next, ThreadStep, CallbackStep, UserStep

(* pthread_cond_signal for the first report only and one broadcast at the    *)
(* end are enough: the reader that waits has nothing to be woken for.        *)
THEOREM WakeUpsCorrect == Spec => []NobodySleepsInVain
<1>1. Init => WakeInv
  BY DEF Init, WakeInv, MutexKnown, EndKnown, SleepKnown, After
<1>2. DeviceInv /\ WakeInv /\ [Next]_vars => WakeInv'
  BY MutexStep, EndStep, SleepStep DEF WakeInv
<1>3. WakeInv => NobodySleepsInVain
  BY DEF WakeInv, SleepKnown, NobodySleepsInVain
<1>4. QED
  BY DeviceInvariant, <1>1, <1>2, <1>3, PTL DEF Spec

--------------------------------------------------------------------------------
LEMMA StepRefines == DeviceInv /\ [Next]_vars => [Queue!Next]_(Queue!vars)
<1> SUFFICES ASSUME NumberTypes, [Next]_vars PROVE [Queue!Next]_(Queue!vars)
  BY Types DEF DeviceInv
<1> USE DEF vars, shared, userVars, usb
<1>1. UNCHANGED <<input_reports, came, result>> => UNCHANGED Queue!vars
  BY DEF Queue!vars
<1>2. CASE CallbackAppend
  <2>1. Len(input_reports) \in Nat /\ Len(input_reports) <= QueueLimit + 2
    BY LenProperties DEF NumberTypes
  <2>2. Len(input_reports) - 1 > QueueLimit <=> ~(Len(input_reports) < QueueLimit + 2)
    BY <2>1, DeviceAssumption
  <2>3. input_reports' = Append(IF Len(input_reports) < QueueLimit + 2
                                THEN input_reports ELSE Tail(input_reports), came + 1)
    BY <1>2, <2>2 DEF CallbackAppend
  <2>4. Queue!Come
    BY <1>2, <2>3 DEF CallbackAppend, Queue!Come
  <2> QED BY <2>4 DEF Queue!Next
<1>3. CASE ReadCheck
  <2>1. came' = came
    BY <1>3 DEF ReadCheck
  <2>2. \/ /\ input_reports # <<>>
           /\ result' = Head(input_reports) /\ input_reports' = Tail(input_reports)
        \/ input_reports = <<>> /\ result' = -1 /\ input_reports' = input_reports
        \/ result' = 0 /\ input_reports' = input_reports
        \/ UNCHANGED <<input_reports, result>>
    BY <1>3 DEF ReadCheck, Answer
  <2> QED BY <1>1, <2>1, <2>2 DEF Queue!Next, Queue!Read, Queue!Fail, Queue!TimeOut
<1>4. CASE ReadTimesOut
  BY <1>4 DEF ReadTimesOut, Answer, Queue!Next, Queue!TimeOut
<1>5. CASE Free
  BY <1>5 DEF Free, Queue!Next, Queue!Close
<1>6. CASE ThreadStep
  BY <1>1, <1>6 DEF ThreadStep, FirstSubmit, Test, EventsReturn, EventsFail, Cancel,
       LastEventsReturn, WakeLock, WakeAll
<1>7. ASSUME NEW who \in {"thread", "user"}, Callback(who) PROVE UNCHANGED Queue!vars
  BY <1>1, <1>7 DEF Callback
<1>8. CASE CallbackLock \/ CallbackSubmit
  BY <1>1, <1>8 DEF CallbackLock, CallbackSubmit
<1>9. CASE Create \/ Barrier \/ ReadCall \/ WriteCall \/ Close \/ Spurious \/ TimeUp
  BY <1>1, <1>9 DEF Create, Barrier, ReadCall, WriteCall, Close, Spurious, TimeUp
<1>10. CASE ReadLock \/ Sleep \/ WriteReturn \/ DeviceSends \/ TransferEnds \/ Unplug
  BY <1>1, <1>10 DEF ReadLock, Sleep, WriteReturn, DeviceSends, TransferEnds, Unplug
<1>11. CASE UNCHANGED vars
  BY <1>1, <1>11
<1>12. QED
  BY <1>2, <1>3, <1>4, <1>5, <1>6, <1>7, <1>8, <1>9, <1>10, <1>11 DEF Next, CallbackStep, UserStep

(* Over two threads that run the callback, time-outs, wake-ups for no reason *)
(* and the end of the read thread, the list hands each report out once and   *)
(* in its turn, drops only the oldest, and reports an error when it is empty.*)
THEOREM ImplementsQueue == Spec => QueueSpec
<1>1. Init => Queue!Init
  BY DEF Init, Queue!Init
<1>2. DeviceInv /\ [Next]_vars => [Queue!Next]_(Queue!vars)
  BY StepRefines
<1>3. QED
  BY <1>1, <1>2, DeviceInvariant, PTL DEF Spec, QueueSpec, Queue!Spec
================================================================================
