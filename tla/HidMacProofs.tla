-------------------------------- MODULE HidMacProofs --------------------------------
(***************************************************************************)
(* Theorems about one hid_device on Mac OS X, for every limit of the list  *)
(* and every number of reports and calls: type correctness and the length  *)
(* of the list, that the run loops that are stopped or woken exist, that   *)
(* no reader sleeps in vain, and that the list is a HidQueue.              *)
(***************************************************************************)
EXTENDS HidMac, SequenceTheorems, TLAPS

Barriers == {"start", "shutdown"}

(* The owner may use the device: between the two barriers.                   *)
Open == {"idle", "read", "sleep", "wait", "woken", "late", "close", "shutdown"}

(* Without a wake-up for no reason, the two barriers are meetings: a thread  *)
(* has come to one exactly when it sleeps there, and neither passes alone.   *)
(* The read thread is in its loop or after it, and not past the barrier that *)
(* ends it, while the owner may use the device.                              *)
MeetingsKnown ==
  ~spurious =>
    /\ \A b \in Barriers : arrived[b] = 1 <=> Waiting(b) \in {thread, user}
    /\ user \in {"none", "path"} => thread = "none"
    /\ user = "start" => thread \in {"create", "start", "startWait"}
    /\ user = "startWait" => thread \in {"create", "start"}
    /\ user \in Open => thread \in {"test", "run", "wake", "shutdown", "shutdownWait"}
    /\ user = "shutdownWait" => thread \in {"test", "run", "wake", "shutdown"}
    /\ user \in {"join", "free"} => thread = "ended"
    /\ user = "closed" => thread \in {"none", "ended"}

(* The loop is stored before the first barrier and stays.                    *)
LoopStored == thread \notin {"none", "create"} => run_loop

MacInv == TypeOK /\ MeetingsKnown /\ LoopStored /\ LoopValid

--------------------------------------------------------------------------------
(* TypeOK in three parts: places, flags, numbers.                            *)
PlaceTypes ==
  /\ mutex \in {"free", "user"}
  /\ arrived \in [Barriers -> 0..1]
  /\ thread \in {"none", "create", "start", "startWait", "test", "run", "wake",
                 "shutdown", "shutdownWait", "ended"}
  /\ user \in {"none", "path", "start", "startWait", "idle", "read", "sleep", "wait",
               "woken", "late", "close", "shutdown", "shutdownWait", "join", "free", "closed"}
  /\ mode \in {"poll", "timed", "blocking"} /\ manager \in Managers
  /\ removal \in {"none", "pending", "called", "handled"}
FlagTypes ==
  /\ shutdown_thread \in BOOLEAN /\ disconnected \in BOOLEAN /\ run_loop \in BOOLEAN
  /\ signalled \in BOOLEAN /\ stopped \in BOOLEAN /\ registered \in BOOLEAN
  /\ plugged \in BOOLEAN /\ spurious \in BOOLEAN /\ misused \in BOOLEAN
NumberTypes ==
  /\ input_reports \in Seq(1..MaxReports) /\ Len(input_reports) <= QueueLimit + 2
  /\ came \in 0..MaxReports /\ result \in -1..MaxReports /\ called \in 0..MaxCalls

LEMMA Types == TypeOK <=> PlaceTypes /\ FlagTypes /\ NumberTypes
BY DEF TypeOK, PlaceTypes, FlagTypes, NumberTypes, Barriers

(* pthread_barrier_wait lets both threads through.                           *)
LEMMA BarrierEnds ==
  /\ Waiting("start") = "startWait" /\ Waiting("shutdown") = "shutdownWait"
  /\ AfterThread("startWait") = "test" /\ AfterThread("shutdownWait") = "ended"
  /\ AfterUser("startWait") = "idle" /\ AfterUser("shutdownWait") = "join"
BY DEF Waiting, AfterThread, AfterUser

(* How far a thread that comes to a barrier gets, with the other one asleep  *)
(* there or not.                                                             *)
LEMMA ThreadCases ==
  ASSUME PlaceTypes, NEW b \in Barriers, ThreadWaits(b)
  PROVE  /\ thread = b
         /\ \/ /\ arrived[b] = 0 /\ thread' = Waiting(b) /\ user' = user
               /\ arrived' = [arrived EXCEPT ![b] = 1]
            \/ /\ arrived[b] = 1 /\ thread' = AfterThread(Waiting(b))
               /\ user' = IF user = Waiting(b) THEN AfterUser(Waiting(b)) ELSE user
               /\ arrived' = [arrived EXCEPT ![b] = 0]
<1>1. arrived[b] \in 0..1
  BY DEF PlaceTypes
<1>2. CASE arrived[b] = 0
  BY <1>2 DEF ThreadWaits
<1>3. CASE arrived[b] = 1
  BY <1>3 DEF ThreadWaits
<1> QED BY <1>1, <1>2, <1>3

LEMMA UserCases ==
  ASSUME PlaceTypes, NEW b \in Barriers, UserWaits(b)
  PROVE  /\ user = b
         /\ \/ /\ arrived[b] = 0 /\ user' = Waiting(b) /\ thread' = thread
               /\ arrived' = [arrived EXCEPT ![b] = 1]
            \/ /\ arrived[b] = 1 /\ user' = AfterUser(Waiting(b))
               /\ thread' = IF thread = Waiting(b) THEN AfterThread(Waiting(b)) ELSE thread
               /\ arrived' = [arrived EXCEPT ![b] = 0]
<1>1. arrived[b] \in 0..1
  BY DEF PlaceTypes
<1>2. CASE arrived[b] = 0
  BY <1>2 DEF UserWaits
<1>3. CASE arrived[b] = 1
  BY <1>3 DEF UserWaits
<1> QED BY <1>1, <1>2, <1>3

LEMMA InitInv == Init => MacInv
<1> SUFFICES ASSUME Init PROVE MacInv
  OBVIOUS
<1>1. PlaceTypes
  BY DEF Init, PlaceTypes, Barriers
<1>2. FlagTypes
  BY DEF Init, FlagTypes
<1>3. NumberTypes
  <2>1. input_reports \in Seq(1..MaxReports) /\ Len(input_reports) = 0
    BY EmptySeq DEF Init
  <2> QED BY <2>1, MacAssumption DEF Init, NumberTypes
<1>4. MeetingsKnown
  BY BarrierEnds DEF Init, MeetingsKnown, Open, Barriers
<1>5. LoopStored /\ LoopValid
  BY DEF Init, LoopStored, LoopValid
<1>6. QED
  BY <1>1, <1>2, <1>3, <1>4, <1>5, Types DEF MacInv

LEMMA PlacesStep == MacInv /\ [Next]_vars => PlaceTypes'
<1> SUFFICES ASSUME PlaceTypes, [Next]_vars PROVE PlaceTypes'
  BY Types DEF MacInv
<1> USE DEF PlaceTypes, vars, device, loop, hardware, calls, history, Thread, User, Wake
<1>1. CASE Enumerate
  BY <1>1 DEF Enumerate
<1>2. CASE OpenPath
  BY <1>2 DEF OpenPath
<1>3. CASE BarrierSpurious
  BY <1>3, BarrierEnds DEF BarrierSpurious
<1>4. CASE StoreLoop
  BY <1>4 DEF StoreLoop
<1>5. CASE Test
  BY <1>5 DEF Test
<1>6. CASE RunStopped
  BY <1>6 DEF RunStopped
<1>7. CASE WakeAll
  BY <1>7 DEF WakeAll
<1>8. CASE RunTimesOut
  BY <1>8 DEF RunTimesOut
<1>9. CASE ReportCallback
  BY <1>9 DEF ReportCallback
<1>10. CASE Unplug \/ RemovalCalled
  BY <1>10 DEF Unplug, RemovalCalled
<1>11. CASE Removal
  BY <1>11 DEF Removal
<1>12. CASE ReadCall
  BY <1>12 DEF ReadCall
<1>13. CASE Read
  BY <1>13 DEF Read, Answer, FallAsleep
<1>14. CASE Sleep
  BY <1>14 DEF Sleep
<1>15. CASE Woken
  BY <1>15 DEF Woken, Answer, FallAsleep
<1>16. CASE ReadTimesOut
  BY <1>16 DEF ReadTimesOut, Answer
<1>17. CASE SignalLoop
  BY <1>17 DEF SignalLoop
<1>18. CASE Join
  BY <1>18 DEF Join
<1>19. CASE Free
  BY <1>19 DEF Free
<1>20. CASE WakeSpurious
  BY <1>20 DEF WakeSpurious
<1>21. CASE TimeUp
  BY <1>21 DEF TimeUp
<1>22. CASE Close
  BY <1>22 DEF Close
<1>23. ASSUME NEW b \in Barriers, ThreadWaits(b) PROVE PlaceTypes'
  <2>1. arrived' \in [Barriers -> 0..1] /\ UNCHANGED <<mutex, mode, manager, removal>>
    BY <1>23, ThreadCases DEF ThreadWaits
  <2> QED BY <1>23, <2>1, ThreadCases, BarrierEnds DEF Barriers
<1>24. ASSUME NEW b \in Barriers, UserWaits(b) PROVE PlaceTypes'
  <2>1. arrived' \in [Barriers -> 0..1] /\ UNCHANGED <<mutex, mode, manager, removal>>
    BY <1>24, UserCases DEF UserWaits
  <2> QED BY <1>24, <2>1, UserCases, BarrierEnds DEF Barriers
<1>25. CASE UNCHANGED vars
  BY <1>25
<1>26. QED
  BY <1>1, <1>2, <1>3, <1>4, <1>5, <1>6, <1>7, <1>8, <1>9, <1>10, <1>11, <1>12, <1>13, <1>14, <1>15, <1>16, <1>17, <1>18, <1>19, <1>20, <1>21, <1>22, <1>23, <1>24, <1>25 DEF Next, Barrier, Barriers, ThreadStep, UserStep

LEMMA FlagsStep == MacInv /\ [Next]_vars => FlagTypes'
<1> SUFFICES ASSUME FlagTypes, [Next]_vars PROVE FlagTypes'
  BY Types DEF MacInv
<1> USE DEF FlagTypes, vars, device, loop, hardware, calls, history, Thread, User, LoopExists
<1>1. CASE Enumerate
  BY <1>1 DEF Enumerate
<1>2. CASE OpenPath
  BY <1>2 DEF OpenPath
<1>3. CASE BarrierSpurious
  BY <1>3 DEF BarrierSpurious
<1>4. CASE StoreLoop
  BY <1>4 DEF StoreLoop
<1>5. CASE Test
  BY <1>5 DEF Test
<1>6. CASE RunStopped
  BY <1>6 DEF RunStopped
<1>7. CASE WakeAll
  BY <1>7 DEF WakeAll
<1>8. CASE RunTimesOut
  BY <1>8 DEF RunTimesOut
<1>9. CASE ReportCallback
  BY <1>9 DEF ReportCallback
<1>10. CASE Unplug \/ RemovalCalled
  BY <1>10 DEF Unplug, RemovalCalled
<1>11. CASE Removal
  BY <1>11 DEF Removal
<1>12. CASE ReadCall
  BY <1>12 DEF ReadCall
<1>13. CASE Read
  BY <1>13 DEF Read, Answer, FallAsleep
<1>14. CASE Sleep
  BY <1>14 DEF Sleep
<1>15. CASE Woken
  BY <1>15 DEF Woken, Answer, FallAsleep
<1>16. CASE ReadTimesOut
  BY <1>16 DEF ReadTimesOut, Answer
<1>17. CASE SignalLoop
  BY <1>17 DEF SignalLoop
<1>18. CASE Join
  BY <1>18 DEF Join
<1>19. CASE Free
  BY <1>19 DEF Free
<1>20. CASE WakeSpurious
  BY <1>20 DEF WakeSpurious
<1>21. CASE TimeUp
  BY <1>21 DEF TimeUp
<1>22. CASE Close
  BY <1>22 DEF Close
<1>23. ASSUME NEW b \in Barriers, ThreadWaits(b) PROVE FlagTypes'
  BY <1>23 DEF ThreadWaits
<1>24. ASSUME NEW b \in Barriers, UserWaits(b) PROVE FlagTypes'
  BY <1>24 DEF UserWaits
<1>25. CASE UNCHANGED vars
  BY <1>25
<1>26. QED
  BY <1>1, <1>2, <1>3, <1>4, <1>5, <1>6, <1>7, <1>8, <1>9, <1>10, <1>11, <1>12, <1>13, <1>14, <1>15, <1>16, <1>17, <1>18, <1>19, <1>20, <1>21, <1>22, <1>23, <1>24, <1>25 DEF Next, Barrier, Barriers, ThreadStep, UserStep

(* A reader takes the first report, or gets 0, -1 or nothing yet.            *)
TakesFirst ==
  input_reports # <<>> /\ result' = Head(input_reports) /\ input_reports' = Tail(input_reports)
TakesNone ==
  (result' = -1 \/ result' = 0 \/ result' = result) /\ input_reports' = input_reports

LEMMA FirstTaken ==
  NumberTypes /\ TakesFirst =>
    /\ result' \in 1..MaxReports
    /\ input_reports' \in Seq(1..MaxReports) /\ Len(input_reports') <= QueueLimit + 2
<1> SUFFICES ASSUME NumberTypes, TakesFirst
             PROVE  /\ result' \in 1..MaxReports
                    /\ input_reports' \in Seq(1..MaxReports) /\ Len(input_reports') <= QueueLimit + 2
  OBVIOUS
<1>1. /\ Head(input_reports) \in 1..MaxReports /\ Tail(input_reports) \in Seq(1..MaxReports)
      /\ Len(Tail(input_reports)) = Len(input_reports) - 1
  BY HeadTailProperties DEF NumberTypes, TakesFirst
<1>2. Len(input_reports) \in Nat
  BY LenProperties DEF NumberTypes
<1>3. QED
  BY <1>1, <1>2, MacAssumption DEF NumberTypes, TakesFirst

LEMMA NumbersStep == MacInv /\ [Next]_vars => NumberTypes'
<1> SUFFICES ASSUME NumberTypes, [Next]_vars PROVE NumberTypes'
  BY Types DEF MacInv
<1> USE DEF NumberTypes, vars, device, loop, hardware, calls, history
<1>1. CASE ReportCallback
  <2>1. came + 1 \in 1..MaxReports /\ came' = came + 1 /\ UNCHANGED <<result, called>>
    BY <1>1, MacAssumption DEF ReportCallback
  <2>2. Len(input_reports) \in Nat
    BY LenProperties
  <2>3. CASE Len(input_reports) - 1 > QueueLimit
    <3>1. input_reports # <<>>
      BY <2>3, MacAssumption
    <3>2. Tail(input_reports) \in Seq(1..MaxReports) /\ Len(Tail(input_reports)) = Len(input_reports) - 1
      BY <3>1, HeadTailProperties
    <3>3. input_reports' = Append(Tail(input_reports), came + 1)
      BY <1>1, <2>3 DEF ReportCallback
    <3>4. input_reports' \in Seq(1..MaxReports) /\ Len(input_reports') = Len(Tail(input_reports)) + 1
      BY <2>1, <3>2, <3>3, AppendProperties
    <3> QED BY <2>1, <2>2, <3>2, <3>4, MacAssumption
  <2>4. CASE ~(Len(input_reports) - 1 > QueueLimit)
    <3>1. input_reports' = Append(input_reports, came + 1)
      BY <1>1, <2>4 DEF ReportCallback
    <3>2. input_reports' \in Seq(1..MaxReports) /\ Len(input_reports') = Len(input_reports) + 1
      BY <2>1, <3>1, AppendProperties
    <3> QED BY <2>1, <2>2, <2>4, <3>2, MacAssumption
  <2> QED BY <2>3, <2>4
<1>2. CASE Read
  <2>1. UNCHANGED <<came, called>>
    BY <1>2 DEF Read
  <2>2. CASE TakesFirst
    BY ONLY <2>1, <2>2, FirstTaken, NumberTypes DEF NumberTypes
  <2>3. CASE TakesNone
    BY ONLY <2>1, <2>3, NumberTypes, MacAssumption DEF TakesNone, NumberTypes
  <2> QED BY <1>2, <2>2, <2>3 DEF Read, Answer, FallAsleep, TakesFirst, TakesNone
<1>3. CASE Woken
  <2>1. UNCHANGED <<came, called>>
    BY <1>3 DEF Woken
  <2>2. CASE TakesFirst
    BY ONLY <2>1, <2>2, FirstTaken, NumberTypes DEF NumberTypes
  <2>3. CASE TakesNone
    BY ONLY <2>1, <2>3, NumberTypes, MacAssumption DEF TakesNone, NumberTypes
  <2> QED BY <1>3, <2>2, <2>3 DEF Woken, Answer, FallAsleep, TakesFirst, TakesNone
<1>4. CASE ReadTimesOut
  BY <1>4, MacAssumption DEF ReadTimesOut, Answer
<1>5. CASE Free
  <2>1. input_reports' \in Seq(1..MaxReports) /\ Len(input_reports') = 0
    BY <1>5, EmptySeq DEF Free
  <2> QED BY <1>5, <2>1, MacAssumption DEF Free
<1>6. CASE ReadCall
  BY <1>6, MacAssumption DEF ReadCall
<1>7. CASE Enumerate \/ OpenPath \/ BarrierSpurious \/ StoreLoop \/ Test \/ RunStopped \/ WakeAll \/ RunTimesOut
  BY <1>7 DEF Enumerate, OpenPath, BarrierSpurious, StoreLoop, Test, RunStopped, WakeAll, RunTimesOut
<1>8. CASE Unplug \/ RemovalCalled \/ Removal \/ Sleep \/ SignalLoop \/ Join \/ WakeSpurious \/ TimeUp \/ Close
  BY <1>8 DEF Unplug, RemovalCalled, Removal, Sleep, SignalLoop, Join, WakeSpurious, TimeUp, Close
<1>9. ASSUME NEW b \in Barriers, ThreadWaits(b) PROVE NumberTypes'
  BY <1>9 DEF ThreadWaits
<1>10. ASSUME NEW b \in Barriers, UserWaits(b) PROVE NumberTypes'
  BY <1>10 DEF UserWaits
<1>11. CASE UNCHANGED vars
  BY <1>11
<1>12. QED
  BY <1>1, <1>2, <1>3, <1>4, <1>5, <1>6, <1>7, <1>8, <1>9, <1>10, <1>11 DEF Next, Barrier, Barriers, ThreadStep, UserStep

LEMMA MeetingsStep == MacInv /\ [Next]_vars => MeetingsKnown'
<1> SUFFICES ASSUME PlaceTypes, MeetingsKnown, ~spurious', [Next]_vars PROVE MeetingsKnown'
  BY Types DEF MacInv, MeetingsKnown
<1> USE DEF PlaceTypes, MeetingsKnown, Open, vars, device, loop, hardware, calls, history, Thread, User, Wake
<1>1. CASE Enumerate
  BY <1>1, BarrierEnds DEF Enumerate, Barriers
<1>2. CASE OpenPath
  BY <1>2, BarrierEnds DEF OpenPath, Barriers
<1>3. CASE BarrierSpurious
  BY <1>3, BarrierEnds DEF BarrierSpurious, Barriers
<1>4. CASE StoreLoop
  BY <1>4, BarrierEnds DEF StoreLoop, Barriers
<1>5. CASE Test
  BY <1>5, BarrierEnds DEF Test, Barriers
<1>6. CASE RunStopped
  BY <1>6, BarrierEnds DEF RunStopped, Barriers
<1>7. CASE WakeAll
  BY <1>7, BarrierEnds DEF WakeAll, Barriers
<1>8. CASE RunTimesOut
  BY <1>8, BarrierEnds DEF RunTimesOut, Barriers
<1>9. CASE ReportCallback
  BY <1>9, BarrierEnds DEF ReportCallback, Barriers
<1>10. CASE Unplug \/ RemovalCalled
  BY <1>10, BarrierEnds DEF Unplug, RemovalCalled, Barriers
<1>11. CASE Removal
  BY <1>11, BarrierEnds DEF Removal, Barriers
<1>12. CASE ReadCall
  BY <1>12, BarrierEnds DEF ReadCall, Barriers
<1>13. CASE Read
  BY <1>13, BarrierEnds DEF Read, Answer, FallAsleep, Barriers
<1>14. CASE Sleep
  BY <1>14, BarrierEnds DEF Sleep, Barriers
<1>15. CASE Woken
  BY <1>15, BarrierEnds DEF Woken, Answer, FallAsleep, Barriers
<1>16. CASE ReadTimesOut
  BY <1>16, BarrierEnds DEF ReadTimesOut, Answer, Barriers
<1>17. CASE SignalLoop
  BY <1>17, BarrierEnds DEF SignalLoop, Barriers
<1>18. CASE Join
  BY <1>18, BarrierEnds DEF Join, Barriers
<1>19. CASE Free
  BY <1>19, BarrierEnds DEF Free, Barriers
<1>20. CASE WakeSpurious
  BY <1>20, BarrierEnds DEF WakeSpurious, Barriers
<1>21. CASE TimeUp
  BY <1>21, BarrierEnds DEF TimeUp, Barriers
<1>22. CASE Close
  BY <1>22, BarrierEnds DEF Close, Barriers
<1>23. ASSUME NEW b \in Barriers, ThreadWaits(b) PROVE MeetingsKnown'
  <2>1. ~spurious
    BY <1>23 DEF ThreadWaits
  <2>2. CASE b = "start"
    <3>1. arrived["start"] = 1 <=> "startWait" \in {thread, user}
      BY <2>1, BarrierEnds DEF Barriers
    <3> QED BY <1>23, <2>1, <2>2, <3>1, ThreadCases, BarrierEnds DEF Barriers
  <2>3. CASE b = "shutdown"
    <3>1. arrived["shutdown"] = 1 <=> "shutdownWait" \in {thread, user}
      BY <2>1, BarrierEnds DEF Barriers
    <3> QED BY <1>23, <2>1, <2>3, <3>1, ThreadCases, BarrierEnds DEF Barriers
  <2> QED BY <2>2, <2>3 DEF Barriers
<1>24. ASSUME NEW b \in Barriers, UserWaits(b) PROVE MeetingsKnown'
  <2>1. ~spurious
    BY <1>24 DEF UserWaits
  <2>2. CASE b = "start"
    <3>1. arrived["start"] = 1 <=> "startWait" \in {thread, user}
      BY <2>1, BarrierEnds DEF Barriers
    <3> QED BY <1>24, <2>1, <2>2, <3>1, UserCases, BarrierEnds DEF Barriers
  <2>3. CASE b = "shutdown"
    <3>1. arrived["shutdown"] = 1 <=> "shutdownWait" \in {thread, user}
      BY <2>1, BarrierEnds DEF Barriers
    <3> QED BY <1>24, <2>1, <2>3, <3>1, UserCases, BarrierEnds DEF Barriers
  <2> QED BY <2>2, <2>3 DEF Barriers
<1>25. CASE UNCHANGED vars
  BY <1>25
<1>26. QED
  BY <1>1, <1>2, <1>3, <1>4, <1>5, <1>6, <1>7, <1>8, <1>9, <1>10, <1>11, <1>12, <1>13, <1>14, <1>15, <1>16, <1>17, <1>18, <1>19, <1>20, <1>21, <1>22, <1>23, <1>24, <1>25 DEF Next, Barrier, Barriers, ThreadStep, UserStep

LEMMA LoopStep == MacInv /\ [Next]_vars => LoopStored'
<1> SUFFICES ASSUME PlaceTypes, LoopStored, [Next]_vars PROVE LoopStored'
  BY Types DEF MacInv
<1> USE DEF PlaceTypes, LoopStored, vars, device, loop, hardware, calls, history, Thread, User
<1>1. CASE Enumerate
  BY <1>1 DEF Enumerate
<1>2. CASE OpenPath
  BY <1>2 DEF OpenPath
<1>3. CASE BarrierSpurious
  BY <1>3 DEF BarrierSpurious
<1>4. CASE StoreLoop
  BY <1>4 DEF StoreLoop
<1>5. CASE Test
  BY <1>5 DEF Test
<1>6. CASE RunStopped
  BY <1>6 DEF RunStopped
<1>7. CASE WakeAll
  BY <1>7 DEF WakeAll
<1>8. CASE RunTimesOut
  BY <1>8 DEF RunTimesOut
<1>9. CASE ReportCallback
  BY <1>9 DEF ReportCallback
<1>10. CASE Unplug \/ RemovalCalled
  BY <1>10 DEF Unplug, RemovalCalled
<1>11. CASE Removal
  BY <1>11 DEF Removal
<1>12. CASE ReadCall
  BY <1>12 DEF ReadCall
<1>13. CASE Read
  BY <1>13 DEF Read, Answer, FallAsleep
<1>14. CASE Sleep
  BY <1>14 DEF Sleep
<1>15. CASE Woken
  BY <1>15 DEF Woken, Answer, FallAsleep
<1>16. CASE ReadTimesOut
  BY <1>16 DEF ReadTimesOut, Answer
<1>17. CASE SignalLoop
  BY <1>17 DEF SignalLoop
<1>18. CASE Join
  BY <1>18 DEF Join
<1>19. CASE Free
  BY <1>19 DEF Free
<1>20. CASE WakeSpurious
  BY <1>20 DEF WakeSpurious
<1>21. CASE TimeUp
  BY <1>21 DEF TimeUp
<1>22. CASE Close
  BY <1>22 DEF Close
<1>23. ASSUME NEW b \in Barriers, ThreadWaits(b) PROVE LoopStored'
  BY <1>23, ThreadCases, BarrierEnds DEF ThreadWaits, Barriers
<1>24. ASSUME NEW b \in Barriers, UserWaits(b) PROVE LoopStored'
  <2>1. thread' # thread => thread \in {"startWait", "shutdownWait"}
    BY <1>24, UserCases, BarrierEnds DEF Barriers
  <2>2. run_loop' = run_loop
    BY <1>24 DEF UserWaits
  <2> QED BY <2>1, <2>2
<1>25. CASE UNCHANGED vars
  BY <1>25
<1>26. QED
  BY <1>1, <1>2, <1>3, <1>4, <1>5, <1>6, <1>7, <1>8, <1>9, <1>10, <1>11, <1>12, <1>13, <1>14, <1>15, <1>16, <1>17, <1>18, <1>19, <1>20, <1>21, <1>22, <1>23, <1>24, <1>25 DEF Next, Barrier, Barriers, ThreadStep, UserStep

LEMMA ValidStep == MacInv /\ [Next]_vars => LoopValid'
<1> SUFFICES ASSUME PlaceTypes, MeetingsKnown, LoopStored, LoopValid, [Next]_vars PROVE LoopValid'
  BY Types DEF MacInv
<1> USE DEF LoopValid, vars, device, loop, hardware, calls, history, Thread, User
<1>1. CASE Removal
  <2>1. ASSUME manager = "user", ~spurious PROVE LoopExists
    <3>1. user = "idle"
      BY <1>1, <2>1 DEF Removal
    <3> QED BY <2>1, <3>1 DEF MeetingsKnown, LoopStored, LoopExists, Open
  <2> QED BY <1>1, <2>1 DEF Removal
<1>2. CASE SignalLoop
  <2>1. ASSUME ~spurious PROVE LoopExists
    <3>1. user = "close"
      BY <1>2 DEF SignalLoop
    <3> QED BY <2>1, <3>1 DEF MeetingsKnown, LoopStored, LoopExists, Open
  <2> QED BY <1>2, <2>1 DEF SignalLoop
<1>3. CASE Enumerate \/ OpenPath \/ BarrierSpurious \/ StoreLoop \/ Test \/ RunStopped \/ WakeAll \/ RunTimesOut \/ ReportCallback
  BY <1>3 DEF Enumerate, OpenPath, BarrierSpurious, StoreLoop, Test, RunStopped, WakeAll, RunTimesOut, ReportCallback
<1>4. CASE Unplug \/ RemovalCalled \/ ReadCall \/ Read \/ Sleep \/ Woken \/ ReadTimesOut \/ Join \/ Free \/ WakeSpurious \/ TimeUp \/ Close
  BY <1>4 DEF Unplug, RemovalCalled, ReadCall, Read, Answer, FallAsleep, Sleep, Woken, ReadTimesOut, Join, Free, WakeSpurious, TimeUp, Close
<1>5. ASSUME NEW b \in Barriers, ThreadWaits(b) PROVE LoopValid'
  BY <1>5 DEF ThreadWaits
<1>6. ASSUME NEW b \in Barriers, UserWaits(b) PROVE LoopValid'
  BY <1>6 DEF UserWaits
<1>7. CASE UNCHANGED vars
  BY <1>7
<1>8. QED
  BY <1>1, <1>2, <1>3, <1>4, <1>5, <1>6, <1>7 DEF Next, Barrier, Barriers, ThreadStep, UserStep

LEMMA MacInvariant == Spec => []MacInv
<1>1. MacInv /\ [Next]_vars => MacInv'
  <2> SUFFICES ASSUME MacInv, [Next]_vars PROVE MacInv'
    OBVIOUS
  <2>1. TypeOK'
    BY PlacesStep, FlagsStep, NumbersStep
       DEF TypeOK, PlaceTypes, FlagTypes, NumberTypes, Barriers
  <2>2. QED
    BY <2>1, MeetingsStep, LoopStep, ValidStep DEF MacInv
<1>2. QED
  BY InitInv, <1>1, PTL DEF Spec

--------------------------------------------------------------------------------
(* Every variable keeps its type; in particular a barrier counts at most one *)
(* thread and the list never holds more than two reports above the limit.    *)
THEOREM TypeCorrect == Spec => []TypeOK
<1>1. MacInv => TypeOK
  BY DEF MacInv
<1>2. QED
  BY MacInvariant, <1>1, PTL

(* The read thread is still there whenever its run loop is stopped or woken, *)
(* provided one thread calls hidapi and the barriers hold.                   *)
THEOREM LoopCorrect == Spec => []LoopValid
<1>1. MacInv => LoopValid
  BY DEF MacInv
<1>2. QED
  BY MacInvariant, <1>1, PTL

--------------------------------------------------------------------------------
(* No wake-up is lost. *)

(* pthread_cond_wait is safe: whoever sleeps sleeps without a report, and    *)
(* not after the broadcast at the end of the read thread, although           *)
(* shutdown_thread and disconnected are set without the mutex.               *)
NobodySleepsInVain ==
  user = "wait" => input_reports = <<>> /\ thread \notin {"shutdown", "shutdownWait", "ended"}

(* The mutex is held from a look at the list to pthread_cond_wait, the read  *)
(* thread leaves its loop for one of the two flags, and so far the property  *)
(* holds for whoever is about to sleep, too.                                 *)
MutexKnown == mutex = "user" <=> user = "sleep"
EndKnown == thread \in {"wake", "shutdown", "shutdownWait", "ended"} => Gone
SleepKnown ==
  user \in {"sleep", "wait"} =>
    input_reports = <<>> /\ thread \notin {"shutdown", "shutdownWait", "ended"}
WakeInv == MutexKnown /\ EndKnown /\ SleepKnown

LEMMA WakeStep == MacInv /\ WakeInv /\ [Next]_vars => WakeInv'
<1> SUFFICES ASSUME PlaceTypes, FlagTypes, WakeInv, [Next]_vars PROVE WakeInv'
  BY Types DEF MacInv
<1> USE DEF PlaceTypes, FlagTypes, WakeInv, MutexKnown, EndKnown, SleepKnown, Gone,
       vars, device, loop, hardware, calls, history, Thread, User, Wake
<1>1. CASE Enumerate \/ OpenPath \/ Close \/ Unplug \/ RemovalCalled
  BY <1>1 DEF Enumerate, OpenPath, Close, Unplug, RemovalCalled
<1>2. ASSUME NEW b \in Barriers, ThreadWaits(b) PROVE WakeInv'
  <2>1. UNCHANGED <<mutex, input_reports, shutdown_thread, disconnected>>
    BY <1>2 DEF ThreadWaits
  <2> QED BY <1>2, <2>1, ThreadCases, BarrierEnds DEF Barriers
<1>3. ASSUME NEW b \in Barriers, UserWaits(b) PROVE WakeInv'
  <2>1. UNCHANGED <<mutex, input_reports, shutdown_thread, disconnected>>
    BY <1>3 DEF UserWaits
  <2> QED BY <1>3, <2>1, UserCases, BarrierEnds DEF Barriers
<1>4. CASE BarrierSpurious
  BY <1>4, BarrierEnds DEF BarrierSpurious
<1>5. CASE StoreLoop \/ Test \/ RunStopped \/ RunTimesOut
  BY <1>5 DEF StoreLoop, Test, RunStopped, RunTimesOut
<1>6. CASE WakeAll
  BY <1>6 DEF WakeAll
<1>7. CASE ReportCallback
  BY <1>7 DEF ReportCallback
<1>8. CASE Removal
  BY <1>8 DEF Removal
<1>9. CASE ReadCall \/ Sleep \/ WakeSpurious \/ TimeUp
  BY <1>9 DEF ReadCall, Sleep, WakeSpurious, TimeUp
<1>10. CASE Read
  BY <1>10 DEF Read, Answer, FallAsleep
<1>11. CASE Woken \/ ReadTimesOut
  BY <1>11 DEF Woken, ReadTimesOut, Answer, FallAsleep
<1>12. CASE SignalLoop \/ Join \/ Free
  BY <1>12 DEF SignalLoop, Join, Free
<1>13. CASE UNCHANGED vars
  BY <1>13
<1>14. QED
  BY <1>1, <1>2, <1>3, <1>4, <1>5, <1>6, <1>7, <1>8, <1>9, <1>10, <1>11, <1>12, <1>13
     DEF Next, Barrier, Barriers, ThreadStep, UserStep

(* A signal for each report and one broadcast at the end are enough: the     *)
(* reader that waits has nothing to be woken for.                            *)
THEOREM WakeUpsCorrect == Spec => []NobodySleepsInVain
<1>1. Init => WakeInv
  BY DEF Init, WakeInv, MutexKnown, EndKnown, SleepKnown
<1>2. MacInv /\ WakeInv /\ [Next]_vars => WakeInv'
  BY WakeStep
<1>3. WakeInv => NobodySleepsInVain
  BY DEF WakeInv, SleepKnown, NobodySleepsInVain
<1>4. QED
  BY MacInvariant, <1>1, <1>2, <1>3, PTL DEF Spec

--------------------------------------------------------------------------------
LEMMA StepRefines == MacInv /\ [Next]_vars => [Queue!Next]_(Queue!vars)
<1> SUFFICES ASSUME NumberTypes, [Next]_vars PROVE [Queue!Next]_(Queue!vars)
  BY Types DEF MacInv
<1> USE DEF vars, device, loop, hardware, calls, history
<1>1. UNCHANGED <<input_reports, came, result>> => UNCHANGED Queue!vars
  BY DEF Queue!vars
<1>2. CASE ReportCallback
  <2>1. Len(input_reports) \in Nat /\ Len(input_reports) <= QueueLimit + 2
    BY LenProperties DEF NumberTypes
  <2>2. Len(input_reports) - 1 > QueueLimit <=> ~(Len(input_reports) < QueueLimit + 2)
    BY <2>1, MacAssumption
  <2>3. input_reports' = Append(IF Len(input_reports) < QueueLimit + 2
                                THEN input_reports ELSE Tail(input_reports), came + 1)
    BY <1>2, <2>2 DEF ReportCallback
  <2>4. Queue!Come
    BY <1>2, <2>3 DEF ReportCallback, Queue!Come
  <2> QED BY <2>4 DEF Queue!Next
<1>3. CASE Read \/ Woken
  <2>1. came' = came
    BY <1>3 DEF Read, Woken
  <2>2. TakesFirst \/ TakesNone
    BY <1>3 DEF Read, Woken, Answer, FallAsleep, TakesFirst, TakesNone
  <2> QED BY <1>1, <2>1, <2>2
          DEF TakesFirst, TakesNone, Queue!Next, Queue!Read, Queue!Fail, Queue!TimeOut
<1>4. CASE ReadTimesOut
  BY <1>4 DEF ReadTimesOut, Answer, Queue!Next, Queue!TimeOut
<1>5. CASE Free
  BY <1>5 DEF Free, Queue!Next, Queue!Close
<1>6. CASE Enumerate \/ OpenPath \/ BarrierSpurious \/ StoreLoop \/ Test \/ RunStopped
           \/ WakeAll \/ RunTimesOut
  BY <1>1, <1>6 DEF Enumerate, OpenPath, BarrierSpurious, StoreLoop, Test, RunStopped,
       WakeAll, RunTimesOut
<1>7. CASE Unplug \/ RemovalCalled \/ Removal \/ ReadCall \/ Sleep \/ SignalLoop \/ Join \/ WakeSpurious
           \/ TimeUp \/ Close
  BY <1>1, <1>7 DEF Unplug, RemovalCalled, Removal, ReadCall, Sleep, SignalLoop, Join, WakeSpurious,
       TimeUp, Close
<1>8. ASSUME NEW b \in Barriers, ThreadWaits(b) \/ UserWaits(b) PROVE UNCHANGED Queue!vars
  BY <1>1, <1>8 DEF ThreadWaits, UserWaits
<1>9. CASE UNCHANGED vars
  BY <1>1, <1>9
<1>10. QED
  BY <1>2, <1>3, <1>4, <1>5, <1>6, <1>7, <1>8, <1>9
     DEF Next, Barrier, Barriers, ThreadStep, UserStep

(* Over the two threads, time-outs, wake-ups for no reason, the removal of   *)
(* the device and hid_close, a report is handed out once and in its turn,    *)
(* and only the oldest are dropped.                                          *)
THEOREM ImplementsQueue == Spec => QueueSpec
<1>1. Init => Queue!Init
  BY DEF Init, Queue!Init
<1>2. MacInv /\ [Next]_vars => [Queue!Next]_(Queue!vars)
  BY StepRefines
<1>3. QED
  BY <1>1, <1>2, MacInvariant, PTL DEF Spec, QueueSpec, Queue!Spec
================================================================================
