----------------------------- MODULE HidWindowsProofs -----------------------------
(***************************************************************************)
(* Theorems about hidapi on Windows, for every number of reports and calls:*)
(* type correctness, a timed read never waits for a read under way, nothing*)
(* is freed under a read, and the reports come out as HidQueue says.       *)
(***************************************************************************)
EXTENDS HidWindows, SequenceTheorems, TLAPS

Opening == {"none", "enumerate", "probe", "path", "caps"}

(* The one overlapped read: none before hid_open is through, none when one is *)
(* to be started, and an event that is signalled belongs to no read under way.*)
ReadKnown ==
  /\ user \in Opening => read = "none"
  /\ user = "start" => read = "none"
  /\ user \in {"wait", "result"} => read # "none"
  /\ read = "pending" => ~event
  /\ TimedReadEnds
  /\ FreedQuietly

(* What the program has open of a device while it looks for one to use.       *)
HandlesKnown ==
  /\ user \in {"none", "enumerate"} => handles = {}
  /\ user = "probe" => handles = {"probe"}
  /\ user = "caps" => handles = {"event", "device"}
  /\ DeviceReleased

(* The driver keeps reports only when no read waits for one, and the queue    *)
(* holds no more reports than came.                                           *)
RingKnown ==
  /\ read = "pending" => ring = <<>>
  /\ Len(ring) + (IF read = "done" THEN 1 ELSE 0) <= came

WindowsInv == TypeOK /\ ReadKnown /\ HandlesKnown /\ RingKnown

--------------------------------------------------------------------------------
(* TypeOK in two parts, without and with numbers.                             *)
FlagTypes ==
  /\ user \in Opening \cup {"idle", "start", "wait", "result", "writing", "closed"}
  /\ mode \in {"timed", "blocking"} /\ read_pending \in BOOLEAN /\ event \in BOOLEAN
  /\ handles \subseteq {"event", "device", "probe"} /\ listed \in BOOLEAN
  /\ read \in {"none", "pending", "done", "failed"}
  /\ user # "closed" => read_pending = (read # "none")
  /\ plugged \in BOOLEAN /\ closer \in Closers
NumberTypes ==
  /\ held \in 0..MaxReports /\ (held # 0 <=> read = "done")
  /\ ring \in Seq(1..MaxReports) /\ came \in 0..MaxReports
  /\ result \in -1..MaxReports /\ called \in 0..MaxCalls

LEMMA Types == TypeOK <=> FlagTypes /\ NumberTypes
BY DEF TypeOK, FlagTypes, NumberTypes, Opening

LEMMA InitInv == Init => WindowsInv
<1> SUFFICES ASSUME Init PROVE WindowsInv
  OBVIOUS
<1>1. FlagTypes
  BY DEF Init, FlagTypes, Opening
<1>2. NumberTypes
  BY WindowsAssumption DEF Init, NumberTypes
<1>3. ReadKnown /\ HandlesKnown
  BY DEF Init, ReadKnown, TimedReadEnds, FreedQuietly, HandlesKnown, DeviceReleased, Opening
<1>4. RingKnown
  BY DEF Init, RingKnown
<1>5. QED
  BY <1>1, <1>2, <1>3, <1>4, Types DEF WindowsInv

LEMMA FlagsStep == WindowsInv /\ [Next]_vars => FlagTypes'
<1> SUFFICES ASSUME FlagTypes, ReadKnown, [Next]_vars PROVE FlagTypes'
  BY Types DEF WindowsInv
<1> USE DEF FlagTypes, Opening, vars, device, driver, call, User, Complete
<1>1. CASE InitLibrary \/ EnumProbe \/ EnumRecord \/ EnumEnd
  BY <1>1 DEF InitLibrary, EnumProbe, EnumRecord, EnumEnd
<1>2. CASE OpenHandle \/ Caps
  BY <1>2 DEF OpenHandle, Caps
<1>3. CASE ReportComes \/ ReadFails \/ Unplug
  BY <1>3 DEF ReportComes, ReadFails, Unplug
<1>4. CASE ReadCall \/ WriteCall \/ WriteReturn
  BY <1>4 DEF ReadCall, WriteCall, WriteReturn
<1>5. CASE StartRead
  BY <1>5 DEF StartRead, ReadKnown
<1>6. CASE Wait \/ Result
  BY <1>6 DEF Wait, Result
<1>7. CASE Close
  BY <1>7 DEF Close
<1>8. CASE UNCHANGED vars
  BY <1>8
<1>9. QED
  BY <1>1, <1>2, <1>3, <1>4, <1>5, <1>6, <1>7, <1>8 DEF Next, UserStep

LEMMA NumbersStep == WindowsInv /\ [Next]_vars => NumberTypes'
<1> SUFFICES ASSUME NumberTypes, ReadKnown, [Next]_vars PROVE NumberTypes'
  BY Types DEF WindowsInv
<1> USE WindowsAssumption DEF NumberTypes, vars, device, driver, call, User, Complete
<1>1. CASE InitLibrary \/ EnumProbe \/ EnumRecord \/ EnumEnd \/ OpenHandle \/ Caps
  BY <1>1 DEF InitLibrary, EnumProbe, EnumRecord, EnumEnd, OpenHandle, Caps
<1>2. CASE ReportComes
  <2>1. came + 1 \in 1..MaxReports /\ came' = came + 1
    BY <1>2 DEF ReportComes
  <2>2. Append(ring, came + 1) \in Seq(1..MaxReports)
    BY <2>1, AppendProperties
  <2>3. \/ read' = "done" /\ held' = came + 1 /\ ring' = ring
        \/ UNCHANGED <<read, held>> /\ ring' = Append(ring, came + 1)
    BY <1>2 DEF ReportComes
  <2>4. UNCHANGED <<result, called>>
    BY <1>2 DEF ReportComes
  <2>5. held' \in 0..MaxReports /\ (held' # 0 <=> read' = "done")
    BY <2>1, <2>3
  <2>6. QED
    BY <2>1, <2>2, <2>3, <2>4, <2>5
<1>3. CASE ReadFails \/ Unplug
  BY <1>3 DEF ReadFails, Unplug
<1>4. CASE ReadCall \/ WriteCall \/ WriteReturn
  BY <1>4 DEF ReadCall, WriteCall, WriteReturn
<1>5. CASE StartRead
  <2>1. ring # <<>> => Head(ring) \in 1..MaxReports /\ Tail(ring) \in Seq(1..MaxReports)
    BY HeadTailProperties
  <2>2. UNCHANGED <<came, called>> /\ result' \in {result, -1}
    BY <1>5 DEF StartRead
  <2>3. \/ ring # <<>> /\ read' = "done" /\ held' = Head(ring) /\ ring' = Tail(ring)
        \/ read' = "pending" /\ held' = 0 /\ ring' = ring
        \/ UNCHANGED <<read, held, ring>>
    BY <1>5 DEF StartRead
  <2>4. QED
    BY <2>1, <2>2, <2>3
<1>6. CASE Wait \/ Result
  <2>1. CASE Wait
    BY <2>1 DEF Wait
  <2>2. CASE Result
    BY <2>2 DEF Result
  <2>3. QED
    BY <1>6, <2>1, <2>2
<1>7. CASE Close
  BY <1>7 DEF Close
<1>8. CASE UNCHANGED vars
  BY <1>8
<1>9. QED
  BY <1>1, <1>2, <1>3, <1>4, <1>5, <1>6, <1>7, <1>8 DEF Next, UserStep

LEMMA ReadStep == WindowsInv /\ [Next]_vars => ReadKnown'
<1> SUFFICES ASSUME FlagTypes, ReadKnown, [Next]_vars PROVE ReadKnown'
  BY Types DEF WindowsInv
<1> USE DEF FlagTypes, ReadKnown, TimedReadEnds, FreedQuietly, Opening,
            vars, device, driver, call, User, Complete
<1>1. CASE InitLibrary \/ EnumProbe \/ EnumRecord \/ EnumEnd \/ OpenHandle \/ Caps
  BY <1>1 DEF InitLibrary, EnumProbe, EnumRecord, EnumEnd, OpenHandle, Caps
<1>2. CASE ReportComes \/ ReadFails \/ Unplug
  BY <1>2 DEF ReportComes, ReadFails, Unplug
<1>3. CASE ReadCall \/ WriteCall \/ WriteReturn
  BY <1>3 DEF ReadCall, WriteCall, WriteReturn
<1>4. CASE StartRead
  BY <1>4 DEF StartRead
<1>5. CASE Wait \/ Result
  <2>1. CASE Wait
    BY <2>1 DEF Wait
  <2>2. CASE Result
    BY <2>2 DEF Result
  <2>3. QED
    BY <1>5, <2>1, <2>2
<1>6. CASE Close
  BY <1>6, WindowsAssumption DEF Close
<1>7. CASE UNCHANGED vars
  BY <1>7
<1>8. QED
  BY <1>1, <1>2, <1>3, <1>4, <1>5, <1>6, <1>7 DEF Next, UserStep

LEMMA HandlesStep == WindowsInv /\ [Next]_vars => HandlesKnown'
<1> SUFFICES ASSUME FlagTypes, HandlesKnown, [Next]_vars PROVE HandlesKnown'
  BY Types DEF WindowsInv
<1> USE DEF FlagTypes, HandlesKnown, DeviceReleased, vars, device, driver, call, User
<1>1. CASE InitLibrary \/ EnumProbe \/ EnumRecord \/ EnumEnd
  BY <1>1 DEF InitLibrary, EnumProbe, EnumRecord, EnumEnd
<1>2. CASE OpenHandle
  BY <1>2 DEF OpenHandle
<1>3. CASE Caps
  BY <1>3 DEF Caps
<1>4. CASE ReportComes \/ ReadFails \/ Unplug
  BY <1>4 DEF ReportComes, ReadFails, Unplug
<1>5. CASE ReadCall \/ WriteCall \/ UserStep
  BY <1>5 DEF ReadCall, WriteCall, UserStep, StartRead, Wait, Result, WriteReturn
<1>6. CASE Close
  BY <1>6 DEF Close
<1>7. CASE UNCHANGED vars
  BY <1>7
<1>8. QED
  BY <1>1, <1>2, <1>3, <1>4, <1>5, <1>6, <1>7 DEF Next

LEMMA RingStep == WindowsInv /\ [Next]_vars => RingKnown'
<1> SUFFICES ASSUME NumberTypes, ReadKnown, RingKnown, [Next]_vars PROVE RingKnown'
  BY Types DEF WindowsInv
<1> USE DEF NumberTypes, RingKnown, vars, device, driver, call, User, Complete
<1>1. CASE ReportComes
  <2>1. Len(Append(ring, came + 1)) = Len(ring) + 1
    BY <1>1, AppendProperties DEF ReportComes
  <2>2. QED
    BY <1>1, <2>1 DEF ReportComes
<1>2. CASE StartRead
  <2>1. ring # <<>> => Len(Tail(ring)) = Len(ring) - 1
    BY HeadTailProperties
  <2>2. Len(ring) \in Nat
    BY LenProperties
  <2>3. QED
    BY <1>2, <2>1, <2>2 DEF StartRead, ReadKnown
<1>3. CASE Result
  BY <1>3, LenProperties DEF Result
<1>4. CASE Close
  BY <1>4, WindowsAssumption DEF Close
<1>5. CASE ReadFails \/ Unplug
  BY <1>5 DEF ReadFails, Unplug
<1>6. CASE UNCHANGED <<driver>>
  BY <1>6
<1>7. QED
  BY <1>1, <1>2, <1>3, <1>4, <1>5, <1>6 DEF Next, UserStep, InitLibrary, EnumProbe,
     EnumRecord, EnumEnd, OpenHandle, Caps, ReadCall, WriteCall, Wait, WriteReturn

LEMMA WindowsInvariant == Spec => []WindowsInv
<1>1. WindowsInv /\ [Next]_vars => WindowsInv'
  <2> SUFFICES ASSUME WindowsInv, [Next]_vars PROVE WindowsInv'
    OBVIOUS
  <2>1. TypeOK'
    BY FlagsStep, NumbersStep DEF TypeOK, FlagTypes, NumberTypes, Opening
  <2>2. QED
    BY <2>1, ReadStep, HandlesStep, RingStep DEF WindowsInv
<1>2. QED
  BY InitInv, <1>1, PTL DEF Spec

--------------------------------------------------------------------------------
(* Every variable keeps its type; in particular read_pending says exactly     *)
(* whether there is a read to wait for.                                       *)
THEOREM TypeCorrect == Spec => []TypeOK
<1>1. WindowsInv => TypeOK
  BY DEF WindowsInv
<1>2. QED
  BY WindowsInvariant, <1>1, PTL

(* hid_read_timeout with a timeout does not wait for a read under way.        *)
THEOREM TimedReadCorrect == Spec => []TimedReadEnds
<1>1. WindowsInv => TimedReadEnds
  BY DEF WindowsInv, ReadKnown
<1>2. QED
  BY WindowsInvariant, <1>1, PTL

(* hid_close by the thread that reads frees nothing under a read, and nothing *)
(* of a device is left open that cannot be used or was closed.                *)
THEOREM ClosedCleanlyCorrect == Spec => []ClosedCleanly
<1>1. WindowsInv => ClosedCleanly
  BY DEF WindowsInv, ReadKnown, HandlesKnown, ClosedCleanly
<1>2. QED
  BY WindowsInvariant, <1>1, PTL

--------------------------------------------------------------------------------
(* The reports that wait: the one in the buffer of a read that is over, then  *)
(* those the driver keeps.                                                    *)
Waiting == IF read = "done" THEN <<held>> \o ring ELSE ring

LEMMA Prepend ==
  ASSUME NEW S, NEW q \in Seq(S), NEW e \in S
  PROVE  /\ <<e>> \o q # <<>> /\ Len(<<e>> \o q) = Len(q) + 1
         /\ Head(<<e>> \o q) = e
         /\ Tail(<<e>> \o q) = q
<1>1. <<e>> \in Seq(S) /\ Len(<<e>>) = 1 /\ <<e>>[1] = e
  OBVIOUS
<1>2. /\ <<e>> \o q \in Seq(S)
      /\ Len(<<e>> \o q) = Len(q) + 1
      /\ \A i \in 1..(Len(q) + 1) : (<<e>> \o q)[i] = IF i <= 1 THEN e ELSE q[i - 1]
  BY <1>1, ConcatProperties, LenProperties
<1>3. <<e>> \o q # <<>>
  BY <1>2, LenProperties, EmptySeq
<1>4. Head(<<e>> \o q) = e
  BY <1>2, <1>3, LenProperties
<1>5. Tail(<<e>> \o q) = q
  <2>1. /\ Tail(<<e>> \o q) \in Seq(S)
        /\ Len(Tail(<<e>> \o q)) = Len(q)
        /\ \A i \in 1..Len(q) : Tail(<<e>> \o q)[i] = (<<e>> \o q)[i + 1]
    BY <1>2, <1>3, HeadTailProperties, LenProperties
  <2>2. \A i \in 1..Len(q) : (<<e>> \o q)[i + 1] = q[i]
    BY <1>2, LenProperties
  <2>3. QED
    BY <2>1, <2>2, SeqEqual
<1>6. QED
  BY <1>2, <1>3, <1>4, <1>5

LEMMA HeadAndTail ==
  ASSUME NEW S, NEW q \in Seq(S), q # <<>>
  PROVE  <<Head(q)>> \o Tail(q) = q
<1>1. Head(q) = q[1] /\ Head(q) \in S /\ Tail(q) \in Seq(S) /\ Len(Tail(q)) = Len(q) - 1
      /\ \A i \in 1..Len(Tail(q)) : Tail(q)[i] = q[i + 1]
  BY HeadTailProperties
<1>2. /\ <<Head(q)>> \o Tail(q) \in Seq(S) /\ Len(<<Head(q)>> \o Tail(q)) = Len(q)
      /\ \A i \in 1..Len(q) :
           (<<Head(q)>> \o Tail(q))[i] = IF i <= 1 THEN Head(q) ELSE Tail(q)[i - 1]
  BY <1>1, ConcatProperties, LenProperties
<1>3. \A i \in 1..Len(q) : (<<Head(q)>> \o Tail(q))[i] = q[i]
  BY <1>1, <1>2, LenProperties
<1>4. QED
  BY <1>2, <1>3, SeqEqual

LEMMA AppendToPrepended ==
  ASSUME NEW S, NEW q \in Seq(S), NEW e \in S, NEW f \in S
  PROVE  Append(<<e>> \o q, f) = <<e>> \o Append(q, f)
<1>1. <<e>> \in Seq(S) /\ <<f>> \in Seq(S)
  OBVIOUS
<1>2. Append(<<e>> \o q, f) = (<<e>> \o q) \o <<f>>
  BY <1>1, ConcatProperties, AppendIsConcat
<1>3. Append(q, f) = q \o <<f>>
  BY AppendIsConcat
<1>4. QED
  BY <1>1, <1>2, <1>3, ConcatAssociative

LEMMA QueueVars == UNCHANGED <<Waiting, came, result>> => UNCHANGED Queue!vars
BY DEF Queue!vars, Waiting

(* A report either completes the read that waits for it, when none is kept,   *)
(* or joins those that are kept; there is room for it.                        *)
LEMMA ReportRefines == WindowsInv /\ ReportComes => Queue!Come
<1> SUFFICES ASSUME NumberTypes, ReadKnown, RingKnown, ReportComes PROVE Queue!Come
  BY Types DEF WindowsInv
<1> USE DEF NumberTypes
<1>1. came' = came + 1 /\ came < MaxReports /\ came + 1 \in 1..MaxReports /\ UNCHANGED result
  BY WindowsAssumption DEF ReportComes, call
<1>2. Waiting \in Seq(1..MaxReports) /\ Len(Waiting) < MaxReports
  <2>1. CASE read = "done"
    <3>1. held \in 1..MaxReports
      BY <2>1
    <3>2. <<held>> \o ring \in Seq(1..MaxReports) /\ Len(<<held>> \o ring) = Len(ring) + 1
      BY <3>1, Prepend, ConcatProperties
    <3>3. Len(ring) + 1 <= came
      BY <2>1 DEF RingKnown
    <3>4. Waiting = <<held>> \o ring
      BY <2>1 DEF Waiting
    <3>5. Len(ring) \in Nat
      BY LenProperties
    <3>6. QED
      BY <1>1, <3>2, <3>3, <3>4, <3>5, WindowsAssumption
  <2>2. CASE read # "done"
    BY <1>1, <2>2, LenProperties, WindowsAssumption DEF Waiting, RingKnown
  <2>3. QED
    BY <2>1, <2>2
<1>3. Waiting' = Append(Waiting, came + 1)
  <2>1. CASE read = "pending"
    <3>1. read' = "done" /\ held' = came + 1 /\ ring' = ring /\ ring = <<>>
      BY <2>1 DEF ReportComes, Complete, RingKnown
    <3>2. <<came + 1>> \o <<>> = Append(<<>>, came + 1)
      BY <1>1, ConcatEmptySeq, EmptySeq, AppendIsConcat
    <3>3. QED
      BY <2>1, <3>1, <3>2 DEF Waiting
  <2>2. CASE read = "done"
    <3>1. held \in 1..MaxReports
      BY <2>2
    <3>2. UNCHANGED <<read, held>> /\ ring' = Append(ring, came + 1)
      BY <2>2 DEF ReportComes
    <3>3. QED
      BY <1>1, <2>2, <3>1, <3>2, AppendToPrepended DEF Waiting
  <2>3. CASE read \notin {"pending", "done"}
    BY <2>3 DEF ReportComes, Waiting
  <2>4. QED
    BY <2>1, <2>2, <2>3
<1>4. QED
  BY <1>1, <1>2, <1>3 DEF Queue!Come, Waiting

LEMMA StepRefines == WindowsInv /\ [Next]_vars => [Queue!Next]_(Queue!vars)
<1> SUFFICES ASSUME WindowsInv, [Next]_vars PROVE [Queue!Next]_(Queue!vars)
  OBVIOUS
<1> USE DEF vars, device, driver, call, User
<1>0. NumberTypes /\ ReadKnown /\ RingKnown
  BY Types DEF WindowsInv
<1>1. CASE ReportComes
  BY <1>1, ReportRefines DEF Queue!Next
<1>2. CASE StartRead
  <2>1. CASE ring # <<>> /\ read' = "done" /\ held' = Head(ring) /\ ring' = Tail(ring)
             /\ UNCHANGED <<came, result>>
    <3>1. Waiting = ring
      BY <1>0, <1>2 DEF StartRead, ReadKnown, Waiting
    <3>2. <<Head(ring)>> \o Tail(ring) = ring
      BY <1>0, <2>1, HeadAndTail DEF NumberTypes
    <3>3. QED
      BY <2>1, <3>1, <3>2, QueueVars DEF Waiting
  <2>2. CASE read' = "pending" /\ UNCHANGED <<ring, came, result>>
    BY <1>0, <1>2, <2>2, QueueVars DEF StartRead, ReadKnown, Waiting
  <2>3. CASE result' = -1 /\ UNCHANGED <<read, held, ring, came>>
    BY <2>3 DEF Queue!Next, Queue!Fail, Waiting
  <2>4. QED
    BY <1>2, <2>1, <2>2, <2>3 DEF StartRead, Complete
<1>3. CASE Wait
  <2>1. CASE UNCHANGED result
    BY <1>3, <2>1, QueueVars DEF Wait, Waiting
  <2>2. CASE result' = 0
    BY <1>3, <2>2 DEF Wait, Queue!Next, Queue!TimeOut, Waiting
  <2>3. QED
    BY <1>3, <2>1, <2>2 DEF Wait
<1>4. CASE Result
  <2>1. CASE read = "done"
    <3>1. result' = held /\ read' = "none" /\ UNCHANGED <<ring, came>>
      BY <1>4, <2>1 DEF Result
    <3>2. held \in 1..MaxReports /\ ring \in Seq(1..MaxReports)
      BY <1>0, <2>1 DEF NumberTypes
    <3>3. Waiting # <<>> /\ Head(Waiting) = held /\ Tail(Waiting) = ring
      BY <2>1, <3>2, Prepend DEF Waiting
    <3>4. QED
      BY <3>1, <3>3 DEF Queue!Next, Queue!Read, Waiting
  <2>2. CASE read = "failed"
    BY <1>4, <2>2 DEF Result, Queue!Next, Queue!Fail, Waiting
  <2>3. QED
    BY <1>4, <2>1, <2>2 DEF Result
<1>5. CASE Close
  <2>1. ring' = <<>> /\ read' # "done" /\ UNCHANGED <<came, result>>
    BY <1>5 DEF Close
  <2>2. QED
    BY <2>1 DEF Queue!Next, Queue!Close, Waiting
<1>6. CASE ReadFails \/ Unplug
  <2>1. UNCHANGED <<ring, came, result>> /\ (read' # read => read = "pending" /\ read' = "failed")
        /\ (read' = read => held' = held)
    BY <1>6 DEF ReadFails, Unplug, Complete
  <2>2. QED
    BY <2>1, QueueVars DEF Waiting
<1>7. CASE UNCHANGED <<read, held, ring, came, result>>
  BY <1>7, QueueVars DEF Waiting
<1>8. QED
  BY <1>1, <1>2, <1>3, <1>4, <1>5, <1>6, <1>7 DEF Next, UserStep, InitLibrary, EnumProbe,
     EnumRecord, EnumEnd, OpenHandle, Caps, ReadCall, WriteCall, WriteReturn

(* The overlapped read and the ring of the driver are one queue: over reads   *)
(* that time out, fail or are started anew, a report is handed out once and   *)
(* in its turn.                                                               *)
THEOREM ImplementsQueue == Spec => QueueSpec
<1>1. Init => Queue!Init
  BY DEF Init, Queue!Init
<1>2. WindowsInv /\ [Next]_vars => [Queue!Next]_(Queue!vars)
  BY StepRefines
<1>3. QED
  BY <1>1, <1>2, WindowsInvariant, PTL DEF Spec, QueueSpec, Queue!Spec
================================================================================
