-------------------------------- MODULE HidOpenProofs --------------------------------
(***************************************************************************)
(* Theorems about how the Lightpack is found and opened, for every set of  *)
(* devices and interfaces and every number of faults: type correctness,    *)
(* that an attempt takes everything or leaves nothing, and that exactly    *)
(* the Lightpacks are listed and only they are opened.                     *)
(***************************************************************************)
EXTENDS HidOpen, SequenceTheorems, FiniteSetTheorems, TLAPS

(* The loop of hid_open_path, and its inner loops.                           *)
Inner == {"handle", "detach", "claim", "start", "stuck"}
Loop  == Inner \cup {"device"}

(* Open has a handle: between the first libusb_open that is not undone and   *)
(* hid_close.                                                                *)
Has ==
  \/ pc \in Loop /\ good_open
  \/ pc \in {"freeInfos", "inUse"} /\ dev = "open"

(* What goes with the place Open is at.                                      *)
PlaceKnown ==
  /\ list <=> pc \in Loop \cup {"enumerate"}
  /\ conf <=> pc \in Inner
  /\ pc \in Inner => devs # <<>>
  /\ pc \notin Loop \cup {"enumerate"} => devs = <<>>
  /\ pc \in {"idle", "inUse"} => infos = <<>>
  /\ pc \in {"idle", "enumerate", "path"} => dev = "none"
  /\ pc = "freeInfos" => dev # "new"
  /\ pc = "inUse" => dev = "open"
  /\ pc = "list" => ~good_open
  /\ pc \in {"detach", "claim", "start", "stuck"} => good_open

(* Only Lightpacks are listed, and so only they are opened.                  *)
PathKnown ==
  /\ \A i \in DOMAIN infos : infos[i][1] \in Lightpacks
  /\ pc \in Loop \cup {"list"} \/ Has => path \in Paths /\ path[1] \in Lightpacks

(* The device with the path comes once in the list, and its altsetting once: *)
(* after it has been opened nothing left to visit matches.                   *)
OnceKnown ==
  /\ \A i, j \in DOMAIN devs : devs[i] = devs[j] => i = j
  /\ pc \in {"detach", "claim", "start", "stuck"} => alts = 1 /\ Here = path[1]
  /\ pc = "handle" => alts = 0 \/ (alts = 1 /\ Here = path[1] /\ ~good_open)
  /\ pc = "device" /\ good_open => \A i \in DOMAIN devs : devs[i] # path[1]
  /\ pc = "handle" /\ good_open => \A i \in DOMAIN devs : i > 1 => devs[i] # path[1]

(* A handle, a read thread, a claim: each exactly while it is due.           *)
HeldKnown ==
  /\ ~Has => opened = [a \in Addresses |-> 0] /\ threads = 0 /\ claims = {}
  /\ Has =>
       /\ opened = [a \in Addresses |-> IF a = path[1] THEN 1 ELSE 0] /\ MaxHandles > 0
       /\ threads = IF pc \in {"detach", "claim", "start", "stuck"} THEN 0 ELSE 1
       /\ claims = IF pc \notin {"detach", "claim"} /\ path[1] \in present THEN {path} ELSE {}

(* What hid_enumerate has listed: the interfaces of the Lightpacks it has    *)
(* visited and could read, each once.                                        *)
Elements(s) == {s[i] : i \in DOMAIN s}
Visited == ((listed \ Elements(devs)) \ missed) \cap Lightpacks \cap PerInterface
EnumKnown ==
  pc \in {"enumerate", "path"} =>
    /\ Elements(devs) \subseteq listed /\ missed \cap Elements(devs) = {}
    /\ Elements(infos) = UNION {Elements(PathsOf(a)) : a \in Visited}
    /\ \A i, j \in DOMAIN infos : infos[i] = infos[j] => i = j

OpenInv == TypeOK /\ PlaceKnown /\ PathKnown /\ OnceKnown /\ HeldKnown /\ EnumKnown

--------------------------------------------------------------------------------
(* Lists without repetition.                                                 *)
Distinct(s) == \A i, j \in DOMAIN s : s[i] = s[j] => i = j

LEMMA TailDistinct ==
  ASSUME NEW S, NEW s \in Seq(S), s # <<>>, Distinct(s)
  PROVE  /\ Tail(s) \in Seq(S) /\ Distinct(Tail(s))
         /\ Len(Tail(s)) = Len(s) - 1 /\ Len(Tail(s)) \in Nat /\ DOMAIN Tail(s) = 1..(Len(s) - 1)
         /\ \A i \in 1..(Len(s) - 1) : Tail(s)[i] = s[i + 1]
         /\ Head(s) = s[1] /\ Head(s) \in S /\ 1 \in DOMAIN s
         /\ Elements(Tail(s)) = Elements(s) \ {Head(s)}
         /\ Head(s) \in Elements(s)
<1>1. /\ Tail(s) \in Seq(S) /\ Len(Tail(s)) = Len(s) - 1 /\ Len(s) \in Nat
      /\ \A i \in 1..Len(Tail(s)) : Tail(s)[i] = s[i + 1]
      /\ Head(s) = s[1] /\ Head(s) \in S
  BY HeadTailProperties, LenProperties
<1>2. DOMAIN s = 1..Len(s) /\ DOMAIN Tail(s) = 1..(Len(s) - 1) /\ Len(s) > 0
  BY <1>1, LenProperties, EmptySeq
<1>3. Distinct(Tail(s))
  <2>1. ASSUME NEW i \in DOMAIN Tail(s), NEW j \in DOMAIN Tail(s), Tail(s)[i] = Tail(s)[j]
        PROVE  i = j
    <3>1. i + 1 \in DOMAIN s /\ j + 1 \in DOMAIN s /\ i \in Int /\ j \in Int
      BY <1>1, <1>2
    <3>2. s[i + 1] = s[j + 1]
      BY <1>1, <1>2, <2>1
    <3> QED BY <3>1, <3>2 DEF Distinct
  <2> QED BY <2>1 DEF Distinct
<1>4. Elements(Tail(s)) = Elements(s) \ {Head(s)}
  <2>1. ASSUME NEW i \in DOMAIN Tail(s) PROVE Tail(s)[i] \in Elements(s) \ {Head(s)}
    <3>1. i + 1 \in DOMAIN s /\ 1 \in DOMAIN s /\ i + 1 # 1
      BY <1>1, <1>2
    <3>2. Tail(s)[i] = s[i + 1] /\ s[i + 1] # s[1]
      BY <1>1, <1>2, <3>1 DEF Distinct
    <3> QED BY <1>1, <3>1, <3>2 DEF Elements
  <2>2. ASSUME NEW i \in DOMAIN s, s[i] # Head(s) PROVE s[i] \in Elements(Tail(s))
    <3>1. i # 1
      BY <1>1, <2>2
    <3>2. i - 1 \in DOMAIN Tail(s) /\ (i - 1) + 1 = i
      BY <1>1, <1>2, <3>1
    <3>3. Tail(s)[i - 1] = s[i]
      BY <1>1, <1>2, <3>2
    <3> QED BY <3>2, <3>3 DEF Elements
  <2> QED BY <2>1, <2>2 DEF Elements
<1>5. Head(s) \in Elements(s) /\ 1 \in DOMAIN s
  BY <1>1, <1>2 DEF Elements
<1> QED BY <1>1, <1>2, <1>3, <1>4, <1>5

LEMMA ConcatDistinct ==
  ASSUME NEW S, NEW s \in Seq(S), NEW t \in Seq(S)
  PROVE  /\ s \o t \in Seq(S)
         /\ Elements(s \o t) = Elements(s) \cup Elements(t)
         /\ Distinct(s) /\ Distinct(t) /\ Elements(s) \cap Elements(t) = {} => Distinct(s \o t)
<1> DEFINE c == s \o t
<1>1. /\ c \in Seq(S) /\ Len(c) = Len(s) + Len(t) /\ Len(s) \in Nat /\ Len(t) \in Nat
      /\ \A i \in 1..(Len(s) + Len(t)) : c[i] = IF i <= Len(s) THEN s[i] ELSE t[i - Len(s)]
  BY ConcatProperties, LenProperties
<1>2. DOMAIN c = 1..(Len(s) + Len(t)) /\ DOMAIN s = 1..Len(s) /\ DOMAIN t = 1..Len(t)
  BY <1>1, LenProperties
<1> HIDE DEF c
<1>3. ASSUME NEW i \in DOMAIN c
      PROVE  \/ i <= Len(s) /\ i \in DOMAIN s /\ c[i] = s[i]
             \/ ~(i <= Len(s)) /\ i - Len(s) \in DOMAIN t /\ c[i] = t[i - Len(s)]
  BY <1>1, <1>2
<1>4. \A i \in DOMAIN s : i \in DOMAIN c /\ c[i] = s[i]
  BY <1>1, <1>2
<1>5. ASSUME NEW j \in DOMAIN t PROVE j + Len(s) \in DOMAIN c /\ c[j + Len(s)] = t[j]
  <2>1. j + Len(s) \in 1..(Len(s) + Len(t)) /\ ~(j + Len(s) <= Len(s)) /\ (j + Len(s)) - Len(s) = j
    BY <1>1, <1>2
  <2> QED BY <1>1, <1>2, <2>1
<1>6. Elements(c) = Elements(s) \cup Elements(t)
  BY <1>3, <1>4, <1>5 DEF Elements
<1>7. ASSUME Distinct(s), Distinct(t), Elements(s) \cap Elements(t) = {} PROVE Distinct(c)
  <2>1. ASSUME NEW i \in DOMAIN c, NEW j \in DOMAIN c, c[i] = c[j] PROVE i = j
    <3>1. i \in Int /\ j \in Int /\ Len(s) \in Int
      BY <1>1, <1>2
    <3>2. CASE i <= Len(s) /\ j <= Len(s)
      BY <1>3, <1>7, <2>1, <3>2 DEF Distinct
    <3>3. CASE ~(i <= Len(s)) /\ ~(j <= Len(s))
      <4>1. i - Len(s) = j - Len(s)
        BY <1>3, <1>7, <2>1, <3>3 DEF Distinct
      <4> QED BY <3>1, <4>1
    <3>4. CASE i <= Len(s) /\ ~(j <= Len(s))
      BY <1>3, <1>7, <2>1, <3>4 DEF Elements
    <3>5. CASE ~(i <= Len(s)) /\ j <= Len(s)
      BY <1>3, <1>7, <2>1, <3>5 DEF Elements
    <3> QED BY <3>2, <3>3, <3>4, <3>5
  <2> QED BY <2>1 DEF Distinct
<1> QED BY <1>1, <1>6, <1>7 DEF c

(* Without repetition a list is as long as it has elements.                  *)
LEMMA DistinctCount ==
  ASSUME NEW S, NEW s \in Seq(S), Distinct(s)
  PROVE  Cardinality(Elements(s)) = Len(s)
<1>1. Len(s) \in Nat /\ DOMAIN s = 1..Len(s)
  BY LenProperties
<1>2. IsFiniteSet(1..Len(s)) /\ Cardinality(1..Len(s)) = Len(s)
  BY <1>1, FS_Interval
<1>3. s \in [1..Len(s) -> Elements(s)]
  BY <1>1, SeqDef DEF Elements
<1>4. s \in Bijection(1..Len(s), Elements(s))
  BY <1>1, <1>3 DEF Bijection, Injection, Surjection, IsInjective, Distinct, Elements
<1>5. ExistsBijection(1..Len(s), Elements(s))
  BY <1>4 DEF ExistsBijection
<1> QED BY <1>2, <1>5, FS_Bijection

(* libusb_get_device_list lists every device on the bus, once.               *)
LEMMA OrdersList ==
  ASSUME NEW S, S \subseteq Addresses, NEW s \in Orders(S)
  PROVE  /\ s \in Seq(Addresses) /\ Len(s) <= Cardinality(Addresses)
         /\ Distinct(s) /\ Elements(s) = S
<1>1. IsFiniteSet(S) /\ Cardinality(S) \in Nat /\ Cardinality(S) <= Cardinality(Addresses)
  BY BusAssumption, FS_Subset, FS_CardinalityType
<1>2. s \in [1..Cardinality(S) -> S] /\ Distinct(s)
  BY DEF Orders, Distinct
<1>3. s \in Seq(Addresses) /\ Len(s) = Cardinality(S) /\ DOMAIN s = 1..Cardinality(S)
  <2>1. s \in [1..Cardinality(S) -> Addresses]
    BY <1>2
  <2> QED BY <1>1, <2>1, SeqDef, LenProperties
<1>4. IsFiniteSet(1..Cardinality(S)) /\ Cardinality(1..Cardinality(S)) = Cardinality(S)
  BY <1>1, FS_Interval
<1>5. s \in Injection(1..Cardinality(S), S)
  BY <1>2, <1>3 DEF Injection, IsInjective, Distinct
<1>6. s \in Surjection(1..Cardinality(S), S)
  BY <1>1, <1>4, <1>5, FS_Injection
<1>7. Elements(s) = S
  BY <1>3, <1>6 DEF Surjection, Elements
<1> QED BY <1>1, <1>2, <1>3, <1>7

(* The HID interfaces of a device give different paths, each its own.        *)
LEMMA PathsList ==
  ASSUME NEW a \in Addresses
  PROVE  /\ PathsOf(a) \in Seq(Paths) /\ Distinct(PathsOf(a))
         /\ \A i \in DOMAIN PathsOf(a) : PathsOf(a)[i][1] = a
         /\ \A p \in Elements(PathsOf(a)) : p[1] = a
<1>1. HidAlts[a] \in Seq(0..9)
  BY BusAssumption
<1>2. DOMAIN HidAlts[a] = 1..Len(HidAlts[a]) /\ Len(HidAlts[a]) \in Nat
      /\ \A i \in DOMAIN HidAlts[a] : HidAlts[a][i] \in 0..9
  BY <1>1, LenProperties, ElementOfSeq
<1>3. PathsOf(a) \in [1..Len(HidAlts[a]) -> Paths]
  BY <1>2 DEF PathsOf, Paths
<1>4. PathsOf(a) \in Seq(Paths)
  BY <1>2, <1>3, SeqDef
<1>5. \A i \in DOMAIN PathsOf(a) : PathsOf(a)[i][1] = a
  BY DEF PathsOf
<1>6. Distinct(PathsOf(a))
  <2>1. \A i, j \in DOMAIN HidAlts[a] : HidAlts[a][i] = HidAlts[a][j] => i = j
    BY BusAssumption
  <2>2. ASSUME NEW i \in DOMAIN PathsOf(a), NEW j \in DOMAIN PathsOf(a), PathsOf(a)[i] = PathsOf(a)[j]
        PROVE  i = j
    <3>1. i \in DOMAIN HidAlts[a] /\ j \in DOMAIN HidAlts[a]
          /\ <<a, HidAlts[a][i]>> = <<a, HidAlts[a][j]>>
      BY <2>2 DEF PathsOf
    <3> QED BY <2>1, <3>1
  <2> QED BY <2>2 DEF Distinct
<1>7. \A p \in Elements(PathsOf(a)) : p[1] = a
  BY <1>5 DEF Elements
<1> QED BY <1>4, <1>5, <1>6, <1>7

(* At most one altsetting has the path to open, on the device it names.      *)
LEMMA MatchOnce ==
  ASSUME NEW a \in Addresses, path \in Paths
  PROVE  Matching(a) = 0 \/ (Matching(a) = 1 /\ a = path[1])
<1> DEFINE M == {i \in DOMAIN HidAlts[a] : <<a, HidAlts[a][i]>> = path}
<1>1. \A i, j \in M : i = j
  <2>1. \A i, j \in DOMAIN HidAlts[a] : HidAlts[a][i] = HidAlts[a][j] => i = j
    BY BusAssumption
  <2>2. ASSUME NEW i \in M, NEW j \in M PROVE HidAlts[a][i] = HidAlts[a][j]
    <3>1. <<a, HidAlts[a][i]>> = <<a, HidAlts[a][j]>>
      OBVIOUS
    <3> QED BY <3>1
  <2> QED BY <2>1, <2>2
<1>2. CASE M = {}
  BY <1>2, FS_EmptySet DEF Matching
<1>3. CASE M # {}
  <2>1. PICK i \in M : M = {i}
    BY <1>1, <1>3
  <2>2. Cardinality(M) = 1
    BY <2>1, FS_Singleton
  <2>3. <<a, HidAlts[a][i]>> = path
    BY <2>1
  <2> QED BY <2>2, <2>3 DEF Matching
<1> QED BY <1>2, <1>3

--------------------------------------------------------------------------------
(* TypeOK in three parts; the fourth, of the handles, follows from HeldKnown.*)
FlagTypes ==
  /\ initialized \in BOOLEAN /\ list \in BOOLEAN /\ conf \in BOOLEAN /\ good_open \in BOOLEAN
  /\ pc \in {"idle", "enumerate", "path", "list", "device", "handle", "detach", "claim",
             "start", "freeInfos", "inUse", "crashed", "stuck"}
  /\ dev \in {"none", "new", "open"}
BusTypes ==
  /\ present \subseteq Addresses /\ faults \in 0..MaxFaults
  /\ listed \subseteq Addresses /\ missed \subseteq Addresses
ListTypes ==
  /\ devs \in Seq(Addresses) /\ Len(devs) <= Cardinality(Addresses)
  /\ alts \in Nat /\ infos \in Seq(Paths) /\ path \in Paths \cup {NoPath}
HeldTypes ==
  threads \in 0..MaxHandles /\ opened \in [Addresses -> 0..MaxHandles] /\ claims \subseteq Paths

LEMMA Types == TypeOK <=> FlagTypes /\ BusTypes /\ ListTypes /\ HeldTypes
BY DEF TypeOK, FlagTypes, BusTypes, ListTypes, HeldTypes

LEMMA HeldTypesFollow == PathKnown /\ HeldKnown => HeldTypes
<1> SUFFICES ASSUME PathKnown, HeldKnown PROVE HeldTypes
  OBVIOUS
<1> USE BusAssumption DEF HeldTypes, HeldKnown
<1>1. CASE Has
  BY <1>1 DEF PathKnown
<1>2. CASE ~Has
  BY <1>2
<1> QED BY <1>1, <1>2

LEMMA InitInv == Init => OpenInv
<1> SUFFICES ASSUME Init PROVE OpenInv
  OBVIOUS
<1> USE DEF Init
<1>1. FlagTypes
  BY DEF FlagTypes
<1>2. BusTypes
  BY BusAssumption DEF BusTypes
<1>3. devs \in Seq(Addresses) /\ infos \in Seq(Paths) /\ Len(devs) = 0
      /\ DOMAIN devs = {} /\ DOMAIN infos = {}
  BY EmptySeq
<1>4. ListTypes
  BY <1>3, BusAssumption, FS_CardinalityType DEF ListTypes
<1>5. ~Has
  BY DEF Has, Loop, Inner
<1>6. PlaceKnown
  <2>1. (pc \in Loop \cup {"enumerate"}) = FALSE /\ (pc \in Inner) = FALSE
    BY DEF Loop, Inner
  <2> QED BY <2>1 DEF PlaceKnown, Loop, Inner
<1>7. PathKnown /\ OnceKnown /\ EnumKnown
  BY <1>3, <1>5 DEF PathKnown, OnceKnown, EnumKnown, Loop, Inner
<1>8. HeldKnown
  BY <1>5 DEF HeldKnown
<1> QED BY <1>1, <1>2, <1>4, <1>6, <1>7, <1>8, Types, HeldTypesFollow DEF OpenInv

LEMMA FlagsStep == OpenInv /\ [Next]_vars => FlagTypes'
<1> SUFFICES ASSUME FlagTypes, [Next]_vars PROVE FlagTypes'
  BY Types DEF OpenInv
<1> USE DEF FlagTypes, vars, bus, scan, held, history, Goto
<1>1. CASE InitLibusb \/ EnumList \/ EnumListFails
  BY <1>1 DEF InitLibusb, EnumList, EnumListFails
<1>2. CASE EnumSkip \/ EnumRead \/ EnumNoConfig \/ EnumEnd
  BY <1>2 DEF EnumSkip, EnumNext, EnumRead, EnumNoConfig, EnumEnd
<1>3. CASE OpenList \/ OpenListFails \/ OpenConfig \/ OpenNoConfig
  BY <1>3 DEF OpenList, OpenListFails, OpenConfig, OpenNoConfig
<1>4. CASE OpenHandle \/ OpenHandleFails \/ Detach \/ DetachFails \/ StartFails
  BY <1>4 DEF OpenHandle, OpenHandleFails, Break, Detach, DetachFails, Abandon, StartFails
<1>5. CASE Claim \/ ClaimFails \/ Start \/ FreeConfig
  BY <1>5 DEF Claim, ClaimFails, Abandon, Break, Start, FreeConfig
<1>6. CASE OpenEnd
  BY <1>6 DEF OpenEnd
<1>7. CASE NoneFound \/ FirstPath \/ FreeInfos \/ Close
  BY <1>7 DEF NoneFound, FirstPath, FreeInfos, Close
<1>8. ASSUME NEW a \in Addresses, Plug(a) \/ Unplug(a) PROVE FlagTypes'
  BY <1>8 DEF Plug, Unplug
<1>9. CASE UNCHANGED vars
  BY <1>9
<1>10. QED
  BY <1>1, <1>2, <1>3, <1>4, <1>5, <1>6, <1>7, <1>8, <1>9 DEF Next, Enumerate, OpenPath, Driver

(* A fault counts at most once per call.                                     *)
LEMMA Faulted ==
  ASSUME BusTypes, FaultOrGone \/ Fault
  PROVE  faults' \in 0..MaxFaults
BY BusAssumption DEF BusTypes, FaultOrGone, Fault

LEMMA BusStep == OpenInv /\ [Next]_vars => BusTypes'
<1> SUFFICES ASSUME BusTypes, ListTypes, [Next]_vars PROVE BusTypes'
  BY Types DEF OpenInv
<1> USE DEF vars, bus, scan, held, history
<1>1. CASE EnumList
  BY <1>1 DEF EnumList, BusTypes
<1>2. CASE InitLibusb \/ EnumListFails \/ OpenListFails \/ StartFails
  BY <1>2, Faulted DEF InitLibusb, EnumListFails, OpenListFails, StartFails, BusTypes
<1>3. CASE EnumSkip \/ EnumRead \/ EnumEnd
  BY <1>3 DEF EnumSkip, EnumNext, EnumRead, EnumEnd, BusTypes
<1>4. CASE EnumNoConfig
  <2>1. Here \in Addresses
    BY <1>4, HeadTailProperties DEF EnumNoConfig, EnumNext, ListTypes, Here
  <2> QED BY <1>4, <2>1, Faulted DEF EnumNoConfig, EnumNext, BusTypes
<1>5. CASE OpenNoConfig \/ OpenHandleFails \/ DetachFails \/ ClaimFails
  BY <1>5, Faulted DEF OpenNoConfig, OpenHandleFails, Break, DetachFails, Abandon, ClaimFails, BusTypes
<1>6. CASE OpenList \/ OpenConfig \/ OpenHandle \/ Detach \/ Claim \/ Start \/ FreeConfig \/ OpenEnd
  BY <1>6 DEF OpenList, OpenConfig, OpenHandle, Detach, Claim, Start, FreeConfig, OpenEnd, BusTypes
<1>7. CASE NoneFound \/ FirstPath \/ FreeInfos \/ Close
  BY <1>7 DEF NoneFound, FirstPath, FreeInfos, Close, BusTypes
<1>8. ASSUME NEW a \in Addresses, Plug(a) \/ Unplug(a) PROVE BusTypes'
  BY <1>8 DEF Plug, Unplug, BusTypes
<1>9. CASE UNCHANGED vars
  BY <1>9 DEF BusTypes
<1>10. QED
  BY <1>1, <1>2, <1>3, <1>4, <1>5, <1>6, <1>7, <1>8, <1>9 DEF Next, Enumerate, OpenPath, Driver

(* Dropping the first device of the list.                                    *)
LEMMA OneLess ==
  ASSUME ListTypes, OnceKnown, devs # <<>>
  PROVE  /\ Tail(devs) \in Seq(Addresses) /\ Len(Tail(devs)) <= Cardinality(Addresses)
         /\ Here \in Addresses
<1>1. Distinct(devs)
  BY DEF OnceKnown, Distinct
<1>2. Cardinality(Addresses) \in Nat /\ Len(devs) \in Nat
  BY BusAssumption, FS_CardinalityType, LenProperties DEF ListTypes
<1> QED BY <1>1, <1>2, TailDistinct DEF ListTypes, Here

LEMMA ListsStep == OpenInv /\ [Next]_vars => ListTypes'
<1> SUFFICES ASSUME ListTypes, BusTypes, PlaceKnown, PathKnown, OnceKnown, [Next]_vars PROVE ListTypes'
  BY Types DEF OpenInv
<1> USE DEF vars, bus, scan, held, history
<1>1. CASE EnumList \/ OpenList
  <2>1. devs' \in Orders(present) /\ present \subseteq Addresses
    BY <1>1 DEF EnumList, OpenList, BusTypes
  <2>2. UNCHANGED <<alts, infos, path>>
    BY <1>1 DEF EnumList, OpenList
  <2> QED BY <2>1, <2>2, OrdersList DEF ListTypes
<1>2. CASE EnumSkip \/ EnumRead \/ EnumNoConfig
  <2>1. devs # <<>> /\ devs' = Tail(devs) /\ UNCHANGED <<alts, path>>
    BY <1>2 DEF EnumSkip, EnumRead, EnumNoConfig, EnumNext
  <2>2. PICK found \in {<<>>, PathsOf(Here)} : infos' = infos \o found
    BY <1>2 DEF EnumSkip, EnumRead, EnumNoConfig, EnumNext
  <2>3. found \in Seq(Paths)
    BY <2>1, <2>2, OneLess, PathsList, EmptySeq
  <2>4. infos' \in Seq(Paths)
    BY <2>2, <2>3, ConcatProperties DEF ListTypes
  <2> QED BY <2>1, <2>4, OneLess DEF ListTypes
<1>3. CASE OpenConfig
  <2>1. devs # <<>> /\ path \in Paths /\ alts' = Matching(Here) /\ UNCHANGED <<devs, infos, path>>
    BY <1>3 DEF OpenConfig, Goto, PathKnown, Loop
  <2>2. alts' \in Nat
    BY <2>1, OneLess, MatchOnce
  <2> QED BY <2>1, <2>2 DEF ListTypes
<1>4. CASE OpenNoConfig
  BY <1>4, OneLess DEF OpenNoConfig, ListTypes
<1>5. CASE FreeConfig
  <2>1. devs # <<>>
    BY <1>5 DEF FreeConfig, Goto, PlaceKnown, Inner
  <2> QED BY <1>5, <2>1, OneLess DEF FreeConfig, ListTypes
<1>6. CASE OpenHandleFails \/ DetachFails \/ ClaimFails
  BY <1>6 DEF OpenHandleFails, DetachFails, ClaimFails, Abandon, Break, ListTypes
<1>7. CASE Start
  BY <1>7 DEF Start, Goto, OnceKnown, ListTypes
<1>8. CASE FirstPath
  <2>1. Head(infos) \in Paths
    BY <1>8, HeadTailProperties DEF FirstPath, ListTypes
  <2> QED BY <1>8, <2>1 DEF FirstPath, ListTypes
<1>9. CASE FreeInfos
  BY <1>9, EmptySeq DEF FreeInfos, ListTypes
<1>10. CASE InitLibusb \/ EnumListFails \/ EnumEnd \/ OpenListFails
  BY <1>10 DEF InitLibusb, EnumListFails, EnumEnd, OpenListFails, ListTypes
<1>11. CASE OpenHandle \/ Detach \/ Claim \/ StartFails \/ OpenEnd \/ NoneFound \/ Close
  BY <1>11 DEF OpenHandle, Detach, Claim, StartFails, OpenEnd, NoneFound, Close, ListTypes
<1>12. ASSUME NEW a \in Addresses, Plug(a) \/ Unplug(a) PROVE ListTypes'
  BY <1>12 DEF Plug, Unplug, ListTypes
<1>13. CASE UNCHANGED vars
  BY <1>13 DEF ListTypes
<1>14. QED
  BY <1>1, <1>2, <1>3, <1>4, <1>5, <1>6, <1>7, <1>8, <1>9, <1>10, <1>11, <1>12, <1>13 DEF Next, Enumerate, OpenPath, Driver

LEMMA PlaceStep == OpenInv /\ [Next]_vars => PlaceKnown'
<1> SUFFICES ASSUME FlagTypes, PlaceKnown, [Next]_vars PROVE PlaceKnown'
  BY Types DEF OpenInv
<1> USE DEF FlagTypes, PlaceKnown, Loop, Inner, vars, bus, scan, held, history, Goto
<1>1. CASE InitLibusb
  BY <1>1 DEF InitLibusb
<1>2. CASE EnumList
  BY <1>2 DEF EnumList
<1>3. CASE EnumListFails
  BY <1>3 DEF EnumListFails
<1>4. CASE EnumSkip
  BY <1>4 DEF EnumSkip, EnumNext
<1>5. CASE EnumRead
  BY <1>5 DEF EnumRead, EnumNext
<1>6. CASE EnumNoConfig
  BY <1>6 DEF EnumNoConfig, EnumNext
<1>7. CASE EnumEnd
  BY <1>7 DEF EnumEnd
<1>8. CASE OpenList
  BY <1>8 DEF OpenList
<1>9. CASE OpenListFails
  BY <1>9 DEF OpenListFails
<1>10. CASE OpenConfig
  BY <1>10 DEF OpenConfig
<1>11. CASE OpenNoConfig
  BY <1>11 DEF OpenNoConfig
<1>12. CASE OpenHandle
  BY <1>12 DEF OpenHandle
<1>13. CASE OpenHandleFails
  BY <1>13 DEF OpenHandleFails, Break
<1>14. CASE Detach \/ StartFails
  BY <1>14 DEF Detach, StartFails
<1>15. CASE DetachFails
  BY <1>15 DEF DetachFails, Abandon, Break
<1>16. CASE Claim
  BY <1>16 DEF Claim
<1>17. CASE ClaimFails
  BY <1>17 DEF ClaimFails, Abandon, Break
<1>18. CASE Start
  BY <1>18 DEF Start
<1>19. CASE FreeConfig
  BY <1>19 DEF FreeConfig
<1>20. CASE OpenEnd
  BY <1>20 DEF OpenEnd
<1>21. CASE NoneFound
  BY <1>21 DEF NoneFound
<1>22. CASE FirstPath
  BY <1>22 DEF FirstPath
<1>23. CASE FreeInfos
  BY <1>23 DEF FreeInfos
<1>24. CASE Close
  BY <1>24 DEF Close
<1>25. ASSUME NEW a \in Addresses, Plug(a) \/ Unplug(a) PROVE PlaceKnown'
  BY <1>25 DEF Plug, Unplug
<1>26. CASE UNCHANGED vars
  BY <1>26
<1>27. QED
  BY <1>1, <1>2, <1>3, <1>4, <1>5, <1>6, <1>7, <1>8, <1>9, <1>10, <1>11, <1>12, <1>13, <1>14, <1>15, <1>16, <1>17, <1>18, <1>19, <1>20, <1>21, <1>22, <1>23, <1>24, <1>25, <1>26 DEF Next, Enumerate, OpenPath, Driver

(* hid_enumerate finds Lightpacks only.                                      *)
LEMMA LightpackPaths ==
  ASSUME ListTypes, OnceKnown, devs # <<>>, Here \in Lightpacks,
         \A i \in DOMAIN infos : infos[i][1] \in Lightpacks
  PROVE  \A i \in DOMAIN (infos \o PathsOf(Here)) : (infos \o PathsOf(Here))[i][1] \in Lightpacks
<1>1. Here \in Addresses
  BY OneLess
<1>2. infos \in Seq(Paths) /\ PathsOf(Here) \in Seq(Paths)
  BY <1>1, PathsList DEF ListTypes
<1>3. Elements(infos \o PathsOf(Here)) = Elements(infos) \cup Elements(PathsOf(Here))
  BY <1>2, ConcatDistinct
<1>4. \A p \in Elements(infos) \cup Elements(PathsOf(Here)) : p[1] \in Lightpacks
  BY <1>1, PathsList DEF Elements
<1> QED BY <1>3, <1>4 DEF Elements

LEMMA PathStep == OpenInv /\ [Next]_vars => PathKnown'
<1> SUFFICES ASSUME FlagTypes, ListTypes, PlaceKnown, PathKnown, OnceKnown, [Next]_vars PROVE PathKnown'
  BY Types DEF OpenInv
<1> USE DEF FlagTypes, PathKnown, Has, PlaceKnown, Loop, Inner, vars, bus, scan, held, history, Goto
<1>1. CASE InitLibusb
  BY <1>1 DEF InitLibusb
<1>2. CASE EnumList
  BY <1>2 DEF EnumList
<1>3. CASE EnumListFails
  BY <1>3 DEF EnumListFails
<1>4. CASE EnumSkip
  <2>1. infos' = infos
    BY <1>4, ConcatEmptySeq DEF EnumSkip, EnumNext, ListTypes
  <2> QED BY <1>4, <2>1 DEF EnumSkip, EnumNext
<1>5. CASE EnumRead
  <2>1. \A i \in DOMAIN infos' : infos'[i][1] \in Lightpacks
    <3>1. CASE Here \in Lightpacks
      BY <1>5, <3>1, LightpackPaths DEF EnumRead, EnumNext
    <3>2. CASE Here \notin Lightpacks
      <4>1. infos' = infos
        BY <1>5, <3>2, ConcatEmptySeq DEF EnumRead, EnumNext, ListTypes
      <4> QED BY <4>1
    <3> QED BY <3>1, <3>2
  <2> QED BY <1>5, <2>1 DEF EnumRead, EnumNext
<1>6. CASE EnumNoConfig
  <2>1. infos' = infos
    BY <1>6, ConcatEmptySeq DEF EnumNoConfig, EnumNext, ListTypes
  <2> QED BY <1>6, <2>1 DEF EnumNoConfig, EnumNext
<1>7. CASE EnumEnd
  BY <1>7 DEF EnumEnd
<1>8. CASE OpenList
  BY <1>8 DEF OpenList
<1>9. CASE OpenListFails
  BY <1>9 DEF OpenListFails
<1>10. CASE OpenConfig
  BY <1>10 DEF OpenConfig
<1>11. CASE OpenNoConfig
  BY <1>11 DEF OpenNoConfig
<1>12. CASE OpenHandle
  BY <1>12 DEF OpenHandle
<1>13. CASE OpenHandleFails
  BY <1>13 DEF OpenHandleFails, Break
<1>14. CASE Detach \/ StartFails
  BY <1>14 DEF Detach, StartFails
<1>15. CASE DetachFails
  BY <1>15 DEF DetachFails, Abandon, Break
<1>16. CASE Claim
  BY <1>16 DEF Claim
<1>17. CASE ClaimFails
  BY <1>17 DEF ClaimFails, Abandon, Break
<1>18. CASE Start
  BY <1>18 DEF Start
<1>19. CASE FreeConfig
  BY <1>19 DEF FreeConfig
<1>20. CASE OpenEnd
  BY <1>20 DEF OpenEnd
<1>21. CASE NoneFound
  BY <1>21 DEF NoneFound
<1>22. CASE FirstPath
  <2>1. 1 \in DOMAIN infos /\ Head(infos) = infos[1] /\ Head(infos) \in Paths
    BY <1>22, HeadTailProperties, LenProperties, EmptySeq DEF FirstPath, ListTypes
  <2> QED BY <1>22, <2>1 DEF FirstPath
<1>23. CASE FreeInfos
  <2>1. DOMAIN infos' = {}
    BY <1>23, EmptySeq DEF FreeInfos
  <2> QED BY <1>23, <2>1 DEF FreeInfos
<1>24. CASE Close
  BY <1>24 DEF Close
<1>25. ASSUME NEW a \in Addresses, Plug(a) \/ Unplug(a) PROVE PathKnown'
  BY <1>25 DEF Plug, Unplug
<1>26. CASE UNCHANGED vars
  BY <1>26
<1>27. QED
  BY <1>1, <1>2, <1>3, <1>4, <1>5, <1>6, <1>7, <1>8, <1>9, <1>10, <1>11, <1>12, <1>13, <1>14, <1>15, <1>16, <1>17, <1>18, <1>19, <1>20, <1>21, <1>22, <1>23, <1>24, <1>25, <1>26 DEF Next, Enumerate, OpenPath, Driver

LEMMA OnceStep == OpenInv /\ [Next]_vars => OnceKnown'
<1> SUFFICES ASSUME FlagTypes, ListTypes, BusTypes, PlaceKnown, PathKnown, OnceKnown, [Next]_vars PROVE OnceKnown'
  BY Types DEF OpenInv
<1> USE DEF FlagTypes, vars, bus, scan, held, history, Goto
<1>1. CASE EnumList \/ OpenList
  <2>1. \A i, j \in DOMAIN devs' : devs'[i] = devs'[j] => i = j
    BY <1>1, OrdersList DEF EnumList, OpenList, BusTypes, Distinct
  <2> QED BY <1>1, <2>1 DEF EnumList, OpenList, OnceKnown, PlaceKnown
<1>2. CASE EnumSkip \/ EnumRead \/ EnumNoConfig
  <2>1. devs # <<>> /\ devs \in Seq(Addresses) /\ Distinct(devs)
    BY <1>2 DEF EnumSkip, EnumRead, EnumNoConfig, EnumNext, PlaceKnown, Inner, ListTypes, OnceKnown, Distinct, Goto
  <2>2. /\ Distinct(Tail(devs)) /\ DOMAIN Tail(devs) = 1..(Len(devs) - 1)
        /\ Len(devs) \in Nat /\ DOMAIN devs = 1..Len(devs)
        /\ \A i \in 1..(Len(devs) - 1) : Tail(devs)[i] = devs[i + 1]
    BY ONLY <2>1, TailDistinct, LenProperties
  <2>3. \A i, j \in DOMAIN devs' : devs'[i] = devs'[j] => i = j
    BY <1>2, <2>2 DEF EnumSkip, EnumRead, EnumNoConfig, EnumNext, Distinct
  <2>4. pc' = "enumerate"
    BY <1>2 DEF EnumSkip, EnumRead, EnumNoConfig, EnumNext
  <2> QED BY <2>3, <2>4 DEF OnceKnown
<1>3. CASE OpenConfig
  <2>1. devs # <<>> /\ path \in Paths /\ pc = "device" /\ pc' = "handle" /\ alts' = Matching(Here)
        /\ UNCHANGED <<devs, path, good_open>>
    BY <1>3 DEF OpenConfig, PathKnown, Loop
  <2>2. alts' = 0 \/ (alts' = 1 /\ Here = path[1])
    BY <2>1, OneLess, MatchOnce
  <2>3. 1 \in DOMAIN devs /\ Here = devs[1]
    BY <2>1, LenProperties, HeadTailProperties, EmptySeq DEF ListTypes, Here
  <2>4. good_open => alts' = 0
    BY <2>1, <2>2, <2>3 DEF OnceKnown
  <2> QED BY <2>1, <2>2, <2>4 DEF OnceKnown, Here
<1>4. CASE OpenNoConfig
  <2>1. devs # <<>> /\ devs \in Seq(Addresses) /\ Distinct(devs)
    BY <1>4 DEF OpenNoConfig, PlaceKnown, Inner, ListTypes, OnceKnown, Distinct, Goto
  <2>2. /\ Distinct(Tail(devs)) /\ DOMAIN Tail(devs) = 1..(Len(devs) - 1)
        /\ Len(devs) \in Nat /\ DOMAIN devs = 1..Len(devs)
        /\ \A i \in 1..(Len(devs) - 1) : Tail(devs)[i] = devs[i + 1]
    BY ONLY <2>1, TailDistinct, LenProperties
  <2>3. \A i, j \in DOMAIN devs' : devs'[i] = devs'[j] => i = j
    BY <1>4, <2>2 DEF OpenNoConfig, Distinct
  <2>4. pc = "device" /\ devs' = Tail(devs) /\ UNCHANGED <<pc, good_open, path>>
    BY <1>4 DEF OpenNoConfig
  <2>5. good_open => \A i \in DOMAIN devs' : devs'[i] # path[1]
    <3>1. \A i \in 1..(Len(devs) - 1) : i + 1 \in DOMAIN devs
      BY <2>2
    <3>2. good_open => \A i \in 1..(Len(devs) - 1) : devs[i + 1] # path[1]
      BY <2>4, <3>1 DEF OnceKnown
    <3> QED BY <2>2, <2>4, <3>2
  <2> QED BY <2>3, <2>4, <2>5 DEF OnceKnown
<1>5. CASE FreeConfig
  <2>1. devs # <<>> /\ devs \in Seq(Addresses) /\ Distinct(devs)
    BY <1>5 DEF FreeConfig, PlaceKnown, Inner, ListTypes, OnceKnown, Distinct, Goto
  <2>2. /\ Distinct(Tail(devs)) /\ DOMAIN Tail(devs) = 1..(Len(devs) - 1)
        /\ Len(devs) \in Nat /\ DOMAIN devs = 1..Len(devs)
        /\ \A i \in 1..(Len(devs) - 1) : Tail(devs)[i] = devs[i + 1]
    BY ONLY <2>1, TailDistinct, LenProperties
  <2>3. \A i, j \in DOMAIN devs' : devs'[i] = devs'[j] => i = j
    BY <1>5, <2>2 DEF FreeConfig, Distinct
  <2>4. pc = "handle" /\ pc' = "device" /\ devs' = Tail(devs) /\ UNCHANGED <<good_open, path>>
    BY <1>5 DEF FreeConfig
  <2>5. good_open => \A i \in DOMAIN devs' : devs'[i] # path[1]
    <3>1. \A i \in 1..(Len(devs) - 1) : i + 1 \in DOMAIN devs /\ i + 1 > 1
      BY <2>2
    <3> QED BY <2>2, <2>4, <3>1 DEF OnceKnown
  <2> QED BY <2>3, <2>4, <2>5 DEF OnceKnown
<1>6. CASE OpenHandle
  BY <1>6 DEF OpenHandle, OnceKnown, Here
<1>7. CASE OpenHandleFails \/ DetachFails \/ ClaimFails
  BY <1>7 DEF OpenHandleFails, DetachFails, ClaimFails, Abandon, Break, OnceKnown
<1>8. CASE Detach \/ Claim \/ StartFails
  BY <1>8 DEF Detach, Claim, StartFails, OnceKnown, Here
<1>9. CASE Start
  <2>1. devs # <<>> /\ alts = 1 /\ Here = path[1] /\ pc' = "handle" /\ alts' = alts - 1
        /\ UNCHANGED <<devs, path, good_open>>
    BY <1>9 DEF Start, PlaceKnown, Inner, OnceKnown
  <2>2. 1 \in DOMAIN devs /\ Here = devs[1]
    BY <2>1, LenProperties, HeadTailProperties, EmptySeq DEF ListTypes, Here
  <2>3. \A i \in DOMAIN devs : i > 1 => devs[i] # path[1]
    BY <2>1, <2>2 DEF OnceKnown
  <2> QED BY <2>1, <2>3 DEF OnceKnown
<1>10. CASE InitLibusb \/ EnumListFails \/ EnumEnd \/ OpenListFails
  BY <1>10 DEF InitLibusb, EnumListFails, EnumEnd, OpenListFails, OnceKnown
<1>11. CASE OpenEnd \/ NoneFound \/ FirstPath \/ FreeInfos \/ Close
  BY <1>11 DEF OpenEnd, NoneFound, FirstPath, FreeInfos, Close, OnceKnown
<1>12. ASSUME NEW a \in Addresses, Plug(a) \/ Unplug(a) PROVE OnceKnown'
  BY <1>12 DEF Plug, Unplug, OnceKnown, Here
<1>13. CASE UNCHANGED vars
  BY <1>13 DEF OnceKnown, Here
<1>14. QED
  BY <1>1, <1>2, <1>3, <1>4, <1>5, <1>6, <1>7, <1>8, <1>9, <1>10, <1>11, <1>12, <1>13 DEF Next, Enumerate, OpenPath, Driver

(* opened, threads and claims with and without a handle.                     *)
LEMMA HeldValues ==
  ASSUME HeldKnown, PathKnown
  PROVE  /\ \A a \in Addresses : opened[a] = IF Has /\ a = path[1] THEN 1 ELSE 0
         /\ Has => path[1] \in Addresses
         /\ opened \in [Addresses -> {0, 1}]
<1>1. CASE Has
  BY <1>1 DEF HeldKnown, PathKnown, Paths
<1>2. CASE ~Has
  BY <1>2 DEF HeldKnown
<1> QED BY <1>1, <1>2

LEMMA HeldStep == OpenInv /\ [Next]_vars => HeldKnown'
<1> SUFFICES ASSUME FlagTypes, BusTypes, ListTypes, PlaceKnown, PathKnown, OnceKnown, HeldKnown, [Next]_vars PROVE HeldKnown'
  BY Types DEF OpenInv
<1> USE DEF vars, bus, scan, held, history, Goto
<1>1. CASE InitLibusb \/ EnumList \/ EnumListFails
  <2>1. Has' <=> Has
    BY <1>1 DEF InitLibusb, EnumList, EnumListFails, Has, Loop, Inner, FlagTypes, PlaceKnown
  <2>2. UNCHANGED <<opened, threads, claims, present>> /\ (Has => path' = path)
        /\ {pc, pc'} \cap {"detach", "claim", "start", "stuck"} = {}
    BY <1>1 DEF InitLibusb, EnumList, EnumListFails, Has, Loop, Inner, PlaceKnown
  <2> QED BY <2>1, <2>2 DEF HeldKnown
<1>2. CASE EnumSkip \/ EnumRead \/ EnumNoConfig \/ EnumEnd
  <2>1. Has' <=> Has
    BY <1>2 DEF EnumSkip, EnumNext, EnumRead, EnumNoConfig, EnumEnd, Has, Loop, Inner, FlagTypes, PlaceKnown
  <2>2. UNCHANGED <<opened, threads, claims, present>> /\ (Has => path' = path)
        /\ {pc, pc'} \cap {"detach", "claim", "start", "stuck"} = {}
    BY <1>2 DEF EnumSkip, EnumNext, EnumRead, EnumNoConfig, EnumEnd, Has, Loop, Inner, PlaceKnown
  <2> QED BY <2>1, <2>2 DEF HeldKnown
<1>3. CASE OpenList \/ OpenListFails \/ OpenConfig \/ OpenNoConfig
  <2>1. Has' <=> Has
    BY <1>3 DEF OpenList, OpenListFails, OpenConfig, OpenNoConfig, Has, Loop, Inner, FlagTypes, PlaceKnown
  <2>2. UNCHANGED <<opened, threads, claims, present>> /\ (Has => path' = path)
        /\ {pc, pc'} \cap {"detach", "claim", "start", "stuck"} = {}
    BY <1>3 DEF OpenList, OpenListFails, OpenConfig, OpenNoConfig, Has, Loop, Inner, PlaceKnown
  <2> QED BY <2>1, <2>2 DEF HeldKnown
<1>4. CASE FreeConfig \/ OpenEnd
  <2>1. Has' <=> Has
    BY <1>4 DEF FreeConfig, OpenEnd, Has, Loop, Inner, FlagTypes, PlaceKnown
  <2>2. UNCHANGED <<opened, threads, claims, present>> /\ (Has => path' = path)
        /\ {pc, pc'} \cap {"detach", "claim", "start", "stuck"} = {}
    BY <1>4 DEF FreeConfig, OpenEnd, Has, Loop, Inner, PlaceKnown
  <2> QED BY <2>1, <2>2 DEF HeldKnown
<1>5. CASE NoneFound \/ FirstPath \/ FreeInfos
  <2>1. Has' <=> Has
    BY <1>5 DEF NoneFound, FirstPath, FreeInfos, Has, Loop, Inner, FlagTypes, PlaceKnown
  <2>2. UNCHANGED <<opened, threads, claims, present>> /\ (Has => path' = path)
        /\ {pc, pc'} \cap {"detach", "claim", "start", "stuck"} = {}
    BY <1>5 DEF NoneFound, FirstPath, FreeInfos, Has, Loop, Inner, PlaceKnown
  <2> QED BY <2>1, <2>2 DEF HeldKnown
<1>6. CASE OpenHandle
  <2>1. /\ ~Has /\ Has' /\ Here = path[1] /\ path' = path /\ pc' = "detach"
        /\ opened' = [opened EXCEPT ![Here] = opened[Here] + 1] /\ opened[Here] < MaxHandles
        /\ UNCHANGED <<threads, claims>>
    BY <1>6 DEF OpenHandle, Has, Loop, Inner, OnceKnown
  <2>2. Here \in Addresses
    BY <1>6, OneLess DEF OpenHandle, PlaceKnown, Inner
  <2>3. opened = [a \in Addresses |-> 0] /\ opened[Here] = 0
    BY <2>1, <2>2 DEF HeldKnown
  <2>4. opened' = [a \in Addresses |-> IF a = Here THEN 1 ELSE 0]
    BY <2>1, <2>2, <2>3
  <2>5. opened' = [a \in Addresses |-> IF a = path[1] THEN 1 ELSE 0] /\ MaxHandles > 0
    BY <2>1, <2>3, <2>4
  <2>6. threads' = 0 /\ claims' = {}
    BY <2>1 DEF HeldKnown
  <2> QED BY <2>1, <2>5, <2>6 DEF HeldKnown
<1>7. CASE OpenHandleFails
  <2>1. ~Has /\ ~Has' /\ UNCHANGED <<opened, threads, claims>>
    BY <1>7 DEF OpenHandleFails, Break, Has, Loop, Inner, OnceKnown
  <2> QED BY <2>1 DEF HeldKnown
<1>8. CASE Detach
  <2>1. Has /\ Has' /\ pc = "detach" /\ pc' = "claim"
        /\ UNCHANGED <<opened, threads, claims, path, present>>
    BY <1>8 DEF Detach, Has, Loop, Inner, PlaceKnown
  <2> QED BY <2>1 DEF HeldKnown
<1>9. CASE DetachFails
  <2>1. ~Has' /\ Has /\ devs # <<>> /\ Here = path[1] /\ opened' = [opened EXCEPT ![Here] = opened[Here] - 1]
        /\ UNCHANGED <<threads, claims>> /\ pc \in {"detach", "claim"}
    BY <1>9 DEF DetachFails, Abandon, Break, Has, Loop, Inner, OnceKnown, PlaceKnown
  <2>2. opened = [a \in Addresses |-> IF a = path[1] THEN 1 ELSE 0] /\ path[1] \in Addresses
        /\ threads = 0 /\ claims = {}
    BY <2>1, HeldValues DEF HeldKnown
  <2>3. opened' = [a \in Addresses |-> 0]
    BY <2>1, <2>2
  <2> QED BY <2>1, <2>2, <2>3 DEF HeldKnown
<1>10. CASE Claim
  <2>1. Has /\ Has' /\ pc = "claim" /\ pc' = "start" /\ Here = path[1] /\ Here \in present
        /\ claims' = claims \cup {path} /\ UNCHANGED <<opened, threads, path, present>>
    BY <1>10 DEF Claim, Has, Loop, Inner, PlaceKnown, OnceKnown
  <2> QED BY <2>1 DEF HeldKnown
<1>11. CASE ClaimFails
  <2>1. ~Has' /\ Has /\ devs # <<>> /\ Here = path[1] /\ opened' = [opened EXCEPT ![Here] = opened[Here] - 1]
        /\ UNCHANGED <<threads, claims>> /\ pc \in {"detach", "claim"}
    BY <1>11 DEF ClaimFails, Abandon, Break, Has, Loop, Inner, OnceKnown, PlaceKnown
  <2>2. opened = [a \in Addresses |-> IF a = path[1] THEN 1 ELSE 0] /\ path[1] \in Addresses
        /\ threads = 0 /\ claims = {}
    BY <2>1, HeldValues DEF HeldKnown
  <2>3. opened' = [a \in Addresses |-> 0]
    BY <2>1, <2>2
  <2> QED BY <2>1, <2>2, <2>3 DEF HeldKnown
<1>12. CASE Start
  <2>1. Has /\ Has' /\ pc = "start" /\ pc' = "handle" /\ threads' = threads + 1
        /\ UNCHANGED <<opened, claims, path, present>>
    BY <1>12 DEF Start, Has, Loop, Inner, PlaceKnown
  <2> QED BY <2>1 DEF HeldKnown
<1>13. CASE Close
  <2>1. Has /\ ~Has' /\ pc = "inUse" /\ threads' = threads - 1
        /\ opened' = [opened EXCEPT ![path[1]] = opened[path[1]] - 1] /\ claims' = claims \ {path}
    BY <1>13 DEF Close, Has, Loop, Inner, PlaceKnown
  <2>2. opened = [a \in Addresses |-> IF a = path[1] THEN 1 ELSE 0] /\ path[1] \in Addresses
    BY <2>1, HeldValues DEF HeldKnown
  <2>3. opened' = [a \in Addresses |-> 0]
    BY <2>1, <2>2
  <2>4. threads' = 0 /\ claims' = {}
    BY <2>1 DEF HeldKnown
  <2> QED BY <2>1, <2>3, <2>4 DEF HeldKnown
<1>14. ASSUME NEW a \in Addresses, Plug(a) \/ Unplug(a) PROVE HeldKnown'
  <2>1. (Has' <=> Has) /\ UNCHANGED <<opened, threads, path, pc>>
    BY <1>14 DEF Plug, Unplug, Has
  <2>2. CASE Plug(a)
    <3>1. claims' = claims /\ present' = present \cup {a} /\ opened[a] = 0
      BY <2>2 DEF Plug
    <3>2. Has => a # path[1]
      BY <3>1, HeldValues
    <3> QED BY <2>1, <3>1, <3>2 DEF HeldKnown
  <2>3. CASE Unplug(a)
    <3>1. claims' = {p \in claims : p[1] # a} /\ present' = present \ {a}
      BY <2>3 DEF Unplug
    <3>2. CASE Has
      BY <2>1, <3>1, <3>2 DEF HeldKnown
    <3>3. CASE ~Has
      BY <2>1, <3>1, <3>3 DEF HeldKnown
    <3> QED BY <3>2, <3>3
  <2> QED BY <1>14, <2>2, <2>3
<1>15. CASE StartFails
  <2>1. Has /\ Has' /\ pc = "start" /\ pc' = "stuck"
        /\ UNCHANGED <<opened, threads, claims, path, present>>
    BY <1>15 DEF StartFails, Has, Loop, Inner, PlaceKnown
  <2> QED BY <2>1 DEF HeldKnown
<1>16. CASE UNCHANGED vars
  BY <1>16 DEF HeldKnown, Has
<1>17. QED
  BY <1>1, <1>2, <1>3, <1>4, <1>5, <1>6, <1>7, <1>8, <1>9, <1>10, <1>11, <1>12, <1>13, <1>14, <1>15, <1>16 DEF Next, Enumerate, OpenPath, Driver

LEMMA EnumStep == OpenInv /\ [Next]_vars => EnumKnown'
<1> SUFFICES ASSUME ListTypes, BusTypes, PlaceKnown, OnceKnown, EnumKnown, [Next]_vars PROVE EnumKnown'
  BY Types DEF OpenInv
<1> USE DEF vars, bus, scan, held, history
<1>1. CASE EnumList
  <2>1. Elements(devs') = present /\ listed' = present /\ missed' = {} /\ infos' = infos /\ infos = <<>>
    BY <1>1, OrdersList DEF EnumList, BusTypes, PlaceKnown, Goto
  <2>2. Elements(infos') = {} /\ DOMAIN infos' = {}
    BY <2>1, EmptySeq DEF Elements
  <2>3. Visited' = {}
    BY <2>1 DEF Visited
  <2> QED BY <2>1, <2>2, <2>3 DEF EnumKnown
<1>2. CASE EnumListFails
  <2>1. devs' = <<>> /\ listed' = {} /\ missed' = {} /\ infos' = <<>>
    BY <1>2 DEF EnumListFails, PlaceKnown, Goto, Loop, Inner
  <2>2. Elements(infos') = {} /\ DOMAIN infos' = {} /\ Elements(devs') = {}
    BY <2>1, EmptySeq DEF Elements
  <2>3. Visited' = {}
    BY <2>1 DEF Visited
  <2> QED BY <2>1, <2>2, <2>3 DEF EnumKnown
<1>3. CASE EnumSkip
  <2>1. /\ pc = "enumerate" /\ pc' = "enumerate" /\ devs # <<>> /\ devs \in Seq(Addresses)
        /\ Distinct(devs) /\ devs' = Tail(devs) /\ listed' = listed /\ infos \in Seq(Paths)
    BY <1>3 DEF EnumSkip, EnumNext, ListTypes, OnceKnown, Distinct
  <2>2. Elements(devs') = Elements(devs) \ {Here} /\ Here \in Elements(devs)
    BY <2>1, TailDistinct DEF Here
  <2>3. /\ Elements(devs) \subseteq listed /\ missed \cap Elements(devs) = {}
        /\ Elements(infos) = UNION {Elements(PathsOf(a)) : a \in Visited}
        /\ \A i, j \in DOMAIN infos : infos[i] = infos[j] => i = j
    BY <2>1 DEF EnumKnown
  <2>4. infos' = infos /\ missed' = missed /\ Here \notin PerInterface
    BY <1>3, <2>1, ConcatEmptySeq DEF EnumSkip, EnumNext
  <2>5. Visited' = Visited
    BY <2>1, <2>2, <2>4 DEF Visited
  <2> QED BY <2>2, <2>1, <2>3, <2>4, <2>5 DEF EnumKnown
<1>4. CASE EnumRead
  <2>1. /\ pc = "enumerate" /\ pc' = "enumerate" /\ devs # <<>> /\ devs \in Seq(Addresses)
        /\ Distinct(devs) /\ devs' = Tail(devs) /\ listed' = listed /\ infos \in Seq(Paths)
    BY <1>4 DEF EnumRead, EnumNext, ListTypes, OnceKnown, Distinct
  <2>2. Elements(devs') = Elements(devs) \ {Here} /\ Here \in Elements(devs)
    BY <2>1, TailDistinct DEF Here
  <2>3. /\ Elements(devs) \subseteq listed /\ missed \cap Elements(devs) = {}
        /\ Elements(infos) = UNION {Elements(PathsOf(a)) : a \in Visited}
        /\ \A i, j \in DOMAIN infos : infos[i] = infos[j] => i = j
    BY <2>1 DEF EnumKnown
  <2>4. missed' = missed /\ Here \in PerInterface /\ Here \in listed /\ Here \notin missed
    BY <1>4, <2>2, <2>3 DEF EnumRead
  <2>5. CASE Here \notin Lightpacks
    <3>1. infos' = infos
      BY <1>4, <2>1, <2>5, ConcatEmptySeq DEF EnumRead, EnumNext
    <3>2. Visited' = Visited
      BY <2>1, <2>2, <2>4, <2>5 DEF Visited
    <3> QED BY <2>1, <2>2, <2>3, <2>4, <3>1, <3>2 DEF EnumKnown
  <2>6. CASE Here \in Lightpacks
    <3>1. infos' = infos \o PathsOf(Here) /\ Here \in Addresses
      BY <1>4, <2>6, BusAssumption DEF EnumRead, EnumNext
    <3>2. /\ PathsOf(Here) \in Seq(Paths) /\ Distinct(PathsOf(Here))
          /\ \A p \in Elements(PathsOf(Here)) : p[1] = Here
      BY <3>1, PathsList
    <3>3. Visited' = Visited \cup {Here} /\ Here \notin Visited
      BY <2>1, <2>2, <2>4, <2>6 DEF Visited
    <3>4. \A a \in Visited : a \in Addresses
      BY BusAssumption DEF Visited
    <3>5. Elements(infos) \cap Elements(PathsOf(Here)) = {}
      <4>1. \A p \in Elements(infos) : p[1] \in Visited
        BY <2>3, <3>4, PathsList
      <4> QED BY <4>1, <3>2, <3>3
    <3>6. Distinct(infos)
      BY <2>3 DEF Distinct
    <3>7. /\ Elements(infos') = Elements(infos) \cup Elements(PathsOf(Here))
          /\ Distinct(infos')
      BY <2>1, <3>1, <3>2, <3>5, <3>6, ConcatDistinct
    <3>8. Elements(infos') = UNION {Elements(PathsOf(a)) : a \in Visited'}
      BY <2>3, <3>3, <3>7
    <3>9. Elements(devs') \subseteq listed' /\ missed' \cap Elements(devs') = {}
      BY <2>1, <2>2, <2>3, <2>4
    <3> QED BY <3>7, <3>8, <3>9 DEF EnumKnown, Distinct
  <2> QED BY <2>5, <2>6
<1>5. CASE EnumNoConfig
  <2>1. /\ pc = "enumerate" /\ pc' = "enumerate" /\ devs # <<>> /\ devs \in Seq(Addresses)
        /\ Distinct(devs) /\ devs' = Tail(devs) /\ listed' = listed /\ infos \in Seq(Paths)
    BY <1>5 DEF EnumNoConfig, EnumNext, ListTypes, OnceKnown, Distinct
  <2>2. Elements(devs') = Elements(devs) \ {Here} /\ Here \in Elements(devs)
    BY <2>1, TailDistinct DEF Here
  <2>3. /\ Elements(devs) \subseteq listed /\ missed \cap Elements(devs) = {}
        /\ Elements(infos) = UNION {Elements(PathsOf(a)) : a \in Visited}
        /\ \A i, j \in DOMAIN infos : infos[i] = infos[j] => i = j
    BY <2>1 DEF EnumKnown
  <2>4. infos' = infos /\ missed' = missed \cup {Here}
    BY <1>5, <2>1, ConcatEmptySeq DEF EnumNoConfig, EnumNext
  <2>5. Visited' = Visited
    BY <2>1, <2>2, <2>4 DEF Visited
  <2> QED BY <2>2, <2>1, <2>3, <2>4, <2>5 DEF EnumKnown
<1>6. CASE EnumEnd
  <2>1. pc = "enumerate" /\ UNCHANGED <<devs, infos, listed, missed>>
    BY <1>6 DEF EnumEnd, Goto
  <2>2. Visited' = Visited
    BY <2>1 DEF Visited
  <2> QED BY <2>1, <2>2 DEF EnumKnown
<1>7. CASE InitLibusb
  <2>1. pc' \notin {"enumerate", "path"}
    BY <1>7 DEF InitLibusb, Goto
  <2> QED BY <2>1 DEF EnumKnown
<1>8. CASE OpenList \/ OpenListFails \/ OpenConfig \/ OpenNoConfig
  <2>1. pc' \notin {"enumerate", "path"}
    BY <1>8 DEF OpenList, OpenListFails, OpenConfig, OpenNoConfig, Goto
  <2> QED BY <2>1 DEF EnumKnown
<1>9. CASE OpenHandle \/ OpenHandleFails \/ Detach \/ DetachFails \/ StartFails
  <2>1. pc' \notin {"enumerate", "path"}
    BY <1>9 DEF OpenHandle, OpenHandleFails, Break, Detach, DetachFails, Abandon, StartFails, Goto
  <2> QED BY <2>1 DEF EnumKnown
<1>10. CASE Claim \/ ClaimFails \/ Start \/ FreeConfig \/ OpenEnd
  <2>1. pc' \notin {"enumerate", "path"}
    BY <1>10 DEF Claim, ClaimFails, Abandon, Break, Start, FreeConfig, OpenEnd, Goto
  <2> QED BY <2>1 DEF EnumKnown
<1>11. CASE NoneFound \/ FirstPath \/ FreeInfos \/ Close
  <2>1. pc' \notin {"enumerate", "path"}
    BY <1>11 DEF NoneFound, FirstPath, FreeInfos, Close, Goto
  <2> QED BY <2>1 DEF EnumKnown
<1>12. ASSUME NEW a \in Addresses, Plug(a) \/ Unplug(a) PROVE EnumKnown'
  <2>1. UNCHANGED <<pc, devs, infos, listed, missed>>
    BY <1>12 DEF Plug, Unplug
  <2>2. Visited' = Visited
    BY <2>1 DEF Visited
  <2> QED BY <2>1, <2>2 DEF EnumKnown
<1>13. CASE UNCHANGED vars
  BY <1>13 DEF EnumKnown, Visited
<1>14. QED
  BY <1>1, <1>2, <1>3, <1>4, <1>5, <1>6, <1>7, <1>8, <1>9, <1>10, <1>11, <1>12, <1>13 DEF Next, Enumerate, OpenPath, Driver

LEMMA TypesStay ==
  FlagTypes' /\ BusTypes' /\ ListTypes' /\ PathKnown' /\ HeldKnown' => TypeOK'
<1>1. PathKnown' /\ HeldKnown' => HeldTypes'
  BY HeldTypesFollow, PTL
<1>2. FlagTypes' /\ BusTypes' /\ ListTypes' /\ HeldTypes' => TypeOK'
  BY Types, PTL
<1> QED BY <1>1, <1>2

LEMMA OpenInvariant == Spec => []OpenInv
<1>1. OpenInv /\ [Next]_vars => OpenInv'
  BY FlagsStep, BusStep, ListsStep, PlaceStep, PathStep, OnceStep, HeldStep, EnumStep,
     TypesStay DEF OpenInv
<1> QED BY InitInv, <1>1, PTL DEF Spec

--------------------------------------------------------------------------------
(* However the bus and its faults go, every variable keeps its type; in      *)
(* particular nothing is closed or joined that was not opened or started.    *)
THEOREM TypeCorrect == Spec => []TypeOK
<1>1. OpenInv => TypeOK
  BY DEF OpenInv
<1> QED BY <1>1, OpenInvariant, PTL

(* Open takes everything or leaves nothing, whichever call of libusb fails   *)
(* and whenever the device goes away.                                        *)
THEOREM AllOrNothingCorrect == Spec => []AllOrNothing
<1>1. OpenInv => AllOrNothing
  <2> SUFFICES ASSUME OpenInv, pc \in {"idle", "inUse"} PROVE
        /\ ~list /\ ~conf /\ infos = <<>>
        /\ threads = IF pc = "inUse" THEN 1 ELSE 0
        /\ \A a \in Addresses : opened[a] = IF pc = "inUse" /\ a = path[1] THEN 1 ELSE 0
        /\ claims = IF pc = "inUse" /\ path[1] \in present THEN {path} ELSE {}
    BY DEF AllOrNothing
  <2>1. ~list /\ ~conf /\ infos = <<>> /\ (Has <=> pc = "inUse")
    BY DEF OpenInv, PlaceKnown, Has, Loop, Inner
  <2>2. CASE pc = "inUse"
    BY <2>1, <2>2 DEF OpenInv, HeldKnown
  <2>3. CASE pc # "inUse"
    BY <2>1, <2>3 DEF OpenInv, HeldKnown
  <2> QED BY <2>1, <2>2, <2>3
<1> QED BY <1>1, OpenInvariant, PTL

(* Only Lightpacks are opened or claimed, and hid_enumerate lists every HID  *)
(* interface of each Lightpack it could read, once, and nothing else.        *)
THEOREM LightpacksCorrect == Spec => []LightpacksFound
<1>1. OpenInv => OnlyLightpacks
  <2> SUFFICES ASSUME OpenInv PROVE OnlyLightpacks
    OBVIOUS
  <2>1. HeldKnown /\ PathKnown
    BY DEF OpenInv
  <2>2. CASE Has
    BY <2>1, <2>2, HeldValues DEF OnlyLightpacks, HeldKnown, PathKnown
  <2>3. CASE ~Has
    BY <2>1, <2>3 DEF OnlyLightpacks, HeldKnown
  <2> QED BY <2>2, <2>3
<1>2. OpenInv => EnumeratesLightpacks
  <2> SUFFICES ASSUME OpenInv, pc = "path" PROVE
        /\ Elements(infos) = UNION {{PathsOf(a)[i] : i \in DOMAIN HidAlts[a]} :
                a \in (listed \ missed) \cap Lightpacks \cap PerInterface}
        /\ Cardinality(Elements(infos)) = Len(infos)
    BY DEF EnumeratesLightpacks, Elements
  <2>1. devs = <<>>
    BY DEF OpenInv, PlaceKnown, Loop, Inner
  <2>2. Elements(devs) = {}
    BY <2>1, EmptySeq DEF Elements
  <2>3. /\ Elements(infos) = UNION {Elements(PathsOf(a)) : a \in Visited}
        /\ \A i, j \in DOMAIN infos : infos[i] = infos[j] => i = j
    BY DEF OpenInv, EnumKnown
  <2>4. Visited = (listed \ missed) \cap Lightpacks \cap PerInterface
    BY <2>2 DEF Visited
  <2>5. \A a : Elements(PathsOf(a)) = {PathsOf(a)[i] : i \in DOMAIN HidAlts[a]}
    BY DEF Elements, PathsOf
  <2>6. infos \in Seq(Paths)
    BY DEF OpenInv, TypeOK
  <2>7. Cardinality(Elements(infos)) = Len(infos)
    BY <2>3, <2>6, DistinctCount DEF Distinct
  <2> QED BY <2>3, <2>4, <2>5, <2>7
<1>3. OpenInv => LightpacksFound
  BY <1>1, <1>2 DEF LightpacksFound
<1> QED BY <1>3, OpenInvariant, PTL
================================================================================
