--------------------------------- MODULE HidOpen ---------------------------------
(***************************************************************************)
(* How the Lightpack is found and opened: LedDriverLightpack::Open         *)
(* (ld-lightpack.cpp) with hid_enumerate, hid_open_path and                *)
(* hid_free_enumeration of hidapi (hidapi/linux/hid-libusb.c), again and   *)
(* again as the LED thread does, until hid_close.                          *)
(*                                                                         *)
(* libusb is external: every call of it may fail, as may pthread_create,   *)
(* and devices come and go between two calls.                              *)
(***************************************************************************)
EXTENDS Integers, Sequences, FiniteSets

CONSTANTS
  Addresses,      (* bus and address of a USB device; always the same device  *)
  Lightpacks,     (* those with the VID and PID asked for                     *)
  PerInterface,   (* those with bDeviceClass LIBUSB_CLASS_PER_INTERFACE       *)
  HidAlts,        (* of each device, bInterfaceNumber of its altsettings of   *)
                  (* class HID in the order they are visited; one for each    *)
                  (* interface, as of every HID device led-driver is for      *)
  MaxHandles,     (* bound: handles of one device open at a time              *)
  MaxFaults       (* bound: calls that fail although the device is there      *)

Paths == Addresses \X (0..9)    \* make_path
NoPath == <<>>

ASSUME BusAssumption ==
  /\ Lightpacks \subseteq Addresses /\ PerInterface \subseteq Addresses
  /\ IsFiniteSet(Addresses) /\ HidAlts \in [Addresses -> Seq(0..9)]
  /\ \A a \in Addresses : \A i, j \in DOMAIN HidAlts[a] :
       HidAlts[a][i] = HidAlts[a][j] => i = j
  /\ MaxHandles \in Nat /\ MaxFaults \in Nat

VARIABLES
  present,      (* the devices on the bus                                     *)
  faults,       (* the calls that failed                                      *)
  pc,           (* where Open is; "crashed" after undefined behaviour,        *)
                (* "stuck" in a barrier no other thread will come to          *)
  initialized,  (* libusb_init succeeded                                      *)
  devs,         (* what the loop has left of libusb_get_device_list           *)
  list,         (* that list is held                                          *)
  conf,         (* a config descriptor is held                                *)
  alts,         (* how many of its altsettings with the path are left         *)
  infos,        (* the list of hid_device_info, as paths                      *)
  path,         (* the argument of hid_open_path                              *)
  dev,          (* the hid_device: "none", "new", "open"                      *)
  good_open,
  threads,      (* read threads started and not joined                        *)
  opened,       (* libusb handles open, per device                            *)
  claims,       (* interfaces claimed                                         *)
  listed,       (* history: the list of the last hid_enumerate                *)
  missed        (* history: those whose config descriptor could not be read   *)

bus == <<present, faults>>
scan == <<devs, list, conf, alts>>
held == <<dev, good_open, threads, opened, claims>>
history == <<listed, missed>>
vars == <<bus, pc, initialized, scan, infos, path, held, history>>

Here == Head(devs)
Goto(from, to) == pc = from /\ pc' = to

(* a call fails: without a reason, or as its device is gone                  *)
Fault == faults < MaxFaults /\ faults' = faults + 1
FaultOrGone == Fault \/ (Here \notin present /\ UNCHANGED faults)

(* libusb_get_device_list: in any order                                      *)
Orders(S) == {s \in [1..Cardinality(S) -> S] : \A i, j \in DOMAIN s : s[i] = s[j] => i = j}
PathsOf(a) == [i \in DOMAIN HidAlts[a] |-> <<a, HidAlts[a][i]>>]

--------------------------------------------------------------------------------
(* hid_enumerate. *)

(* hid_init; its failure is ignored and libusb used without a context        *)
InitLibusb ==
  /\ pc = "idle" /\ ~initialized
  /\ \/ initialized' = TRUE /\ UNCHANGED <<faults, pc>>
     \/ Fault /\ pc' = "crashed" /\ UNCHANGED initialized
  /\ UNCHANGED <<present, scan, infos, path, held, history>>

EnumList ==
  /\ initialized
  /\ Goto("idle", "enumerate")
  /\ devs' \in Orders(present) /\ list' = TRUE
  /\ listed' = present /\ missed' = {}
  /\ UNCHANGED <<bus, initialized, conf, alts, infos, path, held>>

EnumListFails ==
  /\ initialized
  /\ Fault
  /\ Goto("idle", "path")
  /\ listed' = {} /\ missed' = {}
  /\ UNCHANGED <<present, initialized, scan, infos, path, held>>

EnumNext(found) ==
  /\ pc = "enumerate" /\ devs # <<>>
  /\ devs' = Tail(devs)
  /\ infos' = infos \o found
  /\ UNCHANGED <<present, pc, initialized, list, conf, alts, path, held, listed>>

(* One turn of the loop.  The config descriptor and the handle for the       *)
(* strings are given back in the same turn.                                  *)
EnumSkip ==
  /\ EnumNext(<<>>)
  /\ Here \notin PerInterface
  /\ UNCHANGED <<faults, missed>>

EnumRead ==
  /\ devs # <<>> /\ Here \in PerInterface
  /\ EnumNext(IF Here \in Lightpacks THEN PathsOf(Here) ELSE <<>>)
  /\ UNCHANGED <<faults, missed>>

EnumNoConfig ==
  /\ EnumNext(<<>>)
  /\ Here \in PerInterface
  /\ FaultOrGone
  /\ missed' = missed \cup {Here}

EnumEnd ==
  /\ Goto("enumerate", "path") /\ devs = <<>>
  /\ list' = FALSE
  /\ UNCHANGED <<bus, initialized, devs, conf, alts, infos, path, held, history>>

--------------------------------------------------------------------------------
(* LedDriverLightpack::Open: the first path, and no other. *)

NoneFound ==
  /\ infos = <<>>
  /\ Goto("path", "freeInfos")
  /\ UNCHANGED <<bus, initialized, scan, infos, path, held, history>>

(* bug variant: the path of the first attempt is kept                        *)
FirstPathKept ==
  /\ infos # <<>>
  /\ Goto("path", "list")
  /\ path' = IF path = NoPath THEN Head(infos) ELSE path
  /\ dev' = "new" /\ good_open' = FALSE
  /\ UNCHANGED <<bus, initialized, scan, infos, threads, opened, claims, history>>

FirstPath ==
  /\ infos # <<>>
  /\ Goto("path", "list")
  /\ path' = Head(infos)
  /\ dev' = "new" /\ good_open' = FALSE
  /\ UNCHANGED <<bus, initialized, scan, infos, threads, opened, claims, history>>

--------------------------------------------------------------------------------
(* hid_open_path. *)

OpenList ==
  /\ Goto("list", "device")
  /\ devs' \in Orders(present) /\ list' = TRUE
  /\ UNCHANGED <<bus, initialized, conf, alts, infos, path, held, history>>

(* num_devs is not looked at, and devs was never assigned                    *)
OpenListFails ==
  /\ Goto("list", "crashed")
  /\ Fault
  /\ UNCHANGED <<present, initialized, scan, infos, path, held, history>>

(* bug variant: the interface number alone is compared                       *)
MatchInterface(a) == Cardinality({i \in DOMAIN HidAlts[a] : HidAlts[a][i] = path[2]})

(* how many altsettings have the path to open                                *)
Matching(a) == Cardinality({i \in DOMAIN HidAlts[a] : <<a, HidAlts[a][i]>> = path})

OpenConfig ==
  /\ devs # <<>>
  /\ Goto("device", "handle")
  /\ conf' = TRUE /\ alts' = Matching(Here)
  /\ UNCHANGED <<bus, initialized, devs, list, infos, path, held, history>>

OpenNoConfig ==
  /\ pc = "device" /\ devs # <<>>
  /\ FaultOrGone
  /\ devs' = Tail(devs)
  /\ UNCHANGED <<present, pc, initialized, list, conf, alts, infos, path, held, history>>

Break == pc' = "handle" /\ alts' = 0
(* libusb_close, on an error after libusb_open                               *)
Abandon ==
  /\ Break
  /\ good_open' = FALSE
  /\ opened' = [opened EXCEPT ![Here] = @ - 1]

OpenHandle ==
  /\ Goto("handle", "detach")
  /\ alts > 0 /\ Here \in present /\ opened[Here] < MaxHandles
  /\ opened' = [opened EXCEPT ![Here] = @ + 1]
  /\ good_open' = TRUE
  /\ UNCHANGED <<bus, initialized, scan, infos, path, dev, threads, claims, history>>

(* bug variant: a handle that was not opened is closed                       *)
OpenHandleFailsClosing ==
  /\ pc = "handle" /\ alts > 0
  /\ FaultOrGone
  /\ Abandon
  /\ UNCHANGED <<present, initialized, devs, list, conf, infos, path, dev, threads, claims,
                 history>>

OpenHandleFails ==
  /\ pc = "handle" /\ alts > 0
  /\ FaultOrGone
  /\ Break
  /\ UNCHANGED <<present, initialized, devs, list, conf, infos, path, held, history>>

(* the kernel driver is not active, or is detached                           *)
Detach ==
  /\ Goto("detach", "claim")
  /\ UNCHANGED <<bus, initialized, scan, infos, path, held, history>>

DetachFails ==
  /\ pc = "detach"
  /\ FaultOrGone
  /\ Abandon
  /\ UNCHANGED <<present, initialized, devs, list, conf, infos, path, dev, threads, claims,
                 history>>

Claim ==
  /\ Goto("claim", "start")
  /\ Here \in present /\ path \notin claims
  /\ claims' = claims \cup {path}
  /\ UNCHANGED <<bus, initialized, scan, infos, path, dev, good_open, threads, opened,
                 history>>

(* bug variant: the handle stays open                                        *)
ClaimFailsKeepingHandle ==
  /\ pc = "claim"
  /\ FaultOrGone
  /\ Break /\ good_open' = FALSE
  /\ UNCHANGED <<present, initialized, devs, list, conf, infos, path, dev, threads, opened,
                 claims, history>>

ClaimFails ==
  /\ pc = "claim"
  /\ FaultOrGone
  /\ Abandon
  /\ UNCHANGED <<present, initialized, devs, list, conf, infos, path, dev, threads, claims,
                 history>>

(* the endpoints, pthread_create, the barrier                                *)
Start ==
  /\ Goto("start", "handle")
  /\ threads' = threads + 1
  /\ alts' = alts - 1
  /\ UNCHANGED <<bus, initialized, devs, list, conf, infos, path, dev, good_open, opened,
                 claims, history>>

(* the result of pthread_create is ignored: nobody else comes to the barrier *)
StartFails ==
  /\ Goto("start", "stuck")
  /\ Fault
  /\ UNCHANGED <<present, initialized, scan, infos, path, held, history>>

FreeConfig ==
  /\ alts = 0
  /\ Goto("handle", "device")
  /\ conf' = FALSE /\ devs' = Tail(devs)
  /\ UNCHANGED <<bus, initialized, list, alts, infos, path, held, history>>

OpenEnd ==
  /\ devs = <<>>
  /\ Goto("device", "freeInfos")
  /\ list' = FALSE
  /\ dev' = IF good_open THEN "open" ELSE "none"
  /\ UNCHANGED <<bus, initialized, devs, conf, alts, infos, path, good_open, threads,
                 opened, claims, history>>

--------------------------------------------------------------------------------
(* The end of LedDriverLightpack::Open, and its callers. *)

(* hid_free_enumeration; without a device Open throws, and OpenDevices tries *)
(* again later                                                               *)
FreeInfos ==
  /\ pc = "freeInfos"
  /\ pc' = IF dev = "open" THEN "inUse" ELSE "idle"
  /\ infos' = <<>>
  /\ UNCHANGED <<bus, initialized, scan, path, held, history>>

(* hid_close, when the driver is deleted                                     *)
Close ==
  /\ Goto("inUse", "idle")
  /\ dev' = "none"
  /\ threads' = threads - 1
  /\ opened' = [opened EXCEPT ![path[1]] = @ - 1]
  /\ claims' = claims \ {path}
  /\ UNCHANGED <<bus, initialized, scan, infos, path, good_open, history>>

--------------------------------------------------------------------------------
(* The bus. *)

(* not under an address whose last device is still held                      *)
Plug(a) ==
  /\ opened[a] = 0 /\ \A i \in DOMAIN devs : devs[i] # a
  /\ a \notin present /\ present' = present \cup {a}
  /\ UNCHANGED <<faults, pc, initialized, scan, infos, path, held, history>>

(* a handle of it stays open, its claims are gone                            *)
Unplug(a) ==
  /\ a \in present /\ present' = present \ {a}
  /\ claims' = {p \in claims : p[1] # a}
  /\ UNCHANGED <<faults, pc, initialized, scan, infos, path, dev, good_open, threads,
                 opened, history>>

--------------------------------------------------------------------------------
Init ==
  /\ present \in SUBSET Addresses /\ faults = 0
  /\ pc = "idle" /\ initialized = FALSE
  /\ devs = <<>> /\ list = FALSE /\ conf = FALSE /\ alts = 0
  /\ infos = <<>> /\ path = NoPath
  /\ dev = "none" /\ good_open = FALSE /\ threads = 0
  /\ opened = [a \in Addresses |-> 0] /\ claims = {}
  /\ listed = {} /\ missed = {}

Enumerate == InitLibusb \/ EnumList \/ EnumListFails \/ EnumSkip \/ EnumRead
                        \/ EnumNoConfig \/ EnumEnd
OpenPath == OpenList \/ OpenListFails \/ OpenConfig \/ OpenNoConfig
              \/ OpenHandle \/ OpenHandleFails \/ Detach \/ DetachFails
              \/ Claim \/ ClaimFails \/ Start \/ StartFails \/ FreeConfig \/ OpenEnd
Driver == NoneFound \/ FirstPath \/ FreeInfos

Next == Enumerate \/ OpenPath \/ Driver \/ Close \/ (\E a \in Addresses : Plug(a) \/ Unplug(a))

Spec == Init /\ [][Next]_vars

(* The LED thread goes on trying.                                            *)
Fairness == WF_vars(Enumerate \/ OpenPath \/ Driver)

FairSpec == Spec /\ Fairness

--------------------------------------------------------------------------------
(* Properties. *)

TypeOK ==
  /\ present \subseteq Addresses /\ faults \in 0..MaxFaults /\ initialized \in BOOLEAN
  /\ pc \in {"idle", "enumerate", "path", "list", "device", "handle", "detach", "claim",
             "start", "freeInfos", "inUse", "crashed", "stuck"}
  /\ devs \in Seq(Addresses) /\ Len(devs) <= Cardinality(Addresses)
  /\ list \in BOOLEAN /\ conf \in BOOLEAN
  /\ alts \in Nat /\ infos \in Seq(Paths) /\ path \in Paths \cup {NoPath}
  /\ dev \in {"none", "new", "open"} /\ good_open \in BOOLEAN /\ threads \in 0..MaxHandles
  /\ opened \in [Addresses -> 0..MaxHandles] /\ claims \subseteq Paths
  /\ listed \subseteq Addresses /\ missed \subseteq Addresses

(* Whatever fails and wherever, Open takes everything or leaves nothing: a   *)
(* driver in use has one handle, one read thread and the interface if it is  *)
(* still there, one that could not open has none of them, and in both cases  *)
(* every list and descriptor was given back.                                 *)
AllOrNothing ==
  pc \in {"idle", "inUse"} =>
    /\ ~list /\ ~conf /\ infos = <<>>
    /\ threads = IF pc = "inUse" THEN 1 ELSE 0
    /\ \A a \in Addresses : opened[a] = IF pc = "inUse" /\ a = path[1] THEN 1 ELSE 0
    /\ claims = IF pc = "inUse" /\ path[1] \in present THEN {path} ELSE {}

(* No device is opened or claimed but a Lightpack on the path that was       *)
(* listed, although hid_open_path looks at the path alone.                   *)
OnlyLightpacks ==
  /\ \A a \in Addresses : opened[a] > 0 => a \in Lightpacks /\ a = path[1]
  /\ claims \subseteq {path}

(* hid_enumerate lists every HID interface of every Lightpack that was there *)
(* and could be read, once, and nothing else.                                *)
EnumeratesLightpacks ==
  pc = "path" =>
    /\ {infos[i] : i \in DOMAIN infos} =
         UNION {{PathsOf(a)[i] : i \in DOMAIN HidAlts[a]} :
                a \in (listed \ missed) \cap Lightpacks \cap PerInterface}
    /\ Cardinality({infos[i] : i \in DOMAIN infos}) = Len(infos)

(* The Lightpacks there are found, and nothing else is taken for one.        *)
LightpacksFound == OnlyLightpacks /\ EnumeratesLightpacks

(* A Lightpack that stays is tried again and again until it is in use,       *)
(* wherever attempts failed and whatever else comes and goes on the bus,     *)
(* unless an attempt crashes or hangs for want of a read thread.             *)
LightpackOpened ==
  \A a \in Lightpacks :
    <>[](present \cap Lightpacks = {a}) => []<>(pc \in {"inUse", "crashed", "stuck"})
================================================================================
