-------------------------------- MODULE LedServer --------------------------------
(***************************************************************************)
(* The main thread of led-server (led-server.cpp) and its UDP socket       *)
(* (lib-socket.cpp): start-up, the sigwaitinfo loop, process_request.  The *)
(* LED thread is what LedServerThread was shown to be, LedService, and a   *)
(* thread that has a device or not and exits after Terminate().            *)
(*                                                                         *)
(* Signals follow Linux: a signal sent to the process goes to the main     *)
(* thread when it accepts it, else to the LED thread, which was created    *)
(* before signals were blocked and has every default action, here death of *)
(* the process; SIGIO is not queued, a second one is merged with a pending *)
(* first.                                                                  *)
(***************************************************************************)
EXTENDS LedNetwork

CONSTANTS
  StopSignals   (* the signals other than SIGIO someone sends                 *)

(* signals that end main's loop; SIGIO does not                              *)
ASSUME SignalAssumption == StopSignals \subseteq {"SIGHUP", "SIGINT", "SIGUSR1", "SIGTERM"}

VARIABLES
  main,         (* where the main thread is                                   *)
  ledThread,    (* "none" | "running" | "exited"                              *)
  device,       (* the LED thread has opened a Lightpack                      *)
  terminate,
  inbox,        (* the socket's receive buffer                                *)
  pending,      (* signals pending for the process                            *)
  peer,         (* peer_addr                                                  *)
  pkt,          (* process_request's packet                                   *)
  listed,       (* names listed so far                                        *)
  queue,        (* what PushOperation accepted and the LED thread did not do  *)
  playing,      (* the alert it is playing                                    *)
  mood,         (* its mood light                                             *)
  (* history *)
  calls,        (* the calls of PushOperation, whether each one was queued    *)
  arrived,      (* datagrams that reached the socket                          *)
  silent,       (* those that raised no SIGIO of their own                    *)
  stoppedBy     (* the signal that ended the loop, or killed the process      *)

serverVars == <<main, ledThread, device, terminate, inbox, pending, peer, pkt, listed,
                queue, playing, mood, calls, arrived, silent, stoppedBy>>
serviceVars == <<queue, playing, mood>>
ledVars == <<ledThread, device, serviceVars>>
requestVars == <<peer, pkt, listed>>
history == <<calls, arrived, silent, stoppedBy>>

(* The LED thread, as LedServerThreadProofs shows LedServerThread to be.     *)
Service == INSTANCE LedService WITH pending <- queue, open <- ~terminate

ServerInit ==
  /\ main = "start" /\ ledThread = "none" /\ device = FALSE /\ terminate = FALSE
  /\ inbox = <<>> /\ pending = {} /\ peer = Stray /\ pkt = NoPacket /\ listed = 0
  /\ Service!Init
  /\ calls = <<>> /\ arrived = <<>> /\ silent = 0 /\ stoppedBy = "none"

Step(from, to) == main = from /\ main' = to

--------------------------------------------------------------------------------
(* Start-up. *)

(* daemon() and pthread_create; main returns 1 when one of them fails        *)
CreateThread ==
  /\ \/ Step("start", "socket") /\ ledThread' = "running"
     \/ Step("start", "done") /\ UNCHANGED ledThread
  /\ UNCHANGED <<device, terminate, inbox, pending, requestVars, history, netVars,
                 serviceVars>>

(* libSocketServer up to bind(); nobody catches its exception                *)
Bind ==
  /\ \/ Step("socket", "bound")
     \/ Step("socket", "dead")
  /\ UNCHANGED <<ledVars, terminate, inbox, pending, requestVars, history, netVars>>

(* fcntl(F_SETOWN), fcntl(F_SETFL, FASYNC): SIGIO from here on               *)
EnableAsync ==
  /\ Step("bound", "async")
  /\ UNCHANGED <<ledVars, terminate, inbox, pending, requestVars, history, netVars>>

(* pthread_sigmask: the main thread blocks what it will wait for             *)
BlockSignals ==
  /\ Step("async", "wait")
  /\ UNCHANGED <<ledVars, terminate, inbox, pending, requestVars, history, netVars>>

--------------------------------------------------------------------------------
(* Signals. *)

Blocked == main \notin {"start", "socket", "bound", "async"}
Ended == main \in {"done", "dead"}

(* A thread other than main that blocks nothing: the LED thread, or the read *)
(* thread hidapi started from it, which may still be there after it.         *)
OtherThread == ledThread = "running" \/ device

(* The signal stays pending for sigwaitinfo, or its default action is taken  *)
(* in a thread that does not block it and ends the process.                  *)
Die(signal) == main' = "dead" /\ stoppedBy' = signal
Raise(signal) ==
  \/ /\ main = "wait" \/ (Blocked /\ ledThread # "running")
     /\ pending' = pending \cup {signal}
     /\ UNCHANGED <<main, stoppedBy>>
  \/ /\ main # "wait" /\ (~Blocked \/ OtherThread)
     /\ Die(signal)
     /\ UNCHANGED pending

(* What sigwaitinfo leaves pending goes to the other thread as soon as main  *)
(* is out of it.                                                             *)
PendingKills ==
  /\ ~Ended /\ main # "wait" /\ OtherThread
  /\ \E signal \in pending : Die(signal)
  /\ UNCHANGED <<ledVars, terminate, inbox, pending, requestVars, calls, arrived,
                 silent, netVars>>

Kill(signal) ==
  /\ ~Ended
  /\ signal \in StopSignals
  /\ Raise(signal)
  /\ UNCHANGED <<ledVars, terminate, inbox, requestVars, calls, arrived, silent,
                 netVars>>

(* A datagram reaches the socket and raises SIGIO once FASYNC is set.        *)
HasSocket == main \notin {"start", "socket", "done", "dead"}
Arrive(d) ==
  /\ HasSocket
  /\ inbox' = Append(inbox, d)
  /\ arrived' = Append(arrived, d)
  /\ IF main = "bound" \/ "SIGIO" \in pending
     THEN silent' = silent + 1 /\ UNCHANGED <<main, pending, stoppedBy>>
     ELSE Raise("SIGIO") /\ UNCHANGED silent
  /\ UNCHANGED <<ledVars, terminate, requestVars, calls>>

(* sigwaitinfo hands out pending signals in the order of their numbers       *)
Number(signal) ==
  CASE signal = "SIGHUP" -> 1 [] signal = "SIGINT" -> 2 [] signal = "SIGUSR1" -> 10
    [] signal = "SIGTERM" -> 15 [] signal = "SIGIO" -> 29
First(signal) == signal \in pending /\ \A s \in pending : Number(signal) <= Number(s)

(* bug variant: the loop ends without Terminate()                            *)
WaitStopSilently ==
  \E signal \in StopSignals :
    /\ First(signal)
    /\ Step("wait", "join")
    /\ pending' = pending \ {signal}
    /\ stoppedBy' = signal
    /\ UNCHANGED <<ledVars, terminate, inbox, requestVars, calls, arrived, silent,
                   netVars>>

WaitStop ==
  \E signal \in StopSignals :
    /\ First(signal)
    /\ Step("wait", "join")
    /\ terminate' = TRUE
    /\ Service!Close
    /\ pending' = pending \ {signal}
    /\ stoppedBy' = signal
    /\ UNCHANGED <<ledThread, device, inbox, requestVars, calls, arrived, silent,
                   netVars>>

(* bug variant: SIGIO is taken but nothing is read                           *)
WaitIOIgnored ==
  /\ First("SIGIO")
  /\ Step("wait", "wait")
  /\ pending' = pending \ {"SIGIO"}
  /\ UNCHANGED <<ledVars, terminate, inbox, requestVars, history, netVars>>

WaitIO ==
  /\ First("SIGIO")
  /\ Step("wait", "read")
  /\ pending' = pending \ {"SIGIO"}
  /\ UNCHANGED <<ledVars, terminate, inbox, requestVars, history, netVars>>

(* sigwaitinfo returns -1 (EINTR after a stop and a continue): the loop ends *)
(* without Terminate()                                                       *)
WaitFails ==
  /\ pending = {}
  /\ Step("wait", "join")
  /\ UNCHANGED <<ledVars, terminate, inbox, pending, requestVars, history, netVars>>

--------------------------------------------------------------------------------
(* process_request. *)

(* bug variants: peer_addr of the newest datagram; the newest datagram first *)
ReadFrom(d, sender, rest) ==
  /\ main = "read" /\ inbox # <<>>
  /\ inbox' = rest
  /\ \/ d.kind = "corrupt" /\ UNCHANGED <<main, peer, pkt>>
     \/ d.kind = "short"   /\ main' = "reply" /\ peer' = sender /\ pkt' = d.packet
     \/ d.kind = "full"    /\ main' = "act"   /\ peer' = sender /\ pkt' = d.packet
  /\ UNCHANGED <<ledVars, terminate, pending, listed, history, netVars>>
ReadLastPeer == ReadFrom(Head(inbox), inbox[Len(inbox)].from, Tail(inbox))
ReadNewest   ==
  ReadFrom(inbox[Len(inbox)], inbox[Len(inbox)].from, SubSeq(inbox, 1, Len(inbox) - 1))

(* Read: recvfrom skips a datagram with a wrong checksum and waits for       *)
(* another; a datagram that is not LSPKT_MAX_LENGTH long is only echoed.     *)
Read ==
  /\ main = "read" /\ inbox # <<>>
  /\ inbox' = Tail(inbox)
  /\ LET d == Head(inbox) IN
       \/ d.kind = "corrupt" /\ UNCHANGED <<main, peer, pkt>>
       \/ d.kind = "short"   /\ main' = "reply" /\ peer' = d.from /\ pkt' = d.packet
       \/ d.kind = "full"    /\ main' = "act"   /\ peer' = d.from /\ pkt' = d.packet
  /\ UNCHANGED <<ledVars, terminate, pending, listed, history, netVars>>

(* SO_RCVTIMEO: one second without a datagram                                *)
ReadTimesOut ==
  /\ inbox = <<>>
  /\ Step("read", "wait")
  /\ UNCHANGED <<ledVars, terminate, inbox, pending, requestVars, history, netVars>>

(* PushOperation, which drops the operation when there is no device          *)
Push(request) ==
  IF device THEN Service!Submit(Operation(Len(calls) + 1, request))
            ELSE UNCHANGED serviceVars
Request ==
  [opcode |-> pkt.opcode, param |-> IF pkt.opcode = "SET_LEDS_OFF" THEN NoName ELSE pkt.data]
Called == Append(calls, [from |-> peer, opcode |-> pkt.opcode,
                         param |-> pkt.data, queued |-> device])

(* bug variant: PushOperation is not called when there is no device          *)
ActSetChecked ==
  /\ pkt.opcode \in SetOpcodes
  /\ Step("act", "reply")
  /\ UNCHANGED <<ledThread, device, terminate, inbox, pending, peer, listed, arrived,
                 silent, stoppedBy, netVars>>
  /\ pkt' = [pkt EXCEPT !.opcode = "OK"]
  /\ Push(Request)
  /\ calls' = IF device THEN Called ELSE calls

(* bug variant: the operation is queued before those that wait               *)
ActSetFirst ==
  /\ pkt.opcode \in SetOpcodes
  /\ Step("act", "reply")
  /\ UNCHANGED <<ledThread, device, terminate, inbox, pending, peer, listed, playing,
                 mood, arrived, silent, stoppedBy, netVars>>
  /\ pkt' = [pkt EXCEPT !.opcode = "OK"]
  /\ queue' = IF device THEN <<Operation(Len(calls) + 1, Request)>> \o queue ELSE queue
  /\ calls' = Called

(* PushOperation's answer is not asked for: the packet says OK anyway        *)
ActSet ==
  /\ pkt.opcode \in SetOpcodes
  /\ Step("act", "reply")
  /\ UNCHANGED <<ledThread, device, terminate, inbox, pending, peer, listed, arrived,
                 silent, stoppedBy, netVars>>
  /\ pkt' = [pkt EXCEPT !.opcode = "OK"]
  /\ Push(Request)
  /\ calls' = Called

ActList ==
  /\ pkt.opcode \in ListOpcodes
  /\ Step("act", "list")
  /\ listed' = 0
  /\ UNCHANGED <<ledVars, terminate, inbox, pending, peer, pkt, history, netVars>>

ActUnknown ==
  /\ pkt.opcode \notin SetOpcodes \cup ListOpcodes
  /\ Step("act", "reply")
  /\ pkt' = [pkt EXCEPT !.opcode = "ERROR"]
  /\ UNCHANGED <<ledVars, terminate, inbox, pending, peer, listed, history, netVars>>

(* bug variant: one name too many                                            *)
ListNamePastEnd ==
  /\ main = "list" /\ listed <= ListLength
  /\ SendToClient(peer, Packet(pkt.opcode, Entry[listed + 1]))
  /\ listed' = listed + 1
  /\ UNCHANGED <<ledVars, main, pkt, terminate, inbox, pending, peer, history, toServer,
                 sockets, duplicates, strays>>

(* Write of one name; the loop ends early when sendto fails                  *)
ListName ==
  /\ main = "list" /\ listed < ListLength
  /\ \/ /\ SendToClient(peer, Packet(pkt.opcode, Entry[listed + 1]))
        /\ listed' = listed + 1
        /\ UNCHANGED <<main, pkt>>
     \/ /\ main' = "reply"
        /\ pkt' = Packet("EOF", NoName)
        /\ UNCHANGED <<toClient, listed>>
  /\ UNCHANGED <<ledVars, terminate, inbox, pending, peer, history, toServer, sockets,
                 duplicates, strays>>

ListEnd ==
  /\ listed = ListLength
  /\ Step("list", "reply")
  /\ pkt' = Packet("EOF", NoName)
  /\ UNCHANGED <<ledVars, terminate, inbox, pending, peer, listed, history, netVars>>

(* the Write at the end; its result is ignored                               *)
Reply ==
  /\ Step("reply", "wait")
  /\ SendToClient(peer, pkt) \/ UNCHANGED toClient
  /\ pkt' = NoPacket
  /\ UNCHANGED <<ledVars, terminate, inbox, pending, peer, listed, history, toServer,
                 sockets, duplicates, strays>>

(* pthread_join                                                              *)
Join ==
  /\ ledThread = "exited"
  /\ Step("join", "done")
  /\ UNCHANGED <<ledVars, terminate, inbox, pending, requestVars, history, netVars>>

ServerStep ==
  \/ CreateThread \/ Bind \/ EnableAsync \/ BlockSignals
  \/ WaitStop \/ WaitIO \/ Read \/ ReadTimesOut
  \/ ActSet \/ ActList \/ ActUnknown \/ ListName \/ ListEnd \/ Reply \/ Join

--------------------------------------------------------------------------------
(* The LED thread, as LedServerThread shows it to process_request. *)

OpensDevice ==
  /\ ledThread = "running" /\ ~Ended /\ ~device
  /\ device' = TRUE
  /\ UNCHANGED <<main, ledThread, terminate, inbox, pending, requestVars, history,
                 netVars, serviceVars>>

(* it carries out an operation, or ends an alert                             *)
LedWorks(step) ==
  /\ ledThread = "running" /\ ~Ended
  /\ UNCHANGED <<main, ledThread, device, terminate, inbox, pending, requestVars,
                 history, netVars>>
  /\ step
LedApplies == LedWorks(Service!Apply)
(* bug variant: the alert is never cleared                                   *)
LedEndsAlertNever == FALSE
LedEndsAlert == LedWorks(Service!AlertEnds)

(* pthread_exit; what is queued stays undone                                 *)
LedExits ==
  /\ ledThread = "running" /\ ~Ended /\ terminate
  /\ ledThread' = "exited"
  /\ UNCHANGED <<main, device, terminate, inbox, pending, requestVars, history, netVars,
                 serviceVars>>
================================================================================
