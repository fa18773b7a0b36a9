-------------------------------- MODULE LedSystem --------------------------------
(***************************************************************************)
(* led-server and several runs of led-ctrl over UDP.                       *)
(***************************************************************************)
EXTENDS LedServer, LedCtrl, FiniteSetsExt

vars == <<netVars, serverVars, ctrlVars>>

Init == NetInit /\ ServerInit /\ CtrlInit

(* The network hands a datagram to the server's socket, or to nobody.        *)
Receive ==
  \E d \in BagToSet(toServer) :
    /\ toServer' = toServer (-) One(d)
    /\ Arrive(d)
    /\ UNCHANGED <<toClient, sockets, duplicates, strays>>

Main    == ServerStep /\ UNCHANGED ctrlVars
Signals == ((\E s \in StopSignals : Kill(s)) \/ PendingKills \/ WaitFails) /\ UNCHANGED ctrlVars
LedThread == (OpensDevice \/ LedApplies \/ LedEndsAlert \/ LedExits) /\ UNCHANGED ctrlVars
Control == (\E c \in Clients : CtrlStep(c)) /\ UNCHANGED serverVars
Network ==
  \/ Receive /\ UNCHANGED ctrlVars
  \/ (Lose \/ Duplicate \/ SendStray) /\ UNCHANGED <<serverVars, ctrlVars>>

Next == Main \/ Signals \/ LedThread \/ Control \/ Network

Spec == Init /\ [][Next]_vars

(* The scheduler runs both threads of the server.  Nothing makes a client    *)
(* start, a datagram arrive or a signal come.                                *)
Fairness == WF_vars(Main) /\ WF_vars(LedExits /\ UNCHANGED ctrlVars)
                          /\ WF_vars(PendingKills /\ UNCHANGED ctrlVars)
(* What the LED thread promises, LedService!FairSpec: LedServerThread keeps  *)
(* it under the fairness of its own module.                                  *)
ServiceFairness == WF_vars(~terminate /\ LedApplies /\ UNCHANGED ctrlVars)
                /\ WF_vars(~terminate /\ LedEndsAlert /\ UNCHANGED ctrlVars)
FairSpec == Spec /\ Fairness /\ ServiceFairness

--------------------------------------------------------------------------------
(* Properties. *)

TypeOK ==
  /\ NetTypeOK
  /\ main \in {"start", "socket", "bound", "async", "wait", "read", "act", "list", "reply",
              "join", "done", "dead"}
  /\ ledThread \in {"none", "running", "exited"}
  /\ device \in BOOLEAN /\ terminate \in BOOLEAN
  /\ pending \subseteq StopSignals \cup {"SIGIO"}
  /\ peer \in Clients \cup {Stray} /\ listed \in 0..ListLength
  /\ pkt \in Commands \cup Replies \cup {NoPacket}
  /\ Len(inbox) <= Len(arrived) /\ silent \in 0..Len(arrived)
  /\ \A i \in 1..Len(queue) :
       \E id \in 1..Len(calls), r \in Requests : queue[i] = Operation(id, r)
  /\ playing \in AlertNames \cup {NoName} /\ mood \in MoodNames \cup {NoName}
  /\ stoppedBy \in StopSignals \cup {"none", "SIGIO"}
  /\ sent \in [Clients -> Commands \cup {NoPacket}]
  /\ result \in [Clients -> Results]
  /\ \A c \in Clients : \A i \in 1..Len(printed[c]) : printed[c][i] \in Replies

(* peer_addr is read into by one datagram and used for all its answers: what *)
(* is on its way to a client answers the command that client sent.           *)
Answers(packet, command) ==
  CASE packet.opcode = "OK"        -> command.opcode \in SetOpcodes
    [] packet.opcode = "EOF"       -> command.opcode \in ListOpcodes
    [] packet.opcode = "ERROR"     -> FALSE
    [] packet.opcode \in ListOpcodes -> packet.opcode = command.opcode
AnswersAreMine ==
  \A c \in Clients : \A p \in BagToSet(toClient[c]) : Answers(p, sent[c])

(* "Operation successful." (led-ctrl.cpp): a client that was told OK has had *)
(* its own operation and name handed to PushOperation.                       *)
SuccessMeansCalled ==
  \A c \in Clients : result[c] = "ok" =>
    \E i \in 1..Len(calls) :
      /\ calls[i].from = c
      /\ calls[i].opcode = sent[c].opcode /\ calls[i].param = sent[c].data

(* A client that gives up after a timeout may still be served, but no client *)
(* is served twice unless the network duplicated a datagram.                 *)
ServedOnce ==
  \A c \in Clients :
    Cardinality({i \in 1..Len(calls) : calls[i].from = c}) <= 1 + duplicates

(* PushOperation is called for the operations in the order their datagrams   *)
(* reached the socket, whatever was merged, timed out or ignored between.    *)
Taken == SubSeq(arrived, 1, Len(arrived) - Len(inbox))
IsSet(d) == d.kind = "full" /\ d.packet.opcode \in SetOpcodes
Sets(s) ==
  LET sets[n \in 0..Len(s)] ==
        IF n = 0 THEN <<>>
        ELSE IF IsSet(s[n]) THEN Append(sets[n - 1], s[n]) ELSE sets[n - 1]
  IN  sets[Len(s)]
CallsInArrivalOrder ==
  /\ Len(calls) <= Len(Sets(Taken))
  /\ main \notin {"act", "dead"} => Len(calls) = Len(Sets(Taken))
  /\ \A i \in 1..Len(calls) :
       LET d == Sets(Taken)[i] IN
         calls[i].from = d.from /\ calls[i].opcode = d.packet.opcode
                                /\ calls[i].param = d.packet.data

ServedOnceInOrder == ServedOnce /\ CallsInArrivalOrder

(* One SIGIO is one datagram read: the socket holds no more datagrams than   *)
(* there are signals for them, plus those whose signal was merged with a     *)
(* pending one or that came before FASYNC was set.                           *)
BacklogIsSilent ==
  ~Ended => Len(inbox) <= silent + (IF "SIGIO" \in pending THEN 1 ELSE 0)
                                 + (IF main = "read" THEN 1 ELSE 0)

(* End to end: when nothing is left to do, the lamp shows the mood of the    *)
(* last datagram, in the order they reached the socket, that asked for one   *)
(* while there was a lamp, whoever sent it and whatever alerts came between. *)
LastMood(s) ==
  LET moods == {i \in 1..Len(calls) : calls[i].queued /\ s[i].packet.opcode # "SET_ALERT"}
  IN  IF moods = {} \/ s[Max(moods)].packet.opcode = "SET_LEDS_OFF" THEN NoName
      ELSE s[Max(moods)].packet.data
ShowsLastArrival == queue = <<>> => mood = LastMood(Sets(Taken))

(* A stop signal that sigwaitinfo took ends both threads.                    *)
StopEnds == main = "join" /\ stoppedBy # "none" ~> Ended

(* As long as every datagram had its own SIGIO, all of them are read, unless *)
(* the server ends.                                                          *)
SignalledIsRead ==
  \A n \in 1..(Cardinality(Clients) + MaxDuplicates + MaxStrays) :
    Len(arrived) >= n ~> \/ Len(arrived) - Len(inbox) >= n
                         \/ silent > 0
                         \/ main \in {"join", "done", "dead"}

(* ... and the operation of each of them takes effect when there is a lamp,  *)
(* or is dropped when there is none (PushOperation): it gets through a       *)
(* socket that is read once per signal, and a queue that waits for alerts.   *)
SignalledTakesEffect ==
  \A n \in 1..(Cardinality(Clients) + MaxDuplicates) :
    Len(Sets(arrived)) >= n ~> \/ Len(calls) >= n /\ \A i \in 1..Len(queue) : queue[i].id > n
                               \/ silent > 0
                               \/ main \in {"join", "done", "dead"}

SignalledIsServed == SignalledIsRead /\ SignalledTakesEffect

--------------------------------------------------------------------------------
(* What the documentation and the messages say, and the code does not do. *)

(* "Operation successful." (led-ctrl.cpp:173): the operation of a client     *)
(* that is told so was accepted by the LED thread.                           *)
SuccessMeansQueued ==
  \A c \in Clients : result[c] = "ok" =>
    \E i \in 1..Len(calls) : calls[i].from = c /\ calls[i].queued
================================================================================
