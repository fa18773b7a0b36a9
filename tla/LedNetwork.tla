------------------------------- MODULE LedNetwork -------------------------------
(***************************************************************************)
(* The datagrams led-ctrl and led-server exchange over UDP: they may be    *)
(* lost, overtake one another and, toward the server, be duplicated.       *)
(***************************************************************************)
EXTENDS LedOperations, Sequences, Bags

CONSTANTS
  Clients,        (* runs of led-ctrl, each with a socket of its own           *)
  Stray,          (* any other sender                                          *)
  ListLength,     (* names in a list; 5 in process_request                     *)
  MaxDuplicates,  (* bound: datagrams the network duplicates                   *)
  MaxStrays       (* bound: datagrams of neither led-ctrl nor led-server       *)

ASSUME NetworkAssumption ==
  /\ Stray \notin Clients
  /\ ListLength \in 1..5 /\ MaxDuplicates \in Nat /\ MaxStrays \in Nat

VARIABLES
  toServer,     (* bag of datagrams on their way to the server                *)
  toClient,     (* for each client, the bag of packets on their way to it     *)
  sockets,      (* the clients whose socket is open                           *)
  duplicates,   (* copies made so far                                         *)
  strays        (* datagrams Stray sent so far                                *)

netVars == <<toServer, toClient, sockets, duplicates, strays>>

(* struct libSocketPacket: the opcode and what `data` holds, a name or, in a *)
(* list, "Alert #1" or "Moodlight #1" and so on.                             *)
SetOpcodes  == {"SET_LEDS_OFF", "SET_ALERT", "SET_MOODLIGHT"}
ListOpcodes == {"GET_ALERTS", "GET_MOODLIGHTS"}
Entry == <<"#1", "#2", "#3", "#4", "#5">>
Names   == AlertNames \cup MoodNames \cup {NoName}
Packet(opcode, data) == [opcode |-> opcode, data |-> data]
Commands == [opcode : {"SET_LEDS_OFF"} \cup ListOpcodes, data : {NoName}]
       \cup [opcode : {"SET_ALERT"}, data : AlertNames \cup {NoName}]
       \cup [opcode : {"SET_MOODLIGHT"}, data : MoodNames \cup {NoName}]
Replies  == [opcode : {"OK", "EOF", "ERROR"}, data : Names]
       \cup [opcode : ListOpcodes, data : {Entry[i] : i \in 1..ListLength}]

(* A datagram is a whole packet of LSPKT_MAX_LENGTH bytes, a shorter one, or *)
(* one whose checksum recvfrom will find wrong.                              *)
Datagram(from, kind, packet) == [from |-> from, kind |-> kind, packet |-> packet]
NoPacket == Packet("NOP", NoName)

One(x) == SetToBag({x})

SendToServer(d) == toServer' = toServer (+) One(d)
SendToClient(c, p) ==
  toClient' = IF c \in sockets THEN [toClient EXCEPT ![c] = @ (+) One(p)] ELSE toClient

NetInit ==
  /\ toServer = EmptyBag /\ toClient = [c \in Clients |-> EmptyBag]
  /\ sockets = {}
  /\ duplicates = 0 /\ strays = 0

--------------------------------------------------------------------------------
(* What the network does on its own. *)

Lose ==
  /\ \/ \E d \in BagToSet(toServer) :
          toServer' = toServer (-) One(d) /\ UNCHANGED toClient
     \/ \E c \in Clients : \E p \in BagToSet(toClient[c]) :
          toClient' = [toClient EXCEPT ![c] = @ (-) One(p)] /\ UNCHANGED toServer
  /\ UNCHANGED <<sockets, duplicates, strays>>

Duplicate ==
  /\ duplicates < MaxDuplicates
  /\ duplicates' = duplicates + 1
  /\ \E d \in BagToSet(toServer) : SendToServer(d)
  /\ UNCHANGED <<toClient, sockets, strays>>

(* Something that is not led-ctrl sends to the server's port.                *)
SendStray ==
  /\ strays < MaxStrays
  /\ strays' = strays + 1
  /\ \E kind \in {"full", "short", "corrupt"} :
       SendToServer(Datagram(Stray, kind, NoPacket))
  /\ UNCHANGED <<toClient, sockets, duplicates>>

NetTypeOK ==
  /\ \A d \in BagToSet(toServer) :
       /\ d.from \in Clients \cup {Stray} /\ d.kind \in {"full", "short", "corrupt"}
       /\ d.packet \in Commands \cup {NoPacket}
  /\ \A c \in Clients : \A p \in BagToSet(toClient[c]) : p \in Replies
  /\ sockets \subseteq Clients
  /\ duplicates \in 0..MaxDuplicates /\ strays \in 0..MaxStrays
================================================================================
