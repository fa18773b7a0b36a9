---------------------------- MODULE LedSystemProofs ----------------------------
(***************************************************************************)
(* Theorems about led-server and any number of runs of led-ctrl over UDP,  *)
(* for every set of clients and names and every number of lost, duplicated *)
(* and reordered datagrams.                                                *)
(***************************************************************************)
EXTENDS LedSystem, LedCtrlProofs, FiniteSetTheorems

(* Bags of datagrams.                                                        *)
Copies(x, B) == IF x \in BagToSet(B) THEN B[x] ELSE 0

LEMMA BagMembers ==
  ASSUME NEW B, NEW x
  PROVE  /\ BagToSet(B (+) One(x)) = BagToSet(B) \cup {x}
         /\ BagToSet(B (-) One(x)) \subseteq BagToSet(B)
         /\ BagToSet(EmptyBag) = {}
BY DEF BagToSet, One, SetToBag, (+), (-), EmptyBag

LEMMA BagCopies ==
  ASSUME NEW B, IsABag(B), NEW x, NEW y
  PROVE  /\ Copies(y, B) \in Nat
         /\ Copies(y, EmptyBag) = 0
         /\ y \notin BagToSet(B) => Copies(y, B) = 0
         /\ IsABag(EmptyBag)
         /\ IsABag(B (+) One(x))
         /\ Copies(y, B (+) One(x)) = Copies(y, B) + (IF x = y THEN 1 ELSE 0)
         /\ x \in BagToSet(B) =>
              /\ IsABag(B (-) One(x))
              /\ Copies(y, B (-) One(x)) + (IF x = y THEN 1 ELSE 0) = Copies(y, B)
<1> USE DEF IsABag, Copies, BagToSet, One, SetToBag, EmptyBag
<1>1. Copies(y, B) \in Nat /\ Copies(y, EmptyBag) = 0 /\ IsABag(EmptyBag)
  OBVIOUS
<1>2. y \notin BagToSet(B) => Copies(y, B) = 0
  OBVIOUS
<1>3. /\ IsABag(B (+) One(x))
      /\ Copies(y, B (+) One(x)) = Copies(y, B) + (IF x = y THEN 1 ELSE 0)
  BY DEF (+)
<1>4. ASSUME x \in BagToSet(B)
      PROVE  /\ IsABag(B (-) One(x))
             /\ Copies(y, B (-) One(x)) + (IF x = y THEN 1 ELSE 0) = Copies(y, B)
  BY <1>4 DEF (-)
<1>5. QED
  BY <1>1, <1>2, <1>3, <1>4

--------------------------------------------------------------------------------
(* The operations among the datagrams of a sequence.                         *)
SetsUpTo(s) ==
  CHOOSE sets : sets = [n \in 0..Len(s) |->
    IF n = 0 THEN <<>>
    ELSE IF IsSet(s[n]) THEN Append(sets[n - 1], s[n]) ELSE sets[n - 1]]

LEMMA SetsExist ==
  ASSUME NEW s, Len(s) \in Nat
  PROVE  \E sets : sets = [n \in 0..Len(s) |->
           IF n = 0 THEN <<>>
           ELSE IF IsSet(s[n]) THEN Append(sets[n - 1], s[n]) ELSE sets[n - 1]]
<1> DEFINE More(f, n) == IF IsSet(s[n]) THEN Append(f, s[n]) ELSE f
           Entries(f, n) == IF n = 0 THEN <<>> ELSE More(f[n - 1], n)
           T == {k \in Nat : \E f : f = [n \in 0..k |-> Entries(f, n)]}
<1>1. 0 \in T
  <2> DEFINE g == [n \in 0..0 |-> <<>>]
  <2>1. g = [n \in 0..0 |-> Entries(g, n)]
    OBVIOUS
  <2>2. QED
    BY <2>1
<1>2. ASSUME NEW k \in 1..Len(s), k - 1 \in T PROVE k \in T
  <2> HIDE DEF More
  <2>1. PICK f : f = [n \in 0..(k - 1) |-> Entries(f, n)]
    BY <1>2
  <2> DEFINE g == [n \in 0..k |-> IF n = k THEN More(f[k - 1], k) ELSE f[n]]
  <2>2. ASSUME NEW n \in 0..k PROVE g[n] = Entries(g, n)
    <3>1. CASE n = k
      BY <3>1
    <3>2. CASE n # k
      <4>1. n \in 0..(k - 1) /\ g[n] = f[n] /\ (n # 0 => g[n - 1] = f[n - 1])
        BY <3>2
      <4>2. f[n] = Entries(f, n)
        BY <2>1, <4>1
      <4>3. QED
        BY <4>1, <4>2
    <3>3. QED
      BY <3>1, <3>2
  <2>3. g = [n \in 0..k |-> Entries(g, n)]
    BY <2>2
  <2> HIDE DEF g
  <2>4. \E h : h = [n \in 0..k |-> Entries(h, n)]
    BY <2>3
  <2>5. QED
    BY <2>4
<1> HIDE DEF T
<1>3. 0..Len(s) \subseteq T
  BY <1>1, <1>2, Induction
<1>4. Len(s) \in T
  BY <1>3
<1>5. QED
  BY <1>4 DEF T

LEMMA SetsSteps ==
  ASSUME NEW s, Len(s) \in Nat
  PROVE  /\ Sets(s) = SetsUpTo(s)[Len(s)]
         /\ SetsUpTo(s)[0] = <<>>
         /\ \A n \in 1..Len(s) :
              SetsUpTo(s)[n] = IF IsSet(s[n]) THEN Append(SetsUpTo(s)[n - 1], s[n])
                               ELSE SetsUpTo(s)[n - 1]
<1> DEFINE f == SetsUpTo(s)
<1>1. f = [n \in 0..Len(s) |->
             IF n = 0 THEN <<>>
             ELSE IF IsSet(s[n]) THEN Append(f[n - 1], s[n]) ELSE f[n - 1]]
  BY SetsExist DEF SetsUpTo
<1>2. Sets(s) = f[Len(s)]
  BY DEF Sets, SetsUpTo
<1> HIDE DEF f
<1>3. ASSUME NEW n \in 1..Len(s)
      PROVE  f[n] = IF IsSet(s[n]) THEN Append(f[n - 1], s[n]) ELSE f[n - 1]
  <2>1. n \in 0..Len(s) /\ n # 0
    OBVIOUS
  <2>2. QED
    BY <1>1, <2>1
<1>4. f[0] = <<>>
  BY <1>1
<1>5. QED
  BY <1>2, <1>3, <1>4 DEF f

LEMMA SetsOfNone == Sets(<<>>) = <<>>
<1>1. Len(<<>>) = 0
  OBVIOUS
<1>2. QED
  BY <1>1, SetsSteps

(* One more datagram.                                                        *)
LEMMA SetsOneMore ==
  ASSUME NEW S, NEW s \in Seq(S), NEW d \in S
  PROVE  Sets(Append(s, d)) = IF IsSet(d) THEN Append(Sets(s), d) ELSE Sets(s)
<1> DEFINE t == Append(s, d)
           f == SetsUpTo(s)
           g == SetsUpTo(t)
           T == {n \in 0..Len(s) : f[n] = g[n]}
<1>1. /\ Len(s) \in Nat /\ Len(t) = Len(s) + 1 /\ t[Len(s) + 1] = d
      /\ \A n \in 1..Len(s) : t[n] = s[n]
  BY LenProperties, AppendProperties
<1>2. /\ Sets(s) = f[Len(s)] /\ f[0] = <<>>
      /\ \A n \in 1..Len(s) :
           f[n] = IF IsSet(s[n]) THEN Append(f[n - 1], s[n]) ELSE f[n - 1]
  BY <1>1, SetsSteps
<1> HIDE DEF t
<1>3. /\ Sets(t) = g[Len(t)] /\ g[0] = <<>>
      /\ \A n \in 1..Len(t) :
           g[n] = IF IsSet(t[n]) THEN Append(g[n - 1], t[n]) ELSE g[n - 1]
  BY <1>1, SetsSteps
<1> HIDE DEF f, g
<1>4. 0 \in T
  BY <1>1, <1>2, <1>3
<1>5. ASSUME NEW n \in 1..Len(s), n - 1 \in T PROVE n \in T
  BY <1>1, <1>2, <1>3, <1>5
<1> HIDE DEF T
<1>6. 0..Len(s) \subseteq T
  BY <1>1, <1>4, <1>5, Induction
<1>7. f[Len(s)] = g[Len(s)]
  BY <1>1, <1>6 DEF T
<1>8. Sets(t) = IF IsSet(d) THEN Append(Sets(s), d) ELSE Sets(s)
  BY <1>1, <1>2, <1>3, <1>7
<1>9. QED
  BY <1>8 DEF t

LEMMA SetsType == ASSUME NEW S, NEW s \in Seq(S) PROVE Sets(s) \in Seq(S)
<1> DEFINE f == SetsUpTo(s)
           T == {n \in 0..Len(s) : f[n] \in Seq(S)}
<1>1. Len(s) \in Nat /\ \A n \in 1..Len(s) : s[n] \in S
  BY LenProperties, ElementOfSeq
<1>2. /\ Sets(s) = f[Len(s)] /\ f[0] = <<>>
      /\ \A n \in 1..Len(s) :
           f[n] = IF IsSet(s[n]) THEN Append(f[n - 1], s[n]) ELSE f[n - 1]
  BY <1>1, SetsSteps
<1> HIDE DEF f
<1>3. 0 \in T
  <2>1. <<>> \in Seq(S)
    OBVIOUS
  <2>2. f[0] \in Seq(S)
    BY <1>2, <2>1
  <2>3. QED
    BY <1>1, <2>2
<1>4. ASSUME NEW n \in 1..Len(s), n - 1 \in T PROVE n \in T
  <2>1. f[n - 1] \in Seq(S) /\ s[n] \in S
    BY <1>1, <1>4
  <2>2. Append(f[n - 1], s[n]) \in Seq(S)
    BY <2>1, AppendProperties
  <2>3. f[n] \in Seq(S)
    BY <1>2, <2>1, <2>2
  <2>4. QED
    BY <2>3
<1> HIDE DEF T
<1>5. 0..Len(s) \subseteq T
  BY <1>1, <1>3, <1>4, Induction
<1>6. Len(s) \in T
  BY <1>1, <1>5
<1>7. QED
  BY <1>2, <1>6 DEF T

(* How many entries of a history are one client's.                           *)
From(s, n, c) == {i \in 1..n : s[i].from = c}
Count(s, n, c) == Cardinality(From(s, n, c))

LEMMA CountNone == ASSUME NEW s, NEW c PROVE Count(s, 0, c) = 0
<1>1. From(s, 0, c) = {}
  BY DEF From
<1>2. QED
  BY <1>1, FS_EmptySet DEF Count

LEMMA CountType ==
  ASSUME NEW s, NEW n \in Nat, NEW c PROVE IsFiniteSet(From(s, n, c)) /\ Count(s, n, c) \in Nat
<1>1. IsFiniteSet(1..n) /\ From(s, n, c) \subseteq 1..n
  BY FS_Interval DEF From
<1>2. QED
  BY <1>1, FS_Subset, FS_CardinalityType DEF Count

LEMMA CountMore ==
  ASSUME NEW s, NEW t, NEW n \in Nat, NEW c, \A i \in 1..n : t[i] = s[i]
  PROVE  Count(t, n + 1, c) = Count(s, n, c) + (IF t[n + 1].from = c THEN 1 ELSE 0)
<1>1. From(t, n + 1, c) = IF t[n + 1].from = c THEN From(s, n, c) \cup {n + 1}
                                             ELSE From(s, n, c)
  BY DEF From
<1>2. n + 1 \notin From(s, n, c)
  BY DEF From
<1>3. QED
  BY <1>1, <1>2, CountType, FS_AddElement DEF Count

LEMMA CountAppend ==
  ASSUME NEW S, NEW s \in Seq(S), NEW e \in S, NEW c
  PROVE  Count(Append(s, e), Len(s) + 1, c)
           = Count(s, Len(s), c) + (IF e.from = c THEN 1 ELSE 0)
<1> DEFINE t == Append(s, e)
<1>1. Len(s) \in Nat /\ t[Len(s) + 1] = e /\ \A i \in 1..Len(s) : t[i] = s[i]
  BY LenProperties, AppendProperties
<1> HIDE DEF t
<1>2. Count(t, Len(s) + 1, c) = Count(s, Len(s), c) + (IF t[Len(s) + 1].from = c THEN 1 ELSE 0)
  BY <1>1, CountMore
<1>3. QED
  BY <1>1, <1>2 DEF t

LEMMA CountUpTo ==
  ASSUME NEW s, NEW n \in Nat, NEW m \in Nat, m <= n, NEW c
  PROVE  Count(s, m, c) <= Count(s, n, c)
<1>1. From(s, m, c) \subseteq From(s, n, c)
  BY DEF From
<1>2. QED
  BY <1>1, CountType, FS_Subset DEF Count

--------------------------------------------------------------------------------
(* The inductive invariant, in parts. *)

AnyDatagram ==
  [from : Clients \cup {Stray}, kind : {"full", "short", "corrupt"},
   packet : Commands \cup {NoPacket}]

(* A datagram of a client holds the command that client sent.                *)
Genuine(d) ==
  /\ d \in AnyDatagram
  /\ d.from \in Clients => d.kind = "full" /\ d.packet = sent[d.from] /\ d.packet # NoPacket
  /\ d.from = Stray => d.packet = NoPacket

NetKnown ==
  /\ IsABag(toServer)
  /\ \A d \in BagToSet(toServer) : Genuine(d)
  /\ toClient = [c \in Clients |-> toClient[c]]
  /\ \A c \in Clients : \A p \in BagToSet(toClient[c]) :
       c \in sockets /\ sent[c] # NoPacket /\ p \in Replies /\ Answers(p, sent[c])
  /\ duplicates \in 0..MaxDuplicates /\ strays \in 0..MaxStrays

(* What was not read yet are the last datagrams that arrived.                *)
ArrivalsKnown ==
  /\ arrived \in Seq(AnyDatagram) /\ inbox \in Seq(AnyDatagram)
  /\ \A i \in 1..Len(arrived) : Genuine(arrived[i])
  /\ Len(inbox) <= Len(arrived)
  /\ \A i \in 1..Len(inbox) : inbox[i] = arrived[Len(arrived) - Len(inbox) + i]

(* The packet in hand is the command of the peer, then an answer to it.      *)
RequestKnown ==
  /\ peer \in Clients \cup {Stray} /\ listed \in 0..ListLength
  /\ pkt \in Commands \cup Replies \cup {NoPacket}
  /\ main \in {"act", "list"} => Genuine(Datagram(peer, "full", pkt))
  /\ main = "list" => pkt.opcode \in ListOpcodes
  /\ main = "reply" /\ peer \in Clients =>
       pkt \in Replies /\ sent[peer] # NoPacket /\ Answers(pkt, sent[peer])

(* The steps that touch neither the request in hand, the history of calls,   *)
(* the queue, the network nor a client.                                      *)
Handling == {"act", "list", "reply"}
Quiet ==
  /\ UNCHANGED <<netVars, ctrlVars, inbox, arrived, calls, queue, playing, mood, peer, pkt,
                 listed>>
  /\ \/ main' = main \/ main' = "dead"
     \/ main \notin Handling \cup {"dead"} /\ main' \notin Handling

LEMMA Steps ==
  ASSUME [Next]_vars
  PROVE  \/ Quiet
         \/ UNCHANGED ctrlVars /\ (Read \/ ActSet \/ ActList \/ ActUnknown \/ ListName
                                   \/ ListEnd \/ Reply \/ LedApplies \/ LedEndsAlert)
         \/ UNCHANGED serverVars /\ \E c \in Clients : CtrlStep(c)
         \/ Receive /\ UNCHANGED ctrlVars
         \/ (Lose \/ Duplicate \/ SendStray) /\ UNCHANGED <<serverVars, ctrlVars>>
<1> USE DEF Quiet, Handling
<1>1. CASE UNCHANGED vars
  BY <1>1 DEF vars, serverVars
<1>2. CASE Main
  <2>1. UNCHANGED ctrlVars /\ ServerStep
    BY <1>2 DEF Main
  <2>2. CASE CreateThread \/ Bind \/ EnableAsync \/ BlockSignals
    BY <2>1, <2>2 DEF CreateThread, Bind, EnableAsync, BlockSignals, Step, ledVars,
       requestVars, serviceVars, history
  <2>3. CASE WaitStop \/ WaitIO \/ ReadTimesOut \/ Join
    BY <2>1, <2>3 DEF WaitStop, WaitIO, ReadTimesOut, Join, Step, ledVars, requestVars,
       serviceVars, history, Service!Close
  <2>4. QED
    BY <2>1, <2>2, <2>3 DEF ServerStep
<1>3. CASE Signals
  BY <1>3 DEF Signals, Kill, Raise, Die, PendingKills, WaitFails, Step, ledVars,
     requestVars, serviceVars, history
<1>4. CASE LedThread
  BY <1>4 DEF LedThread, OpensDevice, LedExits, ledVars, requestVars, serviceVars, history
<1>5. CASE Control
  BY <1>5 DEF Control
<1>6. CASE Network
  BY <1>6 DEF Network
<1>7. QED
  BY <1>1, <1>2, <1>3, <1>4, <1>5, <1>6 DEF Next

(* What a client sent stays what it sent.                                    *)
SentStays == \A c \in Clients : sent[c] # NoPacket => sent'[c] = sent[c]

LEMMA SentStaysSent == ASSUME CtrlInv, [Next]_vars PROVE SentStays
<1>1. ASSUME UNCHANGED ctrlVars PROVE SentStays
  BY <1>1 DEF ctrlVars, SentStays
<1>2. ASSUME NEW c \in Clients, CtrlStep(c) PROVE SentStays
  <2>1. CASE Start(c)
    <3>1. sent[c] = NoPacket /\ \E p : sent' = [sent EXCEPT ![c] = p]
      BY <2>1 DEF Start, CtrlInv, ClientKnown
    <3>2. QED
      BY <3>1 DEF SentStays, CtrlInv, ClientTypes
  <2>2. QED
    BY <1>2, <2>1 DEF CtrlStep, StartFails, Answer, NoAnswer, SentStays
<1>3. QED
  BY <1>1, <1>2, Steps DEF Quiet

LEMMA GenuineStays ==
  ASSUME SentStays, NEW d, Genuine(d)
  PROVE  Genuine(d)'
BY DEF SentStays, Genuine

LEMMA StrayIsNoClient == \A d : Genuine(d) /\ d.from \notin Clients => d.packet = NoPacket
BY DEF Genuine, AnyDatagram

(* What is put in a client's mail, or taken from it.                         *)
LEMMA SendKeepsMail ==
  ASSUME NetKnown, NEW c, NEW p, SendToClient(c, p),
         c \in sockets => c \in Clients /\ sent[c] # NoPacket /\ p \in Replies
                          /\ Answers(p, sent[c])
  PROVE  /\ toClient' = [d \in Clients |-> toClient'[d]]
         /\ \A d \in Clients : \A q \in BagToSet(toClient'[d]) :
              d \in sockets /\ sent[d] # NoPacket /\ q \in Replies /\ Answers(q, sent[d])
<1>1. CASE c \notin sockets
  BY <1>1 DEF SendToClient, NetKnown
<1>2. CASE c \in sockets
  <2>1. toClient' = [toClient EXCEPT ![c] = toClient[c] (+) One(p)]
    BY <1>2 DEF SendToClient
  <2>2. toClient = [d \in Clients |-> toClient[d]] /\ c \in Clients
    BY <1>2 DEF NetKnown
  <2>3. toClient' = [d \in Clients |-> IF d = c THEN toClient[c] (+) One(p) ELSE toClient[d]]
    BY <2>1, <2>2
  <2>4. BagToSet(toClient'[c]) = BagToSet(toClient[c]) \cup {p}
    BY <2>2, <2>3, BagMembers
  <2>5. QED
    BY <1>2, <2>2, <2>3, <2>4 DEF NetKnown
<1>3. QED
  BY <1>1, <1>2

LEMMA NetKnownStep ==
  ASSUME CtrlInv, RequestKnown, NetKnown, [Next]_vars
  PROVE  NetKnown'
<1>1. SentStays
  BY SentStaysSent
<1>2. ASSUME UNCHANGED <<netVars, sent>> PROVE NetKnown'
  BY <1>2 DEF netVars, NetKnown, Genuine
<1>3. ASSUME NEW c, NEW p, SendToClient(c, p), UNCHANGED <<toServer, sockets, duplicates,
             strays, sent>>,
             c \in sockets => c \in Clients /\ sent[c] # NoPacket /\ p \in Replies
                              /\ Answers(p, sent[c])
      PROVE  NetKnown'
  BY <1>3, SendKeepsMail DEF NetKnown, Genuine
<1>4. CASE UNCHANGED ctrlVars /\ (ListName \/ ListEnd \/ Reply)
  <2>1. CASE ListEnd
    BY <1>2, <1>4, <2>1 DEF ListEnd, ctrlVars
  <2>2. CASE ListName
    <3>1. CASE UNCHANGED toClient
      BY <1>2, <1>4, <2>2, <3>1 DEF ListName, ctrlVars, netVars
    <3>2. CASE SendToClient(peer, Packet(pkt.opcode, Entry[listed + 1]))
      <4>1. listed + 1 \in 1..ListLength /\ pkt.opcode \in ListOpcodes
            /\ Genuine(Datagram(peer, "full", pkt))
        BY <2>2, NetworkAssumption DEF ListName, RequestKnown
      <4>2. Packet(pkt.opcode, Entry[listed + 1]) \in Replies
        BY <4>1 DEF Packet, Replies
      <4>3. ASSUME peer \in sockets
            PROVE  /\ peer \in Clients /\ sent[peer] # NoPacket
                   /\ Answers(Packet(pkt.opcode, Entry[listed + 1]), sent[peer])
        <5>1. peer \in Clients /\ sent[peer] = pkt /\ pkt # NoPacket
          BY <4>1, <4>3 DEF CtrlInv, ClientTypes, Genuine, Datagram
        <5>2. QED
          BY <4>1, <5>1 DEF Answers, Packet, ListOpcodes
      <4>4. QED
        BY <1>3, <1>4, <2>2, <3>2, <4>2, <4>3 DEF ListName, ctrlVars
    <3>3. QED
      BY <2>2, <3>1, <3>2 DEF ListName
  <2>3. CASE Reply
    <3>1. CASE UNCHANGED toClient
      BY <1>2, <1>4, <2>3, <3>1 DEF Reply, ctrlVars, netVars
    <3>2. CASE SendToClient(peer, pkt)
      <4>1. peer \in sockets => peer \in Clients /\ sent[peer] # NoPacket /\ pkt \in Replies
                                /\ Answers(pkt, sent[peer])
        BY <2>3 DEF Reply, Step, RequestKnown, CtrlInv, ClientTypes
      <4>2. QED
        BY <1>3, <1>4, <2>3, <3>2, <4>1 DEF Reply, ctrlVars
    <3>3. QED
      BY <2>3, <3>1, <3>2 DEF Reply
  <2>4. QED
    BY <1>4, <2>1, <2>2, <2>3
<1>5. CASE UNCHANGED ctrlVars /\ (Read \/ ActSet \/ ActList \/ ActUnknown \/ LedApplies
                                  \/ LedEndsAlert)
  BY <1>2, <1>5 DEF ctrlVars, Read, ActSet, ActList, ActUnknown, LedApplies, LedEndsAlert,
     LedWorks
<1>6. ASSUME NEW d, d \in BagToSet(toServer), toServer' = toServer (-) One(d),
             UNCHANGED <<toClient, sockets, duplicates, strays, sent>>
      PROVE  NetKnown'
  <2>1. IsABag(toServer') /\ BagToSet(toServer') \subseteq BagToSet(toServer)
    BY <1>6, BagMembers, BagCopies DEF NetKnown
  <2>2. QED
    BY <1>6, <2>1 DEF NetKnown, Genuine
<1>7. ASSUME NEW d, Genuine(d), toServer' = toServer (+) One(d),
             UNCHANGED <<toClient, sockets, sent>>,
             duplicates' \in 0..MaxDuplicates, strays' \in 0..MaxStrays
      PROVE  NetKnown'
  <2>1. IsABag(toServer') /\ BagToSet(toServer') = BagToSet(toServer) \cup {d}
    BY <1>7, BagMembers, BagCopies DEF NetKnown
  <2>2. QED
    BY <1>7, <2>1 DEF NetKnown, Genuine
<1>8. CASE UNCHANGED ctrlVars /\ (Lose \/ Duplicate \/ SendStray)
  <2>1. CASE Lose
    <3>1. CASE \E d \in BagToSet(toServer) : toServer' = toServer (-) One(d)
                                             /\ UNCHANGED toClient
      BY <1>6, <1>8, <2>1, <3>1 DEF Lose, ctrlVars
    <3>2. ASSUME NEW c \in Clients, NEW p \in BagToSet(toClient[c]),
                 toClient' = [toClient EXCEPT ![c] = @ (-) One(p)], UNCHANGED toServer
          PROVE  NetKnown'
      <4>1. toClient = [d \in Clients |-> toClient[d]]
        BY DEF NetKnown
      <4>2. toClient' = [d \in Clients |-> IF d = c THEN toClient[c] (-) One(p)
                                           ELSE toClient[d]]
        BY <3>2, <4>1
      <4>3. BagToSet(toClient'[c]) \subseteq BagToSet(toClient[c])
        BY <4>2, BagMembers
      <4>4. QED
        BY <1>8, <2>1, <3>2, <4>2, <4>3 DEF Lose, ctrlVars, NetKnown, Genuine
    <3>3. QED
      BY <2>1, <3>1, <3>2 DEF Lose
  <2>2. CASE Duplicate
    <3>1. PICK d \in BagToSet(toServer) : toServer' = toServer (+) One(d)
      BY <2>2 DEF Duplicate, SendToServer
    <3>2. Genuine(d) /\ duplicates' \in 0..MaxDuplicates /\ strays' \in 0..MaxStrays
      BY <2>2, NetworkAssumption DEF Duplicate, NetKnown
    <3>3. QED
      BY <1>7, <1>8, <2>2, <3>1, <3>2 DEF Duplicate, ctrlVars
  <2>3. CASE SendStray
    <3>1. PICK kind \in {"full", "short", "corrupt"} :
            toServer' = toServer (+) One(Datagram(Stray, kind, NoPacket))
      BY <2>3 DEF SendStray, SendToServer
    <3>2. Genuine(Datagram(Stray, kind, NoPacket))
      BY NetworkAssumption DEF Genuine, Datagram, AnyDatagram
    <3>3. duplicates' \in 0..MaxDuplicates /\ strays' \in 0..MaxStrays
      BY <2>3, NetworkAssumption DEF SendStray, NetKnown
    <3>4. QED
      BY <1>7, <1>8, <2>3, <3>1, <3>2, <3>3 DEF SendStray, ctrlVars
  <2>4. QED
    BY <1>8, <2>1, <2>2, <2>3
<1>9. CASE Receive /\ UNCHANGED ctrlVars
  BY <1>6, <1>9 DEF Receive, ctrlVars
<1>10. ASSUME NEW c \in Clients, CtrlStep(c) PROVE NetKnown'
  <2>0. /\ toClient = [d \in Clients |-> toClient[d]]
        /\ \A d \in BagToSet(toServer) : Genuine(d)'
        /\ \A d \in Clients : \A p \in BagToSet(toClient[d]) :
             d \in sockets /\ sent'[d] = sent[d] /\ sent[d] # NoPacket /\ p \in Replies
             /\ Answers(p, sent[d])
        /\ IsABag(toServer)
    BY <1>1, GenuineStays DEF NetKnown, SentStays
  <2>1. ASSUME NEW why, Exit(c, why)
        PROVE  /\ sockets' = sockets \ {c}
               /\ toClient' = [d \in Clients |-> IF d = c THEN EmptyBag ELSE toClient[d]]
               /\ BagToSet(toClient'[c]) = {}
    BY <2>0, <2>1, BagMembers DEF Exit
  <2>2. ASSUME UNCHANGED <<toServer, duplicates, strays>>, \E why : Exit(c, why)
        PROVE  NetKnown'
    BY <2>0, <2>1, <2>2 DEF NetKnown
  <2>3. CASE StartFails(c) \/ NoAnswer(c)
    BY <2>2, <2>3 DEF StartFails, NoAnswer
  <2>4. CASE Start(c)
    <3>1. PICK line \in CommandLines :
            /\ Parse(line).exit = "none"
            /\ sent' = [sent EXCEPT ![c] = Parse(line).packet]
            /\ \/ /\ SendToServer(Datagram(c, "full", Parse(line).packet))
                  /\ sockets' = sockets \cup {c} /\ UNCHANGED toClient
               \/ Exit(c, "not sent") /\ UNCHANGED toServer
      BY <2>4 DEF Start
    <3>2. CASE Exit(c, "not sent") /\ UNCHANGED toServer
      BY <2>2, <2>4, <3>2 DEF Start
    <3>3. CASE /\ SendToServer(Datagram(c, "full", Parse(line).packet))
               /\ sockets' = sockets \cup {c} /\ UNCHANGED toClient
      <4> DEFINE d == Datagram(c, "full", Parse(line).packet)
      <4>1. Parse(line).packet \in Commands
        BY <3>1, CommandLineAssumption, ParseCorrect
      <4>2. sent'[c] = Parse(line).packet
        BY <3>1 DEF CtrlInv, ClientTypes
      <4>3. Genuine(d)'
        BY <4>1, <4>2, CommandIsNotNop, NetworkAssumption DEF Genuine, Datagram, AnyDatagram
      <4> HIDE DEF d
      <4>4. IsABag(toServer') /\ BagToSet(toServer') = BagToSet(toServer) \cup {d}
        BY <2>0, <3>3, BagMembers, BagCopies DEF SendToServer, d
      <4>5. QED
        BY <2>0, <2>4, <3>3, <4>3, <4>4 DEF NetKnown, Start
    <3>4. QED
      BY <3>1, <3>2, <3>3
  <2>5. CASE Answer(c)
    <3>1. CASE \E why : Exit(c, why)
      BY <2>2, <2>5, <3>1 DEF Answer
    <3>2. CASE UNCHANGED sockets /\ \E p \in BagToSet(toClient[c]) :
                 toClient' = [toClient EXCEPT ![c] = @ (-) One(p)]
      <4>1. PICK p : toClient' = [toClient EXCEPT ![c] = @ (-) One(p)]
        BY <3>2
      <4>2. toClient' = [d \in Clients |-> IF d = c THEN toClient[c] (-) One(p)
                                           ELSE toClient[d]]
        BY <2>0, <4>1
      <4>3. BagToSet(toClient'[c]) \subseteq BagToSet(toClient[c])
        BY <4>2, BagMembers
      <4>4. QED
        BY <2>0, <2>5, <3>2, <4>2, <4>3 DEF NetKnown, Answer
    <3>3. QED
      BY <2>5, <3>1, <3>2 DEF Answer
  <2>6. QED
    BY <1>10, <2>3, <2>4, <2>5 DEF CtrlStep
<1>11. CASE Quiet
  BY <1>2, <1>11 DEF Quiet, ctrlVars
<1>12. QED
  BY <1>4, <1>5, <1>8, <1>9, <1>10, <1>11, Steps

LEMMA ArrivalsStay ==
  ASSUME ArrivalsKnown, SentStays, UNCHANGED <<arrived, inbox>>
  PROVE  ArrivalsKnown'
BY DEF ArrivalsKnown, SentStays, Genuine

(* A datagram taken from the front of the socket's buffer, or put at its end. *)
LEMMA InboxHead ==
  ASSUME ArrivalsKnown, inbox # <<>>
  PROVE  /\ Len(inbox) \in Nat \ {0} /\ Len(arrived) \in Nat
         /\ Head(inbox) = arrived[Len(arrived) - Len(inbox) + 1]
         /\ Len(arrived) - Len(inbox) + 1 \in 1..Len(arrived)
         /\ Genuine(Head(inbox))
         /\ Tail(inbox) \in Seq(AnyDatagram) /\ Len(Tail(inbox)) = Len(inbox) - 1
         /\ \A i \in 1..Len(Tail(inbox)) : Tail(inbox)[i] = inbox[i + 1]
<1>1. Len(inbox) \in Nat /\ Len(arrived) \in Nat
  BY LenProperties DEF ArrivalsKnown
<1>2. Len(inbox) # 0 /\ Head(inbox) = inbox[1]
  BY EmptySeq DEF ArrivalsKnown
<1>3. /\ Tail(inbox) \in Seq(AnyDatagram) /\ Len(Tail(inbox)) = Len(inbox) - 1
      /\ \A i \in 1..Len(Tail(inbox)) : Tail(inbox)[i] = inbox[i + 1]
  BY <1>1, <1>2, HeadTailProperties DEF ArrivalsKnown
<1>4. QED
  BY <1>1, <1>2, <1>3 DEF ArrivalsKnown

LEMMA ArrivalsKnownStep ==
  ASSUME CtrlInv, NetKnown, ArrivalsKnown, [Next]_vars
  PROVE  ArrivalsKnown'
<1>1. SentStays
  BY SentStaysSent
<1>2. Len(inbox) \in Nat /\ Len(arrived) \in Nat
  BY LenProperties DEF ArrivalsKnown
<1>3. CASE Read
  <2>1. inbox # <<>> /\ inbox' = Tail(inbox) /\ UNCHANGED arrived
    BY <1>3 DEF Read, history
  <2>2. /\ Len(inbox') = Len(inbox) - 1 /\ inbox' \in Seq(AnyDatagram)
        /\ \A i \in 1..Len(inbox') : i + 1 \in 1..Len(inbox) /\ inbox'[i] = inbox[i + 1]
    BY <2>1, InboxHead
  <2>3. \A i \in 1..Len(inbox') : inbox'[i] = arrived'[Len(arrived') - Len(inbox') + i]
    BY <1>2, <2>1, <2>2 DEF ArrivalsKnown
  <2>4. \A i \in 1..Len(arrived') : Genuine(arrived[i])'
    BY <1>1, <2>1 DEF ArrivalsKnown, Genuine, SentStays
  <2>5. QED
    BY <1>2, <2>1, <2>2, <2>3, <2>4 DEF ArrivalsKnown
<1>4. CASE Receive /\ UNCHANGED ctrlVars
  <2>1. PICK d \in BagToSet(toServer) :
          inbox' = Append(inbox, d) /\ arrived' = Append(arrived, d)
    BY <1>4 DEF Receive, Arrive
  <2>2. Genuine(d) /\ d \in AnyDatagram
    BY DEF NetKnown, Genuine
  <2>3. /\ inbox' \in Seq(AnyDatagram) /\ arrived' \in Seq(AnyDatagram)
        /\ Len(inbox') = Len(inbox) + 1 /\ Len(arrived') = Len(arrived) + 1
        /\ inbox'[Len(inbox) + 1] = d /\ arrived'[Len(arrived) + 1] = d
        /\ \A i \in 1..Len(inbox) : inbox'[i] = inbox[i]
        /\ \A i \in 1..Len(arrived) : arrived'[i] = arrived[i]
    BY <1>2, <2>1, <2>2, AppendProperties DEF ArrivalsKnown
  <2>4. ASSUME NEW i \in 1..Len(inbox')
        PROVE  inbox'[i] = arrived'[Len(arrived') - Len(inbox') + i]
    <3>1. CASE i = Len(inbox) + 1
      BY <1>2, <2>3, <3>1
    <3>2. CASE i # Len(inbox) + 1
      <4>1. i \in 1..Len(inbox) /\ Len(arrived) - Len(inbox) + i \in 1..Len(arrived)
        BY <1>2, <2>3, <3>2 DEF ArrivalsKnown
      <4>2. inbox[i] = arrived[Len(arrived) - Len(inbox) + i] /\ inbox'[i] = inbox[i]
        BY <2>3, <4>1 DEF ArrivalsKnown
      <4>3. Len(arrived') - Len(inbox') + i = Len(arrived) - Len(inbox) + i
        BY <1>2, <2>3
      <4>4. QED
        BY <2>3, <4>1, <4>2, <4>3
    <3>3. QED
      BY <3>1, <3>2
  <2>5. ASSUME NEW i \in 1..Len(arrived') PROVE Genuine(arrived[i])'
    <3>1. Genuine(arrived'[i])
      <4>1. i \in 1..Len(arrived) \/ i = Len(arrived) + 1
        BY <1>2, <2>3
      <4>2. QED
        BY <2>2, <2>3, <4>1 DEF ArrivalsKnown
    <3>2. QED
      BY <1>1, <3>1 DEF Genuine, SentStays
  <2>6. Len(inbox') <= Len(arrived')
    BY <1>2, <2>3 DEF ArrivalsKnown
  <2>7. QED
    BY <2>3, <2>4, <2>5, <2>6 DEF ArrivalsKnown
<1>5. CASE UNCHANGED <<arrived, inbox>>
  BY <1>1, <1>5, ArrivalsStay
<1>6. ActSet \/ ActList \/ ActUnknown \/ ListName \/ ListEnd \/ Reply \/ LedApplies
      \/ LedEndsAlert => UNCHANGED <<arrived, inbox>>
  BY DEF ActSet, ActList, ActUnknown, ListName, ListEnd, Reply, LedApplies, LedEndsAlert,
     LedWorks, history
<1>7. UNCHANGED serverVars \/ Quiet => UNCHANGED <<arrived, inbox>>
  BY DEF serverVars, Quiet
<1>8. QED
  BY <1>3, <1>4, <1>5, <1>6, <1>7, Steps

LEMMA PacketFacts ==
  /\ \A p \in Commands \cup Replies \cup {NoPacket} :
       p = Packet(p.opcode, p.data) /\ p.data \in Names \cup {Entry[i] : i \in 1..ListLength}
  /\ \A p \in Commands : p.opcode \in SetOpcodes \cup ListOpcodes /\ p.data \in Names
  /\ NoPacket.opcode \notin SetOpcodes \cup ListOpcodes /\ NoPacket.data \in Names
  /\ \A n \in Names : /\ Packet("OK", n) \in Replies /\ Packet("EOF", n) \in Replies
                      /\ Packet("ERROR", n) \in Replies
BY DEF Commands, Replies, NoPacket, Packet, Names, SetOpcodes, ListOpcodes

LEMMA AnswersFacts ==
  ASSUME NEW p, NEW q
  PROVE  /\ p.opcode = "OK" /\ q.opcode \in SetOpcodes => Answers(p, q)
         /\ p.opcode = "EOF" /\ q.opcode \in ListOpcodes => Answers(p, q)
<1>1. ASSUME p.opcode = "OK", q.opcode \in SetOpcodes PROVE Answers(p, q)
  BY <1>1 DEF Answers, ListOpcodes
<1>2. ASSUME p.opcode = "EOF", q.opcode \in ListOpcodes PROVE Answers(p, q)
  BY <1>2 DEF Answers, ListOpcodes
<1>3. QED
  BY <1>1, <1>2

LEMMA RequestKnownStep ==
  ASSUME CtrlInv, ArrivalsKnown, RequestKnown, [Next]_vars
  PROVE  RequestKnown'
<1>1. SentStays
  BY SentStaysSent
<1>2. ASSUME UNCHANGED <<peer, pkt, listed>>, main' = main \/ main' \notin Handling
      PROVE  RequestKnown'
  <2>1. \A d : Genuine(d) => Genuine(d)'
    BY <1>1, GenuineStays
  <2>2. main' \in {"act", "list"} => main' = main
    BY <1>2 DEF Handling
  <2>3. main' \in {"act", "list"} => Genuine(Datagram(peer, "full", pkt))'
    BY <1>1, <1>2, <2>2 DEF RequestKnown, SentStays, Genuine, Datagram
  <2>4. QED
    BY <1>1, <1>2, <2>3 DEF RequestKnown, Handling, SentStays
<1>3. CASE UNCHANGED ctrlVars /\ Read
  <2>0. PICK d : d = Head(inbox)
    OBVIOUS
  <2>1. inbox # <<>> /\ UNCHANGED listed /\ main = "read"
    BY <1>3 DEF Read
  <2>2. Genuine(d)
    BY <2>0, <2>1, InboxHead
  <2>3. \/ UNCHANGED <<main, peer, pkt>>
        \/ d.kind = "short" /\ main' = "reply" /\ peer' = d.from /\ pkt' = d.packet
        \/ d.kind = "full" /\ main' = "act" /\ peer' = d.from /\ pkt' = d.packet
    BY <1>3, <2>0 DEF Read
  <2>4. CASE UNCHANGED <<main, peer, pkt>>
    BY <1>2, <2>1, <2>4
  <2>5. CASE d.kind = "short" /\ main' = "reply" /\ peer' = d.from /\ pkt' = d.packet
    BY <2>1, <2>2, <2>5 DEF Genuine, AnyDatagram, RequestKnown
  <2>6. CASE d.kind = "full" /\ main' = "act" /\ peer' = d.from /\ pkt' = d.packet
    <3>1. d = Datagram(peer', "full", pkt') /\ d \in AnyDatagram
      BY <2>2, <2>6 DEF Genuine, AnyDatagram, Datagram
    <3>2. Genuine(d)'
      BY <1>1, <2>2, GenuineStays
    <3>3. Genuine(Datagram(peer, "full", pkt))'
      BY <3>1, <3>2 DEF Genuine
    <3>4. QED
      BY <2>1, <2>6, <3>1, <3>3 DEF RequestKnown, AnyDatagram
  <2>7. QED
    BY <2>3, <2>4, <2>5, <2>6
<1>4. CASE UNCHANGED ctrlVars /\ (ActSet \/ ActList \/ ActUnknown)
  <2>1. /\ main = "act" /\ UNCHANGED <<peer, sent>> /\ pkt \in Commands \cup {NoPacket}
        /\ peer \in Clients => pkt = sent[peer] /\ pkt # NoPacket
        /\ Genuine(Datagram(peer, "full", pkt))
    BY <1>4 DEF ActSet, ActList, ActUnknown, Step, RequestKnown, Genuine, Datagram,
       AnyDatagram, ctrlVars
  <2>2. CASE ActSet
    <3>1. main' = "reply" /\ pkt' = Packet("OK", pkt.data) /\ UNCHANGED listed
          /\ pkt.opcode \in SetOpcodes
      BY <2>1, <2>2, PacketFacts DEF ActSet, Step, Packet
    <3>2. pkt' \in Replies /\ pkt'.opcode = "OK"
      BY <2>1, <3>1, PacketFacts DEF Packet
    <3>3. peer \in Clients => Answers(pkt', sent[peer])
      BY <2>1, <3>1, <3>2, AnswersFacts
    <3>4. QED
      BY <2>1, <3>1, <3>2, <3>3 DEF RequestKnown, Answers
  <2>3. CASE ActList
    <3>1. main' = "list" /\ listed' = 0 /\ pkt' = pkt /\ pkt.opcode \in ListOpcodes
      BY <2>3 DEF ActList, Step
    <3>2. Genuine(Datagram(peer, "full", pkt))'
      BY <2>1, <3>1 DEF Genuine, Datagram
    <3>3. QED
      BY <2>1, <3>1, <3>2, NetworkAssumption DEF RequestKnown
  <2>4. CASE ActUnknown
    <3>1. /\ main' = "reply" /\ pkt' = Packet("ERROR", pkt.data) /\ UNCHANGED listed
          /\ pkt.opcode \notin SetOpcodes \cup ListOpcodes
      BY <2>1, <2>4, PacketFacts DEF ActUnknown, Step, Packet
    <3>2. peer \notin Clients
      BY <2>1, <3>1, PacketFacts
    <3>3. pkt' \in Replies
      BY <2>1, <3>1, PacketFacts
    <3>4. QED
      BY <2>1, <3>1, <3>2, <3>3 DEF RequestKnown
  <2>5. QED
    BY <1>4, <2>2, <2>3, <2>4
<1>5. CASE UNCHANGED ctrlVars /\ (ListName \/ ListEnd)
  <2>1. main = "list" /\ UNCHANGED <<peer, sent>> /\ pkt.opcode \in ListOpcodes
        /\ (peer \in Clients => pkt = sent[peer] /\ pkt # NoPacket)
    BY <1>5 DEF ListName, ListEnd, Step, RequestKnown, Genuine, Datagram, ctrlVars
  <2>2. CASE main' = "reply" /\ pkt' = Packet("EOF", NoName) /\ UNCHANGED listed
    <3>1. pkt' \in Replies /\ pkt'.opcode = "EOF"
      BY <2>2, PacketFacts DEF Names, Packet
    <3>2. peer \in Clients => Answers(pkt', sent[peer])
      BY <2>1, <3>1, AnswersFacts
    <3>3. QED
      BY <2>1, <2>2, <3>1, <3>2 DEF RequestKnown, Answers
  <2>3. CASE UNCHANGED <<main, pkt>> /\ listed < ListLength /\ listed' = listed + 1
    <3>1. listed' \in 0..ListLength
      BY <2>3, NetworkAssumption DEF RequestKnown
    <3>2. Genuine(Datagram(peer, "full", pkt))'
      BY <2>1, <2>3 DEF RequestKnown, Genuine, Datagram
    <3>3. QED
      BY <2>1, <2>3, <3>1, <3>2 DEF RequestKnown
  <2>4. QED
    BY <1>5, <2>2, <2>3 DEF ListName, ListEnd, Step
<1>6. CASE UNCHANGED ctrlVars /\ Reply
  BY <1>6 DEF Reply, Step, RequestKnown
<1>7. CASE LedApplies \/ LedEndsAlert
  BY <1>2, <1>7 DEF LedApplies, LedEndsAlert, LedWorks, requestVars
<1>8. CASE Receive /\ UNCHANGED ctrlVars
  BY <1>2, <1>8 DEF Receive, Arrive, Raise, Die, requestVars, Handling
<1>9. CASE UNCHANGED serverVars
  BY <1>2, <1>9 DEF serverVars
<1>10. CASE Quiet
  BY <1>2, <1>10 DEF Quiet, Handling
<1>11. QED
  BY <1>3, <1>4, <1>5, <1>6, <1>7, <1>8, <1>9, <1>10, Steps

--------------------------------------------------------------------------------
(* The calls of PushOperation and the datagrams that were read. *)

LEMMA Prefix ==
  ASSUME NEW S, NEW s \in Seq(S), NEW n \in 0..Len(s)
  PROVE  /\ SubSeq(s, 1, n) \in Seq(S) /\ Len(SubSeq(s, 1, n)) = n
         /\ \A i \in 1..n : SubSeq(s, 1, n)[i] = s[i]
<1>1. Len(s) \in Nat /\ n \in Int /\ n - 1 + 1 = n /\ \A i \in 1..n : i + 1 - 1 = i
  BY LenProperties
<1>2. \A i \in 1..n : s[i] \in S
  BY <1>1, ElementOfSeq
<1>3. /\ SubSeq(s, 1, n) \in Seq(S)
      /\ Len(SubSeq(s, 1, n)) = IF 1 <= n THEN n - 1 + 1 ELSE 0
      /\ \A i \in 1..n - 1 + 1 : SubSeq(s, 1, n)[i] = s[1 + i - 1]
  BY <1>1, <1>2, SubSeqProperties
<1>4. QED
  BY <1>1, <1>3

LEMMA TakenFacts ==
  ASSUME ArrivalsKnown
  PROVE  /\ Taken \in Seq(AnyDatagram) /\ Len(Taken) = Len(arrived) - Len(inbox)
         /\ Len(arrived) \in Nat /\ Len(inbox) \in Nat /\ Len(Taken) \in Nat
         /\ \A i \in 1..Len(Taken) : Taken[i] = arrived[i]
<1>1. Len(arrived) \in Nat /\ Len(inbox) \in Nat
      /\ Len(arrived) - Len(inbox) \in 0..Len(arrived)
  BY LenProperties DEF ArrivalsKnown
<1>2. QED
  BY <1>1, Prefix DEF Taken, ArrivalsKnown

(* Reading takes the next datagram; one that arrives is not taken yet.       *)
LEMMA TakenByRead ==
  ASSUME ArrivalsKnown, Read
  PROVE  Taken' = Append(Taken, Head(inbox)) /\ Head(inbox) \in AnyDatagram
<1>1. inbox # <<>> /\ inbox' = Tail(inbox) /\ arrived' = arrived
  BY DEF Read, history
<1>2. /\ Len(inbox) \in Nat \ {0} /\ Len(arrived) \in Nat /\ Len(inbox) <= Len(arrived)
      /\ Head(inbox) = arrived[Len(arrived) - Len(inbox) + 1]
      /\ Head(inbox) \in AnyDatagram /\ Len(inbox') = Len(inbox) - 1
  BY <1>1, InboxHead DEF Genuine, ArrivalsKnown
<1> DEFINE n == Len(arrived) - Len(inbox)
           t == Append(Taken, Head(inbox))
<1>3. n \in 0..Len(arrived) /\ n + 1 \in 0..Len(arrived)
      /\ Len(arrived') - Len(inbox') = n + 1
  BY <1>1, <1>2
<1>4. /\ Taken' \in Seq(AnyDatagram) /\ Len(Taken') = n + 1
      /\ \A i \in 1..(n + 1) : Taken'[i] = arrived[i]
  BY <1>1, <1>3, Prefix DEF Taken, ArrivalsKnown
<1>5. /\ t \in Seq(AnyDatagram) /\ Len(t) = n + 1 /\ t[n + 1] = arrived[n + 1]
      /\ \A i \in 1..n : t[i] = arrived[i]
  BY <1>2, TakenFacts, AppendProperties
<1>6. \A i \in 1..(n + 1) : i \in 1..n \/ i = n + 1
  BY <1>3
<1> HIDE DEF t, n
<1>7. Taken' = t
  BY <1>4, <1>5, <1>6, SeqEqual
<1>8. QED
  BY <1>2, <1>7 DEF t

LEMMA TakenStays ==
  ASSUME ArrivalsKnown, NetKnown,
         UNCHANGED <<arrived, inbox>> \/ Receive
  PROVE  Taken' = Taken
<1>1. CASE UNCHANGED <<arrived, inbox>>
  BY <1>1 DEF Taken
<1>2. CASE Receive
  <2>1. PICK d \in BagToSet(toServer) :
          inbox' = Append(inbox, d) /\ arrived' = Append(arrived, d)
    BY <1>2 DEF Receive, Arrive
  <2>2. d \in AnyDatagram
    BY DEF NetKnown, Genuine
  <2> DEFINE n == Len(arrived) - Len(inbox)
  <2>3. /\ Len(inbox') = Len(inbox) + 1 /\ Len(arrived') = Len(arrived) + 1
        /\ arrived' \in Seq(AnyDatagram)
        /\ \A i \in 1..Len(arrived) : arrived'[i] = arrived[i]
    BY <2>1, <2>2, AppendProperties DEF ArrivalsKnown
  <2>4. /\ Len(arrived') - Len(inbox') = n /\ n \in 0..Len(arrived) /\ n \in 0..Len(arrived')
        /\ \A i \in 1..n : i \in 1..Len(arrived)
    BY <2>3, TakenFacts DEF ArrivalsKnown
  <2>5. /\ Taken' \in Seq(AnyDatagram) /\ Len(Taken') = n
        /\ \A i \in 1..n : Taken'[i] = arrived'[i]
    BY <2>3, <2>4, Prefix DEF Taken
  <2>6. /\ Taken \in Seq(AnyDatagram) /\ Len(Taken) = n
        /\ \A i \in 1..n : Taken[i] = arrived[i]
    BY TakenFacts
  <2> HIDE DEF n
  <2>7. \A i \in 1..n : Taken'[i] = Taken[i]
    BY <2>3, <2>4, <2>5, <2>6
  <2>8. QED
    BY <2>5, <2>6, <2>7, SeqEqual
<1>3. QED
  BY <1>1, <1>2

Call == [from : Clients \cup {Stray}, opcode : SetOpcodes, param : Names, queued : BOOLEAN]

(* What was called is what was read, in order, but for the request in hand.  *)
Matches(call, d) ==
  call.from = d.from /\ call.opcode = d.packet.opcode /\ call.param = d.packet.data
CallsKnown ==
  /\ device \in BOOLEAN
  /\ calls \in Seq(Call)
  /\ \A i \in 1..Len(calls) : Matches(calls[i], Sets(Taken)[i])
  /\ Len(calls) <= Len(Sets(Taken))
  /\ main \notin {"act", "dead"} => Len(calls) = Len(Sets(Taken))
  /\ main = "act" /\ pkt.opcode \notin SetOpcodes => Len(calls) = Len(Sets(Taken))
  /\ main = "act" /\ pkt.opcode \in SetOpcodes =>
       /\ Len(calls) + 1 = Len(Sets(Taken))
       /\ Sets(Taken)[Len(calls) + 1] = Datagram(peer, "full", pkt)

LEMMA CallsKnownMeans == CallsKnown => CallsInArrivalOrder
BY DEF CallsKnown, CallsInArrivalOrder, Matches

(* PushOperation is called with the packet in hand.                          *)
LEMMA OneCall ==
  ASSUME RequestKnown, CallsKnown, ActSet
  PROVE  /\ calls' \in Seq(Call) /\ Len(calls') = Len(calls) + 1 /\ Len(calls) \in Nat
         /\ \A i \in 1..Len(calls) : calls'[i] = calls[i]
         /\ calls'[Len(calls) + 1] = [from |-> peer, opcode |-> pkt.opcode,
                                      param |-> pkt.data, queued |-> device]
         /\ pkt.opcode \in SetOpcodes /\ pkt \in Commands
         /\ peer \in Clients /\ sent[peer] = pkt
<1> DEFINE call == [from |-> peer, opcode |-> pkt.opcode, param |-> pkt.data,
                    queued |-> device]
<1>1. pkt.opcode \in SetOpcodes /\ main = "act" /\ calls' = Append(calls, call)
  BY DEF ActSet, Step, Called
<1>2. pkt \in Commands \cup {NoPacket} /\ Genuine(Datagram(peer, "full", pkt))
      /\ peer \in Clients \cup {Stray}
  BY <1>1 DEF RequestKnown, Genuine, Datagram, AnyDatagram
<1>3. pkt \in Commands /\ peer \in Clients /\ sent[peer] = pkt
  BY <1>1, <1>2, PacketFacts DEF Genuine, Datagram
<1>4. call \in Call
  BY <1>1, <1>3, PacketFacts DEF Call, CallsKnown
<1> HIDE DEF call
<1>5. Len(calls) \in Nat
  BY LenProperties DEF CallsKnown
<1>6. /\ calls' \in Seq(Call) /\ Len(calls') = Len(calls) + 1
      /\ calls'[Len(calls) + 1] = call
      /\ \A i \in 1..Len(calls) : calls'[i] = calls[i]
  BY <1>1, <1>4, AppendProperties DEF CallsKnown
<1>7. QED
  BY <1>1, <1>3, <1>5, <1>6 DEF call

LEMMA CallsKnownStep ==
  ASSUME NetKnown, ArrivalsKnown, RequestKnown, CallsKnown, [Next]_vars,
         device' \in BOOLEAN
  PROVE  CallsKnown'
<1>1. Sets(Taken) \in Seq(AnyDatagram) /\ Len(Sets(Taken)) \in Nat
  BY TakenFacts, SetsType, LenProperties
<1>2. Len(calls) \in Nat
  BY LenProperties DEF CallsKnown
<1>3. ASSUME UNCHANGED <<arrived, inbox>> \/ Receive, UNCHANGED <<calls, peer, pkt>>,
             main' \in {main, "dead"} \/ (main \notin {"act", "dead"} /\ main' # "act")
      PROVE  CallsKnown'
  <2>1. Sets(Taken)' = Sets(Taken)
    BY <1>3, TakenStays
  <2>2. QED
    BY <1>3, <2>1 DEF CallsKnown
<1>4. CASE UNCHANGED ctrlVars /\ Read
  <2> DEFINE d == Head(inbox)
  <2>1. main = "read" /\ UNCHANGED calls
    BY <1>4 DEF Read, history
  <2>2. Sets(Taken)' = IF IsSet(d) THEN Append(Sets(Taken), d) ELSE Sets(Taken)
    <3>1. Taken' = Append(Taken, d) /\ d \in AnyDatagram
      BY <1>4, TakenByRead
    <3>2. Sets(Taken)' = Sets(Append(Taken, d))
      BY <3>1
    <3>3. QED
      BY <3>1, <3>2, TakenFacts, SetsOneMore
  <2>3. d \in AnyDatagram /\ Genuine(d)
    BY <1>4, TakenByRead, InboxHead DEF Read
  <2>4. \/ d.kind = "corrupt" /\ UNCHANGED <<main, peer, pkt>>
        \/ d.kind = "short" /\ main' = "reply" /\ peer' = d.from /\ pkt' = d.packet
        \/ d.kind = "full" /\ main' = "act" /\ peer' = d.from /\ pkt' = d.packet
    BY <1>4 DEF Read
  <2>5. Len(calls) = Len(Sets(Taken))
    BY <2>1 DEF CallsKnown
  <2> HIDE DEF d
  <2>6. CASE ~IsSet(d)
    <3>1. main' # "act" \/ pkt'.opcode \notin SetOpcodes
      BY <2>1, <2>4, <2>6 DEF IsSet
    <3>2. Sets(Taken)' = Sets(Taken)
      BY <2>2, <2>6
    <3>3. QED
      BY <1>4, <2>1, <2>5, <3>1, <3>2 DEF CallsKnown
  <2>7. CASE IsSet(d)
    <3>1. Sets(Taken)' = Append(Sets(Taken), d)
      BY <2>2, <2>7
    <3>2. /\ Len(Sets(Taken)') = Len(calls) + 1
          /\ Sets(Taken)'[Len(calls) + 1] = d
          /\ \A i \in 1..Len(calls) : Sets(Taken)'[i] = Sets(Taken)[i]
      BY <1>1, <2>3, <2>5, <3>1, AppendProperties
    <3>3. main' = "act" /\ d = Datagram(peer', "full", pkt') /\ pkt'.opcode \in SetOpcodes
      BY <2>3, <2>4, <2>7 DEF IsSet, AnyDatagram, Datagram
    <3>4. QED
      BY <1>2, <1>4, <2>1, <3>2, <3>3 DEF CallsKnown
  <2>8. QED
    BY <2>6, <2>7
<1>5. CASE UNCHANGED ctrlVars /\ ActSet
  <2>1. main = "act" /\ main' = "reply" /\ UNCHANGED <<arrived, inbox>>
    BY <1>5 DEF ActSet, Step
  <2>2. Sets(Taken)' = Sets(Taken)
    BY <2>1, TakenStays
  <2>3. /\ calls' \in Seq(Call) /\ Len(calls') = Len(calls) + 1
        /\ \A i \in 1..Len(calls) : calls'[i] = calls[i]
        /\ calls'[Len(calls) + 1] = [from |-> peer, opcode |-> pkt.opcode,
                                     param |-> pkt.data, queued |-> device]
        /\ pkt.opcode \in SetOpcodes
    BY <1>5, OneCall
  <2>4. /\ Len(calls) + 1 = Len(Sets(Taken))
        /\ Sets(Taken)[Len(calls) + 1] = Datagram(peer, "full", pkt)
        /\ \A i \in 1..Len(calls) : Matches(calls[i], Sets(Taken)[i])
    BY <2>1, <2>3 DEF CallsKnown
  <2>5. Matches(calls'[Len(calls) + 1], Sets(Taken)[Len(calls) + 1])
    BY <2>3, <2>4 DEF Matches, Datagram
  <2>6. \A i \in 1..Len(calls') : i \in 1..Len(calls) \/ i = Len(calls) + 1
    BY <1>2, <2>3
  <2>7. \A i \in 1..Len(calls') : Matches(calls'[i], Sets(Taken)[i])
    BY <2>3, <2>4, <2>5, <2>6
  <2>8. Len(calls') = Len(Sets(Taken)')
    BY <2>2, <2>3, <2>4
  <2>9. \A i \in 1..Len(calls') : Matches(calls[i], Sets(Taken)[i])'
    BY <2>2, <2>7 DEF Matches
  <2>10. QED
    BY <1>1, <2>1, <2>2, <2>3, <2>8, <2>9 DEF CallsKnown
<1>6. CASE UNCHANGED ctrlVars /\ (ActList \/ ActUnknown)
  <2>1. /\ main = "act" /\ main' \in {"list", "reply"} /\ UNCHANGED <<arrived, inbox, calls>>
        /\ pkt.opcode \notin SetOpcodes
    BY <1>6 DEF ActList, ActUnknown, Step, history, ListOpcodes, SetOpcodes
  <2>2. Sets(Taken)' = Sets(Taken)
    BY <2>1, TakenStays
  <2>3. QED
    BY <2>1, <2>2 DEF CallsKnown
<1>7. CASE UNCHANGED ctrlVars /\ (ListName \/ ListEnd \/ Reply)
  <2>1. /\ main \in {"list", "reply"} /\ main' # "act" /\ UNCHANGED <<arrived, inbox, calls>>
    BY <1>7 DEF ListName, ListEnd, Reply, Step, history
  <2>2. Sets(Taken)' = Sets(Taken)
    BY <2>1, TakenStays
  <2>3. QED
    BY <2>1, <2>2 DEF CallsKnown
<1>8. CASE UNCHANGED ctrlVars /\ (LedApplies \/ LedEndsAlert)
  BY <1>3, <1>8 DEF LedApplies, LedEndsAlert, LedWorks, history, requestVars
<1>9. CASE Receive /\ UNCHANGED ctrlVars
  <2>1. UNCHANGED <<calls, peer, pkt>> /\ main' \in {main, "dead"}
    BY <1>9 DEF Receive, Arrive, Raise, Die, requestVars
  <2>2. QED
    BY <1>3, <1>9, <2>1
<1>10. CASE UNCHANGED serverVars
  BY <1>3, <1>10 DEF serverVars
<1>11. CASE Quiet
  BY <1>3, <1>11 DEF Quiet, Handling
<1>12. QED
  BY <1>4, <1>5, <1>6, <1>7, <1>8, <1>9, <1>10, <1>11, Steps

--------------------------------------------------------------------------------
(* Who was told that his operation is done, and how often it was. *)

CalledFor(c) ==
  \E i \in 1..Len(calls) : /\ calls[i].from = c
                           /\ calls[i].opcode = sent[c].opcode /\ calls[i].param = sent[c].data
SuccessKnown ==
  /\ main = "reply" /\ peer \in Clients /\ pkt.opcode = "OK" => CalledFor(peer)
  /\ \A c \in Clients : \A p \in BagToSet(toClient[c]) : p.opcode = "OK" => CalledFor(c)
  /\ \A c \in Clients : result[c] = "ok" => CalledFor(c) /\ sent[c] # NoPacket

LEMMA CallsGrow ==
  ASSUME RequestKnown, CallsKnown, [Next]_vars
  PROVE  /\ Len(calls) \in Nat /\ Len(calls') \in Nat /\ Len(calls) <= Len(calls')
         /\ \A i \in 1..Len(calls) : calls'[i] = calls[i]
<1>1. Len(calls) \in Nat
  BY LenProperties DEF CallsKnown
<1>2. CASE ActSet
  BY <1>1, <1>2, OneCall
<1>3. CASE ~ActSet
  <2>1. UNCHANGED calls
    BY <1>3, Steps DEF Quiet, Read, ActList, ActUnknown, ListName, ListEnd, Reply, LedApplies,
       LedEndsAlert, LedWorks, history, Receive, Arrive, serverVars
  <2>2. QED
    BY <1>1, <2>1
<1>4. QED
  BY <1>2, <1>3

LEMMA SuccessKnownStep ==
  ASSUME CtrlInv, NetKnown, ArrivalsKnown, RequestKnown, CallsKnown, SuccessKnown,
         [Next]_vars
  PROVE  SuccessKnown'
<1>1. SentStays
  BY SentStaysSent
<1>2. ASSUME NEW c \in Clients, CalledFor(c), sent[c] # NoPacket
      PROVE  CalledFor(c)' /\ sent'[c] # NoPacket
  BY <1>1, <1>2, CallsGrow DEF CalledFor, SentStays
<1>3. /\ main = "reply" /\ peer \in Clients => sent[peer] # NoPacket
      /\ \A c \in Clients : \A p \in BagToSet(toClient[c]) : sent[c] # NoPacket
  BY DEF RequestKnown, NetKnown
<1>4. \A c \in Clients : result'[c] = "ok" => CalledFor(c)' /\ sent'[c] # NoPacket
  <2>1. CASE UNCHANGED result
    BY <1>2, <2>1 DEF SuccessKnown
  <2>2. ASSUME NEW c \in Clients, CtrlStep(c), NEW d \in Clients, result'[d] = "ok"
        PROVE  CalledFor(d)' /\ sent'[d] # NoPacket
    <3>1. CASE result[d] = "ok"
      BY <1>2, <3>1 DEF SuccessKnown
    <3>2. CASE result[d] # "ok"
      <4>1. result \in [Clients -> Results]
        BY DEF CtrlInv, ClientTypes
      <4>2. \E p \in BagToSet(toClient[d]) : p.opcode = "OK"
        BY <2>2, <3>2, <4>1 DEF CtrlStep, StartFails, Start, Answer, NoAnswer, Exit
      <4>3. QED
        BY <1>2, <1>3, <4>2 DEF SuccessKnown
    <3>3. QED
      BY <3>1, <3>2
  <2>3. QED
    BY <2>1, <2>2, Steps DEF Quiet, ctrlVars
<1>5. main' = "reply" /\ peer' \in Clients /\ pkt'.opcode = "OK" => CalledFor(peer)'
  <2>1. CASE ActSet
    <3>1. /\ Len(calls) + 1 \in 1..Len(calls') /\ calls'[Len(calls) + 1].from = peer
          /\ calls'[Len(calls) + 1].opcode = sent[peer].opcode
          /\ calls'[Len(calls) + 1].param = sent[peer].data
          /\ peer \in Clients /\ sent[peer] = pkt /\ pkt \in Commands
      BY <2>1, OneCall
    <3>2. sent'[peer] = sent[peer] /\ peer' = peer
      BY <1>1, <2>1, <3>1, CommandIsNotNop DEF SentStays, ActSet
    <3>3. QED
      BY <3>1, <3>2 DEF CalledFor
  <2>2. CASE UNCHANGED <<peer, pkt>> /\ main' \in {main, "dead"}
    <3>1. CASE main' = "reply" /\ peer \in Clients /\ pkt.opcode = "OK"
      <4>1. CalledFor(peer) /\ sent[peer] # NoPacket
        BY <1>3, <2>2, <3>1 DEF SuccessKnown
      <4>2. QED
        BY <1>2, <2>2, <3>1, <4>1 DEF CalledFor
    <3>2. QED
      BY <2>2, <3>1
  <2>3. CASE Read
    <3>1. CASE UNCHANGED <<main, peer, pkt>>
      BY <2>2, <3>1
    <3>2. CASE main' = "reply" /\ peer' = Head(inbox).from /\ pkt' = Head(inbox).packet
      <4>1. Head(inbox).packet \in Commands \cup {NoPacket}
        BY <2>3, TakenByRead DEF AnyDatagram
      <4>2. QED
        BY <3>2, <4>1 DEF Commands, NoPacket, Packet, ListOpcodes
    <3>3. QED
      BY <2>3, <3>1, <3>2 DEF Read
  <2>4. CASE ActList \/ ActUnknown \/ ListName \/ ListEnd \/ Reply
    <3>1. CASE ActUnknown
      <4>1. pkt'.opcode = "ERROR"
        BY <3>1, PacketFacts DEF ActUnknown, RequestKnown, Packet
      <4>2. QED
        BY <4>1
    <3>2. QED
      BY <2>4, <3>1 DEF ActList, ListName, ListEnd, Reply, Step, Packet
  <2>5. CASE LedApplies \/ LedEndsAlert
    BY <2>2, <2>5 DEF LedApplies, LedEndsAlert, LedWorks, requestVars
  <2>6. CASE Receive
    BY <2>2, <2>6 DEF Receive, Arrive, Raise, Die, requestVars
  <2>7. CASE UNCHANGED serverVars
    BY <2>2, <2>7 DEF serverVars
  <2>8. CASE Quiet
    <3>1. main' = "reply" => main' = main
      BY <2>8 DEF Quiet, Handling
    <3>2. QED
      BY <2>2, <2>8, <3>1 DEF Quiet
  <2>9. QED
    BY <2>1, <2>3, <2>4, <2>5, <2>6, <2>7, <2>8, Steps
<1>6. \A c \in Clients : \A p \in BagToSet(toClient'[c]) : p.opcode = "OK" => CalledFor(c)'
  <2>1. CASE \A c \in Clients : BagToSet(toClient'[c]) \subseteq BagToSet(toClient[c])
    BY <1>2, <1>3, <2>1 DEF SuccessKnown
  <2>2. ASSUME NEW q, SendToClient(peer, q), NEW c \in Clients, NEW p \in BagToSet(toClient'[c]),
               p.opcode = "OK", q.opcode = "OK" => CalledFor(peer) /\ peer \in Clients
                                                   /\ sent[peer] # NoPacket
        PROVE  CalledFor(c)'
    <3>1. p \in BagToSet(toClient[c]) \/ (p = q /\ c = peer)
      <4>1. toClient = [d \in Clients |-> toClient[d]]
        BY DEF NetKnown
      <4>2. toClient'[c] = toClient[c] \/ (c = peer /\ toClient'[c] = toClient[c] (+) One(q))
        BY <2>2, <4>1 DEF SendToClient
      <4>3. QED
        BY <2>2, <4>2, BagMembers
    <3>2. QED
      BY <1>2, <1>3, <2>2, <3>1 DEF SuccessKnown
  <2>3. CASE UNCHANGED toClient
    BY <2>1, <2>3
  <2>4. CASE ListName
    <3>1. CASE SendToClient(peer, Packet(pkt.opcode, Entry[listed + 1]))
      <4>1. pkt.opcode # "OK"
        BY <2>4 DEF ListName, RequestKnown, ListOpcodes
      <4>2. QED
        BY <2>2, <3>1, <4>1 DEF Packet
    <3>2. QED
      BY <2>3, <2>4, <3>1 DEF ListName
  <2>5. CASE Reply
    <3>1. CASE SendToClient(peer, pkt)
      <4>1. CASE peer \in Clients
        <5>1. pkt.opcode = "OK" => CalledFor(peer) /\ sent[peer] # NoPacket
          BY <1>3, <2>5, <4>1 DEF Reply, Step, SuccessKnown
        <5>2. QED
          BY <2>2, <3>1, <4>1, <5>1
      <4>2. CASE peer \notin Clients
        BY <2>3, <3>1, <4>2 DEF SendToClient, CtrlInv, ClientTypes
      <4>3. QED
        BY <4>1, <4>2
    <3>2. QED
      BY <2>3, <2>5, <3>1 DEF Reply
  <2>6. CASE Read \/ ActSet \/ ActList \/ ActUnknown \/ ListEnd \/ LedApplies \/ LedEndsAlert
             \/ Receive \/ Duplicate \/ SendStray
    BY <2>3, <2>6 DEF Read, ActSet, ActList, ActUnknown, ListEnd, LedApplies, LedEndsAlert,
       LedWorks, netVars, Receive, Duplicate, SendStray
  <2>7. ASSUME NEW c \in Clients, NEW B, toClient' = [toClient EXCEPT ![c] = B],
               BagToSet(B) \subseteq BagToSet(toClient[c])
        PROVE  \A d \in Clients : BagToSet(toClient'[d]) \subseteq BagToSet(toClient[d])
    <3>1. toClient' = [d \in Clients |-> IF d = c THEN B ELSE toClient[d]]
      BY <2>7 DEF NetKnown
    <3>2. QED
      BY <2>7, <3>1
  <2>8. CASE Lose
    <3>1. ASSUME NEW c \in Clients, NEW p, toClient' = [toClient EXCEPT ![c] = @ (-) One(p)]
          PROVE  \A d \in Clients : BagToSet(toClient'[d]) \subseteq BagToSet(toClient[d])
      BY <2>7, <3>1, BagMembers
    <3>2. QED
      BY <2>1, <2>3, <2>8, <3>1 DEF Lose
  <2>9. ASSUME NEW c \in Clients, CtrlStep(c)
        PROVE  \A d \in Clients : BagToSet(toClient'[d]) \subseteq BagToSet(toClient[d])
    <3>1. CASE \E why : Exit(c, why)
      BY <2>7, <3>1, BagMembers DEF Exit
    <3>2. ASSUME NEW p, toClient' = [toClient EXCEPT ![c] = @ (-) One(p)]
          PROVE  \A d \in Clients : BagToSet(toClient'[d]) \subseteq BagToSet(toClient[d])
      BY <2>7, <3>2, BagMembers
    <3>3. CASE UNCHANGED toClient
      BY <3>3
    <3>4. QED
      BY <2>9, <3>1, <3>2, <3>3 DEF CtrlStep, StartFails, Start, Answer, NoAnswer
  <2>10. QED
    BY <2>1, <2>3, <2>4, <2>5, <2>6, <2>8, <2>9, Steps DEF Quiet, netVars
<1>7. QED
  BY <1>4, <1>5, <1>6 DEF SuccessKnown

LEMMA SuccessKnownMeans == SuccessKnown => SuccessMeansCalled
BY DEF SuccessKnown, SuccessMeansCalled, CalledFor

--------------------------------------------------------------------------------
(* Counting: a datagram is sent once, and copied by the network alone. *)

CommandOf(c) == Datagram(c, "full", sent[c])
Reached(c) == Count(arrived, Len(arrived), c)
TakenFrom(c) == Count(arrived, Len(arrived) - Len(inbox), c)
Served(c) == Count(calls, Len(calls), c)
InHand(c) == IF main = "act" /\ peer = c THEN 1 ELSE 0

WireKnown(c) ==
  Reached(c) + Copies(CommandOf(c), toServer)
    <= IF sent[c] = NoPacket THEN 0 ELSE 1 + duplicates
ServedKnown(c) == Served(c) + InHand(c) <= TakenFrom(c)
CountsKnown == \A c \in Clients : WireKnown(c) /\ ServedKnown(c)

LEMMA CountSame ==
  ASSUME NEW s, NEW t, NEW n \in Nat, NEW c, \A i \in 1..n : t[i] = s[i]
  PROVE  Count(t, n, c) = Count(s, n, c)
<1>1. From(t, n, c) = From(s, n, c)
  BY DEF From
<1>2. QED
  BY <1>1 DEF Count

LEMMA WireTypes ==
  ASSUME NetKnown, ArrivalsKnown, NEW c \in Clients
  PROVE  /\ Reached(c) \in Nat /\ Copies(CommandOf(c), toServer) \in Nat
         /\ duplicates \in Nat
         /\ sent[c] = NoPacket => CommandOf(c) \notin BagToSet(toServer)
         /\ \A d \in BagToSet(toServer) : d.from = c => d = CommandOf(c)
<1>1. Len(arrived) \in Nat
  BY LenProperties DEF ArrivalsKnown
<1>2. \A d \in BagToSet(toServer) : d.from = c => d = CommandOf(c) /\ d.packet # NoPacket
  BY DEF NetKnown, Genuine, AnyDatagram, CommandOf, Datagram
<1>3. Reached(c) \in Nat
  BY <1>1, CountType DEF Reached
<1>4. Copies(CommandOf(c), toServer) \in Nat
  BY BagCopies DEF NetKnown
<1>5. sent[c] = NoPacket => CommandOf(c) \notin BagToSet(toServer)
  BY <1>2 DEF CommandOf, Datagram
<1>6. QED
  BY <1>2, <1>3, <1>4, <1>5, NetworkAssumption DEF NetKnown

LEMMA WireKnownStep ==
  ASSUME CtrlInv, NetKnown, ArrivalsKnown, CountsKnown, [Next]_vars, NEW c \in Clients
  PROVE  WireKnown(c)'
<1> DEFINE d == CommandOf(c)
<1>1. /\ Reached(c) \in Nat /\ Copies(d, toServer) \in Nat /\ duplicates \in Nat
      /\ sent[c] = NoPacket => d \notin BagToSet(toServer)
      /\ \A e \in BagToSet(toServer) : e.from = c => e = d
      /\ WireKnown(c) /\ IsABag(toServer)
  BY WireTypes DEF CountsKnown, NetKnown
<1>2. ASSUME UNCHANGED <<arrived, toServer, duplicates>>, sent'[c] = sent[c]
      PROVE  WireKnown(c)'
  BY <1>1, <1>2 DEF WireKnown, Reached, CommandOf
<1>3. ASSUME sent'[c] = sent[c] PROVE CommandOf(c)' = d
  BY <1>3 DEF CommandOf
<1>4. CASE UNCHANGED ctrlVars /\ Receive
  <2>1. PICK e \in BagToSet(toServer) :
          /\ toServer' = toServer (-) One(e) /\ arrived' = Append(arrived, e)
          /\ UNCHANGED duplicates
    BY <1>4 DEF Receive, Arrive
  <2>2. e \in AnyDatagram /\ Len(arrived) \in Nat
    BY LenProperties DEF NetKnown, Genuine, ArrivalsKnown
  <2>3. /\ Len(arrived') = Len(arrived) + 1 /\ arrived'[Len(arrived) + 1] = e
        /\ \A i \in 1..Len(arrived) : arrived'[i] = arrived[i]
    BY <2>1, <2>2, AppendProperties DEF ArrivalsKnown
  <2>4. Reached(c)' = Reached(c) + (IF e.from = c THEN 1 ELSE 0)
    <3>1. Count(Append(arrived, e), Len(arrived) + 1, c) =
            Count(arrived, Len(arrived), c) + (IF e.from = c THEN 1 ELSE 0)
      BY <2>2, CountAppend DEF ArrivalsKnown
    <3>2. QED
      BY <2>1, <2>3, <3>1 DEF Reached
  <2>5. Copies(d, toServer') + (IF e = d THEN 1 ELSE 0) = Copies(d, toServer)
        /\ Copies(d, toServer') \in Nat
    <3>1. /\ IsABag(toServer (-) One(e))
          /\ Copies(d, toServer (-) One(e)) + (IF e = d THEN 1 ELSE 0) = Copies(d, toServer)
      BY <1>1, BagCopies
    <3>2. Copies(d, toServer (-) One(e)) \in Nat
      BY <3>1, BagCopies
    <3>3. QED
      BY <2>1, <3>1, <3>2
  <2>6. e.from = c => e = d
    BY <1>1
  <2>7. sent' = sent /\ CommandOf(c)' = d
    BY <1>3, <1>4 DEF ctrlVars
  <2> HIDE DEF d
  <2>8. QED
    BY <1>1, <2>1, <2>4, <2>5, <2>6, <2>7 DEF WireKnown, d
<1>5. CASE (Lose \/ Duplicate \/ SendStray) /\ UNCHANGED <<serverVars, ctrlVars>>
  <2>1. CommandOf(c)' = d /\ Reached(c)' = Reached(c) /\ sent' = sent
    BY <1>3, <1>5 DEF ctrlVars, serverVars, Reached
  <2>2. CASE Lose
    <3>1. CASE UNCHANGED toServer
      BY <1>2, <1>5, <2>2, <3>1 DEF Lose, ctrlVars, serverVars
    <3>2. CASE \E e \in BagToSet(toServer) : toServer' = toServer (-) One(e)
      <4>1. Copies(d, toServer') <= Copies(d, toServer) /\ Copies(d, toServer') \in Nat
        BY <1>1, <3>2, BagCopies
      <4> HIDE DEF d
      <4>2. QED
        BY <1>1, <2>1, <2>2, <4>1 DEF Lose, WireKnown, d
    <3>3. QED
      BY <2>2, <3>1, <3>2 DEF Lose
  <2>3. CASE Duplicate
    <3>1. PICK e \in BagToSet(toServer) : toServer' = toServer (+) One(e)
      BY <2>3 DEF Duplicate, SendToServer
    <3>2. /\ Copies(d, toServer') = Copies(d, toServer) + (IF e = d THEN 1 ELSE 0)
          /\ duplicates' = duplicates + 1
      BY <1>1, <2>3, <3>1, BagCopies DEF Duplicate
    <3> HIDE DEF d
    <3>3. QED
      BY <1>1, <2>1, <3>2 DEF WireKnown, d
  <2>4. CASE SendStray
    <3>1. PICK kind : toServer' = toServer (+) One(Datagram(Stray, kind, NoPacket))
      BY <2>4 DEF SendStray, SendToServer
    <3>2. Datagram(Stray, kind, NoPacket) # d
      BY NetworkAssumption DEF Datagram, CommandOf
    <3>3. Copies(d, toServer') = Copies(d, toServer) /\ UNCHANGED duplicates
      BY <1>1, <2>4, <3>1, <3>2, BagCopies DEF SendStray
    <3> HIDE DEF d
    <3>4. QED
      BY <1>1, <2>1, <3>3 DEF WireKnown, d
  <2>5. QED
    BY <1>5, <2>2, <2>3, <2>4
<1>6. ASSUME NEW b \in Clients, CtrlStep(b), UNCHANGED serverVars PROVE WireKnown(c)'
  <2>1. CASE UNCHANGED <<toServer, sent, duplicates>>
    BY <1>2, <1>6, <2>1 DEF serverVars
  <2>2. CASE Start(b)
    <3>1. PICK line \in CommandLines :
            /\ Parse(line).exit = "none"
            /\ sent' = [sent EXCEPT ![b] = Parse(line).packet]
            /\ \/ toServer' = toServer (+) One(Datagram(b, "full", Parse(line).packet))
               \/ UNCHANGED toServer
      BY <2>2 DEF Start, SendToServer
    <3>2. /\ UNCHANGED <<arrived, duplicates>> /\ Reached(c)' = Reached(c)
          /\ sent[b] = NoPacket /\ sent \in [Clients -> Commands \cup {NoPacket}]
      BY <1>6, <2>2 DEF Start, serverVars, Reached, CtrlInv, ClientTypes, ClientKnown
    <3>3. CASE b # c
      <4>1. sent'[c] = sent[c] /\ CommandOf(c)' = d
        BY <1>3, <3>1, <3>2, <3>3
      <4>2. Datagram(b, "full", Parse(line).packet) # d
        BY <3>3 DEF Datagram, CommandOf
      <4>3. Copies(d, toServer') = Copies(d, toServer)
        BY <1>1, <3>1, <4>2, BagCopies
      <4> HIDE DEF d
      <4>4. QED
        BY <1>1, <3>2, <4>1, <4>3 DEF WireKnown, d
    <3>4. CASE b = c
      <4> DEFINE e == Datagram(c, "full", Parse(line).packet)
      <4>1. Parse(line).packet \in Commands /\ Parse(line).packet # NoPacket
        BY <3>1, CommandLineAssumption, ParseCorrect, CommandIsNotNop
      <4>2. sent'[c] = Parse(line).packet /\ CommandOf(c)' = e /\ sent'[c] # NoPacket
        BY <3>1, <3>2, <3>4, <4>1 DEF CommandOf
      <4>3. e \notin BagToSet(toServer)
        BY <1>1, <3>2, <3>4 DEF Datagram
      <4>4. Copies(e, toServer') \in {0, 1}
        BY <1>1, <3>1, <3>4, <4>3, BagCopies
      <4>5. Reached(c) = 0
        BY <1>1, <3>2, <3>4 DEF WireKnown
      <4> HIDE DEF e
      <4>6. QED
        BY <1>1, <3>2, <4>2, <4>4, <4>5 DEF WireKnown
    <3>5. QED
      BY <3>3, <3>4
  <2>3. QED
    BY <1>6, <2>1, <2>2 DEF CtrlStep, StartFails, Answer, NoAnswer
<1>7. CASE UNCHANGED ctrlVars /\ (Read \/ ActSet \/ ActList \/ ActUnknown \/ ListName
                                  \/ ListEnd \/ Reply \/ LedApplies \/ LedEndsAlert)
  <2>1. UNCHANGED <<arrived, toServer, duplicates>>
    BY <1>7 DEF Read, ActSet, ActList, ActUnknown, ListName, ListEnd, Reply, LedApplies,
       LedEndsAlert, LedWorks, history, netVars
  <2>2. QED
    BY <1>2, <1>7, <2>1 DEF ctrlVars
<1>8. CASE Quiet
  BY <1>2, <1>8 DEF Quiet, netVars, ctrlVars
<1>9. QED
  BY <1>4, <1>5, <1>6, <1>7, <1>8, Steps

LEMMA ServedKnownStep ==
  ASSUME NetKnown, ArrivalsKnown, RequestKnown, CallsKnown, CountsKnown, [Next]_vars,
         NEW c \in Clients
  PROVE  ServedKnown(c)'
<1> DEFINE n == Len(arrived) - Len(inbox)
<1>1. /\ n \in Nat /\ Len(arrived) \in Nat /\ Len(inbox) \in Nat /\ n <= Len(arrived)
      /\ Len(calls) \in Nat
  BY TakenFacts, LenProperties DEF ArrivalsKnown, CallsKnown
<1>2. Served(c) \in Nat /\ TakenFrom(c) \in Nat /\ ServedKnown(c)
  BY <1>1, CountType DEF Served, TakenFrom, CountsKnown
<1>3. CASE ~Read /\ (UNCHANGED <<arrived, inbox>> \/ Receive)
  <2>1. TakenFrom(c)' = TakenFrom(c)
    <3>1. CASE UNCHANGED <<arrived, inbox>>
      BY <3>1 DEF TakenFrom
    <3>2. CASE Receive
      <4>1. PICK e \in BagToSet(toServer) :
              inbox' = Append(inbox, e) /\ arrived' = Append(arrived, e)
        BY <3>2 DEF Receive, Arrive
      <4>2. e \in AnyDatagram
        BY DEF NetKnown, Genuine
      <4>3. /\ Len(inbox') = Len(inbox) + 1 /\ Len(arrived') = Len(arrived) + 1
            /\ \A i \in 1..Len(arrived) : arrived'[i] = arrived[i]
        BY <4>1, <4>2, AppendProperties DEF ArrivalsKnown
      <4>4. Len(arrived') - Len(inbox') = n /\ \A i \in 1..n : arrived'[i] = arrived[i]
        BY <1>1, <4>3
      <4> HIDE DEF n
      <4>5. Count(arrived', n, c) = Count(arrived, n, c)
        <5>1. \A t : (\A i \in 1..n : t[i] = arrived[i])
                      => Count(t, n, c) = Count(arrived, n, c)
          BY <1>1, CountSame
        <5>2. QED
          BY <4>4, <5>1
      <4>6. QED
        BY <4>4, <4>5 DEF TakenFrom, n
    <3>3. QED
      BY <1>3, <3>1, <3>2
  <2>2. CASE ActSet
    <3>1. /\ Len(calls') = Len(calls) + 1 /\ \A i \in 1..Len(calls) : calls'[i] = calls[i]
          /\ calls'[Len(calls) + 1].from = peer
      BY <2>2, OneCall
    <3>2. Served(c)' = Served(c) + (IF peer = c THEN 1 ELSE 0)
      <4>1. Count(calls', Len(calls) + 1, c) = Count(calls, Len(calls), c)
                + (IF calls'[Len(calls) + 1].from = c THEN 1 ELSE 0)
        <5>1. \A t : (\A i \in 1..Len(calls) : t[i] = calls[i]) =>
                Count(t, Len(calls) + 1, c) = Count(calls, Len(calls), c)
                    + (IF t[Len(calls) + 1].from = c THEN 1 ELSE 0)
          BY <1>1, CountMore
        <5>2. QED
          BY <3>1, <5>1
      <4>2. QED
        BY <3>1, <4>1 DEF Served
    <3>3. main = "act" /\ main' = "reply"
      BY <2>2 DEF ActSet, Step
    <3>4. QED
      BY <1>2, <2>1, <3>2, <3>3 DEF ServedKnown, InHand
  <2>3. CASE UNCHANGED calls /\ (main' = "act" => main = "act" /\ peer' = peer)
    BY <1>2, <2>1, <2>3 DEF ServedKnown, InHand, Served
  <2>4. CASE ActList \/ ActUnknown \/ ListName \/ ListEnd \/ Reply
    BY <2>3, <2>4 DEF ActList, ActUnknown, ListName, ListEnd, Reply, Step, history
  <2>5. CASE LedApplies \/ LedEndsAlert
    BY <2>3, <2>5 DEF LedApplies, LedEndsAlert, LedWorks, history, requestVars
  <2>6. CASE Receive
    BY <2>3, <2>6 DEF Receive, Arrive, Raise, Die, requestVars
  <2>7. CASE UNCHANGED serverVars
    BY <2>3, <2>7 DEF serverVars
  <2>8. CASE Quiet
    BY <2>3, <2>8 DEF Quiet, Handling
  <2>9. QED
    BY <1>3, <2>2, <2>4, <2>5, <2>6, <2>7, <2>8, Steps
<1>4. CASE Read
  <2>1. /\ main = "read" /\ UNCHANGED <<arrived, calls>> /\ inbox # <<>> /\ inbox' = Tail(inbox)
        /\ main' = "act" => peer' = Head(inbox).from
    BY <1>4 DEF Read, history
  <2>2. /\ Len(inbox') = Len(inbox) - 1 /\ Head(inbox) = arrived[n + 1]
    BY <2>1, InboxHead
  <2>3. TakenFrom(c)' = TakenFrom(c) + (IF Head(inbox).from = c THEN 1 ELSE 0)
    <3>1. Len(arrived') - Len(inbox') = n + 1
      BY <1>1, <2>1, <2>2
    <3> HIDE DEF n
    <3>2. Count(arrived, n + 1, c) = Count(arrived, n, c)
                                     + (IF Head(inbox).from = c THEN 1 ELSE 0)
      BY <1>1, <2>2, CountMore
    <3>3. QED
      BY <2>1, <3>1, <3>2 DEF TakenFrom, n
  <2>4. Served(c)' = Served(c)
    BY <2>1 DEF Served
  <2>5. QED
    BY <1>2, <2>1, <2>3, <2>4 DEF ServedKnown, InHand
<1>5. CASE ~Read /\ ~Receive
  <2>1. UNCHANGED <<arrived, inbox>>
    BY <1>5, Steps DEF Quiet, ActSet, ActList, ActUnknown, ListName, ListEnd, Reply,
       LedApplies, LedEndsAlert, LedWorks, history, serverVars
  <2>2. QED
    BY <1>3, <1>5, <2>1
<1>6. QED
  BY <1>3, <1>4, <1>5

LEMMA CountsKnownMeans ==
  ASSUME NetKnown, ArrivalsKnown, CallsKnown, CountsKnown
  PROVE  ServedOnce
<1> SUFFICES ASSUME NEW c \in Clients
             PROVE  Cardinality({i \in 1..Len(calls) : calls[i].from = c}) <= 1 + duplicates
  BY DEF ServedOnce
<1>1. Cardinality({i \in 1..Len(calls) : calls[i].from = c}) = Served(c)
  BY DEF Served, Count, From
<1>2. Served(c) <= TakenFrom(c) /\ Served(c) \in Nat /\ TakenFrom(c) \in Nat /\ TakenFrom(c) <= Reached(c)
  <2>1. /\ Len(arrived) - Len(inbox) \in Nat /\ Len(arrived) \in Nat /\ Len(calls) \in Nat
        /\ Len(arrived) - Len(inbox) <= Len(arrived)
    BY TakenFacts, LenProperties DEF CallsKnown, ArrivalsKnown
  <2>2. Served(c) \in Nat /\ TakenFrom(c) \in Nat /\ TakenFrom(c) <= Reached(c)
    BY <2>1, CountType, CountUpTo DEF Served, TakenFrom, Reached
  <2>3. QED
    BY <2>2 DEF CountsKnown, ServedKnown, InHand
<1>3. Reached(c) <= 1 + duplicates
  BY WireTypes DEF CountsKnown, WireKnown
<1>4. QED
  BY <1>1, <1>2, <1>3, WireTypes

--------------------------------------------------------------------------------
(* The queue and the mood: what waits are the last of the calls that were    *)
(* queued, in order; the mood is that of the last one before them.           *)

RequestOf(call) ==
  [opcode |-> call.opcode, param |-> IF call.opcode = "SET_LEDS_OFF" THEN NoName ELSE call.param]
AnyOperation == [id : Nat, opcode : SetOpcodes, param : Names]
Waits(k) == \E i \in 1..Len(queue) : queue[i].id = k

Queued(i) ==
  LET k == queue[i].id IN
    /\ k \in 1..Len(calls) /\ calls[k].queued
    /\ RequestOf(calls[k]) \in Requests /\ queue[i] = Operation(k, RequestOf(calls[k]))
QueueKnown ==
  /\ queue \in Seq(AnyOperation)
  /\ \A i \in 1..Len(queue) : Queued(i)
  /\ \A i, j \in 1..Len(queue) : i < j => queue[i].id < queue[j].id
  /\ \A k \in 1..Len(calls) : \A i \in 1..Len(queue) :
       calls[k].queued /\ queue[i].id < k => Waits(k)

(* the calls for a mood that have taken effect                               *)
Moods == {k \in 1..Len(calls) : calls[k].queued /\ ~Waits(k) /\ calls[k].opcode # "SET_ALERT"}
IsLast(k, S) == k \in S /\ \A j \in S : j <= k
MoodKnown ==
  /\ Moods = {} => mood = NoName
  /\ Moods # {} => \E k \in Moods : IsLast(k, Moods) /\ mood = RequestOf(calls[k]).param

LEMMA ActSetQueues ==
  ASSUME RequestKnown, CallsKnown, QueueKnown, ActSet
  PROVE  /\ Len(calls) \in Nat /\ Len(queue) \in Nat
         /\ calls'[Len(calls) + 1].queued <=> device
         /\ UNCHANGED mood
         /\ ~device => UNCHANGED queue
         /\ device => /\ queue' \in Seq(AnyOperation) /\ Len(queue') = Len(queue) + 1
                      /\ \A i \in 1..Len(queue) : queue'[i] = queue[i]
                      /\ queue'[Len(queue) + 1]
                           = Operation(Len(calls) + 1, RequestOf(calls'[Len(calls) + 1]))
         /\ RequestOf(calls'[Len(calls) + 1]) \in Requests
<1> DEFINE n == Len(calls) + 1
           o == Operation(n, Request)
<1>1. /\ calls'[n] = [from |-> peer, opcode |-> pkt.opcode, param |-> pkt.data,
                      queued |-> device]
      /\ pkt.opcode \in SetOpcodes /\ pkt \in Commands /\ Len(calls) \in Nat
  BY OneCall
<1>2. Request = RequestOf(calls'[n])
  BY <1>1 DEF Request, RequestOf
<1>3. Request \in Requests
  <2>1. pkt = Packet(pkt.opcode, pkt.data)
    BY <1>1, PacketFacts
  <2>2. CASE pkt.opcode = "SET_LEDS_OFF"
    BY <2>2 DEF Request, Requests
  <2>3. CASE pkt.opcode = "SET_ALERT"
    <3>1. pkt.data \in AlertNames \cup {NoName}
      BY <1>1, <2>3 DEF Commands, ListOpcodes
    <3>2. QED
      BY <2>3, <3>1 DEF Request, Requests
  <2>4. CASE pkt.opcode = "SET_MOODLIGHT"
    <3>1. pkt.data \in MoodNames \cup {NoName}
      BY <1>1, <2>4 DEF Commands, ListOpcodes
    <3>2. QED
      BY <2>4, <3>1 DEF Request, Requests
  <2>5. QED
    BY <1>1, <2>2, <2>3, <2>4 DEF SetOpcodes
<1>4. Request.opcode \in SetOpcodes /\ Request.param \in Names
  BY <1>3 DEF Requests, SetOpcodes, Names
<1>5. o \in AnyOperation
  BY <1>1, <1>4 DEF Operation, AnyOperation
<1>6. Len(queue) \in Nat
  BY LenProperties DEF QueueKnown
<1>7. CASE device
  <2>1. queue' = Append(queue, o) /\ UNCHANGED mood
    BY <1>7 DEF ActSet, Push, Service!Submit
  <2> HIDE DEF o
  <2>2. /\ queue' \in Seq(AnyOperation) /\ Len(queue') = Len(queue) + 1
        /\ \A i \in 1..Len(queue) : queue'[i] = queue[i]
        /\ queue'[Len(queue) + 1] = o
    BY <1>5, <2>1, AppendProperties DEF QueueKnown
  <2>3. calls'[n].queued <=> device
    BY <1>1
  <2>4. QED
    BY <1>1, <1>2, <1>3, <1>6, <1>7, <2>1, <2>2, <2>3 DEF o
<1>8. CASE ~device
  <2>1. UNCHANGED <<queue, mood>>
    BY <1>8 DEF ActSet, Push, serviceVars
  <2>2. calls'[n].queued <=> device
    BY <1>1
  <2>3. QED
    BY <1>1, <1>2, <1>3, <1>6, <1>8, <2>1, <2>2
<1>9. QED
  BY <1>7, <1>8

(* The LED thread takes the oldest operation.                                *)
LEMMA ApplyTakes ==
  ASSUME QueueKnown, LedApplies
  PROVE  /\ Len(queue) \in Nat \ {0} /\ UNCHANGED calls
         /\ queue' \in Seq(AnyOperation) /\ Len(queue') = Len(queue) - 1
         /\ \A i \in 1..Len(queue') : queue'[i] = queue[i + 1]
         /\ \/ queue[1].opcode = "SET_LEDS_OFF" /\ mood' = NoName /\ UNCHANGED playing
            \/ queue[1].opcode = "SET_MOODLIGHT" /\ mood' = queue[1].param /\ UNCHANGED playing
            \/ queue[1].opcode = "SET_ALERT" /\ UNCHANGED mood /\ playing' = queue[1].param
<1>1. queue # <<>> /\ queue' = Tail(queue) /\ UNCHANGED calls
  BY DEF LedApplies, LedWorks, Service!Apply, history
<1>2. Len(queue) \in Nat /\ Len(queue) # 0 /\ Head(queue) = queue[1]
  BY <1>1, LenProperties, EmptySeq DEF QueueKnown
<1>3. /\ queue' \in Seq(AnyOperation) /\ Len(queue') = Len(queue) - 1
      /\ \A i \in 1..Len(queue') : queue'[i] = queue[i + 1]
  BY <1>1, HeadTailProperties DEF QueueKnown
<1>4. \/ queue[1].opcode = "SET_LEDS_OFF" /\ mood' = NoName /\ UNCHANGED playing
      \/ queue[1].opcode = "SET_MOODLIGHT" /\ mood' = queue[1].param /\ UNCHANGED playing
      \/ queue[1].opcode = "SET_ALERT" /\ UNCHANGED mood /\ playing' = queue[1].param
  <2>1. LET o == Head(queue) IN
          \/ o.opcode = "SET_LEDS_OFF" /\ mood' = NoName /\ UNCHANGED playing
          \/ o.opcode = "SET_MOODLIGHT" /\ mood' = o.param /\ UNCHANGED playing
          \/ o.opcode = "SET_ALERT" /\ playing' = o.param /\ UNCHANGED mood
    <3>1. Service!Apply
      BY DEF LedApplies, LedWorks
    <3>2. QED
      BY <3>1 DEF Service!Apply, Service!NoName, NoName
  <2>2. QED
    BY <1>2, <2>1
<1>5. QED
  BY <1>1, <1>2, <1>3, <1>4

LEMMA NothingQueued ==
  ASSUME [Next]_vars, ~ActSet, ~LedApplies
  PROVE  UNCHANGED <<queue, calls, mood>>
BY Steps DEF Quiet, Read, ActList, ActUnknown, ListName, ListEnd, Reply, LedEndsAlert,
   LedWorks, Service!AlertEnds, Receive, Arrive, serverVars, ledVars, serviceVars, history

LEMMA QueueKnownStep ==
  ASSUME RequestKnown, CallsKnown, QueueKnown, [Next]_vars
  PROVE  QueueKnown'
<1>1. CASE ActSet
  <2> DEFINE n == Len(calls) + 1
             m == Len(queue) + 1
  <2>1. /\ Len(calls) \in Nat /\ Len(queue) \in Nat /\ Len(calls') = n
        /\ \A k \in 1..Len(calls) : calls'[k] = calls[k]
        /\ calls'[n].queued <=> device
        /\ RequestOf(calls'[n]) \in Requests
        /\ \A i \in 1..Len(queue) : queue[i].id \in 1..Len(calls) /\ Queued(i)
    BY <1>1, OneCall, ActSetQueues DEF QueueKnown, Queued
  <2>2. \A k \in 1..n : k \in 1..Len(calls) \/ k = n
    BY <2>1
  <2>3. CASE ~device
    <3>1. queue' = queue
      BY <1>1, <2>3, ActSetQueues
    <3>2. ASSUME NEW i \in 1..Len(queue) PROVE Queued(i)'
      <4>1. queue[i].id \in 1..Len(calls') /\ calls'[queue[i].id] = calls[queue[i].id]
        BY <2>1
      <4>2. Queued(i)
        BY <2>1
      <4>3. QED
        BY <3>1, <4>1, <4>2 DEF Queued
    <3>3. \A k : Waits(k)' <=> Waits(k)
      BY <3>1 DEF Waits
    <3>4. \A k \in 1..Len(calls') : \A i \in 1..Len(queue') :
            calls'[k].queued /\ queue'[i].id < k => Waits(k)'
      BY <2>1, <2>2, <2>3, <3>1, <3>3 DEF QueueKnown
    <3>5. QED
      BY <3>1, <3>2, <3>4 DEF QueueKnown
  <2>4. CASE device
    <3>1. /\ queue' \in Seq(AnyOperation) /\ Len(queue') = m
          /\ \A i \in 1..Len(queue) : queue'[i] = queue[i]
          /\ queue'[m] = Operation(n, RequestOf(calls'[n]))
          /\ queue'[m].id = n
      BY <1>1, <2>4, ActSetQueues DEF Operation
    <3>2. \A i \in 1..m : i \in 1..Len(queue) \/ i = m
      BY <2>1
    <3>3. \A i \in 1..Len(queue') : Queued(i)'
      <4>1. ASSUME NEW i \in 1..Len(queue) PROVE Queued(i)'
        <5>1. queue'[i] = queue[i] /\ queue[i].id \in 1..Len(calls')
              /\ calls'[queue[i].id] = calls[queue[i].id]
          BY <2>1, <3>1
        <5>2. Queued(i)
          BY <2>1
        <5>3. QED
          BY <5>1, <5>2 DEF Queued
      <4>2. ASSUME NEW i, i = m PROVE Queued(i)'
        <5>1. n \in 1..Len(calls') /\ calls'[n].queued
          BY <2>1, <2>4
        <5>2. queue'[i] = Operation(n, RequestOf(calls'[n])) /\ queue'[i].id = n
          BY <3>1, <4>2
        <5>3. RequestOf(calls'[n]) \in Requests
          BY <2>1
        <5> HIDE DEF n
        <5>4. QED
          BY <5>1, <5>2, <5>3 DEF Queued
      <4>3. QED
        BY <3>1, <3>2, <4>1, <4>2
    <3>4. ASSUME NEW i \in 1..Len(queue'), NEW j \in 1..Len(queue'), i < j
          PROVE  queue'[i].id < queue'[j].id
      <4>1. i \in 1..Len(queue)
        BY <2>1, <3>1, <3>4
      <4>2. QED
        BY <2>1, <3>1, <3>2, <3>4, <4>1 DEF QueueKnown
    <3>5. ASSUME NEW k \in 1..Len(calls'), NEW i \in 1..Len(queue'),
                 calls'[k].queued, queue'[i].id < k
          PROVE  Waits(k)'
      <4>1. CASE k = n
        <5>1. m \in 1..Len(queue')
          BY <2>1, <3>1
        <5>2. QED
          BY <3>1, <4>1, <5>1 DEF Waits
      <4>2. CASE k # n
        <5>1. k \in 1..Len(calls) /\ calls[k].queued /\ i \in 1..Len(queue)
              /\ queue[i].id < k
          BY <2>1, <2>2, <3>1, <3>2, <3>5, <4>2
        <5>2. PICK j \in 1..Len(queue) : queue[j].id = k
          BY <5>1 DEF QueueKnown, Waits
        <5>3. j \in 1..Len(queue') /\ queue'[j].id = k
          BY <2>1, <3>1, <5>2
        <5>4. QED
          BY <5>3 DEF Waits
      <4>3. QED
        BY <4>1, <4>2
    <3>6. QED
      BY <3>1, <3>3, <3>4, <3>5 DEF QueueKnown
  <2>5. QED
    BY <2>3, <2>4
<1>2. CASE LedApplies
  <2>1. /\ Len(queue) \in Nat \ {0} /\ UNCHANGED calls
        /\ queue' \in Seq(AnyOperation) /\ Len(queue') = Len(queue) - 1
        /\ \A i \in 1..Len(queue') : queue'[i] = queue[i + 1]
    BY <1>2, ApplyTakes
  <2>2. \A i \in 1..Len(queue') : i + 1 \in 1..Len(queue)
    BY <2>1
  <2>3. \A i \in 1..Len(queue') : Queued(i)'
    BY <2>1, <2>2 DEF QueueKnown, Queued
  <2>4. \A i, j \in 1..Len(queue') : i < j => queue'[i].id < queue'[j].id
    BY <2>1, <2>2 DEF QueueKnown
  <2>5. ASSUME NEW k \in 1..Len(calls'), NEW i \in 1..Len(queue'),
               calls'[k].queued, queue'[i].id < k
        PROVE  Waits(k)'
    <3>1. k \in 1..Len(calls) /\ calls[k].queued /\ queue[i + 1].id < k
      BY <2>1, <2>5
    <3>2. PICK j \in 1..Len(queue) : queue[j].id = k
      BY <2>2, <3>1 DEF QueueKnown, Waits
    <3>3. j # 1
      <4>1. queue[1].id < queue[i + 1].id
        BY <2>1, <2>2 DEF QueueKnown
      <4>2. queue[1].id \in Nat /\ queue[i + 1].id \in Nat
        BY <2>1, <2>2 DEF QueueKnown, Queued
      <4>3. QED
        BY <3>1, <3>2, <4>1, <4>2
    <3>4. j - 1 \in 1..Len(queue') /\ queue'[j - 1].id = k
      BY <2>1, <3>2, <3>3
    <3>5. QED
      BY <3>4 DEF Waits
  <2>6. QED
    BY <2>1, <2>3, <2>4, <2>5 DEF QueueKnown
<1>3. CASE ~ActSet /\ ~LedApplies
  <2>1. UNCHANGED <<queue, calls>>
    BY <1>3, NothingQueued
  <2>2. QED
    BY <2>1 DEF QueueKnown, Queued, Waits
<1>4. QED
  BY <1>1, <1>2, <1>3

LEMMA MoodKnownStep ==
  ASSUME RequestKnown, CallsKnown, QueueKnown, MoodKnown, [Next]_vars
  PROVE  MoodKnown'
<1>1. CASE ActSet
  <2>0. PICK n, m : n = Len(calls) + 1 /\ m = Len(queue) + 1
    OBVIOUS
  <2>1. /\ n = Len(calls) + 1 /\ m = Len(queue) + 1
        /\ Len(calls) \in Nat /\ Len(queue) \in Nat /\ Len(calls') = n
        /\ \A k \in 1..Len(calls) : calls'[k] = calls[k]
        /\ calls'[n].queued <=> device
        /\ UNCHANGED mood
        /\ \A i \in 1..Len(queue) : queue[i].id \in 1..Len(calls)
    BY <1>1, <2>0, OneCall, ActSetQueues DEF QueueKnown, Queued
  <2>2. \A k \in 1..n : k \in 1..Len(calls) \/ k = n
    BY <2>1
  <2>3. /\ \A k \in 1..Len(calls) : Waits(k)' <=> Waits(k)
        /\ device => Waits(n)'
    <3>1. CASE ~device
      BY <1>1, <3>1, ActSetQueues DEF Waits
    <3>2. CASE device
      <4>1. /\ Len(queue') = m /\ \A i \in 1..Len(queue) : queue'[i] = queue[i]
            /\ queue'[m].id = n
        BY <1>1, <2>0, <3>2, ActSetQueues DEF Operation
      <4>2. \A i \in 1..m : i \in 1..Len(queue) \/ i = m
        BY <2>1
      <4>3. m \in 1..m /\ \A i \in 1..Len(queue) : i \in 1..m
        BY <2>1
      <4>4. ASSUME NEW k \in 1..Len(calls) PROVE Waits(k)' <=> Waits(k)
        <5>1. k # n
          BY <2>1
        <5>2. QED
          BY <4>1, <4>2, <4>3, <5>1 DEF Waits
      <4>5. Waits(n)'
        BY <4>1, <4>3 DEF Waits
      <4>6. QED
        BY <4>4, <4>5
    <3>3. QED
      BY <3>1, <3>2
  <2>4. \A k : k \in Moods' <=> k \in Moods
    <3>1. ASSUME NEW k \in Moods PROVE k \in Moods'
      BY <2>1, <2>3 DEF Moods
    <3>2. ASSUME NEW k \in Moods' PROVE k \in Moods
      <4>1. k # n
        BY <2>1, <2>3 DEF Moods
      <4>2. k \in 1..Len(calls)
        BY <2>1, <2>2, <4>1 DEF Moods
      <4>3. QED
        BY <2>1, <2>3, <4>2 DEF Moods
    <3>3. QED
      BY <3>1, <3>2
  <2>5. Moods' = Moods
    BY <2>4
  <2>6. \A k \in Moods : calls'[k] = calls[k]
    BY <2>1 DEF Moods
  <2>7. QED
    BY <2>1, <2>5, <2>6 DEF MoodKnown
<1>2. CASE LedApplies
  <2>0. PICK h : h = queue[1].id
    OBVIOUS
  <2>1. /\ Len(queue) \in Nat \ {0} /\ UNCHANGED calls /\ Len(queue') = Len(queue) - 1
        /\ \A i \in 1..Len(queue') : queue'[i] = queue[i + 1]
        /\ \/ queue[1].opcode = "SET_LEDS_OFF" /\ mood' = NoName
           \/ queue[1].opcode = "SET_MOODLIGHT" /\ mood' = queue[1].param
           \/ queue[1].opcode = "SET_ALERT" /\ UNCHANGED mood
    BY <1>2, ApplyTakes
  <2>2. /\ h \in 1..Len(calls) /\ calls[h].queued
        /\ queue[1].opcode = calls[h].opcode /\ queue[1].param = RequestOf(calls[h]).param
    <3>1. Queued(1)
      BY <2>1 DEF QueueKnown
    <3>2. QED
      BY <2>0, <3>1 DEF Queued, Operation, RequestOf
  <2>3. ASSUME NEW k PROVE Waits(k) <=> k = h \/ Waits(k)'
    <3>1. ASSUME Waits(k) PROVE k = h \/ Waits(k)'
      <4>1. PICK i \in 1..Len(queue) : queue[i].id = k
        BY <3>1 DEF Waits
      <4>2. CASE i # 1
        <5>1. i - 1 \in 1..Len(queue') /\ queue'[i - 1].id = k
          BY <2>1, <4>1, <4>2
        <5>2. QED
          BY <5>1 DEF Waits
      <4>3. QED
        BY <2>0, <4>1, <4>2
    <3>2. ASSUME Waits(k)' PROVE Waits(k)
      <4>1. PICK i \in 1..Len(queue') : queue'[i].id = k
        BY <3>2 DEF Waits
      <4>2. i + 1 \in 1..Len(queue) /\ queue[i + 1].id = k
        BY <2>1, <4>1
      <4>3. QED
        BY <4>2 DEF Waits
    <3>3. 1 \in 1..Len(queue)
      BY <2>1
    <3>4. QED
      BY <2>0, <3>1, <3>2, <3>3 DEF Waits
  <2>4. ~Waits(h)'
    <3>1. ASSUME NEW i \in 1..Len(queue'), queue'[i].id = h PROVE FALSE
      <4>1. i + 1 \in 1..Len(queue) /\ 1 \in 1..Len(queue) /\ 1 < i + 1
            /\ queue[i + 1].id = h
        BY <2>1, <3>1
      <4>2. queue[1].id < queue[i + 1].id
        BY <4>1 DEF QueueKnown
      <4>3. QED
        BY <2>0, <2>2, <4>1, <4>2
    <3>2. QED
      BY <3>1 DEF Waits
  <2>5. \A k \in Moods : k < h
    <3>1. ASSUME NEW k \in Moods PROVE k < h
      <4>1. k \in 1..Len(calls) /\ calls[k].queued /\ ~Waits(k)
        BY DEF Moods
      <4>2. ~(h < k)
        BY <2>0, <2>1, <4>1 DEF QueueKnown
      <4>3. k # h
        BY <2>3, <4>1
      <4>4. Len(calls) \in Nat
        BY LenProperties DEF CallsKnown
      <4>5. QED
        BY <2>2, <4>1, <4>2, <4>3, <4>4
    <3>2. QED
      BY <3>1
  <2>6. CASE calls[h].opcode = "SET_ALERT"
    <3>1. UNCHANGED mood
      BY <2>1, <2>2, <2>6
    <3>2. \A k : k \in Moods' <=> k \in Moods
      BY <2>1, <2>3, <2>6 DEF Moods
    <3>3. Moods' = Moods
      BY <3>2
    <3>4. QED
      BY <2>1, <3>1, <3>3 DEF MoodKnown
  <2>7. CASE calls[h].opcode # "SET_ALERT"
    <3>1. mood' = RequestOf(calls[h]).param
      BY <2>1, <2>2, <2>7 DEF RequestOf
    <3>2. \A k : k \in Moods' <=> k \in Moods \/ k = h
      BY <2>1, <2>2, <2>3, <2>4, <2>7 DEF Moods
    <3>3. Len(calls) \in Nat /\ h \in Nat
      BY <2>2, LenProperties DEF CallsKnown
    <3>4. IsLast(h, Moods')
      <4>1. \A k \in Moods' : k <= h
        BY <2>5, <3>2, <3>3 DEF Moods
      <4>2. QED
        BY <3>2, <4>1 DEF IsLast
    <3>5. h \in Moods' /\ calls' = calls
      BY <2>1, <3>2
    <3>6. QED
      BY <3>1, <3>4, <3>5 DEF MoodKnown
  <2>8. QED
    BY <2>6, <2>7
<1>3. CASE ~ActSet /\ ~LedApplies
  <2>1. UNCHANGED <<queue, calls, mood>>
    BY <1>3, NothingQueued
  <2>2. QED
    BY <2>1 DEF MoodKnown, Moods, Waits
<1>4. QED
  BY <1>1, <1>2, <1>3

LEMMA MoodKnownMeans ==
  ASSUME CallsKnown, QueueKnown, MoodKnown
  PROVE  ShowsLastArrival
<1> DEFINE s == Sets(Taken)
           moods == {i \in 1..Len(calls) : calls[i].queued /\ s[i].packet.opcode # "SET_ALERT"}
<1>1. SUFFICES ASSUME queue = <<>> PROVE mood = LastMood(s)
  BY DEF ShowsLastArrival
<1>2. \A i \in 1..Len(calls) : /\ calls[i].opcode = s[i].packet.opcode
                               /\ calls[i].param = s[i].packet.data
  BY DEF CallsKnown, Matches
<1>3. \A k : ~Waits(k)
  <2>1. Len(queue) = 0
    BY <1>1
  <2>2. QED
    BY <2>1 DEF Waits
<1> HIDE DEF s
<1>4. moods = Moods
  BY <1>2, <1>3 DEF Moods
<1>5. LastMood(s) = IF moods = {} \/ s[Max(moods)].packet.opcode = "SET_LEDS_OFF" THEN NoName
                    ELSE s[Max(moods)].packet.data
  BY DEF LastMood
<1>6. CASE Moods = {}
  BY <1>4, <1>5, <1>6 DEF MoodKnown
<1>7. CASE Moods # {}
  <2>1. PICK k \in Moods : IsLast(k, Moods) /\ mood = RequestOf(calls[k]).param
    BY <1>7 DEF MoodKnown
  <2>2. \A j \in Moods : j \in Int /\ j <= k
    BY <2>1 DEF IsLast, Moods
  <2>3. Max(moods) = k
    <3>1. \A j \in Moods : (\A i \in Moods : j >= i) => j = k
      BY <2>2
    <3>2. k \in Moods /\ \A j \in Moods : k >= j
      BY <2>2
    <3> HIDE DEF moods
    <3>3. QED
      BY <1>4, <3>1, <3>2 DEF Max
  <2>4. k \in 1..Len(calls)
    BY DEF Moods
  <2> HIDE DEF moods
  <2>5. QED
    BY <1>2, <1>4, <1>5, <1>7, <2>1, <2>3, <2>4 DEF RequestOf
<1>8. QED
  BY <1>6, <1>7

--------------------------------------------------------------------------------
(* The remaining variables, and the signals. *)

Mains == {"start", "socket", "bound", "async", "wait", "read", "act", "list", "reply",
          "join", "done", "dead"}
FlagTypes == device \in BOOLEAN /\ terminate \in BOOLEAN
StateTypes ==
  /\ main \in Mains /\ ledThread \in {"none", "running", "exited"}
  /\ pending \subseteq StopSignals \cup {"SIGIO"}
  /\ stoppedBy \in StopSignals \cup {"none", "SIGIO"}
  /\ playing \in AlertNames \cup {NoName} /\ mood \in MoodNames \cup {NoName}
  /\ printed \in [Clients -> Seq(Replies)]
BacklogKnown == silent \in 0..Len(arrived) /\ BacklogIsSilent

LEMMA FlagTypesStep == ASSUME FlagTypes, [Next]_vars PROVE FlagTypes'
<1> USE DEF FlagTypes
<1>1. CASE UNCHANGED <<device, terminate>>
  BY <1>1
<1>2. CASE WaitStop
  BY <1>2 DEF WaitStop
<1>3. CASE OpensDevice
  BY <1>3 DEF OpensDevice
<1>4. WaitStop \/ OpensDevice \/ UNCHANGED <<device, terminate>>
  <2>1. CASE Main
    BY <2>1 DEF Main, ServerStep, CreateThread, Bind, EnableAsync, BlockSignals, WaitIO, Read,
       ReadTimesOut, ActSet, ActList, ActUnknown, ListName, ListEnd, Reply, Join, ledVars
  <2>2. CASE Signals
    BY <2>2 DEF Signals, Kill, PendingKills, WaitFails, ledVars
  <2>3. CASE LedThread
    BY <2>3 DEF LedThread, LedApplies, LedEndsAlert, LedWorks, LedExits
  <2>4. CASE Control
    BY <2>4 DEF Control, serverVars
  <2>5. CASE Network
    BY <2>5 DEF Network, Receive, Arrive, ledVars, serverVars
  <2>6. CASE UNCHANGED vars
    BY <2>6 DEF vars, serverVars
  <2>7. QED
    BY <2>1, <2>2, <2>3, <2>4, <2>5, <2>6 DEF Next
<1>5. QED
  BY <1>1, <1>2, <1>3, <1>4

LEMMA RequestTypes ==
  ASSUME NEW r \in Requests
  PROVE  /\ r.opcode = "SET_ALERT" => r.param \in AlertNames \cup {NoName}
         /\ r.opcode = "SET_MOODLIGHT" => r.param \in MoodNames \cup {NoName}
BY DEF Requests

LEMMA StateTypesStep ==
  ASSUME CtrlInv, NetKnown, QueueKnown, StateTypes, [Next]_vars
  PROVE  StateTypes'
<1> DEFINE Loop == /\ main' \in Mains /\ ledThread' \in {"none", "running", "exited"}
                   /\ pending' \subseteq StopSignals \cup {"SIGIO"}
                   /\ stoppedBy' \in StopSignals \cup {"none", "SIGIO"}
<1>1. CASE Main
  <2>1. UNCHANGED <<playing, mood, printed>> /\ ServerStep
    BY <1>1 DEF Main, ctrlVars, ServerStep, CreateThread, Bind, EnableAsync, BlockSignals,
       WaitStop, WaitIO, Read, ReadTimesOut, ActSet, ActList, ActUnknown, ListName, ListEnd,
       Reply, Join, ledVars, serviceVars, Push, Service!Submit, Service!Close
  <2>2. Loop
    BY <2>1 DEF StateTypes, Mains, ServerStep, CreateThread, Bind, EnableAsync, BlockSignals,
       WaitStop, WaitIO, Read, ReadTimesOut, ActSet, ActList, ActUnknown, ListName, ListEnd,
       Reply, Join, ledVars, history, Step
  <2>3. QED
    BY <2>1, <2>2 DEF StateTypes
<1>2. CASE Signals
  BY <1>2 DEF Signals, Kill, Raise, Die, PendingKills, WaitFails, Step, ledVars, serviceVars,
     history, ctrlVars, StateTypes, Mains
<1>3. CASE LedThread
  <2>1. CASE LedApplies
    <3>1. UNCHANGED <<main, ledThread, pending, stoppedBy, printed>>
      BY <1>3, <2>1 DEF LedThread, LedApplies, LedWorks, history, ctrlVars
    <3>2. /\ Len(queue) \in Nat \ {0}
          /\ \/ queue[1].opcode = "SET_LEDS_OFF" /\ mood' = NoName /\ UNCHANGED playing
             \/ queue[1].opcode = "SET_MOODLIGHT" /\ mood' = queue[1].param
                /\ UNCHANGED playing
             \/ queue[1].opcode = "SET_ALERT" /\ UNCHANGED mood /\ playing' = queue[1].param
      BY <2>1, ApplyTakes
    <3>3. Queued(1)
      BY <3>2 DEF QueueKnown
    <3>4. PICK r \in Requests : queue[1].opcode = r.opcode /\ queue[1].param = r.param
      BY <3>3 DEF Queued, Operation
    <3>5. QED
      BY <3>1, <3>2, <3>4, RequestTypes DEF StateTypes
  <2>2. CASE LedEndsAlert
    BY <1>3, <2>2 DEF LedThread, LedEndsAlert, LedWorks, Service!AlertEnds, Service!NoName,
       NoName, history, ctrlVars, StateTypes
  <2>3. CASE OpensDevice \/ LedExits
    BY <1>3, <2>3 DEF LedThread, OpensDevice, LedExits, history, serviceVars, ctrlVars,
       StateTypes
  <2>4. QED
    BY <1>3, <2>1, <2>2, <2>3 DEF LedThread
<1>4. CASE Control
  <2>1. PICK c \in Clients : CtrlStep(c) /\ UNCHANGED serverVars
    BY <1>4 DEF Control
  <2>2. printed' \in [Clients -> Seq(Replies)]
    <3>1. CASE UNCHANGED printed
      BY <3>1 DEF StateTypes
    <3>2. CASE Answer(c)
      <4>1. \/ UNCHANGED printed
            \/ \E p \in BagToSet(toClient[c]) :
                 printed' = [printed EXCEPT ![c] = Append(printed[c], p)]
        BY <3>2 DEF Answer
      <4>2. ASSUME NEW p \in BagToSet(toClient[c])
            PROVE  Append(printed[c], p) \in Seq(Replies)
        <5>1. p \in Replies /\ printed[c] \in Seq(Replies)
          BY DEF NetKnown, StateTypes
        <5>2. QED
          BY <5>1, AppendProperties
      <4>3. QED
        BY <4>1, <4>2 DEF StateTypes
    <3>3. QED
      BY <2>1, <3>1, <3>2 DEF CtrlStep, StartFails, Start, NoAnswer
  <2>3. QED
    BY <2>1, <2>2 DEF serverVars, StateTypes
<1>5. CASE Network
  BY <1>5 DEF Network, Receive, Arrive, Raise, Die, ledVars, serviceVars, serverVars,
     ctrlVars, StateTypes, Mains
<1>6. CASE UNCHANGED vars
  BY <1>6 DEF vars, serverVars, ctrlVars, StateTypes
<1>7. QED
  BY <1>1, <1>2, <1>3, <1>4, <1>5, <1>6 DEF Next

(* Every datagram in the buffer has a SIGIO, pending or taken, or is silent. *)
LEMMA BacklogKnownStep ==
  ASSUME NetKnown, ArrivalsKnown, StateTypes, BacklogKnown, [Next]_vars
  PROVE  BacklogKnown'
<1> DEFINE Signalled == IF "SIGIO" \in pending THEN 1 ELSE 0
           Reading == IF main = "read" THEN 1 ELSE 0
<1>1. /\ Len(inbox) \in Nat /\ Len(arrived) \in Nat /\ silent \in Nat
      /\ silent <= Len(arrived)
      /\ ~Ended => Len(inbox) <= silent + Signalled + Reading
  BY LenProperties DEF ArrivalsKnown, BacklogKnown, BacklogIsSilent
<1>2. "SIGIO" \notin StopSignals
  BY SignalAssumption
<1>3. ASSUME UNCHANGED <<inbox, arrived, silent>>,
             ~Ended' => ~Ended /\ Signalled + Reading <= Signalled' + Reading'
      PROVE  BacklogKnown'
  BY <1>1, <1>3 DEF BacklogKnown, BacklogIsSilent
<1>4. CASE WaitStop
  <2>1. PICK signal \in StopSignals : pending' = pending \ {signal}
    BY <1>4 DEF WaitStop
  <2>2. UNCHANGED <<inbox, arrived, silent>> /\ main = "wait" /\ main' = "join"
    BY <1>4 DEF WaitStop, Step
  <2>3. Signalled' = Signalled /\ Reading' = Reading /\ ~Ended
    BY <1>2, <2>1, <2>2 DEF Ended
  <2>4. QED
    BY <1>1, <1>3, <2>2, <2>3
<1>5. CASE WaitIO
  <2>1. /\ UNCHANGED <<inbox, arrived, silent>> /\ "SIGIO" \in pending
        /\ main = "wait" /\ main' = "read" /\ pending' = pending \ {"SIGIO"}
    BY <1>5 DEF WaitIO, Step, First, history
  <2>2. QED
    BY <1>1, <1>3, <2>1 DEF Ended
<1>6. CASE Read
  <2>1. /\ main = "read" /\ UNCHANGED <<arrived, silent, pending>>
        /\ inbox # <<>> /\ inbox' = Tail(inbox)
    BY <1>6 DEF Read, history
  <2>2. Len(inbox') = Len(inbox) - 1
    BY <2>1, InboxHead
  <2>3. Len(inbox) <= silent + Signalled + 1 /\ Signalled' = Signalled /\ Signalled \in {0, 1}
    BY <1>1, <2>1 DEF Ended
  <2>4. Len(inbox') <= silent + Signalled /\ Reading' \in {0, 1}
    BY <1>1, <2>2, <2>3
  <2>5. QED
    BY <1>1, <2>1, <2>3, <2>4 DEF BacklogKnown, BacklogIsSilent
<1>7. CASE ReadTimesOut
  <2>1. inbox = <<>> /\ UNCHANGED <<inbox, arrived, silent>>
    BY <1>7 DEF ReadTimesOut, history
  <2>2. Len(inbox') = 0
    BY <2>1
  <2>3. QED
    BY <1>1, <2>1, <2>2 DEF BacklogKnown, BacklogIsSilent
<1>8. CASE Receive
  <2>1. PICK d \in BagToSet(toServer) :
          /\ inbox' = Append(inbox, d) /\ arrived' = Append(arrived, d)
          /\ IF main = "bound" \/ "SIGIO" \in pending
             THEN silent' = silent + 1 /\ UNCHANGED <<main, pending, stoppedBy>>
             ELSE Raise("SIGIO") /\ UNCHANGED silent
          /\ HasSocket
    BY <1>8 DEF Receive, Arrive
  <2>2. Len(inbox') = Len(inbox) + 1 /\ Len(arrived') = Len(arrived) + 1
    <3>1. d \in AnyDatagram
      BY DEF NetKnown, Genuine
    <3>2. QED
      BY <2>1, <3>1, AppendProperties DEF ArrivalsKnown
  <2>3. ~Ended
    BY <2>1 DEF HasSocket, Ended
  <2>4. CASE main = "bound" \/ "SIGIO" \in pending
    BY <1>1, <2>1, <2>2, <2>3, <2>4 DEF BacklogKnown, BacklogIsSilent
  <2>5. CASE ~(main = "bound" \/ "SIGIO" \in pending)
    <3>1. silent' = silent
      BY <2>1, <2>5
    <3>2. CASE main' = "dead"
      BY <1>1, <2>2, <3>1, <3>2 DEF BacklogKnown, BacklogIsSilent, Ended
    <3>3. CASE pending' = pending \cup {"SIGIO"} /\ main' = main
      BY <1>1, <2>2, <2>3, <2>5, <3>1, <3>3 DEF BacklogKnown, BacklogIsSilent
    <3>4. QED
      BY <2>1, <2>5, <3>2, <3>3 DEF Raise, Die
  <2>6. QED
    BY <2>4, <2>5
<1>9. CASE Signals
  <2>1. UNCHANGED <<inbox, arrived, silent>>
    BY <1>9 DEF Signals, Kill, PendingKills, WaitFails, history
  <2>2. main' = "dead" \/ main' = main \/ main = "wait"
    BY <1>9 DEF Signals, Kill, Raise, Die, PendingKills, WaitFails, Step
  <2>3. pending \subseteq pending'
    BY <1>9 DEF Signals, Kill, Raise, PendingKills, WaitFails
  <2>4. ~Ended' => ~Ended /\ Signalled <= Signalled' /\ Reading <= Reading'
    BY <2>2, <2>3 DEF Ended
  <2>5. QED
    BY <1>3, <2>1, <2>4
<1>10. CASE /\ UNCHANGED <<inbox, arrived, silent, pending>>
            /\ main' = main \/ (main \notin {"read", "done", "dead"} /\ main' # "read")
  <2>1. ~Ended' => ~Ended /\ Signalled' = Signalled /\ Reading' = Reading
    BY <1>10 DEF Ended
  <2>2. QED
    BY <1>1, <1>3, <1>10, <2>1
<1>11. CASE Main /\ ~WaitStop /\ ~WaitIO /\ ~Read /\ ~ReadTimesOut
  <2>1. ServerStep
    BY <1>11 DEF Main
  <2>2. /\ UNCHANGED <<inbox, arrived, silent, pending>>
        /\ main' = main \/ (main \notin {"read", "done", "dead"} /\ main' # "read")
    BY <1>11, <2>1 DEF ServerStep, CreateThread, Bind, EnableAsync, BlockSignals, ActSet,
       ActList, ActUnknown, ListName, ListEnd, Reply, Join, Step, history
  <2>3. QED
    BY <1>10, <2>2
<1>12. CASE LedThread
  BY <1>10, <1>12 DEF LedThread, OpensDevice, LedApplies, LedEndsAlert, LedWorks, LedExits,
     history
<1>13. CASE Control \/ UNCHANGED vars \/ (Network /\ ~Receive)
  BY <1>10, <1>13 DEF Control, Network, vars, serverVars
<1>14. QED
  BY <1>4, <1>5, <1>6, <1>7, <1>8, <1>9, <1>11, <1>12, <1>13 DEF Next

--------------------------------------------------------------------------------
SystemInv ==
  /\ FlagTypes /\ StateTypes /\ CtrlInv
  /\ NetKnown /\ ArrivalsKnown /\ RequestKnown /\ CallsKnown
  /\ SuccessKnown /\ CountsKnown /\ BacklogKnown
  /\ QueueKnown /\ MoodKnown

LEMMA InitInv == Init => SystemInv
<1> SUFFICES ASSUME Init PROVE SystemInv
  OBVIOUS
<1> USE DEF Init, NetInit, ServerInit, CtrlInit
<1>1. FlagTypes
  BY DEF FlagTypes
<1>2. StateTypes
  <2>1. playing = NoName /\ mood = NoName
    BY DEF Service!Init, Service!NoName, NoName
  <2>2. printed \in [Clients -> Seq(Replies)]
    BY EmptySeq
  <2>3. QED
    BY <2>1, <2>2 DEF StateTypes, Mains
<1>3. CtrlInv
  BY CtrlInitInv
<1>4. NetKnown
  <2>1. BagToSet(toServer) = {} /\ \A c \in Clients : BagToSet(toClient[c]) = {}
    BY BagMembers
  <2>2. IsABag(toServer)
    BY DEF IsABag, EmptyBag, SetToBag
  <2>3. QED
    BY <2>1, <2>2, NetworkAssumption DEF NetKnown
<1>5. arrived = <<>> /\ inbox = <<>> /\ calls = <<>> /\ queue = <<>>
      /\ Len(arrived) = 0 /\ Len(inbox) = 0 /\ Len(calls) = 0 /\ Len(queue) = 0
  BY DEF Service!Init
<1>6. ArrivalsKnown
  BY <1>5 DEF ArrivalsKnown
<1>7. RequestKnown
  BY NetworkAssumption DEF RequestKnown
<1>8. CallsKnown
  <2>1. Taken = <<>>
    BY <1>5, <1>6, TakenFacts, EmptySeq
  <2>2. Len(Sets(Taken)) = 0
    BY <2>1, SetsOfNone
  <2>3. calls \in Seq(Call) /\ main = "start" /\ device \in BOOLEAN
    BY <1>1, <1>5, EmptySeq DEF FlagTypes
  <2>4. QED
    BY <1>5, <2>2, <2>3 DEF CallsKnown
<1>9. SuccessKnown
  <2>1. \A c \in Clients : BagToSet(toClient[c]) = {}
    BY BagMembers
  <2>2. QED
    BY <2>1 DEF SuccessKnown
<1>10. CountsKnown
  <2>1. ASSUME NEW c \in Clients PROVE WireKnown(c) /\ ServedKnown(c)
    <3>1. Copies(CommandOf(c), toServer) = 0
      BY BagMembers DEF Copies
    <3>2. Reached(c) = 0 /\ TakenFrom(c) = 0 /\ Served(c) = 0
      BY <1>5, CountNone DEF Reached, TakenFrom, Served
    <3>3. QED
      BY <3>1, <3>2 DEF WireKnown, ServedKnown, InHand
  <2>2. QED
    BY <2>1 DEF CountsKnown
<1>11. BacklogKnown
  BY <1>5 DEF BacklogKnown, BacklogIsSilent
<1>12. QueueKnown
  BY <1>5 DEF QueueKnown
<1>13. MoodKnown
  <2>1. Moods = {}
    BY <1>5 DEF Moods
  <2>2. mood = NoName
    BY DEF Service!Init, Service!NoName, NoName
  <2>3. QED
    BY <2>1, <2>2 DEF MoodKnown
<1>14. QED
  BY <1>1, <1>2, <1>3, <1>4, <1>6, <1>7, <1>8, <1>9, <1>10, <1>11, <1>12, <1>13 DEF SystemInv

LEMMA SystemInvStep == SystemInv /\ [Next]_vars => SystemInv'
<1> SUFFICES ASSUME SystemInv, [Next]_vars PROVE SystemInv'
  OBVIOUS
<1> USE DEF SystemInv
<1>1. FlagTypes' /\ device' \in BOOLEAN
  BY FlagTypesStep DEF FlagTypes
<1>2. StateTypes' /\ NetKnown' /\ ArrivalsKnown' /\ RequestKnown'
  BY StateTypesStep, NetKnownStep, ArrivalsKnownStep, RequestKnownStep
<1>3. CtrlInv'
  <2>1. CASE \E c \in Clients : CtrlStep(c)
    BY <2>1, CtrlStepInv
  <2>2. CASE UNCHANGED <<argv, sent, result, sockets>>
    BY <2>2, CtrlStutters
  <2>3. QED
    BY <2>1, <2>2, Steps DEF Quiet, ctrlVars, netVars, Read, ActSet, ActList, ActUnknown,
       ListName, ListEnd, Reply, LedApplies, LedEndsAlert, LedWorks, Receive, Lose, Duplicate,
       SendStray
<1>4. CallsKnown'
  BY <1>1, CallsKnownStep
<1>5. SuccessKnown' /\ BacklogKnown'
  BY SuccessKnownStep, BacklogKnownStep
<1>6. CountsKnown'
  BY WireKnownStep, ServedKnownStep DEF CountsKnown
<1>7. QueueKnown' /\ MoodKnown'
  BY QueueKnownStep, MoodKnownStep
<1>8. QED
  BY <1>1, <1>2, <1>3, <1>4, <1>5, <1>6, <1>7

LEMMA Invariant == Spec => []SystemInv
BY InitInv, SystemInvStep, PTL DEF Spec

(* What travels, what waits and what is kept has the form the code gives it. *)
THEOREM TypeCorrect == Spec => []TypeOK
<1>1. SystemInv => TypeOK
  <2> SUFFICES ASSUME SystemInv PROVE TypeOK
    OBVIOUS
  <2> USE DEF SystemInv
  <2>1. NetTypeOK
    BY DEF NetTypeOK, NetKnown, Genuine, AnyDatagram, CtrlInv, ClientTypes
  <2>2. device \in BOOLEAN /\ terminate \in BOOLEAN
    BY DEF FlagTypes
  <2>3. \A i \in 1..Len(queue) :
          \E id \in 1..Len(calls), r \in Requests : queue[i] = Operation(id, r)
    BY DEF QueueKnown, Queued
  <2>4. Len(inbox) <= Len(arrived) /\ silent \in 0..Len(arrived)
    BY DEF ArrivalsKnown, BacklogKnown
  <2>5. \A c \in Clients : \A i \in 1..Len(printed[c]) : printed[c][i] \in Replies
    BY ElementOfSeq DEF StateTypes
  <2>6. QED
    BY <2>1, <2>2, <2>3, <2>4, <2>5
    DEF TypeOK, StateTypes, Mains, RequestKnown, CtrlInv, ClientTypes
<1>2. QED
  BY <1>1, Invariant, PTL

(* peer_addr and packet belong together from recvfrom to every sendto: a     *)
(* client gets only answers to what it sent.                                 *)
THEOREM AnswersCorrect == Spec => []AnswersAreMine
<1>1. SystemInv => AnswersAreMine
  BY DEF SystemInv, NetKnown, AnswersAreMine
<1>2. QED
  BY <1>1, Invariant, PTL

(* Nobody is told "Operation successful." for an operation process_request   *)
(* did not hand on, whatever was lost, delayed or duplicated.                *)
THEOREM SuccessCorrect == Spec => []SuccessMeansCalled
<1>1. SystemInv => SuccessMeansCalled
  BY SuccessKnownMeans DEF SystemInv
<1>2. QED
  BY <1>1, Invariant, PTL

(* process_request calls PushOperation for what reached the socket, in that  *)
(* order, once for every copy the network made.                              *)
THEOREM ServedCorrect == Spec => []ServedOnceInOrder
<1>1. SystemInv => ServedOnceInOrder
  BY CountsKnownMeans, CallsKnownMeans DEF SystemInv, ServedOnceInOrder
<1>2. QED
  BY <1>1, Invariant, PTL

(* One SIGIO, one Read: what is left in the socket without a signal was      *)
(* merged with another datagram's or came before FASYNC.                     *)
THEOREM BacklogCorrect == Spec => []BacklogIsSilent
<1>1. SystemInv => BacklogIsSilent
  BY DEF SystemInv, BacklogKnown
<1>2. QED
  BY <1>1, Invariant, PTL

(* When the queue is empty, the mood is that of the last datagram that asked *)
(* for one while there was a lamp.                                           *)
THEOREM LastArrivalCorrect == Spec => []ShowsLastArrival
<1>1. SystemInv => ShowsLastArrival
  BY MoodKnownMeans DEF SystemInv
<1>2. QED
  BY <1>1, Invariant, PTL
================================================================================
