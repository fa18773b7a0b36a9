------------------------------ MODULE LedCtrlProofs ------------------------------
(***************************************************************************)
(* Theorems about led-ctrl, for command lines of every length and every set*)
(* of clients: what the loop over the options computes, and that led-ctrl  *)
(* sends and exits as its command line says, whatever the server answers.  *)
(***************************************************************************)
EXTENDS LedCtrl, SequenceTheorems, WellFoundedInduction, TLAPS

(* A set of natural numbers has a least one; induction below is the search   *)
(* for a least counterexample.                                               *)
LEMMA LeastNumber ==
  ASSUME NEW T, T \subseteq Nat, T # {}
  PROVE  \E n \in T : \A m \in T : n <= m
<1> DEFINE Less == {p \in Nat \X Nat : p[1] < p[2]}
<1>1. IsWellFoundedOn(Less, Nat)
  BY NatLessThanWellFounded DEF OpToRel
<1> HIDE DEF Less
<1>2. \E n \in T : \A m \in T : ~ (<<m, n>> \in Less)
  BY WFMin, <1>1
<1>3. ASSUME NEW m \in Nat, NEW n \in Nat, <<m, n>> \notin Less PROVE n <= m
  BY <1>3 DEF Less
<1>4. QED
  BY <1>2, <1>3

(* What holds of 0 and is handed on holds up to any n.                       *)
LEMMA Induction ==
  ASSUME NEW n \in Nat, NEW T, 0 \in T, \A i \in 1..n : i - 1 \in T => i \in T
  PROVE  0..n \subseteq T
<1>1. SUFFICES ASSUME NEW j \in 0..n, j \notin T PROVE FALSE
  OBVIOUS
<1> DEFINE Bad == {i \in 0..n : i \notin T}
<1>2. PICK i \in Bad : \A m \in Bad : i <= m
  <2>1. Bad \subseteq Nat /\ Bad # {}
    BY <1>1
  <2> HIDE DEF Bad
  <2>2. QED
    BY <2>1, LeastNumber
<1>3. i \in 1..n /\ i - 1 \notin Bad
  BY <1>2
<1>4. QED
  BY <1>2, <1>3

--------------------------------------------------------------------------------
(* The recursive function of Parse is what its definition says.              *)
ParseUpTo(line) ==
  CHOOSE parse : parse = [n \in 0..Len(line) |->
    IF n = 0 THEN ParseStart ELSE ParseOption(parse[n - 1], line[n])]

LEMMA ParseExists ==
  ASSUME NEW line \in Seq(AnyOption)
  PROVE  \E parse : parse = [n \in 0..Len(line) |->
           IF n = 0 THEN ParseStart ELSE ParseOption(parse[n - 1], line[n])]
<1> DEFINE Next(f, n) == IF n = 0 THEN ParseStart ELSE ParseOption(f[n - 1], line[n])
           T == {k \in Nat : \E f : f = [n \in 0..k |-> Next(f, n)]}
<1>1. 0 \in T
  <2> DEFINE g == [n \in 0..0 |-> ParseStart]
  <2>1. g = [n \in 0..0 |-> Next(g, n)]
    OBVIOUS
  <2>2. QED
    BY <2>1
<1>2. ASSUME NEW k \in 1..Len(line), k - 1 \in T PROVE k \in T
  <2>1. PICK f : f = [n \in 0..(k - 1) |-> Next(f, n)]
    BY <1>2
  <2> DEFINE g == [n \in 0..k |-> IF n = k THEN ParseOption(f[k - 1], line[k]) ELSE f[n]]
  <2>2. ASSUME NEW n \in 0..k PROVE g[n] = Next(g, n)
    <3>1. CASE n = k
      BY <3>1
    <3>2. CASE n # k
      <4>1. n \in 0..(k - 1) /\ g[n] = f[n] /\ (n # 0 => g[n - 1] = f[n - 1])
        BY <3>2
      <4>2. f[n] = Next(f, n)
        BY <2>1, <4>1
      <4>3. QED
        BY <4>1, <4>2
    <3>3. QED
      BY <3>1, <3>2
  <2>3. g = [n \in 0..k |-> Next(g, n)]
    BY <2>2
  <2> HIDE DEF g
  <2>4. \E h : h = [n \in 0..k |-> Next(h, n)]
    BY <2>3
  <2>5. QED
    BY <2>4
<1>3. Len(line) \in Nat
  BY LenProperties
<1> HIDE DEF T
<1>4. 0..Len(line) \subseteq T
  BY <1>1, <1>2, <1>3, Induction
<1>5. Len(line) \in T
  BY <1>3, <1>4
<1>6. QED
  BY <1>5 DEF T

LEMMA ParseSteps ==
  ASSUME NEW line \in Seq(AnyOption)
  PROVE  /\ ParseUpTo(line)[0] = ParseStart
         /\ \A n \in 1..Len(line) :
              ParseUpTo(line)[n] = ParseOption(ParseUpTo(line)[n - 1], line[n])
<1> DEFINE p == ParseUpTo(line)
<1>1. p = [n \in 0..Len(line) |-> IF n = 0 THEN ParseStart ELSE ParseOption(p[n - 1], line[n])]
  BY ParseExists DEF ParseUpTo
<1>2. Len(line) \in Nat
  BY LenProperties
<1> HIDE DEF p
<1>3. p[0] = ParseStart /\ \A n \in 1..Len(line) : p[n] = ParseOption(p[n - 1], line[n])
  BY <1>1, <1>2
<1>4. QED
  BY <1>3 DEF p

--------------------------------------------------------------------------------
(* The packet that an option of an operation fills in.                       *)
Filled(option) ==
  Packet(OpcodeOf(option.opt),
         IF option.opt = "m" /\ option.arg = NoArgument THEN "default"
         ELSE IF option.opt \in {"a", "m"} THEN option.arg
         ELSE NoName)

(* What the loop knows after n options.                                      *)
ParseStates == [packet : Commands \cup {NoPacket}, exit : {"none", "0", "1"}]

GoesOn(line, p, n) ==
  /\ \A i \in 1..n : line[i].opt \notin {"h", "?"} /\ ~Wrong(line, i)
  /\ \/ p.packet = NoPacket /\ \A i \in 1..n : line[i].opt \notin OperationOptions
     \/ /\ p.packet \in Commands
        /\ \E i \in 1..n : /\ line[i].opt \in OperationOptions
                          /\ p.packet = Filled(line[i])
                          /\ p.packet.opcode = OpcodeOf(line[i].opt)
HelpStops(line, n) ==
  \E i \in 1..n : line[i].opt = "h" /\ \A j \in 1..i : ~Wrong(line, j)
WrongStops(line, n) ==
  \E i \in 1..n : Wrong(line, i) /\ \A j \in 1..i : line[j].opt # "h"

Parsed(line, p, n) ==
  \/ p.exit = "none" /\ GoesOn(line, p, n)
  \/ p.exit = "0" /\ HelpStops(line, n)
  \/ p.exit = "1" /\ WrongStops(line, n)

LEMMA FilledIsCommand ==
  ASSUME NEW option \in AnyOption, option.opt \in OperationOptions
  PROVE  Filled(option) \in Commands /\ Filled(option).opcode = OpcodeOf(option.opt)
<1> USE CommandLineAssumption DEF AnyOption, Filled, Packet, Commands, OpcodeOf,
        ListOpcodes, OperationOptions
<1>1. CASE option.opt \in {"f", "A", "M"}
  BY <1>1
<1>2. CASE option.opt = "a"
  <2>1. option.arg \in AlertNames \cup {NoName}
    BY <1>2
  <2>2. QED
    BY <1>2, <2>1
<1>3. CASE option.opt = "m"
  <2>1. option.arg \in MoodNames \cup {NoName, NoArgument}
    BY <1>3
  <2>2. QED
    BY <1>3, <2>1
<1>4. QED
  BY <1>1, <1>2, <1>3

LEMMA CommandIsNotNop == \A p \in Commands : p.opcode # "NOP" /\ p # NoPacket
BY DEF Commands, NoPacket, Packet, ListOpcodes

(* One more option.                                                          *)
LEMMA ParseOneMore ==
  ASSUME NEW line \in Seq(AnyOption), NEW n \in 1..Len(line), NEW p \in ParseStates,
         Parsed(line, p, n - 1)
  PROVE  /\ ParseOption(p, line[n]) \in ParseStates
         /\ Parsed(line, ParseOption(p, line[n]), n)
<1> DEFINE option == line[n]
           q == ParseOption(p, option)
<1>0. option \in AnyOption /\ n \in Nat \ {0} /\ Len(line) \in Nat
  BY LenProperties, ElementOfSeq
<1>1. \A i \in 1..n : i = n \/ i \in 1..(n - 1)
  BY <1>0
<1>2. CASE p.exit # "none"
  <2>1. q = p
    BY <1>2 DEF ParseOption
  <2>2. \A i \in 1..(n - 1) : i \in 1..n
    BY <1>0
  <2>3. Parsed(line, p, n)
    BY <1>2, <2>2 DEF Parsed, HelpStops, WrongStops
  <2>4. QED
    BY <2>1, <2>3
<1>3. CASE p.exit = "none"
  <2>0. GoesOn(line, p, n - 1)
    BY <1>3 DEF Parsed
  <2>1. CASE option.opt \in OperationOptions /\ p.packet = NoPacket
    <3>1. q = [p EXCEPT !.packet = Filled(option)]
      BY <1>3, <2>1 DEF ParseOption, Filled, NoPacket, Packet
    <3>2. q \in ParseStates /\ q.exit = "none" /\ q.packet \in Commands
          /\ q.packet = Filled(option) /\ q.packet.opcode = OpcodeOf(option.opt)
      BY <1>0, <1>3, <2>1, <3>1, FilledIsCommand DEF ParseStates
    <3>3. \A i \in 1..(n - 1) : line[i].opt \notin OperationOptions
      BY <2>0, <2>1, CommandIsNotNop DEF GoesOn
    <3>4. ~Wrong(line, n) /\ option.opt \notin {"h", "?"}
      BY <2>1, <3>3 DEF Wrong, OperationOptions
    <3>5. GoesOn(line, q, n)
      BY <1>0, <1>1, <2>0, <2>1, <3>2, <3>4 DEF GoesOn
    <3>6. QED
      BY <3>2, <3>5 DEF Parsed
  <2>2. CASE option.opt \in OperationOptions /\ p.packet # NoPacket
    <3>1. p.packet \in Commands /\ \E i \in 1..(n - 1) : line[i].opt \in OperationOptions
      BY <2>0, <2>2 DEF GoesOn
    <3>2. q = [p EXCEPT !.exit = "1"]
      BY <1>3, <2>2, <3>1, CommandIsNotNop DEF ParseOption
    <3>3. q \in ParseStates /\ q.exit = "1"
      BY <3>2 DEF ParseStates
    <3>4. Wrong(line, n) /\ option.opt # "h"
      BY <2>2, <3>1 DEF Wrong, OperationOptions
    <3>5. WrongStops(line, n)
      BY <1>0, <1>1, <2>0, <3>4 DEF GoesOn, WrongStops
    <3>6. QED
      BY <3>3, <3>5 DEF Parsed
  <2>3. CASE option.opt = "?"
    <3>1. q = [p EXCEPT !.exit = "1"]
      BY <1>3, <2>3 DEF ParseOption, OperationOptions
    <3>2. q \in ParseStates /\ q.exit = "1"
      BY <3>1 DEF ParseStates
    <3>3. WrongStops(line, n)
      BY <1>0, <1>1, <2>0, <2>3 DEF GoesOn, WrongStops, Wrong
    <3>4. QED
      BY <3>2, <3>3 DEF Parsed
  <2>4. CASE option.opt = "h"
    <3>1. q = [p EXCEPT !.exit = "0"]
      BY <1>3, <2>4 DEF ParseOption, OperationOptions
    <3>2. q \in ParseStates /\ q.exit = "0"
      BY <3>1 DEF ParseStates
    <3>3. ~Wrong(line, n)
      BY <2>4 DEF Wrong, OperationOptions
    <3>4. HelpStops(line, n)
      BY <1>0, <1>1, <2>0, <2>4, <3>3 DEF GoesOn, HelpStops
    <3>5. QED
      BY <3>2, <3>4 DEF Parsed
  <2>5. CASE option.opt \notin OperationOptions \cup {"?", "h"}
    <3>1. q = p
      BY <1>3, <2>5 DEF ParseOption
    <3>2. ~Wrong(line, n)
      BY <2>5 DEF Wrong
    <3>3. GoesOn(line, p, n)
      <4>1. \A i \in 1..n : line[i].opt \notin {"h", "?"} /\ ~Wrong(line, i)
        BY <1>1, <2>0, <2>5, <3>2 DEF GoesOn
      <4>2. p.packet = NoPacket => \A i \in 1..n : line[i].opt \notin OperationOptions
        BY <1>1, <2>0, <2>5, CommandIsNotNop DEF GoesOn
      <4>3. QED
        BY <1>0, <2>0, <4>1, <4>2 DEF GoesOn
    <3>4. QED
      BY <1>3, <3>1, <3>3 DEF Parsed
  <2>6. QED
    BY <2>1, <2>2, <2>3, <2>4, <2>5
<1>4. QED
  BY <1>2, <1>3

LEMMA ParsedWhole ==
  ASSUME NEW line \in Seq(AnyOption)
  PROVE  /\ ParseUpTo(line)[Len(line)] \in ParseStates
         /\ Parsed(line, ParseUpTo(line)[Len(line)], Len(line))
<1> DEFINE p == ParseUpTo(line)
           T == {n \in 0..Len(line) : p[n] \in ParseStates /\ Parsed(line, p[n], n)}
<1>1. Len(line) \in Nat
  BY LenProperties
<1>2. 0 \in T
  <2>1. p[0] = ParseStart
    BY ParseSteps
  <2>2. ParseStart \in ParseStates /\ Parsed(line, ParseStart, 0)
    BY DEF ParseStart, ParseStates, Parsed, GoesOn
  <2> HIDE DEF p
  <2>3. QED
    BY <1>1, <2>1, <2>2
<1>3. ASSUME NEW n \in 1..Len(line), n - 1 \in T PROVE n \in T
  <2>1. p[n] = ParseOption(p[n - 1], line[n])
    BY ParseSteps
  <2>2. p[n - 1] \in ParseStates /\ Parsed(line, p[n - 1], n - 1)
    BY <1>3
  <2> HIDE DEF p
  <2>3. p[n] \in ParseStates /\ Parsed(line, p[n], n)
    BY <2>1, <2>2, ParseOneMore
  <2>4. QED
    BY <1>1, <2>3
<1> HIDE DEF T
<1>4. 0..Len(line) \subseteq T
  BY <1>1, <1>2, <1>3, Induction
<1>5. Len(line) \in T
  BY <1>1, <1>4
<1>6. QED
  BY <1>5 DEF T

--------------------------------------------------------------------------------
OperationsOf(line) == {i \in 1..Len(line) : line[i].opt \in OperationOptions}

(* What main computes from a command line, of any length: the packet of the  *)
(* one operation on it, with its name, or the usage when -h comes before     *)
(* anything wrong, or a failure.                                             *)
THEOREM ParseCorrect ==
  ASSUME NEW line \in Seq(AnyOption)
  PROVE  /\ Parse(line) \in ParseStates
         /\ Parse(line).exit = "none" =>
              /\ Parse(line).packet \in Commands
              /\ \A i \in 1..Len(line) : line[i].opt \notin {"h", "?"}
              /\ \E i \in OperationsOf(line) :
                   /\ OperationsOf(line) = {i}
                   /\ Parse(line).packet = Filled(line[i])
                   /\ Parse(line).packet.opcode = OpcodeOf(line[i].opt)
         /\ Parse(line).exit = "0" <=> HelpFirst(line)
         /\ Parse(line).exit = "1" =>
              \/ OperationsOf(line) = {}
              \/ \E i \in 1..Len(line) : Wrong(line, i)
<1> DEFINE end == ParseUpTo(line)[Len(line)]
           n == Len(line)
<1>1. end \in ParseStates /\ Parsed(line, end, n)
  BY ParsedWhole
<1>2. Parse(line) = IF end.exit = "none" /\ end.packet.opcode = "NOP"
                    THEN [end EXCEPT !.exit = "1"] ELSE end
  BY DEF Parse, ParseUpTo
<1>3. n \in Nat
  BY LenProperties
<1> HIDE DEF end, n
<1>4. HelpFirst(line) <=> HelpStops(line, n)
  BY DEF HelpFirst, HelpStops, n
<1>5. CASE end.exit = "none" /\ end.packet.opcode = "NOP"
  <2>1. GoesOn(line, end, n)
    BY <1>1, <1>5 DEF Parsed
  <2>2. \A i \in 1..n : line[i].opt \notin OperationOptions
    BY <2>1, <1>5, CommandIsNotNop DEF GoesOn
  <2>3. OperationsOf(line) = {} /\ ~HelpStops(line, n)
    BY <2>1, <2>2 DEF OperationsOf, HelpStops, GoesOn, n
  <2>4. Parse(line) \in ParseStates /\ Parse(line).exit = "1"
    BY <1>1, <1>2, <1>5 DEF ParseStates
  <2>5. QED
    BY <1>4, <2>3, <2>4
<1>6. CASE end.exit = "none" /\ end.packet.opcode # "NOP"
  <2>1. GoesOn(line, end, n) /\ Parse(line) = end
    BY <1>1, <1>2, <1>6 DEF Parsed
  <2>2. end.packet \in Commands
    BY <1>6, <2>1 DEF GoesOn, NoPacket, Packet
  <2>3. PICK i \in 1..n : /\ line[i].opt \in OperationOptions
                          /\ end.packet = Filled(line[i])
                          /\ end.packet.opcode = OpcodeOf(line[i].opt)
    BY <2>1, <2>2, CommandIsNotNop DEF GoesOn
  <2>4. ASSUME NEW j \in OperationsOf(line), j # i PROVE FALSE
    <3>1. j \in 1..n /\ line[j].opt \in OperationOptions
      BY <2>4 DEF OperationsOf, n
    <3>2. j \in 1..(i - 1) \/ i \in 1..(j - 1)
      BY <1>3, <2>4, <3>1
    <3>3. Wrong(line, i) \/ Wrong(line, j)
      BY <2>3, <3>1, <3>2 DEF Wrong
    <3>4. QED
      BY <2>1, <3>1, <3>3 DEF GoesOn
  <2>5. i \in OperationsOf(line) /\ OperationsOf(line) = {i}
    BY <2>3, <2>4 DEF OperationsOf, n
  <2>6. \A j \in 1..n : line[j].opt \notin {"h", "?"}
    BY <2>1 DEF GoesOn
  <2>7. ~HelpStops(line, n)
    BY <2>6 DEF HelpStops
  <2>8. QED
    BY <1>1, <1>4, <1>6, <2>1, <2>2, <2>3, <2>5, <2>6, <2>7 DEF n
<1>7. CASE end.exit = "0"
  BY <1>1, <1>2, <1>4, <1>7 DEF Parsed
<1>8. CASE end.exit = "1"
  <2>1. WrongStops(line, n) /\ Parse(line) = end
    BY <1>1, <1>2, <1>8 DEF Parsed
  <2>2. PICK i \in 1..n : Wrong(line, i) /\ \A j \in 1..i : line[j].opt # "h"
    BY <2>1 DEF WrongStops
  <2>3. ASSUME HelpStops(line, n) PROVE FALSE
    <3>1. PICK k \in 1..n : line[k].opt = "h" /\ \A j \in 1..k : ~Wrong(line, j)
      BY <2>3 DEF HelpStops
    <3>2. k \in 1..i \/ i \in 1..k
      BY <1>3
    <3>3. QED
      BY <2>2, <3>1, <3>2
  <2>4. QED
    BY <1>1, <1>4, <1>8, <2>1, <2>2, <2>3 DEF n
<1>9. QED
  BY <1>1, <1>5, <1>6, <1>7, <1>8 DEF ParseStates

--------------------------------------------------------------------------------
(* A client, from its command line to its exit.                              *)
ClientTypes ==
  /\ argv \in [Clients -> Seq(AnyOption)]
  /\ sent \in [Clients -> Commands \cup {NoPacket}]
  /\ result \in [Clients -> Results]
  /\ sockets \subseteq Clients

ClientKnown(c) ==
  /\ Idle(c) => sent[c] = NoPacket
  /\ sent[c] # NoPacket => /\ Parse(argv[c]).exit = "none"
                           /\ sent[c] = Parse(argv[c]).packet
  /\ c \in sockets => result[c] = "none" /\ Parse(argv[c]).exit = "none"
  /\ result[c] = "usage" <=> Parse(argv[c]).exit = "0"
  /\ result[c] = "bad usage" => Parse(argv[c]).exit = "1"

CtrlInv == ClientTypes /\ \A c \in Clients : ClientKnown(c)

LEMMA CtrlInitInv == CtrlInit /\ sockets = {} => CtrlInv
<1> SUFFICES ASSUME CtrlInit, sockets = {} PROVE CtrlInv
  OBVIOUS
<1>1. <<>> \in Seq(AnyOption) /\ Len(<<>>) = 0
  OBVIOUS
<1>2. Parse(<<>>).exit # "0"
  <2>1. ~HelpFirst(<<>>)
    BY <1>1 DEF HelpFirst
  <2>2. QED
    BY <1>1, <2>1, ParseCorrect
<1>3. ClientTypes
  BY <1>1 DEF CtrlInit, ClientTypes, Results
<1>4. ASSUME NEW c \in Clients PROVE ClientKnown(c)
  BY <1>2 DEF CtrlInit, ClientKnown
<1>5. QED
  BY <1>3, <1>4 DEF CtrlInv

(* What an action of one client leaves alone of the others.                  *)
LEMMA OthersKnown ==
  ASSUME NEW c \in Clients, CtrlInv,
         argv'[c] = argv[c], sent'[c] = sent[c], result'[c] = result[c],
         c \in sockets' <=> c \in sockets
  PROVE  ClientKnown(c)'
BY DEF CtrlInv, ClientKnown, Idle

LEMMA CtrlStepInv == ASSUME CtrlInv, NEW c \in Clients, CtrlStep(c) PROVE CtrlInv'
<1> USE DEF CtrlInv, ClientTypes
<1>1. CASE StartFails(c)
  <2>1. PICK line \in CommandLines :
          /\ argv' = [argv EXCEPT ![c] = line]
          /\ \/ Parse(line).exit = "0" /\ Exit(c, "usage")
             \/ Parse(line).exit = "1" /\ Exit(c, "bad usage")
             \/ Parse(line).exit = "none" /\ Exit(c, "no socket")
    BY <1>1 DEF StartFails
  <2>2. line \in Seq(AnyOption)
    BY CommandLineAssumption
  <2>3. Idle(c) /\ UNCHANGED sent /\ sockets' = sockets \ {c}
    BY <1>1, <2>1 DEF StartFails, Exit
  <2>4. /\ argv'[c] = line /\ sent'[c] = NoPacket /\ c \notin sockets'
        /\ \/ Parse(line).exit = "0" /\ result' = [result EXCEPT ![c] = "usage"]
           \/ Parse(line).exit = "1" /\ result' = [result EXCEPT ![c] = "bad usage"]
           \/ Parse(line).exit = "none" /\ result' = [result EXCEPT ![c] = "no socket"]
    BY <2>1, <2>3 DEF Exit, ClientKnown
  <2>5. ClientKnown(c)'
    BY <2>4 DEF ClientKnown, Idle
  <2>6. ASSUME NEW d \in Clients, d # c PROVE ClientKnown(d)'
    BY <2>1, <2>3, <2>4, <2>6, OthersKnown
  <2>7. ClientTypes'
    BY <2>1, <2>2, <2>3, <2>4 DEF Results
  <2>8. QED
    BY <2>5, <2>6, <2>7
<1>2. CASE Start(c)
  <2>1. PICK line \in CommandLines :
          /\ Parse(line).exit = "none"
          /\ argv' = [argv EXCEPT ![c] = line]
          /\ sent' = [sent EXCEPT ![c] = Parse(line).packet]
          /\ \/ sockets' = sockets \cup {c} /\ UNCHANGED result
             \/ sockets' = sockets \ {c} /\ result' = [result EXCEPT ![c] = "not sent"]
    BY <1>2 DEF Start, Exit
  <2>2. line \in Seq(AnyOption) /\ Parse(line).packet \in Commands
    BY <2>1, CommandLineAssumption, ParseCorrect
  <2>3. Idle(c)
    BY <1>2 DEF Start
  <2>4. ClientKnown(c)'
    BY <2>1, <2>2, <2>3 DEF ClientKnown, Idle
  <2>5. ASSUME NEW d \in Clients, d # c PROVE ClientKnown(d)'
    BY <2>1, <2>5, OthersKnown
  <2>6. ClientTypes'
    BY <2>1, <2>2 DEF Results
  <2>7. QED
    BY <2>4, <2>5, <2>6
<1>3. CASE Answer(c) \/ NoAnswer(c)
  <2>1. UNCHANGED <<argv, sent>> /\ c \in sockets
    BY <1>3 DEF Answer, NoAnswer
  <2>2. \/ UNCHANGED <<sockets, result>>
        \/ /\ sockets' = sockets \ {c}
           /\ \E why \in {"ok", "eof", "error", "no answer"} :
                result' = [result EXCEPT ![c] = why]
    BY <1>3 DEF Answer, NoAnswer, Exit
  <2>3. ClientKnown(c)'
    BY <2>1, <2>2 DEF ClientKnown, Idle
  <2>4. ASSUME NEW d \in Clients, d # c PROVE ClientKnown(d)'
    BY <2>1, <2>2, <2>4, OthersKnown
  <2>5. ClientTypes'
    BY <2>1, <2>2 DEF Results
  <2>6. QED
    BY <2>3, <2>4, <2>5
<1>4. QED
  BY <1>1, <1>2, <1>3 DEF CtrlStep

LEMMA CtrlStutters == CtrlInv /\ UNCHANGED <<argv, sent, result, sockets>> => CtrlInv'
BY DEF CtrlInv, ClientTypes, ClientKnown, Idle

LEMMA CtrlInvMeans == CtrlInv => CommandLineObeyed
<1> SUFFICES ASSUME CtrlInv, NEW c \in Clients
             PROVE  LET line == argv[c]
                        operations == {i \in 1..Len(line) : line[i].opt \in OperationOptions} IN
      /\ sent[c] # NoPacket =>
           /\ \A i \in 1..Len(line) : line[i].opt \notin {"h", "?"}
           /\ \E i \in operations :
                operations = {i} /\ sent[c].opcode = OpcodeOf(line[i].opt)
      /\ result[c] = "usage" <=> HelpFirst(line)
      /\ result[c] = "bad usage" =>
           operations = {} \/ \E i \in 1..Len(line) : Wrong(line, i)
  BY DEF CommandLineObeyed
<1>1. argv[c] \in Seq(AnyOption) /\ ClientKnown(c)
  BY DEF CtrlInv, ClientTypes
<1>2. QED
  BY <1>1, ParseCorrect DEF ClientKnown, OperationsOf

(* led-ctrl sends and exits as its command line says: for any number of runs *)
(* at once, options of any number and order, and any answers.                *)
THEOREM CommandLineCorrect == AloneSpec => []CommandLineObeyed
<1>1. AloneInit => CtrlInv
  BY CtrlInitInv DEF AloneInit, NetInit
<1>2. CtrlInv /\ [AloneNext]_aloneVars => CtrlInv'
  <2>1. ASSUME CtrlInv, AnyAnswer PROVE CtrlInv'
    BY <2>1, CtrlStutters DEF AnyAnswer, ctrlVars
  <2>2. ASSUME CtrlInv, UNCHANGED aloneVars PROVE CtrlInv'
    BY <2>2, CtrlStutters DEF aloneVars, ctrlVars, netVars
  <2>3. QED
    BY <2>1, <2>2, CtrlStepInv DEF AloneNext
<1>3. QED
  BY <1>1, <1>2, CtrlInvMeans, PTL DEF AloneSpec
================================================================================
