--------------------------------- MODULE LedCtrl ---------------------------------
(***************************************************************************)
(* led-ctrl (led-ctrl.cpp): its command line, the one datagram it sends,   *)
(* and the loop that reads the answer with a timeout of one second.        *)
(***************************************************************************)
EXTENDS LedNetwork

CONSTANTS
  CommandLines   (* the command lines led-ctrl is run with                    *)

VARIABLES
  argv,     (* the command line each client was started with                  *)
  sent,     (* the packet each client sent                                    *)
  result,   (* "none", or why it exited, see Results                          *)
  printed   (* the list entries it printed                                    *)

ctrlVars == <<argv, sent, result, printed>>

--------------------------------------------------------------------------------
(* The command line: a sequence of options [opt, arg] as getopt_long returns *)
(* them, "?" for one it does not know; arg is NoArgument where there is none. *)

NoArgument == "no argument"
AnyOption ==
       [opt : {"f", "A", "M", "n", "s", "d", "V", "h", "?"}, arg : {NoArgument}]
  \cup [opt : {"a"}, arg : AlertNames \cup {NoName}]
  \cup [opt : {"m"}, arg : MoodNames \cup {NoName, NoArgument}]

ASSUME CommandLineAssumption ==
  "default" \in MoodNames /\ CommandLines \subseteq Seq(AnyOption)

OpcodeOf(opt) ==
  CASE opt = "f" -> "SET_LEDS_OFF" [] opt = "a" -> "SET_ALERT" [] opt = "A" -> "GET_ALERTS"
    [] opt = "m" -> "SET_MOODLIGHT" [] opt = "M" -> "GET_MOODLIGHTS"
OperationOptions == {"f", "a", "A", "m", "M"}

(* what the loop over the options knows: the packet, the exit code or "none" *)
ParseStart == [packet |-> NoPacket, exit |-> "none"]
(* bug variant: the last operation wins                                      *)
ParseOptionLast(parse, option) ==
  IF parse.exit # "none" THEN parse
  ELSE IF option.opt \in OperationOptions
  THEN [parse EXCEPT !.packet = Packet(OpcodeOf(option.opt),
               IF option.opt = "m" /\ option.arg = NoArgument THEN "default"
               ELSE IF option.opt \in {"a", "m"} THEN option.arg
               ELSE NoName)]
  ELSE IF option.opt = "?" THEN [parse EXCEPT !.exit = "1"]
  ELSE IF option.opt = "h" THEN [parse EXCEPT !.exit = "0"]
  ELSE parse
ParseOption(parse, option) ==
  IF parse.exit # "none" THEN parse
  ELSE IF option.opt \in OperationOptions
  THEN IF parse.packet.opcode # "NOP" THEN [parse EXCEPT !.exit = "1"]
       ELSE [parse EXCEPT !.packet = Packet(OpcodeOf(option.opt),
               IF option.opt = "m" /\ option.arg = NoArgument THEN "default"
               ELSE IF option.opt \in {"a", "m"} THEN option.arg
               ELSE NoName)]
  ELSE IF option.opt = "?" THEN [parse EXCEPT !.exit = "1"]
  ELSE IF option.opt = "h" THEN [parse EXCEPT !.exit = "0"]
  ELSE parse      \* n, s, d, V

(* main up to the socket: it exits with a code or has a packet to send       *)
Parse(line) ==
  LET parse[n \in 0..Len(line)] ==
        IF n = 0 THEN ParseStart ELSE ParseOption(parse[n - 1], line[n])
      end == parse[Len(line)]
  IN
    IF end.exit = "none" /\ end.packet.opcode = "NOP"
    THEN [end EXCEPT !.exit = "1"]     \* "No operation set."
    ELSE end

--------------------------------------------------------------------------------
(* One run. *)

Results == {"none", "usage", "bad usage", "no socket", "not sent", "ok", "eof",
            "error", "no answer"}

CtrlInit ==
  /\ argv = [c \in Clients |-> <<>>]
  /\ sent = [c \in Clients |-> NoPacket]
  /\ result = [c \in Clients |-> "none"]
  /\ printed = [c \in Clients |-> <<>>]

Idle(c) == result[c] = "none" /\ c \notin sockets

(* the process ends and its socket with it                                   *)
Exit(c, why) ==
  /\ sockets' = sockets \ {c}
  /\ result' = [result EXCEPT ![c] = why]
  /\ toClient' = [toClient EXCEPT ![c] = EmptyBag]

(* the options, and the socket, whose exceptions nobody catches              *)
StartFails(c) ==
  /\ Idle(c)
  /\ \E line \in CommandLines :
       /\ argv' = [argv EXCEPT ![c] = line]
       /\ \/ Parse(line).exit = "0" /\ Exit(c, "usage")
          \/ Parse(line).exit = "1" /\ Exit(c, "bad usage")
          \/ Parse(line).exit = "none" /\ Exit(c, "no socket")
  /\ UNCHANGED <<sent, printed, toServer, duplicates, strays>>

(* Write; the loop is not entered, and main returns 0, when it fails         *)
Start(c) ==
  /\ Idle(c)
  /\ \E line \in CommandLines :
       LET packet == Parse(line).packet IN
         /\ Parse(line).exit = "none"
         /\ argv' = [argv EXCEPT ![c] = line]
         /\ sent' = [sent EXCEPT ![c] = packet]
         /\ \/ /\ SendToServer(Datagram(c, "full", packet))
               /\ sockets' = sockets \cup {c}
               /\ UNCHANGED <<result, toClient>>
            \/ Exit(c, "not sent") /\ UNCHANGED toServer
  /\ UNCHANGED <<printed, duplicates, strays>>

(* Read and the switch on the opcode of the answer                           *)
Answer(c) ==
  /\ c \in sockets
  /\ \E p \in BagToSet(toClient[c]) :
       \/ /\ p.opcode \in {"OK", "EOF", "ERROR"}
          /\ Exit(c, CASE p.opcode = "OK" -> "ok" [] p.opcode = "EOF" -> "eof"
                       [] p.opcode = "ERROR" -> "error")
          /\ UNCHANGED printed
       \/ /\ p.opcode \in ListOpcodes
          /\ printed' = [printed EXCEPT ![c] = Append(@, p)]
          /\ toClient' = [toClient EXCEPT ![c] = @ (-) One(p)]
          /\ UNCHANGED <<sockets, result>>
       \/ /\ p = NoPacket              \* "Unexpected opcode."
          /\ toClient' = [toClient EXCEPT ![c] = @ (-) One(p)]
          /\ UNCHANGED <<sockets, result, printed>>
  /\ UNCHANGED <<argv, sent, toServer, duplicates, strays>>

(* bug variant: the command is sent again instead                            *)
NoAnswerRetries(c) ==
  /\ c \in sockets
  /\ toServer' = One(Datagram(c, "full", sent[c]))
  /\ UNCHANGED <<argv, sent, result, printed, toClient, sockets, duplicates, strays>>

(* Read fails: nothing for a second, or nobody at the server's port          *)
NoAnswer(c) ==
  /\ c \in sockets
  /\ Exit(c, "no answer")
  /\ UNCHANGED <<argv, sent, printed, toServer, duplicates, strays>>

CtrlStep(c) == StartFails(c) \/ Start(c) \/ Answer(c) \/ NoAnswer(c)

--------------------------------------------------------------------------------
(* led-ctrl on its own, with anything at the server's port.                  *)

aloneVars == <<netVars, ctrlVars>>

AnyAnswer ==
  /\ \E c \in sockets :
       \/ /\ BagCardinality(toClient[c]) + Len(printed[c]) <= ListLength
          /\ \E p \in Replies : SendToClient(c, p)
          /\ UNCHANGED strays
       \/ /\ strays < MaxStrays
          /\ strays' = strays + 1
          /\ SendToClient(c, NoPacket)
  /\ UNCHANGED <<toServer, sockets, duplicates, ctrlVars>>

AloneInit == NetInit /\ CtrlInit
AloneNext == AnyAnswer \/ \E c \in Clients : CtrlStep(c)

(* Read returns after a second at the latest.                                *)
AloneSpec ==
  AloneInit /\ [][AloneNext]_aloneVars /\ \A c \in Clients : WF_aloneVars(Answer(c) \/ NoAnswer(c))

--------------------------------------------------------------------------------
(* Properties. *)

(* The command line decides what happens, whatever its order: led-ctrl sends *)
(* a packet only for the one operation on it, prints the usage when -h comes *)
(* before anything wrong, and fails otherwise.                               *)
Wrong(line, i) ==
  \/ line[i].opt = "?"
  \/ line[i].opt \in OperationOptions
       /\ \E j \in 1..(i - 1) : line[j].opt \in OperationOptions
HelpFirst(line) ==
  \E i \in 1..Len(line) : line[i].opt = "h" /\ \A j \in 1..i : ~Wrong(line, j)
CommandLineObeyed ==
  \A c \in Clients :
    LET line == argv[c]
        operations == {i \in 1..Len(line) : line[i].opt \in OperationOptions} IN
      /\ sent[c] # NoPacket =>
           /\ \A i \in 1..Len(line) : line[i].opt \notin {"h", "?"}
           /\ \E i \in operations :
                operations = {i} /\ sent[c].opcode = OpcodeOf(line[i].opt)
      /\ result[c] = "usage" <=> HelpFirst(line)
      /\ result[c] = "bad usage" =>
           operations = {} \/ \E i \in 1..Len(line) : Wrong(line, i)

(* led-ctrl ends, with an answer or without one.                             *)
ClientEnds == \A c \in Clients : c \in sockets ~> c \notin sockets
================================================================================
