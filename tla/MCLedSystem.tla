------------------------------- MODULE MCLedSystem -------------------------------
(* Instances of the server and its clients for TLC.                           *)
EXTENDS LedSystem

Option(opt, arg) == [opt |-> opt, arg |-> arg]
Off   == <<Option("f", NoArgument)>>
Alert == <<Option("a", "link-up")>>
Mood  == <<Option("m", NoArgument)>>
List  == <<Option("M", NoArgument)>>

SetLines  == {Off, Alert, Mood}
AlertLine == {Alert}
SetAndListLines == {Off, Mood, Alert, List}

ClientSymmetry == Permutations(Clients)
================================================================================
