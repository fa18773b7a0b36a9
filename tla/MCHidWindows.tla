------------------------------- MODULE MCHidWindows -------------------------------
(* HidWindows for TLC; the constants are in the cfg file.                     *)
EXTENDS HidWindows
================================================================================
