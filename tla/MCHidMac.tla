--------------------------------- MODULE MCHidMac ---------------------------------
(* HidMac for TLC; the constants are in the cfg file.                         *)
EXTENDS HidMac
================================================================================
