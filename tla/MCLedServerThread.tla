--------------------------- MODULE MCLedServerThread ---------------------------
(* Instances of the LED thread for TLC; the constants are in the cfg files.   *)
EXTENDS LedServerThread
================================================================================
