------------------------------- MODULE MCHidDevice -------------------------------
(* HidDevice for TLC: which calls of libusb may fail.                        *)
EXTENDS HidDevice

NoFaults == {}
AllFaults == {"submit", "events", "early"}
================================================================================
