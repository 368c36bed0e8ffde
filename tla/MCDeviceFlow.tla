--------------------------- MODULE MCDeviceFlow ----------------------------
(***************************************************************************)
(* DeviceFlow for TLC.  The step of slow_down is the code's; the code's    *)
(* life and the timeout are scaled down so that several polls, sleeps over *)
(* the expiry and requests over it all happen.                             *)
(***************************************************************************)
EXTENDS DeviceFlow
============================================================================
