---------------------------- MODULE MCIrcClient ----------------------------
(***************************************************************************)
(* Instance of IrcClient for TLC.  The owner stops asking only when the    *)
(* client is gone or the bounds are reached.                               *)
(***************************************************************************)
EXTENDS IrcClient
============================================================================
