-------------------------- MODULE MCEventSubStream -------------------------
(***************************************************************************)
(* Instance of EventSubStream for TLC.  Of the frame kinds that every      *)
(* action treats alike one stands for the others: reconnect for            *)
(* disconnect, reconnectNoUrl for badWelcome, garbled for other, and       *)
(* revocation for keepalive.                                               *)
(***************************************************************************)
EXTENDS EventSubStream

Representatives ==
    AllKinds \ {"disconnect", "badWelcome", "other", "keepalive"}
============================================================================
