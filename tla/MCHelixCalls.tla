---------------------------- MODULE MCHelixCalls ---------------------------
(***************************************************************************)
(* Instance of HelixCalls for TLC: a collection of three pages whose       *)
(* cursors percent coding leaves alone, and one whose cursors it does not. *)
(***************************************************************************)
EXTENDS HelixCalls

Cursors == {<< << >>, <<50>>, <<51>> >>,
            << << >>, <<Plus, 50, 61>>, <<Ampersand, 51, Percent>> >>}
OnePage == {<< << >> >>}
============================================================================
