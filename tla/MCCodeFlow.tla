----------------------------- MODULE MCCodeFlow ----------------------------
(***************************************************************************)
(* Instance of CodeFlow for TLC.  Two logins, so that a redirect may bring *)
(* the state of one with the code of the other; two handlers, so that one  *)
(* redirect may be handled twice at once and once more after that.         *)
(***************************************************************************)
EXTENDS CodeFlow, TLC

Symmetry == Permutations(Handlers) \cup Permutations(Logins)
============================================================================
