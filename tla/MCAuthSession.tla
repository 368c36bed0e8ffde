--------------------------- MODULE MCAuthSession ---------------------------
(***************************************************************************)
(* Instances of AuthSession for TLC.  Callers and accounts are             *)
(* interchangeable, so the run of invariants uses them as symmetry sets;   *)
(* the runs of action and liveness properties do not.                      *)
(***************************************************************************)
EXTENDS AuthSession, TLC

Symmetry == Permutations(Callers) \cup Permutations(Users)
============================================================================
