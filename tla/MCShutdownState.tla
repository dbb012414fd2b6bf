-------------------------- MODULE MCShutdownState --------------------------
(***************************************************************************)
(* Instances of ShutdownState for TLC.  Upgrade requests are alike, and so *)
(* are handles: every handle may make any of the three calls.              *)
(***************************************************************************)
EXTENDS ShutdownState, TLC

Symmetry == Permutations(Upgrades) \cup Permutations(Handles)

============================================================================
