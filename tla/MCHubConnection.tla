-------------------------- MODULE MCHubConnection --------------------------
(***************************************************************************)
(* Instances of HubConnection for TLC.  Senders are interchangeable.       *)
(***************************************************************************)
EXTENDS HubConnection, TLC

Symmetry == Permutations(Senders)

============================================================================
