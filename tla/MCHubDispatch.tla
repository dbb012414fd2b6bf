--------------------------- MODULE MCHubDispatch ---------------------------
(* Instance of HubDispatch for TLC: frames of one message, and frames of   *)
(* two in which the second is an invocation, so that what the first does   *)
(* to it shows.                                                            *)
EXTENDS HubDispatch

MCBatches == {<<k>> : k \in Kinds} \cup {<<k, "call">> : k \in Kinds}
============================================================================
