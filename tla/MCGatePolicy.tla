---------------------------- MODULE MCGatePolicy ----------------------------
(* Instance of GatePolicyGovernance for TLC: sessions, contents and the      *)
(* versions published at the start are interchangeable.                      *)
EXTENDS GatePolicyGovernance, TLC

GovernanceSymmetry ==
  Permutations(Sessions) \cup Permutations(Contents) \cup Permutations(Published)
=============================================================================
