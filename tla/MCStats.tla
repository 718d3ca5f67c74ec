------------------------------- MODULE MCStats -------------------------------
(***************************************************************************)
(* Small instances of the orchestrator with the console's dashboard.       *)
(***************************************************************************)
EXTENDS Stats, TLC

SameRef == [ref \in AppRefs |-> ref]

PayoutSymmetry == Permutations(Payouts)
==============================================================================
