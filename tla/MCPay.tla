-------------------------------- MODULE MCPay --------------------------------
(***************************************************************************)
(* Small instances of Orchestrator, and of the ledger it keeps.            *)
(***************************************************************************)
EXTENDS Bookkeeping, TLC

SameRef == [ref \in AppRefs |-> ref]
=============================================================================
