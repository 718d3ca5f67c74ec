------------------------------ MODULE MCRelay ------------------------------
(***************************************************************************)
(* Small instances of Relay.                                               *)
(***************************************************************************)
EXTENDS Relay, TLC

SameRef == [ref \in AppRefs |-> ref]
=============================================================================
