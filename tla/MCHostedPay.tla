---------------------------- MODULE MCHostedPay ----------------------------
EXTENDS HostedPay, TLC

SameRef == [ref \in AppRefs |-> ref]
=============================================================================
