------------------------------- MODULE MCFees -------------------------------
EXTENDS FeesCheck

\* The walk starts under zero, where Compute charges nothing.
Below == -2

\* An absent rate, rates under and over the commission, and a prime.
TestRates == {-1, 0, 1, 7, 49, 50, 51, 60, 97}
=============================================================================
