----------------------------- MODULE FeesCheck -----------------------------
(***************************************************************************)
(* The commission over a range of amounts: one behaviour per rate walks    *)
(* through the amounts franc by franc, so that an action property can      *)
(* compare the commission of an amount with that of the next.              *)
(***************************************************************************)
EXTENDS Fees, FiniteSets

CONSTANTS FirstAmount, LastAmount, Rates

ASSUME FeesCheckAssumption ==
  /\ FirstAmount \in Int /\ LastAmount \in Int
  /\ Rates \subseteq Int

VARIABLES amount, rate

vars == <<amount, rate>>

Init == amount = FirstAmount /\ rate \in Rates

Next == amount < LastAmount /\ amount' = amount + 1 /\ UNCHANGED rate

Spec == Init /\ [][Next]_vars

Fee == Compute(amount, rate).fee
Net == Compute(amount, rate).net

\* The commission is 50 francs per dollar begun, and takes at most the whole
\* amount: a dollar more would not have been begun, a dollar less leaves some
\* of the amount uncharged (the rounding of Compute at each dollar boundary).
FeeIsCeiling ==
  amount > 0 =>
    /\ 0 < Fee /\ Fee <= amount
    /\ Fee < amount =>
         \E d \in 1 .. Fee : /\ Fee = FeePerUSD * d
                             /\ RateUsed(rate) * (d - 1) < amount
                             /\ amount <= RateUsed(rate) * d

\* The same, counted one by one: the dollars begun are the multiples of the
\* rate the amount goes beyond, zero included.
Begun == {k \in 0 .. amount : k * RateUsed(rate) < amount}

FeeCountsDollars ==
  amount > 0 =>
    Fee = IF FeePerUSD * Cardinality(Begun) > amount
            THEN amount ELSE FeePerUSD * Cardinality(Begun)

\* One franc more never costs a merchant more than one commission step, and
\* the commission never goes down (fee and net are frozen on the row, so two
\* neighbouring amounts must not be priced in a surprising order).
FeeSteps ==
  [][/\ Fee' >= Fee /\ Fee' <= Fee + FeePerUSD
     /\ Net' >= Net - (FeePerUSD - 1)]_vars
=============================================================================
