-------------------------------- MODULE Fees --------------------------------
(***************************************************************************)
(* The commission ABMCY Core keeps on a transaction (internal/fees).       *)
(* Amounts are whole francs; the quotient is Go's integer division, which  *)
(* agrees with \div on the positive operands Compute reaches it with.      *)
(***************************************************************************)
EXTENDS Integers

FeePerUSD == 50

DefaultUSDRate == 600

\* A missing or invalid rate falls back to the default.
RateUsed(usdRate) == IF usdRate <= 0 THEN DefaultUSDRate ELSE usdRate

\* Mutants: whole dollars only; one dollar too many at an exact multiple.
DollarsFloor(amount, rate) == LET d == amount \div rate IN IF d < 1 THEN 1 ELSE d
DollarsPlusOne(amount, rate) == amount \div rate + 1

\* Dollars begun by an amount: ceil(amount / rate), never less than one.
Dollars(amount, rate) ==
  LET d == (amount + rate - 1) \div rate IN IF d < 1 THEN 1 ELSE d

\* Mutant: a commission above the amount is waived instead of capped.
FeeWaived(amount, usdRate) ==
  LET fee == Dollars(amount, RateUsed(usdRate)) * FeePerUSD
  IN  IF amount <= 0 \/ fee > amount THEN 0 ELSE fee

FeeOf(amount, usdRate) ==
  LET fee == Dollars(amount, RateUsed(usdRate)) * FeePerUSD
  IN  IF amount <= 0 THEN 0 ELSE IF fee > amount THEN amount ELSE fee

Compute(amount, usdRate) ==
  [amount |-> amount,
   fee    |-> FeeOf(amount, usdRate),
   net    |-> amount - FeeOf(amount, usdRate),
   rate   |-> RateUsed(usdRate)]
=============================================================================
