-------------------------- MODULE CommissionProofs --------------------------
(***************************************************************************)
(* The properties of FeesCheck, for every range of amounts and every set   *)
(* of rates.                                                               *)
(***************************************************************************)
EXTENDS FeesCheck, AmountProofs

\* The walk stays on integers.
LEMMA WalkTyped == Spec => [](amount \in Int /\ rate \in Int)
<1> DEFINE T == amount \in Int /\ rate \in Int
<1>1. Init => T
  BY FeesCheckAssumption DEF Init
<1>2. T /\ [Next]_vars => T'
  BY DEF Next, vars
<1>. QED  BY <1>1, <1>2, PTL DEF Spec

\* FeeIsCeiling holds of every amount and every configured rate.
THEOREM CommissionIsCeiling == Spec => []FeeIsCeiling
<1>1. amount \in Int /\ rate \in Int => FeeIsCeiling
  <2> SUFFICES ASSUME amount \in Int, rate \in Int, amount > 0
               PROVE  /\ 0 < Fee /\ Fee <= amount
                      /\ Fee < amount =>
                           \E d \in 1 .. Fee : /\ Fee = FeePerUSD * d
                                               /\ RateUsed(rate) * (d - 1) < amount
                                               /\ amount <= RateUsed(rate) * d
    BY DEF FeeIsCeiling
  <2>1. Fee = FeeOf(amount, rate)
    BY DEF Fee, Compute
  <2>2. 0 < Fee /\ Fee <= amount
    BY <2>1, FeeBounds
  <2>. QED  BY <2>1, <2>2, CeilingAt
<1>. QED  BY <1>1, WalkTyped, PTL

\* Products with a positive factor keep the order of the other one.
LEMMA ProductOrder ==
  ASSUME NEW r \in Int, r > 0, NEW x \in Int, NEW y \in Int
  PROVE  /\ x <= y => r * x <= r * y
         /\ r * x < r * y => x < y
         /\ x >= 0 => x <= r * x
<1>1. x <= y => r * x <= r * y
  <2>. SUFFICES ASSUME x <= y PROVE r * x <= r * y
    OBVIOUS
  <2>1. y - x >= 0 /\ y - x \in Int
    OBVIOUS
  <2>2. r * (y - x) >= 0
    BY <2>1, SMT
  <2>. QED  BY <2>2, SMT
<1>2. r * x < r * y => x < y
  <2>. SUFFICES ASSUME y <= x PROVE r * y <= r * x
    BY SMT
  <2>1. x - y >= 0 /\ x - y \in Int
    OBVIOUS
  <2>2. r * (x - y) >= 0
    BY <2>1, SMT
  <2>. QED  BY <2>2, SMT
<1>3. x >= 0 => x <= r * x
  <2>. SUFFICES ASSUME x >= 0 PROVE x <= r * x
    OBVIOUS
  <2>1. r - 1 >= 0 /\ r - 1 \in Int
    OBVIOUS
  <2>2. (r - 1) * x >= 0
    BY <2>1, SMT
  <2>. QED  BY <2>2, SMT
<1>. QED  BY <1>1, <1>2, <1>3

\* The dollars begun are numbered from 0 on: there are Dollars of them.
LEMMA BegunIsInterval ==
  ASSUME NEW a \in Int, a > 0, NEW r \in Int, r > 0
  PROVE  {k \in 0 .. a : k * r < a} = 0 .. (Dollars(a, r) - 1)
<1>. DEFINE d == Dollars(a, r)
<1>1. d \in Int /\ d >= 1 /\ r * d >= a /\ r * (d - 1) < a
  BY DollarsCeil
<1>. HIDE DEF d
<1>2. ASSUME NEW k \in 0 .. a, k * r < a PROVE k \in 0 .. (d - 1)
  <2>1. k \in Int /\ r * k < r * d
    BY <1>1, <1>2
  <2>2. k < d
    BY <1>1, <2>1, ProductOrder
  <2>. QED  BY <1>1, <2>1, <2>2
<1>3. ASSUME NEW k \in 0 .. (d - 1) PROVE k \in 0 .. a /\ k * r < a
  <2>1. k \in Int /\ k >= 0 /\ d - 1 \in Int /\ k <= d - 1
    BY <1>1
  <2>2. r * k <= r * (d - 1) /\ k <= r * k
    BY <2>1, ProductOrder
  <2>3. r * k \in Int /\ r * (d - 1) \in Int /\ k * r = r * k
    BY <2>1
  <2>. QED  BY <1>1, <2>1, <2>2, <2>3
<1>4. {k \in 0 .. a : k * r < a} = 0 .. (d - 1)
  BY <1>2, <1>3
<1>. QED  BY <1>4 DEF d

\* Compute charges each dollar begun once: as many as there are multiples of
\* the rate below the amount, unless that is more than the whole amount.
THEOREM CommissionCountsDollars == Spec => []FeeCountsDollars
<1>1. amount \in Int /\ rate \in Int => FeeCountsDollars
  <2>. SUFFICES ASSUME amount \in Int, rate \in Int, amount > 0
                PROVE  Fee = IF FeePerUSD * Cardinality(Begun) > amount
                               THEN amount ELSE FeePerUSD * Cardinality(Begun)
    BY DEF FeeCountsDollars
  <2>. DEFINE d == Dollars(amount, RateUsed(rate))
  <2>1. RateUsed(rate) \in Int /\ RateUsed(rate) > 0
    BY RateUsedPositive
  <2>2. d \in Int /\ d >= 1
    BY <2>1, DollarsCeil
  <2>3. Begun = 0 .. (d - 1)
    BY <2>1, BegunIsInterval DEF Begun
  <2>4. Fee = IF d * FeePerUSD > amount THEN amount ELSE d * FeePerUSD
    BY DEF Fee, Compute, FeeOf
  <2>. HIDE DEF d
  <2>5. Cardinality(Begun) = d
    BY <2>2, <2>3, FS_Interval
  <2>. QED  BY <2>2, <2>4, <2>5 DEF FeePerUSD
<1>. QED  BY <1>1, WalkTyped, PTL

\* FeeSteps holds along every walk.
THEOREM CommissionSteps == Spec => FeeSteps
<1> DEFINE A == /\ Fee' >= Fee /\ Fee' <= Fee + FeePerUSD
                /\ Net' >= Net - (FeePerUSD - 1)
<1>1. (amount \in Int /\ rate \in Int) /\ [Next]_vars => [A]_vars
  <2> SUFFICES ASSUME amount \in Int, rate \in Int, Next
               PROVE  A
    OBVIOUS
  <2>1. /\ Fee = FeeOf(amount, rate) /\ Fee' = FeeOf(amount + 1, rate)
        /\ Net = amount - FeeOf(amount, rate)
        /\ Net' = amount + 1 - FeeOf(amount + 1, rate)
    <3>1. Fee = FeeOf(amount, rate) /\ Net = amount - FeeOf(amount, rate)
      BY DEF Fee, Net, Compute
    <3>2. amount' \in Int /\ rate' \in Int /\ amount' = amount + 1 /\ rate' = rate
      BY DEF Next
    <3>3. Fee' = FeeOf(amount + 1, rate) /\ Net' = amount + 1 - FeeOf(amount + 1, rate)
      BY <3>2 DEF Fee, Net, Compute, FeeOf, FeePerUSD, Dollars, RateUsed, DefaultUSDRate
    <3>. QED  BY <3>1, <3>3
  <2>2. /\ FeeOf(amount, rate) \in Int /\ FeeOf(amount + 1, rate) \in Int
        /\ FeeOf(amount + 1, rate) >= FeeOf(amount, rate)
        /\ FeeOf(amount + 1, rate) <= FeeOf(amount, rate) + FeePerUSD
    BY FeeStep
  <2>. QED  BY <2>1, <2>2 DEF FeePerUSD
<1>2. Spec => [][A]_vars
  BY <1>1, WalkTyped, PTL DEF Spec
<1>. QED  BY <1>2 DEF FeeSteps
=============================================================================
