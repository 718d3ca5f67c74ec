---------------------------- MODULE AmountProofs ----------------------------
(***************************************************************************)
(* Amounts: the commission on each, for every rate, and what they add up   *)
(* to, over any finite set.                                                *)
(***************************************************************************)
EXTENDS Fees, Functions, FiniteSetTheorems, TLAPS

LEMMA RateUsedPositive ==
  ASSUME NEW r \in Int
  PROVE  RateUsed(r) \in Int /\ RateUsed(r) > 0
BY DEF RateUsed, DefaultUSDRate

LEMMA DivBounds ==
  ASSUME NEW x \in Int, NEW r \in Int, r > 0
  PROVE  /\ x \div r \in Int
         /\ r * (x \div r) <= x
         /\ x < r * (x \div r) + r
BY SMT

\* The number of dollars is the ceiling of the quotient.
LEMMA DollarsCeil ==
  ASSUME NEW a \in Int, a > 0, NEW r \in Int, r > 0
  PROVE  /\ Dollars(a, r) \in Int /\ Dollars(a, r) >= 1
         /\ r * Dollars(a, r) >= a
         /\ r * (Dollars(a, r) - 1) < a
<1> DEFINE d == (a + r - 1) \div r
<1>1. d \in Int /\ r * d <= a + r - 1 /\ a + r - 1 < r * d + r
  BY DivBounds
<1>2. d >= 1
  BY <1>1, SMT
<1>3. Dollars(a, r) = d
  BY <1>2 DEF Dollars
<1>. QED  BY <1>1, <1>2, <1>3, SMT

LEMMA DollarsInt ==
  ASSUME NEW a \in Int, NEW r \in Int, r > 0
  PROVE  Dollars(a, r) \in Int
BY DivBounds DEF Dollars

\* The commission takes a part of the amount, never more.
THEOREM FeeBounds ==
  ASSUME NEW a \in Nat, NEW r \in Int
  PROVE  /\ FeeOf(a, r) \in Nat
         /\ FeeOf(a, r) <= a
         /\ a > 0 => FeeOf(a, r) > 0
<1>1. CASE a = 0
  BY <1>1 DEF FeeOf
<1>2. CASE a > 0
  <2>1. Dollars(a, RateUsed(r)) \in Int /\ Dollars(a, RateUsed(r)) >= 1
    BY <1>2, RateUsedPositive, DollarsCeil
  <2>. QED  BY <1>2, <2>1 DEF FeeOf, FeePerUSD
<1>. QED  BY <1>1, <1>2

\* One more franc begins at most one more dollar, and never ends one.
LEMMA DollarsStep ==
  ASSUME NEW a \in Int, a > 0, NEW r \in Int, r > 0
  PROVE  /\ Dollars(a, r) <= Dollars(a + 1, r)
         /\ Dollars(a + 1, r) <= Dollars(a, r) + 1
<1> DEFINE d == Dollars(a, r)
           e == Dollars(a + 1, r)
<1>1. d \in Int /\ e \in Int /\ r * d >= a /\ r * (d - 1) < a
      /\ r * e >= a + 1 /\ r * (e - 1) < a + 1
  <2>1. d \in Int /\ r * d >= a /\ r * (d - 1) < a
    BY DollarsCeil
  <2>2. a + 1 \in Int /\ a + 1 > 0
    OBVIOUS
  <2>3. e \in Int /\ r * e >= a + 1 /\ r * (e - 1) < a + 1
    BY <2>2, DollarsCeil
  <2>. QED  BY <2>1, <2>3
<1>. HIDE DEF d, e
<1>2. r * e > r * (d - 1)
  BY <1>1, SMT
<1>3. r * (e - 1) < r * d + 1
  BY <1>1, SMT
<1>4. e > d - 1
  BY <1>1, <1>2, SMT
<1>5. e - 1 <= d
  BY <1>1, <1>3, SMT
<1>6. d <= e /\ e <= d + 1
  BY <1>1, <1>4, <1>5, SMT
<1>. QED  BY <1>6 DEF d, e

LEMMA FeeStep ==
  ASSUME NEW a \in Int, NEW r \in Int
  PROVE  /\ FeeOf(a, r) \in Int /\ FeeOf(a + 1, r) \in Int
         /\ FeeOf(a + 1, r) >= FeeOf(a, r)
         /\ FeeOf(a + 1, r) <= FeeOf(a, r) + FeePerUSD
<1>1. RateUsed(r) \in Int /\ RateUsed(r) > 0
  BY RateUsedPositive
<1>2. CASE a < 0
  BY <1>2 DEF FeeOf, FeePerUSD
<1>3. CASE a = 0
  BY <1>3, FeeBounds DEF FeeOf, FeePerUSD
<1>4. CASE a > 0
  <2>1. /\ Dollars(a, RateUsed(r)) \in Int
        /\ Dollars(a + 1, RateUsed(r)) \in Int
    BY <1>1, DollarsInt
  <2>2. /\ Dollars(a, RateUsed(r)) <= Dollars(a + 1, RateUsed(r))
        /\ Dollars(a + 1, RateUsed(r)) <= Dollars(a, RateUsed(r)) + 1
    BY <1>1, <1>4, DollarsStep
  <2>. QED  BY <1>4, <2>1, <2>2 DEF FeeOf, FeePerUSD
<1>. QED  BY <1>2, <1>3, <1>4

\* Under the cap the commission is 50 francs per dollar begun, exactly.
LEMMA CeilingAt ==
  ASSUME NEW a \in Int, a > 0, NEW r \in Int, FeeOf(a, r) < a
  PROVE  \E d \in 1 .. FeeOf(a, r) : /\ FeeOf(a, r) = FeePerUSD * d
                                     /\ RateUsed(r) * (d - 1) < a
                                     /\ a <= RateUsed(r) * d
<1> DEFINE d == Dollars(a, RateUsed(r))
<1>1. RateUsed(r) \in Int /\ RateUsed(r) > 0
  BY RateUsedPositive
<1>2. /\ d \in Int /\ d >= 1
      /\ RateUsed(r) * d >= a
      /\ RateUsed(r) * (d - 1) < a
  BY <1>1, DollarsCeil
<1>3. FeeOf(a, r) = FeePerUSD * d
  BY <1>2 DEF FeeOf, FeePerUSD
<1>4. d \in 1 .. FeeOf(a, r)
  BY <1>2, <1>3 DEF FeePerUSD
<1>. QED  BY <1>2, <1>3, <1>4
-----------------------------------------------------------------------------
(* Sums over finite sets.  Induction over a set is stated with sets alone: *)
(* a set of finite sets has a smallest member.                             *)

LEMMA SmallestSet ==
  ASSUME NEW S, NEW X \in SUBSET FiniteSubsetsOf(S), X # {}
  PROVE  \E T \in X : \A U \in X : U \subseteq T => U = T
<1>1. \E T \in X : \A U \in X : ~ (<<U, T>> \in StrictSubsetOrdering(S))
  BY FS_StrictSubsetOrderingWellFounded, WFMin
<1>. QED  BY <1>1 DEF StrictSubsetOrdering, FiniteSubsetsOf

\* Every finite set is in X, when every one is whose proper subsets are.
LEMMA FiniteSetInduction ==
  ASSUME NEW S, IsFiniteSet(S), NEW X,
         \A T \in SUBSET S : (\A U \in SUBSET T : U # T => U \in X) => T \in X
  PROVE  SUBSET S \subseteq X
<1>. DEFINE Bad == {T \in SUBSET S : T \notin X}
<1>1. \A T \in SUBSET S : IsFiniteSet(T)
  BY FS_Subset
<1>2. SUFFICES ASSUME Bad # {} PROVE FALSE
  OBVIOUS
<1>3. PICK T \in Bad : \A U \in Bad : U \subseteq T => U = T
  <2>1. Bad \in SUBSET FiniteSubsetsOf(S)
    BY <1>1 DEF FiniteSubsetsOf
  <2>. HIDE DEF Bad
  <2>. QED  BY <1>2, <2>1, SmallestSet
<1>4. \A U \in SUBSET T : U # T => U \in X
  BY <1>3
<1>. QED  BY <1>3, <1>4

Member(s) == CHOOSE x \in s : TRUE

\* g gives each subset of S its sum, as the fold of the library does.
Sums(g, fun, S) ==
  g = [s \in SUBSET S |-> IF s = {} THEN 0 ELSE fun[Member(s)] + g[s \ {Member(s)}]]

LEMMA SumsAgree ==
  ASSUME NEW fun, NEW g, NEW h, NEW S, NEW T, Sums(g, fun, S), Sums(h, fun, T),
         IsFiniteSet(S), S \subseteq T
  PROVE  \A U \in SUBSET S : g[U] = h[U]
<1>. DEFINE X == {U \in SUBSET S : g[U] = h[U]}
<1>1. ASSUME NEW U \in SUBSET S, \A V \in SUBSET U : V # U => V \in X PROVE U \in X
  <2>1. /\ g[U] = IF U = {} THEN 0 ELSE fun[Member(U)] + g[U \ {Member(U)}]
        /\ h[U] = IF U = {} THEN 0 ELSE fun[Member(U)] + h[U \ {Member(U)}]
    BY DEF Sums
  <2>2. CASE U = {}   BY <2>1, <2>2
  <2>3. CASE U # {}
    <3>1. Member(U) \in U
      BY <2>3 DEF Member
    <3>. QED  BY <1>1, <2>1, <2>3, <3>1
  <2>. QED  BY <2>2, <2>3
<1>2. SUBSET S \subseteq X
  <2>. HIDE DEF X
  <2>. QED  BY <1>1, FiniteSetInduction
<1>. QED  BY <1>2

LEMMA SumIsSum ==
  ASSUME NEW fun, NEW S, \E g : Sums(g, fun, S)
  PROVE  \E g : Sums(g, fun, S) /\ SumFunctionOnSet(fun, S) = g[S]
<1>. DEFINE G == CHOOSE g : Sums(g, fun, S)
<1>1. Sums(G, fun, S)
  OBVIOUS
<1>2. SumFunctionOnSet(fun, S) = G[S]
  BY DEF SumFunctionOnSet, FoldFunctionOnSet, MapThenFoldSet, Sums, Member
<1>. QED  BY <1>1, <1>2

\* The recursive function of the fold exists.
LEMMA SumsExist ==
  ASSUME NEW fun, NEW S, IsFiniteSet(S)
  PROVE  \E g : Sums(g, fun, S)
<1>. DEFINE sum(V) == SumFunctionOnSet(fun, V)
            X == {U \in SUBSET S : \E g : Sums(g, fun, U)}
<1>1. ASSUME NEW U \in SUBSET S, \A V \in SUBSET U : V # U => V \in X PROVE U \in X
  <2>. DEFINE rest(V) == V \ {Member(V)}
              G == [V \in SUBSET U |-> IF V # U THEN sum(V)
                                       ELSE IF V = {} THEN 0 ELSE fun[Member(V)] + sum(rest(V))]
  <2>1. ASSUME NEW V \in SUBSET U
        PROVE  G[V] = IF V = {} THEN 0 ELSE fun[Member(V)] + G[rest(V)]
    <3>1. V # {} => Member(V) \in V
      BY DEF Member
    <3>2. V # {} => rest(V) \in SUBSET U /\ rest(V) # U /\ rest(V) # V /\ rest(V) \subseteq V
      BY <3>1
    <3>3. V # {} => G[rest(V)] = sum(rest(V))
      BY <3>2
    <3>4. CASE V = U
      BY <3>3, <3>4
    <3>5. CASE V # U
      <4>1. PICK g : Sums(g, fun, V) /\ sum(V) = g[V]
        BY <1>1, <3>5, SumIsSum
      <4>2. g[V] = IF V = {} THEN 0 ELSE fun[Member(V)] + g[rest(V)]
        BY <4>1 DEF Sums
      <4>3. CASE V # {}
        <5>1. PICK h : Sums(h, fun, rest(V)) /\ sum(rest(V)) = h[rest(V)]
          BY <1>1, <3>2, <4>3, SumIsSum
        <5>2. IsFiniteSet(rest(V))
          BY FS_Subset
        <5>3. h[rest(V)] = g[rest(V)]
          BY <3>2, <4>1, <4>3, <5>1, <5>2, SumsAgree
        <5>. QED  BY <3>3, <3>5, <4>1, <4>2, <4>3, <5>1, <5>3
      <4>. QED  BY <3>5, <4>1, <4>2, <4>3
    <3>. QED  BY <3>4, <3>5
  <2>2. G = [V \in SUBSET U |-> IF V = {} THEN 0 ELSE fun[Member(V)] + G[rest(V)]]
    BY <2>1
  <2>. HIDE DEF G
  <2>. QED  BY <2>2 DEF Sums
<1>2. SUBSET S \subseteq X
  <2>. HIDE DEF X
  <2>. QED  BY <1>1, FiniteSetInduction
<1>. QED  BY <1>2

\* What the library's sum computes, over any finite set.
LEMMA SumUnfolds ==
  ASSUME NEW fun, NEW S, IsFiniteSet(S)
  PROVE  SumFunctionOnSet(fun, S) =
           IF S = {} THEN 0
           ELSE fun[Member(S)] + SumFunctionOnSet(fun, S \ {Member(S)})
<1>. DEFINE R == S \ {Member(S)}
<1>1. IsFiniteSet(R)
  BY FS_Subset
<1>2. PICK g : Sums(g, fun, S) /\ SumFunctionOnSet(fun, S) = g[S]
  BY SumsExist, SumIsSum
<1>3. PICK h : Sums(h, fun, R) /\ SumFunctionOnSet(fun, R) = h[R]
  BY <1>1, SumsExist, SumIsSum
<1>4. h[R] = g[R]
  BY <1>1, <1>2, <1>3, SumsAgree
<1>5. g[S] = IF S = {} THEN 0 ELSE fun[Member(S)] + g[R]
  BY <1>2 DEF Sums
<1>. QED  BY <1>2, <1>3, <1>4, <1>5

LEMMA SumOfNone == ASSUME NEW fun PROVE SumFunctionOnSet(fun, {}) = 0
BY FS_EmptySet, SumUnfolds

LEMMA SumNat ==
  ASSUME NEW fun, NEW S, IsFiniteSet(S), \A x \in S : fun[x] \in Nat
  PROVE  SumFunctionOnSet(fun, S) \in Nat
<1>. DEFINE X == {U \in SUBSET S : SumFunctionOnSet(fun, U) \in Nat}
<1>1. ASSUME NEW U \in SUBSET S, \A V \in SUBSET U : V # U => V \in X PROVE U \in X
  <2>1. IsFiniteSet(U)
    BY FS_Subset
  <2>2. CASE U = {}   BY <2>2, SumOfNone
  <2>3. CASE U # {}
    <3>1. Member(U) \in U
      BY <2>3 DEF Member
    <3>2. U \ {Member(U)} \in X
      BY <1>1, <3>1
    <3>. QED  BY <2>1, <2>3, <3>1, <3>2, SumUnfolds
  <2>. QED  BY <2>2, <2>3
<1>2. SUBSET S \subseteq X
  <2>. HIDE DEF X
  <2>. QED  BY <1>1, FiniteSetInduction
<1>. QED  BY <1>2

\* Whichever members the fold takes first, the last one is added to the rest.
LEMMA SumAdds ==
  ASSUME NEW fun, NEW S, IsFiniteSet(S), NEW e \in S, \A x \in S : fun[x] \in Nat
  PROVE  SumFunctionOnSet(fun, S) = fun[e] + SumFunctionOnSet(fun, S \ {e})
<1>. DEFINE sum(V) == SumFunctionOnSet(fun, V)
            X == {U \in SUBSET S : \A x \in U : sum(U) = fun[x] + sum(U \ {x})}
<1>1. \A U \in SUBSET S : IsFiniteSet(U) /\ sum(U) \in Nat
  <2>. SUFFICES ASSUME NEW U \in SUBSET S PROVE IsFiniteSet(U) /\ sum(U) \in Nat
    OBVIOUS
  <2>1. IsFiniteSet(U)
    BY FS_Subset
  <2>. QED  BY <2>1, SumNat
<1>2. ASSUME NEW U \in SUBSET S, \A V \in SUBSET U : V # U => V \in X PROVE U \in X
  <2>. SUFFICES ASSUME NEW x \in U PROVE sum(U) = fun[x] + sum(U \ {x})
    OBVIOUS
  <2>. DEFINE m == Member(U)
  <2>1. m \in U
    BY DEF Member
  <2>2. sum(U) = fun[m] + sum(U \ {m})
    BY <1>1, <2>1, SumUnfolds
  <2>3. CASE x # m
    <3>1. /\ sum(U \ {m}) = fun[x] + sum((U \ {m}) \ {x})
          /\ sum(U \ {x}) = fun[m] + sum((U \ {x}) \ {m})
      BY <1>2, <2>1, <2>3
    <3>2. (U \ {m}) \ {x} = (U \ {x}) \ {m}
      OBVIOUS
    <3>3. sum((U \ {x}) \ {m}) \in Nat /\ fun[x] \in Nat /\ fun[m] \in Nat
      BY <1>1, <2>1
    <3>. DEFINE both == sum((U \ {x}) \ {m})
    <3>4. sum(U) = fun[m] + (fun[x] + both) /\ sum(U \ {x}) = fun[m] + both
      BY <2>2, <3>1, <3>2
    <3>. HIDE DEF both
    <3>5. fun[m] + (fun[x] + both) = fun[x] + (fun[m] + both)
      BY <3>3 DEF both
    <3>. QED  BY <3>4, <3>5
  <2>. QED  BY <2>2, <2>3
<1>3. SUBSET S \subseteq X
  <2>. HIDE DEF X
  <2>. QED  BY <1>2, FiniteSetInduction
<1>. QED  BY <1>3

\* A sum depends only on what is summed.
LEMMA SumSame ==
  ASSUME NEW f, NEW h, NEW S, IsFiniteSet(S), \A x \in S : f[x] = h[x]
  PROVE  SumFunctionOnSet(f, S) = SumFunctionOnSet(h, S)
<1>. DEFINE X == {U \in SUBSET S : SumFunctionOnSet(f, U) = SumFunctionOnSet(h, U)}
<1>1. ASSUME NEW U \in SUBSET S, \A V \in SUBSET U : V # U => V \in X PROVE U \in X
  <2>1. IsFiniteSet(U)
    BY FS_Subset
  <2>2. CASE U = {}   BY <2>2, SumOfNone
  <2>3. CASE U # {}
    <3>1. Member(U) \in U
      BY <2>3 DEF Member
    <3>2. U \ {Member(U)} \in X
      BY <1>1, <3>1
    <3>. QED  BY <2>1, <2>3, <3>1, <3>2, SumUnfolds
  <2>. QED  BY <2>2, <2>3
<1>2. SUBSET S \subseteq X
  <2>. HIDE DEF X
  <2>. QED  BY <1>1, FiniteSetInduction
<1>. QED  BY <1>2

\* What is summed over two sets apart adds up.
LEMMA SumUnion ==
  ASSUME NEW fun, NEW S, NEW T, IsFiniteSet(S), IsFiniteSet(T), S \cap T = {},
         \A x \in S \cup T : fun[x] \in Nat
  PROVE  SumFunctionOnSet(fun, S \cup T) = SumFunctionOnSet(fun, S) + SumFunctionOnSet(fun, T)
<1>. DEFINE sum(V) == SumFunctionOnSet(fun, V)
            X == {U \in SUBSET T : sum(S \cup U) = sum(S) + sum(U)}
<1>1. ASSUME NEW U \in SUBSET T, \A V \in SUBSET U : V # U => V \in X PROVE U \in X
  <2>1. IsFiniteSet(U) /\ IsFiniteSet(S \cup U) /\ sum(S) \in Nat
    BY FS_Subset, FS_Union, SumNat
  <2>2. CASE U = {}
    <3>. HIDE DEF sum
    <3>1. sum({}) = 0 /\ S \cup U = S
      BY <2>2, SumOfNone DEF sum
    <3>. QED  BY <2>1, <2>2, <3>1
  <2>3. CASE U # {}
    <3>. DEFINE m == Member(U)
    <3>1. m \in U
      BY <2>3 DEF Member
    <3>2. sum(U) = fun[m] + sum(U \ {m})
      BY <2>1, <2>3, SumUnfolds
    <3>3. (S \cup U) \ {m} = S \cup (U \ {m})
      BY <3>1
    <3>4. sum(S \cup U) = fun[m] + sum(S \cup (U \ {m}))
      BY <2>1, <3>1, <3>3, SumAdds
    <3>5. sum(S \cup (U \ {m})) = sum(S) + sum(U \ {m})
      BY <1>1, <3>1
    <3>6. sum(U \ {m}) \in Nat /\ fun[m] \in Nat
      <4>1. IsFiniteSet(U \ {m})
        BY <2>1, FS_Subset
      <4>. QED  BY <3>1, <4>1, SumNat
    <3>. HIDE DEF sum, m
    <3>. QED  BY <2>1, <3>2, <3>4, <3>5, <3>6
  <2>. QED  BY <2>2, <2>3
<1>2. SUBSET T \subseteq X
  <2>. HIDE DEF X
  <2>. QED  BY <1>1, FiniteSetInduction
<1>. QED  BY <1>2

\* More members, and greater ones, add up to no less.
LEMMA SumGrows ==
  ASSUME NEW f, NEW h, NEW S, NEW T, IsFiniteSet(T), S \subseteq T,
         \A x \in S : f[x] = h[x], \A x \in T : h[x] \in Nat
  PROVE  SumFunctionOnSet(f, S) <= SumFunctionOnSet(h, T)
<1>1. IsFiniteSet(S) /\ IsFiniteSet(T \ S)
  BY FS_Subset, FS_Difference
<1>2. SumFunctionOnSet(f, S) = SumFunctionOnSet(h, S)
  BY <1>1, SumSame
<1>3. SumFunctionOnSet(h, S) \in Nat /\ SumFunctionOnSet(h, T \ S) \in Nat
  BY <1>1, SumNat
<1>4. SumFunctionOnSet(h, S \cup (T \ S)) = SumFunctionOnSet(h, S) + SumFunctionOnSet(h, T \ S)
  BY <1>1, SumUnion
<1>5. S \cup (T \ S) = T
  OBVIOUS
<1>. QED  BY <1>2, <1>3, <1>4, <1>5

\* Counting is summing ones.
LEMMA SumCounts ==
  ASSUME NEW fun, NEW S, IsFiniteSet(S), \A x \in S : fun[x] = 1
  PROVE  SumFunctionOnSet(fun, S) = Cardinality(S)
<1>. DEFINE X == {U \in SUBSET S : SumFunctionOnSet(fun, U) = Cardinality(U)}
<1>1. ASSUME NEW U \in SUBSET S, \A V \in SUBSET U : V # U => V \in X PROVE U \in X
  <2>1. IsFiniteSet(U)
    BY FS_Subset
  <2>2. CASE U = {}   BY <2>2, SumOfNone, FS_EmptySet
  <2>3. CASE U # {}
    <3>1. Member(U) \in U
      BY <2>3 DEF Member
    <3>2. Cardinality(U \ {Member(U)}) = Cardinality(U) - 1 /\ Cardinality(U) \in Nat
      BY <2>1, <3>1, FS_RemoveElement, FS_CardinalityType
    <3>. QED  BY <1>1, <2>1, <2>3, <3>1, <3>2, SumUnfolds
  <2>. QED  BY <2>2, <2>3
<1>2. SUBSET S \subseteq X
  <2>. HIDE DEF X
  <2>. QED  BY <1>1, FiniteSetInduction
<1>. QED  BY <1>2

\* Summed by groups, or all at once.
LEMMA SumByGroups ==
  ASSUME NEW fun, NEW S, IsFiniteSet(S), \A x \in S : fun[x] \in Nat,
         NEW G, IsFiniteSet(G), NEW of, \A x \in S : of[x] \in G,
         NEW group, \A g \in G : group[g] = {x \in S : of[x] = g},
         NEW lines, \A g \in G : lines[g] = SumFunctionOnSet(fun, group[g])
  PROVE  SumFunctionOnSet(lines, G) = SumFunctionOnSet(fun, S)
<1>. DEFINE in(K) == {x \in S : of[x] \in K}
            X == {K \in SUBSET G : SumFunctionOnSet(lines, K) = SumFunctionOnSet(fun, in(K))}
<1>1. ASSUME NEW K \in SUBSET G, \A V \in SUBSET K : V # K => V \in X PROVE K \in X
  <2>1. IsFiniteSet(K)
    BY FS_Subset
  <2>2. CASE K = {}
    <3>1. in(K) = {}
      BY <2>2
    <3>. QED  BY <2>2, <3>1, SumOfNone
  <2>3. CASE K # {}
    <3>. DEFINE m == Member(K)
                one == group[m]
    <3>1. m \in K
      BY <2>3 DEF Member
    <3>2. SumFunctionOnSet(lines, K) = lines[m] + SumFunctionOnSet(lines, K \ {m})
      BY <2>1, <2>3, SumUnfolds
    <3>3. SumFunctionOnSet(lines, K \ {m}) = SumFunctionOnSet(fun, in(K \ {m}))
      BY <1>1, <3>1
    <3>4. lines[m] = SumFunctionOnSet(fun, one)
      BY <3>1
    <3>. DEFINE others == in(K \ {m})
    <3>5. one \cup others = in(K) /\ one \cap others = {}
      BY <3>1
    <3>6. one \in SUBSET S /\ others \in SUBSET S
      BY <3>1
    <3>. HIDE DEF in, one, m, others
    <3>7. SumFunctionOnSet(fun, in(K))
            = SumFunctionOnSet(fun, one) + SumFunctionOnSet(fun, others)
      <4>1. /\ IsFiniteSet(one) /\ IsFiniteSet(others)
            /\ \A x \in one \cup others : fun[x] \in Nat
        BY <3>6, FS_Subset
      <4>2. SumFunctionOnSet(fun, one \cup others)
              = SumFunctionOnSet(fun, one) + SumFunctionOnSet(fun, others)
        BY <3>5, <4>1, SumUnion
      <4>. QED  BY <3>5, <4>2
    <3>8. K \in SUBSET G
      OBVIOUS
    <3>. QED  BY <3>2, <3>3, <3>4, <3>7, <3>8 DEF others
  <2>. QED  BY <2>2, <2>3
<1>2. SUBSET G \subseteq X
  <2>. HIDE DEF X
  <2>. QED  BY <1>1, FiniteSetInduction
<1>3. in(G) = S
  OBVIOUS
<1>. QED  BY <1>2, <1>3
=============================================================================
