-------------------------- MODULE RouteRiskProofs --------------------------
(***************************************************************************)
(* What evaluateRouteRisk returns, for every route and every slippage.     *)
(***************************************************************************)
EXTENDS RouteRisk, TLAPS

\* A reported figure has one of the four levels, and a worse figure no lower one.
LEMMA GradeIsMonotone ==
    ASSUME NEW v \in Nat, NEW w \in Nat, v <= w,
           NEW a \in Nat, NEW b \in Nat, NEW c \in Nat, a <= b, b <= c
    PROVE  /\ Grade(v, a, b, c) \in Levels
           /\ Grade(v, a, b, c) <= Grade(w, a, b, c)
BY DEF Grade, Levels, Low, Medium, High, Blocked

\* The slippage is always a factor, so there is one, and all are levels.
LEMMA FactorsAreLevels ==
    ASSUME NEW r \in Routes, NEW s \in Nat
    PROVE  /\ Factors(r, s) \subseteq Levels
           /\ SlippageLevel(s) \in Factors(r, s)
<1>1. SlippageLevel(s) \in Levels
  BY DEF SlippageLevel, Grade, Levels, Low, Medium, High, Blocked
<1>2. \A v \in Figures \ {Unknown} :
         PriceImpactLevel(v) \in Levels /\ GasLevel(v) \in Levels /\ HopsLevel(v) \in Levels
  BY DEF PriceImpactLevel, GasLevel, HopsLevel, Grade, Levels, Low, Medium, High, Blocked,
         Figures, Unknown
<1> QED BY <1>1, <1>2 DEF Factors, Routes

\* A set of levels that is not empty has a worst one.
LEMMA WorstLevelExists ==
    ASSUME NEW S \in SUBSET Levels, S # {}
    PROVE  \E l \in S : \A m \in S : m <= l
<1>1. CASE Blocked \in S BY <1>1 DEF Levels, Low, Blocked
<1>2. CASE Blocked \notin S /\ High \in S BY <1>2 DEF Levels, Low, High, Blocked
<1>3. CASE Blocked \notin S /\ High \notin S /\ Medium \in S
  BY <1>3 DEF Levels, Low, Medium, High, Blocked
<1>4. CASE Medium \notin S /\ High \notin S /\ Blocked \notin S
  <2>1. \A m \in S : m = Low
    BY <1>4 DEF Levels, Low, Medium, High, Blocked
  <2>2. Low \in S
    BY <2>1
  <2> QED BY <2>1, <2>2 DEF Low
<1> QED BY <1>1, <1>2, <1>3, <1>4

\* The evaluation is one of the factors and no factor is worse: a single figure
\* over its limit cannot be outvoted by the others.
THEOREM WorstFactorDecides ==
    ASSUME NEW r \in Routes, NEW s \in Nat
    PROVE  /\ EvaluateRouteRisk(r, s) \in Factors(r, s)
           /\ EvaluateRouteRisk(r, s) \in Levels
           /\ \A m \in Factors(r, s) : m <= EvaluateRouteRisk(r, s)
<1>1. Factors(r, s) \subseteq Levels /\ Factors(r, s) # {}
  BY FactorsAreLevels
<1>2. \E l \in Factors(r, s) : \A m \in Factors(r, s) : m <= l
  BY <1>1, WorstLevelExists
<1> QED BY <1>1, <1>2 DEF EvaluateRouteRisk

\* Each factor of a route has a counterpart, no better, in a worse route.
LEMMA FactorsAreMonotone ==
    ASSUME NEW r \in Routes, NEW q \in Routes, NEW s \in Nat, NEW t \in Nat, s <= t,
           r.priceImpact = Unknown \/ r.priceImpact <= q.priceImpact,
           r.gas = Unknown \/ r.gas <= q.gas,
           r.hops = Unknown \/ r.hops <= q.hops,
           NEW l \in Factors(r, s)
    PROVE  \E m \in Factors(q, t) : l <= m
<1>1. CASE l = SlippageLevel(s)
  <2>1. SlippageLevel(s) <= SlippageLevel(t)
    BY GradeIsMonotone DEF SlippageLevel
  <2> QED BY <1>1, <2>1, FactorsAreLevels
<1>2. CASE r.priceImpact # Unknown /\ l = PriceImpactLevel(r.priceImpact)
  <2>1. r.priceImpact \in Nat /\ q.priceImpact \in Nat /\ r.priceImpact <= q.priceImpact
    BY <1>2 DEF Routes, Figures, Unknown
  <2>2. PriceImpactLevel(r.priceImpact) <= PriceImpactLevel(q.priceImpact)
    BY <2>1, GradeIsMonotone DEF PriceImpactLevel
  <2>3. PriceImpactLevel(q.priceImpact) \in Factors(q, t)
    BY <2>1 DEF Factors, Unknown
  <2> QED BY <1>2, <2>2, <2>3
<1>3. CASE r.gas # Unknown /\ l = GasLevel(r.gas)
  <2>1. r.gas \in Nat /\ q.gas \in Nat /\ r.gas <= q.gas
    BY <1>3 DEF Routes, Figures, Unknown
  <2>2. GasLevel(r.gas) <= GasLevel(q.gas)
    BY <2>1, GradeIsMonotone DEF GasLevel
  <2>3. GasLevel(q.gas) \in Factors(q, t)
    BY <2>1 DEF Factors, Unknown
  <2> QED BY <1>3, <2>2, <2>3
<1>4. CASE r.hops # Unknown /\ l = HopsLevel(r.hops)
  <2>1. r.hops \in Nat /\ q.hops \in Nat /\ r.hops <= q.hops
    BY <1>4 DEF Routes, Figures, Unknown
  <2>2. HopsLevel(r.hops) <= HopsLevel(q.hops)
    BY <2>1, GradeIsMonotone DEF HopsLevel
  <2>3. HopsLevel(q.hops) \in Factors(q, t)
    BY <2>1 DEF Factors, Unknown
  <2> QED BY <1>4, <2>2, <2>3
<1> QED BY <1>1, <1>2, <1>3, <1>4 DEF Factors

\* A quote that is no better in any reported figure, at no smaller a slippage,
\* never gets past the risk gate more easily; a figure the worse quote reports
\* and the other does not may only raise the level.
THEOREM WorseRouteIsNeverSafer ==
    ASSUME NEW r \in Routes, NEW q \in Routes, NEW s \in Nat, NEW t \in Nat, s <= t,
           r.priceImpact = Unknown \/ r.priceImpact <= q.priceImpact,
           r.gas = Unknown \/ r.gas <= q.gas,
           r.hops = Unknown \/ r.hops <= q.hops
    PROVE  EvaluateRouteRisk(r, s) <= EvaluateRouteRisk(q, t)
<1>1. PICK m \in Factors(q, t) : EvaluateRouteRisk(r, s) <= m
  BY WorstFactorDecides, FactorsAreMonotone
<1>2. m <= EvaluateRouteRisk(q, t)
  BY WorstFactorDecides
<1>3. /\ EvaluateRouteRisk(r, s) \in Int
      /\ EvaluateRouteRisk(q, t) \in Int
      /\ m \in Int
  BY WorstFactorDecides, FactorsAreLevels DEF Levels, Low, Blocked
<1> QED BY <1>1, <1>2, <1>3
=============================================================================
