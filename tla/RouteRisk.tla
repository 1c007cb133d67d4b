----------------------------- MODULE RouteRisk -----------------------------
(***************************************************************************)
(* The risk level of a route (src/route-safety/route-risk.evaluator.ts).   *)
(* Percentages are in hundredths, gas in dollars; a quote that does not report *)
(* a figure has Unknown there.  Levels are their RISK_ORDER.               *)
(* A definition A_Mutation is a plausible mistake in A; nothing uses it,   *)
(* it only shows that a property can fail.                                 *)
(***************************************************************************)
EXTENDS Integers

Unknown == -1

Low == 0
Medium == 1
High == 2
Blocked == 3
Levels == Low..Blocked

Figures == Nat \cup {Unknown}
Routes == [priceImpact : Figures, gas : Figures, hops : Figures]

\* The level of a figure against its three thresholds, each inclusive.
Grade_Exclusive(value, medium, high, blocked) ==
    IF value > blocked THEN Blocked
    ELSE IF value > high THEN High
    ELSE IF value > medium THEN Medium
    ELSE Low

Grade(value, medium, high, blocked) ==
    IF value >= blocked THEN Blocked
    ELSE IF value >= high THEN High
    ELSE IF value >= medium THEN Medium
    ELSE Low

PriceImpactLevel(value) == Grade(value, 100, 300, 1000)
SlippageLevel(value) == Grade(value, 100, 300, 1000)
GasLevel(value) == Grade(value, 50, 50, 200)         \* gas has no medium level
HopsLevel(value) == Grade(value, 3, 5, 8)

\* The factors a quote yields: an unknown figure is no factor.
Factors(route, slippage) ==
    {SlippageLevel(slippage)}
        \cup {PriceImpactLevel(v) : v \in {route.priceImpact} \ {Unknown}}
        \cup {GasLevel(v) : v \in {route.gas} \ {Unknown}}
        \cup {HopsLevel(v) : v \in {route.hops} \ {Unknown}}

EvaluateRouteRisk_ByName(route, slippage) ==
    IF Medium \in Factors(route, slippage) THEN Medium ELSE Low

\* evaluateRouteRisk: the worst factor decides.
EvaluateRouteRisk(route, slippage) ==
    CHOOSE l \in Factors(route, slippage) : \A m \in Factors(route, slippage) : m <= l
=============================================================================
