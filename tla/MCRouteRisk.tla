---------------------------- MODULE MCRouteRisk ----------------------------
(***************************************************************************)
(* evaluateRouteRisk over every combination of figures at, below and above *)
(* a threshold.  The state is the evaluator's input; a step replaces one   *)
(* figure, as a newer quote or another slippage setting would.             *)
(***************************************************************************)
EXTENDS RouteRisk

VARIABLES route, slippage

vars == <<route, slippage>>

Impacts == {Unknown, 0, 99, 100, 101, 299, 300, 999, 1000}
Slips == {1, 50, 99, 100, 299, 300, 999, 1000, 5000}
Gases == {Unknown, 0, 49, 50, 51, 199, 200}
HopCounts == {Unknown, 1, 2, 3, 4, 5, 7, 8}

Init ==
    /\ route = [priceImpact |-> 0, gas |-> 0, hops |-> 1]
    /\ slippage = 1

NewQuote ==
    /\ \/ \E v \in Impacts : route' = [route EXCEPT !.priceImpact = v]
       \/ \E v \in Gases : route' = [route EXCEPT !.gas = v]
       \/ \E v \in HopCounts : route' = [route EXCEPT !.hops = v]
    /\ UNCHANGED slippage

NewSlippage ==
    /\ slippage' \in Slips
    /\ UNCHANGED route

Next == NewQuote \/ NewSlippage

Spec == Init /\ [][Next]_vars

level == EvaluateRouteRisk(route, slippage)

Reaches(figure, threshold) == figure # Unknown /\ figure >= threshold

\* The thresholds of route-risk.constants.ts: one figure at its limit is enough,
\* whatever the order of the factors and the other figures are.  Gas counts in
\* dollars, however large the trade is, and a figure that the aggregator does not
\* report counts as no factor.  This is what the evaluator does; rdr-2, stage 10,
\* asks for gas relative to the trade and counts the lack of a simulation as a risk.
LevelByThresholds ==
    /\ level = Blocked <=>
         \/ Reaches(route.priceImpact, 1000) \/ slippage >= 1000
         \/ Reaches(route.gas, 200) \/ Reaches(route.hops, 8)
    /\ level >= High <=>
         \/ Reaches(route.priceImpact, 300) \/ slippage >= 300
         \/ Reaches(route.gas, 50) \/ Reaches(route.hops, 5)
    /\ level = Low <=>
         /\ route.priceImpact < 100 /\ slippage < 100
         /\ route.gas < 50 /\ route.hops < 3

\* A quote that is worse in one figure never gets past the gate more easily:
\* raising a reported figure, or the slippage, does not lower the level.
WorseIsNeverSafer ==
    [][ (\A f \in DOMAIN route : route[f] = Unknown <=> route'[f] = Unknown)
        /\ (\A f \in DOMAIN route : route[f] <= route'[f])
        /\ slippage <= slippage'
          => level <= level' ]_vars

=============================================================================
