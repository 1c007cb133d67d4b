-------------------------- MODULE MCSwapSelection --------------------------
(***************************************************************************)
(* Small instances of SwapSelection: one intent of the first user with a   *)
(* cheap route and one whose price impact alone is high.                   *)
(***************************************************************************)
EXTENDS SwapSelection, TLC

CONSTANTS u1, u2, cheap, steep

OwnedByFirst == [i \in Intents |-> u1]

SmallRoutes == (cheap :> [priceImpact |-> Unknown, gas |-> 5, hops |-> 2])
                  @@ (steep :> [priceImpact |-> 300, gas |-> Unknown, hops |-> 3])

Symmetry == Permutations(Requests)
=============================================================================
