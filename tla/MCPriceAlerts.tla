--------------------------- MODULE MCPriceAlerts ---------------------------
(***************************************************************************)
(* Small instances of PriceAlerts: one user, prices on both sides of the   *)
(* thresholds.                                                             *)
(***************************************************************************)
EXTENDS PriceAlerts, TLC

CONSTANT u1

OwnedByOne == [f \in Favorites |-> u1]

Symmetry == Permutations(Ticks) \cup Permutations(Favorites) \cup Permutations(Requests)
=============================================================================
