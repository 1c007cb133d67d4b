----------------------------- MODULE MCQuotes -----------------------------
(***************************************************************************)
(* Three parts of /price and /swap in one run: QuoteFlow, the evaluator of *)
(* the routes it finds, and SavedPairs with the tokens it names.  They     *)
(* share no state: each moves only while the others are as they began, so  *)
(* that the states of the run are those of the three and not their         *)
(* product.                                                                *)
(***************************************************************************)
EXTENDS MCRouteRisk, QuoteFlow, MCSavedPairs, TLC

CONSTANTS u1, u2, r1, r2

NoAccounts == [s \in JupiterFeeSymbols |-> Unset]

\* Nothing is configured.
NoFees ==
    [zeroXBps |-> 0, zeroXRecipient |-> Unset, zeroXTokenMode |-> "auto",
     paraSwapBps |-> 0, partnerAddress |-> Unset,
     jupiterBps |-> 0, feeAccount |-> NoAccounts,
     odosMode |-> "disabled", referralCode |-> Unset, monetizedChains |-> {}]

\* Every aggregator charges in the bought token, and 0x charges all there is.
BuyFees ==
    [NoFees EXCEPT !.zeroXBps = 10000, !.zeroXRecipient = 1,
                   !.paraSwapBps = 200, !.partnerAddress = 2,
                   !.jupiterBps = 100, !.feeAccount["USDC"] = 3,
                   !.odosMode = "enforced", !.referralCode = 4,
                   !.monetizedChains = {"ethereum"}]

\* The sold token pays where it can.
SellFees ==
    [NoFees EXCEPT !.zeroXBps = 100, !.zeroXRecipient = 5, !.zeroXTokenMode = "sell",
                   !.jupiterBps = 50, !.feeAccount["SOL"] = 6,
                   !.odosMode = "tracking_only"]

\* Refused at the start: a fee that nobody is named to get.
Nobody == [NoFees EXCEPT !.zeroXBps = 100]

SomeEnvironments == {NoFees, BuyFees, SellFees, Nobody}

SomePairs ==
    {[chain |-> "ethereum", from |-> "ETH", to |-> "USDC"],
     [chain |-> "solana", from |-> "SOL", to |-> "USDC"]}

SomeBodies ==
    [a \in Aggregators |->
        CASE a = "0x" ->
                {[liquidityAvailable |-> TRUE, buyAmount |-> 100, integratorFee |-> Unreported,
                  transaction |-> TRUE],
                 [liquidityAvailable |-> TRUE, buyAmount |-> 99, integratorFee |-> 1,
                  transaction |-> FALSE]}
          [] a = "paraswap" ->
                {[destAmount |-> 101, gas |-> 5], [destAmount |-> 0, gas |-> Unreported]}
          [] a = "odos" ->
                {[out |-> 100, shadowOut |-> 101, partnerFee |-> 100, gas |-> 3],
                 [out |-> 100, shadowOut |-> 100, partnerFee |-> Unreported, gas |-> 3]}
          [] a = "jupiter" ->
                {[outAmount |-> 99, platformFee |-> 1],
                 [outAmount |-> 100, platformFee |-> Unreported]}]

\* Bound: a swap, which shares nothing with other requests, is asked alone, and
\* only then does the process restart.
SwapAlone ==
    /\ \A r \in Requests : requests[r].kind = "swap" =>
          \A other \in Requests \ {r} : At(other, "idle")
    /\ restarts > 0 => \E r \in Requests : requests[r].kind = "swap"

Start ==
    /\ \A r \in Requests : At(r, "idle")
    /\ cache = <<>> /\ restarts = 0
    /\ \A u \in Users : preferred[u] = "auto"

Quiet == route.hops = 1 /\ route.gas = 0 /\ route.priceImpact = 0 /\ slippage = 1

savedVars == <<tokenVars, pairVars>>

QuotesInit == Init /\ FlowInit /\ PairsInit

QuotesNext ==
    \/ Start /\ env = NoFees /\ PairsInit /\ Next /\ UNCHANGED <<flowVars, savedVars>>
    \/ Quiet /\ PairsInit /\ FlowNext /\ UNCHANGED <<vars, savedVars>>
    \/ Quiet /\ Start /\ env = NoFees /\ PairsNext /\ UNCHANGED <<vars, flowVars>>

QuotesSpec == QuotesInit /\ [][QuotesNext]_<<vars, flowVars, savedVars>>

Symmetry == Permutations(Users) \cup Permutations(Requests)
=============================================================================
