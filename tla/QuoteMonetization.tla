------------------------- MODULE QuoteMonetization -------------------------
(***************************************************************************)
(* QuoteMonetizationService.applyPolicy: what the user gets of a quote     *)
(* after the bot's fee, and what is said of the fee.                       *)
(* A definition A_Mutation is a plausible mistake in A; nothing uses it,   *)
(* it only shows that a property can fail.                                 *)
(***************************************************************************)
EXTENDS AggregatorQuotes

\* The service has taken the fee itself and says so.
HasProviderFeeBreakdown(raw, policy) ==
    policy.mode = "enforced" /\ policy.appliedAtQuote /\ raw.fee > 0

CalculateFeeAmount(policy, gross, sellAmount) ==
    IF policy.mode # "enforced" \/ policy.bps = 0 THEN 0
    ELSE ((IF policy.side = "buy" THEN gross ELSE sellAmount) * policy.bps)
            \div BpsDenominator

\* A fee that would leave nothing is not subtracted.
SubtractFee(amount, fee) == IF fee <= 0 \/ fee >= amount THEN amount ELSE amount - fee

ResolveGross(raw, policy, breakdown) ==
    IF ~breakdown \/ raw.gross > raw.net THEN raw.gross
    ELSE IF policy.side # "buy" THEN raw.net
    ELSE raw.net + raw.fee

ResolveFeeDetails(raw, policy, breakdown) ==
    IF breakdown
    THEN [bps |-> IF raw.bps > 0 THEN raw.bps ELSE policy.bps,
          mode |-> raw.mode, side |-> raw.side]
    ELSE [bps |-> policy.bps, mode |-> policy.mode, side |-> policy.side]

ResolveNet_AnySide(raw, policy, breakdown, gross, fee) ==
    IF breakdown THEN raw.net ELSE SubtractFee(gross, fee)

\* A fee in the sold token does not touch what is bought.
ResolveNet(raw, policy, breakdown, gross, fee) ==
    IF breakdown THEN raw.net
    ELSE IF policy.side = "buy" THEN SubtractFee(gross, fee)
    ELSE gross

\* A raw amount of "0" is not empty, so the gross of the mapper is always used.
ApplyPolicy(raw, policy, sellAmount) ==
    LET breakdown == HasProviderFeeBreakdown(raw, policy)
        details == ResolveFeeDetails(raw, policy, breakdown)
        fee == IF breakdown THEN raw.fee
               ELSE CalculateFeeAmount(policy, raw.gross, sellAmount)
        gross == ResolveGross(raw, policy, breakdown)
        net == ResolveNet(raw, policy, breakdown, gross, fee)
    IN [raw EXCEPT !.net = net, !.gross = gross, !.fee = fee,
                   !.bps = details.bps, !.mode = details.mode, !.side = details.side,
                   !.executionFee = policy]
=============================================================================
