-------------------------- MODULE AggregatorQuotes --------------------------
(***************************************************************************)
(* What the four adapters of src/aggregators ask of their services and     *)
(* make of the answers.  An answer is the record of the fields an adapter  *)
(* reads; amounts are natural numbers, a field the service left out is     *)
(* Unreported.  A mapper that throws is a false Usable... predicate: the   *)
(* caller then has no quote.  Rates of Odos are in basis points, of which  *)
(* its API reports percents.                                               *)
(***************************************************************************)
EXTENDS FeePolicies

Unreported == -1

Aggregators == {"0x", "paraswap", "odos", "jupiter"}

SupportedChains(aggregator) ==
    IF aggregator = "jupiter" THEN {"solana"} ELSE EvmChains

\* What the adapters read of an answer: a body without the other fields, or with
\* an amount that is none, is a failed request.
Reported == Nat \cup {Unreported}

BodyRecords(aggregator) ==
    CASE aggregator = "0x" ->
            [liquidityAvailable : BOOLEAN, buyAmount : Nat, integratorFee : Reported,
             transaction : BOOLEAN]
      [] aggregator = "paraswap" -> [destAmount : Reported, gas : Reported]
      [] aggregator = "odos" ->
            [out : Nat, shadowOut : Nat, partnerFee : Reported, gas : Reported]
      [] aggregator = "jupiter" -> [outAmount : Reported, platformFee : Reported]

\* An amount a service did not report is "0" for the mappers.
OrZero(amount) == IF amount = Unreported THEN 0 ELSE amount

\* The quote as the mappers of 0x, ParaSwap, Jupiter and of Odos without a fee
\* fill it: the fee columns say "no fee" whatever the amounts are.
RawQuote(aggregator, net, gross, fee, gas, feeConfig) ==
    [aggregator |-> aggregator, net |-> net, gross |-> gross, fee |-> fee,
     bps |-> 0, mode |-> "disabled", side |-> "none", gas |-> gas,
     executionFee |-> feeConfig]

QuoteRecords ==
    [aggregator : Aggregators, net : Int, gross : Int, fee : Int, bps : Int,
     mode : {"disabled", "tracking_only", "enforced"}, side : {"none", "buy", "sell"},
     gas : Reported, executionFee : PolicyRecords]

\* A fee that an enforced policy takes in the bought token is part of the gross.
GrossOf(kind, net, fee, feeConfig) ==
    IF feeConfig.kind = kind /\ feeConfig.mode = "enforced" /\ feeConfig.side = "buy"
    THEN net + fee ELSE net

-----------------------------------------------------------------------------
(* 0x                                                                      *)

UsableZeroX(body) == body.liquidityAvailable

ToZeroXQuote(body, feeConfig) ==
    LET fee == OrZero(body.integratorFee)
    IN RawQuote("0x", body.buyAmount, GrossOf("zerox", body.buyAmount, fee, feeConfig),
                fee, Unreported, feeConfig)

-----------------------------------------------------------------------------
(* ParaSwap                                                                *)

UsableParaSwap(body) == body.destAmount > 0

ToParaSwapQuote(body, feeConfig) ==
    RawQuote("paraswap", body.destAmount, body.destAmount, 0, body.gas, feeConfig)

-----------------------------------------------------------------------------
(* Odos: with a fee it is asked twice, with the referral code and without; *)
(* the second answer is the gross amount.                                  *)

\* getValidatedOdosPartnerFeePercent
ValidPartnerFee(body) == body.partnerFee # Unreported /\ body.partnerFee > 0

\* validateOdosFeeBreakdown
ConsistentBreakdown(body) == body.shadowOut > body.out

IsEnforcedOdos(feeConfig) == feeConfig.kind = "odos" /\ feeConfig.mode = "enforced"

UsableOdos(body, feeConfig) ==
    IsEnforcedOdos(feeConfig) => ValidPartnerFee(body) /\ ConsistentBreakdown(body)

DisabledOdosQuote(body, feeConfig) ==
    RawQuote("odos", body.out, body.out, 0, body.gas, feeConfig)

MonetizedOdosQuote(body, feeConfig) ==
    [RawQuote("odos", body.out, body.shadowOut, body.shadowOut - body.out, body.gas, feeConfig)
        EXCEPT !.bps = body.partnerFee, !.mode = "enforced", !.side = "buy"]

ToOdosQuote(body, feeConfig) ==
    IF IsEnforcedOdos(feeConfig) THEN MonetizedOdosQuote(body, feeConfig)
    ELSE DisabledOdosQuote(body, feeConfig)

-----------------------------------------------------------------------------
(* Jupiter                                                                 *)

UsableJupiter(body) == body.outAmount # Unreported

ToJupiterQuote(body, feeConfig) ==
    LET fee == OrZero(body.platformFee)
    IN RawQuote("jupiter", body.outAmount, GrossOf("jupiter", body.outAmount, fee, feeConfig),
                fee, Unreported, feeConfig)

-----------------------------------------------------------------------------
(* The adapters behind one interface.                                      *)

Usable(aggregator, body, feeConfig) ==
    CASE aggregator = "0x" -> UsableZeroX(body)
      [] aggregator = "paraswap" -> UsableParaSwap(body)
      [] aggregator = "odos" -> UsableOdos(body, feeConfig)
      [] aggregator = "jupiter" -> UsableJupiter(body)

ToQuote(aggregator, body, feeConfig) ==
    CASE aggregator = "0x" -> ToZeroXQuote(body, feeConfig)
      [] aggregator = "paraswap" -> ToParaSwapQuote(body, feeConfig)
      [] aggregator = "odos" -> ToOdosQuote(body, feeConfig)
      [] aggregator = "jupiter" -> ToJupiterQuote(body, feeConfig)

-----------------------------------------------------------------------------
(* buildSwapTransaction: the route is asked for once more, now for the     *)
(* wallet.  Less is demanded of this answer than of the one that was       *)
(* ranked: the amounts are not looked at, nor is the second answer of Odos. *)

BuildsZeroX(body) == body.transaction

BuildsParaSwap(body) == body.destAmount # Unreported

\* validateExecutionQuote
BuildsOdos(body, feeConfig) == IsEnforcedOdos(feeConfig) => ValidPartnerFee(body)

BuildsJupiter(body) == body.outAmount # Unreported

Builds(aggregator, body, feeConfig) ==
    CASE aggregator = "0x" -> BuildsZeroX(body)
      [] aggregator = "paraswap" -> BuildsParaSwap(body)
      [] aggregator = "odos" -> BuildsOdos(body, feeConfig)
      [] aggregator = "jupiter" -> BuildsJupiter(body)

-----------------------------------------------------------------------------
(* The fee parameters of a request: who is paid, and how much.             *)

FeeParams == [payee : Nat, bps : Nat]
NoFee == [payee |-> Unset, bps |-> 0]

\* applyZeroXFeeParams
ZeroXFeeParams(feeConfig) ==
    IF feeConfig.kind = "zerox" /\ feeConfig.mode = "enforced"
    THEN [payee |-> feeConfig.payee, bps |-> feeConfig.bps] ELSE NoFee

\* applyParaSwapQuoteFeeParams; getParaSwapPartnerAddress and -FeeBps
ParaSwapFeeParams(feeConfig) ==
    IF feeConfig.kind = "paraswap" /\ feeConfig.mode = "enforced"
    THEN [payee |-> feeConfig.payee, bps |-> feeConfig.bps] ELSE NoFee

\* The referral code carries the rate with it.
OdosFeeParams(feeConfig) ==
    IF IsEnforcedOdos(feeConfig) THEN [payee |-> feeConfig.payee, bps |-> 0] ELSE NoFee

\* buildJupiterQuoteUrl: a quote names the rate only.
JupiterQuoteFeeParams(feeConfig) ==
    IF feeConfig.kind = "jupiter" /\ feeConfig.mode = "enforced"
    THEN [payee |-> Unset, bps |-> feeConfig.bps] ELSE NoFee

\* resolveJupiterFeeAccount: the swap names the account as well.
JupiterSwapFeeParams(feeConfig) ==
    IF feeConfig.kind = "jupiter" /\ feeConfig.mode = "enforced"
    THEN [payee |-> feeConfig.payee, bps |-> feeConfig.bps] ELSE NoFee

QuoteFeeParams(aggregator, feeConfig) ==
    CASE aggregator = "0x" -> ZeroXFeeParams(feeConfig)
      [] aggregator = "paraswap" -> ParaSwapFeeParams(feeConfig)
      [] aggregator = "odos" -> OdosFeeParams(feeConfig)
      [] aggregator = "jupiter" -> JupiterQuoteFeeParams(feeConfig)

SwapFeeParams(aggregator, feeConfig) ==
    IF aggregator = "jupiter" THEN JupiterSwapFeeParams(feeConfig)
    ELSE QuoteFeeParams(aggregator, feeConfig)
=============================================================================
