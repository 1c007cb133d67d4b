---------------------------- MODULE FeePolicies ----------------------------
(***************************************************************************)
(* The fee configuration the process accepts at its start                  *)
(* (src/config/env.validation.fees.ts) and the policy it makes of it for   *)
(* an aggregator and a pair of tokens (src/fees/fee-policy.*.service.ts).  *)
(* A configuration is a record of its variables: basis points, and the     *)
(* payees as numbers; Unset stands for a variable that is absent or blank, *)
(* Malformed for one that does not parse as the number it should be.       *)
(* A policy and its executionFee are one record here: the code copies the  *)
(* fields of one to the other.                                             *)
(* A definition A_Mutation is a plausible mistake in A; nothing uses it,   *)
(* it only shows that a property can fail.                                 *)
(***************************************************************************)
EXTENDS Integers

Unset == 0
Malformed == -1

MaxFeeBps == 10000
MaxParaSwapFeeBps == 200
BpsDenominator == 10000

EvmChains == {"ethereum", "arbitrum", "base", "optimism"}
OdosMonetizableChains == EvmChains
JupiterFeeSymbols == {"SOL", "USDC", "USDT", "JUP", "BONK"}
OdosModes == {"disabled", "tracking_only", "enforced"}
ZeroXTokenModes == {"auto", "buy", "sell"}

\* The variables as somebody may set them; the lists are split and checked first.
FeeEnvironments ==
    [zeroXBps : Int, zeroXRecipient : Nat, zeroXTokenMode : ZeroXTokenModes,
     paraSwapBps : Int, partnerAddress : Nat,
     jupiterBps : Int, feeAccount : [JupiterFeeSymbols -> Nat],
     odosMode : OdosModes, referralCode : Int, monetizedChains : SUBSET EvmChains]

-----------------------------------------------------------------------------
(* What validateEnvironment lets through.                                  *)

\* validateOptionalBps: an unset variable is fine, a number must be in range.
ValidOptionalBps(value, max) == value \in 0..max

\* validateOptionalPositiveInteger
ValidOptionalInteger(value) == value = Unset \/ value > 0

ValidZeroXFees(env) == env.zeroXBps > 0 => env.zeroXRecipient # Unset

ValidParaSwapFees(env) == env.paraSwapBps > 0 => env.partnerAddress # Unset

ValidJupiterFees(env) ==
    env.jupiterBps # 0 => \E s \in JupiterFeeSymbols : env.feeAccount[s] # Unset

ValidOdosFees(env) == env.odosMode = "enforced" => env.referralCode # Unset

ValidateFeeEnvironment(env) ==
    /\ ValidOptionalBps(env.zeroXBps, MaxFeeBps)
    /\ env.zeroXTokenMode \in ZeroXTokenModes
    /\ ValidOptionalBps(env.paraSwapBps, MaxParaSwapFeeBps)
    /\ ValidOptionalBps(env.jupiterBps, MaxFeeBps)
    /\ env.odosMode \in OdosModes
    /\ ValidOptionalInteger(env.referralCode)
    /\ env.monetizedChains \subseteq EvmChains
    /\ ValidZeroXFees(env)
    /\ ValidParaSwapFees(env)
    /\ ValidJupiterFees(env)
    /\ ValidOdosFees(env)

-----------------------------------------------------------------------------
(* The policies.                                                           *)

\* getOptionalBps: out of range is no fee.
GetOptionalBps(value, max) == IF value \in 0..max THEN value ELSE 0

\* getOptionalPositiveInteger
GetOptionalPositiveInteger(value) == IF value > 0 THEN value ELSE Unset

PolicyRecords ==
    [kind : {"none", "zerox", "paraswap", "jupiter", "odos"},
     mode : {"disabled", "tracking_only", "enforced"}, bps : Nat,
     side : {"none", "buy", "sell"}, appliedAtQuote : BOOLEAN, payee : Nat]

CreateDisabled ==
    [kind |-> "none", mode |-> "disabled", bps |-> 0, side |-> "none",
     appliedAtQuote |-> FALSE, payee |-> Unset]

CreateTrackingOnly == [CreateDisabled EXCEPT !.mode = "tracking_only"]

Enforced(kind, bps, side, payee) ==
    [kind |-> kind, mode |-> "enforced", bps |-> bps, side |-> side,
     appliedAtQuote |-> TRUE, payee |-> payee]

ZeroXPolicy(env, pair) ==
    LET bps == GetOptionalBps(env.zeroXBps, MaxFeeBps)
    IN IF pair.chain = "solana" \/ env.zeroXRecipient = Unset \/ bps = 0
       THEN CreateDisabled
       ELSE Enforced("zerox", bps, IF env.zeroXTokenMode = "sell" THEN "sell" ELSE "buy",
                     env.zeroXRecipient)

ParaSwapPolicy(env, pair) ==
    LET bps == GetOptionalBps(env.paraSwapBps, MaxParaSwapFeeBps)
    IN IF pair.chain = "solana" \/ env.partnerAddress = Unset \/ bps = 0
       THEN CreateDisabled
       ELSE Enforced("paraswap", bps, "buy", env.partnerAddress)

\* getJupiterFeeAccount
JupiterFeeAccount(env, symbol) ==
    IF symbol \in JupiterFeeSymbols THEN env.feeAccount[symbol] ELSE Unset

\* The fee is taken in the bought token where there is an account for it, and
\* otherwise in the sold one.
JupiterPolicy(env, pair) ==
    LET bps == GetOptionalBps(env.jupiterBps, MaxFeeBps)
        output == JupiterFeeAccount(env, pair.to)
        input == JupiterFeeAccount(env, pair.from)
    IN IF pair.chain # "solana" \/ bps = 0 THEN CreateDisabled
       ELSE IF output # Unset THEN Enforced("jupiter", bps, "buy", output)
       ELSE IF input # Unset THEN Enforced("jupiter", bps, "sell", input)
       ELSE CreateDisabled

\* isOdosChainEnabled: no list is every chain.
OdosChainEnabled(env, chain) == env.monetizedChains = {} \/ chain \in env.monetizedChains

\* The rate is the partner's: the policy knows the referral code only.
OdosPolicy(env, pair) ==
    LET referral == GetOptionalPositiveInteger(env.referralCode)
    IN CASE env.odosMode = "enforced" ->
                IF /\ pair.chain \in OdosMonetizableChains
                   /\ referral # Unset
                   /\ OdosChainEnabled(env, pair.chain)
                THEN Enforced("odos", 0, "buy", referral)
                ELSE CreateDisabled
         [] env.odosMode = "tracking_only" -> CreateTrackingOnly
         [] OTHER -> CreateDisabled

GetPolicy(env, aggregator, pair) ==
    CASE aggregator = "0x" -> ZeroXPolicy(env, pair)
      [] aggregator = "paraswap" -> ParaSwapPolicy(env, pair)
      [] aggregator = "jupiter" -> JupiterPolicy(env, pair)
      [] aggregator = "odos" -> OdosPolicy(env, pair)
      [] OTHER -> CreateDisabled
=============================================================================
