-------------------------- MODULE QuoteFlowProofs --------------------------
(***************************************************************************)
(* Machine-checked proofs about QuoteFlow and the modules below it, for    *)
(* any configurations, amounts, rates, answers, requests and restarts:     *)
(* first what the fee policies and applyPolicy return, then the inductive  *)
(* invariant.  The risk of the routes it finds is at the end.              *)
(***************************************************************************)
EXTENDS QuoteFlow, MCRouteRisk, RouteRiskProofs, FiniteSetTheorems, TLAPS

-----------------------------------------------------------------------------
(* The operators.                                                          *)

KindOf == [a \in Aggregators |->
    CASE a = "0x" -> "zerox" [] a = "paraswap" -> "paraswap" [] a = "odos" -> "odos"
      [] a = "jupiter" -> "jupiter"]

\* A policy that is enforced is of its aggregator, has a side, and pays somebody
\* if it charges a rate of its own.
LEMMA PolicyFacts ==
    ASSUME NEW e \in FeeEnvironments, NEW a \in Aggregators, NEW pair
    PROVE  /\ GetPolicy(e, a, pair) \in PolicyRecords
           /\ GetPolicy(e, a, pair).bps > 0 => GetPolicy(e, a, pair).payee # Unset
           /\ GetPolicy(e, a, pair).mode = "enforced" =>
                 /\ GetPolicy(e, a, pair).kind = KindOf[a]
                 /\ GetPolicy(e, a, pair).side \in {"buy", "sell"}
                 /\ a = "odos" => GetPolicy(e, a, pair).side = "buy"
<1> DEFINE Fits(policy) ==
        /\ policy \in PolicyRecords
        /\ policy.bps > 0 => policy.payee # Unset
        /\ policy.mode = "enforced" =>
              /\ policy.kind = KindOf[a]
              /\ policy.side \in {"buy", "sell"}
              /\ a = "odos" => policy.side = "buy"
<1>1. Fits(CreateDisabled) /\ Fits(CreateTrackingOnly)
  <2>1. CreateDisabled \in PolicyRecords /\ CreateDisabled.bps = 0
        /\ CreateDisabled.mode # "enforced"
    BY DEF CreateDisabled, PolicyRecords, Unset
  <2>2. ASSUME NEW d \in PolicyRecords, d.bps = 0
        PROVE  /\ [d EXCEPT !.mode = "tracking_only"] \in PolicyRecords
               /\ [d EXCEPT !.mode = "tracking_only"].bps = 0
               /\ [d EXCEPT !.mode = "tracking_only"].mode = "tracking_only"
    BY <2>2 DEF PolicyRecords
  <2>3. /\ CreateTrackingOnly \in PolicyRecords /\ CreateTrackingOnly.bps = 0
        /\ CreateTrackingOnly.mode = "tracking_only"
    BY <2>1, <2>2, Zenon DEF CreateTrackingOnly
  <2> QED BY <2>1, <2>3
<1>2. ASSUME NEW bps \in Nat, NEW side \in {"buy", "sell"}, NEW payee \in Nat \ {Unset},
             a = "odos" => side = "buy"
      PROVE  Fits(Enforced(KindOf[a], bps, side, payee))
  <2>1. KindOf[a] \in {"none", "zerox", "paraswap", "jupiter", "odos"}
    BY DEF KindOf, Aggregators
  <2> QED BY <1>2, <2>1 DEF Enforced, PolicyRecords
<1>3. \A value \in Int, max \in Nat : GetOptionalBps(value, max) \in Nat
  BY DEF GetOptionalBps
<1>9. MaxFeeBps \in Nat BY DEF MaxFeeBps
<1> HIDE DEF Fits
<1>4. CASE a = "0x"
  <2>1. KindOf[a] = "zerox" /\ GetPolicy(e, a, pair) = ZeroXPolicy(e, pair)
    BY <1>4 DEF KindOf, GetPolicy, Aggregators
  <2>2. e.zeroXRecipient \in Nat /\ GetOptionalBps(e.zeroXBps, MaxFeeBps) \in Nat
    <3>1. e.zeroXRecipient \in Nat /\ e.zeroXBps \in Int BY DEF FeeEnvironments
    <3> QED BY <1>3, <1>9, <3>1
  <2>3. Fits(ZeroXPolicy(e, pair)) BY <1>1, <1>2, <1>4, <2>1, <2>2 DEF ZeroXPolicy
  <2> QED BY <2>1, <2>3 DEF Fits
<1>5. CASE a = "paraswap"
  <2>1. KindOf[a] = "paraswap" /\ GetPolicy(e, a, pair) = ParaSwapPolicy(e, pair)
    BY <1>5 DEF KindOf, GetPolicy, Aggregators
  <2>2. e.partnerAddress \in Nat /\ GetOptionalBps(e.paraSwapBps, MaxParaSwapFeeBps) \in Nat
    BY ZenonT(40), <1>3 DEF FeeEnvironments, MaxParaSwapFeeBps
  <2>3. Fits(ParaSwapPolicy(e, pair)) BY <1>1, <1>2, <1>5, <2>1, <2>2 DEF ParaSwapPolicy
  <2> QED BY <2>1, <2>3 DEF Fits
<1>6. CASE a = "jupiter"
  <2>1. KindOf[a] = "jupiter" /\ GetPolicy(e, a, pair) = JupiterPolicy(e, pair)
    BY <1>6 DEF KindOf, GetPolicy, Aggregators
  <2>2. GetOptionalBps(e.jupiterBps, MaxFeeBps) \in Nat
    <3>1. e.jupiterBps \in Int BY DEF FeeEnvironments
    <3> QED BY <1>3, <1>9, <3>1
  <2>3. \A symbol : JupiterFeeAccount(e, symbol) \in Nat
    BY DEF FeeEnvironments, JupiterFeeAccount, Unset
  <2>4. Fits(JupiterPolicy(e, pair)) BY <1>1, <1>2, <1>6, <2>1, <2>2, <2>3 DEF JupiterPolicy
  <2> QED BY <2>1, <2>4 DEF Fits
<1>7. CASE a = "odos"
  <2>1. KindOf[a] = "odos" /\ GetPolicy(e, a, pair) = OdosPolicy(e, pair)
    BY <1>7 DEF KindOf, GetPolicy, Aggregators
  <2>2. GetOptionalPositiveInteger(e.referralCode) \in Nat /\ 0 \in Nat
    BY DEF FeeEnvironments, GetOptionalPositiveInteger, Unset
  <2>3. e.odosMode \in OdosModes BY DEF FeeEnvironments
  <2>4. Fits(OdosPolicy(e, pair))
    BY <1>1, <1>2, <1>7, <2>1, <2>2, <2>3 DEF OdosPolicy, OdosModes
  <2> QED BY <2>1, <2>4 DEF Fits
<1> QED BY <1>4, <1>5, <1>6, <1>7 DEF Aggregators

\* What a mapper makes of an answer: an amount, and a fee it says was taken; a
\* fee in the bought token of an enforced policy is the difference it reports.
LEMMA RawFacts ==
    ASSUME NEW a \in Aggregators, NEW body \in BodyRecords(a), NEW policy \in PolicyRecords,
           policy.mode = "enforced" => /\ policy.kind = KindOf[a]
                                       /\ policy.side \in {"buy", "sell"}
                                       /\ a = "odos" => policy.side = "buy",
           Usable(a, body, policy),
           NEW raw, raw = ToQuote(a, body, policy)
    PROVE  /\ raw \in QuoteRecords /\ raw.aggregator = a /\ raw.executionFee = policy
           /\ raw.gross \in Nat /\ raw.fee \in Nat
           /\ policy.mode = "enforced" /\ raw.fee > 0 =>
                 raw.gross = IF policy.side = "buy" THEN raw.net + raw.fee ELSE raw.net
<1>1. ASSUME NEW net \in Nat, NEW fee \in Nat, NEW gas \in Reported,
             raw = RawQuote(a, net, GrossOf(KindOf[a], net, fee, policy), fee, gas, policy)
      PROVE  /\ raw \in QuoteRecords /\ raw.aggregator = a /\ raw.executionFee = policy
             /\ raw.gross \in Nat /\ raw.fee \in Nat
             /\ policy.mode = "enforced" /\ raw.fee > 0 =>
                   raw.gross = IF policy.side = "buy" THEN raw.net + raw.fee ELSE raw.net
  <2>1. GrossOf(KindOf[a], net, fee, policy) \in Nat BY DEF GrossOf
  <2>2. policy.mode = "enforced" =>
           GrossOf(KindOf[a], net, fee, policy) = IF policy.side = "buy" THEN net + fee ELSE net
    BY DEF GrossOf
  <2> HIDE DEF GrossOf
  <2> QED BY <1>1, <2>1, <2>2 DEF RawQuote, QuoteRecords
<1>2. \A v \in Reported : OrZero(v) \in Nat BY DEF OrZero, Reported
<1>3. -1 \in Reported /\ Unreported \in Reported BY DEF Reported, Unreported
<1>4. CASE a = "0x"
  <2>1. body.buyAmount \in Nat /\ body.integratorFee \in Reported BY <1>4 DEF BodyRecords
  <2>2. raw = ToZeroXQuote(body, policy) BY <1>4 DEF ToQuote
  <2> QED BY <1>1, <1>2, <1>3, <1>4, <2>1, <2>2 DEF ToZeroXQuote, KindOf
<1>5. CASE a = "jupiter"
  <2>1. body.outAmount \in Nat /\ body.platformFee \in Reported
    BY <1>5 DEF BodyRecords, Usable, UsableJupiter, Reported
  <2>2. raw = ToJupiterQuote(body, policy) BY <1>5 DEF ToQuote
  <2> QED BY <1>1, <1>2, <1>3, <1>5, <2>1, <2>2 DEF ToJupiterQuote, KindOf
<1>6. ASSUME NEW net \in Nat, NEW gas \in Reported, raw = RawQuote(a, net, net, 0, gas, policy)
      PROVE  /\ raw \in QuoteRecords /\ raw.aggregator = a /\ raw.executionFee = policy
             /\ raw.gross \in Nat /\ raw.fee = 0
  BY <1>6 DEF RawQuote, QuoteRecords
<1>7. CASE a = "paraswap"
  <2>1. body.destAmount \in Nat /\ body.gas \in Reported
    BY <1>7 DEF BodyRecords, Usable, UsableParaSwap, Reported, Unreported
  <2>2. raw = ToParaSwapQuote(body, policy) BY <1>7 DEF ToQuote
  <2> QED BY <1>6, <1>7, <2>1, <2>2 DEF ToParaSwapQuote
<1>8. CASE a = "odos" /\ ~IsEnforcedOdos(policy)
  <2>1. body.out \in Nat /\ body.gas \in Reported BY <1>8 DEF BodyRecords
  <2>2. raw = DisabledOdosQuote(body, policy) BY <1>8 DEF ToQuote, ToOdosQuote
  <2> QED BY <1>6, <1>8, <2>1, <2>2 DEF DisabledOdosQuote
<1>9. CASE a = "odos" /\ IsEnforcedOdos(policy)
  <2>1. /\ body.out \in Nat /\ body.shadowOut \in Nat /\ body.gas \in Reported
        /\ body.partnerFee \in Int /\ body.shadowOut > body.out
    BY <1>9 DEF BodyRecords, Usable, UsableOdos, ConsistentBreakdown, Reported, Unreported
  <2>2. raw = MonetizedOdosQuote(body, policy) BY <1>9 DEF ToQuote, ToOdosQuote
  <2>3. policy.mode = "enforced" /\ policy.side = "buy" BY <1>9 DEF IsEnforcedOdos
  <2>5. raw = [aggregator |-> "odos", net |-> body.out, gross |-> body.shadowOut,
               fee |-> body.shadowOut - body.out, bps |-> body.partnerFee,
               mode |-> "enforced", side |-> "buy", gas |-> body.gas, executionFee |-> policy]
    BY <2>2 DEF MonetizedOdosQuote, RawQuote
  <2>4. /\ raw.aggregator = a /\ raw.net = body.out /\ raw.gross = body.shadowOut
        /\ raw.fee = body.shadowOut - body.out /\ raw.executionFee = policy
    BY <1>9, <2>2, <2>5 DEF RawQuote
  <2>6. raw \in QuoteRecords
    BY <2>1, <2>5, policy \in PolicyRecords DEF QuoteRecords, Aggregators
  <2> QED BY <1>9, <2>1, <2>3, <2>4, <2>6
<1> QED BY <1>4, <1>5, <1>7, <1>8, <1>9 DEF Aggregators

\* applyPolicy: whatever the amounts and the rate are, the books of a quote
\* balance.
LEMMA ApplyPolicyBalances ==
    ASSUME NEW raw \in QuoteRecords, NEW policy \in PolicyRecords,
           raw.gross \in Nat, raw.fee \in Nat,
           policy.mode = "enforced" => policy.side \in {"buy", "sell"},
           policy.mode = "enforced" /\ raw.fee > 0 =>
                 raw.gross = IF policy.side = "buy" THEN raw.net + raw.fee ELSE raw.net,
           NEW q, q = ApplyPolicy(raw, policy, SellAmount)
    PROVE  /\ q \in QuoteRecords /\ q.aggregator = raw.aggregator
           /\ q.executionFee = policy /\ Balanced(q)
<1> DEFINE breakdown == HasProviderFeeBreakdown(raw, policy)
           details == ResolveFeeDetails(raw, policy, breakdown)
           fee == IF breakdown THEN raw.fee ELSE CalculateFeeAmount(policy, raw.gross, SellAmount)
           gross == ResolveGross(raw, policy, breakdown)
           net == ResolveNet(raw, policy, breakdown, gross, fee)
<1>1. q = [raw EXCEPT !.net = net, !.gross = gross, !.fee = fee,
                      !.bps = details.bps, !.mode = details.mode, !.side = details.side,
                      !.executionFee = policy]
  BY DEF ApplyPolicy
<1>2. /\ raw.net \in Int /\ raw.bps \in Int /\ policy.bps \in Nat
      /\ raw.mode \in {"disabled", "tracking_only", "enforced"} /\ raw.side \in {"none", "buy", "sell"}
      /\ policy.mode \in {"disabled", "tracking_only", "enforced"}
      /\ policy.side \in {"none", "buy", "sell"}
  BY DEF QuoteRecords, PolicyRecords
<1>3. /\ details.bps \in Int /\ details.mode \in {"disabled", "tracking_only", "enforced"}
      /\ details.side \in {"none", "buy", "sell"}
  <2> HIDE DEF breakdown
  <2> QED BY <1>2 DEF ResolveFeeDetails
<1>4. CalculateFeeAmount(policy, raw.gross, SellAmount) \in Nat
  <2>1. \A m, n \in Nat : m * n \in Nat OBVIOUS
  <2>2. \A m \in Nat : m \div BpsDenominator \in Nat BY DEF BpsDenominator
  <2>3. SellAmount \in Nat BY SellAmountAssumption
  <2> QED BY <1>2, <2>1, <2>2, <2>3 DEF CalculateFeeAmount
<1>5. fee \in Nat BY <1>4
<1>8. q = [aggregator |-> raw.aggregator, net |-> net, gross |-> gross, fee |-> fee,
           bps |-> details.bps, mode |-> details.mode, side |-> details.side,
           gas |-> raw.gas, executionFee |-> policy]
  <2> HIDE DEF details, fee, gross, net
  <2> QED BY <1>1 DEF QuoteRecords
<1>9. raw.aggregator \in Aggregators /\ raw.gas \in Reported BY DEF QuoteRecords
<1>10. net \in Int /\ gross \in Int /\ fee \in Int =>
          /\ q \in QuoteRecords /\ q.aggregator = raw.aggregator /\ q.executionFee = policy
          /\ q.net = net /\ q.gross = gross /\ q.fee = fee
  <2> HIDE DEF details, fee, gross, net
  <2> QED BY <1>3, <1>8, <1>9 DEF QuoteRecords
<1>6. CASE breakdown
  <2>1. policy.mode = "enforced" /\ raw.fee > 0 BY <1>6 DEF HasProviderFeeBreakdown
  <2>2. fee = raw.fee /\ net = raw.net BY <1>6 DEF ResolveNet
  <2>3. gross = IF policy.side = "buy" THEN raw.net + raw.fee ELSE raw.net
    BY <1>2, <1>6, <2>1 DEF ResolveGross
  <2> HIDE DEF details, fee, gross, net
  <2>4. /\ q \in QuoteRecords /\ q.aggregator = raw.aggregator /\ q.executionFee = policy
        /\ q.net = net /\ q.gross = gross /\ q.fee = fee
    <3>1. net \in Int /\ gross \in Int /\ fee \in Int BY <1>2, <1>5, <2>2, <2>3
    <3> QED BY <1>10, <3>1
  <2> QED BY <1>2, <2>1, <2>2, <2>3, <2>4 DEF Balanced
<1>7. CASE ~breakdown
  <2>1. gross = raw.gross BY <1>7 DEF ResolveGross
  <2>2. net = IF policy.side = "buy" THEN SubtractFee(gross, fee) ELSE gross
    BY <1>7 DEF ResolveNet
  <2>3. net \in Int BY <1>5, <2>1, <2>2 DEF SubtractFee
  <2> HIDE DEF details, fee, gross, net
  <2>4. /\ q \in QuoteRecords /\ q.aggregator = raw.aggregator /\ q.executionFee = policy
        /\ q.net = net /\ q.gross = gross /\ q.fee = fee
    <3>1. gross \in Int /\ fee \in Int BY <1>5, <2>1
    <3> QED BY <1>10, <2>3, <3>1
  <2> QED BY <1>5, <2>1, <2>2, <2>4 DEF Balanced, SubtractFee
<1> QED BY <1>6, <1>7

\* What is sent for a stored fee is what a quote was asked with, but for the
\* account, which only the swap of Jupiter names.
LEMMA SwapFeeAsQuoted ==
    ASSUME NEW a \in Aggregators, NEW fee \in PolicyRecords,
           fee.bps > 0 => fee.payee # Unset
    PROVE  /\ QuoteFeeParams(a, fee) \in FeeParams /\ SwapFeeParams(a, fee) \in FeeParams
           /\ SwapFeeParams(a, fee).bps = QuoteFeeParams(a, fee).bps
           /\ QuoteFeeParams(a, fee).payee # Unset =>
                 SwapFeeParams(a, fee).payee = QuoteFeeParams(a, fee).payee
           /\ SwapFeeParams(a, fee).bps > 0 => SwapFeeParams(a, fee).payee # Unset
<1> USE DEF SwapFeeParams, QuoteFeeParams, FeeParams, NoFee, PolicyRecords, Unset
<1>1. CASE a = "0x" BY <1>1 DEF ZeroXFeeParams
<1>2. CASE a = "paraswap" BY <1>2 DEF ParaSwapFeeParams
<1>3. CASE a = "odos" BY <1>3 DEF OdosFeeParams
<1>4. CASE a = "jupiter" BY <1>4 DEF JupiterQuoteFeeParams, JupiterSwapFeeParams
<1> QED BY <1>1, <1>2, <1>3, <1>4 DEF Aggregators

\* A quote that joins the others is of the aggregator that was asked, balances,
\* and carries the fee it was asked with.
LEMMA AnsweredQuote ==
    ASSUME NEW e \in FeeEnvironments, NEW a \in Aggregators, NEW pair \in Pairs,
           NEW body \in Bodies[a], Usable(a, body, GetPolicy(e, a, pair)),
           NEW q, q = ApplyPolicy(ToQuote(a, body, GetPolicy(e, a, pair)),
                                  GetPolicy(e, a, pair), SellAmount)
    PROVE  /\ q \in QuoteRecords /\ q.aggregator = a /\ Balanced(q)
           /\ q.executionFee = GetPolicy(e, a, pair)
           /\ q.executionFee.bps > 0 => q.executionFee.payee # Unset
<1> DEFINE policy == GetPolicy(e, a, pair)
           raw == ToQuote(a, body, policy)
<1>1. body \in BodyRecords(a) BY BodiesAssumption
<1>2. /\ policy \in PolicyRecords
      /\ policy.bps > 0 => policy.payee # Unset
      /\ policy.mode = "enforced" => /\ policy.kind = KindOf[a]
                                     /\ policy.side \in {"buy", "sell"}
                                     /\ a = "odos" => policy.side = "buy"
  BY PolicyFacts
<1> HIDE DEF policy
<1>3. Usable(a, body, policy) /\ q = ApplyPolicy(raw, policy, SellAmount) BY DEF policy
<1>4. /\ raw \in QuoteRecords /\ raw.aggregator = a /\ raw.executionFee = policy
      /\ raw.gross \in Nat /\ raw.fee \in Nat
      /\ policy.mode = "enforced" /\ raw.fee > 0 =>
            raw.gross = IF policy.side = "buy" THEN raw.net + raw.fee ELSE raw.net
  BY <1>1, <1>2, <1>3, RawFacts
<1> HIDE DEF raw
<1>5. /\ q \in QuoteRecords /\ q.aggregator = raw.aggregator
      /\ q.executionFee = policy /\ Balanced(q)
  BY <1>2, <1>3, <1>4, ApplyPolicyBalances
<1> QED BY <1>2, <1>4, <1>5 DEF policy

\* A sorted answer holds the quotes and nothing else, each before the worse ones.
LEMMA SortFacts ==
    ASSUME NEW quotes \in SUBSET QuoteRecords, IsFiniteSet(quotes), NEW s \in SortQuotes(quotes)
    PROVE  /\ s \in Seq(QuoteRecords)
           /\ \A i \in DOMAIN s : s[i] \in quotes
           /\ \A i, j \in DOMAIN s : i < j => CompareQuotes(s[i], s[j])
<1>1. Cardinality(quotes) \in Nat BY FS_CardinalityType
<1>2. s \in [1..Cardinality(quotes) -> quotes] BY DEF SortQuotes
<1>3. \A i, j \in DOMAIN s : i < j => CompareQuotes(s[i], s[j]) BY DEF SortQuotes
<1>4. s \in Seq(QuoteRecords) BY <1>1, <1>2
<1> QED BY <1>2, <1>3, <1>4

-----------------------------------------------------------------------------
(* One request at a time.                                                  *)

LEMMA RequestMoves ==
    ASSUME FlowInv, NEW r \in Requests, NEW c \in RequestRecords,
           requests' = [requests EXCEPT ![r] = c], RequestInv(c, env),
           UNCHANGED <<env, preferred, restarts>>, TypeOK', CacheInv'
    PROVE  FlowInv'
<1>1. \A x \in Requests : requests'[x] = IF x = r THEN c ELSE requests[x]
  BY DEF FlowInv, TypeOK
<1>2. \A x \in Requests : RequestInv(requests'[x], env)
  <2> TAKE x \in Requests
  <2>1. CASE x = r BY <1>1, <2>1
  <2>2. CASE x # r
    <3>1. requests'[x] = requests[x] BY <1>1, <2>2
    <3> QED BY <3>1 DEF FlowInv
  <2> QED BY <2>1, <2>2
<1> QED BY <1>2 DEF FlowInv

LEMMA QuietCache ==
    ASSUME FlowInv, NEW r \in Requests, NEW c \in RequestRecords,
           requests' = [requests EXCEPT ![r] = c], RequestInv(c, env),
           UNCHANGED <<env, preferred, cache, restarts>>
    PROVE  FlowInv'
<1>1. TypeOK' BY DEF FlowInv, TypeOK
<1>2. CacheInv' BY DEF FlowInv, CacheInv
<1> QED BY <1>1, <1>2, RequestMoves

\* A request that ends keeps what it knows; a log leads to the answer.
LEMMA OnlyPcMoves ==
    ASSUME NEW e, NEW f, NEW c \in RequestRecords, RequestInv(c, e), NEW pc,
           \/ pc = "failed"
           \/ pc = "answered" /\ c.pc = "logging",
           c.pc # "idle",
           NEW d, d = [c EXCEPT !.pc = pc]
    PROVE  d \in RequestRecords /\ RequestInv(d, f)
<1>1. /\ d.pc = pc /\ d.user = c.user /\ d.pair = c.pair /\ d.preference = c.preference
      /\ d.pending = c.pending /\ d.quotes = c.quotes /\ d.answer = c.answer
      /\ d.asked = c.asked /\ d.sent = c.sent /\ d.chosen = c.chosen
  BY DEF RequestRecords
<1>2. d \in RequestRecords BY DEF RequestRecords, RequestPc
<1>3. PollingInv(d, f) /\ SentInv(d) BY <1>1 DEF PollingInv, SentInv
<1>4. QuotesInv(d) BY <1>1 DEF RequestInv, QuotesInv
<1>5. AnswerInv(d) BY <1>1 DEF RequestInv, AnswerInv
<1>6. d.pc # "idle" => d.user \in Users /\ d.pair \in Pairs BY <1>1 DEF RequestInv
<1> QED BY <1>2, <1>3, <1>4, <1>5, <1>6 DEF RequestInv

LEMMA PcStep ==
    ASSUME FlowInv, NEW r \in Requests, NEW pc,
           \/ pc = "failed"
           \/ pc = "answered" /\ At(r, "logging"),
           ~At(r, "idle"), Goto(r, pc), UNCHANGED <<env, preferred, cache, restarts>>
    PROVE  FlowInv'
<1> DEFINE c == [requests[r] EXCEPT !.pc = pc]
<1>1. requests[r] \in RequestRecords /\ RequestInv(requests[r], env) BY DEF FlowInv, TypeOK
<1>2. c \in RequestRecords /\ RequestInv(c, env) BY <1>1, OnlyPcMoves DEF At
<1>3. requests' = [requests EXCEPT ![r] = c] BY DEF Goto
<1> HIDE DEF c
<1> QED BY <1>2, <1>3, QuietCache

-----------------------------------------------------------------------------
(* The steps of a request.                                                 *)

\* What is asked for has no quotes yet.
LEMMA FreshRequest ==
    ASSUME NEW c \in RequestRecords, NEW e, c.quotes = {}, c.answer = NoAnswer,
           c.user \in Users, c.pair \in Pairs,
           c.pc \in {"settings", "fetching", "failed", "polling"},
           PollingInv(c, e)
    PROVE  RequestInv(c, e)
<1>1. QuotesInv(c) BY FS_EmptySet DEF QuotesInv
<1>2. AnswerInv(c) /\ SentInv(c) BY DEF AnswerInv, SentInv
<1> QED BY <1>1, <1>2 DEF RequestInv

LEMMA NoRequestFacts ==
    /\ NoRequest \in RequestRecords /\ NoRequest.pc = "idle"
    /\ NoRequest.quotes = {} /\ NoRequest.answer = NoAnswer
<1>1. NoAnswer \in AnswerRecords BY DEF NoAnswer, AnswerRecords
<1>2. NoFee \in FeeParams BY DEF NoFee, FeeParams, Unset
<1>3. NothingAsked \in [Aggregators -> FeeParams] BY <1>2 DEF NothingAsked
<1> QED BY <1>1, <1>2, <1>3 DEF NoRequest, RequestRecords, RequestPc

LEMMA AskStep ==
    ASSUME FlowInv, NEW r \in Requests, NEW u \in Users, NEW kind \in {"price", "swap"},
           NEW pair \in Pairs, Ask(r, u, kind, pair)
    PROVE  FlowInv'
<1>1. PICK pc \in {"settings", "fetching"} :
            requests' = [requests EXCEPT ![r] = [NoRequest EXCEPT
                !.pc = pc, !.kind = kind, !.user = u, !.pair = pair]]
  BY DEF Ask
<1>2. PICK n \in RequestRecords : n = NoRequest BY NoRequestFacts
<1>3. n.quotes = {} /\ n.answer = NoAnswer BY <1>2, NoRequestFacts
<1> DEFINE c == [n EXCEPT !.pc = pc, !.kind = kind, !.user = u, !.pair = pair]
<1>4. requests' = [requests EXCEPT ![r] = c] BY <1>1, <1>2, Zenon
<1>5. /\ c \in RequestRecords /\ c.quotes = {} /\ c.answer = NoAnswer
      /\ c.user = u /\ c.pair = pair /\ c.pc \in {"settings", "fetching"}
  BY <1>3 DEF RequestRecords, RequestPc
<1> HIDE DEF c
<1>6. PollingInv(c, env) BY <1>5 DEF PollingInv
<1>7. RequestInv(c, env) BY <1>5, <1>6, FreshRequest
<1> QED BY <1>4, <1>5, <1>7, QuietCache DEF Ask

LEMMA StartFetchingStep ==
    ASSUME FlowInv, NEW r \in Requests, requests[r].pc \in {"settings", "fetching"},
           NEW preference \in Preferences \cup {"auto"}, StartFetching(r, preference),
           UNCHANGED <<env, preferred, cache, restarts>>
    PROVE  FlowInv'
<1> DEFINE pair == requests[r].pair
           names == AggregatorsToQuery(pair.chain, preference)
           asked == [a \in Aggregators |-> QuoteFeeParams(a, GetPolicy(env, a, pair))]
           c == [requests[r] EXCEPT !.pc = IF names = {} THEN "failed" ELSE "polling",
                                    !.preference = preference, !.pending = names,
                                    !.asked = asked]
<1>1. requests' = [requests EXCEPT ![r] = c] BY DEF StartFetching
<1>2. requests[r] \in RequestRecords /\ RequestInv(requests[r], env) /\ env \in FeeEnvironments
  BY DEF FlowInv, TypeOK
<1>3. asked \in [Aggregators -> FeeParams] BY <1>2, PolicyFacts, SwapFeeAsQuoted
<1>4. names \subseteq Aggregators BY DEF AggregatorsToQuery
<1>5. \A a \in Aggregators : asked[a] = QuoteFeeParams(a, GetPolicy(env, a, pair)) OBVIOUS
<1>6. pair \in Pairs /\ requests[r].user \in Users
      /\ requests[r].quotes = {} /\ requests[r].answer = NoAnswer
  BY <1>2 DEF RequestInv, QuotesInv
<1> HIDE DEF asked, names
<1>7. /\ c \in RequestRecords /\ c.quotes = {} /\ c.answer = NoAnswer /\ c.user \in Users
      /\ c.pair = pair /\ c.preference = preference /\ c.pending = names /\ c.asked = asked
      /\ c.pc \in {"failed", "polling"}
  BY <1>2, <1>3, <1>4, <1>6 DEF RequestRecords, RequestPc
<1> HIDE DEF c
<1>8. PollingInv(c, env) BY <1>5, <1>7 DEF PollingInv, names
<1>9. RequestInv(c, env) BY <1>6, <1>7, <1>8, FreshRequest
<1> QED BY <1>1, <1>7, <1>9, QuietCache

LEMMA FetchForSwapStep ==
    ASSUME FlowInv, NEW r \in Requests, FetchForSwap(r)
    PROVE  FlowInv'
BY StartFetchingStep DEF FetchForSwap, At

LEMMA ReadSettingsStep ==
    ASSUME FlowInv, NEW r \in Requests, ReadSettings(r)
    PROVE  FlowInv'
<1> DEFINE preference == preferred[requests[r].user]
           key == BuildCacheKey(requests[r].pair, preference)
           c == [requests[r] EXCEPT !.pc = "logging", !.preference = preference,
                                    !.answer = cache[key]]
<1>1. requests[r] \in RequestRecords /\ RequestInv(requests[r], env) /\ requests[r].pc = "settings"
  BY DEF FlowInv, TypeOK, ReadSettings, At
<1>2. /\ requests[r].user \in Users /\ requests[r].pair \in Pairs /\ requests[r].quotes = {}
      /\ requests[r].answer = NoAnswer
  BY <1>1 DEF RequestInv, QuotesInv
<1>3. preference \in Preferences \cup {"auto"} BY <1>2 DEF FlowInv, TypeOK
<1>4. UNCHANGED <<env, preferred, cache, restarts>> BY DEF ReadSettings
<1>5. CASE key \in DOMAIN cache
  <2>1. cache[key] \in AnswerRecords BY <1>5 DEF FlowInv, TypeOK
  <2>2. GoodAnswer(cache[key], requests[r].pair, preference)
    <3>1. GoodAnswer(cache[key], key[1], key[2]) BY <1>5 DEF FlowInv, CacheInv
    <3>2. key[1] = requests[r].pair /\ key[2] = preference BY DEF BuildCacheKey
    <3> QED BY <3>1, <3>2
  <2>3. requests' = [requests EXCEPT ![r] = c] BY <1>5 DEF ReadSettings
  <2> DEFINE answer == cache[key]
  <2> HIDE DEF preference, answer
  <2>4. /\ c \in RequestRecords /\ c.quotes = {} /\ c.answer = answer /\ c.user \in Users
        /\ c.pair = requests[r].pair /\ c.preference = preference /\ c.pc = "logging"
    BY <1>1, <1>2, <1>3, <2>1 DEF RequestRecords, RequestPc, answer
  <2> HIDE DEF c
  <2>5. QuotesInv(c) BY <2>4, FS_EmptySet DEF QuotesInv
  <2>6. AnswerInv(c) /\ SentInv(c) /\ PollingInv(c, env)
    BY <2>2, <2>4 DEF AnswerInv, SentInv, PollingInv, GoodAnswer, answer
  <2>7. RequestInv(c, env) BY <1>2, <2>4, <2>5, <2>6 DEF RequestInv
  <2> QED BY <1>4, <2>3, <2>4, <2>7, QuietCache
<1>6. CASE key \notin DOMAIN cache
  <2>1. StartFetching(r, preference) BY <1>6 DEF ReadSettings
  <2> HIDE DEF preference
  <2> QED BY <1>1, <1>3, <1>4, <2>1, StartFetchingStep
<1> QED BY <1>5, <1>6

\* The configuration that maps the answer is the one that asked for it.
LEMMA AggregatorAnswersStep ==
    ASSUME FlowInv, NEW r \in Requests, NEW a \in Aggregators, NEW body \in Bodies[a],
           AggregatorAnswers(r, a, body)
    PROVE  FlowInv'
<1> DEFINE policy == GetPolicy(env, a, requests[r].pair)
           quote == ApplyPolicy(ToQuote(a, body, policy), policy, SellAmount)
           quotes == IF Usable(a, body, policy) THEN requests[r].quotes \cup {quote}
                     ELSE requests[r].quotes
           c == [requests[r] EXCEPT !.pending = @ \ {a}, !.quotes = quotes]
<1>1. requests[r] \in RequestRecords /\ RequestInv(requests[r], env) /\ env \in FeeEnvironments
  BY DEF FlowInv, TypeOK
<1>2. requests[r].pc = "polling" /\ a \in requests[r].pending
  BY DEF AggregatorAnswers, At
<1>3. /\ requests[r].pair \in Pairs /\ requests[r].user \in Users
      /\ PollingInv(requests[r], env) /\ QuotesInv(requests[r]) /\ AnswerInv(requests[r])
  BY <1>1, <1>2 DEF RequestInv
<1>4. requests' = [requests EXCEPT ![r] = c] BY DEF AggregatorAnswers
<1>5. Usable(a, body, policy) =>
        /\ quote \in QuoteRecords /\ GoodQuote(quote, requests[r].pair, requests[r].preference)
        /\ AskedWith(quote, requests[r].asked)
  <2> HAVE Usable(a, body, policy)
  <2>1. /\ quote \in QuoteRecords /\ quote.aggregator = a /\ Balanced(quote)
        /\ quote.executionFee = policy
        /\ quote.executionFee.bps > 0 => quote.executionFee.payee # Unset
    BY <1>1, <1>3, AnsweredQuote
  <2>2. /\ requests[r].asked[a] = QuoteFeeParams(a, policy)
        /\ a \in AggregatorsToQuery(requests[r].pair.chain, requests[r].preference)
    BY <1>2, <1>3 DEF PollingInv
  <2> HIDE DEF quote, policy
  <2> QED BY <2>1, <2>2 DEF GoodQuote, AskedWith
<1> HIDE DEF quote, policy
<1>6. quotes \in SUBSET QuoteRecords /\ IsFiniteSet(quotes)
  <2>1. requests[r].quotes \in SUBSET QuoteRecords BY <1>1 DEF RequestRecords
  <2>2. IsFiniteSet(requests[r].quotes) BY <1>3 DEF QuotesInv
  <2>3. IsFiniteSet(requests[r].quotes \cup {quote}) BY <2>2, FS_AddElement
  <2> QED BY <1>5, <2>1, <2>2, <2>3
<1>7. \A q \in quotes : /\ GoodQuote(q, requests[r].pair, requests[r].preference)
                        /\ AskedWith(q, requests[r].asked)
  BY <1>3, <1>5 DEF QuotesInv
<1> HIDE DEF quotes
<1>8. /\ c \in RequestRecords /\ c.pc = "polling" /\ c.quotes = quotes
      /\ c.pending = requests[r].pending \ {a} /\ c.user = requests[r].user
      /\ c.pair = requests[r].pair /\ c.preference = requests[r].preference
      /\ c.asked = requests[r].asked /\ c.answer = requests[r].answer
  BY <1>1, <1>2, <1>6 DEF RequestRecords
<1> HIDE DEF c
<1>9. PollingInv(c, env) BY <1>2, <1>3, <1>8 DEF PollingInv
<1>10. QuotesInv(c) BY <1>6, <1>7, <1>8 DEF QuotesInv
<1>11. AnswerInv(c) /\ SentInv(c) BY <1>3, <1>8 DEF AnswerInv, SentInv
<1>12. RequestInv(c, env) BY <1>3, <1>8, <1>9, <1>10, <1>11 DEF RequestInv
<1> QED BY <1>4, <1>8, <1>12, QuietCache DEF AggregatorAnswers

LEMMA AggregatorFailsStep ==
    ASSUME FlowInv, NEW r \in Requests, NEW a \in Aggregators, AggregatorFails(r, a)
    PROVE  FlowInv'
<1> DEFINE c == [requests[r] EXCEPT !.pending = @ \ {a}]
<1>1. requests[r] \in RequestRecords /\ RequestInv(requests[r], env)
  BY DEF FlowInv, TypeOK
<1>2. requests[r].pc = "polling" BY DEF AggregatorFails, At
<1>3. /\ requests[r].pair \in Pairs /\ requests[r].user \in Users
      /\ PollingInv(requests[r], env) /\ QuotesInv(requests[r]) /\ AnswerInv(requests[r])
  BY <1>1, <1>2 DEF RequestInv
<1>4. requests' = [requests EXCEPT ![r] = c] BY DEF AggregatorFails
<1>5. /\ c \in RequestRecords /\ c.pc = "polling" /\ c.quotes = requests[r].quotes
      /\ c.pending \subseteq requests[r].pending /\ c.user = requests[r].user
      /\ c.pair = requests[r].pair /\ c.preference = requests[r].preference
      /\ c.asked = requests[r].asked /\ c.answer = requests[r].answer
  BY <1>1, <1>2 DEF RequestRecords
<1> HIDE DEF c
<1>6. PollingInv(c, env) BY <1>2, <1>3, <1>5 DEF PollingInv
<1>7. QuotesInv(c) BY <1>2, <1>3, <1>5 DEF QuotesInv
<1>8. AnswerInv(c) /\ SentInv(c) BY <1>3, <1>5 DEF AnswerInv, SentInv
<1>9. RequestInv(c, env) BY <1>3, <1>5, <1>6, <1>7, <1>8 DEF RequestInv
<1> QED BY <1>4, <1>5, <1>9, QuietCache DEF AggregatorFails

\* An answer of sorted quotes, each of which was good on its own.
LEMMA AnswerFacts ==
    ASSUME FlowInv, NEW r \in Requests, AllSettled(r), NEW answer \in AnswersOf(r)
    PROVE  /\ answer \in AnswerRecords
           /\ GoodAnswer(answer, requests[r].pair, requests[r].preference)
           /\ \A i \in DOMAIN answer.quotes : answer.quotes[i] \in requests[r].quotes
<1>1. requests[r] \in RequestRecords /\ RequestInv(requests[r], env) /\ requests[r].pc = "polling"
  BY DEF FlowInv, TypeOK, AllSettled, At
<1>2. requests[r].quotes \in SUBSET QuoteRecords /\ requests[r].pair \in Pairs
  BY <1>1 DEF RequestRecords, RequestInv
<1>3. IsFiniteSet(requests[r].quotes)
      /\ \A q \in requests[r].quotes : GoodQuote(q, requests[r].pair, requests[r].preference)
  BY <1>1 DEF RequestInv, QuotesInv
<1>4. answer.pair = requests[r].pair /\ answer.quotes \in SortQuotes(requests[r].quotes)
      /\ answer = [pair |-> answer.pair, quotes |-> answer.quotes]
  BY DEF AnswersOf
<1>5. /\ answer.quotes \in Seq(QuoteRecords)
      /\ \A i \in DOMAIN answer.quotes : answer.quotes[i] \in requests[r].quotes
      /\ \A i, j \in DOMAIN answer.quotes :
            i < j => CompareQuotes(answer.quotes[i], answer.quotes[j])
  BY <1>2, <1>3, <1>4, SortFacts
<1>6. answer \in AnswerRecords BY <1>2, <1>4, <1>5 DEF AnswerRecords
<1> QED BY <1>3, <1>4, <1>5, <1>6 DEF GoodAnswer

\* What a settled request becomes with its answer.
LEMMA RankedRequest ==
    ASSUME FlowInv, NEW r \in Requests, AllSettled(r), NEW answer \in AnswersOf(r),
           NEW pc \in {"logging", "offered"},
           NEW c, c = [requests[r] EXCEPT !.pc = pc, !.answer = answer]
    PROVE  c \in RequestRecords /\ RequestInv(c, env)
<1>1. requests[r] \in RequestRecords /\ RequestInv(requests[r], env) /\ requests[r].pc = "polling"
  BY DEF FlowInv, TypeOK, AllSettled, At
<1>2. /\ answer \in AnswerRecords
      /\ GoodAnswer(answer, requests[r].pair, requests[r].preference)
      /\ \A i \in DOMAIN answer.quotes : answer.quotes[i] \in requests[r].quotes
  BY AnswerFacts
<1>3. /\ c \in RequestRecords /\ c.pc = pc /\ c.answer = answer /\ c.quotes = requests[r].quotes
      /\ c.user = requests[r].user /\ c.pair = requests[r].pair
      /\ c.preference = requests[r].preference /\ c.asked = requests[r].asked
  BY <1>1, <1>2 DEF RequestRecords, RequestPc
<1>4. requests[r].user \in Users /\ requests[r].pair \in Pairs /\ QuotesInv(requests[r])
  BY <1>1 DEF RequestInv
<1>5. PollingInv(c, env) /\ SentInv(c) BY <1>3 DEF PollingInv, SentInv
<1>6. QuotesInv(c) BY <1>3, <1>4 DEF QuotesInv
<1>7. AnswerInv(c) BY <1>2, <1>3 DEF AnswerInv, GoodAnswer
<1> QED BY <1>3, <1>4, <1>5, <1>6, <1>7 DEF RequestInv

LEMMA RankForSwapStep ==
    ASSUME FlowInv, NEW r \in Requests, RankForSwap(r)
    PROVE  FlowInv'
<1>1. PICK answer \in AnswersOf(r) :
            requests' = [requests EXCEPT ![r] =
                [requests[r] EXCEPT !.pc = "offered", !.answer = answer]]
  BY DEF RankForSwap
<1> DEFINE c == [requests[r] EXCEPT !.pc = "offered", !.answer = answer]
<1>2. c \in RequestRecords /\ RequestInv(c, env) BY RankedRequest DEF RankForSwap
<1>3. requests' = [requests EXCEPT ![r] = c] BY <1>1
<1> HIDE DEF c
<1> QED BY <1>2, <1>3, QuietCache DEF RankForSwap

\* What goes into the cache is good for everybody who asks with the same key.
LEMMA RankForPriceStep ==
    ASSUME FlowInv, NEW r \in Requests, RankForPrice(r)
    PROVE  FlowInv'
<1> DEFINE key == BuildCacheKey(requests[r].pair, requests[r].preference)
<1>1. PICK answer \in AnswersOf(r) :
            /\ SaveCached(key, answer)
            /\ requests' = [requests EXCEPT ![r] =
                  [requests[r] EXCEPT !.pc = "logging", !.answer = answer]]
  BY DEF RankForPrice
<1> DEFINE c == [requests[r] EXCEPT !.pc = "logging", !.answer = answer]
<1>2. AllSettled(r) /\ UNCHANGED <<env, preferred, restarts>> BY DEF RankForPrice
<1>3. c \in RequestRecords /\ RequestInv(c, env) BY <1>2, RankedRequest
<1>4. requests' = [requests EXCEPT ![r] = c] BY <1>1
<1>5. answer \in AnswerRecords /\ GoodAnswer(answer, requests[r].pair, requests[r].preference)
  BY <1>2, AnswerFacts
<1>6. /\ key[1] = requests[r].pair /\ key[2] = requests[r].preference
      /\ key \in Pairs \X (Preferences \cup {"auto"})
  <2>1. requests[r] \in RequestRecords /\ requests[r].pair \in Pairs
    BY <1>2 DEF FlowInv, TypeOK, RequestInv, AllSettled, At
  <2> QED BY <2>1 DEF BuildCacheKey, RequestRecords
<1> HIDE DEF key, c
<1>7. /\ DOMAIN cache' = DOMAIN cache \cup {key}
      /\ \A k \in DOMAIN cache' : cache'[k] = IF k = key THEN answer ELSE cache[k]
  BY <1>1 DEF SaveCached
<1>8. TypeOK'
  <2>1. /\ DOMAIN cache \subseteq Pairs \X (Preferences \cup {"auto"})
        /\ \A k \in DOMAIN cache : cache[k] \in AnswerRecords
        /\ requests \in [Requests -> RequestRecords]
    BY DEF FlowInv, TypeOK
  <2>2. DOMAIN cache' \subseteq Pairs \X (Preferences \cup {"auto"}) BY <1>6, <1>7, <2>1
  <2>3. \A k \in DOMAIN cache' : cache'[k] \in AnswerRecords BY <1>5, <1>7, <2>1
  <2>4. requests' \in [Requests -> RequestRecords] BY <1>3, <1>4, <2>1
  <2> QED BY <1>2, <2>2, <2>3, <2>4 DEF FlowInv, TypeOK
<1>9. CacheInv'
  <2>1. \A k \in DOMAIN cache' : GoodAnswer(cache'[k], k[1], k[2])
    <3> TAKE k \in DOMAIN cache'
    <3>1. CASE k = key BY <1>5, <1>6, <1>7, <3>1
    <3>2. CASE k # key
      <4>1. k \in DOMAIN cache /\ cache'[k] = cache[k] BY <1>7, <3>2
      <4> QED BY <4>1 DEF FlowInv, CacheInv
    <3> QED BY <3>1, <3>2
  <2> QED BY <2>1 DEF CacheInv
<1> QED BY <1>2, <1>3, <1>4, <1>8, <1>9, RequestMoves

\* A pressed option is one of the quotes, and what is sent is of its fee.
LEMMA BuildSwapTransactionStep ==
    ASSUME FlowInv, NEW r \in Requests, NEW a \in Aggregators, NEW body,
           BuildSwapTransaction(r, a, body)
    PROVE  FlowInv'
<1> DEFINE fee == FeeOfOption(r, a)
           c == [requests[r] EXCEPT !.pc = "sent", !.chosen = a, !.sent = SwapFeeParams(a, fee)]
<1>1. requests[r] \in RequestRecords /\ RequestInv(requests[r], env) /\ requests[r].pc = "offered"
  BY DEF FlowInv, TypeOK, BuildSwapTransaction, At
<1>2. /\ requests[r].user \in Users /\ requests[r].pair \in Pairs
      /\ QuotesInv(requests[r]) /\ AnswerInv(requests[r])
  BY <1>1 DEF RequestInv
<1>3. /\ OptionOf(r, a) \in Range(requests[r].answer.quotes)
      /\ OptionOf(r, a).aggregator = a
  BY DEF BuildSwapTransaction, OptionOf
<1>4. OptionOf(r, a) \in requests[r].quotes
  BY <1>1, <1>2, <1>3 DEF Range, AnswerInv
<1>5. fee \in PolicyRecords /\ (fee.bps > 0 => fee.payee # Unset)
  <2>1. OptionOf(r, a) \in QuoteRecords BY <1>1, <1>4 DEF RequestRecords
  <2>2. AskedWith(OptionOf(r, a), requests[r].asked) BY <1>2, <1>4 DEF QuotesInv
  <2> QED BY <2>1, <2>2 DEF FeeOfOption, QuoteRecords, AskedWith
<1>6. SwapFeeParams(a, fee) \in FeeParams BY <1>5, SwapFeeAsQuoted
<1>7. requests' = [requests EXCEPT ![r] = c] BY DEF BuildSwapTransaction
<1>8. fee = OptionOf(r, a).executionFee BY DEF FeeOfOption
<1> HIDE DEF fee
<1>9. /\ c \in RequestRecords /\ c.pc = "sent" /\ c.chosen = a /\ c.sent = SwapFeeParams(a, fee)
      /\ c.quotes = requests[r].quotes /\ c.answer = requests[r].answer
      /\ c.user = requests[r].user /\ c.pair = requests[r].pair
      /\ c.preference = requests[r].preference /\ c.asked = requests[r].asked
  BY <1>1, <1>6 DEF RequestRecords, RequestPc
<1> HIDE DEF c
<1>10. PollingInv(c, env) BY <1>9 DEF PollingInv
<1>11. QuotesInv(c) BY <1>2, <1>9 DEF QuotesInv
<1>12. AnswerInv(c) BY <1>1, <1>2, <1>9 DEF AnswerInv
<1>13. SentInv(c) BY <1>3, <1>4, <1>8, <1>9 DEF SentInv
<1>14. RequestInv(c, env) BY <1>2, <1>9, <1>10, <1>11, <1>12, <1>13 DEF RequestInv
<1> QED BY <1>7, <1>9, <1>14, QuietCache DEF BuildSwapTransaction

LEMMA BuildFailsStep ==
    ASSUME FlowInv, NEW r \in Requests, NEW a \in Aggregators, BuildFails(r, a)
    PROVE  FlowInv'
<1> DEFINE c == [requests[r] EXCEPT !.pc = "unsent", !.chosen = a]
<1>1. requests[r] \in RequestRecords /\ RequestInv(requests[r], env) /\ requests[r].pc = "offered"
  BY DEF FlowInv, TypeOK, BuildFails, At
<1>2. /\ requests[r].user \in Users /\ requests[r].pair \in Pairs
      /\ QuotesInv(requests[r]) /\ AnswerInv(requests[r])
  BY <1>1 DEF RequestInv
<1>3. requests' = [requests EXCEPT ![r] = c] BY DEF BuildFails
<1>4. /\ c \in RequestRecords /\ c.pc = "unsent"
      /\ c.quotes = requests[r].quotes /\ c.answer = requests[r].answer
      /\ c.user = requests[r].user /\ c.pair = requests[r].pair
      /\ c.preference = requests[r].preference /\ c.asked = requests[r].asked
  BY <1>1 DEF RequestRecords, RequestPc
<1> HIDE DEF c
<1>5. PollingInv(c, env) /\ SentInv(c) BY <1>4 DEF PollingInv, SentInv
<1>6. QuotesInv(c) BY <1>2, <1>4 DEF QuotesInv
<1>7. AnswerInv(c) BY <1>1, <1>2, <1>4 DEF AnswerInv
<1>8. RequestInv(c, env) BY <1>2, <1>4, <1>5, <1>6, <1>7 DEF RequestInv
<1> QED BY <1>3, <1>4, <1>8, QuietCache DEF BuildFails

-----------------------------------------------------------------------------
(* Around the requests.                                                    *)

LEMMA SetPreferredStep ==
    ASSUME FlowInv, NEW u \in Users, NEW p \in Preferences, SetPreferred(u, p)
    PROVE  FlowInv'
<1>1. preferred' \in [Users -> Preferences \cup {"auto"}]
  BY DEF FlowInv, TypeOK, SetPreferred
<1>2. UNCHANGED <<env, cache, requests, restarts>> BY DEF SetPreferred
<1>3. TypeOK' BY <1>1, <1>2 DEF FlowInv, TypeOK
<1>4. CacheInv' BY <1>2 DEF FlowInv, CacheInv
<1>5. \A r \in Requests : RequestInv(requests'[r], env') BY <1>2 DEF FlowInv
<1> QED BY <1>3, <1>4, <1>5 DEF FlowInv

LEMMA ExpireCachedStep ==
    ASSUME FlowInv, NEW key, ExpireCached(key)
    PROVE  FlowInv'
<1>1. DOMAIN cache' \subseteq DOMAIN cache /\ \A k \in DOMAIN cache' : cache'[k] = cache[k]
  BY DEF ExpireCached
<1>2. UNCHANGED <<env, preferred, requests, restarts>> BY DEF ExpireCached
<1>3. TypeOK'
  <2>1. DOMAIN cache' \subseteq Pairs \X (Preferences \cup {"auto"})
    BY <1>1 DEF FlowInv, TypeOK
  <2>2. \A k \in DOMAIN cache' : cache'[k] \in AnswerRecords
    BY <1>1 DEF FlowInv, TypeOK
  <2> QED BY <1>2, <2>1, <2>2 DEF FlowInv, TypeOK
<1>4. CacheInv'
  <2>1. \A k \in DOMAIN cache' : GoodAnswer(cache'[k], k[1], k[2])
    BY <1>1 DEF FlowInv, CacheInv
  <2> QED BY <2>1 DEF CacheInv
<1>5. \A r \in Requests : RequestInv(requests'[r], env') BY <1>2 DEF FlowInv
<1> QED BY <1>3, <1>4, <1>5 DEF FlowInv

\* A request that polls does not outlive the configuration it asked with.
LEMMA RestartStep ==
    ASSUME FlowInv, NEW e \in Environments, Restart(e)
    PROVE  FlowInv'
<1>1. \A r \in Requests : /\ requests'[r] \in RequestRecords
                          /\ RequestInv(requests'[r], env')
  <2> TAKE r \in Requests
  <2>1. requests[r] \in RequestRecords /\ RequestInv(requests[r], env)
    BY DEF FlowInv, TypeOK
  <2>2. CASE requests[r].pc \in InMemory
    <3> DEFINE d == [requests[r] EXCEPT !.pc = "failed"]
    <3>1. requests'[r] = d BY <2>2 DEF Restart
    <3>2. requests[r].pc # "idle" BY <2>2 DEF InMemory
    <3>3. d \in RequestRecords /\ RequestInv(d, env') BY <2>1, <3>2, OnlyPcMoves
    <3> QED BY <3>1, <3>3
  <2>3. CASE requests[r].pc \notin InMemory
    <3>1. requests'[r] = requests[r] BY <2>3 DEF Restart
    <3>2. PollingInv(requests[r], env') BY <2>3 DEF PollingInv, InMemory
    <3>3. RequestInv(requests[r], env') BY <2>1, <3>2 DEF RequestInv
    <3> QED BY <2>1, <3>1, <3>3
  <2> QED BY <2>2, <2>3
<1>2. DOMAIN cache' = {} BY DEF Restart
<1>3. TypeOK'
  <2>1. requests' \in [Requests -> RequestRecords] BY <1>1 DEF Restart
  <2>2. env' \in FeeEnvironments BY EnvironmentsAssumption DEF Restart
  <2>3. restarts' \in 0..MaxRestarts /\ preferred' = preferred
    BY RestartsAssumption DEF Restart, FlowInv, TypeOK
  <2> QED BY <1>2, <2>1, <2>2, <2>3 DEF FlowInv, TypeOK
<1>4. CacheInv' BY <1>2 DEF CacheInv
<1> QED BY <1>1, <1>3, <1>4 DEF FlowInv

-----------------------------------------------------------------------------
(* The theorems.                                                           *)

LEMMA InitInv == FlowInit => FlowInv
<1> SUFFICES ASSUME FlowInit PROVE FlowInv OBVIOUS
<1>1. env \in FeeEnvironments BY EnvironmentsAssumption DEF FlowInit
<1>2. DOMAIN cache = {} BY DEF FlowInit
<1>3. requests = [r \in Requests |-> NoRequest] BY DEF FlowInit
<1>4. TypeOK
  <2>1. requests \in [Requests -> RequestRecords] BY <1>3, NoRequestFacts
  <2>2. restarts \in 0..MaxRestarts BY RestartsAssumption DEF FlowInit
  <2>3. preferred \in [Users -> Preferences \cup {"auto"}] BY DEF FlowInit
  <2> QED BY <1>1, <1>2, <2>1, <2>2, <2>3 DEF TypeOK
<1>5. CacheInv BY <1>2 DEF CacheInv
<1>6. RequestInv(NoRequest, env)
  <2>1. QuotesInv(NoRequest) BY NoRequestFacts, FS_EmptySet DEF QuotesInv
  <2>2. /\ AnswerInv(NoRequest) /\ SentInv(NoRequest) /\ PollingInv(NoRequest, env)
    BY NoRequestFacts DEF AnswerInv, SentInv, PollingInv
  <2> QED BY <2>1, <2>2, NoRequestFacts DEF RequestInv
<1> QED BY <1>3, <1>4, <1>5, <1>6 DEF FlowInv

LEMMA RequestStepInv ==
    ASSUME FlowInv, NEW r \in Requests, RequestStep(r)
    PROVE  FlowInv'
<1>1. ASSUME NEW u \in Users, NEW kind \in {"price", "swap"}, NEW pair \in Pairs,
             Ask(r, u, kind, pair)
      PROVE  FlowInv'
  BY <1>1, AskStep
<1>2. ASSUME ReadSettings(r) PROVE FlowInv' BY <1>2, ReadSettingsStep
<1>3. ASSUME FetchForSwap(r) PROVE FlowInv' BY <1>3, FetchForSwapStep
<1>4. ASSUME NEW a \in Aggregators, NEW body \in Bodies[a], AggregatorAnswers(r, a, body)
      PROVE  FlowInv'
  BY <1>4, AggregatorAnswersStep
<1>5. ASSUME NEW a \in Aggregators, AggregatorFails(r, a) PROVE FlowInv'
  BY <1>5, AggregatorFailsStep
<1>6. ASSUME NEW a \in Aggregators, NEW body \in Bodies[a], BuildSwapTransaction(r, a, body)
      PROVE  FlowInv'
  BY <1>6, BuildSwapTransactionStep
<1>7. ASSUME NEW a \in Aggregators, BuildFails(r, a) PROVE FlowInv' BY <1>7, BuildFailsStep
<1>8. ASSUME NoQuotes(r) PROVE FlowInv'
  BY <1>8, PcStep DEF NoQuotes, AllSettled, At
<1>9. ASSUME RankForPrice(r) PROVE FlowInv' BY <1>9, RankForPriceStep
<1>10. ASSUME RankForSwap(r) PROVE FlowInv' BY <1>10, RankForSwapStep
<1>11. ASSUME LogSuccess(r) PROVE FlowInv' BY <1>11, PcStep DEF LogSuccess, At
<1>12. ASSUME LogFails(r) PROVE FlowInv' BY <1>12, PcStep DEF LogFails, At
<1> QED
  BY <1>1, <1>2, <1>3, <1>4, <1>5, <1>6, <1>7, <1>8, <1>9, <1>10, <1>11, <1>12
  DEF RequestStep

LEMMA NextInv == FlowInv /\ [FlowNext]_flowVars => FlowInv'
<1> SUFFICES ASSUME FlowInv, [FlowNext]_flowVars PROVE FlowInv' OBVIOUS
<1>1. ASSUME NEW r \in Requests, RequestStep(r) PROVE FlowInv' BY <1>1, RequestStepInv
<1>2. ASSUME NEW u \in Users, NEW p \in Preferences, SetPreferred(u, p) PROVE FlowInv'
  BY <1>2, SetPreferredStep
<1>3. ASSUME NEW key, ExpireCached(key) PROVE FlowInv' BY <1>3, ExpireCachedStep
<1>4. ASSUME NEW e \in Environments, Restart(e) PROVE FlowInv' BY <1>4, RestartStep
<1>5. ASSUME UNCHANGED flowVars PROVE FlowInv'
  BY <1>5 DEF flowVars, FlowInv, TypeOK, CacheInv
<1> QED BY <1>1, <1>2, <1>3, <1>4, <1>5 DEF FlowNext

\* The invariant the others follow from: of every request, of every quote it was
\* given and of everything in the cache.
THEOREM SpecInv == FlowSpec => []FlowInv
BY InitInv, NextInv, PTL DEF FlowSpec

\* Every variable keeps its type.
THEOREM SpecTypeOK == FlowSpec => []TypeOK
<1>1. FlowInv => TypeOK BY DEF FlowInv
<1> QED BY <1>1, SpecInv, PTL

\* PriceService.getBestQuote: the shared cache never answers for another pair or
\* for another preference.
THEOREM SpecOwnPreference == FlowSpec => []OwnPreference
<1>1. ASSUME FlowInv PROVE OwnPreference
  <2> SUFFICES ASSUME NEW r \in Requests, At(r, "answered")
               PROVE  /\ requests[r].answer.pair = requests[r].pair
                      /\ requests[r].preference # "auto" =>
                            \A q \in AnswerQuotes(r) :
                                q.aggregator = NormalizedPreference(requests[r].preference)
    BY DEF OwnPreference
  <2>1. AnswerInv(requests[r]) BY <1>1 DEF FlowInv, RequestInv
  <2>2. requests[r].answer.pair = requests[r].pair BY <2>1 DEF AnswerInv, At
  <2>3. CASE requests[r].answer = NoAnswer
    <3>1. AnswerQuotes(r) = {} BY <2>3 DEF AnswerQuotes, NoAnswer, Range
    <3> QED BY <2>2, <3>1
  <2>4. CASE GoodAnswer(requests[r].answer, requests[r].pair, requests[r].preference)
    <3>1. \A q \in AnswerQuotes(r) :
             q.aggregator \in AggregatorsToQuery(requests[r].pair.chain, requests[r].preference)
      BY <2>4 DEF AnswerQuotes, Range, GoodAnswer, GoodQuote
    <3> QED BY <2>2, <3>1 DEF AggregatorsToQuery
  <2> QED BY <2>1, <2>3, <2>4 DEF AnswerInv
<1> QED BY <1>1, SpecInv, PTL

\* PriceRankingService.sortQuotes: no quote behind another pays the user more, nor
\* as much for less gas.
THEOREM SpecBestIsFirst == FlowSpec => []BestIsFirst
<1>1. ASSUME FlowInv PROVE BestIsFirst
  <2> SUFFICES ASSUME NEW r \in Requests, NEW i \in DOMAIN requests[r].answer.quotes,
                      NEW j \in DOMAIN requests[r].answer.quotes, i < j
               PROVE  LET p == requests[r].answer.quotes[i]
                          q == requests[r].answer.quotes[j]
                      IN /\ p.net >= q.net
                         /\ p.net = q.net => ~CheaperGas(q, p)
    BY DEF BestIsFirst
  <2> DEFINE p == requests[r].answer.quotes[i]
             q == requests[r].answer.quotes[j]
  <2>1. AnswerInv(requests[r]) /\ requests[r] \in RequestRecords
    BY <1>1 DEF FlowInv, RequestInv, TypeOK
  <2>2. requests[r].answer # NoAnswer BY DEF NoAnswer
  <2>3. CompareQuotes(p, q) BY <2>1, <2>2 DEF AnswerInv, GoodAnswer
  <2>4. p \in QuoteRecords /\ q \in QuoteRecords
    <3>1. requests[r].answer.quotes \in Seq(QuoteRecords)
      BY <2>1 DEF RequestRecords, AnswerRecords
    <3> QED BY <3>1
  <2> HIDE DEF p, q
  <2>5. p.net \in Int /\ q.net \in Int /\ p.gas \in Int /\ q.gas \in Int
    BY <2>4 DEF QuoteRecords, Reported, Unreported
  <2>6. p.net >= q.net /\ (p.net = q.net => ~CheaperGas(q, p))
    BY <2>3, <2>5 DEF CompareQuotes, CheaperGas
  <2> QED BY <2>6 DEF p, q
<1> QED BY <1>1, SpecInv, PTL

\* QuoteMonetizationService: whatever amounts and rates there are, what a quote
\* says of its amounts adds up.
THEOREM SpecBooksBalance == FlowSpec => []BooksBalance
<1>1. ASSUME FlowInv PROVE BooksBalance
  <2> SUFFICES ASSUME NEW r \in Requests, NEW q \in AnswerQuotes(r) PROVE Balanced(q)
    BY DEF BooksBalance
  <2>1. AnswerInv(requests[r]) BY <1>1 DEF FlowInv, RequestInv
  <2>2. PICK i \in DOMAIN requests[r].answer.quotes : q = requests[r].answer.quotes[i]
    BY DEF AnswerQuotes, Range
  <2>3. requests[r].answer # NoAnswer BY <2>2 DEF NoAnswer
  <2> QED BY <2>1, <2>2, <2>3 DEF AnswerInv, GoodAnswer, GoodQuote
<1> QED BY <1>1, SpecInv, PTL

\* SwapIntentService.createIntent and buildSwapPayload: an execution asks for the
\* fee its quote was asked with, whatever was configured since.
THEOREM SpecChargedAsQuoted == FlowSpec => []ChargedAsQuoted
<1>1. ASSUME FlowInv PROVE ChargedAsQuoted
  <2> SUFFICES ASSUME NEW r \in Requests, At(r, "sent")
               PROVE  LET sent == requests[r].sent
                          asked == requests[r].asked[requests[r].chosen]
                      IN /\ sent.bps = asked.bps
                         /\ asked.payee # Unset => sent.payee = asked.payee
                         /\ sent.bps > 0 => sent.payee # Unset
    BY DEF ChargedAsQuoted
  <2>1. /\ requests[r] \in RequestRecords /\ QuotesInv(requests[r]) /\ SentInv(requests[r])
        /\ requests[r].pc = "sent"
    BY <1>1 DEF FlowInv, RequestInv, TypeOK, At
  <2>2. PICK q \in requests[r].quotes :
            /\ requests[r].chosen = q.aggregator
            /\ requests[r].sent = SwapFeeParams(q.aggregator, q.executionFee)
    BY <2>1 DEF SentInv
  <2>3. /\ q.aggregator \in Aggregators /\ q.executionFee \in PolicyRecords
    BY <2>1, <2>2 DEF RequestRecords, QuoteRecords
  <2>4. /\ QuoteFeeParams(q.aggregator, q.executionFee) = requests[r].asked[q.aggregator]
        /\ q.executionFee.bps > 0 => q.executionFee.payee # Unset
    BY <2>1, <2>2 DEF QuotesInv, AskedWith
  <2> QED BY <2>2, <2>3, <2>4, SwapFeeAsQuoted
<1> QED BY <1>1, SpecInv, PTL

-----------------------------------------------------------------------------
(* The risk of a route.  Nothing is asked of the behaviour but that the    *)
(* evaluator is called with a route and a slippage.                        *)

LEMMA FactorsOfRoute ==
    ASSUME NEW r \in Routes, NEW s \in Nat, NEW l
    PROVE  l \in Factors(r, s) <=>
              \/ l = Grade(s, 100, 300, 1000)
              \/ r.priceImpact # Unknown /\ l = Grade(r.priceImpact, 100, 300, 1000)
              \/ r.gas # Unknown /\ l = Grade(r.gas, 50, 50, 200)
              \/ r.hops # Unknown /\ l = Grade(r.hops, 3, 5, 8)
BY DEF Factors, SlippageLevel, PriceImpactLevel, GasLevel, HopsLevel

\* evaluateRouteRisk: one figure at its limit is enough, for every route there is.
THEOREM AnyLevelByThresholds == route \in Routes /\ slippage \in Nat => LevelByThresholds
<1> SUFFICES ASSUME route \in Routes, slippage \in Nat PROVE LevelByThresholds OBVIOUS
<1> DEFINE F == Factors(route, slippage)
<1>1. /\ level \in F /\ level \in Levels /\ F \subseteq Levels
      /\ \A m \in F : m <= level
  BY WorstFactorDecides, FactorsAreLevels DEF level
<1>2. \A l : l \in F <=>
         \/ l = Grade(slippage, 100, 300, 1000)
         \/ route.priceImpact # Unknown /\ l = Grade(route.priceImpact, 100, 300, 1000)
         \/ route.gas # Unknown /\ l = Grade(route.gas, 50, 50, 200)
         \/ route.hops # Unknown /\ l = Grade(route.hops, 3, 5, 8)
  BY FactorsOfRoute
<1>3. /\ route.priceImpact \in Int /\ route.gas \in Int /\ route.hops \in Int
      /\ route.priceImpact # Unknown => route.priceImpact >= 0
      /\ route.gas # Unknown => route.gas >= 0
      /\ route.hops # Unknown => route.hops >= 0
  BY DEF Routes, Figures, Unknown
<1> HIDE DEF F
<1> USE DEF Grade, Levels, Low, Medium, High, Blocked, Unknown, Reaches
<1>4. level = Blocked <=> Blocked \in F BY <1>1
<1>5. level >= High <=> (High \in F \/ Blocked \in F) BY <1>1
<1>6. level = Low <=> (Medium \notin F /\ High \notin F /\ Blocked \notin F) BY <1>1
<1>7. Blocked \in F <=>
         \/ Reaches(route.priceImpact, 1000) \/ slippage >= 1000
         \/ Reaches(route.gas, 200) \/ Reaches(route.hops, 8)
  BY <1>2, <1>3
<1>8. (High \in F \/ Blocked \in F) <=>
         \/ Reaches(route.priceImpact, 300) \/ slippage >= 300
         \/ Reaches(route.gas, 50) \/ Reaches(route.hops, 5)
  BY <1>2, <1>3
<1>9. (Medium \notin F /\ High \notin F /\ Blocked \notin F) <=>
         /\ route.priceImpact < 100 /\ slippage < 100
         /\ route.gas < 50 /\ route.hops < 3
  BY <1>2, <1>3
<1> QED BY <1>4, <1>5, <1>6, <1>7, <1>8, <1>9 DEF LevelByThresholds

\* Along any behaviour, a quote that is worse than the one before it is not safer.
THEOREM AlwaysWorseIsNeverSafer == [](route \in Routes /\ slippage \in Nat) => WorseIsNeverSafer
<1>1. ASSUME route \in Routes, slippage \in Nat, (route \in Routes)', (slippage \in Nat)'
      PROVE  [ (\A f \in DOMAIN route : route[f] = Unknown <=> route'[f] = Unknown)
               /\ (\A f \in DOMAIN route : route[f] <= route'[f])
               /\ slippage <= slippage'
                 => level <= level' ]_vars
  <2> SUFFICES ASSUME \A f \in DOMAIN route : route[f] <= route'[f], slippage <= slippage'
               PROVE  level <= level'
    OBVIOUS
  <2>1. DOMAIN route = {"priceImpact", "gas", "hops"} BY <1>1 DEF Routes
  <2>2. /\ route.priceImpact <= route'.priceImpact /\ route.gas <= route'.gas
        /\ route.hops <= route'.hops
    BY <2>1
  <2> QED BY <1>1, <2>2, WorseRouteIsNeverSafer DEF level
<1> QED BY <1>1, PTL DEF WorseIsNeverSafer
=============================================================================
