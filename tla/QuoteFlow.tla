----------------------------- MODULE QuoteFlow -----------------------------
(***************************************************************************)
(* Quotes from a request to the transaction: /price (src/price), which     *)
(* keeps answers in a cache that all users share and asks the aggregator   *)
(* the user prefers, and /swap (src/swap/swap.quotes.service.ts), which    *)
(* asks them all and stores the quotes with the intent.  A pressed option  *)
(* is built with the fee that was stored with it, perhaps by a process     *)
(* that was started since with another configuration.  A request's steps   *)
(* are split at every await; the answers of the aggregators it waits for   *)
(* come in any order, or not at all.  Who may press what, and how often,   *)
(* is in SwapSelection.                                                    *)
(* A definition A_Mutation is a plausible mistake in A; no specification   *)
(* uses it, it only shows that a property can fail.                        *)
(***************************************************************************)
EXTENDS QuoteMonetization, Sequences, FiniteSets, Functions

CONSTANTS
    Users,
    Requests,       \* commands given to the bot
    Pairs,          \* [chain, from, to] of the commands, with their amount in
    SellAmount,     \* the amount of every command, in base units
    Preferences,    \* preferredAggregator, as the settings menu offers it
    Environments,   \* the configurations somebody may start the process with
    Bodies,         \* answers each aggregator may give, by aggregator
    MaxRestarts     \* bound on restarts

ASSUME SellAmountAssumption == SellAmount \in Nat \ {0}
ASSUME EnvironmentsAssumption == Environments \subseteq FeeEnvironments
ASSUME BodiesAssumption == \A a \in Aggregators : Bodies[a] \subseteq BodyRecords(a)
ASSUME RestartsAssumption == MaxRestarts \in Nat

VARIABLES
    env,          \* the configuration of the running process
    preferred,    \* preferredAggregator of each user
    cache,        \* /price answers by key
    requests,
    restarts

flowVars == <<env, preferred, cache, requests, restarts>>

\* The quotes as sorted, and the request they were fetched for.
NoAnswer == [pair |-> <<>>, quotes |-> <<>>]
NothingAsked == [a \in Aggregators |-> NoFee]

NoRequest == [pc |-> "idle", kind |-> "none", user |-> "none", pair |-> <<>>,
              preference |-> "auto", pending |-> {}, quotes |-> {}, answer |-> NoAnswer,
              asked |-> NothingAsked, sent |-> NoFee, chosen |-> "none"]

FlowInit ==
    /\ env \in {e \in Environments : ValidateFeeEnvironment(e)}
    /\ preferred = [u \in Users |-> "auto"]
    /\ cache = <<>>
    /\ requests = [r \in Requests |-> NoRequest]
    /\ restarts = 0

At(r, pc) == requests[r].pc = pc
Goto(r, pc) == requests' = [requests EXCEPT ![r].pc = pc]

-----------------------------------------------------------------------------
(* Ranking and selection.                                                  *)

Priority == [a \in Aggregators |->
    CASE a = "0x" -> 0 [] a = "paraswap" -> 1 [] a = "odos" -> 2 [] a = "jupiter" -> 3]

\* An unreported gas figure is infinite.
CheaperGas(p, q) ==
    p.gas # Unreported /\ (q.gas = Unreported \/ p.gas < q.gas)

CompareQuotes_ByGross(p, q) == p.gross > q.gross

CompareQuotes(p, q) ==
    \/ p.net > q.net
    \/ p.net = q.net /\ CheaperGas(p, q)
    \/ /\ p.net = q.net /\ p.gas = q.gas
       /\ Priority[p.aggregator] < Priority[q.aggregator]

\* The comparison leaves quotes of different aggregators one order.
SortQuotes(quotes) ==
    {s \in [1..Cardinality(quotes) -> quotes] :
        \A i, j \in DOMAIN s : i < j => CompareQuotes(s[i], s[j])}

NormalizedPreference(preference) == IF preference = "zerox" THEN "0x" ELSE preference

\* Empty where getAggregatorsToQuery throws: nobody trades on the chain, or the
\* preferred aggregator does not.
AggregatorsToQuery(chain, preference) ==
    {a \in Aggregators :
        /\ chain \in SupportedChains(a)
        /\ preference = "auto" \/ a = NormalizedPreference(preference)}

BuildCacheKey_Shared(pair, preference) == <<pair, "auto">>

\* The key of an "auto" answer carries no preference.
BuildCacheKey(pair, preference) == <<pair, preference>>

-----------------------------------------------------------------------------
(* Requests.                                                               *)

\* prepare: the amount and the tokens are resolved.
Ask(r, u, kind, pair) ==
    /\ At(r, "idle")
    /\ requests' = [requests EXCEPT ![r] = [NoRequest EXCEPT
            !.pc = IF kind = "price" THEN "settings" ELSE "fetching",
            !.kind = kind, !.user = u, !.pair = pair]]
    /\ UNCHANGED <<env, preferred, cache, restarts>>

\* Every aggregator is asked at once, each with the fee of its policy.
StartFetching(r, preference) ==
    LET pair == requests[r].pair
        names == AggregatorsToQuery(pair.chain, preference)
    IN requests' = [requests EXCEPT ![r] = [@ EXCEPT
            !.pc = IF names = {} THEN "failed" ELSE "polling",
            !.preference = preference,
            !.pending = names,
            !.asked = [a \in Aggregators |-> QuoteFeeParams(a, GetPolicy(env, a, pair))]]]

\* getSwapQuotes passes no preference on.
FetchForSwap(r) ==
    /\ At(r, "fetching")
    /\ StartFetching(r, "auto")
    /\ UNCHANGED <<env, preferred, cache, restarts>>

\* getBestQuote, from the settings it read to the cache or the fetch.
ReadSettings(r) ==
    LET preference == preferred[requests[r].user]
        key == BuildCacheKey(requests[r].pair, preference)
    IN /\ At(r, "settings")
       /\ IF key \in DOMAIN cache
          THEN requests' = [requests EXCEPT ![r].pc = "logging",
                                            ![r].preference = preference,
                                            ![r].answer = cache[key]]
          ELSE StartFetching(r, preference)
       /\ UNCHANGED <<env, preferred, cache, restarts>>

\* fetchAggregatorQuote, when an aggregator answers: a mapper that throws
\* leaves no quote.
AggregatorAnswers(r, a, body) ==
    LET policy == GetPolicy(env, a, requests[r].pair)
        quote == ApplyPolicy(ToQuote(a, body, policy), policy, SellAmount)
    IN /\ At(r, "polling")
       /\ a \in requests[r].pending
       /\ requests' = [requests EXCEPT
              ![r].pending = @ \ {a},
              ![r].quotes = IF Usable(a, body, policy) THEN @ \cup {quote} ELSE @]
       /\ UNCHANGED <<env, preferred, cache, restarts>>

\* An HTTP error, a time-out or a body of another shape: a rejected promise.
AggregatorFails(r, a) ==
    /\ At(r, "polling")
    /\ a \in requests[r].pending
    /\ requests' = [requests EXCEPT ![r].pending = @ \ {a}]
    /\ UNCHANGED <<env, preferred, cache, restarts>>

AnswersOf(r) == [pair : {requests[r].pair}, quotes : SortQuotes(requests[r].quotes)]

AllSettled(r) == At(r, "polling") /\ requests[r].pending = {}

NoQuotes(r) ==
    /\ AllSettled(r)
    /\ requests[r].quotes = {}
    /\ Goto(r, "failed")
    /\ UNCHANGED <<env, preferred, cache, restarts>>

SaveCached(key, answer) ==
    cache' = [k \in DOMAIN cache \cup {key} |-> IF k = key THEN answer ELSE cache[k]]

\* The rest of getBestQuote up to the log, which the answer waits for.
RankForPrice(r) ==
    /\ AllSettled(r)
    /\ requests[r].quotes # {}
    /\ requests[r].kind = "price"
    /\ \E answer \in AnswersOf(r) :
          /\ SaveCached(BuildCacheKey(requests[r].pair, requests[r].preference), answer)
          /\ requests' = [requests EXCEPT ![r].pc = "logging", ![r].answer = answer]
    /\ UNCHANGED <<env, preferred, restarts>>

\* createIntent stores every quote, with its fee, as an option.
RankForSwap(r) ==
    /\ AllSettled(r)
    /\ requests[r].quotes # {}
    /\ requests[r].kind = "swap"
    /\ \E answer \in AnswersOf(r) :
          requests' = [requests EXCEPT ![r].pc = "offered", ![r].answer = answer]
    /\ UNCHANGED <<env, preferred, cache, restarts>>

\* logSuccess; when its insert is rejected the user gets an error instead of the
\* answer, which stays in the cache.
LogSuccess(r) ==
    /\ At(r, "logging")
    /\ Goto(r, "answered")
    /\ UNCHANGED <<env, preferred, cache, restarts>>

LogFails(r) ==
    /\ At(r, "logging")
    /\ Goto(r, "failed")
    /\ UNCHANGED <<env, preferred, cache, restarts>>

-----------------------------------------------------------------------------
(* A pressed option.                                                       *)

OptionOf(r, a) == CHOOSE q \in Range(requests[r].answer.quotes) : q.aggregator = a

FeeOfOption_Current(r, a) == GetPolicy(env, a, requests[r].pair)

\* buildSwapPayload takes the fee from the snapshot.
FeeOfOption(r, a) == OptionOf(r, a).executionFee

\* buildSwapTransaction asks for the route again, now to be signed.
BuildSwapTransaction(r, a, body) ==
    /\ At(r, "offered")
    /\ a \in {q.aggregator : q \in Range(requests[r].answer.quotes)}
    /\ Builds(a, body, FeeOfOption(r, a))
    /\ requests' = [requests EXCEPT ![r].pc = "sent", ![r].chosen = a,
                                    ![r].sent = SwapFeeParams(a, FeeOfOption(r, a))]
    /\ UNCHANGED <<env, preferred, cache, restarts>>

\* The service fails or its answer is of no use: the execution ends in error
\* (SwapExecution), and the other options are still there.
BuildFails(r, a) ==
    /\ At(r, "offered")
    /\ a \in {q.aggregator : q \in Range(requests[r].answer.quotes)}
    /\ requests' = [requests EXCEPT ![r].pc = "unsent", ![r].chosen = a]
    /\ UNCHANGED <<env, preferred, cache, restarts>>

-----------------------------------------------------------------------------
(* Around the requests.                                                    *)

SetPreferred(u, preference) ==
    /\ preferred' = [preferred EXCEPT ![u] = preference]
    /\ UNCHANGED <<env, cache, requests, restarts>>

\* CACHE_TTL_PRICE
ExpireCached(key) ==
    /\ key \in DOMAIN cache
    /\ cache' = [k \in DOMAIN cache \ {key} |-> cache[k]]
    /\ UNCHANGED <<env, preferred, requests, restarts>>

InMemory == {"settings", "fetching", "polling", "logging"}

\* The cache and the running requests are gone, intents and settings are not.
Restart(e) ==
    /\ restarts < MaxRestarts
    /\ ValidateFeeEnvironment(e)
    /\ env' = e
    /\ cache' = <<>>
    /\ requests' = [r \in Requests |->
            IF requests[r].pc \in InMemory THEN [requests[r] EXCEPT !.pc = "failed"]
            ELSE requests[r]]
    /\ restarts' = restarts + 1
    /\ UNCHANGED preferred

RequestStep(r) ==
    \/ \E u \in Users, kind \in {"price", "swap"}, pair \in Pairs : Ask(r, u, kind, pair)
    \/ ReadSettings(r) \/ FetchForSwap(r)
    \/ \E a \in Aggregators :
          \/ \E body \in Bodies[a] : AggregatorAnswers(r, a, body)
          \/ AggregatorFails(r, a)
          \/ \E body \in Bodies[a] : BuildSwapTransaction(r, a, body)
          \/ BuildFails(r, a)
    \/ NoQuotes(r) \/ RankForPrice(r) \/ RankForSwap(r)
    \/ LogSuccess(r) \/ LogFails(r)

FlowNext ==
    \/ \E r \in Requests : RequestStep(r)
    \/ \E u \in Users, p \in Preferences : SetPreferred(u, p)
    \/ \E key \in DOMAIN cache : ExpireCached(key)
    \/ \E e \in Environments : Restart(e)

FlowSpec == FlowInit /\ [][FlowNext]_flowVars

-----------------------------------------------------------------------------
(* Properties.                                                             *)

AnswerQuotes(r) == Range(requests[r].answer.quotes)

Balanced(q) ==
    IF q.executionFee.side = "buy"
    THEN q.gross - q.net = q.fee \/ (q.fee >= q.gross /\ q.net = q.gross)
    ELSE q.net = q.gross

\* A /price answer, fresh or from the cache that all users share, is about the
\* pair that was asked for and comes from the aggregator its user preferred when
\* the settings were read (PriceService.getBestQuote).
OwnPreference ==
    \A r \in Requests : At(r, "answered") =>
        /\ requests[r].answer.pair = requests[r].pair
        /\ requests[r].preference # "auto" =>
              \A q \in AnswerQuotes(r) :
                  q.aggregator = NormalizedPreference(requests[r].preference)

\* Whatever order the aggregators answered in, the quote called the best pays
\* the user no less after fees than any other, and at equal amounts none that
\* reports less gas is behind it (PriceRankingService.sortQuotes).
BestIsFirst ==
    \A r \in Requests :
        LET sorted == requests[r].answer.quotes
        IN \A i, j \in DOMAIN sorted : i < j =>
              /\ sorted[i].net >= sorted[j].net
              /\ sorted[i].net = sorted[j].net => ~CheaperGas(sorted[j], sorted[i])

\* What a quote says of its amounts adds up, whichever of the adapter, the
\* provider and the policy took the fee: a fee in the bought token is the
\* difference of gross and net, unless it would eat everything and is dropped;
\* any other fee leaves the bought amount alone (QuoteMonetizationService).
BooksBalance == \A r \in Requests : \A q \in AnswerQuotes(r) : Balanced(q)

\* An execution asks its aggregator for the fee the quote was asked with, also
\* after a restart with another configuration, and pays a fee to nobody but an
\* account that is configured (SwapIntentService.createIntent, buildSwapPayload).
ChargedAsQuoted ==
    \A r \in Requests : At(r, "sent") =>
        LET sent == requests[r].sent
            asked == requests[r].asked[requests[r].chosen]
        IN /\ sent.bps = asked.bps
           /\ asked.payee # Unset => sent.payee = asked.payee
           /\ sent.bps > 0 => sent.payee # Unset

-----------------------------------------------------------------------------
(* The inductive invariant: what a quote, an answer and a cached answer     *)
(* keep of the request they were made for.                                  *)

RequestPc ==
    {"idle", "settings", "fetching", "polling", "logging", "offered", "answered", "failed",
     "sent", "unsent"}

AnswerRecords == [pair : Pairs \cup {<<>>}, quotes : Seq(QuoteRecords)]

RequestRecords ==
    [pc : RequestPc, kind : {"none", "price", "swap"}, user : Users \cup {"none"},
     pair : Pairs \cup {<<>>}, preference : Preferences \cup {"auto"},
     pending : SUBSET Aggregators, quotes : SUBSET QuoteRecords, answer : AnswerRecords,
     asked : [Aggregators -> FeeParams],
     sent : FeeParams, chosen : Aggregators \cup {"none"}]

TypeOK ==
    /\ env \in FeeEnvironments
    /\ preferred \in [Users -> Preferences \cup {"auto"}]
    /\ DOMAIN cache \subseteq Pairs \X (Preferences \cup {"auto"})
    /\ \A key \in DOMAIN cache : cache[key] \in AnswerRecords
    /\ requests \in [Requests -> RequestRecords]
    /\ restarts \in 0..MaxRestarts

\* A quote of an aggregator that was to be asked; what it says adds up.
GoodQuote(q, pair, preference) ==
    q.aggregator \in AggregatorsToQuery(pair.chain, preference) /\ Balanced(q)

GoodAnswer(answer, pair, preference) ==
    /\ answer.pair = pair
    /\ \A i \in DOMAIN answer.quotes : GoodQuote(answer.quotes[i], pair, preference)
    /\ \A i, j \in DOMAIN answer.quotes :
          i < j => CompareQuotes(answer.quotes[i], answer.quotes[j])

\* The fee a quote carries is the one it was asked with, and has a payee.
AskedWith(q, asked) ==
    /\ QuoteFeeParams(q.aggregator, q.executionFee) = asked[q.aggregator]
    /\ q.executionFee.bps > 0 => q.executionFee.payee # Unset

\* While a request polls, the process has the configuration it asked with.
PollingInv(request, e) ==
    request.pc = "polling" =>
        /\ \A a \in Aggregators :
              request.asked[a] = QuoteFeeParams(a, GetPolicy(e, a, request.pair))
        /\ request.pending \subseteq AggregatorsToQuery(request.pair.chain, request.preference)

QuotesInv(request) ==
    /\ IsFiniteSet(request.quotes)
    /\ \A q \in request.quotes :
          GoodQuote(q, request.pair, request.preference) /\ AskedWith(q, request.asked)
    /\ request.pc \in {"idle", "settings", "fetching"} =>
          request.quotes = {} /\ request.answer = NoAnswer

AnswerInv(request) ==
    /\ \/ request.answer = NoAnswer
       \/ GoodAnswer(request.answer, request.pair, request.preference)
    /\ request.pc \in {"logging", "answered"} => request.answer.pair = request.pair
    /\ request.pc \in {"offered", "sent", "unsent"} =>
          \A i \in DOMAIN request.answer.quotes : request.answer.quotes[i] \in request.quotes

SentInv(request) ==
    request.pc = "sent" =>
        \E q \in request.quotes :
            /\ request.chosen = q.aggregator
            /\ request.sent = SwapFeeParams(q.aggregator, q.executionFee)

RequestInv(request, e) ==
    /\ request.pc # "idle" => request.user \in Users /\ request.pair \in Pairs
    /\ PollingInv(request, e) /\ QuotesInv(request) /\ AnswerInv(request) /\ SentInv(request)

CacheInv == \A key \in DOMAIN cache : GoodAnswer(cache[key], key[1], key[2])

FlowInv ==
    /\ TypeOK /\ CacheInv
    /\ \A r \in Requests : RequestInv(requests[r], env)
=============================================================================
