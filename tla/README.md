# Swapper bot: a verification project

TLA+ modules, TLC configurations and TLAPS proofs about the Telegram swap bot in
this repository. Paths below are relative to the repository root. `PROJECT.json`
is the index: components, runs, mutants, the map from definitions to source
lines, findings, hazards and theorems.

## 1. The system

A NestJS process with a PostgreSQL database. A user asks for a swap in Telegram,
gets quotes of up to four aggregators as buttons, presses one, approves in a
wallet (WalletConnect for EVM chains, Phantom deep links for Solana), and is told
what became of the transaction. The process is single-threaded but everything
awaits: two button presses, a background runner, timers and HTTP callbacks
interleave at every `await`. It may die at any time and is restarted
(`docker-compose.prod.yml`); only the database survives.

| component | state | operations | correct when |
|---|---|---|---|
| Intents (`src/swap/swap-intent.service.ts`, `src/database/repositories/swap-intents.repository.ts`) | `swap_intents`, `swap_intent_options` (one-time tokens, `consumed_at`), in-memory `pendingRiskConfirmations` | create, consume a token, store and consume a confirmation | only the owner, only once, only in time |
| Route safety (`src/route-safety`) | none | `evaluateRouteRisk` | thresholds, monotone, the gate is never passed |
| Quotes (`src/price`, `src/swap/swap.quotes.service.ts`) | a cache all users share | ask the aggregators, rank, store the quotes with the intent | best net first, the user's own preference, the pair asked for |
| Fees (`src/fees`, `src/config/env.validation.fees.ts`) | none; the configuration | resolve a policy, apply it to a quote | the books balance; charged as quoted |
| Adapters (`src/aggregators`) | none | quote, build a transaction | an answer of no use is no quote |
| Execution and audit (`src/swap/swap.service.ts`, `swap.session.service.ts`, `swap-execution-audit.service.ts`, `src/wallet-connect/wallet-connect.execution.ts`) | `swap_executions`, `swap_intents.status` | create, attach provider reference, mark success or error | rows agree with the wallet; one request per execution |
| WalletConnect sessions (`src/wallet-connect`) | in-memory sessions, approvals, reusable connections, pending actions, each with a TTL | pair, approve, reuse, disconnect, consume | the asked wallet is the user's own; what is dropped or failed stays out |
| Allowance (`src/allowance`) | pending approve actions | check, offer, approve | asked as shown, of whom it was shown to |
| Phantom sessions (`wallet-connect.phantom*.ts`) | the same store, keys and the shared secret | connect callback, sign callback | a broadcast transaction is recorded |
| Tracker (`src/transactions`) | `tracked_transactions`, the `running` flag | track, tick | settled once, announced once, never pending for ever |
| Alerts (`src/alerts`) | `price_alerts`, a pending question per user, the `running` flag | ask, set a threshold, tick | one active alert per favourite, one message, no starvation |
| Favourites, presets (`src/favorites`, `src/trade-presets`) | `favorite_pairs`, `trade_presets`, one-time buttons | save, delete | one row per button, its user's |
| Tokens (`src/tokens`, `src/token-resolution`) | `tokens` | seed, look up, bring in an address | the contract named is the contract traded |
| Settings (`src/settings`, `src/telegram/telegram.settings-*.ts`) | one column of `users`, in-memory questions | read, change one field | the last choice holds |
| The rest | portfolio, asset alerts, history, metrics, health, Telegram parsing and formatting | reads, I/O | |

Interactions: `SwapService` claims an option, evaluates the route, creates the
execution and starts the wallet side **before** it answers and attaches the
session's reference; the runner (or the Phantom callback) writes the same rows;
`TransactionTrackerWorker` polls what the runner inserted and writes the same
execution row; the alert worker and the user's inputs share `price_alerts`;
deleting a favourite cascades into it. `/price` and `/swap` resolve their tokens,
ask the aggregators with the fee of each policy and offer buttons: the options of
an intent, and one-time actions that save the pair. The gate reads the settings a
user may be changing. `/connect`, swaps and approves all look for the same
connection of a user, and `/disconnect` drops it.

What is hard here: unguarded writes of two actors to one row, values read before
an await and used after it, two timers that fire while their last tick still
runs, a rejected await after an irreversible step, restarts that lose the
in-memory half of a protocol, and buttons anybody in a chat may press.

## 2. The modules

| module | models | against |
|---|---|---|
| `TxLifecycle` | the abstract promise of the tracker: pending, settled once, announced at most once afterwards, never pending for ever | `docs/rdr/rdr-2.md`, tracker sources |
| `SwapExecution` | creator, runner, ticks, wallet and chain around the rows of one swap; faults; implements `TxLifecycle` | execution, audit, tracker |
| `SwapExecutionProofs` | theorems about it | |
| `RouteRisk`, `RouteRiskProofs` | the evaluator, its theorems | `route-risk.evaluator.ts` |
| `UserSettings` | menu, question and answer, the read-modify-write of a settings column | settings service, settings handlers, users repository |
| `SwapSelection` | intents, option tokens, confirmations, the gate (EXTENDS `RouteRisk`, `UserSettings`) | intent service and repository, `SwapService` |
| `SwapSelectionProofs` | theorems about it and `UserSettings` | |
| `FeePolicies` | accepted fee configurations and the policy made of them | `config/env.validation.fees.ts`, `src/fees/fee-policy.*` |
| `AggregatorQuotes` | what each adapter asks and what it makes of an answer (EXTENDS `FeePolicies`) | `src/aggregators` |
| `QuoteMonetization` | `applyPolicy` (EXTENDS `AggregatorQuotes`) | `quote-monetization.service.ts` |
| `QuoteFlow` | requests, cache, ranking, build of a pressed option, restarts with another configuration (EXTENDS `QuoteMonetization`) | `src/price`, `swap.quotes.service.ts`, `swap.session.service.ts` |
| `QuoteFlowProofs` | theorems about it and the three modules below it, and about the run's inputs of the evaluator | |
| `TokenResolution` | the tokens table of a chain, the resolution of a command's two tokens | `src/tokens`, `src/token-resolution` |
| `SavedPairs` | the buttons that save a pair, presets and favourites (EXTENDS `TokenResolution`) | `src/trade-presets`, `src/favorites`, session store |
| `SavedPairsProofs` | theorems about both | |
| `PriceAlerts`, `PriceAlertsProofs` | questions for thresholds, their answers, favourites, the alert worker | alerts, favourites |
| `WalletSessions`, `WalletSessionsProofs` | pairing, reuse, disconnect, `/approve` and its buttons, topics on the wallets' side | session store, connection service, orchestrator, `src/allowance` |
| `PhantomSwap`, `PhantomSwapProofs` | the connect and sign callbacks of Solana swaps and of `/connect` over the session store and the rows | `wallet-connect.phantom*.ts`, `solana.chain.ts` |
| `MC*` | small instances for TLC | |

**SwapExecution.** `creator[e]` is the program counter of
`SwapService.executeSwapSession`, `runner[e]` that of
`executeWalletConnectSwap` inside `lifecycle.handle`, `tickPc[t]` that of a
`runTick`. Every database statement is one action: `MarkSuccessExecution` and
`MarkSuccessIntent` are the two updates of `markSuccess`, `TrackInsert` and
`TrackExecution` those of `track`, `SettleTracked` and `SettleExecution` those
of `handleConfirmed` and `handleFailed`. `CatchPc` is the catch block,
`LifecyclePc` the handler around it. A hash is the execution it belongs to. The
wallet (`WalletSends`) may send what it was asked for long after the bot gave up,
or never; the chain (`ChainSettles`) may settle it either way or never; the RPC
may not know a receipt yet (`SeeNoReceipt`). `Age` is the tracking timeout,
`submittedAt` the order in which `listPending` reads. `Crash` keeps the rows and
loses the program counters.

**SwapSelection.** A request is one button press. `ReadOption` and
`ClaimOption`/`ExpireIntent` are the read and the commit of the transaction of
`consumeSelectionToken`, separate because PostgreSQL's default isolation lets
another transaction commit between them. `AssessRoute` is the evaluation and its
three ways on; `PressConfirm` is `confirmRiskySwap` with its delete-then-check
order. Slippage changes at any moment. Gas is in dollars and percentages in
hundredths.

**PriceAlerts.** A threshold input runs through the four awaited queries of
`upsertAlert` and its write; the worker holds `Snapshot`s of rows while they
change. `older` is the order of `updated_at`, as a relation between rows, and
`IsOldest` says that some rows come first in it. `setBy` and `firedFor` are history
variables: nothing reads them but properties.

**PhantomSwap.** A callback is an HTTP request the browser may repeat, so several
run at once on one session. Everything up to the first await of a handler is one
action (`HandleConnect`, `HandleSign`); then each await is one. The session object
outlives its place in the store while a handler holds it: `live` is the store,
`key` the shared secret in the object. A secret is the pair of the session's own key
pair, which does not change, and of the key the wallet brings (`Secrets`): a connect
callback that a browser repeats brings the same key and makes the same secret, another
connection of the wallet brings another. A sign link carries a secret and the
transaction of the connect callback that built it, and its callback is decrypted only
with that secret. `late` (a callback of the same link has ended before) and `again` (the
session had been dropped when a connect callback saved it) are history variables.

**UserSettings.** `ReadSettings` and `PersistSettings` are the two halves of a
change; the second writes the whole record it read. `after` of a change is a
history variable: the changes of its user that had ended when it began, which is
what "the last choice" means. Users start with or without a row; only a trading
command makes one.

**QuoteFlow and below.** `FeePolicies`, `AggregatorQuotes` and `QuoteMonetization`
are operators; an answer of a service is the record of the fields its adapter
reads, and a mapper that throws is a false `Usable`. A policy and its
`executionFee` are one record. `QuoteFlow` holds the requests: `StartFetching`
asks everybody at once, `AggregatorAnswers` and `AggregatorFails` come in any
order, `RankForPrice` fills the cache under its key, `RankForSwap` stores the
quotes, `BuildSwapTransaction` asks again with the stored fee. `Restart` may bring
another configuration. `asked` remembers what fee a quote was asked with. A sort is
any order of the quotes in which the comparison puts no later one before an earlier
one (`SortQuotes`): what is said of the answer is said of each such order.
`FeeEnvironments` and `BodyRecords` are the variables and the answers there can be
at all; a run takes some of them.

**TokenResolution, SavedPairs.** A row is an address with its symbol; an address
is a contract and a spelling, because seeds have checksums, the catalogue answers
in small letters and the table compares letters. An answer without
`contract_address` is stored as it was typed (`ReportedAddresses`). The module has one
chain: both unique keys begin with it. A button is consumed before its handler awaits
anything; `QueryFails` may reject every await after that. The lookup of an address may
reject too, which the code takes for a row that is not there: `ResolveAddress` may then
ask the catalogue about a token that is in the table, also about a seed, and the history
variable `misread` remembers which. A start writes the seeds one by one (`SeedToken`),
each of which the unique symbol may refuse; only when all are written is the process up
(`ModuleInitialised`).

**WalletSessions.** A call is a command, a press or a swap with the runner it
starts. The store keeps a topic per user (`connection`) and approve tokens
(`actions`); a topic has a life of its own in the wallet (`wallet`), which may
approve after the timer, decline, or end it without the bot noticing.

Definitions named `A_Mutation` are mistakes somebody could make in `A`. No
specification uses them; put in the place of `A` they make a property fail.

## 3. What is checked

| run | question | bounds |
|---|---|---|
| `SwapInterleaving` | do rows, messages and chain agree when two executions of one intent and two ticks interleave? | 2 executions of 1 intent (they share the intent row), 2 ticks (one may find the other running), batch of 1 (two rows do not fit), no fault |
| `SwapFaults` | do the same rows survive faults, does the tracker implement `TxLifecycle`, does the runner end? | 1 execution, 2 ticks, 3 faults: one in the try block, one in the catch block, one in a tick or a restart |
| `RouteRisk` | from a command to a fee: is the named token traded, the best quote first, the preference kept, the fee accounted for and charged as quoted, the risk what the thresholds say, a button good for one row? | figures below, at and above each threshold, or unknown; 2 users, 2 requests, an EVM and a Solana pair, 3 configurations and one the start refuses, 2 answers per aggregator or none, 1 restart; 2 seeds, which the catalogue may call otherwise, and a token whose catalogue symbol may be a seed's, 2 presses, 1 preset allowed |
| `SelectionSafety` | who may execute what, once, through which gate, in time; does the last setting hold? | 2 users, 1 intent, 2 routes (one high by its price impact, both blocked by the wide slippage), 3 requests (press, confirm or settings change, one more), a valid and an invalid typed slippage, 1 restart; clock 0..2 with deadlines of 1, so before, at and after |
| `AlertSafety` | one alert, one message, one answer per question, a current decision; is every alert observed? | 2 favourites of a user, 2 questions and 2 answers, prices on both sides, 2 ticks with a batch of 1, 1 fault |
| `PhantomSafety` | is what Solana callbacks record true, and told before; when can a sign link be used after a callback of it has ended? | 2 wallet keys, a `/connect`, and either 2 swaps (the second over the connection the first leaves) with 3 callbacks and 1 fault, or 1 swap with 4 callbacks (connect and sign, each twice: fewer cannot replay a link), no fault |
| `WalletSessions` | is the asked wallet the user's own, for what was shown; does a dropped or failed pairing stay out? | 2 users, 2 chains, 3 calls (pair or offer; press, swap or disconnect; one more that overlaps), 1 fault |
| `HistoryShowsSuccess`, `SettledAuditIsUpdated`, `OptionUsedOnce`, `FiresOnItsTarget`, `NotSentPageIsTrue` | violated: see section 5 | 1 or 2 actors suffice |

The run `RouteRisk` (module `MCQuotes`) checks three parts that share no state: the
evaluator's inputs (`MCRouteRisk`), `QuoteFlow`, and `SavedPairs` with `TokenResolution`
(`MCSavedPairs`). Each moves
only while the other two are in their initial states, so that the states are those
of the three and not of their product, which would say nothing more. Its constraint
`SwapAlone` lets a `/swap`, which shares nothing with another request, be asked
alone, and the restart happen only with one; two `/price` requests, which share the
cache, run together.

In `PhantomSafety` the constraint `LastIsAlone` keeps the fourth callback to executions
with one swap and no fault, and starts it after the other three.

Bounds named in the modules: `MaxFaults`, `MaxCrashes`, `MaxRestarts`,
`MaxSavedRestarts`, `MaxTime`, `MaxPrompts`; `notices` stops at 2 ("more than one"). `MaxPresets`, `MaxActive` and
`BatchSize` are the code's own limits, made small. Deadlock is checked in the runs
of `SwapExecution` and `PriceAlerts`, whose ticks never stop; in the others the
bounded requests, calls, callbacks or clock end. Symmetry is used in safety runs
only, over sets no constant and no `CHOOSE` distinguishes.

Fairness. `SwapExecution!FairSpec`: the runner's own continuations are weakly
fair (an await returns or rejects; a pairing's wait ends by its timer, a wallet
request by the relay's expiry), so are the ticks and the passing of time.
Nothing is assumed of the user, the wallet or the chain, and no fault is
owed. `PriceAlerts!FairSpec`: the ticks only. `ImplementsLifecycle` and
`FirstObservation` need the number of faults to be finite, which `MaxFaults`
states; with a quote that fails for ever the code does starve other alerts
(section 6).

## 4. What is proved

Every safety property of the passing runs is a theorem, for any sets of users,
requests, executions, calls, aggregator answers and so on, and any bounds. Each
module's theorems follow from one inductive invariant, written at the end of the
module it is about (`IInv`, `FlowInv`, `PairsInv`); TLC found each of them to hold on
the instance of the module's run before it was proved. The proofs have one
lemma per action, and one step per conjunct that the action can disturb; `SpecInv`
puts them together.

`SwapExecutionProofs` (`IInv`):

* That a tick never settles a row twice (`SpecNotifiedOnce`) needs that it is the only
  tick (`OneTick`, from the `running` flag), that the rows left in its batch are
  pending (`TickInv`) and that the row it is at is unique, for which positions must be
  distinct (`StampInv`).
* That a tracked row has its hash and a request is sent once
  (`SpecTrackedHashIsRecorded`, `SpecOneWalletRequest`) needs the place of the runner
  to fix what the wallet and the rows hold (`RunnerInv`).
* `SpecRecordedHashWasSent`, `SpecRefusedNeverAsked`, `SpecCompletedIntentHasHash`,
  `SpecAuditFollowsTracker` and `SpecConfirmedIsOnChain` are conjuncts or follow from
  these.
* `SpecImplementsLifecycle`: every step maps to `Submit`, `Settle`, `Notify` or a
  stutter of `TxLifecycle`.

`SwapSelectionProofs` (`IInv`, with `ChangeInv` of `UserSettings`):

* What a press may do is fixed when it passes the owner's check, many awaits before
  the execution: `RequestInv` carries owner, level and deadline along with its place.
  `SpecExecutionByOwner`, `SpecRiskGate` and `SpecConfirmationIsFresh` are read off it
  through `ExecutionInv`.
* `SpecOneExecutionPerClaim` needs that a confirmation in use is stored no more: two
  presses of one confirmation are told apart by its deletion before the first await
  (`ClaimInv`, `ConfirmationInv`).
* `SpecLastChoiceHolds` is the read-modify-write of a settings record. `ReadInv` says
  that the record a change holds is the stored one unless another was saved since it
  began; `AfterInv` that "began after" orders the saved changes; `LastInv` is the
  property with the changes that are still under way taken out. Nothing is claimed of
  changes that overlap: there the code loses one.

`WalletSessionsProofs` (`IInv`): `SpecAskedAsShown`, `SpecDroppedStaysOut` and
`SpecFailedPairingUnused` rest on the ownership of topics (`TopicInv`), of stored
connections (`ConnectionInv`) and of approve tokens (`TokenInv`). That what is asked or
dropped keeps its owner (`HistoryInv`) is needed because the properties look at calls
that have ended.

`PhantomSwapProofs` (`IInv`): the place of a sign callback says what became of its
transaction (`CallInv`), which gives `SpecRecordedHashWasSent`, `SpecTrackedWasTold` and
`SpecSentPageIsTracked` although any number of callbacks run on one session.
`SpecReplayOnlyIfSavedAgain` says under which circumstance a used link works once more,
and that there is no other: neither another wallet key, a reused connection, a
`/connect`, nor a restart brings a dropped session back. It needs `SpentInv`: a session
whose sign callback has ended is in the store only if a connect callback, which was
building meanwhile, has saved it again; `LinkInv` adds that a session is opened once, and
before any of its callbacks. Nothing is assumed of the keys: they may all be equal. That
the circumstance does occur, TLC reaches in the run (section 5).

`PriceAlertsProofs` (`IInv`):

* `SpecOneMessagePerAlert` and `SpecDecisionIsCurrent` need that rows still in the batch
  are told of by nobody and stay as they were listed unless set anew (`BatchInv`),
  that only one tick has rows (`OneTick`) and that none is listed twice (`OlderInv`).
* `SpecOneActivePerFavorite` is the unique index, kept by every write (`ActiveInv`); that
  a request's own row is new needs that it writes once (`WrittenInv`).
* `SpecOneAnswerPerPrompt` counts: unanswered inputs and the pending question are no
  more than the questions put (`QuestionInv`).

`QuoteFlowProofs` (`FlowInv`). From the bottom: a policy is well-formed for every
accepted configuration (`PolicyFacts`), a quote of each adapter has natural amounts
that add up before the policy (`RawFacts`), `applyPolicy` keeps them so whatever its
rate and rounding (`ApplyPolicyBalances`), and a pressed option asks for the fee its
quote was asked with (`SwapFeeAsQuoted`). On top, `FlowInv` carries `GoodQuote` and
`AskedWith` through requests and cache: the quotes of a request are those of
aggregators that were to be asked, with the fee of the configuration of then
(`PollingInv`: a restart ends every request that polls), and cached answers are of
their key's pair and preference (`CacheInv`). `SpecOwnPreference`, `SpecBestIsFirst`,
`SpecBooksBalance` and `SpecChargedAsQuoted` follow.

`SavedPairsProofs` (`PairsInv`): `SpecTradesWhatWasNamed` needs that the seeds never
leave the table and a symbol is in one row (`TableInv`), and that what is asked of the
catalogue is a seed only where a lookup of its row rejected (`CommandInv`). It claims the
meaning of a symbol, and that the row can be written at a start, for the seeds this
never happened to (`SureSeeds`), whatever became of the others; that an address means
its contract it claims of every command. `SpecOneRowPerButton` needs that a button,
the tap that has taken it and the row it made exclude each other (`ButtonIsSpent`), and
that the answer under which the button stands does not change any more (`Answered`).

`RouteRiskProofs` proves for all natural figures that the level is the worst
factor (`WorstFactorDecides`, so the evaluator's choice is defined) and that a
worse route is never graded safer (`WorseRouteIsNeverSafer`). `AnyLevelByThresholds` and
`AlwaysWorseIsNeverSafer` (in `QuoteFlowProofs`) state the run's two properties for every
route and slippage; they are about all inputs, and not only about those of
`MCRouteRisk`'s specification, which are the values around the thresholds.

Assumptions on the constants, named in the modules and evaluated by TLC:

* owners, limits and bounds have their types (`OwnerAssumption`, `LimitAssumption`,
  `TimeAssumption`, `FaultsAssumption` and the like); the names for "none" are not
  members of the sets they are used with;
* `MenuAssumption`, `TypedAssumption`, `AmountAssumption`: the menu's choices, and that
  the parsers let natural numbers pass only, for amounts positive ones;
* `EnvironmentsAssumption`, `BodiesAssumption`: configurations and answers have the
  fields that are read, with natural amounts, as `config/env.validation.parsers.ts`
  and the adapters' mappers make sure. Which of them are accepted is the model's to
  decide, not the assumption's;
* `SeedsAssumption`: the seed of a chain lists no symbol twice, which the unique index
  would refuse at the first start;
* `SpellingAssumption`: an address that is in the seed as the catalogue would spell it
  is typed in that way only. A seed of an EVM chain has a checksum, hence capital
  letters, except the wrapped ether of the two rollups (`0x4200...0006`), which is all
  digits; an address of Solana has one spelling.

Model-checked only, and why:

* `RunnerEnds`, `FirstObservation` and the liveness part of `ImplementsLifecycle`:
  liveness under fairness and ENABLED are not within the provers' reach;
* that `SortQuotes` and the batch of `ListActiveBatch` exist for every set of quotes or
  rows, so that a step that needs them is not blocked: this is an induction on the
  size of a set. The runs show it (they reach the steps after them); the safety
  theorems do not need it;
* the runs of section 5, which show what is not so.

No module declares a RECURSIVE operator.

## 5. Where code and documentation disagree

Each has a run in which TLC finds the behaviour.

* `HistoryShowsSuccess`: `attachProviderReference` runs after the runner was
  started and may overwrite `success` with `session_created`; `/history`
  (README.md:72) then misses the swap.
* `SettledAuditIsUpdated`: the second write of `track` may overwrite the worker's
  result with `pending`, and the row is never visited again (`rdr-2.md:236`).
* `OptionUsedOnce`: two concurrent presses both claim one option, although a used
  choice is to be refused (`swap-intent.service.ts:244`).
* `FiresOnItsTarget`: a threshold acknowledged as set may be closed by the trigger
  of the threshold before it.
* `NotSentPageIsTrue`: when anything fails after a Solana broadcast, the page says
  the swap was not sent (`wallet-connect.controller.ts:91`) and the execution is an
  error without a hash.

Described by the modules as the code has it, without a run of its own:

* A used sign link may broadcast again. A sign callback that was answered has dropped
  its session (`test/wallet-connect/wallet-connect.phantom.service.spec.ts:225`); a
  repeat of the connect callback that was still building saves it again
  (`wallet-connect.phantom.helpers.ts:133`) with the same secret, and a repeat of the
  sign callback is decrypted. `ReplayOnlyIfSavedAgain` is what holds: there is no other
  way.
* The seeds may not be writable at a start
  (`test/tokens/tokens.service.spec.ts:10`, `rdr-1.md:55`). A lookup whose rejection is
  swallowed (`token-address-resolver.service.ts:40`) lets the catalogue rename the row of
  a seed; when another token then takes its symbol, the unique index refuses the seed and
  the process does not start. `TradesWhatWasNamed` is what holds: only seeds this
  happened to are concerned.
* A route of which nothing is reported, as of 0x, is graded by its slippage alone, although
  `rdr-2.md:82` counts the lack of a simulation among the risks; and gas is graded in
  dollars (50 is high, 200 blocked: `route-risk.constants.ts`), where `rdr-2.md:80` asks
  for gas relative to the size of the trade, which the evaluator does not get.
  `LevelByThresholds` states the evaluator's rule, not the document's.

Read and left at that: a confirmed high-risk swap does not look at the expiry of its
quote again (`swap.service.ts:90`); several options of an intent may be executed one
after the other (`swap-intents.repository.ts:127` against README.md:66); the limits of
active alerts and of presets are a count before an insert
(`price-alerts.service.ts:40`, `trade-presets.service.ts:18`); an alert fires when its
threshold is crossed, not when the price is beyond it (README.md:70 against
`price-alerts.service.ts:105`, which the help text follows); settings of a user who
has no row yet are acknowledged and not stored (`users.repository.ts:47`); an approve
transaction is not tracked.

## 6. Not modelled

The cryptography of Phantom's payloads: a payload either is readable with the
session's secret or is not, and equal keys make equal secrets. The contents of transactions, URLs and headers of the
adapters. Telegram parsing, menus and formatting, portfolio, metrics, health and
the variables that are no fees: reads, I/O or constants without interaction.
Repeatable, directed, percentage and asset alerts, and the deletion of presets: no
handler a user reaches creates or calls them. Quotes of the alert worker that fail
for ever: their rows are never touched, so `ALERT_BATCH_SIZE` of them would occupy
every batch; `FirstObservation` is stated for finitely many failures. A rejection of
`listPending` in a tick ends the process (the promise is not caught): it is a `Crash`.
That Telegram refuses a message is only logged; "told" and "announced" in the modules
mean handed to Telegram. What the model of one module takes from another is named at
the action: `AuditIntent` of `SwapSelection` stands for the audit writes of
`SwapExecution`, `CreateSession` of `WalletSessions` for a swap that reaches its
wallet, `AnswerFails` of `SavedPairs` for a `QuoteFlow` without quotes.

## 7. Plan

1. `TxLifecycle` has theorems only as far as `SwapExecution` implements it. Abstract
   specifications of the same kind for two more components, and their refinement,
   proved: a one-time permission (offered, taken once, used once), which the options of
   `SwapSelection`, the buttons of `SavedPairs`, the approve tokens of `WalletSessions`
   and the questions of `PriceAlerts` and `UserSettings` each implement in their own
   way.
2. Action properties that the invariants imply but no run states yet: a consumed
   option, a triggered alert and a dropped topic stay so.
3. Composition: `SwapSelection` feeding `SwapExecution`, with the audit writes of
   the one in place of `AuditIntent` of the other.
4. Lemmas about the fee arithmetic for its own sake: that the comparison of quotes is a
   strict order, that a higher rate never leaves the user more.
