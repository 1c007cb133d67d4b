--------------------------- MODULE SwapSelection ---------------------------
(***************************************************************************)
(* From a shown quote to an execution row: the intent and its options, the *)
(* one-time selection token of each option, the risk gate, and the         *)
(* in-memory confirmation a high-risk route asks for, while the users      *)
(* change the settings the gate reads (UserSettings).  A request is one    *)
(* button press or text handled by the bot; requests run concurrently and  *)
(* await the database between their steps.  A selection token is named by  *)
(* its option, a confirmation token by the request that created it.        *)
(* A definition A_Mutation is a plausible mistake in A; no specification   *)
(* uses it, it only shows that a property can fail.                        *)
(***************************************************************************)
EXTENDS RouteRisk, UserSettings

CONSTANTS Intents, Aggregators,
          Owner,          \* user_id of each intent
          Route,          \* the figures of each aggregator's stored quote
          QuoteTtl,       \* SWAP_TIMEOUT_SECONDS, in ticks of the clock
          ConfirmTtl,     \* RISK_CONFIRMATION_TTL_MS, in ticks of the clock
          MaxTime,        \* bound on the clock
          MaxCrashes      \* bound on restarts

ASSUME OwnerAssumption == Owner \in [Intents -> Users]
ASSUME RouteAssumption == Route \in [Aggregators -> Routes]
ASSUME TimeAssumption == QuoteTtl \in Nat /\ ConfirmTtl \in Nat /\ MaxTime \in Nat
ASSUME CrashAssumption == MaxCrashes \in Nat

VARIABLES
    now,
    intents,        \* swap_intents rows: status, expiresAt, selected aggregator
    consumed,       \* swap_intent_options with consumed_at, as <<intent, aggregator>>
    confirmations,  \* pendingRiskConfirmations: token -> stored data
    executions,     \* swap_executions rows
    crashes

selectionVars == <<now, intents, consumed, confirmations, executions, crashes>>
vars == <<selectionVars, settingsVars, requests>>

NoIntent == [status |-> "none", expiresAt |-> 0, selected |-> {}]
NoRequest == [pc |-> "idle"]

Init ==
    /\ now = 0
    /\ intents = [i \in Intents |-> NoIntent]
    /\ consumed = {}
    /\ SettingsInit
    /\ requests = [r \in Requests |-> NoRequest]
    /\ confirmations = <<>>
    /\ executions = {}
    /\ crashes = 0

OptionOf(r) == <<requests[r].intent, requests[r].aggregator>>

-----------------------------------------------------------------------------
(* The surroundings: time, a new quote, the audit trail.                    *)

Tick ==
    /\ now < MaxTime
    /\ now' = now + 1
    /\ UNCHANGED <<intents, consumed, settingsVars, requests, confirmations, executions, crashes>>

\* /swap: the user's row; createIntent, the intent and one option per successful
\* quote, in one transaction.
CreateIntent(i) ==
    /\ intents[i].status = "none"
    /\ intents' = [intents EXCEPT ![i] =
          [status |-> "pending", expiresAt |-> now + QuoteTtl, selected |-> {}]]
    /\ UpsertUser(Owner[i])
    /\ UNCHANGED <<now, consumed, settings, questions, requests, confirmations, executions, crashes>>

\* The audit service writes the status of an intent that has an execution
\* (SwapExecution models those writes and their order).
AuditIntent(i) ==
    /\ \E x \in executions : x.choice.intent = i
    /\ \E s \in {"session_created", "completed", "failed"} :
          intents' = [intents EXCEPT ![i].status = s]
    /\ UNCHANGED <<now, consumed, settingsVars, requests, confirmations, executions, crashes>>

-----------------------------------------------------------------------------
(* Selecting an option: consumeSelectionToken and what follows.             *)

\* Any user who sees the button may press it.
PressOption(r, u, i, a) ==
    /\ requests[r].pc = "idle"
    /\ intents[i].status # "none"
    /\ Put(r, [pc |-> "read", user |-> u, intent |-> i, aggregator |-> a])
    /\ UNCHANGED <<now, intents, consumed, settingsVars, confirmations, executions, crashes>>

\* toConsumedIntent: whatever is not a claim of the whole intent is refused.
Refuse(r) == Goto(r, "rejected")

\* The transaction's SELECT and the decision taken on it.
ReadOption(r) ==
    /\ requests[r].pc = "read"
    /\ LET i == requests[r].intent IN
         CASE Owner[i] # requests[r].user -> Refuse(r)
           [] Owner[i] = requests[r].user /\ OptionOf(r) \in consumed -> Refuse(r)
           [] OTHER -> Goto(r, IF intents[i].expiresAt <= now THEN "expire" ELSE "claim")
    /\ UNCHANGED <<now, intents, consumed, settingsVars, confirmations, executions, crashes>>

\* The transaction commits 'expired', whatever the status is by now.
ExpireIntent(r) ==
    /\ requests[r].pc = "expire"
    /\ intents' = [intents EXCEPT ![requests[r].intent].status = "expired"]
    /\ Refuse(r)
    /\ UNCHANGED <<now, consumed, settingsVars, confirmations, executions, crashes>>

\* The transaction commits its two updates; neither is guarded, so a concurrent
\* claim that read the same unconsumed row commits too.
ClaimOption(r) ==
    /\ requests[r].pc = "claim"
    /\ consumed' = consumed \cup {OptionOf(r)}
    /\ intents' = [intents EXCEPT ![requests[r].intent].status = "selected",
                                  ![requests[r].intent].selected = {requests[r].aggregator}]
    /\ Goto(r, "assess")
    /\ UNCHANGED <<now, settingsVars, confirmations, executions, crashes>>

ResolveSlippage(u) ==
    LET slippage == GetSettings(u).slippage
    IN IF slippage > 0 THEN slippage ELSE DefaultSlippage

NotExpired_Any(c) == TRUE

\* A stored confirmation is still valid at its last tick.
NotExpired(c) == now <= c.expiresAt

\* storeRiskConfirmation: expired entries leave, the new one enters.
StoreRiskConfirmation(r, data) ==
    LET kept == {t \in DOMAIN confirmations : NotExpired(confirmations[t])}
    IN  confirmations' = [t \in kept \cup {r} |-> IF t = r THEN data ELSE confirmations[t]]

\* getSettings, evaluate, and the three ways on.
AssessRoute(r) ==
    /\ requests[r].pc = "assess"
    /\ LET s == ResolveSlippage(requests[r].user)
           level == EvaluateRouteRisk(Route[requests[r].aggregator], s)
           choice == [user |-> requests[r].user, intent |-> requests[r].intent,
                      aggregator |-> requests[r].aggregator, slippage |-> s]
       IN  \/ /\ level = Blocked
              /\ Goto(r, "blocked")
              /\ UNCHANGED confirmations
           \/ /\ level = High
              /\ StoreRiskConfirmation(r, [choice |-> choice, expiresAt |-> now + ConfirmTtl])
              /\ Put(r, [pc |-> "offered", at |-> now])
           \/ /\ level < High
              /\ Put(r, [pc |-> "create", choice |-> choice, claim |-> r,
                         confirmed |-> FALSE, at |-> now])
              /\ UNCHANGED confirmations
    /\ UNCHANGED <<now, intents, consumed, settingsVars, executions, crashes>>

-----------------------------------------------------------------------------
(* Confirming a high-risk route: confirmRiskySwap.                          *)

Taken(t) == [x \in DOMAIN confirmations \ {t} |-> confirmations[x]]

Proceed(r, t, choice) ==
    Put(r, [pc |-> "create", choice |-> choice, claim |-> t, confirmed |-> TRUE, at |-> now])

Confirm_AnyUser(r, u, t) ==
    /\ confirmations' = Taken(t)
    /\ IF NotExpired(confirmations[t])
         THEN Proceed(r, t, [confirmations[t].choice EXCEPT !.user = u])
         ELSE Put(r, [pc |-> "rejected"])

Confirm_CurrentSlippage(r, u, t) ==
    /\ confirmations' = Taken(t)
    /\ IF confirmations[t].choice.user = u /\ NotExpired(confirmations[t])
         THEN Proceed(r, t, [confirmations[t].choice EXCEPT !.slippage = ResolveSlippage(u)])
         ELSE Put(r, [pc |-> "rejected"])

Confirm_Kept(r, u, t) ==
    /\ UNCHANGED confirmations
    /\ IF confirmations[t].choice.user = u /\ NotExpired(confirmations[t])
         THEN Proceed(r, t, confirmations[t].choice)
         ELSE Put(r, [pc |-> "rejected"])

\* consumeRiskConfirmation: the entry goes before it is checked, so a press by
\* another user burns it.
Confirm(r, u, t) ==
    /\ confirmations' = Taken(t)
    /\ IF confirmations[t].choice.user = u /\ NotExpired(confirmations[t])
         THEN Proceed(r, t, confirmations[t].choice)
         ELSE Put(r, [pc |-> "rejected"])

PressConfirm(r, u, t) ==
    /\ requests[r].pc = "idle"
    /\ requests[t].pc = "offered"
    /\ IF t \in DOMAIN confirmations
         THEN Confirm(r, u, t)
         ELSE Put(r, [pc |-> "rejected"]) /\ UNCHANGED confirmations
    /\ UNCHANGED <<now, intents, consumed, settingsVars, executions, crashes>>

\* createExecution: INSERT the row (SwapExecution goes on from here).
CreateExecution(r) ==
    /\ requests[r].pc = "create"
    /\ executions' = executions \cup
          {[id |-> r, claim |-> requests[r].claim, confirmed |-> requests[r].confirmed,
            at |-> requests[r].at, choice |-> requests[r].choice]}
    /\ Goto(r, "executed")
    /\ UNCHANGED <<now, intents, consumed, settingsVars, confirmations, crashes>>

-----------------------------------------------------------------------------
Done == {"idle", "rejected", "blocked", "offered", "executed", "lost",
         "asked", "saved", "unsaved"}

\* A restart drops the requests under way, every confirmation and question.
Crash ==
    /\ crashes < MaxCrashes
    /\ crashes' = crashes + 1
    /\ requests' = [r \in Requests |->
          IF requests[r].pc \in Done THEN requests[r] ELSE [pc |-> "lost"]]
    /\ confirmations' = <<>>
    /\ UNCHANGED <<now, intents, consumed, settingsVars, executions>>

Next ==
    \/ Tick
    \/ \E u \in Users : OpenMenu(u) /\ UNCHANGED selectionVars
    \/ \E r \in Requests : SettingsStep(r) /\ UNCHANGED selectionVars
    \/ \E i \in Intents : CreateIntent(i) \/ AuditIntent(i)
    \/ \E r \in Requests :
          \/ \E u \in Users, i \in Intents, a \in Aggregators : PressOption(r, u, i, a)
          \/ \E u \in Users, t \in Requests : PressConfirm(r, u, t)
          \/ ReadOption(r) \/ ExpireIntent(r) \/ ClaimOption(r) \/ AssessRoute(r)
          \/ CreateExecution(r)
    \/ Crash

Spec == Init /\ [][Next]_vars

-----------------------------------------------------------------------------
(* Properties.                                                              *)

Choices == [user : Users, intent : Intents, aggregator : Aggregators,
            slippage : ChosenSlippages \cup {DefaultSlippage}]

\* A request, by what it is busy with.
PressRecords ==
    [pc : {"read", "expire", "claim", "assess", "rejected", "blocked"},
     user : Users, intent : Intents, aggregator : Aggregators]
OfferRecords == [pc : {"offered"}, at : 0..MaxTime]
CreateRecords ==
    [pc : {"create", "executed"}, choice : Choices, claim : Requests,
     confirmed : BOOLEAN, at : 0..MaxTime]
RequestRecords ==
    [pc : {"idle", "rejected", "lost", "asked"}]
      \cup PressRecords \cup OfferRecords \cup CreateRecords \cup ChangeRecords

TypeOK ==
    /\ now \in 0..MaxTime
    /\ intents \in [Intents ->
          [status : {"none", "pending", "selected", "expired", "session_created",
                     "completed", "failed"},
           expiresAt : 0..(MaxTime + QuoteTtl), selected : SUBSET Aggregators]]
    /\ consumed \subseteq Intents \X Aggregators
    /\ SettingsTypeOK
    /\ requests \in [Requests -> RequestRecords]
    /\ \A t \in DOMAIN confirmations :
          t \in Requests /\ confirmations[t] \in [choice : Choices,
                                                 expiresAt : 0..(MaxTime + ConfirmTtl)]
    /\ executions \subseteq [id : Requests, claim : Requests, confirmed : BOOLEAN,
                              at : 0..MaxTime, choice : Choices]
    /\ crashes \in 0..MaxCrashes

\* Only the owner of an intent ever gets an execution of it, although anybody
\* who sees the buttons of a chat may press them.
ExecutionByOwner == \A x \in executions : x.choice.user = Owner[x.choice.intent]

\* rdr-2: what a blocked route asks for never becomes an execution, and a high
\* one only through its confirmation; the slippage executed is the assessed one,
\* however the user's setting changed since.
RiskGate ==
    \A x \in executions :
        LET level == EvaluateRouteRisk(Route[x.choice.aggregator], x.choice.slippage)
        IN  level < High \/ (level = High /\ x.confirmed)

\* One press of an option leads to at most one execution, directly or through
\* one use of its confirmation button.
OneExecutionPerClaim ==
    \A x, y \in executions : x.claim = y.claim => x = y

\* A confirmation pressed too late creates nothing.
ConfirmationIsFresh ==
    \A x \in executions : x.confirmed => x.at <= requests[x.claim].at + ConfirmTtl

\* "invalid or already used aggregator choice": a selection token that
\* is used is refused, so no two executions come from one option.
OptionUsedOnce ==
    \A x, y \in executions :
        (x.choice.intent = y.choice.intent /\ x.choice.aggregator = y.choice.aggregator)
            => x = y

-----------------------------------------------------------------------------
(* The inductive invariant: what a request, a confirmation and an execution *)
(* know of each other.                                                      *)

Passes(choice, confirmed) ==
    LET level == EvaluateRouteRisk(Route[choice.aggregator], choice.slippage)
    IN  level < High \/ (level = High /\ confirmed)

\* Past the SELECT a request is the owner's; what goes on to be executed has
\* passed the gate, over a claim of its own or a confirmation it has used up.
RequestInv ==
    \A r \in Requests :
        /\ requests[r].pc \in {"expire", "claim", "assess"} =>
              requests[r].user = Owner[requests[r].intent]
        /\ requests[r].pc \in {"create", "executed"} =>
              LET claim == requests[r].claim
              IN  /\ requests[r].choice.user = Owner[requests[r].choice.intent]
                  /\ Passes(requests[r].choice, requests[r].confirmed)
                  /\ ~requests[r].confirmed => claim = r
                  /\ requests[r].confirmed =>
                        /\ requests[claim].pc = "offered"
                        /\ claim \notin DOMAIN confirmations
                        /\ requests[r].at <= requests[claim].at + ConfirmTtl

\* A claim is executed, or about to be, by one request.
ClaimInv ==
    \A q, r \in Requests :
        {requests[q].pc, requests[r].pc} \subseteq {"create", "executed"}
            /\ requests[q].claim = requests[r].claim => q = r

\* A confirmation is of a request that offered it, to the owner of the intent.
ConfirmationInv ==
    \A t \in DOMAIN confirmations :
        LET choice == confirmations[t].choice
        IN  /\ requests[t].pc = "offered"
            /\ confirmations[t].expiresAt = requests[t].at + ConfirmTtl
            /\ choice.user = Owner[choice.intent]
            /\ EvaluateRouteRisk(Route[choice.aggregator], choice.slippage) = High

\* An execution is the one of its request.
ExecutionInv ==
    \A x \in executions :
        /\ requests[x.id].pc = "executed"
        /\ x = [id |-> x.id, claim |-> requests[x.id].claim,
                confirmed |-> requests[x.id].confirmed,
                at |-> requests[x.id].at, choice |-> requests[x.id].choice]

IInv == TypeOK /\ ChangeInv /\ RequestInv /\ ClaimInv /\ ConfirmationInv /\ ExecutionInv
=============================================================================
