---------------------------- MODULE PriceAlerts ----------------------------
(***************************************************************************)
(* Price alerts on favourite pairs: the bot's question for a threshold,    *)
(* kept in memory and answered by whatever text the user types next, the   *)
(* threshold's way through PriceAlertsService.upsertAlert (four awaited    *)
(* queries and a write), the deletion of a favourite, and                  *)
(* PriceAlertsWorker.runTick, which works on the rows as it listed them    *)
(* while the rows go on changing.  Only fixed alerts exist: no caller      *)
(* creates a repeatable, directed, percentage or asset alert, or cancels   *)
(* one.                                                                    *)
(* An alert is named by the request that inserted it.  A definition        *)
(* A_Mutation is a plausible mistake in A; no specification uses it, it    *)
(* only shows that a property can fail.                                    *)
(***************************************************************************)
EXTENDS Naturals, Sequences, FiniteSets

CONSTANTS Favorites,    \* favorite_pairs ids
          Users,
          Owner,        \* user_id of each favourite
          Requests,     \* threshold inputs
          Targets,      \* thresholds a user may enter
          Prices,       \* best net amounts a quote may return
          Ticks,        \* firings of the worker's interval that may overlap
          None,
          MaxPrompts,   \* bound on the questions put to a user
          MaxActive,    \* MAX_ACTIVE_PRICE_ALERTS_PER_USER
          BatchSize,    \* ALERT_BATCH_SIZE
          MaxFaults     \* bound on rejected awaits and crashes in a behaviour

ASSUME OwnerAssumption == Owner \in [Favorites -> Users]
ASSUME AmountAssumption == Targets \subseteq Nat \ {0} /\ Prices \subseteq Nat \ {0}
ASSUME LimitAssumption == MaxActive \in Nat \ {0} /\ BatchSize \in Nat \ {0}
ASSUME PromptAssumption == None \notin Favorites /\ MaxPrompts \in Nat
ASSUME FaultsAssumption == MaxFaults \in Nat

NoPrice == 0          \* last_observed_net_to_amount is null

VARIABLES
    favorites,    \* "absent", "present" or "deleted"
    alerts,       \* price_alerts rows
    older,        \* the pairs of their ids whose first was updated before the second
    prompts,      \* the favourite of the pending alert-threshold action of a user
    prompted,     \* history: how often a user was asked for a threshold
    requests,     \* the handler of each threshold input
    running,      \* PriceAlertsWorker.running
    ticks,        \* each tick: where it is, the rows left of its batch, the last quote
    announced,    \* thresholds whose message was handed to Telegram, per alert
    faults

questions == <<prompts, prompted>>
vars == <<favorites, alerts, older, questions, requests, running, ticks, announced, faults>>

NoTick == [pc |-> "idle", batch |-> <<>>, net |-> NoPrice]

Init ==
    /\ favorites = [f \in Favorites |-> "absent"]
    /\ alerts = <<>>
    /\ older = {}
    /\ prompts = [u \in Users |-> None]
    /\ prompted = [u \in Users |-> 0]
    /\ requests = [r \in Requests |-> [pc |-> "idle"]]
    /\ running = FALSE
    /\ ticks = [t \in Ticks |-> NoTick]
    /\ announced = [r \in Requests |-> <<>>]
    /\ faults = 0

Active == {a \in DOMAIN alerts : alerts[a].status = "active"}
ActiveOn(f) == {a \in Active : alerts[a].favorite = f}
ActiveOf(u) == {a \in Active : Owner[alerts[a].favorite] = u}

\* updated_at = now
Touch(a) ==
    older' = {p \in older : a \notin {p[1], p[2]}} \cup {<<b, a>> : b \in DOMAIN alerts \ {a}}

Fault == faults < MaxFaults /\ faults' = faults + 1
Goto(r, pc) == requests' = [requests EXCEPT ![r].pc = pc]

-----------------------------------------------------------------------------
(* Favourites.                                                              *)

CreateFavorite(f) ==
    /\ favorites[f] = "absent"
    /\ favorites' = [favorites EXCEPT ![f] = "present"]
    /\ UNCHANGED <<alerts, older, questions, requests, running, ticks, announced, faults>>

\* The foreign key deletes the alerts of the favourite with it.
DeleteFavorite(f) ==
    /\ favorites[f] = "present"
    /\ favorites' = [favorites EXCEPT ![f] = "deleted"]
    /\ LET kept == {a \in DOMAIN alerts : alerts[a].favorite # f}
       IN  /\ alerts' = [a \in kept |-> alerts[a]]
           /\ older' = older \cap (kept \X kept)
    /\ UNCHANGED <<questions, requests, running, ticks, announced, faults>>

-----------------------------------------------------------------------------
(* upsertAlert, from the user's input to the answer.                        *)

\* The alert button of a favourite, in a list shown earlier, perhaps to somebody
\* else.  A user has one pending question; the newest one counts.
HandleFavoriteAlert(u, f) ==
    /\ favorites[f] # "absent"
    /\ prompted[u] < MaxPrompts
    /\ prompts' = [prompts EXCEPT ![u] = f]
    /\ prompted' = [prompted EXCEPT ![u] = @ + 1]
    /\ UNCHANGED <<favorites, alerts, older, requests, running, ticks, announced, faults>>

HandleAlertThresholdInput_Unspent(r, u, target) ==
    /\ requests[r].pc = "idle"
    /\ prompts[u] # None
    /\ requests' = [requests EXCEPT ![r] =
          [pc |-> "favorite", user |-> u, favorite |-> prompts[u], target |-> target]]
    /\ UNCHANGED <<favorites, alerts, older, questions, running, ticks, announced, faults>>

\* A text of a user who has a question pending answers it: the question is spent
\* before anything is awaited.
HandleAlertThresholdInput(r, u, target) ==
    /\ requests[r].pc = "idle"
    /\ prompts[u] # None
    /\ prompts' = [prompts EXCEPT ![u] = None]
    /\ requests' = [requests EXCEPT ![r] =
          [pc |-> "favorite", user |-> u, favorite |-> prompts[u], target |-> target]]
    /\ UNCHANGED <<favorites, alerts, older, prompted, running, ticks, announced, faults>>

\* The catch block: the error is told and the same question is put again, over a
\* newer one if there is any.
Reject(r) ==
    /\ Goto(r, "rejected")
    /\ prompts' = [prompts EXCEPT ![requests[r].user] = requests[r].favorite]

\* findById: the row with that id, if it is that user's.
IsFavoriteOf(f, u) == favorites[f] = "present" /\ Owner[f] = u

\* The favourite is looked up by id and user; a text that is no positive number
\* is refused after that.
GetFavorite(r) ==
    /\ requests[r].pc = "favorite"
    /\ \/ /\ IsFavoriteOf(requests[r].favorite, requests[r].user)
          /\ Goto(r, "find")
          /\ UNCHANGED prompts
       \/ Reject(r)
    /\ UNCHANGED <<favorites, alerts, older, prompted, running, ticks, announced, faults>>

\* Only a new alert counts against the limit.
FindActiveByFavorite(r) ==
    /\ requests[r].pc = "find"
    /\ Goto(r, IF ActiveOn(requests[r].favorite) = {} THEN "count" ELSE "select")
    /\ UNCHANGED <<favorites, alerts, older, questions, running, ticks, announced, faults>>

CountActiveByUser(r) ==
    /\ requests[r].pc = "count"
    /\ IF Cardinality(ActiveOf(requests[r].user)) >= MaxActive
         THEN Reject(r)
         ELSE Goto(r, "select") /\ UNCHANGED prompts
    /\ UNCHANGED <<favorites, alerts, older, prompted, running, ticks, announced, faults>>

\* upsertActiveAlert looks again, and remembers the row it will update.
SelectActive(r) ==
    /\ requests[r].pc = "select"
    /\ LET found == ActiveOn(requests[r].favorite)
       IN  \/ /\ found = {}
              /\ Goto(r, "insert")
           \/ \E a \in found :
                 requests' = [requests EXCEPT ![r] =
                    [pc |-> "update", user |-> @.user, favorite |-> @.favorite,
                     target |-> @.target, row |-> a]]
    /\ UNCHANGED <<favorites, alerts, older, questions, running, ticks, announced, faults>>

\* The UPDATE is by id: it forgets the last observation but leaves the status,
\* whatever that is by now.  A row that is gone makes it throw.
UpdateAlert(r) ==
    /\ requests[r].pc = "update"
    /\ LET a == requests[r].row
       IN  IF a \in DOMAIN alerts
             THEN /\ alerts' = [alerts EXCEPT ![a].target = requests[r].target,
                                              ![a].last = NoPrice,
                                              ![a].setBy = r]
                  /\ Touch(a)
                  /\ Goto(r, "confirm")
                  /\ UNCHANGED prompts
             ELSE Reject(r) /\ UNCHANGED <<alerts, older>>
    /\ UNCHANGED <<favorites, prompted, running, ticks, announced, faults>>

NewAlert_Pending(r) ==
    [favorite |-> requests[r].favorite, target |-> requests[r].target, status |-> "pending",
     last |-> NoPrice, setBy |-> r, firedFor |-> NoPrice]

NewAlert(r) ==
    [favorite |-> requests[r].favorite, target |-> requests[r].target, status |-> "active",
     last |-> NoPrice,
     setBy |-> r,              \* history: the request that last wrote the row
     firedFor |-> NoPrice]     \* history: the threshold it was triggered for

InsertAlert_NoIndex(r) ==
    /\ requests[r].pc = "insert"
    /\ IF favorites[requests[r].favorite] = "present"
         THEN /\ alerts' = [a \in DOMAIN alerts \cup {r} |->
                              IF a = r THEN NewAlert(r) ELSE alerts[a]]
              /\ Touch(r)
              /\ Goto(r, "confirm")
              /\ UNCHANGED prompts
         ELSE Reject(r) /\ UNCHANGED <<alerts, older>>
    /\ UNCHANGED <<favorites, prompted, running, ticks, announced, faults>>

\* The INSERT fails on the foreign key if the favourite is gone, and on the
\* partial unique index if it has an active alert by now.
InsertAlert(r) ==
    /\ requests[r].pc = "insert"
    /\ IF favorites[requests[r].favorite] = "present" /\ ActiveOn(requests[r].favorite) = {}
         THEN /\ alerts' = [a \in DOMAIN alerts \cup {r} |->
                              IF a = r THEN NewAlert(r) ELSE alerts[a]]
              /\ Touch(r)
              /\ Goto(r, "confirm")
              /\ UNCHANGED prompts
         ELSE Reject(r) /\ UNCHANGED <<alerts, older>>
    /\ UNCHANGED <<favorites, prompted, running, ticks, announced, faults>>

\* The favourite is read for the message, and "alert set" is told.
ConfirmAlert(r) ==
    /\ requests[r].pc = "confirm"
    /\ Goto(r, "set")
    /\ UNCHANGED <<favorites, alerts, older, questions, running, ticks, announced, faults>>

RequestPc == {"favorite", "find", "count", "select", "update", "insert", "confirm"}

\* A query rejects, or the message after the write does.
RequestFails(r) ==
    /\ requests[r].pc \in RequestPc
    /\ Fault
    /\ Reject(r)
    /\ UNCHANGED <<favorites, alerts, older, prompted, running, ticks, announced>>

\* The entry of the cache lapses.
ExpirePrompt(u) ==
    /\ prompts[u] # None
    /\ prompts' = [prompts EXCEPT ![u] = None]
    /\ UNCHANGED <<favorites, alerts, older, prompted, requests, running, ticks, announced, faults>>

RequestStep(r) ==
    \/ GetFavorite(r) \/ FindActiveByFavorite(r) \/ CountActiveByUser(r)
    \/ SelectActive(r) \/ UpdateAlert(r) \/ InsertAlert(r) \/ ConfirmAlert(r)

-----------------------------------------------------------------------------
(* The worker.                                                              *)

Current(t) == Head(ticks[t].batch)
TickTo(t, pc) == ticks' = [ticks EXCEPT ![t].pc = pc]
NextAlert(t) ==
    ticks' = [ticks EXCEPT ![t] = [pc |-> "check", batch |-> Tail(@.batch), net |-> NoPrice]]

StartTick_Unguarded(t) ==
    /\ ticks[t].pc = "idle"
    /\ running' = TRUE
    /\ TickTo(t, "list")
    /\ UNCHANGED <<favorites, alerts, older, questions, requests, announced, faults>>

StartTick(t) ==
    /\ ticks[t].pc = "idle"
    /\ ~running
    /\ running' = TRUE
    /\ TickTo(t, "list")
    /\ UNCHANGED <<favorites, alerts, older, questions, requests, announced, faults>>

\* What a tick knows of a row from here on.
Snapshot(a) ==
    [id |-> a, target |-> alerts[a].target, last |-> alerts[a].last, setBy |-> alerts[a].setBy]

\* The oldest active rows, oldest first, as many as a batch holds.
IsOldest(rows) ==
    /\ \A i, j \in DOMAIN rows : i < j => <<rows[i], rows[j]>> \in older
    /\ \A a \in Active \ {rows[i] : i \in DOMAIN rows} :
          /\ Len(rows) = BatchSize
          /\ \A i \in DOMAIN rows : <<rows[i], a>> \in older

\* listActiveBatch: the active rows longest untouched.
ListActiveBatch(t) ==
    /\ ticks[t].pc = "list"
    /\ \E n \in 0..BatchSize : \E rows \in [1..n -> Active] :
          /\ IsOldest(rows)
          /\ ticks' = [ticks EXCEPT ![t] =
                [pc |-> "check", batch |-> [i \in 1..n |-> Snapshot(rows[i])], net |-> NoPrice]]
    /\ UNCHANGED <<favorites, alerts, older, questions, requests, running, announced, faults>>

\* No row is left (there are no asset alerts); the finally block lets the next tick in.
EndTick(t) ==
    /\ ticks[t].pc = "check" /\ ticks[t].batch = <<>>
    /\ running' = FALSE
    /\ TickTo(t, "idle")
    /\ UNCHANGED <<favorites, alerts, older, questions, requests, announced, faults>>

\* fetchAlertQuote: the price is not in the database's hands.
FetchAlertQuote(t) ==
    /\ ticks[t].pc = "check" /\ ticks[t].batch # <<>>
    /\ \E net \in Prices :
          ticks' = [ticks EXCEPT ![t] = [pc |-> "observe", batch |-> @.batch, net |-> net]]
    /\ UNCHANGED <<favorites, alerts, older, questions, requests, running, announced, faults>>

\* shouldTriggerOnCrossing: never on a first observation.
ShouldTriggerOnCrossing(last, target, net) ==
    /\ last # NoPrice
    /\ \/ last < target /\ net >= target
       \/ last > target /\ net <= target

\* The trigger is decided on the listed row; then markObserved, by id.
MarkObserved_InPlace(t) ==
    /\ ticks[t].pc = "observe"
    /\ LET s == Current(t) IN
         /\ IF s.id \in DOMAIN alerts
              THEN alerts' = [alerts EXCEPT ![s.id].last = ticks[t].net]
              ELSE UNCHANGED alerts
         /\ IF ShouldTriggerOnCrossing(s.last, s.target, ticks[t].net)
              THEN TickTo(t, "trigger")
              ELSE NextAlert(t)
    /\ UNCHANGED <<favorites, older, questions, requests, running, announced, faults>>

MarkObserved(t) ==
    /\ ticks[t].pc = "observe"
    /\ LET s == Current(t) IN
         /\ IF s.id \in DOMAIN alerts
              THEN alerts' = [alerts EXCEPT ![s.id].last = ticks[t].net] /\ Touch(s.id)
              ELSE UNCHANGED <<alerts, older>>
         /\ IF ShouldTriggerOnCrossing(s.last, s.target, ticks[t].net)
              THEN TickTo(t, "trigger")
              ELSE NextAlert(t)
    /\ UNCHANGED <<favorites, questions, requests, running, announced, faults>>

MarkTriggered_ObservedOnly(t) ==
    /\ ticks[t].pc = "trigger"
    /\ LET a == Current(t).id IN
         IF a \in DOMAIN alerts
           THEN alerts' = [alerts EXCEPT ![a].last = ticks[t].net] /\ Touch(a)
           ELSE UNCHANGED <<alerts, older>>
    /\ TickTo(t, "send")
    /\ UNCHANGED <<favorites, questions, requests, running, announced, faults>>

\* markTriggered, by id, whatever the row holds by now.
MarkTriggered(t) ==
    /\ ticks[t].pc = "trigger"
    /\ LET a == Current(t).id IN
         IF a \in DOMAIN alerts
           THEN /\ alerts' = [alerts EXCEPT ![a].status = "triggered",
                                            ![a].last = ticks[t].net,
                                            ![a].firedFor = Current(t).target]
                /\ Touch(a)
           ELSE UNCHANGED <<alerts, older>>
    /\ TickTo(t, "send")
    /\ UNCHANGED <<favorites, questions, requests, running, announced, faults>>

\* The message names the listed threshold, also when the row is gone.
SendTelegramMessage(t) ==
    /\ ticks[t].pc = "send"
    /\ announced' = [announced EXCEPT ![Current(t).id] = Append(@, Current(t).target)]
    /\ NextAlert(t)
    /\ UNCHANGED <<favorites, alerts, older, questions, requests, running, faults>>

\* The row is closed before its user is told.
HandleTriggeredAlert(t) == MarkTriggered(t) \/ SendTelegramMessage(t)

\* Whatever rejects is logged and the loop goes on with the next row.
AlertFails(t) ==
    /\ ticks[t].pc \in {"check", "observe", "trigger", "send"}
    /\ ticks[t].batch # <<>>
    /\ Fault
    /\ NextAlert(t)
    /\ UNCHANGED <<favorites, alerts, older, questions, requests, running, announced>>

TickStep(t) ==
    \/ ListActiveBatch(t) \/ EndTick(t)
    \/ FetchAlertQuote(t) \/ MarkObserved(t) \/ HandleTriggeredAlert(t)

-----------------------------------------------------------------------------
\* The process dies and is started again; the rows stay.
Crash ==
    /\ Fault
    /\ requests' = [r \in Requests |->
          IF requests[r].pc \in RequestPc THEN [pc |-> "lost"] ELSE requests[r]]
    /\ running' = FALSE
    /\ ticks' = [t \in Ticks |-> NoTick]
    /\ prompts' = [u \in Users |-> None]
    /\ UNCHANGED <<favorites, alerts, older, prompted, announced>>

Next ==
    \/ \E f \in Favorites :
          \/ CreateFavorite(f) \/ DeleteFavorite(f)
          \/ \E u \in Users : HandleFavoriteAlert(u, f)
    \/ \E u \in Users :
          \/ ExpirePrompt(u)
          \/ \E r \in Requests, target \in Targets : HandleAlertThresholdInput(r, u, target)
    \/ \E r \in Requests : RequestStep(r) \/ RequestFails(r)
    \/ \E t \in Ticks : StartTick(t) \/ TickStep(t) \/ AlertFails(t)
    \/ Crash

Spec == Init /\ [][Next]_vars

\* setInterval keeps firing and a tick's awaits end; users owe nothing.
FairSpec == Spec /\ \A t \in Ticks : WF_vars(StartTick(t)) /\ WF_vars(TickStep(t))

-----------------------------------------------------------------------------
(* Properties.                                                              *)

\* A threshold input, by what it is busy with.
RequestRecords ==
    [pc : {"idle", "lost"}]
      \cup [pc : {"favorite", "find", "count", "select", "insert", "confirm", "set", "rejected"},
            user : Users, favorite : Favorites, target : Targets]
      \cup [pc : {"update", "confirm", "set", "rejected"},
            user : Users, favorite : Favorites, target : Targets, row : Requests]

Snapshots ==
    [id : Requests, target : Targets, last : Prices \cup {NoPrice}, setBy : Requests]

TypeOK ==
    /\ favorites \in [Favorites -> {"absent", "present", "deleted"}]
    /\ DOMAIN alerts \subseteq Requests
    /\ \A a \in DOMAIN alerts : alerts[a] \in
          [favorite : Favorites, target : Targets, status : {"active", "triggered"},
           last : Prices \cup {NoPrice}, setBy : Requests, firedFor : Targets \cup {NoPrice}]
    /\ older \subseteq (DOMAIN alerts) \X (DOMAIN alerts)
    /\ requests \in [Requests -> RequestRecords]
    /\ prompts \in [Users -> Favorites \cup {None}]
    /\ prompted \in [Users -> 0 .. MaxPrompts]
    /\ running \in BOOLEAN
    /\ ticks \in [Ticks -> [pc : {"idle", "list", "check", "observe", "trigger", "send"},
                            batch : Seq(Snapshots), net : Prices \cup {NoPrice}]]
    /\ announced \in [Requests -> Seq(Targets)]
    /\ faults \in 0..MaxFaults

\* A favourite has at most one active alert, however many inputs for it run at
\* once: the second look of upsertActiveAlert and the unique index see to it.
OneActivePerFavorite == \A f \in Favorites : Cardinality(ActiveOn(f)) <= 1

\* A question is answered once: of texts that arrive together one sets the alert,
\* and a question that is put again after an error still yields one "alert set"
\* (telegram.portfolio-alerts.service.ts:73, 103).
OneAnswerPerPrompt ==
    \A u \in Users :
        Cardinality({r \in Requests : requests[r].pc = "set" /\ requests[r].user = u})
            <= prompted[u]

\* An alert is one-time (README): its user is told once, whichever ticks overlap,
\* rows are edited or awaits fail.
OneMessagePerAlert == \A r \in Requests : Len(announced[r]) <= 1

\* The crossing is judged on the row's last observation: nobody else observes
\* a row between its listing and its quote, unless the user set it anew.
DecisionIsCurrent ==
    \A t \in Ticks :
        (ticks[t].pc \in {"check", "observe"} /\ ticks[t].batch # <<>>) =>
            LET s == Current(t) IN
                (s.id \in DOMAIN alerts /\ alerts[s.id].setBy = s.setBy)
                    => alerts[s.id].last = s.last

\* Every alert gets its first observation, or fires or is deleted before, however
\* many older alerts there are: rows just observed go to the end of the line.
FirstObservation ==
    \A r \in Requests :
        (r \in Active /\ alerts[r].last = NoPrice)
            ~> ~(r \in Active /\ alerts[r].last = NoPrice)

\* "Alert set: <target>": the threshold the user was last told is set is the
\* one the alert fires for.
FiresOnItsTarget ==
    \A a \in DOMAIN alerts :
        alerts[a].status = "triggered" => alerts[a].firedFor = alerts[a].target

-----------------------------------------------------------------------------
(* The inductive invariant: a request writes a row once, a row is in the    *)
(* hands of one tick, and what that tick has left to do fits what it told.  *)

\* A request past its write, or without one: it will write no row any more.
Past == {"confirm", "set", "rejected", "lost"}

\* Rows, listed rows and told users all stem from requests that have written.
WrittenInv ==
    /\ \A a \in DOMAIN alerts :
          requests[a].pc \in Past /\ requests[alerts[a].setBy].pc \in Past
    /\ \A t \in Ticks : \A i \in DOMAIN ticks[t].batch :
          /\ requests[ticks[t].batch[i].id].pc \in Past
          /\ requests[ticks[t].batch[i].setBy].pc \in Past
    /\ \A r \in Requests : announced[r] # <<>> => requests[r].pc \in Past

\* A favourite has one active alert.
ActiveInv == \A a, b \in Active : alerts[a].favorite = alerts[b].favorite => a = b

\* Nothing was updated before itself, so that no row is listed twice.
OlderInv == \A a \in DOMAIN alerts : <<a, a>> \notin older

\* The running flag admits one tick, and only that one has rows left.
OneTick ==
    /\ \A t \in Ticks : ticks[t].pc \in {"idle", "list"} => ticks[t].batch = <<>>
    /\ \A t \in Ticks : ticks[t].pc \in {"observe", "trigger", "send"} => ticks[t].batch # <<>>
    /\ \A t \in Ticks : ticks[t].pc # "idle" => running
    /\ \A t, u \in Ticks : ticks[t].pc # "idle" /\ ticks[u].pc # "idle" => t = u

\* The rows left are distinct and told to nobody yet; a row told of, or about
\* to be, is active no more; what is still to be judged is as it was listed.
BatchInv ==
    \A t \in Ticks :
        LET batch == ticks[t].batch IN
            /\ \A i, j \in DOMAIN batch : batch[i].id = batch[j].id => i = j
            /\ \A i \in DOMAIN batch :
                  /\ announced[batch[i].id] = <<>>
                  /\ (i > 1 \/ ticks[t].pc \in {"check", "observe"})
                        /\ batch[i].id \in DOMAIN alerts
                        /\ alerts[batch[i].id].setBy = batch[i].setBy
                        => alerts[batch[i].id].last = batch[i].last
            /\ ticks[t].pc = "send" => Current(t).id \notin Active

ToldInv ==
    \A r \in Requests : Len(announced[r]) <= 1 /\ (announced[r] # <<>> => r \notin Active)

\* Requests that hold a question or have answered it, with the question that is
\* pending, are no more than were put.
Answers(u) ==
    {r \in Requests : requests[r].pc \in RequestPc \cup {"set"} /\ requests[r].user = u}

QuestionInv ==
    \A u \in Users :
        /\ IsFiniteSet(Answers(u))
        /\ Cardinality(Answers(u)) + (IF prompts[u] = None THEN 0 ELSE 1) <= prompted[u]

IInv ==
    /\ TypeOK /\ WrittenInv /\ ActiveInv /\ OlderInv /\ OneTick /\ BatchInv
    /\ ToldInv /\ QuestionInv
=============================================================================
