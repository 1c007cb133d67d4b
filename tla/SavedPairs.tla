----------------------------- MODULE SavedPairs -----------------------------
(***************************************************************************)
(* The buttons under the answer of /price and /swap that save the pair, as *)
(* a preset (src/trade-presets, telegram.trade-templates.service.ts) or as *)
(* a favourite (src/favorites).  A button carries the token of a pending   *)
(* action, which lives in memory for TELEGRAM_PENDING_ACTION_TTL_SEC and   *)
(* is taken before the handler awaits anything.  Taps are handled          *)
(* concurrently.  Alerts on favourites are in PriceAlerts.                 *)
(* A definition A_Mutation is a plausible mistake in A; no specification   *)
(* uses it, it only shows that a property can fail.                        *)
(***************************************************************************)
EXTENDS TokenResolution

CONSTANTS
    Taps,           \* presses of the buttons
    MaxPresets,     \* DEFAULT_MAX_PRESETS
    MaxSavedRestarts    \* bound on restarts

ASSUME SavedRestartsAssumption == MaxSavedRestarts \in Nat

VARIABLES
    buttons,        \* pending actions: kind and command of the button
    taps,
    presets,        \* rows, by the tap that made them
    favorites,      \* rows, by the tap that made them
    savedRestarts

pairVars == <<buttons, taps, presets, favorites, savedRestarts>>

NoTap == [pc |-> "idle", user |-> "none", by |-> "none", pair |-> <<>>, label |-> <<>>]

PairsInit ==
    /\ TokensInit
    /\ buttons = {}
    /\ taps = [t \in Taps |-> NoTap]
    /\ presets = <<>>
    /\ favorites = <<>>
    /\ savedRestarts = 0

TapAt(t, pc) == taps[t].pc = pc
TapTo(t, pc) == taps' = [taps EXCEPT ![t].pc = pc]

Finish(t, pc) == taps' = [taps EXCEPT ![t] = [NoTap EXCEPT !.pc = pc]]

With(rows, id, row) == [x \in DOMAIN rows \cup {id} |-> IF x = id THEN row ELSE rows[x]]
PresetsOf(u) == {p \in DOMAIN presets : presets[p].user = u}
FindByPair(u, pair) ==
    {f \in DOMAIN favorites : favorites[f].user = u /\ favorites[f].pair = pair}

\* The tokens are resolved and there are quotes (QuoteFlow): the answer is sent
\* with its buttons.
Answer(c) ==
    /\ CommandAt(c, "prepared")
    /\ CommandTo(c, "answered")
    /\ buttons' = buttons \cup {[kind |-> k, command |-> c] : k \in {"preset", "favorite"}}
    /\ UNCHANGED <<tokens, up, misread, taps, presets, favorites, savedRestarts>>

AnswerFails(c) ==
    /\ CommandAt(c, "prepared")
    /\ FailCommand(c)
    /\ UNCHANGED <<tokens, up, misread, pairVars>>

PendingActionFor_Any(u, b) == b \in buttons

PendingActionFor(u, b) == b \in buttons /\ commands[b.command].user = u

\* handlePresetSaveByToken, handleFavoriteAdd: the action is consumed before the
\* first await; a press by another user leaves it.
Tap(t, u, b) ==
    /\ up
    /\ TapAt(t, "idle")
    /\ CommandAt(b.command, "answered")
    /\ IF PendingActionFor(u, b)
       THEN /\ buttons' = buttons \ {b}
            /\ taps' = [taps EXCEPT ![t] = [NoTap EXCEPT
                  !.pc = IF b.kind = "preset" THEN "naming" ELSE "inserting",
                  !.user = u, !.by = b.command, !.pair = commands[b.command].found]]
       ELSE Finish(t, "rejected") /\ UNCHANGED buttons
    /\ UNCHANGED <<tokenVars, presets, favorites, savedRestarts>>

-----------------------------------------------------------------------------
(* A preset.                                                               *)

\* handlePresetSave: the symbols of the two rows, read one after the other.
NamePreset(t) ==
    /\ TapAt(t, "naming")
    /\ LET token == taps[t].pair[Len(taps[t].label) + 1]
           label == Append(taps[t].label, tokens[token])
       IN taps' = [taps EXCEPT ![t].label = label,
                               ![t].pc = IF Len(label) = 2 THEN "labelled" ELSE "naming"]
    /\ UNCHANGED <<tokenVars, buttons, presets, favorites, savedRestarts>>

FindByLabel(t) ==
    /\ TapAt(t, "labelled")
    /\ IF \E p \in PresetsOf(taps[t].user) : presets[p].label = taps[t].label
       THEN Finish(t, "rejected") ELSE TapTo(t, "counting")
    /\ UNCHANGED <<tokenVars, buttons, presets, favorites, savedRestarts>>

CountPresets(t) ==
    /\ TapAt(t, "counting")
    /\ IF Cardinality(PresetsOf(taps[t].user)) >= MaxPresets
       THEN Finish(t, "rejected") ELSE TapTo(t, "creating")
    /\ UNCHANGED <<tokenVars, buttons, presets, favorites, savedRestarts>>

\* No unique index: what was found and counted may be out of date.
CreatePreset(t) ==
    /\ TapAt(t, "creating")
    /\ presets' = With(presets, t, [user |-> taps[t].user, by |-> taps[t].by,
                                    pair |-> taps[t].pair, label |-> taps[t].label])
    /\ Finish(t, "saved")
    /\ UNCHANGED <<tokenVars, buttons, favorites, savedRestarts>>

-----------------------------------------------------------------------------
(* A favourite.                                                            *)

\* The insert of a pair that is there does nothing; the row is then looked up.
CreateFavorite(t) ==
    /\ TapAt(t, "inserting")
    /\ IF FindByPair(taps[t].user, taps[t].pair) = {}
       THEN /\ favorites' = With(favorites, t,
                    [user |-> taps[t].user, by |-> taps[t].by, pair |-> taps[t].pair])
            /\ Finish(t, "saved")
       ELSE TapTo(t, "looking") /\ UNCHANGED favorites
    /\ UNCHANGED <<tokenVars, buttons, presets, savedRestarts>>

FindFavorite(t) ==
    /\ TapAt(t, "looking")
    /\ Finish(t, IF FindByPair(taps[t].user, taps[t].pair) = {} THEN "rejected" ELSE "saved")
    /\ UNCHANGED <<tokenVars, buttons, presets, favorites, savedRestarts>>

\* Deletes by id and user: a button of another user finds nothing.
DeleteFavorite(u, f) ==
    /\ up
    /\ f \in DOMAIN favorites
    /\ favorites[f].user = u
    /\ favorites' = [x \in DOMAIN favorites \ {f} |-> favorites[x]]
    /\ UNCHANGED <<tokenVars, buttons, taps, presets, savedRestarts>>

-----------------------------------------------------------------------------
\* Any awaited query rejects: the error is answered, and the button is spent.
QueryFails(t) ==
    /\ taps[t].pc \in {"naming", "labelled", "counting", "creating", "inserting", "looking"}
    /\ Finish(t, "rejected")
    /\ UNCHANGED <<tokenVars, buttons, presets, favorites, savedRestarts>>

ExpireButton(b) ==
    /\ b \in buttons
    /\ buttons' = buttons \ {b}
    /\ UNCHANGED <<tokenVars, taps, presets, favorites, savedRestarts>>

\* The process ends; it is back when it has written the seeds.
RestartPairs ==
    /\ up
    /\ savedRestarts < MaxSavedRestarts
    /\ savedRestarts' = savedRestarts + 1
    /\ up' = FALSE
    /\ commands' = [c \in Commands |->
            IF commands[c].pc \in {"idle", "answered"} THEN commands[c]
            ELSE [NoCommand EXCEPT !.pc = "failed"]]
    /\ taps' = [t \in Taps |->
            IF taps[t].pc \in {"idle", "saved"} THEN taps[t]
            ELSE [NoTap EXCEPT !.pc = "rejected"]]
    /\ buttons' = {}
    /\ UNCHANGED <<tokens, misread, presets, favorites>>

TapStep(t) ==
    \/ \E u \in Traders, k \in {"preset", "favorite"}, c \in Commands :
          Tap(t, u, [kind |-> k, command |-> c])
    \/ NamePreset(t) \/ FindByLabel(t) \/ CountPresets(t) \/ CreatePreset(t)
    \/ CreateFavorite(t) \/ FindFavorite(t) \/ QueryFails(t)

PairsNext ==
    \/ \E c \in Commands :
          \/ ResolutionStep(c) /\ UNCHANGED pairVars
          \/ Answer(c) \/ AnswerFails(c)
    \/ \E t \in Taps : TapStep(t)
    \/ \E u \in Traders, f \in Taps : DeleteFavorite(u, f)
    \/ \E b \in buttons : ExpireButton(b)
    \/ RestartPairs
    \/ (ModuleInitialised \/ \E a \in DOMAIN Seeds : SeedToken(a)) /\ UNCHANGED pairVars

PairsSpec == PairsInit /\ [][PairsNext]_<<tokenVars, pairVars>>

-----------------------------------------------------------------------------
(* Properties.                                                             *)

\* A button saves at most one row, of the user it was shown to and for the pair
\* it was shown with, however often and by whomever it is pressed
\* (WalletConnectSessionStore.consumePendingAction).
OneRowPerButton ==
    \A rows \in {presets, favorites} : \A x \in DOMAIN rows :
        /\ rows[x].user = commands[rows[x].by].user
        /\ rows[x].pair = commands[rows[x].by].found
        /\ \A y \in DOMAIN rows : rows[x].by = rows[y].by => x = y

-----------------------------------------------------------------------------
(* The inductive invariant.                                                *)

Saving == {"naming", "labelled", "counting", "creating"}
Favoring == {"inserting", "looking"}

TapRecords ==
    [pc : {"idle", "rejected", "saved"} \cup Saving \cup Favoring, user : Traders \cup {"none"},
     by : Commands \cup {"none"}, pair : Seq(Addresses), label : Seq(Symbols)]

\* A button, a tap that has consumed it, and a row are of an answer that stays as
\* it is.
Answered(c) == c \in Commands /\ commands[c].pc = "answered"

\* A tap saves for the user and the pair of the answer it was made under.
OfItsAnswer(row) ==
    /\ Answered(row.by)
    /\ row.user = commands[row.by].user
    /\ row.pair = commands[row.by].found

PairsTypeOK ==
    /\ taps \in [Taps -> TapRecords]
    /\ \A b \in buttons : b = [kind |-> b.kind, command |-> b.command]
    /\ DOMAIN presets \subseteq Taps /\ DOMAIN favorites \subseteq Taps
    /\ savedRestarts \in 0..MaxSavedRestarts

TapsInv ==
    \A t \in Taps : taps[t].pc \in Saving \cup Favoring =>
        /\ OfItsAnswer(taps[t])
        /\ taps[t].pc = "naming" => Len(taps[t].label) < 2

\* The button of a command is there, or one tap has taken it and is at work, or
\* has left a row: never two of them, nor one twice.
ButtonIsSpent(kind, pcs, rows) ==
    /\ \A t \in Taps : taps[t].pc \in pcs =>
          /\ [kind |-> kind, command |-> taps[t].by] \notin buttons
          /\ \A x \in DOMAIN rows : rows[x].by # taps[t].by
          /\ \A s \in Taps : taps[s].pc \in pcs /\ taps[s].by = taps[t].by => s = t
    /\ \A x \in DOMAIN rows :
          /\ OfItsAnswer(rows[x])
          /\ [kind |-> kind, command |-> rows[x].by] \notin buttons
          /\ \A y \in DOMAIN rows : rows[x].by = rows[y].by => x = y

PairsInv ==
    /\ ResolutionInv /\ PairsTypeOK /\ TapsInv
    /\ \A b \in buttons : Answered(b.command)
    /\ ButtonIsSpent("preset", Saving, presets)
    /\ ButtonIsSpent("favorite", Favoring, favorites)
=============================================================================
