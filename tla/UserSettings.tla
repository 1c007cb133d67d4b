---------------------------- MODULE UserSettings ----------------------------
(***************************************************************************)
(* /settings (src/telegram/telegram.settings-*.ts, src/settings): a user   *)
(* chooses the slippage and the aggregator, from a menu or as the answer   *)
(* to a question.  The settings are one column of the users row, which     *)
(* only a trading command creates; a change reads it, replaces one field   *)
(* and writes it whole.  Requests are the handlers of the bot, those of    *)
(* SwapSelection included; they await the database between their steps.    *)
(* A definition A_Mutation is a plausible mistake in A; no specification   *)
(* uses it, it only shows that a property can fail.                        *)
(***************************************************************************)
EXTENDS Integers, FiniteSets

CONSTANTS Users, Requests,
          Slippages,     \* slippages of the menu, in hundredths of a percent
          Preferences,   \* aggregators of the menu
          Typed          \* slippages a user may type, good or bad

KnownAggregators == {"auto", "paraswap", "zerox", "odos", "jupiter"}
IsValidSlippage(value) == value \in 1..5000

ASSUME MenuAssumption ==
    Preferences \subseteq KnownAggregators /\ \A s \in Slippages : IsValidSlippage(s)
ASSUME TypedAssumption == Typed \subseteq Nat

VARIABLES
    known,       \* users with a row
    settings,    \* the settings column, Null where there is none
    questions,   \* pendingInputs: the users who were asked for a slippage
    requests

settingsVars == <<known, settings, questions>>

DefaultSlippage == 50                      \* 0.5 %
DefaultSettings == [slippage |-> DefaultSlippage, preferredAggregator |-> "auto"]
Null == [slippage |-> -1, preferredAggregator |-> "none"]

SettingsInit ==
    /\ known \in SUBSET Users
    /\ settings = [u \in Users |-> Null]
    /\ questions = {}

\* A field that is not valid is the default one.
ParseUserSettings(raw) ==
    [slippage |-> IF IsValidSlippage(raw.slippage) THEN raw.slippage ELSE DefaultSlippage,
     preferredAggregator |-> IF raw.preferredAggregator \in KnownAggregators
                             THEN raw.preferredAggregator ELSE "auto"]

GetSettings(u) == ParseUserSettings(settings[u])

\* The conflict leaves the settings of a known user alone.
UpsertUser(u) == known' = known \cup {u}

Put(r, request) == requests' = [requests EXCEPT ![r] = request]
Goto(r, pc) == requests' = [requests EXCEPT ![r].pc = pc]

-----------------------------------------------------------------------------
(* Changes.                                                                *)

Changes(u) ==
    {r \in Requests : requests[r].pc \in {"editing", "persisting", "saved"}
                      /\ requests[r].user = u}

Wanted(r) == requests[r].wanted[requests[r].field]

Saved(u) == {r \in Changes(u) : requests[r].pc = "saved"}

\* "after" is history: the changes of the user that ended before this one began.
Change(r, u, field, value) ==
    Put(r, [pc |-> "editing", user |-> u, field |-> field,
            wanted |-> [Null EXCEPT ![field] = value], current |-> Null, after |-> Saved(u)])

\* setSlippage, setAggregator: any button of the menu takes the question back.
PressSetting(r, u) ==
    /\ requests[r].pc = "idle"
    /\ \/ \E s \in Slippages : Change(r, u, "slippage", s)
       \/ \E p \in Preferences : Change(r, u, "preferredAggregator", p)
    /\ questions' = questions \ {u}
    /\ UNCHANGED <<known, settings>>

RequestCustomSlippage(r, u) ==
    /\ requests[r].pc = "idle"
    /\ Put(r, [pc |-> "asked"])
    /\ questions' = questions \cup {u}
    /\ UNCHANGED <<known, settings>>

\* /settings, and the buttons that show a menu.
OpenMenu(u) ==
    /\ u \in questions
    /\ questions' = questions \ {u}
    /\ UNCHANGED <<known, settings, requests>>

ProcessCustomSlippage(r, u, value) ==
    IF IsValidSlippage(value) THEN Change(r, u, "slippage", value)
    ELSE Put(r, [pc |-> "rejected"])

HandleTextInput_Unchecked(r, u, value) ==
    /\ requests[r].pc = "idle"
    /\ u \in questions
    /\ questions' = questions \ {u}
    /\ Change(r, u, "slippage", value)
    /\ UNCHANGED <<known, settings>>

\* A text answers the question its sender was asked, which is then gone, also
\* when the text is not a slippage.
HandleTextInput(r, u, value) ==
    /\ requests[r].pc = "idle"
    /\ u \in questions
    /\ questions' = questions \ {u}
    /\ ProcessCustomSlippage(r, u, value)
    /\ UNCHANGED <<known, settings>>

\* updateSlippage, updatePreferredAggregator up to the answer of getSettings.
ReadSettings(r) ==
    /\ requests[r].pc = "editing"
    /\ requests' = [requests EXCEPT ![r].pc = "persisting",
                                    ![r].current = GetSettings(requests[r].user)]
    /\ UNCHANGED settingsVars

UpdateSettings(u, updated) ==
    settings' = IF u \in known THEN [settings EXCEPT ![u] = updated] ELSE settings

PersistSettings_OverDefaults(r) ==
    /\ requests[r].pc = "persisting"
    /\ UpdateSettings(requests[r].user,
                      [DefaultSettings EXCEPT ![requests[r].field] = Wanted(r)])
    /\ Goto(r, "saved")
    /\ UNCHANGED <<known, questions>>

\* The whole record is written, over whatever was written meanwhile; a user
\* without a row is shown the new settings, and nothing is stored.
PersistSettings(r) ==
    /\ requests[r].pc = "persisting"
    /\ UpdateSettings(requests[r].user,
                      [requests[r].current EXCEPT ![requests[r].field] = Wanted(r)])
    /\ Goto(r, IF requests[r].user \in known THEN "saved" ELSE "unsaved")
    /\ UNCHANGED <<known, questions>>

SettingsStep(r) ==
    \/ \E u \in Users :
          \/ PressSetting(r, u)
          \/ RequestCustomSlippage(r, u)
          \/ \E value \in Typed : HandleTextInput(r, u, value)
    \/ ReadSettings(r) \/ PersistSettings(r)

-----------------------------------------------------------------------------
(* Properties.                                                             *)

\* What a user can have chosen, and what is stored.
ChosenSlippages == Slippages \cup {s \in Typed : IsValidSlippage(s)}
StoredSettings ==
    [slippage : ChosenSlippages \cup {DefaultSlippage},
     preferredAggregator : Preferences \cup {"auto"}]

ChangeRecords ==
    [pc : {"editing", "persisting", "saved", "unsaved"}, user : Users,
     field : {"slippage"}, wanted : [slippage : ChosenSlippages, preferredAggregator : {"none"}],
     current : StoredSettings \cup {Null}, after : SUBSET Requests]
      \cup [pc : {"editing", "persisting", "saved", "unsaved"}, user : Users,
            field : {"preferredAggregator"},
            wanted : [slippage : {-1}, preferredAggregator : Preferences],
            current : StoredSettings \cup {Null}, after : SUBSET Requests]

SettingsTypeOK ==
    /\ known \subseteq Users
    /\ settings \in [Users -> StoredSettings \cup {Null}]
    /\ questions \subseteq Users

\* No two changes of the user overlapped.
OneByOne(u) ==
    \A q, r \in Changes(u) :
        q = r \/ q \in requests[r].after \/ r \in requests[q].after

\* Changes of one field, the last of them first chosen when no other followed.
IsLast(r, changes) == \A q \in changes \ {r} : q \in requests[r].after
Last(changes) == CHOOSE r \in changes : IsLast(r, changes)

\* As long as a user makes one change at a time, each setting is what that user
\* chose last, or the default: a change of one setting does not undo the other,
\* an answer counts once, and a restart loses nothing that was written
\* (UserSettingsService, TelegramSettingsHandler).
LastChoiceHolds ==
    \A u \in Users : OneByOne(u) =>
        \A field \in DOMAIN DefaultSettings :
            LET made == {r \in Saved(u) : requests[r].field = field}
            IN GetSettings(u)[field] =
                  IF made = {} THEN DefaultSettings[field]
                  ELSE Wanted(Last(made))

-----------------------------------------------------------------------------
(* The inductive invariant of the changes.                                  *)

\* A change about to be written still holds what is stored, unless another was
\* saved since it began.
ReadInv ==
    \A r \in Requests : requests[r].pc = "persisting" =>
        /\ requests[r].current \in StoredSettings
        /\ Saved(requests[r].user) \subseteq requests[r].after =>
              requests[r].current = GetSettings(requests[r].user)

\* A change comes after saved changes of its user, none of which comes after it.
AfterInv ==
    \A r \in Requests : requests[r].pc \in {"editing", "persisting", "saved"} =>
        \A q \in requests[r].after : q \in Saved(requests[r].user) /\ r \notin requests[q].after

\* When the saved changes of a user did not overlap, whatever was lost or could
\* not be stored besides, the stored fields are those of the last of them.
LastInv ==
    \A u \in Users :
        (\A q, r \in Saved(u) : q = r \/ q \in requests[r].after \/ r \in requests[q].after) =>
            \A field \in DOMAIN DefaultSettings :
                LET made == {r \in Saved(u) : requests[r].field = field}
                IN  \/ made = {} /\ GetSettings(u)[field] = DefaultSettings[field]
                    \/ \E r \in made : IsLast(r, made) /\ GetSettings(u)[field] = Wanted(r)

ChangeInv == ReadInv /\ AfterInv /\ LastInv
=============================================================================
