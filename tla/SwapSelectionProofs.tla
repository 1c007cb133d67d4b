------------------------- MODULE SwapSelectionProofs -------------------------
(***************************************************************************)
(* Machine-checked proofs about SwapSelection, for any users, intents,     *)
(* routes, lifetimes, settings and number of concurrent requests.          *)
(***************************************************************************)
EXTENDS SwapSelection, RouteRiskProofs

USE DEF Goto, Put

-----------------------------------------------------------------------------
(* The records a request goes through.                                     *)

\* What a request is busy with tells which fields it has.
LEMMA RecordOfPc ==
    ASSUME NEW q \in RequestRecords
    PROVE  /\ q.pc \in {"read", "expire", "claim", "assess"} => q \in PressRecords
           /\ q.pc = "offered" => q \in OfferRecords
           /\ q.pc \in {"create", "executed"} => q \in CreateRecords
           /\ q.pc \in {"editing", "persisting", "saved", "unsaved"} => q \in ChangeRecords
BY DEF RequestRecords, PressRecords, OfferRecords, CreateRecords, ChangeRecords

\* A press, an execution and a change go on in their own fields.
LEMMA GoesOn ==
    ASSUME NEW q \in RequestRecords
    PROVE  /\ \A pc \in {"read", "expire", "claim", "assess", "rejected", "blocked"} :
                 q \in PressRecords =>
                    /\ [q EXCEPT !.pc = pc] \in PressRecords
                    /\ [q EXCEPT !.pc = pc].user = q.user
                    /\ [q EXCEPT !.pc = pc].intent = q.intent
                    /\ [q EXCEPT !.pc = pc].pc = pc
           /\ q \in CreateRecords =>
                    /\ [q EXCEPT !.pc = "executed"] \in CreateRecords
                    /\ [q EXCEPT !.pc = "executed"].pc = "executed"
                    /\ [q EXCEPT !.pc = "executed"].choice = q.choice
                    /\ [q EXCEPT !.pc = "executed"].claim = q.claim
                    /\ [q EXCEPT !.pc = "executed"].confirmed = q.confirmed
                    /\ [q EXCEPT !.pc = "executed"].at = q.at
<1>1. ASSUME q \in PressRecords,
             NEW pc \in {"read", "expire", "claim", "assess", "rejected", "blocked"}
      PROVE  /\ [q EXCEPT !.pc = pc] \in PressRecords
             /\ [q EXCEPT !.pc = pc].user = q.user
             /\ [q EXCEPT !.pc = pc].intent = q.intent
             /\ [q EXCEPT !.pc = pc].pc = pc
  BY <1>1 DEF PressRecords
<1>2. ASSUME q \in CreateRecords
      PROVE  /\ [q EXCEPT !.pc = "executed"] \in CreateRecords
             /\ [q EXCEPT !.pc = "executed"].pc = "executed"
             /\ [q EXCEPT !.pc = "executed"].choice = q.choice
             /\ [q EXCEPT !.pc = "executed"].claim = q.claim
             /\ [q EXCEPT !.pc = "executed"].confirmed = q.confirmed
             /\ [q EXCEPT !.pc = "executed"].at = q.at
  BY <1>2 DEF CreateRecords
<1> QED BY <1>1, <1>2

\* Reading changes nothing of settings that were written by a change.
LEMMA StoredIsRead ==
    ASSUME NEW stored \in StoredSettings
    PROVE  ParseUserSettings(stored) = stored
<1>1. IsValidSlippage(stored.slippage)
  <2>1. stored.slippage \in ChosenSlippages \cup {DefaultSlippage} BY DEF StoredSettings
  <2>2. \A v \in ChosenSlippages : v \in Slippages \/ v = DefaultSlippage \/ IsValidSlippage(v)
    BY DEF ChosenSlippages
  <2>3. IsValidSlippage(DefaultSlippage) BY DEF IsValidSlippage, DefaultSlippage
  <2> QED BY <2>1, <2>2, <2>3, MenuAssumption
<1>2. stored.preferredAggregator \in KnownAggregators
  BY MenuAssumption DEF StoredSettings, KnownAggregators
<1>3. stored = [slippage |-> stored.slippage, preferredAggregator |-> stored.preferredAggregator]
  BY DEF StoredSettings
<1> QED BY <1>1, <1>2, <1>3 DEF ParseUserSettings

\* What is stored reads as a valid slippage, whatever the column holds.
LEMMA SettingsRead ==
    ASSUME SettingsTypeOK, NEW u \in Users
    PROVE  /\ GetSettings(u) \in StoredSettings
           /\ ResolveSlippage(u) \in ChosenSlippages \cup {DefaultSlippage}
<1>1. \A s \in ChosenSlippages \cup {DefaultSlippage} : IsValidSlippage(s)
  BY MenuAssumption DEF ChosenSlippages, IsValidSlippage, DefaultSlippage
<1>2. GetSettings(u) \in StoredSettings
  <2>1. CASE settings[u] \in StoredSettings
    BY <2>1, <1>1, MenuAssumption DEF GetSettings, ParseUserSettings, StoredSettings, KnownAggregators
  <2>2. CASE settings[u] = Null
    BY <2>2 DEF GetSettings, ParseUserSettings, StoredSettings, KnownAggregators, Null, IsValidSlippage
  <2> QED BY <2>1, <2>2 DEF SettingsTypeOK
<1> QED BY <1>1, <1>2 DEF ResolveSlippage, StoredSettings, IsValidSlippage

-----------------------------------------------------------------------------
(* Changes of the settings.                                                *)

\* A change that begins is the record of what is wanted.
LEMMA ChangeBegins ==
    ASSUME NEW r \in Requests, NEW u \in Users, requests \in [Requests -> RequestRecords],
           \/ \E s \in ChosenSlippages : Change(r, u, "slippage", s)
           \/ \E p \in Preferences : Change(r, u, "preferredAggregator", p)
    PROVE  \E q \in ChangeRecords : q.pc = "editing" /\ requests' = [requests EXCEPT ![r] = q]
<1>1. Saved(u) \in SUBSET Requests
  BY DEF Saved, Changes
<1>2. ASSUME NEW s \in ChosenSlippages, Change(r, u, "slippage", s)
      PROVE  \E q \in ChangeRecords : q.pc = "editing" /\ requests' = [requests EXCEPT ![r] = q]
  <2> DEFINE q == [pc |-> "editing", user |-> u, field |-> "slippage",
                   wanted |-> [Null EXCEPT !["slippage"] = s], current |-> Null, after |-> Saved(u)]
  <2>1. q \in ChangeRecords /\ q.pc = "editing"
    BY <1>1 DEF ChangeRecords, Null
  <2> QED BY <1>2, <2>1 DEF Change
<1>3. ASSUME NEW p \in Preferences, Change(r, u, "preferredAggregator", p)
      PROVE  \E q \in ChangeRecords : q.pc = "editing" /\ requests' = [requests EXCEPT ![r] = q]
  <2> DEFINE q == [pc |-> "editing", user |-> u, field |-> "preferredAggregator",
                   wanted |-> [Null EXCEPT !["preferredAggregator"] = p], current |-> Null, after |-> Saved(u)]
  <2>1. q \in ChangeRecords /\ q.pc = "editing"
    BY <1>1 DEF ChangeRecords, Null
  <2> QED BY <1>3, <2>1 DEF Change
<1> QED BY <1>2, <1>3

\* What a change goes on to read and write.
LEMMA ChangeGoesOn ==
    ASSUME NEW q \in ChangeRecords, NEW current \in StoredSettings
    PROVE  /\ [q EXCEPT !.pc = "persisting", !.current = current] \in ChangeRecords
           /\ [q EXCEPT !.pc = "persisting", !.current = current].pc = "persisting"
           /\ \A pc \in {"saved", "unsaved"} :
                 [q EXCEPT !.pc = pc] \in ChangeRecords /\ [q EXCEPT !.pc = pc].pc = pc
           /\ [current EXCEPT ![q.field] = q.wanted[q.field]] \in StoredSettings
<1>1. CASE q.field = "slippage"
  <2>1. q \in [pc : {"editing", "persisting", "saved", "unsaved"}, user : Users,
               field : {"slippage"}, wanted : [slippage : ChosenSlippages, preferredAggregator : {"none"}],
               current : StoredSettings \cup {Null}, after : SUBSET Requests]
    BY <1>1 DEF ChangeRecords
  <2>2. [current EXCEPT ![q.field] = q.wanted[q.field]] \in StoredSettings
    BY <2>1 DEF StoredSettings
  <2> QED BY <2>1, <2>2 DEF ChangeRecords
<1>2. CASE q.field = "preferredAggregator"
  <2>1. q \in [pc : {"editing", "persisting", "saved", "unsaved"}, user : Users,
               field : {"preferredAggregator"},
               wanted : [slippage : {-1}, preferredAggregator : Preferences],
               current : StoredSettings \cup {Null}, after : SUBSET Requests]
    BY <1>2 DEF ChangeRecords
  <2>2. [current EXCEPT ![q.field] = q.wanted[q.field]] \in StoredSettings
    BY <2>1 DEF StoredSettings
  <2> QED BY <2>1, <2>2 DEF ChangeRecords
<1> QED BY <1>1, <1>2 DEF ChangeRecords

\* A step that neither begins, takes further nor ends a change that counts.
Quiet ==
    /\ settings' = settings
    /\ \A r \in Requests :
          /\ requests'[r].pc \in {"editing", "persisting", "saved"} => requests'[r] = requests[r]
          /\ requests[r].pc = "saved" => requests'[r] = requests[r]

LEMMA QuietKeeps ==
    ASSUME ChangeInv, Quiet
    PROVE  ChangeInv'
<1>1. \A u : Saved(u)' = Saved(u)
  BY DEF Saved, Changes, Quiet
<1>2. \A u : GetSettings(u)' = GetSettings(u)
  BY DEF GetSettings, Quiet
<1>3. ReadInv' BY <1>1, <1>2 DEF ChangeInv, ReadInv, Quiet
<1>4. AfterInv' BY <1>1 DEF ChangeInv, AfterInv, Quiet, Saved, Changes
<1>5. ASSUME NEW u \in Users, NEW q \in Saved(u) PROVE requests'[q] = requests[q]
  BY <1>5 DEF Quiet, Saved, Changes
<1>6. LastInv' BY <1>1, <1>2, <1>5 DEF ChangeInv, LastInv, IsLast, Wanted
<1> QED BY <1>3, <1>4, <1>6 DEF ChangeInv

\* A change begins after everything its user has saved.
LEMMA BeginKeeps ==
    ASSUME ChangeInv, requests \in [Requests -> RequestRecords],
           NEW r \in Requests, NEW u \in Users, requests[r].pc = "idle", settings' = settings,
           \/ \E s \in ChosenSlippages : Change(r, u, "slippage", s)
           \/ \E p \in Preferences : Change(r, u, "preferredAggregator", p)
    PROVE  ChangeInv'
<1>1. PICK q : /\ requests' = [requests EXCEPT ![r] = q]
               /\ q.pc = "editing" /\ q.user = u /\ q.after = Saved(u)
  BY DEF Change
<1>2. \A v : Saved(v)' = Saved(v)
  BY <1>1 DEF Saved, Changes
<1>3. \A v : GetSettings(v)' = GetSettings(v)
  BY DEF GetSettings
<1>4. ReadInv' BY <1>1, <1>2, <1>3 DEF ChangeInv, ReadInv
<1>5. AfterInv' BY <1>1, <1>2 DEF ChangeInv, AfterInv, Saved, Changes
<1>6. ASSUME NEW v \in Users, NEW p \in Saved(v) PROVE requests'[p] = requests[p]
  BY <1>1, <1>6 DEF Saved, Changes
<1>7. LastInv' BY <1>2, <1>3, <1>6 DEF ChangeInv, LastInv, IsLast, Wanted
<1> QED BY <1>4, <1>5, <1>7 DEF ChangeInv

\* What a change reads is what is stored.
LEMMA ReadKeeps ==
    ASSUME ChangeInv, SettingsTypeOK, requests \in [Requests -> RequestRecords],
           NEW r \in Requests, ReadSettings(r)
    PROVE  ChangeInv'
<1>1. requests[r] \in ChangeRecords /\ requests[r].pc = "editing"
  BY RecordOfPc DEF ReadSettings
<1>2. requests[r].user \in Users
  BY <1>1 DEF ChangeRecords
<1>3. GetSettings(requests[r].user) \in StoredSettings
  BY <1>2, SettingsRead
<1>4. PICK q : /\ requests' = [requests EXCEPT ![r] = q]
               /\ q.pc = "persisting" /\ q.current = GetSettings(requests[r].user)
               /\ q.user = requests[r].user /\ q.after = requests[r].after
  <2> DEFINE q == [requests[r] EXCEPT !.pc = "persisting",
                                      !.current = GetSettings(requests[r].user)]
  <2>1. requests' = [requests EXCEPT ![r] = q]
    BY DEF ReadSettings
  <2>2. /\ q.pc = "persisting" /\ q.current = GetSettings(requests[r].user)
        /\ q.user = requests[r].user /\ q.after = requests[r].after
    BY <1>1 DEF ChangeRecords
  <2> QED BY <2>1, <2>2
<1>5. \A v : Saved(v)' = Saved(v)
  BY <1>1, <1>4 DEF Saved, Changes
<1>6. \A v : GetSettings(v)' = GetSettings(v)
  BY DEF GetSettings, ReadSettings, settingsVars
<1>7. ReadInv' BY <1>3, <1>4, <1>5, <1>6 DEF ChangeInv, ReadInv
<1>8. AfterInv' BY <1>1, <1>4, <1>5 DEF ChangeInv, AfterInv, Saved, Changes
<1>9. ASSUME NEW v \in Users, NEW p \in Saved(v) PROVE requests'[p] = requests[p]
  BY <1>1, <1>4, <1>9 DEF Saved, Changes
<1>10. LastInv' BY <1>5, <1>6, <1>9 DEF ChangeInv, LastInv, IsLast, Wanted
<1> QED BY <1>7, <1>8, <1>10 DEF ChangeInv

\* What a change stores is what it read with one field replaced.  When no other
\* was saved meanwhile, it is the last of its field and leaves the other alone.
LEMMA PersistKeeps ==
    ASSUME ChangeInv, SettingsTypeOK, requests \in [Requests -> RequestRecords],
           NEW r \in Requests, PersistSettings(r)
    PROVE  ChangeInv'
<1>1. requests[r] \in ChangeRecords /\ requests[r].pc = "persisting"
  BY RecordOfPc DEF PersistSettings
<1>2. PICK u \in Users, f \in DOMAIN DefaultSettings :
         requests[r].user = u /\ requests[r].field = f
  BY <1>1 DEF ChangeRecords, DefaultSettings
<1>3. requests[r].current \in StoredSettings
  BY <1>1 DEF ChangeInv, ReadInv
<1>4. CASE u \notin known
  BY <1>1, <1>2, <1>4, QuietKeeps DEF PersistSettings, UpdateSettings, Quiet, ChangeRecords
<1>5. CASE u \in known
  <2>1. /\ requests' = [requests EXCEPT ![r] = [requests[r] EXCEPT !.pc = "saved"]]
        /\ settings' = [settings EXCEPT ![u] = [requests[r].current EXCEPT ![f] = Wanted(r)]]
    BY <1>2, <1>5 DEF PersistSettings, UpdateSettings
  <2>2. /\ requests'[r].pc = "saved" /\ requests'[r].user = u /\ requests'[r].field = f
        /\ requests'[r].after = requests[r].after /\ requests'[r].wanted = requests[r].wanted
        /\ \A q \in Requests \ {r} : requests'[q] = requests[q]
    BY <1>1, <1>2, <2>1 DEF ChangeRecords
  <2>3. \A v : Saved(v)' = IF v = u THEN Saved(v) \cup {r} ELSE Saved(v)
    BY <1>1, <1>2, <2>2 DEF Saved, Changes
  <2>4. \A v : r \notin Saved(v)
    BY <1>1 DEF Saved, Changes
  <2>5. \A v \in Users \ {u} : GetSettings(v)' = GetSettings(v)
    BY <2>1 DEF GetSettings, SettingsTypeOK
  <2>6. GetSettings(u)' = [requests[r].current EXCEPT ![f] = Wanted(r)]
    <3> DEFINE stored == [requests[r].current EXCEPT ![f] = Wanted(r)]
    <3>1. stored \in StoredSettings
      BY <1>1, <1>2, <1>3, ChangeGoesOn DEF Wanted
    <3>2. settings'[u] = stored
      BY <1>2, <2>1 DEF SettingsTypeOK
    <3> HIDE DEF stored
    <3>3. ParseUserSettings(stored) = stored
      BY <3>1, StoredIsRead
    <3> QED BY <3>2, <3>3 DEF GetSettings, stored
  <2>7. \A q \in Requests : r \notin requests[q].after \/ requests[q].pc \notin {"editing", "persisting", "saved"}
    BY <2>4 DEF ChangeInv, AfterInv
  <2>8. ReadInv'
    <3> SUFFICES ASSUME NEW q \in Requests, requests'[q].pc = "persisting"
                 PROVE  /\ requests'[q].current \in StoredSettings
                        /\ Saved(requests[q].user)' \subseteq requests'[q].after =>
                              requests'[q].current = GetSettings(requests[q].user)'
      BY DEF ReadInv
    <3>1. q # r /\ requests'[q] = requests[q]
      BY <2>2
    <3>2. requests[q].user \in Users
      BY <3>1, RecordOfPc DEF ChangeRecords
    <3>3. CASE requests[q].user = u
      BY <2>3, <2>7, <3>1, <3>3 DEF ChangeInv, ReadInv
    <3>4. CASE requests[q].user # u
      BY <2>3, <2>5, <3>1, <3>2, <3>4 DEF ChangeInv, ReadInv
    <3> QED BY <3>3, <3>4
  <2>9. AfterInv'
    <3> SUFFICES ASSUME NEW p \in Requests, requests'[p].pc \in {"editing", "persisting", "saved"},
                        NEW q \in requests'[p].after
                 PROVE  q \in Saved(requests[p].user)' /\ p \notin requests'[q].after
      BY DEF AfterInv
    <3>1. /\ requests'[p].after = requests[p].after /\ requests'[p].user = requests[p].user
          /\ requests[p].pc \in {"editing", "persisting", "saved"}
      BY <1>1, <1>2, <2>2
    <3>2. q \in Saved(requests[p].user) /\ p \notin requests[q].after
      BY <3>1 DEF ChangeInv, AfterInv
    <3>3. requests'[q].after = requests[q].after
      BY <2>2, <3>2 DEF Saved, Changes
    <3> QED BY <2>3, <3>1, <3>2, <3>3
  <2>10. LastInv'
    <3> SUFFICES ASSUME NEW v \in Users, NEW field \in DOMAIN DefaultSettings,
                        \A p, q \in Saved(v)' : p = q \/ p \in requests'[q].after \/ q \in requests'[p].after
                 PROVE  LET made == {q \in Saved(v)' : requests'[q].field = field}
                        IN  \/ made = {} /\ GetSettings(v)'[field] = DefaultSettings[field]
                            \/ \E q \in made :
                                  /\ \A p \in made \ {q} : p \in requests'[q].after
                                  /\ GetSettings(v)'[field] = Wanted(q)'
      BY DEF LastInv, IsLast, DefaultSettings
    <3> DEFINE made == {q \in Saved(v) : requests[q].field = field}
    <3>1. \A q \in Saved(v) : q \in Requests /\ requests'[q] = requests[q]
      BY <2>2, <2>4 DEF Saved, Changes
    <3>2. \A p, q \in Saved(v) : p = q \/ p \in requests[q].after \/ q \in requests[p].after
      BY <2>3, <3>1
    <3>3. \/ made = {} /\ GetSettings(v)[field] = DefaultSettings[field]
          \/ \E q \in made : IsLast(q, made) /\ GetSettings(v)[field] = Wanted(q)
      BY <3>2 DEF ChangeInv, LastInv
    <3>4. CASE v # u
      <4>1. Saved(v)' = Saved(v) /\ GetSettings(v)' = GetSettings(v)
        BY <2>3, <2>5, <3>4
      <4> QED BY <3>1, <3>3, <4>1 DEF IsLast, Wanted
    <3>5. CASE v = u
      <4>1. \A q \in Saved(u) : q \in requests[r].after
        BY <2>2, <2>3, <2>4, <2>7, <3>1, <3>5 DEF Saved, Changes
      <4>2. requests[r].current = GetSettings(u)
        BY <1>1, <1>2, <4>1 DEF ChangeInv, ReadInv
      <4>3. CASE field = f
        <5>1. GetSettings(u)'[field] = Wanted(r)'
          BY <1>1, <1>2, <1>3, <2>2, <2>6, <4>3 DEF Wanted, StoredSettings, ChangeRecords
        <5>2. r \in {q \in Saved(u)' : requests'[q].field = field}
          BY <2>2, <2>3, <4>3
        <5>3. \A q \in Saved(u)' \ {r} : q \in requests'[r].after
          BY <2>2, <2>3, <4>1
        <5> QED BY <3>5, <5>1, <5>2, <5>3 DEF IsLast
      <4>4. CASE field # f
        <5>1. GetSettings(u)'[field] = GetSettings(u)[field]
          BY <1>3, <2>6, <4>2, <4>4 DEF StoredSettings
        <5>2. {q \in Saved(u)' : requests'[q].field = field} = {q \in Saved(u) : requests[q].field = field}
          BY <2>2, <2>3, <3>1, <3>5, <4>4
        <5> QED BY <3>1, <3>3, <3>5, <5>1, <5>2 DEF IsLast, Wanted
      <4> QED BY <4>3, <4>4
    <3> QED BY <3>4, <3>5
  <2> QED BY <2>8, <2>9, <2>10 DEF ChangeInv
<1> QED BY <1>4, <1>5

\* What a handler of /settings does to the requests: one of its own goes on.
SettingsMove(r) ==
    \E q \in RequestRecords :
        /\ requests' = [requests EXCEPT ![r] = q]
        /\ requests[r].pc \in {"idle", "editing", "persisting"}
        /\ q.pc \in {"asked", "rejected", "editing", "persisting", "saved", "unsaved"}

\* A handler of /settings keeps the types and the invariant of the changes.
LEMMA SettingsStepKeeps ==
    ASSUME ChangeInv, SettingsTypeOK, requests \in [Requests -> RequestRecords],
           NEW r \in Requests, SettingsStep(r)
    PROVE  SettingsMove(r) /\ SettingsTypeOK' /\ ChangeInv'
<1>1. ASSUME NEW u \in Users, requests[r].pc = "idle", SettingsTypeOK', settings' = settings,
             \/ \E s \in ChosenSlippages : Change(r, u, "slippage", s)
             \/ \E p \in Preferences : Change(r, u, "preferredAggregator", p)
      PROVE  SettingsMove(r) /\ ChangeInv'
  <2>1. PICK q \in ChangeRecords : q.pc = "editing" /\ requests' = [requests EXCEPT ![r] = q]
    BY <1>1, ChangeBegins
  <2>2. SettingsMove(r)
    BY <1>1, <2>1 DEF SettingsMove, RequestRecords
  <2> QED BY <1>1, <2>2, BeginKeeps
<1>2. ASSUME NEW q \in RequestRecords, requests[r].pc = "idle", q.pc \in {"asked", "rejected"},
             requests' = [requests EXCEPT ![r] = q], settings' = settings
      PROVE  SettingsMove(r) /\ ChangeInv'
  <2>1. Quiet BY <1>2 DEF Quiet
  <2> QED BY <1>2, <2>1, QuietKeeps DEF SettingsMove
<1>3. ASSUME NEW u \in Users, PressSetting(r, u)
      PROVE  SettingsMove(r) /\ SettingsTypeOK' /\ ChangeInv'
  <2>1. SettingsTypeOK' BY <1>3 DEF PressSetting, SettingsTypeOK
  <2>2. \/ \E s \in ChosenSlippages : Change(r, u, "slippage", s)
        \/ \E p \in Preferences : Change(r, u, "preferredAggregator", p)
    BY <1>3 DEF PressSetting, ChosenSlippages
  <2> QED BY <1>1, <1>3, <2>1, <2>2 DEF PressSetting
<1>4. ASSUME NEW u \in Users, RequestCustomSlippage(r, u)
      PROVE  SettingsMove(r) /\ SettingsTypeOK' /\ ChangeInv'
  <2>1. SettingsTypeOK' BY <1>4 DEF RequestCustomSlippage, SettingsTypeOK
  <2>2. [pc |-> "asked"] \in RequestRecords BY DEF RequestRecords
  <2> QED BY <1>2, <1>4, <2>1, <2>2 DEF RequestCustomSlippage
<1>5. ASSUME NEW u \in Users, NEW value \in Typed, HandleTextInput(r, u, value)
      PROVE  SettingsMove(r) /\ SettingsTypeOK' /\ ChangeInv'
  <2>1. SettingsTypeOK' BY <1>5 DEF HandleTextInput, SettingsTypeOK
  <2>2. CASE IsValidSlippage(value)
    <3>1. value \in ChosenSlippages BY <2>2 DEF ChosenSlippages
    <3>2. Change(r, u, "slippage", value)
      BY <1>5, <2>2 DEF HandleTextInput, ProcessCustomSlippage
    <3> QED BY <1>1, <1>5, <2>1, <3>1, <3>2 DEF HandleTextInput
  <2>3. CASE ~IsValidSlippage(value)
    <3>1. [pc |-> "rejected"] \in RequestRecords BY DEF RequestRecords
    <3>2. requests' = [requests EXCEPT ![r] = [pc |-> "rejected"]]
      BY <1>5, <2>3 DEF HandleTextInput, ProcessCustomSlippage
    <3> QED BY <1>2, <1>5, <2>1, <3>1, <3>2 DEF HandleTextInput
  <2> QED BY <2>2, <2>3
<1>6. CASE ReadSettings(r)
  <2>1. requests[r] \in ChangeRecords /\ requests[r].pc = "editing"
    BY <1>6, RecordOfPc DEF ReadSettings
  <2>2. GetSettings(requests[r].user) \in StoredSettings
    BY <2>1, SettingsRead DEF ChangeRecords
  <2>3. SettingsTypeOK' BY <1>6 DEF ReadSettings, settingsVars, SettingsTypeOK
  <2>4. SettingsMove(r)
    <3> DEFINE q == [requests[r] EXCEPT !.pc = "persisting",
                                        !.current = GetSettings(requests[r].user)]
    <3>1. q \in ChangeRecords /\ q.pc = "persisting"
      BY <2>1, <2>2, ChangeGoesOn
    <3>2. requests' = [requests EXCEPT ![r] = q]
      BY <1>6 DEF ReadSettings
    <3> HIDE DEF q
    <3> QED BY <2>1, <3>1, <3>2 DEF SettingsMove, RequestRecords
  <2> QED BY <1>6, <2>3, <2>4, ReadKeeps
<1>7. CASE PersistSettings(r)
  <2>1. requests[r] \in ChangeRecords /\ requests[r].pc = "persisting"
    BY <1>7, RecordOfPc DEF PersistSettings
  <2>2. requests[r].current \in StoredSettings
    BY <2>1 DEF ChangeInv, ReadInv
  <2> DEFINE updated == [requests[r].current EXCEPT ![requests[r].field] = Wanted(r)]
  <2>3. updated \in StoredSettings
    BY <2>1, <2>2, ChangeGoesOn DEF Wanted
  <2>4. UpdateSettings(requests[r].user, updated) /\ UNCHANGED <<known, questions>>
    BY <1>7 DEF PersistSettings
  <2>5. SettingsTypeOK'
    <3> HIDE DEF updated
    <3> QED BY <2>3, <2>4 DEF UpdateSettings, SettingsTypeOK
  <2>6. SettingsMove(r)
    <3>1. PICK pc \in {"saved", "unsaved"} :
            requests' = [requests EXCEPT ![r] = [requests[r] EXCEPT !.pc = pc]]
      BY <1>7 DEF PersistSettings
    <3>2. /\ [requests[r] EXCEPT !.pc = pc] \in ChangeRecords
          /\ [requests[r] EXCEPT !.pc = pc].pc = pc
      BY <2>1, <2>2, ChangeGoesOn
    <3> QED BY <2>1, <3>1, <3>2 DEF SettingsMove, RequestRecords
  <2> QED BY <1>7, <2>5, <2>6, PersistKeeps
<1> QED BY <1>3, <1>4, <1>5, <1>6, <1>7 DEF SettingsStep

-----------------------------------------------------------------------------
(* Presses, confirmations and executions.                                  *)

\* What a step may do to one request: an offer and an execution stay; past the
\* SELECT a request is the owner's; a new execution comes from a claim assessed
\* as safe enough, or from a confirmation that it takes away.
Moves(d) ==
    /\ requests[d].pc \in {"offered", "executed"} => requests'[d] = requests[d]
    /\ requests[d].pc = "create" => requests'[d].pc \in {"create", "executed", "lost"}
    /\ requests'[d].pc \in {"expire", "claim", "assess"} =>
          requests'[d].user = Owner[requests'[d].intent]
    /\ requests'[d].pc \in {"create", "executed"} =>
          \/ /\ requests[d].pc \in {"create", "executed"}
             /\ requests'[d].choice = requests[d].choice
             /\ requests'[d].claim = requests[d].claim
             /\ requests'[d].confirmed = requests[d].confirmed
             /\ requests'[d].at = requests[d].at
          \/ /\ requests[d].pc = "assess" /\ requests'[d].claim = d
             /\ ~requests'[d].confirmed
             /\ Passes(requests'[d].choice, FALSE)
             /\ requests'[d].choice.user = Owner[requests'[d].choice.intent]
          \/ /\ requests[d].pc = "idle" /\ requests'[d].confirmed
             /\ requests'[d].claim \in DOMAIN confirmations \ DOMAIN confirmations'
             /\ requests'[d].choice = confirmations[requests'[d].claim].choice
             /\ requests'[d].at <= confirmations[requests'[d].claim].expiresAt
             /\ \A e \in Requests \ {d} : requests'[e] = requests[e]

\* A confirmation appears only with the assessment of its claim.
Offers ==
    \A t \in DOMAIN confirmations' :
        \/ t \in DOMAIN confirmations /\ confirmations'[t] = confirmations[t]
        \/ /\ t \in Requests /\ requests[t].pc = "assess" /\ requests'[t].pc = "offered"
           /\ confirmations'[t] \in [choice : Choices, expiresAt : 0..(MaxTime + ConfirmTtl)]
           /\ confirmations'[t].expiresAt = requests'[t].at + ConfirmTtl
           /\ LET choice == confirmations'[t].choice
              IN  /\ choice.user = Owner[choice.intent]
                  /\ EvaluateRouteRisk(Route[choice.aggregator], choice.slippage) = High

\* A new execution is that of a request that has just created it.
Creates ==
    \A x \in executions' \ executions :
        /\ x.id \in Requests /\ requests'[x.id] \in CreateRecords
        /\ requests'[x.id].pc = "executed"
        /\ x = [id |-> x.id, claim |-> requests'[x.id].claim,
                confirmed |-> requests'[x.id].confirmed,
                at |-> requests'[x.id].at, choice |-> requests'[x.id].choice]

\* What a step does, and that it leaves the changes of the settings as they were
\* or takes one further.
StepFacts ==
    /\ TypeOK' /\ ChangeInv'
    /\ \A d \in Requests : Moves(d)
    /\ Offers /\ Creates

\* One request is replaced; it was not, and becomes not, a change.
Replaced(r, q) ==
    /\ requests' = [requests EXCEPT ![r] = q]
    /\ requests[r].pc \notin {"editing", "persisting", "saved"}
    /\ q.pc \notin {"editing", "persisting", "saved"}
    /\ settings' = settings

LEMMA ReplacedKeeps ==
    ASSUME ChangeInv, requests \in [Requests -> RequestRecords], NEW r \in Requests, NEW q,
           Replaced(r, q)
    PROVE  ChangeInv'
BY QuietKeeps DEF Quiet, Replaced

\* The surroundings and the handlers of /settings.
LEMMA SurroundingsFacts ==
    ASSUME IInv,
           \/ Tick
           \/ \E u \in Users : OpenMenu(u) /\ UNCHANGED selectionVars
           \/ \E r \in Requests : SettingsStep(r) /\ UNCHANGED selectionVars
           \/ \E i \in Intents : CreateIntent(i) \/ AuditIntent(i)
           \/ Crash
    PROVE  StepFacts
<1> USE OwnerAssumption, TimeAssumption, CrashAssumption DEF IInv
<1>1. CASE UNCHANGED <<settings, questions, requests, confirmations, executions>> /\ TypeOK'
  <2>1. ChangeInv' BY <1>1, QuietKeeps DEF Quiet
  <2>2. \A d \in Requests : Moves(d) BY <1>1 DEF Moves, RequestInv
  <2> QED BY <1>1, <2>1, <2>2 DEF StepFacts, Offers, Creates
<1>2. CASE Tick
  <2>1. TypeOK' BY <1>2 DEF Tick, TypeOK, SettingsTypeOK, settingsVars
  <2> QED BY <1>1, <1>2, <2>1 DEF Tick, settingsVars
<1>3. ASSUME NEW u \in Users, OpenMenu(u), UNCHANGED selectionVars
      PROVE  StepFacts
  <2>1. TypeOK' BY <1>3 DEF OpenMenu, selectionVars, TypeOK, SettingsTypeOK
  <2>2. ChangeInv' BY <1>3, QuietKeeps DEF OpenMenu, Quiet
  <2>3. \A d \in Requests : Moves(d) BY <1>3 DEF OpenMenu, selectionVars, Moves, RequestInv
  <2> QED BY <1>3, <2>1, <2>2, <2>3 DEF StepFacts, Offers, Creates, OpenMenu, selectionVars
<1>4. ASSUME NEW r \in Requests, SettingsStep(r), UNCHANGED selectionVars
      PROVE  StepFacts
  <2>1. SettingsMove(r) /\ SettingsTypeOK' /\ ChangeInv'
    BY <1>4, SettingsStepKeeps DEF TypeOK
  <2>2. PICK q \in RequestRecords :
          /\ requests' = [requests EXCEPT ![r] = q]
          /\ requests[r].pc \in {"idle", "editing", "persisting"}
          /\ q.pc \in {"asked", "rejected", "editing", "persisting", "saved", "unsaved"}
    BY <2>1 DEF SettingsMove
  <2>3. TypeOK' BY <1>4, <2>1, <2>2 DEF selectionVars, TypeOK
  <2>4. \A d \in Requests : Moves(d) BY <2>2 DEF Moves, RequestInv, TypeOK
  <2> QED BY <1>4, <2>1, <2>3, <2>4 DEF StepFacts, Offers, Creates, selectionVars
<1>5. ASSUME NEW i \in Intents, CreateIntent(i) PROVE StepFacts
  <2>1. now + QuoteTtl \in 0..(MaxTime + QuoteTtl) BY DEF TypeOK
  <2>2. TypeOK' BY <1>5, <2>1 DEF CreateIntent, UpsertUser, TypeOK, SettingsTypeOK
  <2> QED BY <1>1, <1>5, <2>2 DEF CreateIntent
<1>6. ASSUME NEW i \in Intents, AuditIntent(i) PROVE StepFacts
  <2>1. TypeOK' BY <1>6 DEF AuditIntent, TypeOK, SettingsTypeOK, settingsVars
  <2> QED BY <1>1, <1>6, <2>1 DEF AuditIntent, settingsVars
<1>7. CASE Crash
  <2>1. \A d \in Requests : requests'[d] = requests[d] \/ requests'[d] = [pc |-> "lost"]
    BY <1>7 DEF Crash
  <2>2. requests' \in [Requests -> RequestRecords]
    BY <1>7, <2>1 DEF Crash, TypeOK, RequestRecords
  <2>3. DOMAIN confirmations' = {}
    BY <1>7 DEF Crash
  <2>4. TypeOK' BY <1>7, <2>2, <2>3 DEF Crash, settingsVars, TypeOK, SettingsTypeOK
  <2>5. ChangeInv' BY <1>7, QuietKeeps DEF Crash, settingsVars, Quiet, Done
  <2>6. \A d \in Requests : Moves(d) BY <1>7 DEF Crash, Moves, Done, RequestInv
  <2> QED BY <1>7, <2>3, <2>4, <2>5, <2>6 DEF StepFacts, Offers, Creates, Crash
<1> QED BY <1>2, <1>3, <1>4, <1>5, <1>6, <1>7

\* A press of an option, up to the commit of its claim.
LEMMA PressFacts ==
    ASSUME IInv, NEW r \in Requests,
           \/ \E u \in Users, i \in Intents, a \in Aggregators : PressOption(r, u, i, a)
           \/ ReadOption(r) \/ ExpireIntent(r) \/ ClaimOption(r)
    PROVE  StepFacts
<1>1. PICK q \in PressRecords :
         /\ requests' = [requests EXCEPT ![r] = q]
         /\ requests[r].pc \in {"idle", "read", "expire", "claim"}
         /\ q.pc \in {"expire", "claim", "assess"} => q.user = Owner[q.intent]
  <2>1. ASSUME NEW u \in Users, NEW i \in Intents, NEW a \in Aggregators, PressOption(r, u, i, a)
        PROVE  \E q \in PressRecords :
                 /\ requests' = [requests EXCEPT ![r] = q]
                 /\ requests[r].pc \in {"idle", "read", "expire", "claim"}
                 /\ q.pc \in {"expire", "claim", "assess"} => q.user = Owner[q.intent]
    <3> DEFINE q == [pc |-> "read", user |-> u, intent |-> i, aggregator |-> a]
    <3>1. q \in PressRecords /\ q.pc = "read" BY DEF PressRecords
    <3> QED BY <2>1, <3>1 DEF PressOption
  <2>2. ASSUME ReadOption(r) \/ ExpireIntent(r) \/ ClaimOption(r)
        PROVE  \E q \in PressRecords :
                 /\ requests' = [requests EXCEPT ![r] = q]
                 /\ requests[r].pc \in {"idle", "read", "expire", "claim"}
                 /\ q.pc \in {"expire", "claim", "assess"} => q.user = Owner[q.intent]
    <3>1. requests[r] \in PressRecords /\ requests[r].pc \in {"read", "expire", "claim"}
      BY <2>2, RecordOfPc DEF IInv, TypeOK, ReadOption, ExpireIntent, ClaimOption
    <3>2. PICK pc \in {"rejected", "expire", "claim", "assess"} :
             /\ requests' = [requests EXCEPT ![r] = [requests[r] EXCEPT !.pc = pc]]
             /\ pc \in {"expire", "claim", "assess"} =>
                   requests[r].user = Owner[requests[r].intent]
      BY <2>2 DEF IInv, RequestInv, ReadOption, Refuse, ExpireIntent, ClaimOption
    <3> DEFINE q == [requests[r] EXCEPT !.pc = pc]
    <3>3. q \in PressRecords /\ q.pc = pc /\ q.user = requests[r].user /\ q.intent = requests[r].intent
      BY <3>1 DEF PressRecords
    <3> HIDE DEF q
    <3> QED BY <3>1, <3>2, <3>3 DEF q
  <2> QED BY <2>1, <2>2
<1>2. UNCHANGED <<now, settingsVars, confirmations, executions, crashes>>
  BY DEF PressOption, ReadOption, ExpireIntent, ClaimOption
<1>3. requests' \in [Requests -> RequestRecords]
  BY <1>1 DEF IInv, TypeOK, RequestRecords
<1>4. consumed' \subseteq Intents \X Aggregators
  <2>1. CASE ClaimOption(r)
    <3>1. requests[r] \in PressRecords
      BY <2>1, RecordOfPc DEF IInv, TypeOK, ClaimOption
    <3> QED BY <2>1, <3>1 DEF IInv, TypeOK, ClaimOption, OptionOf, PressRecords
  <2> QED BY <2>1 DEF IInv, TypeOK, PressOption, ReadOption, ExpireIntent
<1>5. TypeOK'
  <2>1. CASE intents' = intents
    BY <1>2, <1>3, <1>4, <2>1 DEF IInv, TypeOK, SettingsTypeOK, settingsVars
  <2>2. CASE ExpireIntent(r) \/ ClaimOption(r)
    <3>1. requests[r].intent \in Intents /\ requests[r].aggregator \in Aggregators
      BY <2>2, RecordOfPc DEF IInv, TypeOK, PressRecords, ExpireIntent, ClaimOption
    <3> QED
      BY <1>2, <1>3, <1>4, <2>2, <3>1
      DEF IInv, TypeOK, SettingsTypeOK, settingsVars, ExpireIntent, ClaimOption
  <2> QED BY <2>1, <2>2 DEF PressOption, ReadOption
<1>6. ChangeInv'
  BY <1>1, <1>2, ReplacedKeeps DEF IInv, TypeOK, PressRecords, Replaced, settingsVars
<1>7. \A d \in Requests : Moves(d)
  BY ZenonT(40), <1>1 DEF IInv, TypeOK, RequestInv, PressRecords, Moves
<1> QED BY <1>2, <1>5, <1>6, <1>7 DEF StepFacts, Offers, Creates

\* The assessment of a claim: what is assessed is what is executed or kept.
LEMMA AssessFacts ==
    ASSUME IInv, NEW r \in Requests, AssessRoute(r)
    PROVE  StepFacts
<1> DEFINE s == ResolveSlippage(requests[r].user)
           choice == [user |-> requests[r].user, intent |-> requests[r].intent,
                      aggregator |-> requests[r].aggregator, slippage |-> s]
           level == EvaluateRouteRisk(Route[requests[r].aggregator], s)
<1>1. requests[r] \in PressRecords /\ requests[r].pc = "assess"
      /\ requests[r].user = Owner[requests[r].intent]
  BY RecordOfPc DEF IInv, TypeOK, RequestInv, AssessRoute
<1>2. choice \in Choices /\ choice.user = Owner[choice.intent]
      /\ choice.aggregator = requests[r].aggregator /\ choice.slippage = s
  BY <1>1, SettingsRead DEF IInv, TypeOK, PressRecords, Choices
<1>3. UNCHANGED <<now, intents, consumed, settingsVars, executions, crashes>>
  BY DEF AssessRoute
<1>4. now \in 0..MaxTime /\ now + ConfirmTtl \in 0..(MaxTime + ConfirmTtl)
  BY TimeAssumption DEF IInv, TypeOK
<1> HIDE DEF choice
<1>5. CASE level = Blocked /\ Goto(r, "blocked") /\ UNCHANGED confirmations
  <2> DEFINE q == [requests[r] EXCEPT !.pc = "blocked"]
  <2>1. q \in PressRecords /\ q.pc = "blocked" /\ requests' = [requests EXCEPT ![r] = q]
    BY <1>1, <1>5, GoesOn DEF RequestRecords
  <2> HIDE DEF q
  <2>2. TypeOK' BY <1>3, <1>5, <2>1 DEF IInv, TypeOK, SettingsTypeOK, settingsVars, RequestRecords
  <2>3. ChangeInv'
    BY <1>1, <1>3, <2>1, ReplacedKeeps DEF IInv, TypeOK, Replaced, settingsVars
  <2>4. \A d \in Requests : Moves(d) BY <1>1, <2>1 DEF IInv, TypeOK, RequestInv, Moves
  <2> QED BY <1>3, <1>5, <2>2, <2>3, <2>4 DEF StepFacts, Offers, Creates
<1>6. CASE /\ level = High
           /\ StoreRiskConfirmation(r, [choice |-> choice, expiresAt |-> now + ConfirmTtl])
           /\ Put(r, [pc |-> "offered", at |-> now])
  <2> DEFINE q == [pc |-> "offered", at |-> now]
             data == [choice |-> choice, expiresAt |-> now + ConfirmTtl]
  <2>1. q \in OfferRecords /\ q.pc = "offered" /\ q.at = now
    BY <1>4 DEF OfferRecords
  <2>2. /\ data \in [choice : Choices, expiresAt : 0..(MaxTime + ConfirmTtl)]
        /\ data.choice = choice /\ data.expiresAt = now + ConfirmTtl
    BY <1>2, <1>4
  <2>3. /\ requests' = [requests EXCEPT ![r] = q]
        /\ StoreRiskConfirmation(r, data)
    BY <1>6
  <2> HIDE DEF q, data
  <2>4. /\ r \in DOMAIN confirmations' /\ confirmations'[r] = data
        /\ \A t \in DOMAIN confirmations' \ {r} :
              t \in DOMAIN confirmations /\ confirmations'[t] = confirmations[t]
    BY <2>3 DEF StoreRiskConfirmation
  <2>5. requests' \in [Requests -> RequestRecords]
    BY <2>1, <2>3 DEF IInv, TypeOK, RequestRecords
  <2>6. TypeOK'
    BY <1>3, <2>2, <2>4, <2>5 DEF IInv, TypeOK, SettingsTypeOK, settingsVars
  <2>7. ChangeInv'
    BY <1>1, <1>3, <2>1, <2>3, ReplacedKeeps DEF IInv, TypeOK, Replaced, settingsVars
  <2>8. \A d \in Requests : Moves(d) BY <1>1, <2>1, <2>3 DEF IInv, TypeOK, RequestInv, Moves
  <2>9. requests'[r] = q BY <2>3 DEF IInv, TypeOK
  <2>10. Offers
    BY <1>1, <1>2, <1>6, <2>1, <2>2, <2>4, <2>9 DEF Offers
  <2> QED BY <1>3, <2>6, <2>7, <2>8, <2>10 DEF StepFacts, Creates
<1>7. CASE /\ level < High
           /\ Put(r, [pc |-> "create", choice |-> choice, claim |-> r,
                      confirmed |-> FALSE, at |-> now])
           /\ UNCHANGED confirmations
  <2> DEFINE q == [pc |-> "create", choice |-> choice, claim |-> r,
                   confirmed |-> FALSE, at |-> now]
  <2>1. /\ q \in CreateRecords /\ q.pc = "create" /\ q.choice = choice
        /\ q.claim = r /\ ~q.confirmed
    BY <1>2, <1>4 DEF CreateRecords
  <2>2. requests' = [requests EXCEPT ![r] = q]
    BY <1>7
  <2> HIDE DEF q
  <2>8. requests' \in [Requests -> RequestRecords]
    BY <2>1, <2>2 DEF IInv, TypeOK, RequestRecords
  <2>3. TypeOK' BY <1>3, <1>7, <2>8 DEF IInv, TypeOK, SettingsTypeOK, settingsVars
  <2>4. ChangeInv'
    BY <1>1, <1>3, <2>1, <2>2, ReplacedKeeps DEF IInv, TypeOK, Replaced, settingsVars
  <2>5. Passes(choice, FALSE)
    BY <1>2, <1>7 DEF Passes
  <2>6. \A d \in Requests : Moves(d)
    BY ZenonT(40), <1>1, <1>2, <2>1, <2>2, <2>5 DEF IInv, TypeOK, RequestInv, Moves
  <2> QED BY <1>3, <1>7, <2>3, <2>4, <2>6 DEF StepFacts, Offers, Creates
<1> QED BY <1>5, <1>6, <1>7 DEF AssessRoute, choice

\* A confirmation pressed in time hands its choice over as it was assessed.
LEMMA ConfirmFacts ==
    ASSUME IInv, NEW r \in Requests, NEW u \in Users, NEW t \in Requests, PressConfirm(r, u, t)
    PROVE  StepFacts
<1>1. requests[r].pc = "idle" /\ requests[t].pc = "offered"
      /\ UNCHANGED <<now, intents, consumed, settingsVars, executions, crashes>>
  BY DEF PressConfirm
<1>2. \A x \in DOMAIN confirmations' : x \in DOMAIN confirmations /\ confirmations'[x] = confirmations[x]
  BY DEF PressConfirm, Confirm, Taken
<1>3. CASE Put(r, [pc |-> "rejected"])
  <2>1. [pc |-> "rejected"] \in RequestRecords BY DEF RequestRecords
  <2>2. TypeOK' BY <1>1, <1>2, <1>3, <2>1 DEF IInv, TypeOK, SettingsTypeOK, settingsVars
  <2>3. ChangeInv'
    BY <1>1, <1>3, ReplacedKeeps DEF IInv, TypeOK, Replaced, settingsVars
  <2>4. \A d \in Requests : Moves(d) BY <1>1, <1>3 DEF IInv, TypeOK, RequestInv, Moves
  <2> QED BY <1>1, <1>2, <2>2, <2>3, <2>4 DEF StepFacts, Offers, Creates
<1>4. CASE /\ t \in DOMAIN confirmations /\ confirmations' = Taken(t)
           /\ NotExpired(confirmations[t])
           /\ Proceed(r, t, confirmations[t].choice)
  <2> DEFINE q == [pc |-> "create", choice |-> confirmations[t].choice, claim |-> t,
                   confirmed |-> TRUE, at |-> now]
  <2>1. confirmations[t].choice \in Choices /\ now \in 0..MaxTime
    BY <1>4 DEF IInv, TypeOK
  <2>2. /\ q \in CreateRecords /\ q.pc = "create" /\ q.choice = confirmations[t].choice
        /\ q.claim = t /\ q.confirmed /\ q.at = now
    BY <2>1 DEF CreateRecords
  <2>3. requests' = [requests EXCEPT ![r] = q]
    BY <1>4 DEF Proceed
  <2>4. t \notin DOMAIN confirmations'
    BY <1>4 DEF Taken
  <2> HIDE DEF q
  <2>5. requests' \in [Requests -> RequestRecords]
    BY <2>2, <2>3 DEF IInv, TypeOK, RequestRecords
  <2>6. TypeOK' BY <1>1, <1>2, <2>5 DEF IInv, TypeOK, SettingsTypeOK, settingsVars
  <2>7. ChangeInv'
    BY <1>1, <2>2, <2>3, ReplacedKeeps DEF IInv, TypeOK, Replaced, settingsVars
  <2>8. \A d \in Requests : Moves(d)
    BY ZenonT(40), <1>1, <1>4, <2>2, <2>3, <2>4 DEF IInv, TypeOK, RequestInv, Moves, NotExpired
  <2> QED BY <1>1, <1>2, <2>6, <2>7, <2>8 DEF StepFacts, Offers, Creates
<1> QED BY <1>3, <1>4 DEF PressConfirm, Confirm

\* The row is that of the request which inserts it.
LEMMA CreateFacts ==
    ASSUME IInv, NEW r \in Requests, CreateExecution(r)
    PROVE  StepFacts
<1> DEFINE q == [requests[r] EXCEPT !.pc = "executed"]
           x == [id |-> r, claim |-> requests[r].claim, confirmed |-> requests[r].confirmed,
                 at |-> requests[r].at, choice |-> requests[r].choice]
<1>1. requests[r] \in CreateRecords /\ requests[r].pc = "create"
  BY RecordOfPc DEF IInv, TypeOK, CreateExecution
<1>2. /\ q \in CreateRecords /\ q.pc = "executed" /\ q.choice = requests[r].choice
      /\ q.claim = requests[r].claim /\ q.confirmed = requests[r].confirmed
      /\ q.at = requests[r].at
  BY <1>1, GoesOn DEF RequestRecords
<1>3. x \in [id : Requests, claim : Requests, confirmed : BOOLEAN, at : 0..MaxTime, choice : Choices]
      /\ x.id = r
  BY <1>1 DEF CreateRecords
<1>4. requests' = [requests EXCEPT ![r] = q] /\ executions' = executions \cup {x}
      /\ UNCHANGED <<now, intents, consumed, settingsVars, confirmations, crashes>>
  BY DEF CreateExecution
<1>5. x = [id |-> r, claim |-> q.claim, confirmed |-> q.confirmed, at |-> q.at, choice |-> q.choice]
  BY <1>2
<1> HIDE DEF q, x
<1>6. requests' \in [Requests -> RequestRecords]
  BY <1>2, <1>4 DEF IInv, TypeOK, RequestRecords
<1>7. TypeOK' BY <1>3, <1>4, <1>6 DEF IInv, TypeOK, SettingsTypeOK, settingsVars
<1>8. ChangeInv'
  BY <1>1, <1>2, <1>4, ReplacedKeeps DEF IInv, TypeOK, Replaced, settingsVars
<1>9. \A d \in Requests : Moves(d)
  BY <1>1, <1>2, <1>4 DEF IInv, TypeOK, RequestInv, Moves
<1>10. Creates
  <2>1. requests'[r] = q BY <1>4 DEF IInv, TypeOK
  <2> QED BY <1>2, <1>3, <1>4, <1>5, <2>1 DEF Creates
<1> QED BY <1>4, <1>7, <1>8, <1>9, <1>10 DEF StepFacts, Offers

LEMMA NextFacts ==
    ASSUME IInv, Next
    PROVE  StepFacts
BY SurroundingsFacts, PressFacts, AssessFacts, ConfirmFacts, CreateFacts DEF Next

-----------------------------------------------------------------------------
(* The inductive invariant.                                                 *)

\* A request keeps what it was let through with.
LEMMA RequestStep ==
    ASSUME IInv, StepFacts
    PROVE  RequestInv'
<1> SUFFICES ASSUME NEW r \in Requests, requests'[r].pc \in {"create", "executed"}
             PROVE  LET claim == requests'[r].claim
                    IN  /\ requests'[r].choice.user = Owner[requests'[r].choice.intent]
                        /\ Passes(requests'[r].choice, requests'[r].confirmed)
                        /\ ~requests'[r].confirmed => claim = r
                        /\ requests'[r].confirmed =>
                              /\ requests'[claim].pc = "offered"
                              /\ claim \notin DOMAIN confirmations'
                              /\ requests'[r].at <= requests'[claim].at + ConfirmTtl
  BY DEF StepFacts, Moves, RequestInv, Passes
<1>1. CASE /\ requests[r].pc \in {"create", "executed"}
           /\ requests'[r].choice = requests[r].choice
           /\ requests'[r].claim = requests[r].claim
           /\ requests'[r].confirmed = requests[r].confirmed
           /\ requests'[r].at = requests[r].at
  <2> DEFINE claim == requests[r].claim
  <2>1. claim \in Requests BY <1>1, RecordOfPc DEF IInv, TypeOK, CreateRecords
  <2>2. CASE ~requests[r].confirmed BY <1>1, <2>2 DEF IInv, RequestInv
  <2>3. CASE requests[r].confirmed
    <3>1. requests[claim].pc = "offered" /\ claim \notin DOMAIN confirmations
      BY <1>1, <2>3 DEF IInv, RequestInv
    <3>2. requests'[claim] = requests[claim] /\ claim \notin DOMAIN confirmations'
      BY <2>1, <3>1 DEF StepFacts, Moves, Offers
    <3> QED BY ZenonT(40), <1>1, <2>3, <3>1, <3>2 DEF IInv, RequestInv
  <2> QED BY <2>2, <2>3
<1>2. CASE /\ requests[r].pc = "assess" /\ requests'[r].claim = r
           /\ ~requests'[r].confirmed
           /\ Passes(requests'[r].choice, FALSE)
           /\ requests'[r].choice.user = Owner[requests'[r].choice.intent]
  BY <1>2 DEF Passes
<1>3. CASE /\ requests[r].pc = "idle" /\ requests'[r].confirmed
           /\ requests'[r].claim \in DOMAIN confirmations \ DOMAIN confirmations'
           /\ requests'[r].choice = confirmations[requests'[r].claim].choice
           /\ requests'[r].at <= confirmations[requests'[r].claim].expiresAt
           /\ \A e \in Requests \ {r} : requests'[e] = requests[e]
  <2> DEFINE claim == requests'[r].claim
  <2>1. claim \in Requests BY <1>3 DEF IInv, TypeOK
  <2>2. /\ requests[claim].pc = "offered"
        /\ confirmations[claim].expiresAt = requests[claim].at + ConfirmTtl
        /\ requests'[r].choice.user = Owner[requests'[r].choice.intent]
        /\ Passes(requests'[r].choice, TRUE)
    BY <1>3 DEF IInv, ConfirmationInv, Passes
  <2>3. requests'[claim] = requests[claim]
    BY <2>1, <2>2 DEF StepFacts, Moves
  <2> QED BY <1>3, <2>2, <2>3 DEF Passes
<1> QED BY <1>1, <1>2, <1>3 DEF StepFacts, Moves

\* No two requests get the same claim: a claim of one's own is of a request
\* that never offered, and a confirmation goes with the first who takes it.
LEMMA ClaimStep ==
    ASSUME IInv, StepFacts
    PROVE  ClaimInv'
<1> SUFFICES ASSUME NEW q \in Requests, NEW r \in Requests,
                    requests'[q].pc \in {"create", "executed"},
                    requests'[r].pc \in {"create", "executed"},
                    requests'[q].claim = requests'[r].claim, q # r
             PROVE  FALSE
  BY DEF ClaimInv
<1> DEFINE Old(d) == /\ requests[d].pc \in {"create", "executed"}
                     /\ requests'[d].claim = requests[d].claim
                     /\ requests'[d].confirmed = requests[d].confirmed
           Own(d) == requests[d].pc = "assess" /\ requests'[d].claim = d
           Taker(d) == /\ requests[d].pc = "idle"
                       /\ requests'[d].claim \in DOMAIN confirmations \ DOMAIN confirmations'
                       /\ \A e \in Requests \ {d} : requests'[e] = requests[e]
<1>0. \A d \in Requests : Moves(d)
  BY DEF StepFacts
<1>1. (Old(q) \/ Own(q) \/ Taker(q)) /\ (Old(r) \/ Own(r) \/ Taker(r))
  BY <1>0 DEF Moves
<1>2. \A d \in Requests : Old(d) =>
         \/ requests'[d].claim = d
         \/ /\ requests[requests'[d].claim].pc = "offered"
            /\ requests'[d].claim \notin DOMAIN confirmations
  BY DEF IInv, RequestInv
<1>3. \A d \in Requests : Taker(d) => requests[requests'[d].claim].pc = "offered"
  BY DEF IInv, ConfirmationInv
<1>4. CASE Old(q) /\ Old(r) BY <1>4 DEF IInv, ClaimInv
<1>5. CASE Taker(q) /\ Taker(r)
  BY <1>5
<1>6. CASE ~(Old(q) /\ Old(r)) /\ ~(Taker(q) /\ Taker(r))
  BY <1>1, <1>2, <1>3, <1>6
<1> QED BY <1>4, <1>5, <1>6

\* A confirmation stays what was offered.
LEMMA ConfirmationStep ==
    ASSUME IInv, StepFacts
    PROVE  ConfirmationInv'
<1> SUFFICES ASSUME NEW t \in DOMAIN confirmations'
             PROVE  LET choice == confirmations'[t].choice
                    IN  /\ requests'[t].pc = "offered"
                        /\ confirmations'[t].expiresAt = requests'[t].at + ConfirmTtl
                        /\ choice.user = Owner[choice.intent]
                        /\ EvaluateRouteRisk(Route[choice.aggregator], choice.slippage) = High
  BY DEF ConfirmationInv
<1>1. CASE t \in DOMAIN confirmations /\ confirmations'[t] = confirmations[t]
  <2>1. requests'[t] = requests[t]
    BY <1>1 DEF IInv, TypeOK, ConfirmationInv, StepFacts, Moves
  <2> QED BY <1>1, <2>1 DEF IInv, ConfirmationInv
<1>2. CASE ~(t \in DOMAIN confirmations /\ confirmations'[t] = confirmations[t])
  BY <1>2 DEF StepFacts, Offers
<1> QED BY <1>1, <1>2

\* An execution stays that of its request.
LEMMA ExecutionStep ==
    ASSUME IInv, StepFacts
    PROVE  ExecutionInv'
<1> SUFFICES ASSUME NEW x \in executions'
             PROVE  /\ requests'[x.id].pc = "executed"
                    /\ x = [id |-> x.id, claim |-> requests'[x.id].claim,
                            confirmed |-> requests'[x.id].confirmed,
                            at |-> requests'[x.id].at, choice |-> requests'[x.id].choice]
  BY DEF ExecutionInv
<1>1. CASE x \in executions
  <2>1. x.id \in Requests BY <1>1 DEF IInv, TypeOK
  <2>2. requests'[x.id] = requests[x.id]
    BY <1>1, <2>1 DEF IInv, ExecutionInv, StepFacts, Moves
  <2> QED BY <1>1, <2>2 DEF IInv, ExecutionInv
<1>2. CASE x \notin executions
  BY <1>2 DEF StepFacts, Creates
<1> QED BY <1>1, <1>2

\* No request is busy.
LEMMA InvInit == Init => IInv
<1> SUFFICES ASSUME Init PROVE IInv
  OBVIOUS
<1> USE TimeAssumption, CrashAssumption DEF Init, SettingsInit, NoIntent, NoRequest
<1>1. TypeOK BY DEF TypeOK, SettingsTypeOK, RequestRecords
<1>2. \A u : Saved(u) = {} BY DEF Saved, Changes
<1>3. \A u \in Users : GetSettings(u) = DefaultSettings
  <2>1. ParseUserSettings(Null) = DefaultSettings
    BY DEF ParseUserSettings, Null, DefaultSettings, IsValidSlippage, KnownAggregators
  <2> QED BY <2>1 DEF GetSettings
<1>4. ChangeInv BY <1>2, <1>3 DEF ChangeInv, ReadInv, AfterInv, LastInv
<1>5. RequestInv /\ ClaimInv BY DEF RequestInv, ClaimInv
<1>6. ConfirmationInv /\ ExecutionInv BY DEF ConfirmationInv, ExecutionInv
<1> QED BY <1>1, <1>4, <1>5, <1>6 DEF IInv

\* IInv is inductive.
LEMMA InvStep == IInv /\ [Next]_vars => IInv'
<1> SUFFICES ASSUME IInv, [Next]_vars PROVE IInv'
  OBVIOUS
<1>1. CASE UNCHANGED vars
  BY <1>1 DEF vars, selectionVars, settingsVars, IInv, TypeOK, SettingsTypeOK, ChangeInv, ReadInv,
              AfterInv, LastInv, IsLast, Saved, Changes, Wanted, GetSettings, RequestInv, ClaimInv,
              ConfirmationInv, ExecutionInv
<1>2. CASE Next
  <2>1. StepFacts BY <1>2, NextFacts
  <2> QED
    BY <2>1, RequestStep, ClaimStep, ConfirmationStep, ExecutionStep DEF IInv, StepFacts
<1> QED BY <1>1, <1>2

\* The inductive invariant of the requests, confirmations, executions and
\* changes of settings holds in every reachable state.
THEOREM SpecInv == Spec => []IInv
BY InvInit, InvStep, PTL DEF Spec

\* Type correctness: in particular every stored settings record is made of
\* values the menu or an accepted answer gave, whatever was typed.
THEOREM SpecTypeOK == Spec => []TypeOK
<1>1. IInv => TypeOK BY DEF IInv
<1> QED BY <1>1, SpecInv, PTL

\* An intent is executed for its owner only, whoever presses which button.
THEOREM SpecExecutionByOwner == Spec => []ExecutionByOwner
<1>1. IInv => ExecutionByOwner
  BY RecordOfPc DEF IInv, TypeOK, ExecutionInv, RequestInv, ExecutionByOwner
<1> QED BY <1>1, SpecInv, PTL

\* No blocked route is ever executed and no high one without its confirmation,
\* with the slippage it was assessed for.
THEOREM SpecRiskGate == Spec => []RiskGate
<1>1. IInv => RiskGate
  <2> SUFFICES ASSUME IInv, NEW x \in executions
               PROVE  Passes(x.choice, x.confirmed)
    BY DEF RiskGate, Passes
  <2>1. x.id \in Requests /\ requests[x.id].pc = "executed"
        /\ x.choice = requests[x.id].choice /\ x.confirmed = requests[x.id].confirmed
    BY DEF IInv, TypeOK, ExecutionInv
  <2> QED BY <2>1 DEF IInv, RequestInv
<1> QED BY <1>1, SpecInv, PTL

\* One press of an option yields at most one execution.
THEOREM SpecOneExecutionPerClaim == Spec => []OneExecutionPerClaim
<1>1. IInv => OneExecutionPerClaim
  <2> SUFFICES ASSUME IInv, NEW x \in executions, NEW y \in executions, x.claim = y.claim
               PROVE  x = y
    BY DEF OneExecutionPerClaim
  <2>1. /\ x.id \in Requests /\ requests[x.id].pc = "executed" /\ x.claim = requests[x.id].claim
        /\ y.id \in Requests /\ requests[y.id].pc = "executed" /\ y.claim = requests[y.id].claim
    BY DEF IInv, TypeOK, ExecutionInv
  <2>2. x.id = y.id
    BY <2>1 DEF IInv, ClaimInv
  <2> QED BY <2>2 DEF IInv, ExecutionInv
<1> QED BY <1>1, SpecInv, PTL

\* A confirmation that came too late executes nothing.
THEOREM SpecConfirmationIsFresh == Spec => []ConfirmationIsFresh
<1>1. IInv => ConfirmationIsFresh
  <2> SUFFICES ASSUME IInv, NEW x \in executions, x.confirmed
               PROVE  x.at <= requests[x.claim].at + ConfirmTtl
    BY DEF ConfirmationIsFresh
  <2>1. /\ x.id \in Requests /\ requests[x.id].pc = "executed"
        /\ x.claim = requests[x.id].claim /\ x.at = requests[x.id].at
    BY DEF IInv, TypeOK, ExecutionInv
  <2>2. requests[x.id].confirmed
    BY DEF IInv, ExecutionInv
  <2> QED BY <2>1, <2>2 DEF IInv, RequestInv
<1> QED BY <1>1, SpecInv, PTL

\* As long as the changes of a user do not overlap, each setting is what that
\* user chose last, however the changes of others, presses, questions and
\* restarts fall in between.
THEOREM SpecLastChoiceHolds == Spec => []LastChoiceHolds
<1>1. IInv => LastChoiceHolds
  <2> SUFFICES ASSUME IInv, NEW u \in Users, OneByOne(u), NEW field \in DOMAIN DefaultSettings
               PROVE  LET made == {r \in Saved(u) : requests[r].field = field}
                      IN GetSettings(u)[field] =
                            IF made = {} THEN DefaultSettings[field] ELSE Wanted(Last(made))
    BY DEF LastChoiceHolds
  <2> DEFINE made == {r \in Saved(u) : requests[r].field = field}
  <2>1. \A q, r \in Saved(u) : q = r \/ q \in requests[r].after \/ r \in requests[q].after
    BY DEF OneByOne, Saved
  <2>2. \/ made = {} /\ GetSettings(u)[field] = DefaultSettings[field]
        \/ \E r \in made : IsLast(r, made) /\ GetSettings(u)[field] = Wanted(r)
    BY <2>1 DEF IInv, ChangeInv, LastInv
  <2>3. ASSUME NEW r \in made, IsLast(r, made)
        PROVE  r = Last(made)
    <3>1. Last(made) \in made /\ IsLast(Last(made), made)
      BY <2>3 DEF Last
    <3>2. ASSUME NEW q \in made, IsLast(q, made) PROVE q = r
      BY <2>3, <3>2 DEF IInv, ChangeInv, AfterInv, IsLast, Saved, Changes
    <3> QED BY <3>1, <3>2
  <2> QED BY <2>2, <2>3
<1> QED BY <1>1, SpecInv, PTL
=============================================================================
