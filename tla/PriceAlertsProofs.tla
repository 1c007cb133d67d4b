-------------------------- MODULE PriceAlertsProofs --------------------------
(***************************************************************************)
(* Machine-checked proofs about PriceAlerts, for any favourites, inputs,   *)
(* overlapping ticks, batch size and number of faults.  A step is either   *)
(* one of the users and their requests, which leaves the ticks alone, or   *)
(* one of a tick, which leaves the requests alone, or a crash; RequestSide *)
(* and TickSide say what the first two may do to the rows.                 *)
(***************************************************************************)
EXTENDS PriceAlerts, FiniteSetTheorems, SequenceTheorems, TLAPS

USE DEF Goto, TickTo, NextAlert, Fault

-----------------------------------------------------------------------------
(* The records a request goes through.                                     *)

\* A request has its user, favourite and target until it is lost, and goes on with them.
LEMMA RequestGoesOn ==
    ASSUME NEW q \in RequestRecords, q.pc \in RequestPc,
           NEW pc \in {"find", "count", "select", "insert", "confirm", "set", "rejected"},
           q.pc = "update" => pc \in {"confirm", "rejected"},
           q.pc = "confirm" => pc \in {"set", "rejected"}
    PROVE  /\ q.user \in Users /\ q.favorite \in Favorites /\ q.target \in Targets
           /\ [q EXCEPT !.pc = pc] \in RequestRecords
           /\ [q EXCEPT !.pc = pc].pc = pc
           /\ [q EXCEPT !.pc = pc].user = q.user
<1>1. CASE q \in [pc : {"idle", "lost"}]
  BY <1>1 DEF RequestPc
<1>2. CASE q \in [pc : {"favorite", "find", "count", "select", "insert", "confirm", "set", "rejected"},
                  user : Users, favorite : Favorites, target : Targets]
  BY <1>2 DEF RequestRecords
<1>3. CASE q \in [pc : {"update", "confirm", "set", "rejected"},
                  user : Users, favorite : Favorites, target : Targets, row : Requests]
  BY <1>3 DEF RequestRecords, RequestPc
<1> QED BY <1>1, <1>2, <1>3 DEF RequestRecords

\* What an answered request is, and how it got there.
Goes(r, q) ==
    /\ requests[r].pc \in RequestPc /\ requests[r].user \in Users
    /\ requests[r].favorite \in Favorites
    /\ q \in RequestRecords /\ requests' = [requests EXCEPT ![r] = q]
    /\ q.user = requests[r].user
    /\ requests[r].pc = "confirm" => q.pc \in Past
    /\ \/ q.pc \in RequestPc \cup {"set"} /\ UNCHANGED prompts
       \/ /\ q.pc = "rejected"
          /\ prompts' = [prompts EXCEPT ![requests[r].user] = requests[r].favorite]

LEMMA GotoGoes ==
    ASSUME TypeOK, NEW r \in Requests, requests[r].pc \in RequestPc,
           NEW pc \in {"find", "count", "select", "insert", "confirm", "set"},
           requests[r].pc = "update" => pc = "confirm",
           requests[r].pc = "confirm" => pc = "set",
           Goto(r, pc), UNCHANGED prompts
    PROVE  \E q : Goes(r, q) /\ q.pc = pc
<1> DEFINE q == [requests[r] EXCEPT !.pc = pc]
<1>1. requests[r] \in RequestRecords BY DEF TypeOK
<1>2. /\ requests[r].user \in Users /\ requests[r].favorite \in Favorites
      /\ q \in RequestRecords /\ q.pc = pc /\ q.user = requests[r].user
  <2>1. ASSUME NEW p \in RequestRecords, p = requests[r]
        PROVE  /\ p.user \in Users /\ p.favorite \in Favorites
               /\ [p EXCEPT !.pc = pc] \in RequestRecords
               /\ [p EXCEPT !.pc = pc].pc = pc /\ [p EXCEPT !.pc = pc].user = p.user
    <3>1. pc \in {"find", "count", "select", "insert", "confirm", "set", "rejected"}
      OBVIOUS
    <3>2. /\ p.pc \in RequestPc /\ (p.pc = "update" => pc \in {"confirm", "rejected"})
          /\ p.pc = "confirm" => pc \in {"set", "rejected"}
      BY <2>1
    <3> HIDE <2>1
    <3> QED BY <3>1, <3>2, RequestGoesOn
  <2> QED BY <1>1, <2>1
<1>3. requests' = [requests EXCEPT ![r] = q] OBVIOUS
<1> HIDE DEF q
<1>4. Goes(r, q) BY <1>2, <1>3 DEF Goes, RequestPc, Past
<1> QED BY <1>2, <1>4

LEMMA RejectGoes ==
    ASSUME TypeOK, NEW r \in Requests, requests[r].pc \in RequestPc, Reject(r)
    PROVE  \E q : Goes(r, q) /\ q.pc = "rejected"
<1> DEFINE q == [requests[r] EXCEPT !.pc = "rejected"]
<1>1. requests[r] \in RequestRecords BY DEF TypeOK
<1>2. /\ requests[r].user \in Users /\ requests[r].favorite \in Favorites
      /\ q \in RequestRecords /\ q.pc = "rejected" /\ q.user = requests[r].user
  BY <1>1, RequestGoesOn
<1>3. requests' = [requests EXCEPT ![r] = q] BY DEF Reject
<1> HIDE DEF q
<1>4. Goes(r, q) BY <1>2, <1>3 DEF Goes, RequestPc, Past, Reject
<1> QED BY <1>2, <1>4

-----------------------------------------------------------------------------
(* What a step of the users and their requests may do.                     *)

\* Who has written writes no more; who begins takes the question with it; who
\* gives up may ask again, and no question is counted twice.
Questions ==
    \A u \in Users :
        \/ /\ Answers(u)' \subseteq Answers(u) /\ prompted'[u] = prompted[u]
           /\ prompts'[u] \in {None, prompts[u]}
        \/ Answers(u)' \subseteq Answers(u) /\ prompted'[u] = prompted[u] + 1
        \/ /\ \E r \in Requests : Answers(u)' = Answers(u) \cup {r}
           /\ prompts[u] # None /\ prompts'[u] = None /\ prompted'[u] = prompted[u]
        \/ /\ \E r \in Answers(u) : Answers(u)' \subseteq Answers(u) \ {r}
           /\ prompted'[u] = prompted[u]

\* A row is inserted for a favourite without an active one, by a request that
\* had not written yet; a row that was there keeps its favourite, is not made
\* active again, and is written only by a request that had not written yet.
RowsOfRequests ==
    /\ \A a \in DOMAIN alerts' \ DOMAIN alerts :
          /\ requests[a].pc = "insert" /\ requests'[a].pc = "confirm"
          /\ alerts'[a].setBy = a
          /\ ActiveOn(alerts'[a].favorite) = {}
          /\ \A b \in DOMAIN alerts' \ DOMAIN alerts : a = b
    /\ \A a \in DOMAIN alerts \cap DOMAIN alerts' :
          \/ alerts'[a] = alerts[a]
          \/ /\ alerts'[a].favorite = alerts[a].favorite
             /\ alerts'[a].status = alerts[a].status
             /\ requests[alerts'[a].setBy].pc = "update"
             /\ requests'[alerts'[a].setBy].pc = "confirm"

RequestSide ==
    /\ TypeOK' /\ OlderInv'
    /\ UNCHANGED <<running, ticks, announced>>
    /\ \A r \in Requests : requests[r].pc \in Past => requests'[r].pc \in Past
    /\ RowsOfRequests

\* A request that goes on, or gives up, moves its question as it should.
LEMMA GoesFacts ==
    ASSUME IInv, NEW r \in Requests, NEW q, Goes(r, q), UNCHANGED prompted
    PROVE  /\ requests' \in [Requests -> RequestRecords]
           /\ prompts' \in [Users -> Favorites \cup {None}]
           /\ requests'[r] = q
           /\ \A s \in Requests : requests[s].pc \in Past => requests'[s].pc \in Past
           /\ Questions
<1> USE DEF IInv
<1>1. /\ requests' \in [Requests -> RequestRecords]
      /\ requests'[r] = q /\ \A s \in Requests \ {r} : requests'[s] = requests[s]
  BY DEF TypeOK, Goes
<1>2. prompts' \in [Users -> Favorites \cup {None}]
  BY DEF TypeOK, Goes
<1>3. \A s \in Requests : requests[s].pc \in Past => requests'[s].pc \in Past
  BY <1>1 DEF Goes, RequestPc, Past
<1>4. ASSUME NEW u \in Users
      PROVE  \/ /\ Answers(u)' \subseteq Answers(u) /\ prompted'[u] = prompted[u]
                /\ prompts'[u] \in {None, prompts[u]}
             \/ /\ \E s \in Answers(u) : Answers(u)' \subseteq Answers(u) \ {s}
                /\ prompted'[u] = prompted[u]
  <2>1. Answers(u)' = {s \in Requests : requests'[s].pc \in RequestPc \cup {"set"} /\ requests'[s].user = u}
    BY DEF Answers, RequestPc
  <2>2. Answers(u)' \subseteq Answers(u)
    BY <1>1, <2>1 DEF Answers, Goes
  <2>3. CASE q.pc = "rejected" /\ u = requests[r].user
    <3>1. r \in Answers(u) BY <2>3 DEF Answers, Goes
    <3>2. r \notin Answers(u)' BY <1>1, <2>1, <2>3 DEF RequestPc
    <3> QED BY <2>2, <3>1, <3>2
  <2>4. CASE ~(q.pc = "rejected" /\ u = requests[r].user)
    BY <2>2, <2>4 DEF Goes, TypeOK, RequestPc
  <2> QED BY <2>3, <2>4
<1>5. Questions BY <1>4 DEF Questions
<1> QED BY <1>1, <1>2, <1>3, <1>5

\* The rows that go on, or do not: what OlderInv and TypeOK ask of a touched row.
LEMMA TouchFacts ==
    ASSUME TypeOK, OlderInv, NEW a \in DOMAIN alerts', Touch(a),
           DOMAIN alerts' = DOMAIN alerts \cup {a}
    PROVE  /\ older' \subseteq (DOMAIN alerts') \X (DOMAIN alerts')
           /\ OlderInv'
<1>1. older' = {p \in older : a \notin {p[1], p[2]}} \cup {<<b, a>> : b \in DOMAIN alerts \ {a}}
  BY DEF Touch
<1>2. ASSUME NEW p \in older'
      PROVE  p \in (DOMAIN alerts') \X (DOMAIN alerts') /\ p[1] # p[2]
  <2>1. CASE p \in older
    BY <2>1 DEF TypeOK, OlderInv
  <2>2. CASE \E b \in DOMAIN alerts \ {a} : p = <<b, a>>
    BY <2>2
  <2> QED BY <1>1, <2>1, <2>2
<1>3. OlderInv'
  <2>1. ASSUME NEW b, <<b, b>> \in older' PROVE FALSE
    BY <1>2, <2>1
  <2> QED BY <2>1 DEF OlderInv
<1> QED BY <1>2, <1>3

\* Favourites come and go, the last with their rows.
LEMMA FavoriteFacts ==
    ASSUME IInv, NEW f \in Favorites, CreateFavorite(f) \/ DeleteFavorite(f)
    PROVE  RequestSide /\ Questions
<1> USE DEF IInv
<1>1. UNCHANGED <<questions, requests, running, ticks, announced, faults>>
      /\ favorites' \in [Favorites -> {"absent", "present", "deleted"}]
  BY DEF CreateFavorite, DeleteFavorite, TypeOK
<1>2. Questions BY <1>1 DEF Questions, Answers, questions
<1>3. /\ DOMAIN alerts' \subseteq DOMAIN alerts /\ \A a \in DOMAIN alerts' : alerts'[a] = alerts[a]
      /\ older' \subseteq older /\ older' \subseteq (DOMAIN alerts') \X (DOMAIN alerts')
  BY DEF CreateFavorite, DeleteFavorite, TypeOK
<1>4. TypeOK' BY <1>1, <1>3 DEF TypeOK, questions
<1>5. OlderInv' BY <1>3 DEF OlderInv
<1>6. RowsOfRequests BY <1>3 DEF RowsOfRequests
<1> QED BY <1>1, <1>2, <1>4, <1>5, <1>6 DEF RequestSide

\* The question is put, is spent, or lapses.
LEMMA PromptFacts ==
    ASSUME IInv, NEW u \in Users,
           \/ \E f \in Favorites : HandleFavoriteAlert(u, f)
           \/ \E r \in Requests, target \in Targets : HandleAlertThresholdInput(r, u, target)
           \/ ExpirePrompt(u)
    PROVE  RequestSide /\ Questions
<1> USE DEF IInv
<1>1. UNCHANGED <<favorites, alerts, older, running, ticks, announced, faults>>
  BY DEF HandleFavoriteAlert, HandleAlertThresholdInput, ExpirePrompt
<1>2. RowsOfRequests /\ OlderInv' BY <1>1 DEF RowsOfRequests, OlderInv
<1>3. ASSUME NEW f \in Favorites, HandleFavoriteAlert(u, f)
      PROVE  RequestSide /\ Questions
  <2>1. TypeOK' BY <1>1, <1>3, PromptAssumption DEF TypeOK, HandleFavoriteAlert
  <2>2. requests' = requests BY <1>3 DEF HandleFavoriteAlert
  <2>3. Questions BY <1>3, <2>2 DEF HandleFavoriteAlert, Questions, Answers, TypeOK
  <2> QED BY <1>1, <1>2, <2>1, <2>2, <2>3 DEF RequestSide
<1>4. ASSUME NEW r \in Requests, NEW target \in Targets, HandleAlertThresholdInput(r, u, target)
      PROVE  RequestSide /\ Questions
  <2> DEFINE q == [pc |-> "favorite", user |-> u, favorite |-> prompts[u], target |-> target]
  <2>1. /\ requests[r].pc = "idle" /\ prompts[u] # None /\ prompts' = [prompts EXCEPT ![u] = None]
        /\ prompted' = prompted /\ requests' = [requests EXCEPT ![r] = q]
    BY <1>4 DEF HandleAlertThresholdInput
  <2>2. q \in RequestRecords /\ q.pc = "favorite" /\ q.user = u
    BY <2>1 DEF RequestRecords, TypeOK
  <2> HIDE DEF q
  <2>3. TypeOK' BY <1>1, <2>1, <2>2 DEF TypeOK
  <2>4. \A s \in Requests : requests[s].pc \in Past => requests'[s].pc \in Past
    BY <2>1, <2>2 DEF TypeOK, Past
  <2>5. requests'[r] = q /\ \A s \in Requests \ {r} : requests'[s] = requests[s]
    BY <2>1 DEF TypeOK
  <2>6. ASSUME NEW v \in Users
        PROVE  Answers(v)' = IF v = u THEN Answers(v) \cup {r} ELSE Answers(v)
    BY <2>1, <2>2, <2>5 DEF Answers, RequestPc
  <2>7. Questions
    <3>1. ASSUME NEW v \in Users, v # u
          PROVE  Answers(v)' \subseteq Answers(v) /\ prompted'[v] = prompted[v]
                 /\ prompts'[v] = prompts[v]
      BY <2>1, <2>6, <3>1 DEF TypeOK
    <3>2. Answers(u)' = Answers(u) \cup {r} /\ prompts[u] # None /\ prompts'[u] = None
          /\ prompted'[u] = prompted[u]
      BY <2>1, <2>6 DEF TypeOK
    <3> QED BY <3>1, <3>2 DEF Questions
  <2> QED BY <1>1, <1>2, <2>3, <2>4, <2>7 DEF RequestSide
<1>5. CASE ExpirePrompt(u)
  <2>1. requests' = requests /\ prompted' = prompted /\ prompts' = [prompts EXCEPT ![u] = None]
    BY <1>5 DEF ExpirePrompt
  <2>2. TypeOK' BY <1>1, <2>1 DEF TypeOK
  <2>3. Questions BY <2>1 DEF Questions, Answers, TypeOK
  <2> QED BY <1>1, <1>2, <2>1, <2>2, <2>3 DEF RequestSide
<1> QED BY <1>3, <1>4, <1>5

\* The reads of a request, what it tells in the end, and its failures.
LEMMA ReadFacts ==
    ASSUME IInv, NEW r \in Requests,
           \/ GetFavorite(r) \/ FindActiveByFavorite(r) \/ CountActiveByUser(r)
           \/ SelectActive(r) \/ ConfirmAlert(r) \/ RequestFails(r)
    PROVE  RequestSide /\ Questions
<1> USE DEF IInv
<1>1. /\ UNCHANGED <<favorites, alerts, older, prompted, running, ticks, announced>>
      /\ faults' \in 0..MaxFaults
  BY FaultsAssumption
  DEF GetFavorite, FindActiveByFavorite, CountActiveByUser, SelectActive, ConfirmAlert,
      RequestFails, questions, TypeOK
<1>2. \E q : Goes(r, q)
  <2>1. CASE GetFavorite(r)
    BY <2>1, GotoGoes, RejectGoes DEF GetFavorite, RequestPc
  <2>2. CASE FindActiveByFavorite(r)
    BY <2>2, GotoGoes DEF FindActiveByFavorite, RequestPc, questions
  <2>3. CASE CountActiveByUser(r)
    BY <2>3, GotoGoes, RejectGoes DEF CountActiveByUser, RequestPc
  <2>4. CASE SelectActive(r)
    <3>1. requests[r].pc = "select" /\ prompts' = prompts
      BY <2>4 DEF SelectActive, questions
    <3>2. CASE Goto(r, "insert")
      BY <3>1, <3>2, GotoGoes DEF RequestPc
    <3>3. ASSUME NEW a \in DOMAIN alerts,
                 requests' = [requests EXCEPT ![r] =
                    [pc |-> "update", user |-> @.user, favorite |-> @.favorite,
                     target |-> @.target, row |-> a]]
          PROVE  \E q : Goes(r, q)
      <4> DEFINE q == [pc |-> "update", user |-> requests[r].user,
                       favorite |-> requests[r].favorite, target |-> requests[r].target, row |-> a]
      <4>1. requests[r].user \in Users /\ requests[r].favorite \in Favorites
            /\ requests[r].target \in Targets
        <5>1. requests[r] \in RequestRecords BY DEF TypeOK
        <5>2. requests[r].pc \in RequestPc BY <3>1 DEF RequestPc
        <5>3. ASSUME NEW p \in RequestRecords, p.pc = "select"
              PROVE  p.user \in Users /\ p.favorite \in Favorites /\ p.target \in Targets
          BY <5>3 DEF RequestRecords
        <5> QED BY <3>1, <5>1, <5>3
      <4>2. a \in Requests BY DEF TypeOK
      <4>3. q \in RequestRecords /\ q.pc = "update" /\ q.user = requests[r].user
        BY <4>1, <4>2 DEF RequestRecords
      <4>4. requests' = [requests EXCEPT ![r] = q] BY <3>3
      <4> HIDE DEF q
      <4> QED BY <3>1, <4>1, <4>3, <4>4 DEF Goes, RequestPc, Past
    <3> QED BY <2>4, <3>2, <3>3 DEF SelectActive, ActiveOn, Active
  <2>5. CASE ConfirmAlert(r)
    BY <2>5, GotoGoes DEF ConfirmAlert, RequestPc, questions
  <2>6. CASE RequestFails(r)
    BY <2>6, RejectGoes DEF RequestFails
  <2> QED BY <2>1, <2>2, <2>3, <2>4, <2>5, <2>6
<1>3. PICK q : Goes(r, q) BY <1>2
<1>4. /\ requests' \in [Requests -> RequestRecords]
      /\ prompts' \in [Users -> Favorites \cup {None}]
      /\ \A s \in Requests : requests[s].pc \in Past => requests'[s].pc \in Past
      /\ Questions
  BY <1>1, <1>3, GoesFacts
<1>5. TypeOK' BY <1>1, <1>4 DEF TypeOK
<1>6. RowsOfRequests /\ OlderInv' BY <1>1 DEF RowsOfRequests, OlderInv
<1> QED BY <1>1, <1>4, <1>5, <1>6 DEF RequestSide

\* The two writes.
LEMMA WriteFacts ==
    ASSUME IInv, NEW r \in Requests, UpdateAlert(r) \/ InsertAlert(r)
    PROVE  RequestSide /\ Questions
<1> USE DEF IInv
<1>1. UNCHANGED <<favorites, prompted, running, ticks, announced, faults>>
      /\ requests[r].pc \in {"update", "insert"} /\ requests[r].pc \in RequestPc
  BY DEF UpdateAlert, InsertAlert, RequestPc
<1>2. CASE Reject(r) /\ UNCHANGED <<alerts, older>>
  <2>1. PICK q : Goes(r, q) BY <1>1, <1>2, RejectGoes
  <2>2. /\ requests' \in [Requests -> RequestRecords]
        /\ prompts' \in [Users -> Favorites \cup {None}]
        /\ \A s \in Requests : requests[s].pc \in Past => requests'[s].pc \in Past
        /\ Questions
    BY <1>1, <2>1, GoesFacts
  <2>3. TypeOK' BY <1>1, <1>2, <2>2 DEF TypeOK
  <2>4. RowsOfRequests /\ OlderInv' BY <1>2 DEF RowsOfRequests, OlderInv
  <2> QED BY <1>1, <2>2, <2>3, <2>4 DEF RequestSide
<1>3. CASE Goto(r, "confirm") /\ UNCHANGED prompts
  <2>1. PICK q : Goes(r, q) /\ q.pc = "confirm" BY <1>1, <1>3, GotoGoes
  <2>2. /\ requests' \in [Requests -> RequestRecords]
        /\ prompts' \in [Users -> Favorites \cup {None}]
        /\ requests'[r].pc = "confirm"
        /\ \A s \in Requests : requests[s].pc \in Past => requests'[s].pc \in Past
        /\ Questions
    BY <1>1, <2>1, GoesFacts
  <2>3. requests[r] \in RequestRecords BY DEF TypeOK
  <2>4. requests[r].favorite \in Favorites /\ requests[r].target \in Targets
        /\ (requests[r].pc = "update" => requests[r].row \in Requests)
    BY <1>1, <2>3 DEF RequestRecords
  <2>5. ~Reject(r)
    <3> SUFFICES ASSUME Reject(r) PROVE FALSE
      OBVIOUS
    <3>1. PICK p : Goes(r, p) /\ p.pc = "rejected" BY <1>1, RejectGoes
    <3>2. requests'[r] = p BY <1>1, <3>1, GoesFacts
    <3> QED BY <2>2, <3>1, <3>2
  <2>6. CASE UpdateAlert(r)
    <3>1. PICK a \in DOMAIN alerts :
             /\ alerts' = [alerts EXCEPT ![a].target = requests[r].target,
                                         ![a].last = NoPrice, ![a].setBy = r]
             /\ Touch(a)
      BY <2>5, <2>6 DEF UpdateAlert
    <3>2. requests[r].pc = "update" BY <2>6 DEF UpdateAlert
    <3>3. /\ DOMAIN alerts' = DOMAIN alerts
          /\ \A b \in DOMAIN alerts \ {a} : alerts'[b] = alerts[b]
          /\ alerts'[a] \in [favorite : Favorites, target : Targets, status : {"active", "triggered"},
                last : Prices \cup {NoPrice}, setBy : Requests, firedFor : Targets \cup {NoPrice}]
          /\ alerts'[a].favorite = alerts[a].favorite /\ alerts'[a].status = alerts[a].status
          /\ alerts'[a].setBy = r
      BY <2>4, <3>1 DEF TypeOK
    <3>4. older' \subseteq (DOMAIN alerts') \X (DOMAIN alerts') /\ OlderInv'
      BY <3>1, <3>3, TouchFacts
    <3>5. TypeOK' BY <1>1, <2>2, <3>3, <3>4 DEF TypeOK
    <3>6. RowsOfRequests BY <2>2, <3>2, <3>3 DEF RowsOfRequests
    <3> QED BY <1>1, <2>2, <3>4, <3>5, <3>6 DEF RequestSide
  <2>7. CASE InsertAlert(r)
    <3>1. /\ requests[r].pc = "insert" /\ ActiveOn(requests[r].favorite) = {}
          /\ alerts' = [a \in DOMAIN alerts \cup {r} |->
                           IF a = r THEN NewAlert(r) ELSE alerts[a]]
          /\ Touch(r)
      BY <2>5, <2>7 DEF InsertAlert
    <3>2. r \notin DOMAIN alerts BY <3>1 DEF WrittenInv, Past
    <3>3. /\ DOMAIN alerts' = DOMAIN alerts \cup {r}
          /\ \A b \in DOMAIN alerts : alerts'[b] = alerts[b]
          /\ alerts'[r] = NewAlert(r)
      BY <3>1, <3>2
    <3>4. /\ NewAlert(r) \in [favorite : Favorites, target : Targets, status : {"active", "triggered"},
                last : Prices \cup {NoPrice}, setBy : Requests, firedFor : Targets \cup {NoPrice}]
          /\ NewAlert(r).setBy = r /\ NewAlert(r).favorite = requests[r].favorite
      BY <2>4 DEF NewAlert
    <3>5. older' \subseteq (DOMAIN alerts') \X (DOMAIN alerts') /\ OlderInv'
      BY <3>1, <3>3, TouchFacts
    <3>6. TypeOK' BY <1>1, <2>2, <3>3, <3>4, <3>5 DEF TypeOK
    <3>7. RowsOfRequests BY <2>2, <3>1, <3>3, <3>4 DEF RowsOfRequests
    <3> QED BY <1>1, <2>2, <3>5, <3>6, <3>7 DEF RequestSide
  <2> QED BY <2>6, <2>7
<1> QED BY <1>2, <1>3 DEF UpdateAlert, InsertAlert

-----------------------------------------------------------------------------
(* What the users and their requests leave standing.                       *)

\* The arithmetic of the questions.
LEMMA QuestionsKept ==
    ASSUME QuestionInv, TypeOK, Questions
    PROVE  QuestionInv'
<1> SUFFICES ASSUME NEW u \in Users
             PROVE  /\ IsFiniteSet(Answers(u)')
                    /\ Cardinality(Answers(u)') + (IF prompts'[u] = None THEN 0 ELSE 1) <= prompted'[u]
  BY DEF QuestionInv
<1>1. /\ IsFiniteSet(Answers(u)) /\ Cardinality(Answers(u)) \in Nat /\ prompted[u] \in Nat
      /\ Cardinality(Answers(u)) + (IF prompts[u] = None THEN 0 ELSE 1) <= prompted[u]
  BY FS_CardinalityType, PromptAssumption DEF QuestionInv, TypeOK
<1>2. ASSUME NEW S, S \subseteq Answers(u)
      PROVE  IsFiniteSet(S) /\ Cardinality(S) \in Nat /\ Cardinality(S) <= Cardinality(Answers(u))
  BY <1>1, <1>2, FS_Subset, FS_CardinalityType
<1>3. CASE /\ Answers(u)' \subseteq Answers(u) /\ prompted'[u] = prompted[u]
           /\ prompts'[u] \in {None, prompts[u]}
  BY <1>1, <1>2, <1>3
<1>4. CASE Answers(u)' \subseteq Answers(u) /\ prompted'[u] = prompted[u] + 1
  BY <1>1, <1>2, <1>4
<1>5. CASE /\ \E r \in Requests : Answers(u)' = Answers(u) \cup {r}
           /\ prompts[u] # None /\ prompts'[u] = None /\ prompted'[u] = prompted[u]
  <2>1. PICK r \in Requests : Answers(u)' = Answers(u) \cup {r} BY <1>5
  <2>2. IsFiniteSet(Answers(u) \cup {r}) /\ Cardinality(Answers(u) \cup {r}) \in Nat
    BY <1>1, FS_AddElement, FS_CardinalityType
  <2>3. Cardinality(Answers(u) \cup {r})
           = IF r \in Answers(u) THEN Cardinality(Answers(u)) ELSE Cardinality(Answers(u)) + 1
    BY <1>1, FS_AddElement, Zenon
  <2> QED BY <1>1, <1>5, <2>1, <2>2, <2>3
<1>6. CASE /\ \E r \in Answers(u) : Answers(u)' \subseteq Answers(u) \ {r}
           /\ prompted'[u] = prompted[u]
  <2>1. PICK r \in Answers(u) : Answers(u)' \subseteq Answers(u) \ {r} BY <1>6
  <2>2. /\ IsFiniteSet(Answers(u) \ {r})
        /\ Cardinality(Answers(u) \ {r}) = Cardinality(Answers(u)) - 1
    BY <1>1, <2>1, FS_RemoveElement
  <2>3. /\ IsFiniteSet(Answers(u)') /\ Cardinality(Answers(u)') \in Nat
        /\ Cardinality(Answers(u)') <= Cardinality(Answers(u)) - 1
    BY <2>1, <2>2, FS_Subset, FS_CardinalityType
  <2> QED BY <1>1, <1>6, <2>3
<1> QED BY <1>3, <1>4, <1>5, <1>6 DEF Questions

\* The rows a tick has listed.
LEMMA BatchElements ==
    ASSUME TypeOK, NEW t \in Ticks
    PROVE  /\ ticks[t].batch \in Seq(Snapshots)
           /\ DOMAIN ticks[t].batch = 1 .. Len(ticks[t].batch) /\ Len(ticks[t].batch) \in Nat
           /\ \A i \in DOMAIN ticks[t].batch : ticks[t].batch[i] \in Snapshots
<1> DEFINE batch == ticks[t].batch
<1>1. batch \in Seq(Snapshots) BY DEF TypeOK
<1> HIDE DEF batch
<1>2. /\ DOMAIN batch = 1 .. Len(batch) /\ Len(batch) \in Nat
      /\ \A i \in DOMAIN batch : batch[i] \in Snapshots
  BY <1>1
<1> QED BY <1>1, <1>2 DEF batch

LEMMA RequestsKeep ==
    ASSUME IInv, RequestSide, Questions
    PROVE  IInv'
<1> USE DEF IInv
<1>1. /\ TypeOK' /\ OlderInv' /\ UNCHANGED <<running, ticks, announced>>
      /\ \A r \in Requests : requests[r].pc \in Past => requests'[r].pc \in Past
      /\ RowsOfRequests
      /\ DOMAIN alerts \subseteq Requests /\ DOMAIN alerts' \subseteq Requests
  BY DEF RequestSide, TypeOK
<1>2. \A a \in DOMAIN alerts' : alerts'[a].setBy \in Requests
  BY <1>1 DEF TypeOK
<1>3. \A t \in Ticks : \A i \in DOMAIN ticks[t].batch :
         ticks[t].batch[i].id \in Requests /\ ticks[t].batch[i].setBy \in Requests
  BY BatchElements DEF Snapshots
<1>4. WrittenInv'
  <2>1. ASSUME NEW a \in DOMAIN alerts'
        PROVE  requests'[a].pc \in Past /\ requests'[alerts'[a].setBy].pc \in Past
    <3>1. CASE a \notin DOMAIN alerts
      BY <1>1, <2>1, <3>1 DEF RowsOfRequests, Past
    <3>2. CASE a \in DOMAIN alerts
      <4>1. a \in Requests /\ requests'[a].pc \in Past
        BY <1>1, <3>2 DEF WrittenInv
      <4>2. CASE alerts'[a] = alerts[a]
        BY <1>1, <1>2, <2>1, <3>2, <4>1, <4>2 DEF WrittenInv
      <4>3. CASE requests'[alerts'[a].setBy].pc = "confirm"
        BY <4>1, <4>3 DEF Past
      <4> QED BY <1>1, <2>1, <3>2, <4>2, <4>3 DEF RowsOfRequests
    <3> QED BY <3>1, <3>2
  <2>2. ASSUME NEW t \in Ticks, NEW i \in DOMAIN ticks[t].batch
        PROVE  /\ requests'[ticks[t].batch[i].id].pc \in Past
               /\ requests'[ticks[t].batch[i].setBy].pc \in Past
    BY <1>1, <1>3 DEF WrittenInv
  <2>3. \A r \in Requests : announced[r] # <<>> => requests'[r].pc \in Past
    BY <1>1 DEF WrittenInv
  <2> QED BY <1>1, <2>1, <2>2, <2>3 DEF WrittenInv
<1>5. ASSUME NEW a \in Active'
      PROVE  \/ /\ a \in Active /\ alerts'[a].favorite = alerts[a].favorite
             \/ /\ a \in DOMAIN alerts' \ DOMAIN alerts /\ ActiveOn(alerts'[a].favorite) = {}
  BY <1>1, <1>5 DEF RowsOfRequests, Active
<1>6. ActiveInv'
  <2>1. ASSUME NEW a \in Active', NEW b \in Active', alerts'[a].favorite = alerts'[b].favorite
        PROVE  a = b
    BY <1>1, <1>5, <2>1 DEF ActiveInv, ActiveOn, RowsOfRequests
  <2> QED BY <2>1 DEF ActiveInv
<1>7. OneTick' BY <1>1 DEF OneTick
<1>8. BatchInv'
  <2> SUFFICES ASSUME NEW t \in Ticks
               PROVE  LET batch == ticks[t].batch IN
                        /\ \A i, j \in DOMAIN batch : batch[i].id = batch[j].id => i = j
                        /\ \A i \in DOMAIN batch :
                              /\ announced[batch[i].id] = <<>>
                              /\ (i > 1 \/ ticks[t].pc \in {"check", "observe"})
                                    /\ batch[i].id \in DOMAIN alerts'
                                    /\ alerts'[batch[i].id].setBy = batch[i].setBy
                                    => alerts'[batch[i].id].last = batch[i].last
                        /\ ticks[t].pc = "send" => Current(t).id \notin Active'
    BY <1>1 DEF BatchInv, Current
  <2> DEFINE batch == ticks[t].batch
  <2>1. ASSUME NEW i \in DOMAIN batch, batch[i].id \in DOMAIN alerts',
               alerts'[batch[i].id].setBy = batch[i].setBy
        PROVE  batch[i].id \in DOMAIN alerts /\ alerts'[batch[i].id] = alerts[batch[i].id]
    <3>1. requests[batch[i].id].pc \in Past /\ requests[batch[i].setBy].pc \in Past
      BY DEF WrittenInv
    <3> QED BY <1>1, <2>1, <3>1 DEF RowsOfRequests, Past
  <2>2. ASSUME ticks[t].pc = "send" PROVE Current(t).id \notin Active'
    <3>1. batch # <<>> /\ batch \in Seq(Snapshots) BY <2>2 DEF OneTick, TypeOK
    <3>2. 1 \in DOMAIN batch /\ Current(t) = batch[1] BY <3>1 DEF Current
    <3>3. requests[Current(t).id].pc \in Past BY <3>2 DEF WrittenInv
    <3>4. Current(t).id \notin Active BY <2>2 DEF BatchInv
    <3> QED BY <1>1, <1>5, <3>3, <3>4 DEF RowsOfRequests, Past
  <2>3. \A i \in DOMAIN batch :
           /\ announced[batch[i].id] = <<>>
           /\ (i > 1 \/ ticks[t].pc \in {"check", "observe"})
                 /\ batch[i].id \in DOMAIN alerts'
                 /\ alerts'[batch[i].id].setBy = batch[i].setBy
                 => alerts'[batch[i].id].last = batch[i].last
    BY <2>1 DEF BatchInv
  <2>4. \A i, j \in DOMAIN batch : batch[i].id = batch[j].id => i = j
    BY DEF BatchInv
  <2> QED BY <2>2, <2>3, <2>4
<1>9. ToldInv'
  <2>1. ASSUME NEW r \in Requests, announced[r] # <<>>, r \in Active' PROVE FALSE
    BY <1>1, <1>5, <2>1 DEF ToldInv, WrittenInv, RowsOfRequests, Past
  <2> QED BY <1>1, <2>1 DEF ToldInv
<1>10. QuestionInv' BY QuestionsKept
<1> QED BY <1>1, <1>4, <1>6, <1>7, <1>8, <1>9, <1>10

-----------------------------------------------------------------------------
(* What a step of a tick may do.                                           *)

TickRecords ==
    [pc : {"idle", "list", "check", "observe", "trigger", "send"},
     batch : Seq(Snapshots), net : Prices \cup {NoPrice}]

\* It writes no row but that of its current one, makes none active and inserts none.
RowsOfTick(t) ==
    /\ DOMAIN alerts' = DOMAIN alerts
    /\ \A a \in DOMAIN alerts :
          /\ alerts'[a].favorite = alerts[a].favorite /\ alerts'[a].setBy = alerts[a].setBy
          /\ alerts'[a].status = "active" => alerts[a].status = "active"
          /\ \/ alerts'[a].last = alerts[a].last
             \/ /\ ticks[t].pc \in {"observe", "trigger"} /\ ticks[t].batch # <<>>
                /\ a = Current(t).id

\* It begins when no other runs, lists active rows, gets on with its current row
\* or turns to the next, telling at most the current one, and ends.
Begins(t) ==
    /\ ticks[t].pc = "idle" /\ ~running /\ running'
    /\ ticks'[t].pc = "list" /\ ticks'[t].batch = <<>> /\ announced' = announced
Lists(t) ==
    /\ ticks[t].pc = "list" /\ ticks'[t].pc = "check" /\ running' = running
    /\ alerts' = alerts /\ announced' = announced
    /\ \A i \in DOMAIN ticks'[t].batch :
          LET s == ticks'[t].batch[i] IN
             /\ s.id \in Active /\ s.setBy = alerts[s.id].setBy /\ s.last = alerts[s.id].last
             /\ \A j \in DOMAIN ticks'[t].batch : ticks'[t].batch[j].id = s.id => i = j
GetsOn(t) ==
    /\ <<ticks[t].pc, ticks'[t].pc>> \in
          {<<"check", "observe">>, <<"observe", "trigger">>, <<"trigger", "send">>}
    /\ ticks[t].batch # <<>> /\ ticks'[t].batch = ticks[t].batch
    /\ running' = running /\ announced' = announced
    /\ ticks'[t].pc = "send" => Current(t).id \notin Active'
TurnsToNext(t) ==
    /\ ticks[t].pc \in {"check", "observe", "trigger", "send"} /\ ticks'[t].pc = "check"
    /\ ticks[t].batch # <<>> /\ ticks'[t].batch = Tail(ticks[t].batch) /\ running' = running
    /\ \/ announced' = announced
       \/ /\ ticks[t].pc = "send"
          /\ announced' = [announced EXCEPT ![Current(t).id] = Append(@, Current(t).target)]
Ends(t) ==
    /\ ticks[t].pc = "check" /\ ticks'[t].pc = "idle" /\ ~running'
    /\ ticks'[t].batch = <<>> /\ announced' = announced

TickSide(t) ==
    /\ TypeOK' /\ OlderInv' /\ UNCHANGED <<questions, requests>>
    /\ RowsOfTick(t)
    /\ \A u \in Ticks \ {t} : ticks'[u] = ticks[u]
    /\ Begins(t) \/ Lists(t) \/ GetsOn(t) \/ TurnsToNext(t) \/ Ends(t)

\* The row a tick is at, and what it is left with after it.
LEMMA CurrentFacts ==
    ASSUME TypeOK, NEW t \in Ticks, ticks[t].batch # <<>>
    PROVE  /\ 1 \in DOMAIN ticks[t].batch /\ Current(t) = ticks[t].batch[1]
           /\ Current(t) \in Snapshots
           /\ Tail(ticks[t].batch) \in Seq(Snapshots)
           /\ \A i \in DOMAIN Tail(ticks[t].batch) :
                 /\ i + 1 \in DOMAIN ticks[t].batch /\ i + 1 > 1
                 /\ Tail(ticks[t].batch)[i] = ticks[t].batch[i + 1]
<1> DEFINE batch == ticks[t].batch
<1>1. batch \in Seq(Snapshots) /\ batch # <<>> BY DEF TypeOK
<1>2. Current(t) = Head(batch) BY DEF Current
<1> HIDE DEF batch
<1>3. Tail(batch) \in Seq(Snapshots) /\ Len(batch) > 0 /\ Len(batch) \in Nat
      /\ DOMAIN batch = 1 .. Len(batch) /\ Len(Tail(batch)) = Len(batch) - 1
  BY <1>1
<1>4. \A i \in DOMAIN Tail(batch) : i \in 1 .. Len(batch) - 1 /\ Tail(batch)[i] = batch[i + 1]
  BY <1>1, <1>3
<1>5. 1 \in DOMAIN batch /\ Head(batch) = batch[1] /\ batch[1] \in Snapshots
  BY <1>1, <1>3
<1>6. \A i \in DOMAIN Tail(batch) : i + 1 \in DOMAIN batch /\ i + 1 > 1
  BY <1>3, <1>4
<1> QED BY <1>2, <1>3, <1>4, <1>5, <1>6 DEF batch

\* A tick that leaves the rows alone.
LEMMA QuietTick ==
    ASSUME TypeOK, OlderInv, NEW t \in Ticks, NEW q \in TickRecords,
           ticks' = [ticks EXCEPT ![t] = q],
           UNCHANGED <<favorites, alerts, older, questions, requests>>,
           running' \in BOOLEAN, faults' \in 0..MaxFaults,
           announced' \in [Requests -> Seq(Targets)]
    PROVE  /\ TypeOK' /\ OlderInv' /\ RowsOfTick(t)
           /\ ticks'[t] = q /\ \A u \in Ticks \ {t} : ticks'[u] = ticks[u]
<1>1. ticks \in [Ticks -> TickRecords] BY DEF TypeOK, TickRecords
<1>2. ticks' \in [Ticks -> TickRecords] /\ ticks'[t] = q
      /\ \A u \in Ticks \ {t} : ticks'[u] = ticks[u]
  BY <1>1
<1>3. TypeOK' BY <1>2 DEF TypeOK, TickRecords, questions
<1> QED BY <1>2, <1>3 DEF OlderInv, RowsOfTick

\* The fields of a tick.
LEMMA TickTyped ==
    ASSUME TypeOK, NEW t \in Ticks
    PROVE  /\ ticks[t] \in TickRecords /\ ticks[t].batch \in Seq(Snapshots)
           /\ ticks[t].net \in Prices \cup {NoPrice}
           /\ \A pc \in {"idle", "list", "check", "observe", "trigger", "send"} :
                 /\ [ticks[t] EXCEPT !.pc = pc] \in TickRecords
                 /\ [ticks[t] EXCEPT !.pc = pc].pc = pc
                 /\ [ticks[t] EXCEPT !.pc = pc].batch = ticks[t].batch
<1>1. ASSUME NEW q \in TickRecords
      PROVE  /\ q.batch \in Seq(Snapshots) /\ q.net \in Prices \cup {NoPrice}
             /\ \A pc \in {"idle", "list", "check", "observe", "trigger", "send"} :
                   /\ [q EXCEPT !.pc = pc] \in TickRecords
                   /\ [q EXCEPT !.pc = pc].pc = pc
                   /\ [q EXCEPT !.pc = pc].batch = q.batch
  BY DEF TickRecords
<1>2. ticks[t] \in TickRecords BY DEF TypeOK, TickRecords
<1> QED BY <1>1, <1>2

\* The next row.
LEMMA NextRecord ==
    ASSUME TypeOK, NEW t \in Ticks, ticks[t].batch # <<>>, NextAlert(t)
    PROVE  \E q \in TickRecords :
              /\ ticks' = [ticks EXCEPT ![t] = q]
              /\ q.pc = "check" /\ q.batch = Tail(ticks[t].batch)
<1> DEFINE q == [pc |-> "check", batch |-> Tail(ticks[t].batch), net |-> NoPrice]
<1>1. ticks' = [ticks EXCEPT ![t] = q] OBVIOUS
<1>2. Tail(ticks[t].batch) \in Seq(Snapshots) BY CurrentFacts
<1>3. q \in TickRecords /\ q.pc = "check" /\ q.batch = Tail(ticks[t].batch)
  BY <1>2 DEF TickRecords
<1> HIDE DEF q
<1> QED BY <1>1, <1>3

LEMMA ScheduleFacts ==
    ASSUME IInv, NEW t \in Ticks, StartTick(t) \/ EndTick(t)
    PROVE  TickSide(t)
<1> USE DEF IInv
<1>1. /\ UNCHANGED <<favorites, alerts, older, questions, requests, announced, faults>>
      /\ running' \in BOOLEAN
  BY DEF StartTick, EndTick
<1>2. announced' \in [Requests -> Seq(Targets)] /\ faults' \in 0..MaxFaults
  BY <1>1 DEF TypeOK
<1>3. CASE StartTick(t)
  <2>1. PICK q \in TickRecords :
           ticks' = [ticks EXCEPT ![t] = q] /\ q.pc = "list" /\ q.batch = ticks[t].batch
    BY <1>3, TickTyped DEF StartTick
  <2>2. ticks[t].pc = "idle" /\ ticks[t].batch = <<>> /\ ~running /\ running'
    BY <1>3 DEF StartTick, OneTick
  <2>3. /\ TypeOK' /\ OlderInv' /\ RowsOfTick(t)
        /\ ticks'[t] = q /\ \A u \in Ticks \ {t} : ticks'[u] = ticks[u]
    BY <1>1, <1>2, <2>1, QuietTick
  <2> QED BY <1>1, <2>1, <2>2, <2>3 DEF TickSide, Begins
<1>4. CASE EndTick(t)
  <2>1. PICK q \in TickRecords :
           ticks' = [ticks EXCEPT ![t] = q] /\ q.pc = "idle" /\ q.batch = ticks[t].batch
    BY <1>4, TickTyped DEF EndTick
  <2>2. ticks[t].pc = "check" /\ ticks[t].batch = <<>> /\ ~running'
    BY <1>4 DEF EndTick
  <2>3. /\ TypeOK' /\ OlderInv' /\ RowsOfTick(t)
        /\ ticks'[t] = q /\ \A u \in Ticks \ {t} : ticks'[u] = ticks[u]
    BY <1>1, <1>2, <2>1, QuietTick
  <2> QED BY <1>1, <2>1, <2>2, <2>3 DEF TickSide, Ends
<1> QED BY <1>3, <1>4

\* The batch is what the rows are when it is listed, and no row comes twice.
LEMMA ListFacts ==
    ASSUME IInv, NEW t \in Ticks, ListActiveBatch(t)
    PROVE  TickSide(t)
<1> USE DEF IInv
<1>1. /\ UNCHANGED <<favorites, alerts, older, questions, requests, running, announced, faults>>
      /\ ticks[t].pc = "list"
  BY DEF ListActiveBatch
<1>2. PICK n \in 0..BatchSize : \E rows \in [1..n -> Active] :
         /\ IsOldest(rows)
         /\ ticks' = [ticks EXCEPT ![t] =
               [pc |-> "check", batch |-> [i \in 1..n |-> Snapshot(rows[i])], net |-> NoPrice]]
  BY DEF ListActiveBatch
<1>3. PICK rows \in [1..n -> Active] :
         /\ IsOldest(rows)
         /\ ticks' = [ticks EXCEPT ![t] =
               [pc |-> "check", batch |-> [i \in 1..n |-> Snapshot(rows[i])], net |-> NoPrice]]
  BY <1>2
<1>4. n \in Nat BY LimitAssumption
<1>5. \A a \in Active : /\ Snapshot(a) \in Snapshots /\ Snapshot(a).id = a
                        /\ Snapshot(a).setBy = alerts[a].setBy /\ Snapshot(a).last = alerts[a].last
  BY DEF Snapshot, Snapshots, Active, TypeOK
<1>6. PICK batch : batch = [i \in 1..n |-> Snapshot(rows[i])]
  OBVIOUS
<1>7. /\ batch \in [1..n -> Snapshots] /\ DOMAIN batch = 1..n
      /\ \A i \in 1..n : batch[i] = Snapshot(rows[i])
  BY <1>5, <1>6
<1>8. batch \in Seq(Snapshots) BY <1>4, <1>7
<1>9. \A i, j \in 1..n : rows[i] = rows[j] => i = j
  <2> SUFFICES ASSUME NEW i \in 1..n, NEW j \in 1..n, rows[i] = rows[j], i # j PROVE FALSE
    OBVIOUS
  <2>1. rows[i] \in DOMAIN alerts BY DEF Active
  <2>2. <<rows[i], rows[i]>> \in older
    <3>1. DOMAIN rows = 1..n /\ (i < j \/ j < i) BY <1>4
    <3> QED BY <1>3, <3>1 DEF IsOldest
  <2> QED BY <2>1, <2>2 DEF OlderInv
<1>10. PICK q \in TickRecords :
         ticks' = [ticks EXCEPT ![t] = q] /\ q.pc = "check" /\ q.batch = batch
  <2> DEFINE q == [pc |-> "check", batch |-> batch, net |-> NoPrice]
  <2>1. ticks' = [ticks EXCEPT ![t] = q] BY <1>3, <1>6
  <2>2. q \in TickRecords /\ q.pc = "check" /\ q.batch = batch BY <1>8 DEF TickRecords
  <2> HIDE DEF q
  <2> QED BY <2>1, <2>2
<1>11. /\ TypeOK' /\ OlderInv' /\ RowsOfTick(t)
       /\ ticks'[t] = q /\ \A u \in Ticks \ {t} : ticks'[u] = ticks[u]
  <2>1. running' \in BOOLEAN /\ announced' \in [Requests -> Seq(Targets)] /\ faults' \in 0..MaxFaults
    BY <1>1 DEF TypeOK
  <2> QED BY <1>1, <1>10, <2>1, QuietTick
<1>12. \A i \in 1..n : rows[i] \in Active /\ batch[i] = Snapshot(rows[i]) /\ batch[i].id = rows[i]
                       /\ batch[i].setBy = alerts[rows[i]].setBy
                       /\ batch[i].last = alerts[rows[i]].last
  BY <1>5, <1>7
<1>13. Lists(t)
  BY <1>1, <1>7, <1>9, <1>10, <1>11, <1>12 DEF Lists
<1> QED BY <1>1, <1>11, <1>13 DEF TickSide

\* The quote, and a row that fails.
LEMMA LoopFacts ==
    ASSUME IInv, NEW t \in Ticks, FetchAlertQuote(t) \/ AlertFails(t)
    PROVE  TickSide(t)
<1> USE DEF IInv
<1>1. /\ UNCHANGED <<favorites, alerts, older, questions, requests, running, announced>>
      /\ running' \in BOOLEAN /\ announced' \in [Requests -> Seq(Targets)] /\ faults' \in 0..MaxFaults
      /\ ticks[t].batch # <<>>
  BY FaultsAssumption DEF FetchAlertQuote, AlertFails, TypeOK
<1>2. CASE FetchAlertQuote(t)
  <2>1. PICK net \in Prices :
           ticks' = [ticks EXCEPT ![t] = [pc |-> "observe", batch |-> @.batch, net |-> net]]
    BY <1>2 DEF FetchAlertQuote
  <2> DEFINE q == [pc |-> "observe", batch |-> ticks[t].batch, net |-> net]
  <2>2. ticks' = [ticks EXCEPT ![t] = q] BY <2>1
  <2>3. q \in TickRecords /\ q.pc = "observe" /\ q.batch = ticks[t].batch
    BY TickTyped DEF TickRecords
  <2> HIDE DEF q
  <2>4. /\ TypeOK' /\ OlderInv' /\ RowsOfTick(t)
        /\ ticks'[t] = q /\ \A u \in Ticks \ {t} : ticks'[u] = ticks[u]
    BY <1>1, <2>2, <2>3, QuietTick DEF FetchAlertQuote
  <2>5. ticks[t].pc = "check" BY <1>2 DEF FetchAlertQuote
  <2> QED BY <1>1, <2>3, <2>4, <2>5 DEF TickSide, GetsOn
<1>3. CASE AlertFails(t)
  <2>1. PICK q \in TickRecords :
           ticks' = [ticks EXCEPT ![t] = q] /\ q.pc = "check" /\ q.batch = Tail(ticks[t].batch)
    BY <1>1, <1>3, NextRecord DEF AlertFails
  <2>2. /\ TypeOK' /\ OlderInv' /\ RowsOfTick(t)
        /\ ticks'[t] = q /\ \A u \in Ticks \ {t} : ticks'[u] = ticks[u]
    BY <1>1, <2>1, QuietTick
  <2>3. ticks[t].pc \in {"check", "observe", "trigger", "send"} BY <1>3 DEF AlertFails
  <2> QED BY <1>1, <2>1, <2>2, <2>3 DEF TickSide, TurnsToNext
<1> QED BY <1>2, <1>3

\* A tick that writes its current row, and only that one, leaves every type as it was.
LEMMA TickTypes ==
    ASSUME TypeOK, NEW a \in DOMAIN alerts, DOMAIN alerts' = DOMAIN alerts,
           \A b \in DOMAIN alerts \ {a} : alerts'[b] = alerts[b],
           alerts'[a] \in [favorite : Favorites, target : Targets, status : {"active", "triggered"},
              last : Prices \cup {NoPrice}, setBy : Requests, firedFor : Targets \cup {NoPrice}],
           older' \subseteq (DOMAIN alerts') \X (DOMAIN alerts'), ticks' \in [Ticks -> TickRecords],
           UNCHANGED <<favorites, questions, requests, running, announced, faults>>
    PROVE  TypeOK'
<1>1. DOMAIN alerts' \subseteq Requests BY DEF TypeOK
<1>2. ASSUME NEW b \in DOMAIN alerts'
      PROVE  alerts'[b] \in
                [favorite : Favorites, target : Targets, status : {"active", "triggered"},
                 last : Prices \cup {NoPrice}, setBy : Requests, firedFor : Targets \cup {NoPrice}]
  <2>1. CASE b = a BY <2>1
  <2>2. CASE b # a
    <3>1. b \in DOMAIN alerts /\ alerts'[b] = alerts[b] BY <2>2
    <3> QED BY <3>1 DEF TypeOK
  <2> QED BY <2>1, <2>2
<1>3. /\ favorites' \in [Favorites -> {"absent", "present", "deleted"}]
      /\ requests' \in [Requests -> RequestRecords]
      /\ prompts' \in [Users -> Favorites \cup {None}]
      /\ prompted' \in [Users -> 0 .. MaxPrompts]
      /\ running' \in BOOLEAN
      /\ announced' \in [Requests -> Seq(Targets)]
      /\ faults' \in 0..MaxFaults
  BY DEF TypeOK, questions
<1> QED BY <1>1, <1>2, <1>3 DEF TypeOK, TickRecords

\* The two writes of a tick: a row that is there keeps what is not written.
LEMMA TickWrites ==
    ASSUME TypeOK, OlderInv, NEW t \in Ticks, ticks[t].batch # <<>>,
           ticks[t].pc \in {"observe", "trigger"},
           NEW a, a = Current(t).id, NEW q \in TickRecords,
           ticks' = [ticks EXCEPT ![t] = q],
           UNCHANGED <<favorites, questions, requests, running, announced, faults>>,
           \/ a \notin DOMAIN alerts /\ UNCHANGED <<alerts, older>>
           \/ /\ a \in DOMAIN alerts /\ Touch(a)
              /\ \/ alerts' = [alerts EXCEPT ![a].last = ticks[t].net]
                 \/ alerts' = [alerts EXCEPT ![a].status = "triggered",
                                             ![a].last = ticks[t].net,
                                             ![a].firedFor = Current(t).target]
    PROVE  /\ TypeOK' /\ OlderInv' /\ RowsOfTick(t)
           /\ ticks'[t] = q /\ \A u \in Ticks \ {t} : ticks'[u] = ticks[u]
<1>1. CASE UNCHANGED <<alerts, older>>
  <2>1. running' \in BOOLEAN /\ announced' \in [Requests -> Seq(Targets)] /\ faults' \in 0..MaxFaults
    BY DEF TypeOK
  <2> QED BY <1>1, <2>1, QuietTick
<1>2. CASE a \in DOMAIN alerts /\ Touch(a)
  <2>1. ticks[t].net \in Prices \cup {NoPrice} /\ Current(t).target \in Targets
    BY TickTyped, CurrentFacts DEF Snapshots
  <2>2. /\ DOMAIN alerts' = DOMAIN alerts
        /\ \A b \in DOMAIN alerts \ {a} : alerts'[b] = alerts[b]
        /\ alerts'[a] \in [favorite : Favorites, target : Targets, status : {"active", "triggered"},
              last : Prices \cup {NoPrice}, setBy : Requests, firedFor : Targets \cup {NoPrice}]
        /\ alerts'[a].favorite = alerts[a].favorite /\ alerts'[a].setBy = alerts[a].setBy
        /\ alerts'[a].status \in {alerts[a].status, "triggered"}
    <3>1. alerts[a] \in [favorite : Favorites, target : Targets, status : {"active", "triggered"},
              last : Prices \cup {NoPrice}, setBy : Requests, firedFor : Targets \cup {NoPrice}]
      BY <1>2 DEF TypeOK
    <3>2. CASE alerts' = [alerts EXCEPT ![a].last = ticks[t].net]
      BY <1>2, <2>1, <3>1, <3>2
    <3>3. CASE alerts' = [alerts EXCEPT ![a].status = "triggered", ![a].last = ticks[t].net,
                                        ![a].firedFor = Current(t).target]
      BY <1>2, <2>1, <3>1, <3>3
    <3> QED BY <1>2, <3>2, <3>3
  <2>3. older' \subseteq (DOMAIN alerts') \X (DOMAIN alerts') /\ OlderInv'
    BY <1>2, <2>2, TouchFacts
  <2>4. ticks' \in [Ticks -> TickRecords] /\ ticks'[t] = q
        /\ \A u \in Ticks \ {t} : ticks'[u] = ticks[u]
    BY DEF TypeOK, TickRecords
  <2>5. TypeOK' BY <1>2, <2>2, <2>3, <2>4, TickTypes
  <2>6. RowsOfTick(t)
    BY <1>2, <2>2 DEF RowsOfTick
  <2> QED BY <2>3, <2>4, <2>5, <2>6
<1> QED BY <1>1, <1>2

LEMMA ObserveFacts ==
    ASSUME IInv, NEW t \in Ticks, MarkObserved(t)
    PROVE  TickSide(t)
<1> USE DEF IInv
<1>1. /\ UNCHANGED <<favorites, questions, requests, running, announced, faults>>
      /\ ticks[t].pc = "observe" /\ ticks[t].batch # <<>>
  BY DEF MarkObserved, OneTick
<1>2. PICK a : a = Current(t).id OBVIOUS
<1>3. \/ a \notin DOMAIN alerts /\ UNCHANGED <<alerts, older>>
      \/ a \in DOMAIN alerts /\ Touch(a) /\ alerts' = [alerts EXCEPT ![a].last = ticks[t].net]
  BY <1>2 DEF MarkObserved
<1>4. PICK q \in TickRecords :
         /\ ticks' = [ticks EXCEPT ![t] = q]
         /\ \/ q.pc = "trigger" /\ q.batch = ticks[t].batch
            \/ q.pc = "check" /\ q.batch = Tail(ticks[t].batch)
  <2>1. CASE TickTo(t, "trigger")
    BY <2>1, TickTyped
  <2>2. CASE NextAlert(t)
    BY <1>1, <2>2, NextRecord
  <2> QED BY <2>1, <2>2 DEF MarkObserved
<1>5. /\ TypeOK' /\ OlderInv' /\ RowsOfTick(t)
      /\ ticks'[t] = q /\ \A u \in Ticks \ {t} : ticks'[u] = ticks[u]
  BY <1>1, <1>2, <1>3, <1>4, TickWrites
<1>6. GetsOn(t) \/ TurnsToNext(t)
  BY <1>1, <1>4, <1>5 DEF GetsOn, TurnsToNext
<1> QED BY <1>1, <1>5, <1>6 DEF TickSide

\* The row is closed, or gone, when its user is about to be told.
LEMMA TriggerFacts ==
    ASSUME IInv, NEW t \in Ticks, MarkTriggered(t)
    PROVE  TickSide(t)
<1> USE DEF IInv
<1>1. /\ UNCHANGED <<favorites, questions, requests, running, announced, faults>>
      /\ ticks[t].pc = "trigger" /\ ticks[t].batch # <<>>
  BY DEF MarkTriggered, OneTick
<1>2. PICK a : a = Current(t).id OBVIOUS
<1>3. \/ a \notin DOMAIN alerts /\ UNCHANGED <<alerts, older>>
      \/ /\ a \in DOMAIN alerts /\ Touch(a)
         /\ alerts' = [alerts EXCEPT ![a].status = "triggered", ![a].last = ticks[t].net,
                                     ![a].firedFor = Current(t).target]
  BY <1>2 DEF MarkTriggered
<1>4. PICK q \in TickRecords :
         ticks' = [ticks EXCEPT ![t] = q] /\ q.pc = "send" /\ q.batch = ticks[t].batch
  BY TickTyped DEF MarkTriggered
<1>5. /\ TypeOK' /\ OlderInv' /\ RowsOfTick(t)
      /\ ticks'[t] = q /\ \A u \in Ticks \ {t} : ticks'[u] = ticks[u]
  BY <1>1, <1>2, <1>3, <1>4, TickWrites
<1>6. a \notin Active'
  <2>1. CASE a \notin DOMAIN alerts /\ UNCHANGED <<alerts, older>>
    BY <2>1 DEF Active
  <2>2. CASE /\ a \in DOMAIN alerts
             /\ alerts' = [alerts EXCEPT ![a].status = "triggered", ![a].last = ticks[t].net,
                                         ![a].firedFor = Current(t).target]
    <3>1. alerts[a] \in [favorite : Favorites, target : Targets, status : {"active", "triggered"},
              last : Prices \cup {NoPrice}, setBy : Requests, firedFor : Targets \cup {NoPrice}]
      BY <2>2 DEF TypeOK
    <3>2. alerts'[a].status = "triggered" BY <2>2, <3>1
    <3> QED BY <3>2 DEF Active
  <2> QED BY <1>3, <2>1, <2>2
<1>7. GetsOn(t) BY <1>1, <1>2, <1>4, <1>5, <1>6 DEF GetsOn
<1> QED BY <1>1, <1>5, <1>7 DEF TickSide

LEMMA SendFacts ==
    ASSUME IInv, NEW t \in Ticks, SendTelegramMessage(t)
    PROVE  TickSide(t)
<1> USE DEF IInv
<1>1. /\ UNCHANGED <<favorites, alerts, older, questions, requests, running, faults>>
      /\ ticks[t].pc = "send" /\ ticks[t].batch # <<>>
      /\ announced' = [announced EXCEPT ![Current(t).id] = Append(@, Current(t).target)]
  BY DEF SendTelegramMessage, OneTick
<1>2. PICK q \in TickRecords :
         ticks' = [ticks EXCEPT ![t] = q] /\ q.pc = "check" /\ q.batch = Tail(ticks[t].batch)
  BY <1>1, NextRecord DEF SendTelegramMessage
<1>3. announced' \in [Requests -> Seq(Targets)]
  <2>1. PICK a, target : a = Current(t).id /\ target = Current(t).target OBVIOUS
  <2>2. a \in Requests /\ target \in Targets BY <1>1, <2>1, CurrentFacts DEF Snapshots
  <2>3. announced[a] \in Seq(Targets) BY <2>2 DEF TypeOK
  <2>4. Append(announced[a], target) \in Seq(Targets) BY <2>2, <2>3
  <2>5. announced' = [announced EXCEPT ![a] = Append(announced[a], target)] BY <1>1, <2>1
  <2> QED BY <2>2, <2>4, <2>5 DEF TypeOK
<1>4. /\ TypeOK' /\ OlderInv' /\ RowsOfTick(t)
      /\ ticks'[t] = q /\ \A u \in Ticks \ {t} : ticks'[u] = ticks[u]
  <2>1. running' \in BOOLEAN /\ faults' \in 0..MaxFaults BY <1>1 DEF TypeOK
  <2> QED BY <1>1, <1>2, <1>3, <2>1, QuietTick
<1>5. TurnsToNext(t) BY <1>1, <1>2, <1>4 DEF TurnsToNext
<1> QED BY <1>1, <1>4, <1>5 DEF TickSide

-----------------------------------------------------------------------------
(* What a tick leaves standing.                                            *)

LEMMA TicksKeep ==
    ASSUME IInv, NEW t \in Ticks, TickSide(t)
    PROVE  IInv'
<1> USE DEF IInv
<1>1. /\ TypeOK' /\ OlderInv' /\ UNCHANGED <<prompts, prompted, requests>>
      /\ RowsOfTick(t) /\ DOMAIN alerts' = DOMAIN alerts
      /\ \A u \in Ticks \ {t} : ticks'[u] = ticks[u]
  BY DEF TickSide, RowsOfTick, questions
<1>2. Begins(t) \/ Lists(t) \/ GetsOn(t) \/ TurnsToNext(t) \/ Ends(t)
  BY DEF TickSide
<1>3. Active' \subseteq Active /\ \A a \in Active' : alerts'[a].favorite = alerts[a].favorite
  BY <1>1 DEF RowsOfTick, Active
<1>4. \A u \in Ticks \ {t} : ticks[u].pc = "idle" /\ ticks[u].batch = <<>>
  BY <1>2 DEF Begins, Lists, GetsOn, TurnsToNext, Ends, OneTick
<1>5. \A u \in Ticks : /\ ticks[u].batch \in Seq(Snapshots)
                       /\ DOMAIN ticks[u].batch = 1 .. Len(ticks[u].batch)
                       /\ \A i \in DOMAIN ticks[u].batch : ticks[u].batch[i] \in Snapshots
  BY BatchElements
\* Every row left in a batch was in it before, further down, or is just listed.
<1>6. ASSUME NEW i \in DOMAIN ticks'[t].batch
      PROVE  /\ \/ ticks'[t].batch = ticks[t].batch
                \/ TurnsToNext(t) /\ i + 1 \in DOMAIN ticks[t].batch /\ i + 1 > 1
                   /\ ticks'[t].batch[i] = ticks[t].batch[i + 1]
                \/ Lists(t)
  <2>1. CASE Begins(t) \/ Ends(t)
    BY <1>6, <2>1 DEF Begins, Ends, OneTick
  <2>2. CASE GetsOn(t) BY <2>2 DEF GetsOn
  <2>3. CASE TurnsToNext(t) BY <1>6, <2>3, CurrentFacts DEF TurnsToNext
  <2> QED BY <1>2, <2>1, <2>2, <2>3
<1>7. ActiveInv' BY <1>3 DEF ActiveInv
<1>8. QuestionInv' BY <1>1 DEF QuestionInv, Answers
<1>9. OneTick'
  <2>1. CASE Begins(t) BY <1>1, <1>4, <2>1 DEF Begins, OneTick
  <2>2. CASE Lists(t) BY <1>1, <1>4, <2>2 DEF Lists, OneTick
  <2>3. CASE GetsOn(t) BY <1>1, <1>4, <2>3 DEF GetsOn, OneTick
  <2>4. CASE TurnsToNext(t) BY <1>1, <1>4, <2>4 DEF TurnsToNext, OneTick
  <2>5. CASE Ends(t) BY <1>1, <1>4, <2>5 DEF Ends, OneTick
  <2> QED BY <1>2, <2>1, <2>2, <2>3, <2>4, <2>5
<1>10. \A r \in Requests : announced'[r] # announced[r] =>
          /\ TurnsToNext(t) /\ ticks[t].pc = "send" /\ r = Current(t).id
          /\ announced'[r] = Append(announced[r], Current(t).target)
  <2>1. CASE announced' = announced BY <2>1
  <2>2. CASE /\ TurnsToNext(t) /\ ticks[t].pc = "send"
             /\ announced' = [announced EXCEPT ![Current(t).id] = Append(@, Current(t).target)]
    BY <2>2 DEF TypeOK
  <2> QED BY <1>2, <2>1, <2>2 DEF Begins, Lists, GetsOn, TurnsToNext, Ends
<1>11. ticks[t].batch # <<>> =>
          /\ 1 \in DOMAIN ticks[t].batch /\ Current(t) = ticks[t].batch[1]
          /\ Current(t).id \in Requests /\ Current(t).target \in Targets
          /\ announced[Current(t).id] = <<>>
  BY CurrentFacts DEF BatchInv, Snapshots
<1>12. WrittenInv'
  <2>1. \A a \in DOMAIN alerts' :
           requests'[a].pc \in Past /\ requests'[alerts'[a].setBy].pc \in Past
    BY <1>1 DEF WrittenInv, RowsOfTick
  <2>2. ASSUME NEW u \in Ticks, NEW i \in DOMAIN ticks'[u].batch
        PROVE  /\ requests'[ticks'[u].batch[i].id].pc \in Past
               /\ requests'[ticks'[u].batch[i].setBy].pc \in Past
    <3>1. CASE u # t BY <1>1, <2>2, <3>1 DEF WrittenInv
    <3>2. CASE u = t /\ Lists(t)
      BY <1>1, <2>2, <3>2 DEF Lists, WrittenInv, Active
    <3>3. CASE u = t /\ ~Lists(t)
      BY <1>1, <1>6, <2>2, <3>3 DEF WrittenInv
    <3> QED BY <3>1, <3>2, <3>3
  <2>3. ASSUME NEW r \in Requests, announced'[r] # <<>> PROVE requests'[r].pc \in Past
    <3>1. CASE announced'[r] = announced[r] BY <1>1, <2>3, <3>1 DEF WrittenInv
    <3>2. CASE announced'[r] # announced[r]
      BY <1>1, <1>10, <1>11, <3>2 DEF WrittenInv, TurnsToNext
    <3> QED BY <3>1, <3>2
  <2> QED BY <2>1, <2>2, <2>3 DEF WrittenInv
<1>13. ToldInv'
  <2>1. ASSUME NEW r \in Requests
        PROVE  Len(announced'[r]) <= 1 /\ (announced'[r] # <<>> => r \notin Active')
    <3>1. CASE announced'[r] = announced[r] BY <1>3, <3>1 DEF ToldInv
    <3>2. CASE announced'[r] # announced[r]
      <4>1. /\ announced'[r] = Append(<<>>, Current(t).target) /\ r \notin Active
            /\ Current(t).target \in Targets
        BY <1>10, <1>11, <3>2 DEF TurnsToNext, BatchInv
      <4> QED BY <1>3, <4>1
    <3> QED BY <3>1, <3>2
  <2> QED BY <2>1 DEF ToldInv
<1>14. BatchInv'
  <2>1. ASSUME NEW i \in DOMAIN ticks'[t].batch, NEW j \in DOMAIN ticks'[t].batch,
               ticks'[t].batch[i].id = ticks'[t].batch[j].id
        PROVE  i = j
    <3>1. CASE Lists(t) BY <2>1, <3>1 DEF Lists
    <3>2. CASE ticks'[t].batch = ticks[t].batch BY <2>1, <3>2 DEF BatchInv
    <3>3. CASE TurnsToNext(t)
      <4>1. /\ i + 1 \in DOMAIN ticks[t].batch /\ ticks'[t].batch[i] = ticks[t].batch[i + 1]
            /\ j + 1 \in DOMAIN ticks[t].batch /\ ticks'[t].batch[j] = ticks[t].batch[j + 1]
            /\ i \in Int /\ j \in Int
        BY <3>3, CurrentFacts, BatchElements DEF TurnsToNext
      <4>2. i + 1 = j + 1 BY <2>1, <4>1 DEF BatchInv
      <4> QED BY <4>1, <4>2
    <3> QED BY <1>6, <3>1, <3>2, <3>3
  <2>2. ASSUME NEW i \in DOMAIN ticks'[t].batch
        PROVE  announced'[ticks'[t].batch[i].id] = <<>>
    <3>1. CASE Lists(t)
      BY <2>2, <3>1 DEF Lists, ToldInv, Active, TypeOK
    <3>2. CASE GetsOn(t) BY <2>2, <3>2 DEF GetsOn, BatchInv
    <3>3. CASE TurnsToNext(t)
      <4>1. /\ i + 1 \in DOMAIN ticks[t].batch /\ i + 1 > 1
            /\ ticks'[t].batch[i] = ticks[t].batch[i + 1]
        BY <3>3, CurrentFacts DEF TurnsToNext
      <4>2. /\ ticks[t].batch[i + 1].id # Current(t).id /\ ticks[t].batch[i + 1].id \in Requests
            /\ announced[ticks[t].batch[i + 1].id] = <<>>
        BY <1>5, <1>11, <3>3, <4>1 DEF BatchInv, TurnsToNext, Snapshots
      <4> QED BY <1>10, <4>1, <4>2
    <3>4. CASE Begins(t) \/ Ends(t) BY <2>2, <3>4 DEF Begins, Ends
    <3> QED BY <1>2, <3>1, <3>2, <3>3, <3>4
  <2>3. ASSUME NEW i \in DOMAIN ticks'[t].batch, i > 1 \/ ticks'[t].pc \in {"check", "observe"},
               ticks'[t].batch[i].id \in DOMAIN alerts',
               alerts'[ticks'[t].batch[i].id].setBy = ticks'[t].batch[i].setBy
        PROVE  alerts'[ticks'[t].batch[i].id].last = ticks'[t].batch[i].last
    <3>1. CASE Lists(t) BY <2>3, <3>1 DEF Lists
    <3>2. CASE GetsOn(t)
      <4>1. /\ ticks'[t].batch = ticks[t].batch /\ ticks[t].batch # <<>>
            /\ i > 1 \/ ticks[t].pc = "check"
        BY <2>3, <3>2 DEF GetsOn
      <4>2. PICK s : s = ticks[t].batch[i] OBVIOUS
      <4>3. /\ s.id \in DOMAIN alerts /\ alerts'[s.id].setBy = alerts[s.id].setBy
            /\ alerts[s.id].last = s.last
        BY SMTT(30), <1>1, <2>3, <4>1, <4>2 DEF BatchInv, RowsOfTick
      <4>4. CASE i > 1
        <5>1. s.id # Current(t).id
          BY <1>5, <1>11, <2>3, <4>1, <4>2, <4>4 DEF BatchInv
        <5> QED BY <1>1, <4>1, <4>2, <4>3, <5>1 DEF RowsOfTick
      <4>5. CASE ticks[t].pc = "check"
        BY <1>1, <4>1, <4>2, <4>3, <4>5 DEF RowsOfTick
      <4> QED BY <4>1, <4>4, <4>5
    <3>3. CASE TurnsToNext(t)
      <4>1. /\ i + 1 \in DOMAIN ticks[t].batch /\ i + 1 > 1
            /\ ticks'[t].batch[i] = ticks[t].batch[i + 1]
        BY <2>3, <3>3, CurrentFacts DEF TurnsToNext
      <4>2. PICK s : s = ticks[t].batch[i + 1] OBVIOUS
      <4>3. /\ s.id \in DOMAIN alerts /\ alerts'[s.id].setBy = alerts[s.id].setBy
            /\ alerts[s.id].last = s.last
        BY SMTT(30), <1>1, <2>3, <4>1, <4>2 DEF BatchInv, RowsOfTick
      <4>4. s.id # Current(t).id
        <5>1. 1 \in DOMAIN ticks[t].batch /\ Current(t) = ticks[t].batch[1]
          BY <1>11, <3>3 DEF TurnsToNext
        <5>2. i + 1 # 1 BY <1>5, <4>1
        <5> QED BY <4>1, <4>2, <5>1, <5>2 DEF BatchInv
      <4> QED BY <1>1, <4>1, <4>2, <4>3, <4>4 DEF RowsOfTick
    <3>4. CASE Begins(t) \/ Ends(t) BY <2>3, <3>4 DEF Begins, Ends
    <3> QED BY <1>2, <3>1, <3>2, <3>3, <3>4
  <2>4. ASSUME ticks'[t].pc = "send" PROVE Current(t)'.id \notin Active'
    <3>1. GetsOn(t) BY <1>2, <2>4 DEF Begins, Lists, GetsOn, TurnsToNext, Ends
    <3>2. Current(t)' = Current(t) BY <3>1 DEF GetsOn, Current
    <3> QED BY <2>4, <3>1, <3>2 DEF GetsOn
  <2>5. ASSUME NEW u \in Ticks, u # t
        PROVE  ticks'[u].pc = "idle" /\ ticks'[u].batch = <<>> /\ DOMAIN ticks'[u].batch = {}
    BY <1>1, <1>4, <2>5
  <2> SUFFICES ASSUME NEW u \in Ticks
               PROVE  LET batch == ticks'[u].batch IN
                        /\ \A i, j \in DOMAIN batch : batch[i].id = batch[j].id => i = j
                        /\ \A i \in DOMAIN batch :
                              /\ announced'[batch[i].id] = <<>>
                              /\ (i > 1 \/ ticks'[u].pc \in {"check", "observe"})
                                    /\ batch[i].id \in DOMAIN alerts'
                                    /\ alerts'[batch[i].id].setBy = batch[i].setBy
                                    => alerts'[batch[i].id].last = batch[i].last
                        /\ ticks'[u].pc = "send" => Current(u)'.id \notin Active'
    BY DEF BatchInv
  <2>6. CASE u = t BY <2>1, <2>2, <2>3, <2>4, <2>6
  <2>7. CASE u # t BY <2>5, <2>7
  <2> QED BY <2>6, <2>7
<1> QED BY <1>1, <1>7, <1>8, <1>9, <1>12, <1>13, <1>14

\* A crash leaves the rows, whose requests have written, and no tick.
LEMMA CrashKeeps ==
    ASSUME IInv, Crash
    PROVE  IInv'
<1> USE DEF IInv
<1>1. /\ UNCHANGED <<favorites, alerts, older, prompted, announced>>
      /\ running' = FALSE /\ ticks' = [t \in Ticks |-> NoTick]
      /\ prompts' = [u \in Users |-> None] /\ faults' \in 0..MaxFaults
  BY FaultsAssumption DEF Crash, TypeOK
<1>2. /\ requests' \in [Requests -> RequestRecords]
      /\ \A r \in Requests : \/ requests'[r] = requests[r] /\ requests[r].pc \notin RequestPc
                             \/ requests'[r].pc = "lost"
  <2>1. [pc |-> "lost"] \in RequestRecords BY DEF RequestRecords
  <2>2. requests' = [r \in Requests |->
           IF requests[r].pc \in RequestPc THEN [pc |-> "lost"] ELSE requests[r]]
    BY DEF Crash
  <2> QED BY <2>1, <2>2 DEF TypeOK
<1>3. \A r \in Requests : requests[r].pc \in Past => requests'[r].pc \in Past
  BY <1>2 DEF Past
<1>4. \A t \in Ticks : ticks'[t] = NoTick BY <1>1
<1>5. TypeOK'
  <2>1. NoTick \in [pc : {"idle", "list", "check", "observe", "trigger", "send"},
                    batch : Seq(Snapshots), net : Prices \cup {NoPrice}]
    BY DEF NoTick
  <2>2. ticks' \in [Ticks -> [pc : {"idle", "list", "check", "observe", "trigger", "send"},
                              batch : Seq(Snapshots), net : Prices \cup {NoPrice}]]
    BY <1>1, <2>1
  <2> HIDE DEF NoTick
  <2> QED BY <1>1, <1>2, <2>2 DEF TypeOK
<1>6. WrittenInv'
  <2>1. \A t \in Ticks : DOMAIN ticks'[t].batch = {} BY <1>4 DEF NoTick
  <2>2. \A a \in DOMAIN alerts : a \in Requests /\ alerts[a].setBy \in Requests
    BY DEF TypeOK
  <2> QED BY <1>1, <1>3, <2>1, <2>2 DEF WrittenInv
<1>7. ActiveInv' /\ OlderInv' /\ ToldInv'
  BY <1>1 DEF ActiveInv, OlderInv, ToldInv, Active
<1>8. OneTick' /\ BatchInv'
  BY <1>1, <1>4 DEF OneTick, BatchInv, NoTick, Current
<1>9. Questions
  <2>1. ASSUME NEW u \in Users PROVE Answers(u)' \subseteq Answers(u)
    BY <1>2 DEF Answers, RequestPc
  <2> QED BY <1>1, <2>1 DEF Questions
<1> QED BY <1>5, <1>6, <1>7, <1>8, <1>9, QuestionsKept

LEMMA InitInv == Init => IInv
<1> SUFFICES ASSUME Init PROVE IInv
  OBVIOUS
<1> USE DEF Init
<1>1. DOMAIN alerts = {} /\ Active = {} BY DEF Active
<1>2. TypeOK
  <2>1. [pc |-> "idle"] \in RequestRecords BY DEF RequestRecords
  <2>2. requests \in [Requests -> RequestRecords] BY <2>1
  <2>3. ticks \in [Ticks -> [pc : {"idle", "list", "check", "observe", "trigger", "send"},
                             batch : Seq(Snapshots), net : Prices \cup {NoPrice}]]
    BY DEF NoTick
  <2>4. /\ favorites \in [Favorites -> {"absent", "present", "deleted"}]
        /\ prompts \in [Users -> Favorites \cup {None}] /\ running \in BOOLEAN
    OBVIOUS
  <2>5. prompted \in [Users -> 0 .. MaxPrompts] /\ faults \in 0..MaxFaults
    BY PromptAssumption, FaultsAssumption
  <2>6. announced \in [Requests -> Seq(Targets)]
    OBVIOUS
  <2> QED BY <1>1, <2>2, <2>3, <2>4, <2>5, <2>6 DEF TypeOK
<1>3. \A t \in Ticks : ticks[t].pc = "idle" /\ ticks[t].batch = <<>> /\ DOMAIN ticks[t].batch = {}
  BY DEF NoTick
<1>4. WrittenInv /\ ActiveInv /\ OlderInv /\ OneTick /\ BatchInv /\ ToldInv
  BY <1>1, <1>3 DEF WrittenInv, ActiveInv, OlderInv, OneTick, BatchInv, ToldInv
<1>5. QuestionInv
  <2>1. \A u \in Users : Answers(u) = {} BY DEF Answers, RequestPc
  <2>2. \A u \in Users : IsFiniteSet(Answers(u)) /\ Cardinality(Answers(u)) = 0
    BY <2>1, FS_EmptySet
  <2>3. \A u \in Users : prompts[u] = None /\ prompted[u] = 0 OBVIOUS
  <2> HIDE DEF Init
  <2> QED BY <2>2, <2>3 DEF QuestionInv
<1> QED BY <1>2, <1>4, <1>5 DEF IInv

LEMMA StepInv == IInv /\ [Next]_vars => IInv'
<1> SUFFICES ASSUME IInv, [Next]_vars PROVE IInv'
  OBVIOUS
<1>1. ASSUME NEW f \in Favorites, CreateFavorite(f) \/ DeleteFavorite(f)
      PROVE  IInv'
  BY <1>1, FavoriteFacts, RequestsKeep
<1>2. ASSUME NEW u \in Users,
             \/ \E f \in Favorites : HandleFavoriteAlert(u, f)
             \/ \E r \in Requests, target \in Targets : HandleAlertThresholdInput(r, u, target)
             \/ ExpirePrompt(u)
      PROVE  IInv'
  BY <1>2, PromptFacts, RequestsKeep
<1>3. ASSUME NEW r \in Requests, RequestStep(r) \/ RequestFails(r)
      PROVE  IInv'
  <2>1. CASE UpdateAlert(r) \/ InsertAlert(r)
    BY <2>1, WriteFacts, RequestsKeep
  <2>2. CASE \/ GetFavorite(r) \/ FindActiveByFavorite(r) \/ CountActiveByUser(r)
             \/ SelectActive(r) \/ ConfirmAlert(r) \/ RequestFails(r)
    BY <2>2, ReadFacts, RequestsKeep
  <2> QED BY <1>3, <2>1, <2>2 DEF RequestStep
<1>4. ASSUME NEW t \in Ticks, StartTick(t) \/ TickStep(t) \/ AlertFails(t)
      PROVE  IInv'
  <2>1. TickSide(t)
    BY <1>4, ScheduleFacts, ListFacts, LoopFacts, ObserveFacts, TriggerFacts, SendFacts
    DEF TickStep, HandleTriggeredAlert
  <2> QED BY <2>1, TicksKeep
<1>5. CASE Crash
  BY <1>5, CrashKeeps
<1>6. CASE UNCHANGED vars
  <2>1. TypeOK' BY <1>6 DEF vars, questions, IInv, TypeOK
  <2>2. WrittenInv' /\ ActiveInv' /\ OlderInv'
    BY <1>6 DEF vars, IInv, WrittenInv, ActiveInv, OlderInv, Active
  <2>3. OneTick' BY <1>6 DEF vars, IInv, OneTick
  <2>4. BatchInv' BY <1>6 DEF vars, IInv, BatchInv, Active, Current
  <2>5. ToldInv' BY <1>6 DEF vars, IInv, ToldInv, Active
  <2>6. QuestionInv' BY <1>6 DEF vars, questions, IInv, QuestionInv, Answers
  <2> QED BY <2>1, <2>2, <2>3, <2>4, <2>5, <2>6 DEF IInv
<1> QED BY <1>1, <1>2, <1>3, <1>4, <1>5, <1>6 DEF Next

-----------------------------------------------------------------------------
(* The theorems.                                                           *)

\* The inductive invariant holds in every state of the alerts and their worker
\* (price-alerts.service.ts, price-alerts.worker.ts).
THEOREM SpecInv == Spec => []IInv
BY InitInv, StepInv, PTL DEF Spec

\* Every row, question, input and tick is always one the code can hold
\* (price-alerts.repository.ts, pending-actions of the portfolio service).
THEOREM SpecTypeOK == Spec => []TypeOK
<1>1. IInv => TypeOK BY DEF IInv
<1> QED BY <1>1, SpecInv, PTL

\* Whatever inputs for a favourite overlap, and whenever it is deleted or its
\* alert fires, it never has two active alerts: upsertActiveAlert's second look
\* and the unique index suffice (price-alerts.repository.ts).
THEOREM SpecOneActivePerFavorite == Spec => []OneActivePerFavorite
<1>1. ActiveInv => OneActivePerFavorite
  <2> SUFFICES ASSUME ActiveInv, NEW f \in Favorites PROVE Cardinality(ActiveOn(f)) <= 1
    BY DEF OneActivePerFavorite
  <2>1. CASE ActiveOn(f) = {} BY <2>1, FS_EmptySet
  <2>2. CASE \E a : ActiveOn(f) = {a} BY <2>2, FS_Singleton
  <2>3. \A a, b \in ActiveOn(f) : a = b BY DEF ActiveInv, ActiveOn
  <2> QED BY <2>1, <2>2, <2>3
<1> QED BY <1>1, SpecInv, PTL DEF IInv

\* The user of an alert is told at most once, however many ticks fire, rows are
\* edited and calls reject (price-alerts.worker.ts, handleTriggeredAlert).
THEOREM SpecOneMessagePerAlert == Spec => []OneMessagePerAlert
<1>1. ToldInv => OneMessagePerAlert BY DEF ToldInv, OneMessagePerAlert
<1> QED BY <1>1, SpecInv, PTL DEF IInv

\* A crossing is judged on the observation its row holds, or the row has been
\* set anew or deleted: the running flag keeps every other tick from observing
\* it in between, for any number of overlapping ticks and any batch size
\* (price-alerts.worker.ts, runTick).
THEOREM SpecDecisionIsCurrent == Spec => []DecisionIsCurrent
<1>1. TypeOK /\ BatchInv => DecisionIsCurrent
  <2> SUFFICES ASSUME TypeOK, BatchInv, NEW t \in Ticks, ticks[t].pc \in {"check", "observe"},
                      ticks[t].batch # <<>>, Current(t).id \in DOMAIN alerts,
                      alerts[Current(t).id].setBy = Current(t).setBy
               PROVE  alerts[Current(t).id].last = Current(t).last
    BY DEF DecisionIsCurrent
  <2>1. 1 \in DOMAIN ticks[t].batch /\ Current(t) = ticks[t].batch[1]
    BY CurrentFacts
  <2> QED BY <2>1 DEF BatchInv
<1> QED BY <1>1, SpecInv, PTL DEF IInv

\* A user never has more alerts confirmed than questions put: neither texts that
\* arrive together nor the question repeated after an error answer one twice
\* (telegram.portfolio-alerts.service.ts).
THEOREM SpecOneAnswerPerPrompt == Spec => []OneAnswerPerPrompt
<1>1. TypeOK /\ QuestionInv => OneAnswerPerPrompt
  <2> SUFFICES ASSUME TypeOK, QuestionInv, NEW u \in Users
               PROVE  Cardinality({r \in Requests : requests[r].pc = "set" /\ requests[r].user = u})
                        <= prompted[u]
    BY DEF OneAnswerPerPrompt
  <2> DEFINE told == {r \in Requests : requests[r].pc = "set" /\ requests[r].user = u}
  <2>1. told \subseteq Answers(u) BY DEF Answers
  <2> HIDE DEF told
  <2>2. IsFiniteSet(Answers(u)) /\ Cardinality(Answers(u)) \in Nat
    BY FS_CardinalityType DEF QuestionInv
  <2>3. Cardinality(told) \in Nat /\ Cardinality(told) <= Cardinality(Answers(u))
    BY <2>1, <2>2, FS_Subset, FS_CardinalityType
  <2>4. Cardinality(Answers(u)) <= prompted[u] /\ prompted[u] \in Nat
    BY <2>2, PromptAssumption DEF QuestionInv, TypeOK
  <2>5. Cardinality(told) <= prompted[u] BY <2>3, <2>2, <2>4
  <2> QED BY <2>5 DEF told
<1> QED BY <1>1, SpecInv, PTL DEF IInv
=============================================================================
