-------------------------- MODULE PhantomSwapProofs --------------------------
(***************************************************************************)
(* Machine-checked proofs about PhantomSwap, for any executions and        *)
(* callbacks and any number of faults.  Moves says what a step may do to   *)
(* any one callback, Records what it may do to the sessions and the rows;  *)
(* each part of the inductive invariant follows from the two.              *)
(***************************************************************************)
EXTENDS PhantomSwap, TLAPS

USE DEF Goto, SetStatus, SetIntent, NoFault, Signing

-----------------------------------------------------------------------------
(* The records a callback goes through.                                    *)

\* What a callback is busy with tells which fields it has.
LEMMA RecordOfPc ==
    ASSUME NEW q \in CallRecords
    PROVE  /\ q.pc = "build" => q \in BuildRecords
           /\ q.pc \in {"connectError1", "connectError2"} => q \in ConnectRecords
           /\ Signing(q) => q \in SignRecords
BY DEF CallRecords, BuildRecords, LinkedRecords, ConnectRecords, SignRecords

\* It goes on with the same fields.
LEMMA SignGoesOn ==
    ASSUME NEW q \in SignRecords,
           NEW pc \in {"broadcast", "confirm", "tell", "success1", "success2", "track1", "track2",
                       "error1", "error2", "return", "throw", "sentPage", "notSentPage"}
    PROVE  /\ [q EXCEPT !.pc = pc] \in CallRecords
           /\ [q EXCEPT !.pc = pc].pc = pc
           /\ [q EXCEPT !.pc = pc].exec = q.exec
           /\ [q EXCEPT !.pc = pc].link = q.link
           /\ [q EXCEPT !.pc = pc].late = q.late
BY DEF CallRecords, SignRecords

LEMMA ConnectGoesOn ==
    ASSUME NEW q \in ConnectRecords, NEW pc \in {"connectError2", "refused"}
    PROVE  /\ [q EXCEPT !.pc = pc] \in CallRecords
           /\ [q EXCEPT !.pc = pc].pc = pc
BY DEF CallRecords, ConnectRecords

-----------------------------------------------------------------------------
(* What a step may do.                                                     *)

Sent == {"confirm", "tell", "success1", "success2", "track1", "track2", "return", "sentPage"}
Told == {"success1", "success2", "track1", "track2", "return", "sentPage"}
Tracked == {"track2", "return", "sentPage"}
Ended == {"sentPage", "notSentPage"}

\* A sign callback begins with a link of its execution and, when it gets to
\* broadcast, with a session in the store, and goes on with that link; where
\* it gets to, its transaction has been sent, told and tracked.
Moves(d) ==
    /\ calls[d].pc \in Ended \cup {"linked"} => calls'[d] = calls[d]
    /\ calls'[d].pc = "build" =>
          \/ calls'[d] = calls[d]
          \/ calls[d].pc = "idle" /\ openedBy[calls'[d].exec] = "link"
    /\ Signing(calls'[d]) =>
          /\ \/ /\ calls[d].pc = "idle" /\ calls'[d].link \in links[calls'[d].exec]
                /\ calls'[d].pc = "broadcast" =>
                      /\ calls'[d].exec \in live
                      /\ calls'[d].late =>
                            \E c \in Calls : /\ calls[c].pc \in Ended
                                             /\ calls[c].exec = calls'[d].exec
                                             /\ calls[c].link = calls'[d].link
             \/ /\ Signing(calls[d])
                /\ calls'[d].exec = calls[d].exec /\ calls'[d].link = calls[d].link
                /\ calls'[d].pc = "broadcast" => calls'[d] = calls[d]
          /\ calls'[d].pc \in Sent => calls'[d].link.tx \in sent'
          /\ calls'[d].pc \in Told => calls'[d].link.tx \in told'
          /\ calls'[d].pc \in Tracked => calls'[d].link.tx \in tracked'

\* A link is added only to a session; a hash is that of a callback past its message.
Records ==
    /\ sent \subseteq sent' /\ told \subseteq told' /\ tracked \subseteq tracked'
    /\ tracked' \subseteq tracked \cup told
    /\ \A e \in Executions :
          /\ links[e] \subseteq links'[e]
          /\ status'[e] = "none" =>
                status[e] = "none" /\ links'[e] = links[e] /\ openedBy'[e] = openedBy[e]
          /\ openedBy[e] = "link" => openedBy'[e] = "link"
          /\ txHash'[e] # txHash[e] =>
                \E c \in Calls : /\ calls[c].pc = "success1" /\ calls[c].exec = e
                                 /\ txHash'[e] = calls[c].link.tx

\* A session in the store was there, is a first one, or has been saved again; the
\* end of a sign callback drops it.
Serves ==
    /\ \A e \in live' : e \in live \/ status[e] = "none" \/ SavedAgain(e)'
    /\ \A d \in Calls :
          calls'[d].pc \in Ended /\ calls[d].pc \notin Ended => calls'[d].exec \notin live'

StepFacts ==
    /\ TypeOK'
    /\ \A d \in Calls : Moves(d)
    /\ Records /\ Serves

\* A step that leaves the callbacks alone.
LEMMA SessionFacts ==
    ASSUME IInv,
           \/ \E e \in Executions : \/ CreateSwapSession(e) \/ CreateSwapSessionFromConnection(e)
                                    \/ ExpireSession(e)
           \/ CreateConnectionSession \/ ExpireGreeting \/ Disconnect
    PROVE  StepFacts
<1> USE DEF IInv
<1>1. calls' = calls /\ UNCHANGED <<outside, faults, txHash, txStatus>>
  BY DEF CreateSwapSession, CreateSwapSessionFromConnection, ExpireSession,
         CreateConnectionSession, ExpireGreeting, Disconnect, rows
<1>2. \A d \in Calls : Moves(d)
  BY <1>1 DEF Moves, CallInv, LinkInv, outside, Sent, Told, Tracked, Ended
<1>3. ASSUME NEW e \in Executions, CreateSwapSession(e)
      PROVE  TypeOK' /\ Records /\ Serves
  <2>1. TypeOK' BY <1>1, <1>3 DEF CreateSwapSession, TypeOK, outside
  <2>2. Records BY <1>1, <1>3 DEF CreateSwapSession, TypeOK, outside, Records, LinkInv
  <2>3. Serves BY <1>1, <1>3 DEF CreateSwapSession, TypeOK, Serves
  <2> QED BY <2>1, <2>2, <2>3
<1>4. ASSUME NEW e \in Executions, CreateSwapSessionFromConnection(e)
      PROVE  TypeOK' /\ Records /\ Serves
  <2> DEFINE link == [key |-> connection, tx |-> e]
  <2>1. link \in Links
    BY <1>4 DEF CreateSwapSessionFromConnection, TypeOK, Links, Transactions
  <2>2. links' = [links EXCEPT ![e] = {link}] \/ links' = links
    BY <1>4 DEF CreateSwapSessionFromConnection
  <2> HIDE DEF link
  <2>3. links[e] = {} BY <1>4 DEF CreateSwapSessionFromConnection, LinkInv
  <2>4. TypeOK' BY <1>1, <1>4, <2>1, <2>2 DEF CreateSwapSessionFromConnection, TypeOK, outside
  <2>5. Records
    BY <1>1, <1>4, <2>1, <2>2, <2>3
    DEF CreateSwapSessionFromConnection, TypeOK, outside, Records, LinkInv
  <2>6. Serves BY <1>1, <1>4 DEF CreateSwapSessionFromConnection, TypeOK, Serves
  <2> QED BY <2>4, <2>5, <2>6
<1>5. ASSUME \/ \E e \in Executions : ExpireSession(e)
             \/ CreateConnectionSession \/ ExpireGreeting \/ Disconnect
      PROVE  TypeOK' /\ Records /\ Serves
  <2> USE DEF ExpireSession, CreateConnectionSession, ExpireGreeting, Disconnect
  <2>1. TypeOK' BY <1>1, <1>5 DEF TypeOK, outside, rows
  <2>2. Records BY <1>1, <1>5 DEF outside, rows, Records
  <2>3. Serves BY <1>1, <1>5 DEF Serves
  <2> QED BY <2>1, <2>2, <2>3
<1> QED BY <1>2, <1>3, <1>4, <1>5 DEF StepFacts

\* The connect callbacks, with and without a swap.
LEMMA ConnectFacts ==
    ASSUME IInv, NEW c \in Calls,
           \/ \E e \in Executions, k \in Keys : HandleConnect(c, e, k)
           \/ BuildSignLink(c) \/ BuildFails(c)
           \/ \E k \in Keys : SaveReusableConnection(c, k)
           \/ SendConnectedMessage(c)
    PROVE  StepFacts
<1> USE NamesAssumption DEF IInv
<1>1. UNCHANGED <<outside, faults, rows>>
  BY DEF HandleConnect, BuildSignLink, BuildFails, SaveReusableConnection, SendConnectedMessage
<1>2. ASSUME NEW q \in CallRecords, calls' = [calls EXCEPT ![c] = q],
             calls[c].pc \in {"idle", "build", "greet"},
             q.pc \in {"refused", "connectError1", "build", "linked", "greet", "greeted"},
             q.pc = "build" => calls[c].pc = "idle" /\ openedBy[q.exec] = "link"
      PROVE  \A d \in Calls : Moves(d)
  BY <1>1, <1>2 DEF TypeOK, Moves, CallInv, LinkInv, outside, Sent, Told, Tracked, Ended
<1>3. ASSUME NEW e \in Executions, NEW k \in Keys, HandleConnect(c, e, k)
      PROVE  StepFacts
  <2> DEFINE secret == <<e, k>>
  <2>1. secret \in Secrets BY DEF Secrets
  <2>2. PICK q \in CallRecords :
           /\ calls' = [calls EXCEPT ![c] = q]
           /\ \/ q.pc \in {"refused", "connectError1"} /\ UNCHANGED <<key, connection>>
              \/ /\ q.pc = "build" /\ q.exec = e
                 /\ key' = [key EXCEPT ![e] = secret] /\ connection' = secret
    <3> HIDE DEF secret
    <3>1. /\ [pc |-> "refused"] \in CallRecords
          /\ [pc |-> "connectError1", exec |-> e] \in CallRecords
          /\ [pc |-> "build", exec |-> e, key |-> secret] \in CallRecords
      BY <2>1 DEF CallRecords, ConnectRecords, BuildRecords
    <3>2. CASE calls' = [calls EXCEPT ![c] = [pc |-> "refused"]] /\ UNCHANGED <<key, connection>>
      BY <3>1, <3>2
    <3>3. CASE /\ calls' = [calls EXCEPT ![c] = [pc |-> "connectError1", exec |-> e]]
               /\ UNCHANGED <<key, connection>>
      BY <3>1, <3>3
    <3>4. CASE /\ calls' = [calls EXCEPT ![c] = [pc |-> "build", exec |-> e, key |-> secret]]
               /\ key' = [key EXCEPT ![e] = secret] /\ connection' = secret
      BY <3>1, <3>4
    <3> QED BY <1>3, <3>2, <3>3, <3>4 DEF HandleConnect, secret
  <2> HIDE DEF secret
  <2>3. \A d \in Calls : Moves(d) BY <1>2, <1>3, <2>2 DEF HandleConnect
  <2>4. TypeOK' BY <1>1, <1>3, <2>1, <2>2 DEF HandleConnect, TypeOK, outside, rows
  <2>5. Records BY <1>1, <1>3, <2>2 DEF HandleConnect, TypeOK, outside, rows, Records
  <2>6. Serves BY <1>3, <2>2 DEF HandleConnect, TypeOK, Serves, Ended
  <2> QED BY <2>3, <2>4, <2>5, <2>6 DEF StepFacts
<1>4. CASE BuildSignLink(c)
  <2>1. calls[c] \in BuildRecords /\ calls[c].pc = "build"
    BY <1>4, RecordOfPc DEF BuildSignLink, TypeOK
  <2>2. PICK e \in Executions, secret \in Secrets : e = calls[c].exec /\ secret = calls[c].key
    BY <2>1 DEF BuildRecords
  <2> DEFINE q == [pc |-> "linked", exec |-> e, again |-> e \notin live]
             link == [key |-> secret, tx |-> c]
  <2>3. /\ q \in CallRecords /\ q.pc = "linked" /\ q.exec = e
        /\ e \notin live => q.again
    BY DEF CallRecords, LinkedRecords
  <2>4. link \in Links BY DEF Links, Transactions
  <2>5. /\ live' = live \cup {e} /\ key' = [key EXCEPT ![e] = secret]
        /\ links' = [links EXCEPT ![e] = links[e] \cup {link}]
        /\ calls' = [calls EXCEPT ![c] = q]
        /\ UNCHANGED <<connection, greeting, openedBy>>
    BY <1>4, <2>2 DEF BuildSignLink
  <2> HIDE DEF link, q
  <2>6. \A d \in Calls : Moves(d) BY <1>2, <2>1, <2>3, <2>5
  <2>7. TypeOK' BY <1>1, <2>3, <2>4, <2>5 DEF TypeOK, outside, rows
  <2>8. Records BY <1>1, <2>1, <2>2, <2>5 DEF TypeOK, outside, rows, Records, LinkInv
  <2>9. Serves
    <3>1. calls'[c] = q BY <2>5 DEF TypeOK
    <3>2. e \notin live => SavedAgain(e)' BY <2>3, <3>1 DEF SavedAgain
    <3>3. \A d \in Calls : calls'[d].pc \in Ended => calls'[d] = calls[d]
      BY <2>3, <2>5 DEF TypeOK, Ended
    <3> QED BY <2>5, <3>2, <3>3 DEF Serves
  <2> QED BY <2>6, <2>7, <2>8, <2>9 DEF StepFacts
<1>5. ASSUME \/ BuildFails(c) \/ SendConnectedMessage(c)
             \/ \E k \in Keys : SaveReusableConnection(c, k)
      PROVE  StepFacts
  <2>1. PICK q \in CallRecords :
           /\ calls' = [calls EXCEPT ![c] = q]
           /\ q.pc \in {"refused", "connectError1", "greet", "greeted"}
    <3>1. CASE BuildFails(c)
      <4>1. calls[c] \in BuildRecords
        BY <3>1, RecordOfPc DEF BuildFails, TypeOK
      <4>2. [pc |-> "connectError1", exec |-> calls[c].exec] \in CallRecords
        BY <4>1 DEF CallRecords, BuildRecords, ConnectRecords
      <4> QED BY <3>1, <4>2 DEF BuildFails
    <3>2. CASE \E k \in Keys : SaveReusableConnection(c, k)
      <4>1. [pc |-> "refused"] \in CallRecords /\ [pc |-> "greet"] \in CallRecords
        BY DEF CallRecords
      <4>2. \/ calls' = [calls EXCEPT ![c] = [pc |-> "refused"]]
            \/ calls' = [calls EXCEPT ![c] = [pc |-> "greet"]]
        BY <3>2 DEF SaveReusableConnection
      <4> QED BY <4>1, <4>2
    <3>3. CASE SendConnectedMessage(c)
      <4>1. calls[c].pc = "greet" /\ calls[c] \in CallRecords
        BY <3>3 DEF SendConnectedMessage, TypeOK
      <4>2. [calls[c] EXCEPT !.pc = "greeted"] \in CallRecords
            /\ [calls[c] EXCEPT !.pc = "greeted"].pc = "greeted"
        BY <4>1 DEF CallRecords, BuildRecords, LinkedRecords, ConnectRecords, SignRecords
      <4> QED BY <3>3, <4>2 DEF SendConnectedMessage
    <3> QED BY <1>5, <3>1, <3>2, <3>3
  <2>2. /\ calls[c].pc \in {"idle", "build", "greet"}
        /\ UNCHANGED <<live, key, openedBy, links>> /\ connection' \in Secrets \cup {None}
        /\ greeting' \in {greeting, "gone"}
    BY <1>5 DEF BuildFails, SaveReusableConnection, SendConnectedMessage, sessions, Secrets, TypeOK
  <2>3. \A d \in Calls : Moves(d) BY <1>2, <2>1, <2>2
  <2>4. TypeOK' BY <1>1, <2>1, <2>2 DEF TypeOK, outside, rows
  <2>5. Records BY <1>1, <2>1, <2>2 DEF TypeOK, outside, rows, Records
  <2>6. Serves BY <2>1, <2>2 DEF TypeOK, Serves, Ended
  <2> QED BY <2>3, <2>4, <2>5, <2>6 DEF StepFacts
<1> QED BY <1>3, <1>4, <1>5

\* A sign callback begins.
LEMMA HandleSignFacts ==
    ASSUME IInv, NEW c \in Calls, NEW e \in Executions, NEW link \in links[e], HandleSign(c, e, link)
    PROVE  StepFacts
<1> USE DEF IInv
<1> DEFINE finished == \E d \in Calls :
               calls[d].pc \in {"sentPage", "notSentPage"} /\ calls[d].exec = e /\ calls[d].link = link
<1>1. link \in Links BY DEF TypeOK
<1>2. PICK q \in CallRecords :
         /\ calls' = [calls EXCEPT ![c] = q]
         /\ \/ q.pc = "refused"
            \/ /\ q.pc \in {"error1", "broadcast"} /\ q.exec = e /\ q.link = link
               /\ q.late = finished
               /\ e \in live /\ (q.pc = "broadcast" => key[e] = link.key)
  <2>1. finished \in BOOLEAN
    OBVIOUS
  <2> HIDE DEF finished
  <2>2. ASSUME NEW pc \in {"error1", "broadcast"}
        PROVE  [pc |-> pc, exec |-> e, link |-> link, late |-> finished] \in CallRecords
    BY <1>1, <2>1 DEF CallRecords, SignRecords
  <2>3. [pc |-> "refused"] \in CallRecords BY DEF CallRecords
  <2>4. CASE calls' = [calls EXCEPT ![c] = [pc |-> "refused"]]
    BY <2>3, <2>4
  <2>5. ASSUME NEW pc \in {"error1", "broadcast"}, e \in live, pc = "broadcast" => key[e] = link.key,
               calls' = [calls EXCEPT ![c] = [pc |-> pc, exec |-> e, link |-> link, late |-> finished]]
        PROVE  \E q \in CallRecords :
                 /\ calls' = [calls EXCEPT ![c] = q]
                 /\ q.pc \in {"error1", "broadcast"} /\ q.exec = e /\ q.link = link
                 /\ q.late = finished
                 /\ e \in live /\ (q.pc = "broadcast" => key[e] = link.key)
    BY <2>2, <2>5
  <2> QED BY <2>4, <2>5 DEF HandleSign, finished
<1>3. calls[c].pc = "idle" /\ UNCHANGED <<rows, sessions, outside, faults>>
  BY DEF HandleSign
<1>4. \A d \in Calls : Moves(d)
  <2>1. q.pc = "broadcast" /\ q.late =>
           \E d \in Calls : calls[d].pc \in Ended /\ calls[d].exec = e /\ calls[d].link = link
    BY <1>2 DEF Ended
  <2> HIDE DEF finished
  <2>2. ASSUME NEW d \in Calls, d # c PROVE Moves(d)
    BY <1>2, <1>3, <2>2 DEF TypeOK, Moves, CallInv, LinkInv, sessions, outside, Sent, Told, Tracked, Ended
  <2>3. calls'[c] = q BY <1>2 DEF TypeOK
  <2>4. Moves(c)
    BY <1>2, <1>3, <2>1, <2>3 DEF Moves, sessions, Sent, Told, Tracked, Ended
  <2> QED BY <2>2, <2>4
<1>5. TypeOK' BY <1>2, <1>3 DEF TypeOK, rows, sessions, outside
<1>6. Records BY <1>3 DEF rows, sessions, outside, Records
<1>7. Serves BY <1>2, <1>3 DEF TypeOK, sessions, Serves, Ended
<1> QED BY <1>4, <1>5, <1>6, <1>7 DEF StepFacts

\* A sign callback goes on: where it gets to, its transaction is what Moves asks.
GoesTo(c, pc) ==
    /\ Signing(calls[c])
    /\ pc \in {"confirm", "tell", "success1", "success2", "track1", "track2", "error1", "error2",
               "return", "throw", "sentPage", "notSentPage"}
    /\ calls' = [calls EXCEPT ![c].pc = pc]
    /\ pc \in Sent => calls[c].link.tx \in sent'
    /\ pc \in Told => calls[c].link.tx \in told'
    /\ pc \in Tracked => calls[c].link.tx \in tracked'

LEMMA GoesToMoves ==
    ASSUME IInv, NEW c \in Calls, NEW pc, GoesTo(c, pc), calls[c].pc \notin Ended,
           sent \subseteq sent', told \subseteq told', tracked \subseteq tracked'
    PROVE  /\ \A d \in Calls : Moves(d)
           /\ calls' \in [Calls -> CallRecords]
           /\ calls[c].exec \in Executions /\ calls[c].link \in Links
           /\ calls[c].link \in links[calls[c].exec]
           /\ calls'[c].pc = pc /\ calls'[c].exec = calls[c].exec
           /\ \A d \in Calls \ {c} : calls'[d] = calls[d]
<1> DEFINE q == [calls[c] EXCEPT !.pc = pc]
<1>1. calls[c] \in SignRecords BY RecordOfPc DEF IInv, TypeOK, GoesTo
<1>2. q \in CallRecords /\ q.pc = pc /\ q.exec = calls[c].exec /\ q.link = calls[c].link
  BY <1>1 DEF GoesTo, CallRecords, SignRecords
<1>3. calls' = [calls EXCEPT ![c] = q] BY DEF GoesTo
<1> HIDE DEF q
<1>4. calls'[c] = q /\ \A d \in Calls \ {c} : calls'[d] = calls[d]
  BY <1>3 DEF IInv, TypeOK
<1>5. ASSUME NEW d \in Calls, d # c PROVE Moves(d)
  BY <1>4, <1>5 DEF IInv, Moves, CallInv, LinkInv, Sent, Told, Tracked, Ended
<1>6. Moves(c)
  BY <1>2, <1>4 DEF GoesTo, Moves
<1>7. calls[c].link \in links[calls[c].exec]
  BY DEF GoesTo, IInv, CallInv
<1> QED BY <1>1, <1>2, <1>3, <1>4, <1>5, <1>6, <1>7 DEF IInv, TypeOK, SignRecords

\* Broadcast, confirmation and message.
LEMMA SendFacts ==
    ASSUME IInv, NEW c \in Calls, Broadcast(c) \/ Confirm(c) \/ SendSwapSuccessMessage(c)
    PROVE  StepFacts
<1> USE DEF IInv, Sent, Told, Tracked
<1>1. PICK pc \in {"confirm", "tell", "success1", "error1"} : GoesTo(c, pc)
  <2>1. GoesTo(c, "confirm") \/ GoesTo(c, "tell") \/ GoesTo(c, "success1") \/ GoesTo(c, "error1")
    BY DEF Broadcast, Confirm, SendSwapSuccessMessage, SendTelegramMessage, GoesTo, CallInv, outside
  <2> QED BY <2>1
<1>2. /\ UNCHANGED <<rows, sessions, tracked, faults>>
      /\ sent' \in {sent, sent \cup {calls[c].link.tx}}
      /\ told' \in {told, told \cup {calls[c].link.tx}}
      /\ calls[c].pc \notin Ended
      /\ pc \notin Ended
  BY <1>1 DEF Broadcast, Confirm, SendSwapSuccessMessage, SendTelegramMessage, GoesTo, outside, Ended
<1>3. calls[c].link.tx \in Transactions
  BY <1>1, <1>2, GoesToMoves DEF Links
<1>4. TypeOK'
  BY <1>1, <1>2, <1>3, GoesToMoves DEF TypeOK, rows, sessions
<1>5. Records BY <1>2 DEF rows, sessions, Records
<1>6. Serves BY <1>1, <1>2, GoesToMoves DEF sessions, Serves
<1> QED BY <1>1, <1>2, <1>4, <1>5, <1>6, GoesToMoves DEF StepFacts

\* The rows of a transaction that was sent.
LEMMA RowFacts ==
    ASSUME IInv, NEW c \in Calls,
           \/ MarkSuccessExecution(c) \/ MarkSuccessIntent(c)
           \/ TrackInsert(c) \/ TrackExecution(c)
    PROVE  StepFacts
<1> USE DEF IInv, Sent, Told, Tracked
<1>1. PICK pc \in {"success2", "track1", "track2", "return", "error1"} : GoesTo(c, pc)
  <2>1. \/ GoesTo(c, "success2") \/ GoesTo(c, "track1") \/ GoesTo(c, "track2")
        \/ GoesTo(c, "return") \/ GoesTo(c, "error1")
    BY DEF MarkSuccessExecution, MarkSuccessIntent, TrackInsert, TrackExecution, GoesTo, CallInv,
           outside
  <2> QED BY <2>1
<1>2. /\ UNCHANGED <<sessions, sent, told, faults>>
      /\ tracked' \in {tracked, tracked \cup {calls[c].link.tx}}
      /\ calls[c].pc \notin Ended
      /\ pc \notin Ended
      /\ calls[c].link.tx \in told
  BY <1>1
  DEF MarkSuccessExecution, MarkSuccessIntent, TrackInsert, TrackExecution, GoesTo, outside, Ended,
      CallInv
<1>3. calls[c].link.tx \in Transactions
  BY <1>1, <1>2, GoesToMoves DEF Links
<1>4. /\ calls' \in [Calls -> CallRecords] /\ calls[c].exec \in Executions
      /\ \A d \in Calls : Moves(d)
  BY <1>1, <1>2, GoesToMoves
<1>5. TypeOK'
  <2> USE DEF TypeOK, sessions, rows, outside
  <2>1. CASE MarkSuccessExecution(c) BY <1>2, <1>3, <1>4, <2>1 DEF MarkSuccessExecution
  <2>2. CASE MarkSuccessIntent(c) BY <1>2, <1>4, <2>2 DEF MarkSuccessIntent
  <2>3. CASE TrackInsert(c) BY <1>2, <1>3, <1>4, <2>3 DEF TrackInsert
  <2>4. CASE TrackExecution(c) BY <1>2, <1>4, <2>4 DEF TrackExecution
  <2> QED BY <2>1, <2>2, <2>3, <2>4
<1>6. Records
  <2>1. CASE MarkSuccessExecution(c)
    BY <1>2, <1>4, <2>1 DEF MarkSuccessExecution, TypeOK, sessions, Records
  <2>2. CASE ~MarkSuccessExecution(c)
    BY <1>2, <2>2
    DEF MarkSuccessIntent, TrackInsert, TrackExecution, rows, sessions, Records
  <2> QED BY <2>1, <2>2
<1>7. Serves BY <1>1, <1>2, GoesToMoves DEF sessions, Serves
<1> QED BY <1>4, <1>5, <1>6, <1>7 DEF StepFacts

\* A call that fails, with its two rows.
LEMMA ErrorFacts ==
    ASSUME IInv, NEW c \in Calls, MarkErrorExecution(c) \/ MarkErrorIntent(c) \/ CallFails(c)
    PROVE  StepFacts
<1> USE DEF IInv, Sent, Told, Tracked
<1>1. /\ UNCHANGED <<sessions, outside, txHash, txStatus>>
      /\ calls[c].pc \notin Ended
      /\ \A e \in Executions : status'[e] = "none" => status[e] = "none"
  BY DEF MarkErrorExecution, MarkErrorIntent, CallFails, rows, Ended, TypeOK
<1>2. Records BY <1>1 DEF sessions, outside, Records
<1>3. ASSUME calls' \in [Calls -> CallRecords], MarkErrorExecution(c) \/ MarkErrorIntent(c) => calls[c].exec \in Executions
      PROVE  TypeOK'
  <2> USE DEF TypeOK, sessions, outside, rows
  <2>1. CASE MarkErrorExecution(c) BY <1>1, <1>3, <2>1 DEF MarkErrorExecution
  <2>2. CASE MarkErrorIntent(c) BY <1>1, <1>3, <2>2 DEF MarkErrorIntent
  <2>3. CASE CallFails(c) BY <1>1, <1>3, <2>3, FaultsAssumption DEF CallFails, Fault
  <2> QED BY <2>1, <2>2, <2>3
<1>4. CASE Signing(calls[c])
  <2>1. PICK pc \in {"error1", "error2", "throw"} : GoesTo(c, pc)
    BY <1>4 DEF MarkErrorExecution, MarkErrorIntent, CallFails, GoesTo
  <2>2. TypeOK' BY <1>1, <1>3, <2>1, GoesToMoves DEF outside
  <2>3. Serves BY <1>1, <2>1, GoesToMoves DEF sessions, outside, Serves, Ended
  <2> QED BY <1>1, <1>2, <2>1, <2>2, <2>3, GoesToMoves DEF outside, StepFacts
<1>5. CASE ~Signing(calls[c])
  <2>1. PICK q \in CallRecords :
           calls' = [calls EXCEPT ![c] = q] /\ q.pc \in {"connectError2", "refused"}
    <3>1. CASE calls[c].pc = "greet"
      <4>1. [calls[c] EXCEPT !.pc = "refused"] \in CallRecords
            /\ [calls[c] EXCEPT !.pc = "refused"].pc = "refused"
        BY <3>1 DEF TypeOK, CallRecords, BuildRecords, LinkedRecords, ConnectRecords, SignRecords
      <4> QED BY <3>1, <4>1 DEF MarkErrorExecution, MarkErrorIntent, CallFails
    <3>2. CASE calls[c].pc \in {"connectError1", "connectError2"}
      <4>1. calls[c] \in ConnectRecords BY <3>2, RecordOfPc DEF TypeOK
      <4> QED BY <3>2, <4>1, ConnectGoesOn DEF MarkErrorExecution, MarkErrorIntent, CallFails
    <3> QED BY <1>5, <3>1, <3>2 DEF MarkErrorExecution, MarkErrorIntent, CallFails
  <2>2. calls[c].pc \in {"greet", "connectError1", "connectError2"}
    BY <1>5 DEF MarkErrorExecution, MarkErrorIntent, CallFails
  <2>3. MarkErrorExecution(c) \/ MarkErrorIntent(c) => calls[c].exec \in Executions
    BY <1>5, <2>2, RecordOfPc DEF MarkErrorExecution, MarkErrorIntent, TypeOK, ConnectRecords
  <2>4. TypeOK' BY <1>3, <2>1, <2>3 DEF TypeOK
  <2>5. \A d \in Calls : Moves(d)
    BY <1>1, <2>1, <2>2 DEF TypeOK, Moves, CallInv, LinkInv, outside, Ended
  <2>6. Serves BY <1>1, <2>1 DEF TypeOK, sessions, Serves, Ended
  <2> QED BY <1>2, <2>4, <2>5, <2>6 DEF StepFacts
<1> QED BY <1>4, <1>5

\* The end of a sign callback, and that of the process.
LEMMA FinishFacts ==
    ASSUME IInv, NEW c \in Calls, Finish(c)
    PROVE  StepFacts
<1> USE DEF IInv, Sent, Told, Tracked
<1>1. PICK pc \in Ended : GoesTo(c, pc)
  BY DEF Finish, GoesTo, CallInv, outside, Ended
<1>2. /\ UNCHANGED <<rows, key, connection, greeting, openedBy, links, outside, faults>>
      /\ live' = live \ {calls[c].exec} /\ calls[c].pc \notin Ended
  BY DEF Finish, Ended
<1>3. TypeOK' BY <1>1, <1>2, GoesToMoves DEF TypeOK, rows, outside
<1>4. Records BY <1>2 DEF rows, outside, Records
<1>5. Serves BY <1>1, <1>2, GoesToMoves DEF outside, Serves
<1> QED BY <1>1, <1>2, <1>3, <1>4, <1>5, GoesToMoves DEF outside, StepFacts

LEMMA CrashFacts ==
    ASSUME IInv, Crash
    PROVE  StepFacts
<1> USE FaultsAssumption DEF IInv, Crash
<1>1. ASSUME NEW d \in Calls
      PROVE  \/ calls'[d] = calls[d]
             \/ calls'[d] = [pc |-> "lost"] /\ calls[d].pc \notin CallEnded
  BY DEF CallEnded
<1>2. [pc |-> "lost"] \in CallRecords BY DEF CallRecords
<1>3. calls' \in [Calls -> CallRecords] BY <1>1, <1>2 DEF TypeOK
<1>4. TypeOK' BY <1>3 DEF TypeOK, Fault, rows, outside
<1>5. \A d \in Calls : Moves(d)
  BY <1>1 DEF Moves, CallInv, LinkInv, outside, CallEnded, Sent, Told, Tracked, Ended
<1>6. Records BY DEF rows, outside, Records
<1>7. Serves BY <1>1 DEF Serves, Ended
<1> QED BY <1>4, <1>5, <1>6, <1>7 DEF StepFacts

LEMMA NextFacts ==
    ASSUME IInv, Next
    PROVE  StepFacts
BY SessionFacts, ConnectFacts, HandleSignFacts, SendFacts, RowFacts, ErrorFacts, FinishFacts,
   CrashFacts
DEF Next, CallStep

-----------------------------------------------------------------------------
(* The inductive invariant.                                                 *)

\* A callback keeps its link and what became of its transaction.
LEMMA CallStepInv ==
    ASSUME IInv, StepFacts
    PROVE  CallInv'
<1> SUFFICES ASSUME NEW c \in Calls, Signing(calls'[c])
             PROVE  calls'[c].link \in links'[calls'[c].exec]
  BY DEF StepFacts, Moves, CallInv, Sent, Told, Tracked
<1>1. calls'[c].exec \in Executions
  BY RecordOfPc DEF StepFacts, TypeOK, SignRecords
<1>2. calls'[c].link \in links[calls'[c].exec]
  BY DEF IInv, StepFacts, Moves, CallInv
<1> QED BY <1>1, <1>2 DEF StepFacts, Records

\* An execution without a session has no link.
LEMMA LinkStep ==
    ASSUME IInv, StepFacts
    PROVE  LinkInv'
<1>1. \A e \in Executions : status'[e] = "none" => links'[e] = {} /\ openedBy'[e] = "none"
  BY DEF IInv, LinkInv, StepFacts, Records
<1>2. ASSUME NEW c \in Calls, calls'[c].pc = "build"
      PROVE  openedBy'[calls'[c].exec] = "link"
  <2> DEFINE e == calls'[c].exec
  <2>1. e \in Executions
    BY <1>2, RecordOfPc DEF StepFacts, TypeOK, BuildRecords
  <2>2. openedBy[e] = "link"
    BY <1>2 DEF IInv, LinkInv, StepFacts, Moves
  <2> QED BY <2>1, <2>2 DEF StepFacts, Records
<1> QED BY <1>1, <1>2 DEF LinkInv

\* That a session was saved again stays on record.
LEMMA SavedAgainStays ==
    ASSUME StepFacts, NEW e, SavedAgain(e)
    PROVE  SavedAgain(e)'
BY DEF StepFacts, Moves, SavedAgain

\* A session whose sign callback has ended is in the store only when it was saved
\* again.
LEMMA SpentStep ==
    ASSUME IInv, StepFacts
    PROVE  SpentInv'
<1> SUFFICES ASSUME NEW d \in Calls, calls'[d].pc \in Ended, calls'[d].exec \in live'
             PROVE  SavedAgain(calls[d].exec)'
  BY DEF SpentInv, Ended
<1>1. calls'[d] = calls[d]
  BY DEF StepFacts, Serves, Moves
<1>2. calls[d] \in SignRecords
  BY <1>1, RecordOfPc DEF IInv, TypeOK, Ended
<1>3. PICK e \in Executions : e = calls[d].exec /\ calls[d].link \in links[e]
  BY <1>1, <1>2 DEF IInv, CallInv, SignRecords, Ended
<1>4. CASE e \in live
  <2>1. SavedAgain(e) BY <1>1, <1>3, <1>4 DEF IInv, SpentInv, Ended
  <2> QED BY <1>1, <1>3, <2>1, SavedAgainStays DEF SavedAgain
<1>5. CASE status[e] = "none"
  BY <1>3, <1>5 DEF IInv, LinkInv
<1>6. CASE SavedAgain(e)'
  BY <1>1, <1>3, <1>6 DEF SavedAgain
<1> QED BY <1>1, <1>3, <1>4, <1>5, <1>6 DEF StepFacts, Serves

\* A hash is that of a callback whose transaction was sent, a row that of one
\* whose user was told.
LEMMA HistoryStep ==
    ASSUME IInv, StepFacts
    PROVE  RecordedHashWasSent' /\ TrackedWasTold'
<1>1. ASSUME NEW e \in Executions, txHash'[e] # None
      PROVE  txHash'[e] \in sent' /\ \E link \in links'[e] : link.tx = txHash'[e]
  <2>1. txHash'[e] \in sent /\ \E link \in links[e] : link.tx = txHash'[e]
    <3>1. CASE txHash'[e] = txHash[e]
      BY <1>1, <3>1 DEF IInv, RecordedHashWasSent
    <3>2. CASE txHash'[e] # txHash[e]
      BY <3>2 DEF IInv, CallInv, StepFacts, Records
    <3> QED BY <3>1, <3>2
  <2> QED BY <2>1 DEF StepFacts, Records
<1>2. TrackedWasTold'
  BY DEF IInv, TrackedWasTold, StepFacts, Records
<1> QED BY <1>1, <1>2 DEF RecordedHashWasSent

\* What begins to broadcast has a session in the store: one that no callback has
\* ended for, or one that was saved again.
LEMMA ReplayStep ==
    ASSUME IInv, StepFacts
    PROVE  ReplayOnlyIfSavedAgain'
<1> SUFFICES ASSUME NEW d \in Calls, calls'[d].pc = "broadcast", calls'[d].late
             PROVE  SavedAgain(calls'[d].exec)
  BY SavedAgainStays DEF ReplayOnlyIfSavedAgain, SavedAgain
<1>1. Moves(d) BY DEF StepFacts
<1>2. CASE calls'[d] = calls[d]
  BY <1>2 DEF IInv, ReplayOnlyIfSavedAgain
<1>3. CASE calls'[d] # calls[d]
  <2>1. PICK c \in Calls : /\ calls[c].pc \in Ended
                           /\ calls[c].exec = calls'[d].exec /\ calls'[d].exec \in live
    BY <1>1, <1>3 DEF Moves
  <2> QED BY <2>1 DEF IInv, SpentInv, Ended
<1> QED BY <1>2, <1>3

\* No callback has come.
LEMMA InvInit == Init => IInv
<1> SUFFICES ASSUME Init PROVE IInv
  OBVIOUS
<1> USE NamesAssumption, FaultsAssumption DEF Init
<1>1. TypeOK BY DEF TypeOK, CallRecords
<1>2. CallInv BY DEF CallInv
<1>3. LinkInv /\ SpentInv BY DEF LinkInv, SpentInv
<1>4. RecordedHashWasSent /\ TrackedWasTold /\ ReplayOnlyIfSavedAgain
  BY DEF RecordedHashWasSent, TrackedWasTold, ReplayOnlyIfSavedAgain
<1> QED BY <1>1, <1>2, <1>3, <1>4 DEF IInv

\* IInv is inductive.
LEMMA InvStep == IInv /\ [Next]_vars => IInv'
<1> SUFFICES ASSUME IInv, [Next]_vars PROVE IInv'
  OBVIOUS
<1>1. CASE UNCHANGED vars
  BY <1>1 DEF vars, rows, sessions, outside, IInv, TypeOK, CallInv, LinkInv, SpentInv, SavedAgain,
              RecordedHashWasSent, TrackedWasTold, ReplayOnlyIfSavedAgain
<1>2. CASE Next
  <2>1. StepFacts BY <1>2, NextFacts
  <2> QED
    BY <2>1, CallStepInv, LinkStep, SpentStep, HistoryStep, ReplayStep
    DEF IInv, StepFacts
<1> QED BY <1>1, <1>2

\* The inductive invariant of the sessions, the callbacks and the rows holds in
\* every reachable state.
THEOREM SpecInv == Spec => []IInv
BY InvInit, InvStep, PTL DEF Spec

\* Type correctness.
THEOREM SpecTypeOK == Spec => []TypeOK
<1>1. IInv => TypeOK BY DEF IInv
<1> QED BY <1>1, SpecInv, PTL

\* A recorded hash is that of a transaction that was sent and that was built for
\* that execution, however its callbacks overlap.
THEOREM SpecRecordedHashWasSent == Spec => []RecordedHashWasSent
<1>1. IInv => RecordedHashWasSent BY DEF IInv
<1> QED BY <1>1, SpecInv, PTL

\* Once a sign callback has ended, its link broadcasts nothing any more, whatever
\* keys the wallet brings, unless a connect callback has saved the session again.
THEOREM SpecReplayOnlyIfSavedAgain == Spec => []ReplayOnlyIfSavedAgain
<1>1. IInv => ReplayOnlyIfSavedAgain BY DEF IInv
<1> QED BY <1>1, SpecInv, PTL

\* The user was told of every transaction the tracker follows.
THEOREM SpecTrackedWasTold == Spec => []TrackedWasTold
<1>1. IInv => TrackedWasTold BY DEF IInv
<1> QED BY <1>1, SpecInv, PTL

\* Whoever was shown the page of a sent transaction has a tracked row.
THEOREM SpecSentPageIsTracked == Spec => []SentPageIsTracked
<1>1. IInv => SentPageIsTracked BY DEF IInv, CallInv, SentPageIsTracked
<1> QED BY <1>1, SpecInv, PTL
=============================================================================
