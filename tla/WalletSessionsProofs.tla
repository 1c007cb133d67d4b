------------------------ MODULE WalletSessionsProofs ------------------------
(***************************************************************************)
(* Machine-checked proofs about WalletSessions, for any users, chains and  *)
(* calls and any number of faults.  What a step may do to any one call is  *)
(* said once, by Moves; the parts of the inductive invariant that follow   *)
(* one call to another by a topic or a token rest on it.                   *)
(***************************************************************************)
EXTENDS WalletSessions, TLAPS

USE DEF At, Goto, store, wallets

\* A session takes the topic of the user's connection, or pairs.
LEMMA OverConnectionFields ==
    ASSUME NEW call \in CallRecords, call.kind \in SessionKinds,
           NEW u \in Users, connection[u] \in Calls \cup {None}
    PROVE  /\ OverConnection(call, u) \in CallRecords
           /\ OverConnection(call, u).kind = call.kind
           /\ OverConnection(call, u).user = call.user
           /\ OverConnection(call, u).chain = call.chain
           /\ OverConnection(call, u).token = call.token
           /\ OverConnection(call, u).topic = connection[u]
           /\ connection[u] = None => OverConnection(call, u).pc = "pairing"
           /\ connection[u] # None => OverConnection(call, u).pc \in {"done", "allowance", "ask"}
BY DEF OverConnection, AfterApproval, CallRecords, SessionKinds

\* The commands and presses of a user keep the types.
LEMMA BeginType ==
    ASSUME IInv, NEW c \in Calls, Begin(c)
    PROVE  TypeOK' /\ KindInv'
<1> USE NoneAssumption DEF IInv, TypeOK, KindInv
<1>1. ASSUME NEW u \in Users, NEW ch \in Chains, NEW kind \in SessionKinds, Start(c, kind, u, ch)
      PROVE  TypeOK' /\ KindInv'
  <2> DEFINE call == [NoCall EXCEPT !.kind = kind, !.user = u, !.chain = ch]
  <2>1. /\ call \in CallRecords /\ call.kind \in SessionKinds
        /\ call.user = u /\ call.chain = ch
    BY DEF NoCall, CallRecords, SessionKinds
  <2>2. calls' = [calls EXCEPT ![c] = OverConnection(call, u)]
        /\ UNCHANGED <<connection, actions, buttons, wallet, asked, dropped, faults>>
    BY <1>1 DEF Start
  <2> HIDE DEF call
  <2>3. /\ OverConnection(call, u) \in CallRecords
        /\ OverConnection(call, u).kind \in SessionKinds
        /\ OverConnection(call, u).pc \in {"pairing", "done", "allowance", "ask"}
    BY <2>1, OverConnectionFields
  <2>4. OverConnection(call, u).user = u /\ OverConnection(call, u).chain = ch
    BY <2>1, OverConnectionFields
  <2>5. TypeOK' BY <2>2, <2>3
  <2>6. KindInv' BY <2>2, <2>3, <2>4 DEF SessionKinds
  <2> QED BY <2>5, <2>6
<1>2. ASSUME NEW u \in Users, NEW ch \in Chains, HandleApprove(c, u, ch)
      PROVE  TypeOK' /\ KindInv'
  <2>1. TypeOK' BY <1>2 DEF HandleApprove, NoCall, CallRecords
  <2>2. KindInv' BY <1>2 DEF HandleApprove, NoCall, CallRecords, SessionKinds
  <2> QED BY <2>1, <2>2
<1>3. ASSUME NEW u \in Users, NEW token \in buttons, PressApprove(c, u, token)
      PROVE  TypeOK' /\ KindInv'
  <2>1. TypeOK' BY <1>3 DEF PressApprove, NoCall, CallRecords, TokenInv, SessionKinds
  <2>2. KindInv' BY <1>3 DEF PressApprove, NoCall, CallRecords, TokenInv, SessionKinds
  <2> QED BY <2>1, <2>2
<1>4. ASSUME NEW u \in Users, Disconnect(c, u)
      PROVE  TypeOK' /\ KindInv'
  <2>1. TypeOK' BY <1>4 DEF Disconnect, NoCall, CallRecords
  <2>2. KindInv' BY <1>4 DEF Disconnect, NoCall, CallRecords, SessionKinds
  <2> QED BY <2>1, <2>2
<1> QED BY <1>1, <1>2, <1>3, <1>4 DEF Begin, Connect, CreateSession, SessionKinds

\* So do the steps of the process.
LEMMA ContinueType ==
    ASSUME IInv, NEW c \in Calls, Continue(c)
    PROVE  TypeOK' /\ KindInv'
<1> USE NoneAssumption, FaultsAssumption DEF IInv, TypeOK, KindInv, CallRecords, SessionKinds
<1>1. CASE OpenPairing(c) BY <1>1 DEF OpenPairing
<1>2. CASE HandleApprovedSession(c)
  <2>1. AfterApproval(calls[c].kind) \in {"done", "allowance", "ask"}
    BY <1>2 DEF HandleApprovedSession, AfterApproval
  <2> QED BY <1>2, <2>1 DEF HandleApprovedSession, SaveConnection
<1>3. CASE SessionError(c) BY <1>3 DEF SessionError
<1>4. CASE EnsureSufficientAllowance(c)
  BY <1>4 DEF EnsureSufficientAllowance, HandleInsufficientAllowance, NewAction
<1>5. CASE CreateApproveSession(c)
  <2>1. calls[c].kind \in SessionKinds /\ calls[c] \in CallRecords
    BY <1>5 DEF CreateApproveSession, SessionKinds
  <2>2. calls[c].user \in Users
    BY <1>5 DEF CreateApproveSession
  <2> DEFINE call == OverConnection(calls[c], calls[c].user)
  <2>3. /\ call \in CallRecords /\ call.kind = calls[c].kind
        /\ call.user = calls[c].user /\ call.chain = calls[c].chain
        /\ call.pc \in {"pairing", "done", "allowance", "ask"}
    BY <2>1, <2>2, OverConnectionFields
  <2>4. calls' = [calls EXCEPT ![c] = call]
        /\ UNCHANGED <<connection, actions, buttons, wallet, asked, dropped, faults>>
    BY <1>5 DEF CreateApproveSession
  <2> HIDE DEF call
  <2>5. TypeOK' BY <2>3, <2>4
  <2>6. KindInv' BY <2>1, <2>2, <2>3, <2>4
  <2> QED BY <2>5, <2>6
<1>6. CASE ResolveApproveContext(c) BY <1>6 DEF ResolveApproveContext
<1>7. CASE PrepareApproveOptions(c)
  BY <1>7 DEF PrepareApproveOptions, SpendersNamed, NoSpender, NewAction
<1>8. CASE WalletShows(c) BY <1>8 DEF WalletShows, Requests, TopicInv
<1>9. CASE RequestRefused(c) BY <1>9 DEF RequestRefused
<1>10. CASE FinishDisconnect(c)
  <2>1. faults' \in 0..MaxFaults
    BY <1>10 DEF FinishDisconnect, Fault
  <2>2. calls[c].topic \in Calls
    BY <1>10 DEF FinishDisconnect, TopicInv
  <2>3. wallet' \in [Calls -> {"none", "proposed", "live", "ended"}]
    BY <1>10 DEF FinishDisconnect
  <2>4. calls' \in [Calls -> CallRecords] /\ connection' \in [Users -> Calls \cup {None}]
    BY <1>10 DEF FinishDisconnect, DeleteConnection
  <2>5. TypeOK' BY <1>10, <2>1, <2>2, <2>3, <2>4 DEF FinishDisconnect
  <2>6. KindInv' BY <1>10 DEF FinishDisconnect
  <2> QED BY <2>5, <2>6
<1> QED
  BY <1>1, <1>2, <1>3, <1>4, <1>5, <1>6, <1>7, <1>8, <1>9, <1>10 DEF Continue

\* So do wallets, entries that lapse, rejected awaits and restarts.
LEMMA OutsideType ==
    ASSUME IInv,
           \/ \E c \in Calls : Wallet(c) \/ Reject(c)
           \/ Expire \/ Crash
    PROVE  TypeOK' /\ KindInv'
<1> USE NoneAssumption, FaultsAssumption DEF IInv, TypeOK, KindInv, CallRecords, SessionKinds
<1>1. ASSUME NEW c \in Calls, WalletApproves(c) \/ WalletEnds(c)
      PROVE  TypeOK' /\ KindInv'
  BY <1>1 DEF WalletApproves, WalletEnds
<1>2. ASSUME NEW c \in Calls, Reject(c)
      PROVE  TypeOK' /\ KindInv'
  BY <1>2 DEF Reject, Fault
<1>3. CASE Expire BY <1>3 DEF Expire
<1>4. CASE Crash BY <1>4 DEF Crash, Fault
<1> QED BY <1>1, <1>2, <1>3, <1>4 DEF Wallet

-----------------------------------------------------------------------------
\* What a step may do to a call: end it for good, start it, or take it further
\* for the same user, chain and token.
Moves(d) ==
    /\ calls[d].pc = "done" => calls'[d] = calls[d]
    /\ calls[d].pc # "idle" =>
          /\ calls'[d].user = calls[d].user
          /\ calls'[d].chain = calls[d].chain
          /\ calls'[d].token = calls[d].token
    /\ calls[d].topic # None => calls'[d].topic = calls[d].topic
    /\ \/ calls'[d].topic \in {calls[d].topic, d, None}
       \/ calls'[d].user \in Users /\ calls'[d].topic = connection[calls'[d].user]
    /\ calls'[d].pc \in NotPaired => calls'[d].topic = None
    /\ calls'[d].pc \in {"allowance", "ask", "dropping"} => calls'[d].topic # None
    /\ calls[d].pc = "idle" /\ calls'[d].token # None =>
          /\ calls'[d].token \in buttons
          /\ calls'[d].chain = calls[calls'[d].token].chain
          /\ calls'[d].topic = None
          /\ calls'[d].pc # "done" => calls[calls'[d].token].user = calls'[d].user

\* A begun call has no topic but that of its user's connection.
LEMMA BeginMoves ==
    ASSUME IInv, NEW c \in Calls, Begin(c), NEW d \in Calls
    PROVE  Moves(d)
<1> USE NoneAssumption DEF IInv, TypeOK, Moves, KindInv
<1>1. ASSUME NEW u \in Users, NEW ch \in Chains, NEW kind \in SessionKinds, Start(c, kind, u, ch)
      PROVE  Moves(d)
  <2> DEFINE call == [NoCall EXCEPT !.kind = kind, !.user = u, !.chain = ch]
  <2>1. call \in CallRecords /\ call.kind \in SessionKinds /\ call.user = u /\ call.chain = ch /\ call.token = None
    BY DEF NoCall, CallRecords, SessionKinds
  <2>3. calls' = [calls EXCEPT ![c] = OverConnection(call, u)] /\ calls[c].pc = "idle"
    BY <1>1 DEF Start
  <2> HIDE DEF call
  <2> QED BY <2>1, <2>3, OverConnectionFields DEF NotPaired, TopicInv
<1>2. ASSUME NEW u \in Users, NEW ch \in Chains, HandleApprove(c, u, ch)
      PROVE  Moves(d)
  BY <1>2 DEF HandleApprove, NoCall, CallRecords, NotPaired, TopicInv
<1>3. ASSUME NEW u \in Users, NEW token \in buttons, PressApprove(c, u, token)
      PROVE  Moves(d)
  BY <1>3 DEF PressApprove, NoCall, CallRecords, NotPaired, TopicInv
<1>4. ASSUME NEW u \in Users, Disconnect(c, u)
      PROVE  Moves(d)
  BY <1>4 DEF Disconnect, NoCall, CallRecords, NotPaired, TopicInv
<1> QED BY <1>1, <1>2, <1>3, <1>4 DEF Begin, Connect, CreateSession, SessionKinds

\* A call goes on for its user, and gets a topic once.
LEMMA ContinueMoves ==
    ASSUME IInv, NEW c \in Calls, Continue(c) \/ Wallet(c) \/ Reject(c), NEW d \in Calls
    PROVE  Moves(d)
<1> USE NoneAssumption DEF IInv, TypeOK, Moves, KindInv, CallRecords, NotPaired, TopicInv
<1>1. CASE OpenPairing(c) BY <1>1 DEF OpenPairing
<1>2. CASE HandleApprovedSession(c)
  BY <1>2 DEF HandleApprovedSession, SaveConnection, AfterApproval, KindInv, SessionKinds
<1>3. CASE SessionError(c) BY <1>3 DEF SessionError
<1>4. CASE EnsureSufficientAllowance(c)
  BY <1>4 DEF EnsureSufficientAllowance, HandleInsufficientAllowance, NewAction
<1>5. CASE CreateApproveSession(c)
  BY <1>5, OverConnectionFields DEF CreateApproveSession, KindInv
<1>6. CASE ResolveApproveContext(c) BY <1>6 DEF ResolveApproveContext
<1>7. CASE PrepareApproveOptions(c)
  BY <1>7 DEF PrepareApproveOptions, SpendersNamed, NoSpender, NewAction
<1>8. CASE WalletShows(c) BY <1>8 DEF WalletShows
<1>9. CASE RequestRefused(c) BY <1>9 DEF RequestRefused
<1>10. CASE FinishDisconnect(c) BY <1>10 DEF FinishDisconnect
<1>11. CASE Wallet(c) BY <1>11 DEF Wallet, WalletApproves, WalletEnds
<1>12. CASE Reject(c) BY <1>12 DEF Reject
<1> QED BY <1>1, <1>2, <1>3, <1>4, <1>5, <1>6, <1>7, <1>8, <1>9, <1>10, <1>11, <1>12 DEF Continue

\* A restart ends the calls where they are.
LEMMA CrashMoves ==
    ASSUME IInv, Expire \/ Crash, NEW d \in Calls
    PROVE  Moves(d)
<1> USE DEF IInv, TypeOK, Moves, KindInv, CallRecords, NotPaired, TopicInv
<1>1. CASE Expire BY <1>1 DEF Expire
<1>2. CASE Crash BY <1>2 DEF Crash
<1> QED BY <1>1, <1>2

-----------------------------------------------------------------------------
\* Topics lead to approved pairings of the same user.
LEMMA TopicStep ==
    ASSUME IInv, \A d \in Calls : Moves(d), TypeOK'
    PROVE  TopicInv'
<1> SUFFICES ASSUME NEW c \in Calls, calls'[c].topic # None
             PROVE  /\ calls'[calls'[c].topic].topic = calls'[c].topic
                    /\ calls'[calls'[c].topic].user = calls'[c].user
  BY DEF TopicInv, Moves
<1> DEFINE t == calls'[c].topic
<1>0. t \in Calls BY DEF TypeOK, CallRecords
<1>1. CASE t = c BY <1>1
<1>2. CASE t = calls[c].topic
  BY <1>0, <1>2, NoneAssumption DEF IInv, TopicInv, Moves, NotPaired
<1>3. CASE calls'[c].user \in Users /\ t = connection[calls'[c].user]
  BY <1>0, <1>3, NoneAssumption DEF IInv, TopicInv, ConnectionInv, Moves, NotPaired
<1> QED BY <1>1, <1>2, <1>3 DEF Moves

\* Tokens lead to ended offers, and past the check to those of the same user.
LEMMA TokenStep ==
    ASSUME IInv, \A d \in Calls : Moves(d), TypeOK',
           \A b \in buttons' \ buttons : calls'[b].pc = "done" /\ calls'[b].chain \in Chains,
           buttons \subseteq buttons'
    PROVE  TokenInv'
<1>1. ASSUME NEW b \in buttons' PROVE calls'[b].pc = "done" /\ calls'[b].chain \in Chains
  BY DEF IInv, TypeOK, TokenInv, Moves
<1>2. ASSUME NEW c \in Calls, calls'[c].token # None
      PROVE  /\ calls'[c].token \in buttons'
             /\ calls'[c].chain = calls'[calls'[c].token].chain
             /\ calls'[c].pc # "done" \/ calls'[c].topic # None =>
                   calls'[calls'[c].token].user = calls'[c].user
  <2> USE DEF IInv, TypeOK, TokenInv, Moves
  <2>1. CASE calls[c].pc = "idle" BY <1>2, <2>1
  <2>2. CASE calls[c].pc # "idle" BY <1>2, <2>2
  <2> QED BY <2>1, <2>2
<1> QED BY <1>1, <1>2 DEF TokenInv

\* What is kept under a user's key changes only to None or to a pairing just
\* approved for that user.
ConnectionMoves ==
    \A u \in Users :
        \/ connection'[u] \in {connection[u], None}
        \/ /\ connection'[u] \in Calls
           /\ calls[connection'[u]].pc = "waiting"
           /\ calls'[connection'[u]].topic = connection'[u]
           /\ calls'[connection'[u]].user = u

LEMMA ConnectionStep ==
    ASSUME IInv, \A d \in Calls : Moves(d), ConnectionMoves, TypeOK'
    PROVE  ConnectionInv'
<1> SUFFICES ASSUME NEW u \in Users, connection'[u] # None
             PROVE  /\ calls'[connection'[u]].topic = connection'[u]
                    /\ calls'[connection'[u]].user = u
  BY DEF ConnectionInv
<1>1. CASE connection'[u] = connection[u]
  BY <1>1, NoneAssumption DEF IInv, TypeOK, ConnectionInv, TopicInv, Moves, NotPaired
<1>2. CASE connection'[u] # connection[u]
  BY <1>2 DEF ConnectionMoves
<1> QED BY <1>1, <1>2

-----------------------------------------------------------------------------
\* The rest of a step: buttons are of ended calls, what is shown or dropped is
\* what the call that ends has as its topic.
Records ==
    /\ buttons \subseteq buttons'
    /\ \A b \in buttons' \ buttons : calls'[b].pc = "done" /\ calls'[b].chain \in Chains
    /\ ConnectionMoves
    /\ \A r \in asked' \ asked :
          /\ calls'[r.call].pc = "done"
          /\ calls'[r.call].topic = r.topic
          /\ calls'[r.call].chain = r.chain
    /\ \/ dropped' = dropped
       \/ \E c \in Calls :
             /\ calls[c].pc = "dropping"
             /\ dropped' = dropped \cup {calls[c].topic}
             /\ connection' = [connection EXCEPT ![calls[c].user] = None]

\* What a user begins shows, offers and drops nothing yet.
LEMMA BeginRecords ==
    ASSUME IInv, NEW c \in Calls, Begin(c)
    PROVE  Records
<1>1. UNCHANGED <<connection, actions, buttons, wallet, asked, dropped, faults>>
  BY DEF Begin, Connect, CreateSession, Start, HandleApprove, PressApprove, Disconnect
<1> QED BY <1>1 DEF Records, ConnectionMoves

\* The process records what it does.
LEMMA ContinueRecords ==
    ASSUME IInv, NEW c \in Calls, Continue(c) \/ Wallet(c) \/ Reject(c)
    PROVE  Records
<1> USE NoneAssumption DEF IInv, TypeOK, Records, ConnectionMoves, CallRecords
<1>1. CASE UNCHANGED <<connection, buttons, asked, dropped>> BY <1>1
<1>2. CASE HandleApprovedSession(c)
  BY <1>2 DEF HandleApprovedSession, SaveConnection
<1>3. CASE EnsureSufficientAllowance(c)
  BY <1>3 DEF EnsureSufficientAllowance, HandleInsufficientAllowance, NewAction, KindInv
<1>4. CASE PrepareApproveOptions(c)
  BY <1>4 DEF PrepareApproveOptions, SpendersNamed, NoSpender, NewAction, KindInv
<1>5. CASE WalletShows(c) BY <1>5 DEF WalletShows
<1>6. CASE FinishDisconnect(c) BY <1>6 DEF FinishDisconnect, DeleteConnection
<1> QED
  BY <1>1, <1>2, <1>3, <1>4, <1>5, <1>6
  DEF Continue, OpenPairing, SessionError, CreateApproveSession, ResolveApproveContext,
      RequestRefused, Wallet, WalletApproves, WalletEnds, Reject

\* Nothing is recorded when an entry lapses or the process dies.
LEMMA CrashRecords ==
    ASSUME IInv, Expire \/ Crash
    PROVE  Records
BY DEF Expire, Crash, Records, ConnectionMoves, IInv, TypeOK

\* What was shown or dropped stays as it was recorded.
LEMMA HistoryStep ==
    ASSUME IInv, \A d \in Calls : Moves(d), Records
    PROVE  HistoryInv'
<1> USE NoneAssumption DEF IInv, TypeOK, HistoryInv, Moves
<1>1. ASSUME NEW r \in asked'
      PROVE  /\ calls'[r.call].pc = "done" /\ calls'[r.call].topic = r.topic
             /\ calls'[r.call].chain = r.chain
  <2>1. CASE r \in asked BY <2>1 DEF Requests
  <2>2. CASE r \notin asked BY <2>2 DEF Records
  <2> QED BY <2>1, <2>2
<1>2. ASSUME NEW t \in dropped' PROVE calls'[t].topic = t
  <2>1. CASE t \in dropped BY <2>1
  <2>2. CASE t \notin dropped
    BY <2>2 DEF Records, TopicInv, CallRecords
  <2> QED BY <2>1, <2>2
<1> QED BY <1>1, <1>2

\* A dropped topic is of an approved pairing, and the only one who could still
\* have it as a connection is the user whose key is deleted.
LEMMA DroppedStep ==
    ASSUME IInv, Records
    PROVE  DroppedStaysOut'
<1> SUFFICES ASSUME NEW u \in Users PROVE connection'[u] \notin dropped'
  BY DEF DroppedStaysOut
<1> USE NoneAssumption DEF IInv, TypeOK, DroppedStaysOut
<1>1. CASE dropped' = dropped
  BY <1>1 DEF Records, ConnectionMoves, HistoryInv, TopicInv, NotPaired
<1>2. CASE dropped' # dropped
  <2>1. PICK c \in Calls :
          /\ calls[c].pc = "dropping"
          /\ dropped' = dropped \cup {calls[c].topic}
          /\ connection' = [connection EXCEPT ![calls[c].user] = None]
    BY <1>2 DEF Records
  <2>2. calls[c].topic \in Calls /\ calls[calls[c].topic].user = calls[c].user
    BY <2>1 DEF TopicInv, CallRecords
  <2>3. CASE u = calls[c].user BY <2>1, <2>2, <2>3
  <2>4. CASE u # calls[c].user BY <2>1, <2>2, <2>4 DEF ConnectionInv
  <2> QED BY <2>3, <2>4
<1> QED BY <1>1, <1>2

-----------------------------------------------------------------------------
\* No call has begun: nothing is kept, shown or dropped.
LEMMA InvInit == Init => IInv
<1> SUFFICES ASSUME Init PROVE IInv
  OBVIOUS
<1> USE NoneAssumption, FaultsAssumption DEF Init, NoCall
<1>1. TypeOK BY DEF TypeOK, CallRecords
<1>2. KindInv BY DEF KindInv, SessionKinds
<1>3. TopicInv BY DEF TopicInv
<1>4. TokenInv /\ ConnectionInv BY DEF TokenInv, ConnectionInv
<1>5. HistoryInv /\ DroppedStaysOut BY DEF HistoryInv, DroppedStaysOut
<1> QED BY <1>1, <1>2, <1>3, <1>4, <1>5 DEF IInv

\* IInv is inductive.
LEMMA InvStep == IInv /\ [Next]_vars => IInv'
<1> SUFFICES ASSUME IInv, [Next]_vars PROVE IInv'
  OBVIOUS
<1>1. CASE UNCHANGED vars
  BY <1>1 DEF vars, IInv, TypeOK, KindInv, TopicInv, TokenInv, ConnectionInv, HistoryInv,
              DroppedStaysOut
<1>2. CASE Next
  <2>1. TypeOK' /\ KindInv'
    BY <1>2, BeginType, ContinueType, OutsideType DEF Next
  <2>2. \A d \in Calls : Moves(d)
    BY <1>2, BeginMoves, ContinueMoves, CrashMoves DEF Next
  <2>3. Records
    BY <1>2, BeginRecords, ContinueRecords, CrashRecords DEF Next
  <2>4. TopicInv' BY <2>1, <2>2, TopicStep
  <2>5. TokenInv' BY <2>1, <2>2, <2>3, TokenStep DEF Records
  <2>6. ConnectionInv' BY <2>1, <2>2, <2>3, ConnectionStep DEF Records
  <2>7. HistoryInv' /\ DroppedStaysOut' BY <2>2, <2>3, HistoryStep, DroppedStep
  <2> QED BY <2>1, <2>4, <2>5, <2>6, <2>7 DEF IInv
<1> QED BY <1>1, <1>2

\* The inductive invariant of the store, the calls and the wallets holds in
\* every reachable state.
THEOREM SpecInv == Spec => []IInv
BY InvInit, InvStep, PTL DEF Spec

\* Type correctness.
THEOREM SpecTypeOK == Spec => []TypeOK
<1>1. IInv => TypeOK BY DEF IInv
<1> QED BY <1>1, SpecInv, PTL

\* Nobody is asked in another user's wallet, nor to approve anything but what
\* the button was shown for, whoever presses it and whatever was paired,
\* dropped or lost since.
THEOREM SpecAskedAsShown == Spec => []AskedAsShown
<1>1. IInv => AskedAsShown
  <2> SUFFICES ASSUME IInv, NEW r \in asked
               PROVE  LET call == calls[r.call]
                      IN  /\ calls[r.topic].user = call.user
                          /\ call.token # None =>
                               /\ calls[call.token].user = call.user
                               /\ r.chain = calls[call.token].chain
    BY DEF AskedAsShown
  <2>1. /\ r.call \in Calls /\ r.topic \in Calls
        /\ calls[r.call].topic = r.topic /\ calls[r.call].chain = r.chain
    BY DEF IInv, TypeOK, HistoryInv, Requests
  <2> QED BY <2>1, NoneAssumption DEF IInv, TopicInv, TokenInv
<1> QED BY <1>1, SpecInv, PTL

\* What a disconnect dropped never comes back as a connection.
THEOREM SpecDroppedStaysOut == Spec => []DroppedStaysOut
<1>1. IInv => DroppedStaysOut BY DEF IInv
<1> QED BY <1>1, SpecInv, PTL

\* A pairing whose user was told that it failed is neither stored nor asked.
THEOREM SpecFailedPairingUnused == Spec => []FailedPairingUnused
<1>1. IInv => FailedPairingUnused
  BY NoneAssumption
  DEF IInv, TypeOK, TopicInv, ConnectionInv, HistoryInv, FailedPairingUnused, Requests
<1> QED BY <1>1, SpecInv, PTL
=============================================================================
