--------------------------- MODULE WalletSessions ---------------------------
(***************************************************************************)
(* WalletConnectSessionStore and the flows over it: pairing a wallet,      *)
(* reusing and dropping a connection, and the approve action of            *)
(* src/allowance, whose button carries a token that anybody in the chat    *)
(* may press.  A call is one command, button press or swap session of a    *)
(* user together with the background runner it starts; a pairing's topic   *)
(* is named by the call that opened it and an approve token by the call    *)
(* that offered it.  Everything up to an await is one action.              *)
(* The rows of a swap are in SwapExecution; Solana connections, which      *)
(* share the store but no key with these, in PhantomSwap.                  *)
(* A definition A_Mutation is a plausible mistake in A; no specification   *)
(* uses it, it only shows that a property can fail.                        *)
(***************************************************************************)
EXTENDS Naturals

CONSTANTS Users,
          Chains,       \* EVM chains
          Calls,
          None,
          MaxFaults     \* bound on rejected awaits and restarts

ASSUME NoneAssumption == None \notin Calls \cup Users \cup Chains
ASSUME FaultsAssumption == MaxFaults \in Nat

VARIABLES
    calls,        \* the handler and runner of each call
    connection,   \* the topic under wc:session:<user>:evm
    actions,      \* approve tokens the store holds
    buttons,      \* approve tokens ever shown in the chat
    wallet,       \* what became of each call's pairing on the wallet's side
    asked,        \* history: requests shown in wallets
    dropped,      \* history: topics a disconnect removed
    faults

store == <<connection, actions>>
wallets == <<wallet, asked>>
vars == <<calls, store, buttons, wallets, dropped, faults>>

NoCall == [kind |-> "none", pc |-> "idle", user |-> None, chain |-> None,
           topic |-> None, token |-> None]

Requests == [call : Calls, topic : Calls, chain : Chains]

Init ==
    /\ calls = [c \in Calls |-> NoCall]
    /\ connection = [u \in Users |-> None]
    /\ actions = {}
    /\ buttons = {}
    /\ wallet = [c \in Calls |-> "none"]
    /\ asked = {}
    /\ dropped = {}
    /\ faults = 0

Fault == faults < MaxFaults /\ faults' = faults + 1

At(c, pc) == calls[c].pc = pc
Goto(c, pc) == calls' = [calls EXCEPT ![c].pc = pc]

-----------------------------------------------------------------------------
(* WalletConnectService: what a call does with the user's connection.       *)

\* Where the runner of a session goes once it has a topic.
AfterApproval(kind) ==
    CASE kind = "connect" -> "done"
      [] kind = "swap" -> "allowance"
      [] kind = "approve" -> "ask"

\* connect, createSession and createApproveSession look for a connection of the
\* family, whatever its chain; the runner over it starts at once.
OverConnection(call, u) ==
    [call EXCEPT !.topic = connection[u],
                 !.pc = IF connection[u] = None THEN "pairing" ELSE AfterApproval(call.kind)]

Start(c, kind, u, ch) ==
    /\ At(c, "idle")
    /\ calls' = [calls EXCEPT
          ![c] = OverConnection([NoCall EXCEPT !.kind = kind, !.user = u, !.chain = ch], u)]
    /\ UNCHANGED <<store, buttons, wallets, dropped, faults>>

\* /connect on an EVM chain, or its button.
Connect(c, u, ch) == Start(c, "connect", u, ch)

\* A swap on an EVM chain reaches createSession (the rest of it: SwapExecution).
CreateSession(c, u, ch) == Start(c, "swap", u, ch)

OpenPairing_NotWaiting(c) ==
    /\ At(c, "pairing")
    /\ Goto(c, "polling")
    /\ wallet' = [wallet EXCEPT ![c] = "proposed"]
    /\ UNCHANGED <<store, buttons, asked, dropped, faults>>

\* createEvmSession, once the relay has answered: the session is saved and its
\* runner waits for the wallet.
OpenPairing(c) ==
    /\ At(c, "pairing")
    /\ Goto(c, "waiting")
    /\ wallet' = [wallet EXCEPT ![c] = "proposed"]
    /\ UNCHANGED <<store, buttons, asked, dropped, faults>>

SaveConnection(c) == connection' = [connection EXCEPT ![calls[c].user] = c]

\* A listener of session_connect would save connections nobody waits for.
HandleApprovedSession_Late(c) ==
    /\ calls[c].pc \in {"waiting", "done"}
    /\ wallet[c] = "live"
    /\ SaveConnection(c)
    /\ UNCHANGED <<calls, actions, buttons, wallets, dropped, faults>>

\* The wallet's approval wins the race: the connection replaces whatever the
\* user had, and the runner goes on by the kind of the session.
HandleApprovedSession(c) ==
    /\ At(c, "waiting")
    /\ wallet[c] = "live"
    /\ SaveConnection(c)
    /\ calls' = [calls EXCEPT
          ![c].topic = c,
          ![c].pc = AfterApproval(calls[c].kind)]
    /\ UNCHANGED <<actions, buttons, wallets, dropped, faults>>

\* The timer wins, or the wallet declined: the session and its approval are
\* forgotten, and the user is told.
SessionError(c) ==
    /\ At(c, "waiting")
    /\ Goto(c, "done")
    /\ UNCHANGED <<store, buttons, wallets, dropped, faults>>

-----------------------------------------------------------------------------
(* Allowance and approve.                                                   *)

NewAction(c) ==
    /\ actions' = actions \cup {c}
    /\ buttons' = buttons \cup {c}

\* The runner's user is told what the allowance lacks and gets approve buttons.
HandleInsufficientAllowance(c) == Goto(c, "done") /\ NewAction(c)

\* ensureSufficientAllowance of a runner: a native token or a sufficient
\* allowance lets it through.
EnsureSufficientAllowance(c) ==
    /\ At(c, "allowance")
    /\ \/ Goto(c, "ask") /\ UNCHANGED <<actions, buttons>>
       \/ HandleInsufficientAllowance(c)
    /\ UNCHANGED <<connection, wallets, dropped, faults>>

\* /approve: the wallet whose allowances will be shown is the one connected now.
HandleApprove(c, u, ch) ==
    /\ At(c, "idle")
    /\ calls' = [calls EXCEPT ![c] =
          [NoCall EXCEPT !.kind = "offer", !.pc = "resolving", !.user = u, !.chain = ch]]
    /\ UNCHANGED <<store, buttons, wallets, dropped, faults>>

\* The token is looked up (TokenResolution); one that is unknown or native has
\* nothing to approve.
ResolveApproveContext(c) ==
    /\ At(c, "resolving")
    /\ Goto(c, "options") \/ Goto(c, "done")
    /\ UNCHANGED <<store, buttons, wallets, dropped, faults>>

\* resolveApprovalOptions: an option of every aggregator that names a spender.
SpendersNamed(c) == Goto(c, "done") /\ NewAction(c)

\* Without a spender there is no button.
NoSpender(c) == Goto(c, "done") /\ UNCHANGED <<actions, buttons>>

PrepareApproveOptions(c) ==
    /\ At(c, "options")
    /\ SpendersNamed(c) \/ NoSpender(c)
    /\ UNCHANGED <<connection, wallets, dropped, faults>>

PressApprove_AnyUser(c, u, token) ==
    /\ At(c, "idle")
    /\ token \in actions
    /\ calls' = [calls EXCEPT ![c] =
          [NoCall EXCEPT !.kind = "approve", !.user = u, !.token = token,
                         !.chain = calls[token].chain, !.pc = "prepared"]]
    /\ UNCHANGED <<store, buttons, wallets, dropped, faults>>

\* getPreparedApproveExecution: the token is looked up but not consumed, the
\* chain is the action's.  A press that is not the owner's, or late, is refused.
PressApprove(c, u, token) ==
    /\ At(c, "idle")
    /\ token \in buttons
    /\ LET found == token \in actions /\ calls[token].user = u
       IN  calls' = [calls EXCEPT ![c] =
             [NoCall EXCEPT !.kind = "approve", !.user = u, !.token = token,
                            !.chain = calls[token].chain,
                            !.pc = IF found THEN "prepared" ELSE "done"]]
    /\ UNCHANGED <<store, buttons, wallets, dropped, faults>>

\* After the button is answered, createApproveSession looks for the connection
\* of that moment.
CreateApproveSession(c) ==
    /\ At(c, "prepared")
    /\ calls' = [calls EXCEPT ![c] = OverConnection(@, @.user)]
    /\ UNCHANGED <<store, buttons, wallets, dropped, faults>>

-----------------------------------------------------------------------------
(* requestWalletConnectExecution: the relay passes a request on when its      *)
(* topic is alive and the wallet approved the chain for it: the chain of the  *)
(* pairing, perhaps others too.  What the wallet answers is only told to the  *)
(* user.                                                                      *)

WalletShows(c) ==
    /\ At(c, "ask")
    /\ wallet[calls[c].topic] = "live"
    /\ asked' = asked \cup {[call |-> c, topic |-> calls[c].topic, chain |-> calls[c].chain]}
    /\ Goto(c, "done")
    /\ UNCHANGED <<store, buttons, wallet, dropped, faults>>

RequestRefused(c) ==
    /\ At(c, "ask")
    /\ LET t == calls[c].topic
       IN  wallet[t] # "live" \/ calls[c].chain # calls[t].chain
    /\ Goto(c, "done")
    /\ UNCHANGED <<store, buttons, wallets, dropped, faults>>

-----------------------------------------------------------------------------
(* WalletConnectConnectionService.disconnect.                               *)

\* The topic of the connection found is ended at the relay first.  (The loop over
\* both families does the same for Solana without an await: see PhantomSwap.)
Disconnect(c, u) ==
    /\ At(c, "idle")
    /\ calls' = [calls EXCEPT ![c] =
          [NoCall EXCEPT !.kind = "drop", !.user = u, !.topic = connection[u],
                         !.pc = IF connection[u] = None THEN "done" ELSE "dropping"]]
    /\ UNCHANGED <<store, buttons, wallets, dropped, faults>>

DeleteConnection_Kept(u) == UNCHANGED connection

\* Whether or not the relay ended the topic, whatever is now under the key goes.
DeleteConnection(u) == connection' = [connection EXCEPT ![u] = None]

FinishDisconnect(c) ==
    /\ At(c, "dropping")
    /\ Goto(c, "done")
    /\ DeleteConnection(calls[c].user)
    /\ dropped' = dropped \cup {calls[c].topic}
    /\ \/ /\ wallet' = [wallet EXCEPT ![calls[c].topic] = "ended"]
          /\ UNCHANGED faults
       \/ Fault /\ UNCHANGED wallet
    /\ UNCHANGED <<actions, buttons, asked>>

-----------------------------------------------------------------------------
(* Outside: wallets, lapsing entries, rejected awaits, restarts.            *)

\* The wallet approves a proposal, perhaps after its timer.
WalletApproves(c) ==
    /\ wallet[c] = "proposed"
    /\ wallet' = [wallet EXCEPT ![c] = "live"]
    /\ UNCHANGED <<calls, store, buttons, asked, dropped, faults>>

\* The proposal is declined or lapses, or the wallet ends the topic:
\* session_delete and session_expire are logged and change nothing here.
WalletEnds(c) ==
    /\ wallet[c] \in {"proposed", "live"}
    /\ wallet' = [wallet EXCEPT ![c] = "ended"]
    /\ UNCHANGED <<calls, store, buttons, asked, dropped, faults>>

\* The TTL of an entry of the cache.
Expire ==
    /\ \/ \E u \in Users :
             /\ connection[u] # None
             /\ connection' = [connection EXCEPT ![u] = None]
             /\ UNCHANGED actions
       \/ \E token \in actions :
             actions' = actions \ {token} /\ UNCHANGED connection
    /\ UNCHANGED <<calls, buttons, wallets, dropped, faults>>

\* The relay, the RPC or an aggregator does not answer: the call ends with an
\* error message.
Reject(c) ==
    /\ \E pc \in {"pairing", "resolving", "allowance", "prepared"} : At(c, pc)
    /\ Fault
    /\ Goto(c, "done")
    /\ UNCHANGED <<store, buttons, wallets, dropped>>

\* A restart empties the cache and forgets every handler; topics live on in the
\* wallets.
Crash ==
    /\ Fault
    /\ calls' = [c \in Calls |-> IF calls[c].pc \in {"idle", "done"} THEN calls[c]
                                 ELSE [calls[c] EXCEPT !.pc = "lost"]]
    /\ connection' = [u \in Users |-> None]
    /\ actions' = {}
    /\ UNCHANGED <<buttons, wallets, dropped>>

-----------------------------------------------------------------------------

\* What a user does with a call.
Begin(c) ==
    \E u \in Users :
        \/ \E ch \in Chains :
              Connect(c, u, ch) \/ CreateSession(c, u, ch) \/ HandleApprove(c, u, ch)
        \/ \E token \in buttons : PressApprove(c, u, token)
        \/ Disconnect(c, u)

\* What the process does with it by itself.
Continue(c) ==
    \/ OpenPairing(c) \/ HandleApprovedSession(c) \/ SessionError(c)
    \/ EnsureSufficientAllowance(c) \/ CreateApproveSession(c)
    \/ ResolveApproveContext(c) \/ PrepareApproveOptions(c)
    \/ WalletShows(c) \/ RequestRefused(c) \/ FinishDisconnect(c)

Wallet(c) == WalletApproves(c) \/ WalletEnds(c)

Next ==
    \/ \E c \in Calls : Begin(c) \/ Continue(c) \/ Wallet(c) \/ Reject(c)
    \/ Expire
    \/ Crash

Spec == Init /\ [][Next]_vars

-----------------------------------------------------------------------------

CallRecords ==
    [kind : {"none", "connect", "swap", "offer", "approve", "drop"},
     pc : {"idle", "pairing", "waiting", "allowance", "prepared", "resolving", "options",
           "ask", "dropping", "done", "lost"},
     user : Users \cup {None}, chain : Chains \cup {None},
     topic : Calls \cup {None}, token : Calls \cup {None}]

\* Type correctness of the store, the calls and the wallets.
TypeOK ==
    /\ calls \in [Calls -> CallRecords]
    /\ connection \in [Users -> Calls \cup {None}]
    /\ actions \subseteq buttons
    /\ buttons \subseteq Calls
    /\ wallet \in [Calls -> {"none", "proposed", "live", "ended"}]
    /\ asked \subseteq Requests
    /\ dropped \subseteq Calls
    /\ faults \in 0 .. MaxFaults

\* A wallet is only asked by its own user, and for an approve exactly on the
\* chain shown with the button, whose token that user was given: connections are
\* reused across chains, tokens outlive the connection they were made over, and
\* anybody may press (allowance-action.service.ts:94, wallet-connect.service.ts:79).
AskedAsShown ==
    \A r \in asked :
        LET call == calls[r.call]
        IN  /\ calls[r.topic].user = call.user
            /\ call.token # None =>
                 /\ calls[call.token].user = call.user
                 /\ r.chain = calls[call.token].chain

\* A topic a disconnect removed never comes back, though the disconnect waits
\* for the relay while pairings of the same user end
\* (wallet-connect.connection.service.ts:36).
DroppedStaysOut == \A u \in Users : connection[u] \notin dropped

\* A pairing the user was told had failed is never used: the wallet may approve
\* it after the timer won the race, and the topic is then alive
\* (wallet-connect.evm.helpers.ts:51).
FailedPairingUnused ==
    \A c \in Calls :
        calls[c].pc = "done" /\ calls[c].topic = None =>
            /\ \A u \in Users : connection[u] # c
            /\ \A r \in asked : c \notin {r.call, r.topic}

-----------------------------------------------------------------------------
(* The inductive invariant: who may be meant by a name that is kept.        *)

\* A call whose pairing, if it will have one, has not been approved.
NotPaired == {"idle", "pairing", "waiting", "prepared", "resolving", "options"}

SessionKinds == {"connect", "swap", "approve"}

\* What a call is for is fixed when it begins, and its user and chain with it.
KindInv ==
    \A c \in Calls :
        /\ calls[c].pc = "idle" => calls[c].token = None
        /\ calls[c].pc # "idle" => calls[c].user \in Users
        /\ calls[c].kind \in SessionKinds \cup {"offer"} => calls[c].chain \in Chains
        /\ calls[c].pc \in {"pairing", "waiting", "prepared", "allowance", "ask"} =>
              calls[c].kind \in SessionKinds
        /\ calls[c].pc \in {"resolving", "options"} => calls[c].kind = "offer"

\* A topic is that of an approved pairing and of the user it is used for.
TopicInv ==
    \A c \in Calls :
        /\ calls[c].pc \in NotPaired => calls[c].topic = None
        /\ calls[c].pc \in {"allowance", "ask", "dropping"} => calls[c].topic # None
        /\ calls[c].topic # None =>
              /\ calls[calls[c].topic].topic = calls[c].topic
              /\ calls[calls[c].topic].user = calls[c].user

\* A button belongs to a call that has ended, so what it was shown for stays;
\* a press that got past the owner's check is the owner's.
TokenInv ==
    /\ \A b \in buttons : calls[b].pc = "done" /\ calls[b].chain \in Chains
    /\ \A c \in Calls : calls[c].token # None =>
          /\ calls[c].token \in buttons
          /\ calls[c].chain = calls[calls[c].token].chain
          /\ calls[c].pc # "done" \/ calls[c].topic # None =>
                calls[calls[c].token].user = calls[c].user

\* What is stored under a user's key is the topic of a pairing of that user.
ConnectionInv ==
    \A u \in Users : connection[u] # None =>
        calls[connection[u]].topic = connection[u] /\ calls[connection[u]].user = u

\* What was shown in a wallet or dropped at the relay is fixed.
HistoryInv ==
    /\ \A r \in asked :
          calls[r.call].pc = "done" /\ calls[r.call].topic = r.topic
              /\ calls[r.call].chain = r.chain
    /\ \A t \in dropped : calls[t].topic = t

IInv ==
    /\ TypeOK
    /\ KindInv
    /\ TopicInv
    /\ TokenInv
    /\ ConnectionInv
    /\ HistoryInv
    /\ DroppedStaysOut
=============================================================================
