---------------------------- MODULE PhantomSwap ----------------------------
(***************************************************************************)
(* A Solana swap through Phantom deep links.  The wallet answers with HTTP *)
(* callbacks that a browser may repeat and that run concurrently:          *)
(*   connect  handleConnectCallback: takes the wallet's key over into the  *)
(*            session, builds a transaction and answers with a sign link;  *)
(*   sign     handleSignCallback: broadcasts the signed transaction, tells *)
(*            the user, writes the rows and drops the session.             *)
(* What is encrypted between the two is read with a secret made of the     *)
(* session's own key pair, which does not change, and of the key the       *)
(* wallet brings: a connect callback that is repeated brings the key it    *)
(* brought before, and so the same secret.  A transaction is named by the  *)
(* connect callback that builds it, or by the execution when that swaps    *)
(* over a reused connection.  executeSwapSession delivers a session's link *)
(* only after its own writes, so opening a session is one step here        *)
(* (SwapExecution has those writes); each execution has an intent of its   *)
(* own.                                                                    *)
(* A definition A_Mutation is a plausible mistake in A; no specification   *)
(* uses it, it only shows that a property can fail.                        *)
(***************************************************************************)
EXTENDS Naturals

CONSTANTS Executions,   \* swap execution ids, each with its session
          Calls,        \* callback requests
          Keys,         \* phantom_encryption_public_key values a wallet brings
          None,
          MaxFaults     \* bound on rejected writes and messages, and restarts

ASSUME NamesAssumption == Calls \cap Executions = {} /\ None \notin Calls \cup Executions
ASSUME FaultsAssumption == MaxFaults \in Nat

VARIABLES
    status,        \* swap_executions.status, "none" before the session is answered
    txHash,        \* swap_executions.tx_hash
    txStatus,      \* swap_executions.transaction_status
    intentStatus,  \* swap_intents.status
    live,          \* executions whose session the store holds
    key,           \* the shared secret in each session object
    connection,    \* the shared secret of the user's reusable connection
    greeting,      \* the session of a /connect without a swap
    openedBy,      \* "link" or "connection": what the response carried
    links,         \* sign links given out, per execution
    calls,         \* the handler of each callback
    sent,          \* transactions the chain's node accepted
    told,          \* transactions the user was told were sent (handed to Telegram,
                   \* whose refusal is only logged)
    tracked,       \* tracked_transactions rows
    faults

rows == <<status, txHash, txStatus, intentStatus>>
sessions == <<live, key, connection, greeting, openedBy, links>>
outside == <<sent, told, tracked>>
vars == <<rows, sessions, calls, outside, faults>>

Transactions == Calls \cup Executions

\* The shared secret of a session, None for that of /connect, and a wallet.
Secrets == (Executions \cup {None}) \X Keys
Links == [key : Secrets, tx : Transactions]

Init ==
    /\ status = [e \in Executions |-> "none"]
    /\ txHash = [e \in Executions |-> None]
    /\ txStatus = [e \in Executions |-> "none"]
    /\ intentStatus = [e \in Executions |-> "selected"]
    /\ live = {}
    /\ key = [e \in Executions |-> None]
    /\ connection = None
    /\ greeting = "none"
    /\ openedBy = [e \in Executions |-> "none"]
    /\ links = [e \in Executions |-> {}]
    /\ calls = [c \in Calls |-> [pc |-> "idle"]]
    /\ sent = {}
    /\ told = {}
    /\ tracked = {}
    /\ faults = 0

Fault == faults < MaxFaults /\ faults' = faults + 1
NoFault == UNCHANGED faults
Goto(c, pc) == calls' = [calls EXCEPT ![c].pc = pc]
SetStatus(e, s) == status' = [status EXCEPT ![e] = s]
SetIntent(e, s) == intentStatus' = [intentStatus EXCEPT ![e] = s]

-----------------------------------------------------------------------------
(* Sessions.                                                                *)

\* createSwapSession: no reusable connection, the user gets a connect link.
CreateSwapSession(e) ==
    /\ status[e] = "none"
    /\ connection = None
    /\ SetStatus(e, "session_created")
    /\ SetIntent(e, "session_created")
    /\ live' = live \cup {e}
    /\ openedBy' = [openedBy EXCEPT ![e] = "link"]
    /\ UNCHANGED <<txHash, txStatus, key, connection, greeting, links, calls, outside, faults>>

\* createSwapSessionFromConnection: the session is saved, then the transaction
\* is built; when that fails, the request marks the execution as an error.
CreateSwapSessionFromConnection(e) ==
    /\ status[e] = "none"
    /\ connection # None
    /\ live' = live \cup {e}
    /\ key' = [key EXCEPT ![e] = connection]
    /\ openedBy' = [openedBy EXCEPT ![e] = "connection"]
    /\ \/ /\ SetStatus(e, "session_created")
          /\ SetIntent(e, "session_created")
          /\ links' = [links EXCEPT ![e] = {[key |-> connection, tx |-> e]}]
       \/ /\ SetStatus(e, "error")
          /\ SetIntent(e, "failed")
          /\ UNCHANGED links
    /\ UNCHANGED <<txHash, txStatus, connection, greeting, calls, outside, faults>>

\* The store drops a session at the end of its time to live.
ExpireSession(e) ==
    /\ e \in live
    /\ live' = live \ {e}
    /\ UNCHANGED <<rows, key, connection, greeting, openedBy, links, calls, outside, faults>>

\* disconnect for the solana family, or the end of the connection's time to live.
Disconnect ==
    /\ connection # None
    /\ connection' = None
    /\ UNCHANGED <<rows, live, key, greeting, openedBy, links, calls, outside, faults>>

-----------------------------------------------------------------------------
(* The connect callback.                                                    *)

\* Up to the first await: the secret shared with the wallet goes into the session
\* and becomes the reusable connection.  A rejection or an unreadable payload is
\* an error.
HandleConnect(c, e, k) ==
    /\ calls[c].pc = "idle"
    /\ openedBy[e] = "link"
    /\ \/ /\ e \notin live
          /\ calls' = [calls EXCEPT ![c] = [pc |-> "refused"]]
          /\ UNCHANGED <<key, connection>>
       \/ /\ e \in live
          /\ calls' = [calls EXCEPT ![c] = [pc |-> "connectError1", exec |-> e]]
          /\ UNCHANGED <<key, connection>>
       \/ /\ e \in live
          /\ calls' = [calls EXCEPT ![c] = [pc |-> "build", exec |-> e, key |-> <<e, k>>]]
          /\ key' = [key EXCEPT ![e] = <<e, k>>]
          /\ connection' = <<e, k>>
    /\ UNCHANGED <<rows, live, greeting, openedBy, links, outside, faults>>

\* The transaction is built: the state captured before the await is put back and
\* the session saved, whatever became of both meanwhile.  again is a history
\* variable: whether the store had dropped the session.
BuildSignLink(c) ==
    /\ calls[c].pc = "build"
    /\ LET e == calls[c].exec
       IN  /\ live' = live \cup {e}
           /\ key' = [key EXCEPT ![e] = calls[c].key]
           /\ links' = [links EXCEPT ![e] = @ \cup {[key |-> calls[c].key, tx |-> c]}]
           /\ calls' = [calls EXCEPT ![c] = [pc |-> "linked", exec |-> e, again |-> e \notin live]]
    /\ UNCHANGED <<rows, connection, greeting, openedBy, outside, faults>>

BuildFails(c) ==
    /\ calls[c].pc = "build"
    /\ calls' = [calls EXCEPT ![c] = [pc |-> "connectError1", exec |-> calls[c].exec]]
    /\ UNCHANGED <<rows, sessions, outside, faults>>

-----------------------------------------------------------------------------
(* /connect without a swap: one such session, opened once.                  *)

CreateConnectionSession ==
    /\ greeting = "none"
    /\ greeting' = "open"
    /\ UNCHANGED <<rows, live, key, connection, openedBy, links, calls, outside, faults>>

ExpireGreeting ==
    /\ greeting = "open"
    /\ greeting' = "gone"
    /\ UNCHANGED <<rows, live, key, connection, openedBy, links, calls, outside, faults>>

\* Up to the first await.  The user's one reusable connection is replaced, that
\* of a swap under way included; a callback without a session is refused, and
\* so is one the wallet rejects.
SaveReusableConnection(c, k) ==
    /\ calls[c].pc = "idle"
    /\ greeting # "none"
    /\ \/ calls' = [calls EXCEPT ![c] = [pc |-> "refused"]] /\ UNCHANGED connection
       \/ /\ greeting = "open"
          /\ calls' = [calls EXCEPT ![c] = [pc |-> "greet"]]
          /\ connection' = <<None, k>>
    /\ UNCHANGED <<rows, live, key, greeting, openedBy, links, outside, faults>>

\* The session goes when its user has been told.
SendConnectedMessage(c) ==
    /\ calls[c].pc = "greet"
    /\ greeting' = "gone"
    /\ Goto(c, "greeted")
    /\ UNCHANGED <<rows, live, key, connection, openedBy, links, outside, faults>>

-----------------------------------------------------------------------------
(* The sign callback.                                                       *)

\* Up to the first await.  The callback decrypts only with the session's
\* secret.  late is a history variable: whether a callback of that link has ended.
HandleSign(c, e, link) ==
    /\ calls[c].pc = "idle"
    /\ link \in links[e]
    /\ LET finished == \E d \in Calls :
               /\ calls[d].pc \in {"sentPage", "notSentPage"}
               /\ calls[d].exec = e /\ calls[d].link = link
           call(pc) == [pc |-> pc, exec |-> e, link |-> link, late |-> finished]
       IN  \/ /\ e \notin live
              /\ calls' = [calls EXCEPT ![c] = [pc |-> "refused"]]
           \/ /\ e \in live                                    \* declined
              /\ calls' = [calls EXCEPT ![c] = call("error1")]
           \/ /\ e \in live
              /\ calls' = [calls EXCEPT ![c] =
                             call(IF key[e] = link.key THEN "broadcast" ELSE "error1")]
    /\ UNCHANGED <<rows, sessions, outside, faults>>

Broadcast_Unchecked(c) ==
    /\ calls[c].pc = "broadcast"
    /\ sent' = sent \cup {calls[c].link.tx} \/ UNCHANGED sent
    /\ Goto(c, "confirm")
    /\ UNCHANGED <<rows, sessions, told, tracked, faults>>

\* sendRawTransaction, which may also reject.
Broadcast(c) ==
    /\ calls[c].pc = "broadcast"
    /\ \/ sent' = sent \cup {calls[c].link.tx} /\ Goto(c, "confirm")
       \/ UNCHANGED sent /\ Goto(c, "error1")
    /\ UNCHANGED <<rows, sessions, told, tracked, faults>>

Confirm_BeforeTold(c) ==
    /\ calls[c].pc = "confirm"
    /\ Goto(c, "success1")
    /\ UNCHANGED <<rows, sessions, outside, faults>>

\* confirmTransaction, which rejects when the block height is exceeded or the
\* node does not answer.
Confirm(c) ==
    /\ calls[c].pc = "confirm"
    /\ Goto(c, "tell") \/ Goto(c, "error1")
    /\ UNCHANGED <<rows, sessions, outside, faults>>

\* Telegram's answer is awaited; an answer that is not ok is logged.
SendTelegramMessage(tx) == told' = told \cup {tx}

SendSwapSuccessMessage(c) ==
    /\ calls[c].pc = "tell"
    /\ SendTelegramMessage(calls[c].link.tx)
    /\ Goto(c, "success1")
    /\ UNCHANGED <<rows, sessions, sent, tracked, faults>>

MarkSuccessExecution(c) ==
    /\ calls[c].pc = "success1"
    /\ SetStatus(calls[c].exec, "success")
    /\ txHash' = [txHash EXCEPT ![calls[c].exec] = calls[c].link.tx]
    /\ Goto(c, "success2")
    /\ UNCHANGED <<txStatus, intentStatus, sessions, outside, faults>>

MarkSuccessIntent_NotTracked(c) ==
    /\ calls[c].pc = "success2"
    /\ SetIntent(calls[c].exec, "completed")
    /\ Goto(c, "return")
    /\ UNCHANGED <<status, txHash, txStatus, sessions, outside, faults>>

MarkSuccessIntent(c) ==
    /\ calls[c].pc = "success2"
    /\ SetIntent(calls[c].exec, "completed")
    /\ Goto(c, "track1")
    /\ UNCHANGED <<status, txHash, txStatus, sessions, outside, faults>>

\* The primary key (chain, hash) refuses a second row of one transaction.
TrackInsert(c) ==
    /\ calls[c].pc = "track1"
    /\ \/ /\ calls[c].link.tx \notin tracked
          /\ tracked' = tracked \cup {calls[c].link.tx}
          /\ Goto(c, "track2")
       \/ /\ calls[c].link.tx \in tracked
          /\ UNCHANGED tracked
          /\ Goto(c, "error1")
    /\ UNCHANGED <<rows, sessions, sent, told, faults>>

TrackExecution_Submitted(c) ==
    /\ calls[c].pc = "track2"
    /\ txStatus' = [txStatus EXCEPT ![calls[c].exec] = "submitted"]
    /\ Goto(c, "return")
    /\ UNCHANGED <<status, txHash, intentStatus, sessions, outside, faults>>

TrackExecution(c) ==
    /\ calls[c].pc = "track2"
    /\ txStatus' = [txStatus EXCEPT ![calls[c].exec] = "pending"]
    /\ Goto(c, "return")
    /\ UNCHANGED <<status, txHash, intentStatus, sessions, outside, faults>>

-----------------------------------------------------------------------------
(* The catch blocks of both callbacks, and the end of a sign callback.      *)

MarkErrorExecution(c) ==
    /\ \/ calls[c].pc = "error1" /\ Goto(c, "error2")
       \/ calls[c].pc = "connectError1" /\ Goto(c, "connectError2")
    /\ SetStatus(calls[c].exec, "error")
    /\ UNCHANGED <<txHash, txStatus, intentStatus, sessions, outside, faults>>

\* The message that follows changes no row.
MarkErrorIntent(c) ==
    /\ \/ calls[c].pc = "error2" /\ Goto(c, "throw")
       \/ calls[c].pc = "connectError2" /\ Goto(c, "refused")
    /\ SetIntent(calls[c].exec, "failed")
    /\ UNCHANGED <<status, txHash, txStatus, sessions, outside, faults>>

\* A write or a message of the try block rejects; a write of a catch block does.
\* The connection a rejected greeting told nobody of stays.
CallFails(c) ==
    /\ \/ calls[c].pc \in {"tell", "success1", "success2", "track1", "track2"} /\ Goto(c, "error1")
       \/ calls[c].pc \in {"error1", "error2"} /\ Goto(c, "throw")
       \/ calls[c].pc \in {"connectError1", "connectError2", "greet"} /\ Goto(c, "refused")
    /\ Fault
    /\ UNCHANGED <<rows, sessions, outside>>

Finish_KeepingSession(c) ==
    /\ \/ calls[c].pc = "return" /\ Goto(c, "sentPage")
       \/ calls[c].pc = "throw" /\ Goto(c, "notSentPage")
    /\ UNCHANGED <<rows, sessions, outside, faults>>

\* The finally block drops the session; the controller renders the page.
Finish(c) ==
    /\ \/ calls[c].pc = "return" /\ Goto(c, "sentPage")
       \/ calls[c].pc = "throw" /\ Goto(c, "notSentPage")
    /\ live' = live \ {calls[c].exec}
    /\ UNCHANGED <<rows, key, connection, greeting, openedBy, links, outside, faults>>

-----------------------------------------------------------------------------
CallEnded == {"idle", "linked", "greeted", "refused", "sentPage", "notSentPage", "lost"}

\* The process dies and is restarted: sessions, connections and handlers are gone.
Crash ==
    /\ Fault
    /\ live' = {}
    /\ connection' = None
    /\ greeting' = (IF greeting = "open" THEN "gone" ELSE greeting)
    /\ calls' = [c \in Calls |->
                   IF calls[c].pc \in CallEnded THEN calls[c] ELSE [pc |-> "lost"]]
    /\ UNCHANGED <<rows, key, openedBy, links, outside>>

CallStep(c) ==
    \/ BuildSignLink(c) \/ BuildFails(c)
    \/ \E k \in Keys : SaveReusableConnection(c, k)
    \/ SendConnectedMessage(c)
    \/ Broadcast(c) \/ Confirm(c) \/ SendSwapSuccessMessage(c)
    \/ MarkSuccessExecution(c) \/ MarkSuccessIntent(c)
    \/ TrackInsert(c) \/ TrackExecution(c)
    \/ MarkErrorExecution(c) \/ MarkErrorIntent(c) \/ Finish(c)

Next ==
    \/ \E e \in Executions :
          \/ CreateSwapSession(e) \/ CreateSwapSessionFromConnection(e) \/ ExpireSession(e)
          \/ \E c \in Calls :
                \/ \E k \in Keys : HandleConnect(c, e, k)
                \/ \E link \in links[e] : HandleSign(c, e, link)
    \/ CreateConnectionSession \/ ExpireGreeting \/ Disconnect
    \/ \E c \in Calls : CallStep(c) \/ CallFails(c)
    \/ Crash

Spec == Init /\ [][Next]_vars

-----------------------------------------------------------------------------
(* Properties.                                                              *)

\* A callback, by what it is busy with.
BuildRecords == [pc : {"build"}, exec : Executions, key : Secrets]
LinkedRecords == [pc : {"linked"}, exec : Executions, again : BOOLEAN]
ConnectRecords == [pc : {"connectError1", "connectError2", "refused"}, exec : Executions]
SignRecords ==
    [pc : {"broadcast", "confirm", "tell", "success1", "success2", "track1", "track2",
           "error1", "error2", "return", "throw", "sentPage", "notSentPage"},
     exec : Executions, link : Links, late : BOOLEAN]
CallRecords ==
    [pc : {"idle", "refused", "lost", "greet", "greeted"}]
        \cup BuildRecords \cup LinkedRecords \cup ConnectRecords \cup SignRecords

TypeOK ==
    /\ status \in [Executions -> {"none", "session_created", "success", "error"}]
    /\ txHash \in [Executions -> Transactions \cup {None}]
    /\ txStatus \in [Executions -> {"none", "pending"}]
    /\ intentStatus \in [Executions -> {"selected", "session_created", "completed", "failed"}]
    /\ live \subseteq Executions
    /\ key \in [Executions -> Secrets \cup {None}]
    /\ connection \in Secrets \cup {None}
    /\ greeting \in {"none", "open", "gone"}
    /\ openedBy \in [Executions -> {"none", "link", "connection"}]
    /\ links \in [Executions -> SUBSET Links]
    /\ calls \in [Calls -> CallRecords]
    /\ sent \subseteq Transactions /\ told \subseteq Transactions /\ tracked \subseteq Transactions
    /\ faults \in 0..MaxFaults

\* A hash in the audit trail is that of a transaction the node accepted, and one
\* built for that execution, however its callbacks overlap.
RecordedHashWasSent ==
    \A e \in Executions :
        txHash[e] # None => txHash[e] \in sent /\ \E link \in links[e] : link.tx = txHash[e]

\* A connect callback that was still building when the store dropped the session
\* has saved it again.
SavedAgain(e) == \E d \in Calls : calls[d].pc = "linked" /\ calls[d].exec = e /\ calls[d].again

\* A sign link is spent when its first callback has ended: a callback repeated
\* after that broadcasts nothing, whatever secrets, sessions and connections were
\* taken over since, unless a connect callback has saved that very session again.
ReplayOnlyIfSavedAgain ==
    \A c \in Calls : calls[c].pc = "broadcast" /\ calls[c].late => SavedAgain(calls[c].exec)

\* The tracker may announce what is tracked: the user was told before that it
\* was sent.
TrackedWasTold == tracked \subseteq told

\* Who reads "transaction sent" has a row the tracker polls, whichever callbacks
\* overlap and whatever fails.
SentPageIsTracked ==
    \A c \in Calls : calls[c].pc = "sentPage" => calls[c].link.tx \in tracked

\* "Swap was not sent" is what the page of a failed sign callback says.
NotSentPageIsTrue ==
    \A c \in Calls : calls[c].pc = "notSentPage" => calls[c].link.tx \notin sent

-----------------------------------------------------------------------------
(* The inductive invariant: what a callback has done for its link, and     *)
(* which sessions can still serve one.                                     *)

Signing(call) ==
    call.pc \in {"broadcast", "confirm", "tell", "success1", "success2", "track1", "track2",
                 "error1", "error2", "return", "throw", "sentPage", "notSentPage"}

\* A sign callback has a link of its execution, and its place in the handler
\* says what became of the transaction.
CallInv ==
    \A c \in Calls : Signing(calls[c]) =>
        LET call == calls[c]
        IN  /\ call.link \in links[call.exec]
            /\ call.pc \in {"confirm", "tell", "success1", "success2", "track1", "track2",
                            "return", "sentPage"} => call.link.tx \in sent
            /\ call.pc \in {"success1", "success2", "track1", "track2", "return", "sentPage"}
                  => call.link.tx \in told
            /\ call.pc \in {"track2", "return", "sentPage"} => call.link.tx \in tracked

\* An execution gets its links only once it has a session, which its sign callback
\* and a connect callback that builds presuppose.
LinkInv ==
    /\ \A e \in Executions : status[e] = "none" => links[e] = {} /\ openedBy[e] = "none"
    /\ \A c \in Calls : calls[c].pc = "build" => openedBy[calls[c].exec] = "link"

\* A session whose sign callback has ended is in the store only if a connect
\* callback has put it there again.
SpentInv ==
    \A c \in Calls : calls[c].pc \in {"sentPage", "notSentPage"} /\ calls[c].exec \in live
        => SavedAgain(calls[c].exec)

IInv ==
    /\ TypeOK
    /\ CallInv /\ LinkInv /\ SpentInv
    /\ RecordedHashWasSent /\ TrackedWasTold /\ ReplayOnlyIfSavedAgain
=============================================================================
