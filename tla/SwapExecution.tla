--------------------------- MODULE SwapExecution ---------------------------
(***************************************************************************)
(* One swap from its execution row to its settled transaction.  Three      *)
(* kinds of activity share the rows of swap_executions, swap_intents and   *)
(* tracked_transactions, and the program interleaves them at every await:  *)
(*   creator  SwapService.executeSwapSession in the user's request;        *)
(*   runner   executeWalletConnectSwap in the background, started at once  *)
(*            over a connected wallet or by the session lifecycle after a  *)
(*            pairing is approved;                                         *)
(*   ticks    TransactionTrackerWorker.runTick, from setInterval.          *)
(* A database write is one step.  An await that rejects, and a process     *)
(* that dies (Node also ends it for an unhandled rejection) and restarts,  *)
(* are steps too; MaxFaults bounds them.                                   *)
(* A definition A_Mutation is a plausible mistake in A; no specification   *)
(* uses it, it only shows that a property can fail.                        *)
(***************************************************************************)
EXTENDS Naturals, FiniteSets

CONSTANTS Executions,   \* swap execution ids
          Intents,      \* swap intent ids
          IntentOf,     \* the intent_id of each execution
          Ticks,        \* firings of the worker's interval that may overlap
          BatchSize,    \* PENDING_BATCH_SIZE
          MaxFaults     \* bound on rejected awaits and crashes in a behaviour

ASSUME IntentOfAssumption == IntentOf \in [Executions -> Intents]
ASSUME BatchAssumption == BatchSize \in Nat \ {0}
ASSUME FaultsAssumption == MaxFaults \in Nat

VARIABLES
    creator,       \* where executeSwapSession is, per execution
    runner,        \* where executeWalletConnectSwap / lifecycle.handle is
    path,          \* how the runner was started
    status,        \* swap_executions.status ("none" before the insert)
    txHash,        \* swap_executions.tx_hash is set (a hash names its swap)
    txStatus,      \* swap_executions.transaction_status
    intentStatus,  \* swap_intents.status
    wallet,        \* what the wallet and the chain made of the request
    tracked,       \* tracked_transactions.status ("none" before the insert)
    submittedAt,   \* tracked_transactions.submitted_at, as a position; 0 = no row
    stamp,         \* the last position given
    aged,          \* tracked rows older than TX_TRACKING_TIMEOUT_SEC
    running,       \* TransactionTrackerWorker.running
    tickPc,        \* where each tick is
    tickBatch,     \* the rows it still has to process, the current one included
    notices,       \* tracker messages sent, per execution (2 = more than one)
    told,          \* the runner's last message to the user (handed to Telegram)
    faults         \* rejected awaits and crashes so far

rows == <<status, txHash, txStatus, intentStatus>>
tickVars == <<running, tickPc, tickBatch>>
trackerVars == <<tracked, submittedAt, stamp, aged, tickVars, notices>>
vars == <<creator, runner, path, rows, wallet, told, trackerVars, faults>>

Terminal == {"confirmed", "failed"}
OnChain == {"sent", "confirmed", "reverted"}
CreatorPc == {"idle", "session", "refuse1", "refuse2", "refused", "attach1",
              "attach2", "answered", "failed", "lost"}
TryPc == {"allowance", "request", "success1", "success2", "track1", "track2", "notify"}
CatchPc == {"error1", "error2", "errorNotify"}
LifecyclePc == {"lcError1", "lcError2", "lcNotify"}
RunnerPc == {"off", "approval", "awaitWallet", "done", "lost"}
                \cup TryPc \cup CatchPc \cup LifecyclePc
TickPc == {"idle", "list", "check", "confirm1", "confirm2", "fail1", "fail2", "notify"}

Init ==
    /\ creator = [e \in Executions |-> "idle"]
    /\ runner = [e \in Executions |-> "off"]
    /\ path = [e \in Executions |-> "none"]
    /\ status = [e \in Executions |-> "none"]
    /\ txHash = [e \in Executions |-> FALSE]
    /\ txStatus = [e \in Executions |-> "none"]
    /\ intentStatus = [i \in Intents |-> "selected"]
    /\ wallet = [e \in Executions |-> "none"]
    /\ tracked = [e \in Executions |-> "none"]
    /\ submittedAt = [e \in Executions |-> 0]
    /\ stamp = 0
    /\ aged = {}
    /\ running = FALSE
    /\ tickPc = [t \in Ticks |-> "idle"]
    /\ tickBatch = [t \in Ticks |-> {}]
    /\ notices = [e \in Executions |-> 0]
    /\ told = [e \in Executions |-> "nothing"]
    /\ faults = 0

NoFault == UNCHANGED faults
Fault == faults < MaxFaults /\ faults' = faults + 1

CreatorTo(e, pc) == creator' = [creator EXCEPT ![e] = pc]
RunnerTo(e, pc) == runner' = [runner EXCEPT ![e] = pc]
SetStatus(e, s) == status' = [status EXCEPT ![e] = s]
SetIntent(e, s) == intentStatus' = [intentStatus EXCEPT ![IntentOf[e]] = s]

-----------------------------------------------------------------------------
(* The creator: SwapService.executeSwapSession.                             *)

\* INSERT the execution row, status 'initiated'.
CreateExecution(e) ==
    /\ creator[e] = "idle"
    /\ CreatorTo(e, "session")
    /\ SetStatus(e, "initiated")
    /\ NoFault
    /\ UNCHANGED <<runner, path, txHash, intentStatus, wallet, told, txStatus, trackerVars>>

\* createSession over a reusable connection: the runner starts before the
\* response exists.
UseConnectedWallet(e) ==
    /\ creator[e] = "session"
    /\ CreatorTo(e, "attach1")
    /\ RunnerTo(e, "allowance")
    /\ path' = [path EXCEPT ![e] = "connected"]
    /\ NoFault
    /\ UNCHANGED <<rows, wallet, told, trackerVars>>

\* createSession with a new pairing: lifecycle.handle waits for the approval.
CreatePairing(e) ==
    /\ creator[e] = "session"
    /\ CreatorTo(e, "attach1")
    /\ RunnerTo(e, "approval")
    /\ path' = [path EXCEPT ![e] = "pairing"]
    /\ NoFault
    /\ UNCHANGED <<rows, wallet, told, trackerVars>>

RefuseSession_AfterStart(e) ==
    /\ creator[e] = "session"
    /\ CreatorTo(e, "refuse1")
    /\ RunnerTo(e, "allowance")
    /\ NoFault
    /\ UNCHANGED <<path, rows, wallet, told, trackerVars>>

\* createSession throws: the execution is marked as an error and the error rethrown.
RefuseSession(e) ==
    /\ creator[e] = "session"
    /\ CreatorTo(e, "refuse1")
    /\ NoFault
    /\ UNCHANGED <<runner, path, rows, wallet, told, trackerVars>>

RefuseExecution(e) ==
    /\ creator[e] = "refuse1"
    /\ CreatorTo(e, "refuse2")
    /\ SetStatus(e, "error")
    /\ NoFault
    /\ UNCHANGED <<runner, path, txHash, intentStatus, wallet, told, txStatus, trackerVars>>

RefuseIntent(e) ==
    /\ creator[e] = "refuse2"
    /\ CreatorTo(e, "refused")
    /\ SetIntent(e, "failed")
    /\ NoFault
    /\ UNCHANGED <<runner, path, status, txHash, wallet, told, txStatus, trackerVars>>

\* attachProviderReference: the execution row, whatever its status is by now.
AttachExecution(e) ==
    /\ creator[e] = "attach1"
    /\ CreatorTo(e, "attach2")
    /\ SetStatus(e, "session_created")
    /\ NoFault
    /\ UNCHANGED <<runner, path, txHash, intentStatus, wallet, told, txStatus, trackerVars>>

\* attachProviderReference: the intent row; then the response, with the URI if any.
AttachIntent(e) ==
    /\ creator[e] = "attach2"
    /\ CreatorTo(e, "answered")
    /\ SetIntent(e, "session_created")
    /\ NoFault
    /\ UNCHANGED <<runner, path, status, txHash, wallet, told, txStatus, trackerVars>>

\* A write of the creator rejects: the request ends with an error reply.
CreatorFails(e) ==
    /\ \/ /\ creator[e] \in {"attach1", "attach2"}
          /\ CreatorTo(e, "failed")
       \/ /\ creator[e] \in {"refuse1", "refuse2"}
          /\ CreatorTo(e, "refused")
    /\ Fault
    /\ UNCHANGED <<runner, path, rows, wallet, told, trackerVars>>

CreatorStep(e) ==
    \/ CreateExecution(e) \/ UseConnectedWallet(e) \/ CreatePairing(e)
    \/ RefuseSession(e) \/ RefuseExecution(e) \/ RefuseIntent(e)
    \/ AttachExecution(e) \/ AttachIntent(e)

-----------------------------------------------------------------------------
(* The runner: lifecycle.handle around executeWalletConnectSwap.            *)

\* The user can scan the URI only once the response has delivered it.
ApprovePairing(e) ==
    /\ runner[e] = "approval"
    /\ creator[e] = "answered"
    /\ RunnerTo(e, "allowance")
    /\ NoFault
    /\ UNCHANGED <<creator, path, rows, wallet, told, trackerVars>>

ApprovalFails_NoTimer(e) ==
    /\ runner[e] = "approval"
    /\ creator[e] = "answered"
    /\ RunnerTo(e, "allowance")
    /\ NoFault
    /\ UNCHANGED <<creator, path, rows, wallet, told, trackerVars>>

\* The approval is rejected, times out, or carries no usable address.
ApprovalFails(e) ==
    /\ runner[e] = "approval"
    /\ RunnerTo(e, "lcError1")
    /\ NoFault
    /\ UNCHANGED <<creator, path, rows, wallet, told, trackerVars>>

\* ensureSufficientAllowance returns, or throws and leads to the catch block.
CheckAllowance(e) ==
    /\ runner[e] = "allowance"
    /\ RunnerTo(e, "request") \/ RunnerTo(e, "error1")
    /\ NoFault
    /\ UNCHANGED <<creator, path, rows, wallet, told, trackerVars>>

\* The built transaction goes to the wallet ("again" if one already went).
RequestWalletExecution(e) ==
    /\ runner[e] = "request"
    /\ RunnerTo(e, "awaitWallet")
    /\ wallet' = [wallet EXCEPT ![e] = IF @ = "none" THEN "asked" ELSE "again"]
    /\ NoFault
    /\ UNCHANGED <<creator, path, status, txHash, intentStatus, told, txStatus, trackerVars>>

HashArrives_Unsent(e) ==
    /\ runner[e] = "awaitWallet"
    /\ RunnerTo(e, "success1")
    /\ NoFault
    /\ UNCHANGED <<creator, path, rows, wallet, told, trackerVars>>

HashArrives_TrackFirst(e) ==
    /\ runner[e] = "awaitWallet"
    /\ wallet[e] \in OnChain
    /\ RunnerTo(e, "track1")
    /\ NoFault
    /\ UNCHANGED <<creator, path, rows, wallet, told, trackerVars>>

HashArrives_IntentFirst(e) ==
    /\ runner[e] = "awaitWallet"
    /\ wallet[e] \in OnChain
    /\ RunnerTo(e, "success2")
    /\ NoFault
    /\ UNCHANGED <<creator, path, rows, wallet, told, trackerVars>>

\* The wallet's answer carries the hash of the transaction it sent.
HashArrives(e) ==
    /\ runner[e] = "awaitWallet"
    /\ wallet[e] \in OnChain
    /\ RunnerTo(e, "success1")
    /\ NoFault
    /\ UNCHANGED <<creator, path, rows, wallet, told, trackerVars>>

RequestFails_Retry(e) ==
    /\ runner[e] = "awaitWallet"
    /\ RunnerTo(e, "request")
    /\ NoFault
    /\ UNCHANGED <<creator, path, rows, wallet, told, trackerVars>>

\* The user declines, or the request expires (the wallet may still send later).
RequestFails(e) ==
    /\ runner[e] = "awaitWallet"
    /\ RunnerTo(e, "error1")
    /\ NoFault
    /\ UNCHANGED <<creator, path, rows, wallet, told, trackerVars>>

\* markSuccess: the execution row.
MarkSuccessExecution(e) ==
    /\ runner[e] = "success1"
    /\ RunnerTo(e, "success2")
    /\ SetStatus(e, "success")
    /\ txHash' = [txHash EXCEPT ![e] = TRUE]
    /\ NoFault
    /\ UNCHANGED <<creator, path, intentStatus, wallet, told, txStatus, trackerVars>>

\* markSuccess: the intent row.
MarkSuccessIntent(e) ==
    /\ runner[e] = "success2"
    /\ RunnerTo(e, "track1")
    /\ SetIntent(e, "completed")
    /\ NoFault
    /\ UNCHANGED <<creator, path, status, txHash, wallet, told, txStatus, trackerVars>>

\* track: INSERT the tracked row, visible to the worker from here on.
TrackInsert(e) ==
    /\ runner[e] = "track1"
    /\ RunnerTo(e, "track2")
    /\ tracked' = [tracked EXCEPT ![e] = "pending"]
    /\ stamp' = stamp + 1
    /\ submittedAt' = [submittedAt EXCEPT ![e] = stamp + 1]
    /\ NoFault
    /\ UNCHANGED <<creator, path, status, txHash, intentStatus, wallet, told, txStatus,
                   aged, tickVars, notices>>

TrackExecution_Submitted(e) ==
    /\ runner[e] = "track2"
    /\ RunnerTo(e, "notify")
    /\ txStatus' = [txStatus EXCEPT ![e] = "submitted"]
    /\ NoFault
    /\ UNCHANGED <<creator, path, status, txHash, intentStatus, wallet, told, trackerVars>>

\* track: the execution's transaction_status, whatever the worker wrote meanwhile.
TrackExecution(e) ==
    /\ runner[e] = "track2"
    /\ RunnerTo(e, "notify")
    /\ txStatus' = [txStatus EXCEPT ![e] = "pending"]
    /\ NoFault
    /\ UNCHANGED <<creator, path, status, txHash, intentStatus, wallet, told, trackerVars>>

\* Telegram's answer is awaited; an answer that is not ok is logged.
SendTelegramMessage(e, what) == told' = [told EXCEPT ![e] = what]

SendSuccessMessage(e) ==
    /\ runner[e] = "notify"
    /\ RunnerTo(e, "done")
    /\ SendTelegramMessage(e, "success")
    /\ NoFault
    /\ UNCHANGED <<creator, path, status, txHash, intentStatus, wallet, txStatus, trackerVars>>

\* Anything the try block awaits may reject, the steps after markSuccess included.
TryFails(e) ==
    /\ runner[e] \in TryPc
    /\ RunnerTo(e, "error1")
    /\ Fault
    /\ UNCHANGED <<creator, path, rows, wallet, told, trackerVars>>

\* markError, in the catch block or in handleWalletConnectSessionError.
MarkErrorExecution(e) ==
    /\ \/ runner[e] = "error1" /\ RunnerTo(e, "error2")
       \/ runner[e] = "lcError1" /\ RunnerTo(e, "lcError2")
    /\ SetStatus(e, "error")
    /\ NoFault
    /\ UNCHANGED <<creator, path, txHash, intentStatus, wallet, told, txStatus, trackerVars>>

MarkErrorIntent(e) ==
    /\ \/ runner[e] = "error2" /\ RunnerTo(e, "errorNotify")
       \/ runner[e] = "lcError2" /\ RunnerTo(e, "lcNotify")
    /\ SetIntent(e, "failed")
    /\ NoFault
    /\ UNCHANGED <<creator, path, status, txHash, wallet, told, txStatus, trackerVars>>

SendErrorMessage(e) ==
    /\ runner[e] \in {"errorNotify", "lcNotify"}
    /\ RunnerTo(e, "done")
    /\ SendTelegramMessage(e, "error")
    /\ NoFault
    /\ UNCHANGED <<creator, path, status, txHash, intentStatus, wallet, txStatus, trackerVars>>

\* The catch block itself rejects.  The lifecycle catches that and marks the
\* error again; over a connected wallet nobody does (Crash).
CatchFails(e) ==
    /\ runner[e] \in CatchPc
    /\ path[e] = "pairing"
    /\ RunnerTo(e, "lcError1")
    /\ Fault
    /\ UNCHANGED <<creator, path, rows, wallet, told, trackerVars>>

RunnerStep(e) ==
    \/ ApprovalFails(e) \/ CheckAllowance(e) \/ RequestWalletExecution(e)
    \/ HashArrives(e) \/ RequestFails(e)
    \/ MarkSuccessExecution(e) \/ MarkSuccessIntent(e)
    \/ TrackInsert(e) \/ TrackExecution(e) \/ SendSuccessMessage(e)
    \/ MarkErrorExecution(e) \/ MarkErrorIntent(e) \/ SendErrorMessage(e)

-----------------------------------------------------------------------------
(* The wallet and the chain (external).                                     *)

\* The wallet sends what it was asked for, perhaps long after the bot gave up.
WalletSends(e) ==
    /\ wallet[e] = "asked"
    /\ wallet' = [wallet EXCEPT ![e] = "sent"]
    /\ UNCHANGED <<creator, runner, path, rows, told, trackerVars, faults>>

ChainSettles(e) ==
    /\ wallet[e] = "sent"
    /\ \E r \in {"confirmed", "reverted"} : wallet' = [wallet EXCEPT ![e] = r]
    /\ UNCHANGED <<creator, runner, path, rows, told, trackerVars, faults>>

-----------------------------------------------------------------------------
(* The ticks: TransactionTrackerWorker.                                     *)

TickTo(t, pc) == tickPc' = [tickPc EXCEPT ![t] = pc]

\* The row the loop is at: the oldest left in the batch.
IsCurrent(t, e) ==
    /\ e \in tickBatch[t]
    /\ \A f \in tickBatch[t] : submittedAt[e] <= submittedAt[f]

NextRow(t, e) ==
    /\ tickBatch' = [tickBatch EXCEPT ![t] = @ \ {e}]
    /\ TickTo(t, "check")

\* A tracked row passes TX_TRACKING_TIMEOUT_SEC.
Age(e) ==
    /\ tracked[e] = "pending" /\ e \notin aged
    /\ aged' = aged \cup {e}
    /\ UNCHANGED <<creator, runner, path, rows, wallet, told, tracked, submittedAt, stamp,
                   tickVars, notices, faults>>

StartTick_Unguarded(t) ==
    /\ tickPc[t] = "idle"
    /\ running' = TRUE
    /\ TickTo(t, "list")
    /\ UNCHANGED <<creator, runner, path, rows, wallet, told, tracked, submittedAt, stamp, aged,
                   tickBatch, notices, faults>>

\* runTick returns at once while another tick is running.
StartTick(t) ==
    /\ tickPc[t] = "idle"
    /\ ~running
    /\ running' = TRUE
    /\ TickTo(t, "list")
    /\ UNCHANGED <<creator, runner, path, rows, wallet, told, tracked, submittedAt, stamp, aged,
                   tickBatch, notices, faults>>

Oldest(S) == {e \in S : Cardinality({f \in S : submittedAt[f] < submittedAt[e]}) < BatchSize}

\* listPending: the oldest rows that are still pending.
PendingRows == Oldest({e \in Executions : tracked[e] = "pending"})

ListPending(t) ==
    /\ tickPc[t] = "list"
    /\ tickBatch' = [tickBatch EXCEPT ![t] = PendingRows]
    /\ TickTo(t, "check")
    /\ UNCHANGED <<creator, runner, path, rows, wallet, told, tracked, submittedAt, stamp, aged,
                   running, notices, faults>>

\* The loop is over: the finally block lets the next tick in.
EndTick(t) ==
    /\ tickPc[t] = "check" /\ tickBatch[t] = {}
    /\ running' = FALSE
    /\ TickTo(t, "idle")
    /\ UNCHANGED <<creator, runner, path, rows, wallet, told, tracked, submittedAt, stamp, aged,
                   tickBatch, notices, faults>>

SeeReceipt_AnyStatus(t, e) ==
    /\ tickPc[t] = "check" /\ IsCurrent(t, e)
    /\ wallet[e] \in {"confirmed", "reverted"}
    /\ TickTo(t, "confirm1")
    /\ UNCHANGED <<creator, runner, path, rows, wallet, told, tracked, submittedAt, stamp, aged,
                   running, tickBatch, notices, faults>>

SeeReceipt_ExecutionFirst(t, e) ==
    /\ tickPc[t] = "check" /\ IsCurrent(t, e)
    /\ wallet[e] \in {"confirmed", "reverted"}
    /\ TickTo(t, IF wallet[e] = "confirmed" THEN "confirm2" ELSE "fail2")
    /\ UNCHANGED <<creator, runner, path, rows, wallet, told, tracked, submittedAt, stamp, aged,
                   running, tickBatch, notices, faults>>

\* checkStatus returns the receipt.
SeeReceipt(t, e) ==
    /\ tickPc[t] = "check" /\ IsCurrent(t, e)
    /\ wallet[e] \in {"confirmed", "reverted"}
    /\ TickTo(t, IF wallet[e] = "confirmed" THEN "confirm1" ELSE "fail1")
    /\ UNCHANGED <<creator, runner, path, rows, wallet, told, tracked, submittedAt, stamp, aged,
                   running, tickBatch, notices, faults>>

SeeNoReceipt_NoTimeout(t, e) ==
    /\ tickPc[t] = "check" /\ IsCurrent(t, e)
    /\ NextRow(t, e)
    /\ UNCHANGED <<creator, runner, path, rows, wallet, told, tracked, submittedAt, stamp, aged,
                   running, notices, faults>>

\* No receipt, for any reason (the chain's node may not have it yet): an aged
\* row fails as timed out, a younger one waits for a later tick.
SeeNoReceipt(t, e) ==
    /\ tickPc[t] = "check" /\ IsCurrent(t, e)
    /\ IF e \in aged
         THEN TickTo(t, "fail1") /\ UNCHANGED tickBatch
         ELSE NextRow(t, e)
    /\ UNCHANGED <<creator, runner, path, rows, wallet, told, tracked, submittedAt, stamp, aged,
                   running, notices, faults>>

\* markConfirmed / markFailed: the tracked row, found by chain and hash.
SettleTracked(t, e) ==
    /\ IsCurrent(t, e)
    /\ \/ /\ tickPc[t] = "confirm1" /\ TickTo(t, "confirm2")
          /\ tracked' = [tracked EXCEPT ![e] = "confirmed"]
       \/ /\ tickPc[t] = "fail1" /\ TickTo(t, "fail2")
          /\ tracked' = [tracked EXCEPT ![e] = "failed"]
    /\ UNCHANGED <<creator, runner, path, rows, wallet, told, submittedAt, stamp, aged,
                   running, tickBatch, notices, faults>>

\* updateTransactionStatus: the execution row.
SettleExecution(t, e) ==
    /\ IsCurrent(t, e)
    /\ \/ /\ tickPc[t] = "confirm2"
          /\ txStatus' = [txStatus EXCEPT ![e] = "confirmed"]
       \/ /\ tickPc[t] = "fail2"
          /\ txStatus' = [txStatus EXCEPT ![e] = "failed"]
    /\ TickTo(t, "notify")
    /\ UNCHANGED <<creator, runner, path, status, txHash, intentStatus, wallet, told, tracked,
                   submittedAt, stamp, aged, running, tickBatch, notices, faults>>

NotifyUser(t, e) ==
    /\ IsCurrent(t, e)
    /\ tickPc[t] = "notify"
    /\ notices' = [notices EXCEPT ![e] = IF @ = 0 THEN 1 ELSE 2]
    /\ NextRow(t, e)
    /\ UNCHANGED <<creator, runner, path, rows, wallet, told, tracked, submittedAt, stamp, aged,
                   running, faults>>

\* processTransaction logs what rejected and the loop goes on with the next row.
RowFails(t, e) ==
    /\ tickPc[t] \in TickPc \ {"idle", "list"}
    /\ IsCurrent(t, e)
    /\ Fault
    /\ NextRow(t, e)
    /\ UNCHANGED <<creator, runner, path, rows, wallet, told, tracked, submittedAt, stamp, aged,
                   running, notices>>

TickStep(t) ==
    \/ ListPending(t) \/ EndTick(t)
    \/ \E e \in Executions :
          \/ SeeReceipt(t, e) \/ SeeNoReceipt(t, e)
          \/ SettleTracked(t, e) \/ SettleExecution(t, e) \/ NotifyUser(t, e)

-----------------------------------------------------------------------------
\* The process dies at any point and is started again: its memory is gone.
Crash ==
    /\ Fault
    /\ creator' = [e \in Executions |->
         IF creator[e] \in {"idle", "refused", "answered", "failed"} THEN creator[e] ELSE "lost"]
    /\ runner' = [e \in Executions |->
         IF runner[e] \in {"off", "done"} THEN runner[e] ELSE "lost"]
    /\ running' = FALSE
    /\ tickPc' = [t \in Ticks |-> "idle"]
    /\ tickBatch' = [t \in Ticks |-> {}]
    /\ UNCHANGED <<path, rows, wallet, told, tracked, submittedAt, stamp, aged, notices>>

Next ==
    \/ \E e \in Executions :
          \/ CreatorStep(e) \/ CreatorFails(e)
          \/ ApprovePairing(e) \/ RunnerStep(e) \/ TryFails(e) \/ CatchFails(e)
          \/ WalletSends(e) \/ ChainSettles(e) \/ Age(e)
    \/ \E t \in Ticks :
          \/ StartTick(t) \/ TickStep(t)
          \/ \E e \in Executions : RowFails(t, e)
    \/ Crash

Spec == Init /\ [][Next]_vars

\* Fairness: the program's own continuations run.  The approval wait ends by
\* its timer and a wallet request by its own expiry; setInterval keeps firing;
\* time passes.  The user, the wallet and the chain owe nothing.
FairSpec ==
    /\ Spec
    /\ \A e \in Executions :
          WF_vars(RunnerStep(e)) /\ WF_vars(Age(e))
    /\ \A t \in Ticks : WF_vars(StartTick(t)) /\ WF_vars(TickStep(t))

-----------------------------------------------------------------------------
(* Properties.                                                              *)

TypeOK ==
    /\ creator \in [Executions -> CreatorPc]
    /\ runner \in [Executions -> RunnerPc]
    /\ path \in [Executions -> {"none", "connected", "pairing"}]
    /\ status \in [Executions -> {"none", "initiated", "session_created", "success", "error"}]
    /\ txHash \in [Executions -> BOOLEAN]
    /\ txStatus \in [Executions -> {"none", "pending"} \cup Terminal]
    /\ intentStatus \in [Intents -> {"selected", "session_created", "completed", "failed"}]
    /\ wallet \in [Executions -> {"none", "asked", "again"} \cup OnChain]
    /\ tracked \in [Executions -> {"none", "pending"} \cup Terminal]
    /\ submittedAt \in [Executions -> Nat]
    /\ stamp \in Nat
    /\ aged \subseteq Executions
    /\ running \in BOOLEAN
    /\ tickPc \in [Ticks -> TickPc]
    /\ tickBatch \in [Ticks -> SUBSET Executions]
    /\ notices \in [Executions -> 0..2]
    /\ told \in [Executions -> {"nothing", "success", "error"}]
    /\ faults \in 0..MaxFaults

\* One wallet request per execution, whatever fails, crashes or is retried:
\* requestWalletExecution never puts the same swap into the wallet twice.
OneWalletRequest == \A e \in Executions : wallet[e] # "again"

\* A hash in swap_executions, and so in /history, is that of a transaction the
\* wallet really sent for that execution.
RecordedHashWasSent == \A e \in Executions : txHash[e] => wallet[e] \in OnChain

\* The tracker polls only transactions whose hash the audit trail holds.
TrackedHashIsRecorded == \A e \in Executions : tracked[e] # "none" => txHash[e]

\* An intent is 'completed' only when some execution of it has its hash: the
\* two writes of markSuccess may be torn apart, but never that way round.
CompletedIntentHasHash ==
    \A i \in Intents : intentStatus[i] = "completed" =>
        \E e \in Executions : IntentOf[e] = i /\ txHash[e]

\* What transaction_status of an execution says, the tracked row says too; it
\* may lag behind but never contradicts it.
AuditFollowsTracker ==
    \A e \in Executions :
        /\ txStatus[e] \in Terminal => txStatus[e] = tracked[e]
        /\ txStatus[e] = "pending" => tracked[e] # "none"

\* The user is told that a transaction confirmed only if it did on its chain.
ConfirmedIsOnChain ==
    \A e \in Executions : tracked[e] = "confirmed" => wallet[e] = "confirmed"

\* At most one tracker message per transaction, and only after it settled,
\* although runTick is fired by a timer that does not wait for the last one.
NotifiedOnce ==
    \A e \in Executions :
        /\ notices[e] <= 1
        /\ notices[e] = 1 => tracked[e] \in Terminal

\* When createSession throws, the user is asked to start again: that execution
\* never reaches the wallet afterwards.
RefusedNeverAsked ==
    \A e \in Executions : creator[e] \in {"refuse1", "refuse2", "refused"} => wallet[e] = "none"

\* The tracker implements its abstract lifecycle, liveness included.
Lifecycle == INSTANCE TxLifecycle WITH
                Executions <- Executions, tracked <- tracked, notices <- notices
ImplementsLifecycle == Lifecycle!LifecycleSpec

\* A swap handed to the runner comes to an end even when the user, the wallet
\* and the chain never react (a crash aside).
RunnerEnds ==
    \A e \in Executions : runner[e] # "off" ~> runner[e] \in {"done", "lost"}

\* listRecent: what /history reads.
ListRecent == {e \in Executions : status[e] = "success"}

\* README: /history shows the user's successful swaps.  A swap whose handlers
\* have all finished and whose success the user was told is listed.
HistoryShowsSuccess ==
    \A e \in Executions :
        (creator[e] = "answered" /\ runner[e] = "done" /\ told[e] = "success")
            => e \in ListRecent

\* rdr-2 5.4: after confirmation or failure the execution audit is updated.
\* Checked where nothing is under way any more.
SettledAuditIsUpdated ==
    \A e \in Executions :
        (runner[e] = "done" /\ ~running /\ tracked[e] \in Terminal)
            => txStatus[e] = tracked[e]

-----------------------------------------------------------------------------
(* The inductive invariant: what holds between the awaits, actor by actor.  *)

BeforeRequest == {"off", "approval", "allowance", "request"}
HashKnown == {"success1", "success2", "track1", "track2", "notify"}

\* The runner starts only from createSession, and its place in the try block
\* fixes what the wallet and the three rows already hold.
RunnerInv ==
    \A e \in Executions :
        /\ creator[e] \in {"idle", "session", "refuse1", "refuse2", "refused"} => runner[e] = "off"
        /\ runner[e] \in BeforeRequest => wallet[e] = "none"
        /\ wallet[e] # "again"
        /\ runner[e] \in HashKnown => wallet[e] \in OnChain
        /\ runner[e] \in HashKnown \ {"success1"} => txHash[e]
        /\ txHash[e] => wallet[e] \in OnChain
        /\ runner[e] \in BeforeRequest \cup {"awaitWallet", "success1", "success2", "track1"}
              => tracked[e] = "none"
        /\ runner[e] \in {"track2", "notify"} => tracked[e] # "none"

\* Tracked rows have distinct positions, none beyond the last one given.
StampInv ==
    \A e \in Executions :
        /\ tracked[e] = "none" <=> submittedAt[e] = 0
        /\ submittedAt[e] <= stamp
        /\ \A f \in Executions :
              submittedAt[e] = submittedAt[f] /\ submittedAt[e] # 0 => e = f

\* The running flag admits one tick.
OneTick ==
    \A t, u \in Ticks :
        /\ tickPc[t] # "idle" => running
        /\ tickPc[t] # "idle" /\ tickPc[u] # "idle" => t = u

\* What a tick knows of the row it is at, nobody else having settled it.
AtRow(t, e) ==
    /\ tickPc[t] \in {"check", "confirm1", "fail1"} => tracked[e] = "pending"
    /\ tickPc[t] = "confirm1" => wallet[e] = "confirmed"
    /\ tickPc[t] = "confirm2" => tracked[e] = "confirmed"
    /\ tickPc[t] = "fail2" => tracked[e] = "failed"
    /\ tickPc[t] = "notify" => tracked[e] \in Terminal
    /\ notices[e] = 0

TickInv ==
    \A t \in Ticks :
        /\ tickPc[t] \in {"idle", "list"} => tickBatch[t] = {}
        /\ \A e \in tickBatch[t] :
              IF IsCurrent(t, e) THEN AtRow(t, e) ELSE tracked[e] = "pending"

IInv ==
    /\ TypeOK
    /\ RunnerInv
    /\ StampInv
    /\ OneTick
    /\ TickInv
    /\ TrackedHashIsRecorded
    /\ CompletedIntentHasHash
    /\ AuditFollowsTracker
    /\ ConfirmedIsOnChain
    /\ NotifiedOnce
=============================================================================
