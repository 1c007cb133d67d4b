------------------------ MODULE SwapExecutionProofs ------------------------
(***************************************************************************)
(* Machine-checked proofs about SwapExecution, for every set of executions, *)
(* intents and ticks, every batch size and every bound on faults.          *)
(***************************************************************************)
EXTENDS SwapExecution, TLAPS

USE DEF Terminal, OnChain, TryPc, CatchPc, LifecyclePc, SendTelegramMessage

\* Every variable keeps the type its column or field has in the code.
LEMMA TypeInit == Init => TypeOK
<1> SUFFICES ASSUME Init PROVE TypeOK
  OBVIOUS
<1> USE DEF Init
<1>1. creator \in [Executions -> CreatorPc] BY DEF CreatorPc
<1>2. runner \in [Executions -> RunnerPc] BY DEF RunnerPc
<1>3. tickPc \in [Ticks -> TickPc] BY DEF TickPc
<1>4. faults \in 0..MaxFaults BY FaultsAssumption DEF FaultsAssumption
<1>5. tickBatch \in [Ticks -> SUBSET Executions] OBVIOUS
<1>6. path \in [Executions -> {"none", "connected", "pairing"}] OBVIOUS
<1>7. status \in [Executions -> {"none", "initiated", "session_created", "success", "error"}] OBVIOUS
<1>8. intentStatus \in [Intents -> {"selected", "session_created", "completed", "failed"}] OBVIOUS
<1>9. told \in [Executions -> {"nothing", "success", "error"}] OBVIOUS
<1>10. notices \in [Executions -> 0..2] OBVIOUS
<1> QED BY <1>1, <1>2, <1>3, <1>4, <1>5, <1>6, <1>7, <1>8, <1>9, <1>10 DEF TypeOK

\* The request handler's steps keep the types.
LEMMA CreatorType ==
    ASSUME TypeOK, NEW e \in Executions, CreatorStep(e) \/ CreatorFails(e)
    PROVE  TypeOK'
<1> USE IntentOfAssumption, FaultsAssumption
    DEF TypeOK, trackerVars, tickVars, rows, CreatorTo, RunnerTo, SetStatus, SetIntent,
        NoFault, Fault, CreatorPc, RunnerPc
<1>1. CASE CreateExecution(e) BY <1>1 DEF CreateExecution
<1>2. CASE UseConnectedWallet(e) BY <1>2 DEF UseConnectedWallet
<1>3. CASE CreatePairing(e) BY <1>3 DEF CreatePairing
<1>4. CASE RefuseSession(e) BY <1>4 DEF RefuseSession
<1>5. CASE RefuseExecution(e) BY <1>5 DEF RefuseExecution
<1>6. CASE RefuseIntent(e) BY <1>6 DEF RefuseIntent
<1>7. CASE AttachExecution(e) BY <1>7 DEF AttachExecution
<1>8. CASE AttachIntent(e) BY <1>8 DEF AttachIntent
<1>9. CASE CreatorFails(e) BY <1>9 DEF CreatorFails
<1> QED BY <1>1, <1>2, <1>3, <1>4, <1>5, <1>6, <1>7, <1>8, <1>9 DEF CreatorStep

\* The runner's steps keep the types.
LEMMA RunnerType ==
    ASSUME TypeOK, NEW e \in Executions,
           ApprovePairing(e) \/ RunnerStep(e) \/ TryFails(e) \/ CatchFails(e)
    PROVE  TypeOK'
<1> USE IntentOfAssumption, FaultsAssumption
    DEF TypeOK, trackerVars, tickVars, rows, RunnerTo, SetStatus, SetIntent,
        NoFault, Fault, RunnerPc
<1>1. CASE ApprovePairing(e) BY <1>1 DEF ApprovePairing
<1>2. CASE ApprovalFails(e) BY <1>2 DEF ApprovalFails
<1>3. CASE CheckAllowance(e) BY <1>3 DEF CheckAllowance
<1>4. CASE RequestWalletExecution(e) BY <1>4 DEF RequestWalletExecution
<1>5. CASE HashArrives(e) BY <1>5 DEF HashArrives
<1>6. CASE RequestFails(e) BY <1>6 DEF RequestFails
<1>7. CASE MarkSuccessExecution(e) BY <1>7 DEF MarkSuccessExecution
<1>8. CASE MarkSuccessIntent(e) BY <1>8 DEF MarkSuccessIntent
<1>9. CASE TrackInsert(e) BY <1>9 DEF TrackInsert
<1>10. CASE TrackExecution(e) BY <1>10 DEF TrackExecution
<1>11. CASE SendSuccessMessage(e) BY <1>11 DEF SendSuccessMessage
<1>12. CASE TryFails(e) BY <1>12 DEF TryFails
<1>13. CASE MarkErrorExecution(e) BY <1>13 DEF MarkErrorExecution
<1>14. CASE MarkErrorIntent(e) BY <1>14 DEF MarkErrorIntent
<1>15. CASE SendErrorMessage(e) BY <1>15 DEF SendErrorMessage
<1>16. CASE CatchFails(e) BY <1>16 DEF CatchFails
<1> QED BY <1>1, <1>2, <1>3, <1>4, <1>5, <1>6, <1>7, <1>8, <1>9, <1>10, <1>11, <1>12, <1>13, <1>14, <1>15, <1>16 DEF RunnerStep

\* So do the wallet, the chain and the passing of time.
LEMMA OutsideType ==
    ASSUME TypeOK, NEW e \in Executions, WalletSends(e) \/ ChainSettles(e) \/ Age(e)
    PROVE  TypeOK'
<1> USE DEF TypeOK, trackerVars, tickVars, rows
<1>1. CASE WalletSends(e) BY <1>1 DEF WalletSends
<1>2. CASE ChainSettles(e) BY <1>2 DEF ChainSettles
<1>3. CASE Age(e) BY <1>3 DEF Age
<1> QED BY <1>1, <1>2, <1>3

\* Starting, filling and ending a tick keeps the types.
LEMMA TickLoopType ==
    ASSUME TypeOK, NEW t \in Ticks, StartTick(t) \/ ListPending(t) \/ EndTick(t)
    PROVE  TypeOK'
<1> USE DEF TypeOK, rows, tickVars, TickPc, TickTo
<1>1. CASE StartTick(t) BY <1>1 DEF StartTick
<1>2. CASE ListPending(t) BY <1>2 DEF ListPending, PendingRows, Oldest
<1>3. CASE EndTick(t) BY <1>3 DEF EndTick
<1> QED BY <1>1, <1>2, <1>3

\* So does each step on one row of a batch.
LEMMA TickRowType ==
    ASSUME TypeOK, NEW t \in Ticks, NEW e \in Executions,
           \/ SeeReceipt(t, e) \/ SeeNoReceipt(t, e) \/ SettleTracked(t, e)
           \/ SettleExecution(t, e) \/ NotifyUser(t, e) \/ RowFails(t, e)
    PROVE  TypeOK'
<1> USE FaultsAssumption DEF TypeOK, rows, tickVars, TickPc, TickTo, NextRow, Fault
<1>4. CASE SeeReceipt(t, e) BY <1>4 DEF SeeReceipt
<1>5. CASE SeeNoReceipt(t, e) BY <1>5 DEF SeeNoReceipt
<1>6. CASE SettleTracked(t, e) BY <1>6 DEF SettleTracked
<1>7. CASE SettleExecution(t, e) BY <1>7 DEF SettleExecution
<1>8. CASE NotifyUser(t, e) BY <1>8 DEF NotifyUser
<1>9. CASE RowFails(t, e) BY <1>9 DEF RowFails
<1> QED BY <1>4, <1>5, <1>6, <1>7, <1>8, <1>9

\* So does a restart.
LEMMA CrashType == TypeOK /\ Crash => TypeOK'
<1> SUFFICES ASSUME TypeOK, Crash PROVE TypeOK'
  OBVIOUS
<1> USE DEF TypeOK, Crash, rows
<1>1. (creator \in [Executions -> CreatorPc])' BY DEF CreatorPc
<1>2. (runner \in [Executions -> RunnerPc])' BY DEF RunnerPc
<1>3. (tickPc \in [Ticks -> TickPc])' BY DEF TickPc
<1>4. (tickBatch \in [Ticks -> SUBSET Executions])' OBVIOUS
<1>5. (faults \in 0..MaxFaults)' BY FaultsAssumption DEF FaultsAssumption, Fault
<1> QED BY <1>1, <1>2, <1>3, <1>4, <1>5

\* The steps of Next, one actor at a time.
LEMMA TypeStep == TypeOK /\ [Next]_vars => TypeOK'
<1> SUFFICES ASSUME TypeOK, [Next]_vars PROVE TypeOK'
  OBVIOUS
<1>1. CASE UNCHANGED vars
  BY <1>1 DEF TypeOK, vars, rows, trackerVars, tickVars
<1>2. ASSUME NEW e \in Executions,
             \/ CreatorStep(e) \/ CreatorFails(e) \/ ApprovePairing(e) \/ RunnerStep(e)
             \/ TryFails(e) \/ CatchFails(e) \/ WalletSends(e) \/ ChainSettles(e) \/ Age(e)
      PROVE  TypeOK'
  BY <1>2, CreatorType, RunnerType, OutsideType
<1>3. ASSUME NEW t \in Ticks,
             \/ StartTick(t) \/ TickStep(t) \/ \E e \in Executions : RowFails(t, e)
      PROVE  TypeOK'
  <2>1. CASE StartTick(t) \/ ListPending(t) \/ EndTick(t)
    BY <2>1, TickLoopType
  <2>2. ASSUME NEW e \in Executions,
               \/ SeeReceipt(t, e) \/ SeeNoReceipt(t, e) \/ SettleTracked(t, e)
               \/ SettleExecution(t, e) \/ NotifyUser(t, e) \/ RowFails(t, e)
        PROVE  TypeOK'
    BY <2>2, TickRowType
  <2> QED BY <1>3, <2>1, <2>2 DEF TickStep
<1> QED BY <1>1, <1>2, <1>3, CrashType DEF Next

\* Type correctness of every reachable state.
THEOREM SpecTypeOK == Spec => []TypeOK
BY TypeInit, TypeStep, PTL DEF Spec

-----------------------------------------------------------------------------

\* The request handler starts a runner only where none has been.
LEMMA CreatorKeepsRunner ==
    ASSUME IInv, NEW e \in Executions,
           CreatorStep(e) \/ CreatorFails(e)
    PROVE  RunnerInv'
<1> USE IntentOfAssumption DEF IInv, TypeOK, rows, trackerVars, tickVars, RunnerInv, CreatorTo, RunnerTo, BeforeRequest, HashKnown
<1>1. CASE CreateExecution(e) BY <1>1 DEF CreateExecution
<1>2. CASE UseConnectedWallet(e) BY <1>2 DEF UseConnectedWallet
<1>3. CASE CreatePairing(e) BY <1>3 DEF CreatePairing
<1>4. CASE RefuseSession(e) BY <1>4 DEF RefuseSession
<1>5. CASE RefuseExecution(e) BY <1>5 DEF RefuseExecution
<1>6. CASE RefuseIntent(e) BY <1>6 DEF RefuseIntent
<1>7. CASE AttachExecution(e) BY <1>7 DEF AttachExecution
<1>8. CASE AttachIntent(e) BY <1>8 DEF AttachIntent
<1>9. CASE CreatorFails(e) BY <1>9 DEF CreatorFails
<1> QED BY <1>1, <1>2, <1>3, <1>4, <1>5, <1>6, <1>7, <1>8, <1>9 DEF CreatorStep

\* Each await of the runner leaves its place and the rows in step.
LEMMA RunnerKeepsRunner ==
    ASSUME IInv, NEW e \in Executions,
           ApprovePairing(e) \/ RunnerStep(e) \/ TryFails(e) \/ CatchFails(e)
    PROVE  RunnerInv'
<1> USE IntentOfAssumption DEF IInv, TypeOK, rows, trackerVars, tickVars, RunnerInv, RunnerTo, BeforeRequest, HashKnown
<1>1. CASE ApprovePairing(e) BY <1>1 DEF ApprovePairing
<1>2. CASE ApprovalFails(e) BY <1>2 DEF ApprovalFails
<1>3. CASE CheckAllowance(e) BY <1>3 DEF CheckAllowance
<1>4. CASE RequestWalletExecution(e) BY <1>4 DEF RequestWalletExecution
<1>5. CASE HashArrives(e) BY <1>5 DEF HashArrives
<1>6. CASE RequestFails(e) BY <1>6 DEF RequestFails
<1>7. CASE MarkSuccessExecution(e) BY <1>7 DEF MarkSuccessExecution
<1>8. CASE MarkSuccessIntent(e) BY <1>8 DEF MarkSuccessIntent
<1>9. CASE TrackInsert(e) BY <1>9 DEF TrackInsert
<1>10. CASE TrackExecution(e) BY <1>10 DEF TrackExecution
<1>11. CASE SendSuccessMessage(e) BY <1>11 DEF SendSuccessMessage
<1>12. CASE TryFails(e) BY <1>12 DEF TryFails
<1>13. CASE MarkErrorExecution(e) BY <1>13 DEF MarkErrorExecution
<1>14. CASE MarkErrorIntent(e) BY <1>14 DEF MarkErrorIntent
<1>15. CASE SendErrorMessage(e) BY <1>15 DEF SendErrorMessage
<1>16. CASE CatchFails(e) BY <1>16 DEF CatchFails
<1> QED BY <1>1, <1>2, <1>3, <1>4, <1>5, <1>6, <1>7, <1>8, <1>9, <1>10, <1>11, <1>12, <1>13, <1>14, <1>15, <1>16 DEF RunnerStep

\* The wallet and the chain only add to what was sent.
LEMMA OutsideKeepsRunner ==
    ASSUME IInv, NEW e \in Executions,
           WalletSends(e) \/ ChainSettles(e) \/ Age(e)
    PROVE  RunnerInv'
<1> USE IntentOfAssumption DEF IInv, TypeOK, rows, trackerVars, tickVars, RunnerInv, BeforeRequest, HashKnown
<1>1. CASE WalletSends(e) BY <1>1 DEF WalletSends
<1>2. CASE ChainSettles(e) BY <1>2 DEF ChainSettles
<1>3. CASE Age(e) BY <1>3 DEF Age
<1> QED BY <1>1, <1>2, <1>3

\* A tick touches no swap and turns no row back into an absent one.
LEMMA RowKeepsRunner ==
    ASSUME IInv, NEW t \in Ticks, NEW e \in Executions,
           \/ SeeReceipt(t, e) \/ SeeNoReceipt(t, e) \/ SettleTracked(t, e)
           \/ SettleExecution(t, e) \/ NotifyUser(t, e) \/ RowFails(t, e)
    PROVE  RunnerInv'
<1> USE IntentOfAssumption DEF IInv, TypeOK, rows, trackerVars, tickVars, RunnerInv, TickInv, AtRow, OneTick, IsCurrent, BeforeRequest, HashKnown
<1>1. CASE SeeReceipt(t, e) BY <1>1 DEF SeeReceipt
<1>2. CASE SeeNoReceipt(t, e) BY <1>2 DEF SeeNoReceipt
<1>3. CASE SettleTracked(t, e) BY <1>3 DEF SettleTracked
<1>4. CASE SettleExecution(t, e) BY <1>4 DEF SettleExecution
<1>5. CASE NotifyUser(t, e) BY <1>5 DEF NotifyUser
<1>6. CASE RowFails(t, e) BY <1>6 DEF RowFails
<1> QED BY <1>1, <1>2, <1>3, <1>4, <1>5, <1>6

\* The request handler writes no row the tracker or /tx relies on.
LEMMA CreatorKeepsRows ==
    ASSUME IInv, NEW e \in Executions,
           CreatorStep(e) \/ CreatorFails(e)
    PROVE  TrackedHashIsRecorded' /\ CompletedIntentHasHash' /\ AuditFollowsTracker' /\ ConfirmedIsOnChain' /\ NotifiedOnce'
<1> USE IntentOfAssumption DEF IInv, TypeOK, rows, trackerVars, tickVars, TrackedHashIsRecorded, CompletedIntentHasHash, AuditFollowsTracker, ConfirmedIsOnChain, NotifiedOnce, SetIntent
<1>1. CASE CreateExecution(e) BY <1>1 DEF CreateExecution
<1>2. CASE UseConnectedWallet(e) BY <1>2 DEF UseConnectedWallet
<1>3. CASE CreatePairing(e) BY <1>3 DEF CreatePairing
<1>4. CASE RefuseSession(e) BY <1>4 DEF RefuseSession
<1>5. CASE RefuseExecution(e) BY <1>5 DEF RefuseExecution
<1>6. CASE RefuseIntent(e) BY <1>6 DEF RefuseIntent
<1>7. CASE AttachExecution(e) BY <1>7 DEF AttachExecution
<1>8. CASE AttachIntent(e) BY <1>8 DEF AttachIntent
<1>9. CASE CreatorFails(e) BY <1>9 DEF CreatorFails
<1> QED BY <1>1, <1>2, <1>3, <1>4, <1>5, <1>6, <1>7, <1>8, <1>9 DEF CreatorStep

\* The runner writes hash, intent, tracked row and transaction status in an order that keeps them consistent.
LEMMA RunnerKeepsRows ==
    ASSUME IInv, NEW e \in Executions,
           ApprovePairing(e) \/ RunnerStep(e) \/ TryFails(e) \/ CatchFails(e)
    PROVE  TrackedHashIsRecorded' /\ CompletedIntentHasHash' /\ AuditFollowsTracker' /\ ConfirmedIsOnChain' /\ NotifiedOnce'
<1> USE IntentOfAssumption DEF IInv, TypeOK, rows, trackerVars, tickVars, RunnerInv, TrackedHashIsRecorded, CompletedIntentHasHash, AuditFollowsTracker, ConfirmedIsOnChain, NotifiedOnce, SetIntent, BeforeRequest, HashKnown
<1>1. CASE ApprovePairing(e) BY <1>1 DEF ApprovePairing
<1>2. CASE ApprovalFails(e) BY <1>2 DEF ApprovalFails
<1>3. CASE CheckAllowance(e) BY <1>3 DEF CheckAllowance
<1>4. CASE RequestWalletExecution(e) BY <1>4 DEF RequestWalletExecution
<1>5. CASE HashArrives(e) BY <1>5 DEF HashArrives
<1>6. CASE RequestFails(e) BY <1>6 DEF RequestFails
<1>7. CASE MarkSuccessExecution(e) BY <1>7 DEF MarkSuccessExecution
<1>8. CASE MarkSuccessIntent(e) BY <1>8 DEF MarkSuccessIntent
<1>9. CASE TrackInsert(e) BY <1>9 DEF TrackInsert
<1>10. CASE TrackExecution(e) BY <1>10 DEF TrackExecution
<1>11. CASE SendSuccessMessage(e) BY <1>11 DEF SendSuccessMessage
<1>12. CASE TryFails(e) BY <1>12 DEF TryFails
<1>13. CASE MarkErrorExecution(e) BY <1>13 DEF MarkErrorExecution
<1>14. CASE MarkErrorIntent(e) BY <1>14 DEF MarkErrorIntent
<1>15. CASE SendErrorMessage(e) BY <1>15 DEF SendErrorMessage
<1>16. CASE CatchFails(e) BY <1>16 DEF CatchFails
<1> QED BY <1>1, <1>2, <1>3, <1>4, <1>5, <1>6, <1>7, <1>8, <1>9, <1>10, <1>11, <1>12, <1>13, <1>14, <1>15, <1>16 DEF RunnerStep

\* A receipt, once there, stays what it is.
LEMMA OutsideKeepsRows ==
    ASSUME IInv, NEW e \in Executions,
           WalletSends(e) \/ ChainSettles(e) \/ Age(e)
    PROVE  TrackedHashIsRecorded' /\ CompletedIntentHasHash' /\ AuditFollowsTracker' /\ ConfirmedIsOnChain' /\ NotifiedOnce'
<1> USE IntentOfAssumption DEF IInv, TypeOK, rows, trackerVars, tickVars, TrackedHashIsRecorded, CompletedIntentHasHash, AuditFollowsTracker, ConfirmedIsOnChain, NotifiedOnce
<1>1. CASE WalletSends(e) BY <1>1 DEF WalletSends
<1>2. CASE ChainSettles(e) BY <1>2 DEF ChainSettles
<1>3. CASE Age(e) BY <1>3 DEF Age
<1> QED BY <1>1, <1>2, <1>3

\* A tick settles a pending row, then copies it, then reports it once.
LEMMA RowKeepsRows ==
    ASSUME IInv, NEW t \in Ticks, NEW e \in Executions,
           \/ SeeReceipt(t, e) \/ SeeNoReceipt(t, e) \/ SettleTracked(t, e)
           \/ SettleExecution(t, e) \/ NotifyUser(t, e) \/ RowFails(t, e)
    PROVE  TrackedHashIsRecorded' /\ CompletedIntentHasHash' /\ AuditFollowsTracker' /\ ConfirmedIsOnChain' /\ NotifiedOnce'
<1> USE IntentOfAssumption DEF IInv, TypeOK, rows, trackerVars, tickVars, TickInv, AtRow, TickTo, IsCurrent, TrackedHashIsRecorded, CompletedIntentHasHash, AuditFollowsTracker, ConfirmedIsOnChain, NotifiedOnce
<1>1. CASE SeeReceipt(t, e) BY <1>1 DEF SeeReceipt
<1>2. CASE SeeNoReceipt(t, e) BY <1>2 DEF SeeNoReceipt
<1>3. CASE SettleTracked(t, e) BY SMTT(30), <1>3 DEF SettleTracked
<1>4. CASE SettleExecution(t, e) BY <1>4 DEF SettleExecution
<1>5. CASE NotifyUser(t, e) BY <1>5 DEF NotifyUser
<1>6. CASE RowFails(t, e) BY <1>6 DEF RowFails
<1> QED BY <1>1, <1>2, <1>3, <1>4, <1>5, <1>6

\* A tracked row gets the next position.
LEMMA RunnerKeepsStamps ==
    ASSUME IInv, NEW e \in Executions,
           ApprovePairing(e) \/ RunnerStep(e) \/ TryFails(e) \/ CatchFails(e)
    PROVE  StampInv'
<1> USE IntentOfAssumption DEF IInv, TypeOK, rows, trackerVars, tickVars, RunnerInv, StampInv
<1>1. CASE ApprovePairing(e) BY <1>1 DEF ApprovePairing
<1>2. CASE ApprovalFails(e) BY <1>2 DEF ApprovalFails
<1>3. CASE CheckAllowance(e) BY <1>3 DEF CheckAllowance
<1>4. CASE RequestWalletExecution(e) BY <1>4 DEF RequestWalletExecution
<1>5. CASE HashArrives(e) BY <1>5 DEF HashArrives
<1>6. CASE RequestFails(e) BY <1>6 DEF RequestFails
<1>7. CASE MarkSuccessExecution(e) BY <1>7 DEF MarkSuccessExecution
<1>8. CASE MarkSuccessIntent(e) BY <1>8 DEF MarkSuccessIntent
<1>9. CASE TrackInsert(e) BY <1>9 DEF TrackInsert
<1>10. CASE TrackExecution(e) BY <1>10 DEF TrackExecution
<1>11. CASE SendSuccessMessage(e) BY <1>11 DEF SendSuccessMessage
<1>12. CASE TryFails(e) BY <1>12 DEF TryFails
<1>13. CASE MarkErrorExecution(e) BY <1>13 DEF MarkErrorExecution
<1>14. CASE MarkErrorIntent(e) BY <1>14 DEF MarkErrorIntent
<1>15. CASE SendErrorMessage(e) BY <1>15 DEF SendErrorMessage
<1>16. CASE CatchFails(e) BY <1>16 DEF CatchFails
<1> QED BY <1>1, <1>2, <1>3, <1>4, <1>5, <1>6, <1>7, <1>8, <1>9, <1>10, <1>11, <1>12, <1>13, <1>14, <1>15, <1>16 DEF RunnerStep

\* Settling a row leaves its position.
LEMMA RowKeepsStamps ==
    ASSUME IInv, NEW t \in Ticks, NEW e \in Executions,
           \/ SeeReceipt(t, e) \/ SeeNoReceipt(t, e) \/ SettleTracked(t, e)
           \/ SettleExecution(t, e) \/ NotifyUser(t, e) \/ RowFails(t, e)
    PROVE  StampInv'
<1> USE IntentOfAssumption DEF IInv, TypeOK, rows, trackerVars, tickVars, TickInv, AtRow, StampInv, IsCurrent
<1>1. CASE SeeReceipt(t, e) BY <1>1 DEF SeeReceipt
<1>2. CASE SeeNoReceipt(t, e) BY <1>2 DEF SeeNoReceipt
<1>3. CASE SettleTracked(t, e) BY <1>3 DEF SettleTracked
<1>4. CASE SettleExecution(t, e) BY <1>4 DEF SettleExecution
<1>5. CASE NotifyUser(t, e) BY <1>5 DEF NotifyUser
<1>6. CASE RowFails(t, e) BY <1>6 DEF RowFails
<1> QED BY <1>1, <1>2, <1>3, <1>4, <1>5, <1>6

\* The request handler is no business of the ticks.
LEMMA CreatorKeepsTicks ==
    ASSUME IInv, NEW e \in Executions,
           CreatorStep(e) \/ CreatorFails(e)
    PROVE  OneTick' /\ TickInv'
<1> USE IntentOfAssumption DEF IInv, TypeOK, rows, trackerVars, tickVars, TickInv, AtRow, OneTick, IsCurrent
<1>1. CASE CreateExecution(e) BY <1>1 DEF CreateExecution
<1>2. CASE UseConnectedWallet(e) BY <1>2 DEF UseConnectedWallet
<1>3. CASE CreatePairing(e) BY <1>3 DEF CreatePairing
<1>4. CASE RefuseSession(e) BY <1>4 DEF RefuseSession
<1>5. CASE RefuseExecution(e) BY <1>5 DEF RefuseExecution
<1>6. CASE RefuseIntent(e) BY <1>6 DEF RefuseIntent
<1>7. CASE AttachExecution(e) BY <1>7 DEF AttachExecution
<1>8. CASE AttachIntent(e) BY <1>8 DEF AttachIntent
<1>9. CASE CreatorFails(e) BY <1>9 DEF CreatorFails
<1> QED BY <1>1, <1>2, <1>3, <1>4, <1>5, <1>6, <1>7, <1>8, <1>9 DEF CreatorStep

\* A new row is in no batch yet.
LEMMA RunnerKeepsTicks ==
    ASSUME IInv, NEW e \in Executions,
           ApprovePairing(e) \/ RunnerStep(e) \/ TryFails(e) \/ CatchFails(e)
    PROVE  OneTick' /\ TickInv'
<1> USE IntentOfAssumption DEF IInv, TypeOK, rows, trackerVars, tickVars, RunnerInv, StampInv, BeforeRequest, TickInv, AtRow, OneTick, IsCurrent
<1>1. CASE ApprovePairing(e) BY <1>1 DEF ApprovePairing
<1>2. CASE ApprovalFails(e) BY <1>2 DEF ApprovalFails
<1>3. CASE CheckAllowance(e) BY <1>3 DEF CheckAllowance
<1>4. CASE RequestWalletExecution(e) BY <1>4 DEF RequestWalletExecution
<1>5. CASE HashArrives(e) BY <1>5 DEF HashArrives
<1>6. CASE RequestFails(e) BY <1>6 DEF RequestFails
<1>7. CASE MarkSuccessExecution(e) BY <1>7 DEF MarkSuccessExecution
<1>8. CASE MarkSuccessIntent(e) BY <1>8 DEF MarkSuccessIntent
<1>9. CASE TrackInsert(e)
  <2>1. \A t \in Ticks : e \notin tickBatch[t] /\ tickBatch[t] \subseteq Executions
    BY <1>9 DEF TrackInsert, TickPc
  <2>2. \A t \in Ticks : \A f \in tickBatch[t] :
          tracked'[f] = tracked[f] /\ submittedAt'[f] = submittedAt[f]
    BY <1>9, <2>1 DEF TrackInsert
  <2>3. \A t \in Ticks : \A f \in tickBatch[t] : IsCurrent(t, f)' <=> IsCurrent(t, f)
    BY <1>9, <2>1, <2>2 DEF TrackInsert
  <2> QED BY <1>9, <2>1, <2>2, <2>3 DEF TrackInsert
<1>10. CASE TrackExecution(e) BY <1>10 DEF TrackExecution
<1>11. CASE SendSuccessMessage(e) BY <1>11 DEF SendSuccessMessage
<1>12. CASE TryFails(e) BY <1>12 DEF TryFails
<1>13. CASE MarkErrorExecution(e) BY <1>13 DEF MarkErrorExecution
<1>14. CASE MarkErrorIntent(e) BY <1>14 DEF MarkErrorIntent
<1>15. CASE SendErrorMessage(e) BY <1>15 DEF SendErrorMessage
<1>16. CASE CatchFails(e) BY <1>16 DEF CatchFails
<1> QED BY <1>1, <1>2, <1>3, <1>4, <1>5, <1>6, <1>7, <1>8, <1>9, <1>10, <1>11, <1>12, <1>13, <1>14, <1>15, <1>16 DEF RunnerStep

\* A receipt seen as confirmed stays so.
LEMMA OutsideKeepsTicks ==
    ASSUME IInv, NEW e \in Executions,
           WalletSends(e) \/ ChainSettles(e) \/ Age(e)
    PROVE  OneTick' /\ TickInv'
<1> USE IntentOfAssumption DEF IInv, TypeOK, rows, trackerVars, tickVars, TickInv, AtRow, OneTick, IsCurrent
<1>1. CASE WalletSends(e) BY <1>1 DEF WalletSends
<1>2. CASE ChainSettles(e) BY <1>2 DEF ChainSettles
<1>3. CASE Age(e) BY <1>3 DEF Age
<1> QED BY <1>1, <1>2, <1>3

\* The flag admits one tick, whose batch is of pending rows.
LEMMA LoopKeepsTicks ==
    ASSUME IInv, NEW t \in Ticks,
           StartTick(t) \/ ListPending(t) \/ EndTick(t)
    PROVE  OneTick' /\ TickInv'
<1> USE IntentOfAssumption DEF IInv, TypeOK, rows, trackerVars, tickVars, TickInv, AtRow, OneTick, IsCurrent, NotifiedOnce, TickTo, TickPc, PendingRows, Oldest
<1>1. CASE StartTick(t) BY <1>1 DEF StartTick
<1>2. CASE ListPending(t) BY <1>2 DEF ListPending
<1>3. CASE EndTick(t) BY <1>3 DEF EndTick
<1> QED BY <1>1, <1>2, <1>3

\* The one tick moves from row to row; positions tell the rows apart.
LEMMA RowKeepsTicks ==
    ASSUME IInv, NEW t \in Ticks, NEW e \in Executions,
           \/ SeeReceipt(t, e) \/ SeeNoReceipt(t, e) \/ SettleTracked(t, e)
           \/ SettleExecution(t, e) \/ NotifyUser(t, e) \/ RowFails(t, e)
    PROVE  OneTick' /\ TickInv'
<1> USE DEF IInv, TypeOK, TickTo, NextRow, TickPc
<1>1. tickPc[t] \notin {"idle", "list"} /\ IsCurrent(t, e)
  BY DEF SeeReceipt, SeeNoReceipt, SettleTracked, SettleExecution, NotifyUser, RowFails
<1>2. \A u \in Ticks \ {t} : tickPc[u] = "idle" /\ tickBatch[u] = {}
  BY <1>1 DEF OneTick, TickInv
<1>3. \A f \in tickBatch[t] \ {e} : ~IsCurrent(t, f) /\ tracked[f] = "pending" /\ notices[f] = 0
  <2> SUFFICES ASSUME NEW f \in tickBatch[t], f # e
               PROVE  ~IsCurrent(t, f) /\ tracked[f] = "pending" /\ notices[f] = 0
    OBVIOUS
  <2>1. e \in tickBatch[t] /\ e \in Executions /\ f \in Executions
    BY <1>1 DEF IsCurrent
  <2>2. submittedAt[e] # 0 /\ submittedAt[e] # submittedAt[f]
    BY <1>1, <2>1 DEF StampInv, TickInv, AtRow, IsCurrent
  <2>3. ~IsCurrent(t, f)
    BY <1>1, <2>1, <2>2 DEF IsCurrent
  <2> QED BY <2>1, <2>3 DEF TickInv, NotifiedOnce
<1>4. AtRow(t, e)
  BY <1>1 DEF TickInv, IsCurrent
<1>5. OneTick'
  BY <1>1 DEF OneTick, SeeReceipt, SeeNoReceipt, SettleTracked, SettleExecution, NotifyUser,
              RowFails
<1>6. SUFFICES ASSUME NEW u \in Ticks
               PROVE  /\ tickPc'[u] \in {"idle", "list"} => tickBatch'[u] = {}
                      /\ \A f \in tickBatch'[u] :
                            IF IsCurrent(u, f)' THEN AtRow(u, f)' ELSE tracked'[f] = "pending"
  BY <1>5 DEF TickInv
<1>7. CASE u # t
  BY <1>2, <1>7 DEF SeeReceipt, SeeNoReceipt, SettleTracked, SettleExecution, NotifyUser, RowFails
<1>8. CASE u = t
  <2> USE <1>1, <1>3, <1>4, <1>8 DEF AtRow, IsCurrent, rows, tickVars
  <2>1. CASE SeeReceipt(t, e) BY <2>1 DEF SeeReceipt
  <2>2. CASE SeeNoReceipt(t, e) BY <2>2 DEF SeeNoReceipt
  <2>3. CASE SettleTracked(t, e) BY <2>3 DEF SettleTracked
  <2>4. CASE SettleExecution(t, e) BY <2>4 DEF SettleExecution
  <2>5. CASE NotifyUser(t, e) BY <2>5 DEF NotifyUser
  <2>6. CASE RowFails(t, e) BY <2>6 DEF RowFails
  <2> QED BY <2>1, <2>2, <2>3, <2>4, <2>5, <2>6
<1> QED BY <1>7, <1>8

RowsInv ==
    /\ TrackedHashIsRecorded /\ CompletedIntentHasHash /\ AuditFollowsTracker
    /\ ConfirmedIsOnChain /\ NotifiedOnce

-----------------------------------------------------------------------------
\* No row, no runner, no tick: the invariant holds at the start.
LEMMA InvInit == Init => IInv
<1> SUFFICES ASSUME Init PROVE IInv
  OBVIOUS
<1>1. TypeOK BY TypeInit
<1>2. RunnerInv BY DEF Init, RunnerInv, BeforeRequest, HashKnown
<1>3. StampInv BY DEF Init, StampInv
<1>4. OneTick /\ TickInv BY DEF Init, OneTick, TickInv
<1>5. TrackedHashIsRecorded BY DEF Init, TrackedHashIsRecorded
<1>6. CompletedIntentHasHash BY DEF Init, CompletedIntentHasHash
<1>7. AuditFollowsTracker /\ ConfirmedIsOnChain /\ NotifiedOnce
  BY DEF Init, AuditFollowsTracker, ConfirmedIsOnChain, NotifiedOnce
<1> QED BY <1>1, <1>2, <1>3, <1>4, <1>5, <1>6, <1>7 DEF IInv

\* Taking up or dropping a batch changes no row.
LEMMA LoopKeepsRest ==
    ASSUME IInv, NEW t \in Ticks, StartTick(t) \/ ListPending(t) \/ EndTick(t)
    PROVE  RunnerInv' /\ StampInv' /\ RowsInv'
<1>1. UNCHANGED <<creator, runner, path, rows, wallet, tracked, submittedAt, stamp, notices>>
  BY DEF StartTick, ListPending, EndTick
<1>2. RunnerInv' BY <1>1 DEF IInv, RunnerInv, BeforeRequest, HashKnown, rows
<1>3. StampInv' BY <1>1 DEF IInv, StampInv
<1>4. RowsInv'
  BY <1>1 DEF IInv, RowsInv, TrackedHashIsRecorded, CompletedIntentHasHash,
              AuditFollowsTracker, ConfirmedIsOnChain, NotifiedOnce, rows
<1> QED BY <1>2, <1>3, <1>4

\* Requests and wallets do not change when rows were submitted.
LEMMA OthersKeepStamps ==
    ASSUME IInv, NEW e \in Executions,
           \/ CreatorStep(e) \/ CreatorFails(e)
           \/ WalletSends(e) \/ ChainSettles(e) \/ Age(e)
    PROVE  StampInv'
<1>1. UNCHANGED <<tracked, submittedAt, stamp>>
  BY DEF CreatorStep, CreateExecution, UseConnectedWallet, CreatePairing, RefuseSession,
         RefuseExecution, RefuseIntent, AttachExecution, AttachIntent, CreatorFails,
         WalletSends, ChainSettles, Age, trackerVars
<1> QED BY <1>1 DEF IInv, StampInv

\* A restart forgets every runner, request and tick; the rows stay as they are.
LEMMA CrashKeepsInv ==
    ASSUME IInv, Crash
    PROVE  RunnerInv' /\ StampInv' /\ OneTick' /\ TickInv' /\ RowsInv'
<1> USE DEF Crash
<1>1. RunnerInv'
  BY DEF IInv, TypeOK, RunnerInv, BeforeRequest, HashKnown, rows
<1>2. StampInv' BY DEF IInv, StampInv
<1>3. OneTick' /\ TickInv' BY DEF OneTick, TickInv
<1>4. RowsInv'
  BY DEF IInv, RowsInv, TrackedHashIsRecorded, CompletedIntentHasHash,
         AuditFollowsTracker, ConfirmedIsOnChain, NotifiedOnce, rows
<1> QED BY <1>1, <1>2, <1>3, <1>4

\* The invariant is about nothing but the variables of the specification.
LEMMA StutterKeepsInv ==
    ASSUME IInv, UNCHANGED vars
    PROVE  RunnerInv' /\ StampInv' /\ OneTick' /\ TickInv' /\ RowsInv'
<1> USE DEF vars, rows, trackerVars, tickVars
<1>1. RunnerInv' BY DEF IInv, RunnerInv, BeforeRequest, HashKnown
<1>2. StampInv' BY DEF IInv, StampInv
<1>3. OneTick' BY DEF IInv, OneTick
<1>4. TickInv' BY DEF IInv, TickInv, IsCurrent, AtRow
<1>5. RowsInv'
  BY DEF IInv, RowsInv, TrackedHashIsRecorded, CompletedIntentHasHash,
         AuditFollowsTracker, ConfirmedIsOnChain, NotifiedOnce
<1> QED BY <1>1, <1>2, <1>3, <1>4, <1>5

\* IInv is inductive.
LEMMA InvStep == IInv /\ [Next]_vars => IInv'
<1> SUFFICES ASSUME IInv, [Next]_vars PROVE IInv'
  OBVIOUS
<1>t. TypeOK'
  <2>1. TypeOK BY DEF IInv
  <2> QED BY <2>1, TypeStep
<1> SUFFICES RunnerInv' /\ StampInv' /\ OneTick' /\ TickInv' /\ RowsInv'
  BY <1>t DEF IInv, RowsInv
<1>1. CASE UNCHANGED vars BY <1>1, StutterKeepsInv
<1>2. CASE Crash BY <1>2, CrashKeepsInv
<1>3. ASSUME NEW e \in Executions, CreatorStep(e) \/ CreatorFails(e)
      PROVE  RunnerInv' /\ StampInv' /\ OneTick' /\ TickInv' /\ RowsInv'
  BY <1>3, CreatorKeepsRunner, CreatorKeepsRows, CreatorKeepsTicks, OthersKeepStamps DEF RowsInv
<1>4. ASSUME NEW e \in Executions,
             ApprovePairing(e) \/ RunnerStep(e) \/ TryFails(e) \/ CatchFails(e)
      PROVE  RunnerInv' /\ StampInv' /\ OneTick' /\ TickInv' /\ RowsInv'
  BY <1>4, RunnerKeepsRunner, RunnerKeepsRows, RunnerKeepsTicks, RunnerKeepsStamps DEF RowsInv
<1>5. ASSUME NEW e \in Executions, WalletSends(e) \/ ChainSettles(e) \/ Age(e)
      PROVE  RunnerInv' /\ StampInv' /\ OneTick' /\ TickInv' /\ RowsInv'
  BY <1>5, OutsideKeepsRunner, OutsideKeepsRows, OutsideKeepsTicks, OthersKeepStamps DEF RowsInv
<1>6. ASSUME NEW t \in Ticks, StartTick(t) \/ ListPending(t) \/ EndTick(t)
      PROVE  RunnerInv' /\ StampInv' /\ OneTick' /\ TickInv' /\ RowsInv'
  BY <1>6, LoopKeepsTicks, LoopKeepsRest
<1>7. ASSUME NEW t \in Ticks, NEW e \in Executions,
             \/ SeeReceipt(t, e) \/ SeeNoReceipt(t, e) \/ SettleTracked(t, e)
             \/ SettleExecution(t, e) \/ NotifyUser(t, e) \/ RowFails(t, e)
      PROVE  RunnerInv' /\ StampInv' /\ OneTick' /\ TickInv' /\ RowsInv'
  BY <1>7, RowKeepsRunner, RowKeepsRows, RowKeepsTicks, RowKeepsStamps DEF RowsInv
<1> QED BY <1>1, <1>2, <1>3, <1>4, <1>5, <1>6, <1>7 DEF Next, TickStep

\* The inductive invariant holds in every reachable state of the three actors.
THEOREM SpecInv == Spec => []IInv
BY InvInit, InvStep, PTL DEF Spec

-----------------------------------------------------------------------------
\* No execution is put into the wallet twice, whatever fails or crashes.
THEOREM SpecOneWalletRequest == Spec => []OneWalletRequest
<1>1. IInv => OneWalletRequest BY DEF IInv, RunnerInv, OneWalletRequest
<1> QED BY <1>1, SpecInv, PTL

\* Every hash in the audit trail is that of a transaction the wallet sent.
THEOREM SpecRecordedHashWasSent == Spec => []RecordedHashWasSent
<1>1. IInv => RecordedHashWasSent BY DEF IInv, RunnerInv, RecordedHashWasSent
<1> QED BY <1>1, SpecInv, PTL

\* An execution refused by createSession never reaches the wallet.
THEOREM SpecRefusedNeverAsked == Spec => []RefusedNeverAsked
<1>1. IInv => RefusedNeverAsked
  BY DEF IInv, RunnerInv, RefusedNeverAsked, BeforeRequest
<1> QED BY <1>1, SpecInv, PTL

\* The tracker polls only transactions whose hash the audit trail holds.
THEOREM SpecTrackedHashIsRecorded == Spec => []TrackedHashIsRecorded
<1>1. IInv => TrackedHashIsRecorded BY DEF IInv
<1> QED BY <1>1, SpecInv, PTL

\* A completed intent has an execution with a hash, however the two writes of
\* markSuccess are torn apart.
THEOREM SpecCompletedIntentHasHash == Spec => []CompletedIntentHasHash
<1>1. IInv => CompletedIntentHasHash BY DEF IInv
<1> QED BY <1>1, SpecInv, PTL

\* The audit's copy of a transaction's status never contradicts the tracked row.
THEOREM SpecAuditFollowsTracker == Spec => []AuditFollowsTracker
<1>1. IInv => AuditFollowsTracker BY DEF IInv
<1> QED BY <1>1, SpecInv, PTL

\* Only transactions confirmed on their chain are confirmed rows.
THEOREM SpecConfirmedIsOnChain == Spec => []ConfirmedIsOnChain
<1>1. IInv => ConfirmedIsOnChain BY DEF IInv
<1> QED BY <1>1, SpecInv, PTL

\* A transaction's user is notified at most once, and after it settled.
THEOREM SpecNotifiedOnce == Spec => []NotifiedOnce
<1>1. IInv => NotifiedOnce BY DEF IInv
<1> QED BY <1>1, SpecInv, PTL

-----------------------------------------------------------------------------
\* Every step of the program is a step of the abstract lifecycle or leaves it.
LEMMA LifecycleStep == IInv /\ [Next]_vars => [Lifecycle!LifecycleNext]_<<tracked, notices>>
<1> SUFFICES ASSUME IInv, [Next]_vars
             PROVE  Lifecycle!LifecycleNext \/ UNCHANGED <<tracked, notices>>
  OBVIOUS
<1> USE DEF Lifecycle!LifecycleNext, trackerVars
<1>1. CASE UNCHANGED vars BY <1>1 DEF vars
<1>2. CASE Crash BY <1>2 DEF Crash
<1>3. ASSUME NEW e \in Executions, CreatorStep(e) \/ CreatorFails(e)
      PROVE  UNCHANGED <<tracked, notices>>
  BY <1>3 DEF CreatorStep, CreateExecution, UseConnectedWallet, CreatePairing, RefuseSession,
              RefuseExecution, RefuseIntent, AttachExecution, AttachIntent, CreatorFails
<1>4. ASSUME NEW e \in Executions,
             ApprovePairing(e) \/ RunnerStep(e) \/ TryFails(e) \/ CatchFails(e)
      PROVE  Lifecycle!LifecycleNext \/ UNCHANGED <<tracked, notices>>
  <2>1. CASE TrackInsert(e)
    BY <2>1 DEF TrackInsert, Lifecycle!Submit, IInv, RunnerInv
  <2>2. CASE ~TrackInsert(e)
    BY <1>4, <2>2 DEF RunnerStep, ApprovePairing, ApprovalFails, CheckAllowance,
         RequestWalletExecution, HashArrives, RequestFails, MarkSuccessExecution,
         MarkSuccessIntent, TrackExecution, SendSuccessMessage, TryFails, MarkErrorExecution,
         MarkErrorIntent, SendErrorMessage, CatchFails
  <2> QED BY <2>1, <2>2
<1>5. ASSUME NEW e \in Executions, WalletSends(e) \/ ChainSettles(e) \/ Age(e)
      PROVE  UNCHANGED <<tracked, notices>>
  BY <1>5 DEF WalletSends, ChainSettles, Age
<1>6. ASSUME NEW t \in Ticks, StartTick(t) \/ ListPending(t) \/ EndTick(t)
      PROVE  UNCHANGED <<tracked, notices>>
  BY <1>6 DEF StartTick, ListPending, EndTick
<1>7. ASSUME NEW t \in Ticks, NEW e \in Executions,
             \/ SeeReceipt(t, e) \/ SeeNoReceipt(t, e) \/ SettleTracked(t, e)
             \/ SettleExecution(t, e) \/ NotifyUser(t, e) \/ RowFails(t, e)
      PROVE  Lifecycle!LifecycleNext \/ UNCHANGED <<tracked, notices>>
  <2>1. CASE SettleTracked(t, e)
    BY <2>1 DEF SettleTracked, Lifecycle!Settle, Lifecycle!Terminal, IInv, TickInv, AtRow,
                IsCurrent
  <2>2. CASE NotifyUser(t, e)
    BY <2>2 DEF NotifyUser, Lifecycle!Notify, Lifecycle!Terminal, IInv, TypeOK, TickInv, AtRow,
                IsCurrent
  <2>3. CASE SeeReceipt(t, e) \/ SeeNoReceipt(t, e) \/ SettleExecution(t, e) \/ RowFails(t, e)
    BY <2>3 DEF SeeReceipt, SeeNoReceipt, SettleExecution, RowFails
  <2> QED BY <1>7, <2>1, <2>2, <2>3
<1> QED BY <1>1, <1>2, <1>3, <1>4, <1>5, <1>6, <1>7 DEF Next, TickStep

\* The tracker implements the safety part of its abstract lifecycle: rows are
\* settled once and reported at most once, afterwards.
THEOREM SpecImplementsLifecycle == Spec => Lifecycle!LifecycleSafety
<1>1. Init => Lifecycle!LifecycleInit BY DEF Init, Lifecycle!LifecycleInit
<1> QED
  BY <1>1, SpecInv, LifecycleStep, PTL
  DEF Spec, Lifecycle!LifecycleSafety, Lifecycle!lifecycleVars
=============================================================================
