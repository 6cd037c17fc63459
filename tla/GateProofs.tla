----------------------------- MODULE GateProofs -----------------------------
(***************************************************************************)
(* TLAPS proofs about TradingGate: GateInv is inductive, and the safety    *)
(* properties of the gate follow from it, for every threshold, debounce    *)
(* count and bound of the nonce counter.                                   *)
(***************************************************************************)
EXTENDS GateInvariant, TLAPS

-----------------------------------------------------------------------------
(* LEMMAS ABOUT THE RISK CONTROLLER                                        *)

(* trigger_pause and record_success keep the shape of the risk state and   *)
(* leave last_reconcile_ok alone.                                          *)
LEMMA PauseAndSuccess ==
    ASSUME NEW r \in RiskType
    PROVE  /\ TriggerPause(r) \in RiskType /\ TriggerPause(r).armed
           /\ TriggerPause(r).reconcileOk = r.reconcileOk
           /\ RecordSuccess(r) \in RiskType
           /\ RecordSuccess(r).reconcileOk = r.reconcileOk
           /\ RecordSuccess(r).armed = r.armed
<1>1. TriggerPause(r) \in RiskType
  BY DEF TriggerPause, RiskType
<1>2. TriggerPause(r).armed = TRUE
  BY DEF TriggerPause, RiskType
<1>3. TriggerPause(r).reconcileOk = r.reconcileOk
  BY DEF TriggerPause, RiskType
<1>4. RecordSuccess(r) \in RiskType
  BY RiskAssumption DEF RiskAssumption, RecordSuccess, RiskType
<1>5. RecordSuccess(r).reconcileOk = r.reconcileOk /\ RecordSuccess(r).armed = r.armed
  BY DEF RecordSuccess, RiskType
<1>6. QED
  BY <1>1, <1>2, <1>3, <1>4, <1>5

(* mark_reconcile stores its argument, saturates the streak, and neither   *)
(* starts nor ends a pause.                                                *)
LEMMA MarkReconcileFacts ==
    ASSUME NEW r \in RiskType, NEW ok \in BOOLEAN
    PROVE  /\ MarkReconcile(r, ok) \in RiskType
           /\ MarkReconcile(r, ok).reconcileOk = ok
           /\ MarkReconcile(r, ok).armed = r.armed
<1>1. MarkReconcile(r, ok) \in RiskType
  <2> DEFINE streak == IF ok THEN 0 ELSE UpTo(Debounce, r.streak + 1)
  <2>1. r.streak \in 0 .. Debounce
    BY DEF RiskType
  <2>2. streak \in 0 .. Debounce
    BY <2>1, RiskAssumption DEF RiskAssumption, UpTo
  <2>3. MarkReconcile(r, ok) = [r EXCEPT !.reconcileOk = ok, !.streak = streak]
    BY DEF MarkReconcile
  <2> HIDE DEF streak
  <2>4. QED
    BY <2>2, <2>3 DEF RiskType
<1>2. MarkReconcile(r, ok).reconcileOk = ok
  BY DEF MarkReconcile, RiskType
<1>3. MarkReconcile(r, ok).armed = r.armed
  BY DEF MarkReconcile, RiskType
<1>4. QED
  BY <1>1, <1>2, <1>3

(* record_rejection may arm a pause and never ends one.                    *)
LEMMA RecordRejectionFacts ==
    ASSUME NEW r \in RiskType
    PROVE  /\ RecordRejection(r) \in RiskType
           /\ RecordRejection(r).reconcileOk = r.reconcileOk
           /\ r.armed => RecordRejection(r).armed
<1> DEFINE counted == [r EXCEPT !.rejections = UpTo(MaxRejections, @ + 1)]
<1>1. /\ counted \in RiskType
      /\ counted.reconcileOk = r.reconcileOk
      /\ counted.armed = r.armed
  BY RiskAssumption DEF RiskAssumption, UpTo, RiskType
<1>2. RecordRejection(r) \in {counted, TriggerPause(counted)}
  BY DEF RecordRejection
<1> HIDE DEF counted
<1>3. QED
  BY <1>1, <1>2, PauseAndSuccess

(* pause_if_streak, likewise.                                              *)
LEMMA PauseIfStreakFacts ==
    ASSUME NEW r \in RiskType
    PROVE  /\ PauseIfStreak(r) \in RiskType
           /\ PauseIfStreak(r).reconcileOk = r.reconcileOk
           /\ r.armed => PauseIfStreak(r).armed
BY PauseAndSuccess DEF PauseIfStreak

(* maybe_recover ends a pause only on a clean reconcile, which it keeps.   *)
LEMMA MaybeRecoverFacts ==
    ASSUME NEW r \in RiskType, NEW healthy \in BOOLEAN
    PROVE  /\ MaybeRecover(r, healthy) \in RiskType
           /\ MaybeRecover(r, healthy).reconcileOk = r.reconcileOk
           /\ r.armed /\ ~MaybeRecover(r, healthy).armed => r.reconcileOk
<1>1. MaybeRecover(r, healthy) \in RiskType
  <2>1. 0 \in 0 .. MaxRejections
    BY RiskAssumption DEF RiskAssumption
  <2>2. [r EXCEPT !.armed = FALSE, !.rejections = 0, !.cancelDone = FALSE] \in RiskType
    BY <2>1 DEF RiskType
  <2>3. QED
    BY <2>2 DEF MaybeRecover
<1>2. MaybeRecover(r, healthy).reconcileOk = r.reconcileOk
  BY DEF MaybeRecover, RiskType
<1>3. ~Recovers(r, healthy) => MaybeRecover(r, healthy) = r
  BY DEF MaybeRecover
<1>4. r.armed /\ ~MaybeRecover(r, healthy).armed => r.reconcileOk
  BY <1>3 DEF Recovers
<1>5. QED
  BY <1>1, <1>2, <1>4

(* The dead-man switch leaves a failed reconcile behind and ends no pause. *)
LEMMA ParkedFacts ==
    ASSUME NEW r \in RiskType
    PROVE  /\ [Parked(r) EXCEPT !.cancelDone = TRUE] \in RiskType
           /\ [Parked(r) EXCEPT !.cancelDone = TRUE].reconcileOk = FALSE
           /\ r.armed => [Parked(r) EXCEPT !.cancelDone = TRUE].armed
<1>0. /\ MarkReconcile(r, FALSE) \in RiskType
      /\ MarkReconcile(r, FALSE).reconcileOk = FALSE
      /\ MarkReconcile(r, FALSE).armed = r.armed
      /\ Parked(r) \in {MarkReconcile(r, FALSE), TriggerPause(MarkReconcile(r, FALSE))}
  BY MarkReconcileFacts DEF Parked
<1>1. Parked(r) \in RiskType /\ Parked(r).reconcileOk = FALSE
  <2> DEFINE marked == MarkReconcile(r, FALSE)
  <2>1. marked \in RiskType /\ marked.reconcileOk = FALSE
    BY <1>0
  <2>2. Parked(r) = marked \/ Parked(r) = TriggerPause(marked)
    BY <1>0
  <2> HIDE DEF marked
  <2>3. TriggerPause(marked) \in RiskType /\ TriggerPause(marked).reconcileOk = marked.reconcileOk
    BY <2>1, PauseAndSuccess
  <2>4. QED
    BY <2>1, <2>2, <2>3, Zenon
<1>2. r.armed => Parked(r).armed
  BY <1>0, PauseAndSuccess
<1>3. ASSUME NEW q \in RiskType
      PROVE  /\ [q EXCEPT !.cancelDone = TRUE] \in RiskType
             /\ [q EXCEPT !.cancelDone = TRUE].reconcileOk = q.reconcileOk
             /\ [q EXCEPT !.cancelDone = TRUE].armed = q.armed
  BY DEF RiskType
<1>4. QED
  BY <1>1, <1>2, <1>3

-----------------------------------------------------------------------------
(* THE INVARIANT                                                           *)

(* Startup hands over a fetched nonce, a free lock and a flat book.        *)
LEMMA InitInv == Init => GateInv
<1> SUFFICES ASSUME Init PROVE GateInv
  OBVIOUS
<1>1. risk \in RiskType
  <2>1. 0 \in 0 .. MaxRejections /\ 0 \in 0 .. Debounce
    BY RiskAssumption DEF RiskAssumption
  <2>2. QED
    BY <2>1 DEF Init, NewRisk, RiskType
<1>2. ahead \in -1 .. MaxAhead
  BY GateAssumption DEF GateAssumption, Init
<1>3. sender \in Senders /\ poller \in Pollers /\ main \in Mains
  BY DEF Init, At, Sleeping, Senders, SenderPcs, Batches, Pollers, PollerPcs,
         Snapshots, Mains, MainPcs
<1>4. TypeOK
  BY <1>1, <1>2, <1>3 DEF Init, TypeOK, Batches
<1>5. LockInv /\ SnapshotInv
  BY DEF Init, At, Sleeping, LockInv, SnapshotInv, SenderHolds, MainHolds
<1>6. LateInv /\ ExitInv /\ NonceInv
  BY DEF Init, At, LateInv, ExitInv, NonceInv
<1>7. QED
  BY <1>4, <1>5, <1>6 DEF GateInv

(* Every step of the sender keeps the invariant.                           *)
LEMMA SenderKeepsInv ==
    ASSUME GateInv, SenderStep PROVE GateInv'
<1> USE GateAssumption
    DEF GateAssumption, GateInv, TypeOK, LockInv, LateInv, ExitInv, NonceInv,
        SnapshotInv, SenderHolds, MainHolds, Senders, Pollers, Mains, SenderPcs,
        PollerPcs, MainPcs, Batches, Snapshots, At, Sleeping, Running
<1>1. CASE SenderTick
  <2>1. risk' \in RiskType /\ (risk'.reconcileOk => risk.reconcileOk)
    BY <1>1, MaybeRecoverFacts DEF SenderTick
  <2>2. QED
    BY <1>1, <2>1 DEF SenderTick
<1>2. CASE SenderTake
  <2>1. risk' \in RiskType /\ (risk'.reconcileOk => risk.reconcileOk)
    BY <1>2, MaybeRecoverFacts DEF SenderTake
  <2>2. QED
    BY <1>2, <2>1 DEF SenderTake, Passes
<1>3. CASE SenderAbandon
  BY <1>3 DEF SenderAbandon
<1>4. CASE SenderSend
  BY <1>4 DEF SenderSend
<1>5. CASE SenderOk
  <2>1. risk' \in RiskType /\ (risk'.reconcileOk => risk.reconcileOk)
    BY <1>5, PauseAndSuccess DEF SenderOk
  <2>2. QED
    BY <1>5, <2>1 DEF SenderOk, SenderReturns
<1>6. CASE SenderNotSent
  BY <1>6 DEF SenderNotSent, SenderReturns
<1>7. CASE SenderRateLimited
  <2>1. risk' \in RiskType /\ (risk'.reconcileOk => risk.reconcileOk)
    BY <1>7, RecordRejectionFacts DEF SenderRateLimited
  <2>2. QED
    BY <1>7, <2>1 DEF SenderRateLimited
<1>8. CASE SenderSettle
  BY <1>8 DEF SenderSettle, SenderReturns
<1>9. ASSUME NEW ok \in BOOLEAN, SenderNonceRejected(ok)
      PROVE  GateInv'
  <2>1. risk' \in RiskType /\ (risk'.reconcileOk => risk.reconcileOk)
    BY <1>9, RecordRejectionFacts, PauseAndSuccess, MarkReconcileFacts DEF SenderNonceRejected, ResyncRisk
  <2>2. QED
    BY <1>9, <2>1 DEF SenderNonceRejected, Refreshed
<1>10. ASSUME NEW ok \in BOOLEAN, SenderUnknown(ok)
      PROVE  GateInv'
  <2>1. risk' \in RiskType /\ (risk'.reconcileOk => risk.reconcileOk)
    BY <1>10, PauseAndSuccess, MarkReconcileFacts DEF SenderUnknown, ResyncRisk
  <2>2. late' \in BOOLEAN /\ nonceOk' \in BOOLEAN
    BY <1>10 DEF SenderUnknown
  <2>3. LateInv'
    BY <1>10 DEF SenderUnknown, Refreshed
  <2>4. ahead' \in -1 .. MaxAhead /\ sender' \in Senders /\ sender'.pc = "cancelAll"
    BY <1>10 DEF SenderUnknown, Refreshed
  <2>5. LockInv' /\ ExitInv' /\ NonceInv' /\ SnapshotInv'
    BY <1>10, <2>1 DEF SenderUnknown, Refreshed
  <2>6. UNCHANGED <<lock, mdFresh, halt, mailbox, poller, main, resting>>
    BY <1>10 DEF SenderUnknown
  <2>7. QED
    BY <2>1, <2>2, <2>3, <2>4, <2>5, <2>6
<1>11. ASSUME NEW consumed \in BOOLEAN, NEW ok \in BOOLEAN, SenderBusinessRejected(consumed, ok)
      PROVE  GateInv'
  <2>1. risk' \in RiskType /\ (risk'.reconcileOk => risk.reconcileOk)
    BY <1>11, RecordRejectionFacts, PauseAndSuccess, MarkReconcileFacts DEF SenderBusinessRejected, ResyncRisk
  <2>2. QED
    BY <1>11, <2>1 DEF SenderBusinessRejected, Refreshed
<1>12. ASSUME NEW cancelled \in BOOLEAN, NEW flat \in BOOLEAN, NEW lost \in BOOLEAN, SenderCancelAll(cancelled, flat, lost)
      PROVE  GateInv'
  BY <1>12 DEF SenderCancelAll, SenderReturns, CancelAllAndVerify
<1>13. QED
  BY <1>1, <1>2, <1>3, <1>4, <1>5, <1>6, <1>7, <1>8, <1>9, <1>10, <1>11, <1>12 DEF SenderStep

(* Every step of the poller keeps the invariant.                           *)
LEMMA PollerKeepsInv ==
    ASSUME GateInv, PollerStep PROVE GateInv'
<1> USE GateAssumption
    DEF GateAssumption, GateInv, TypeOK, LockInv, LateInv, ExitInv, NonceInv,
        SnapshotInv, SenderHolds, MainHolds, Senders, Pollers, Mains, SenderPcs,
        PollerPcs, MainPcs, Batches, Snapshots, At, Sleeping, Running
<1>1. CASE PollWake
  <2>1. risk' \in RiskType /\ (risk'.reconcileOk => risk.reconcileOk)
    BY <1>1, ParkedFacts DEF PollWake
  <2>2. QED
    BY <1>1, <2>1 DEF PollWake
<1>2. CASE PollFail
  <2>1. risk' \in RiskType /\ (risk'.reconcileOk => risk.reconcileOk)
    BY <1>2, PauseIfStreakFacts, MarkReconcileFacts DEF PollFail
  <2>2. poller' = Sleeping /\ UNCHANGED <<lock, ahead, nonceOk, mdFresh, halt, mailbox,
                                          sender, main, resting, late>>
    BY <1>2 DEF PollFail
  <2>3. QED
    BY <2>1, <2>2
<1>3. CASE PollRecord
  <2>1. risk' \in RiskType /\ (poller.snap # "clean" => ~risk'.reconcileOk)
    BY <1>3, PauseIfStreakFacts, PauseAndSuccess, MarkReconcileFacts DEF PollRecord, Judged
  <2>2. QED
    BY <1>3, <2>1 DEF PollRecord
<1>4. CASE PollDone
  BY <1>4 DEF PollDone
<1>5. ASSUME NEW snap \in Snapshots \ {"none"}, PollFetch(snap)
      PROVE  GateInv'
  BY <1>5 DEF PollFetch
<1>6. ASSUME NEW ok \in BOOLEAN, PollResync(ok)
      PROVE  GateInv'
  BY <1>6 DEF PollResync, Refreshed
<1>7. ASSUME NEW taken \in BOOLEAN, NEW gone \in BOOLEAN, NEW ok \in BOOLEAN, PollCancelOrphan(taken, gone, ok)
      PROVE  GateInv'
  BY <1>7 DEF PollCancelOrphan, Refreshed
<1>8. ASSUME NEW cancelled \in BOOLEAN, NEW flat \in BOOLEAN, NEW lost \in BOOLEAN, PollDeadMan(cancelled, flat, lost)
      PROVE  GateInv'
  BY <1>8 DEF PollDeadMan, CancelAllAndVerify
<1>9. ASSUME NEW cancelled \in BOOLEAN, NEW flat \in BOOLEAN, NEW lost \in BOOLEAN, PollOverCap(cancelled, flat, lost)
      PROVE  GateInv'
  BY <1>9 DEF PollOverCap, CancelAllAndVerify
<1>10. QED
  BY <1>1, <1>2, <1>3, <1>4, <1>5, <1>6, <1>7, <1>8, <1>9 DEF PollerStep

(* Every step of the shutdown keeps the invariant.                         *)
LEMMA MainKeepsInv ==
    ASSUME GateInv, MainStep PROVE GateInv'
<1> USE GateAssumption
    DEF GateAssumption, GateInv, TypeOK, LockInv, LateInv, ExitInv, NonceInv,
        SnapshotInv, SenderHolds, MainHolds, Senders, Pollers, Mains, SenderPcs,
        PollerPcs, MainPcs, Batches, Snapshots, At, Sleeping, Running
<1>1. CASE MainSignal
  BY <1>1 DEF MainSignal
<1>2. CASE MainLock
  BY <1>2 DEF MainLock
<1>3. ASSUME NEW cancelled \in BOOLEAN, NEW flat \in BOOLEAN, NEW lost \in BOOLEAN, MainCancelAll(cancelled, flat, lost)
      PROVE  GateInv'
  BY <1>3 DEF MainCancelAll, CancelAllAndVerify
<1>4. QED
  BY <1>1, <1>2, <1>3 DEF MainStep

(* Every step of the environment keeps the invariant.                      *)
LEMMA EnvironmentKeepsInv ==
    ASSUME GateInv, Environment PROVE GateInv'
<1> USE GateAssumption
    DEF GateAssumption, GateInv, TypeOK, LockInv, LateInv, ExitInv, NonceInv,
        SnapshotInv, SenderHolds, MainHolds, Senders, Pollers, Mains, SenderPcs,
        PollerPcs, MainPcs, Batches, Snapshots, At, Sleeping, Running
<1>1. ASSUME NEW b \in Batches, HotPublish(b)
      PROVE  GateInv'
  BY <1>1 DEF HotPublish
<1>2. ASSUME NEW gone \in BOOLEAN, ExchangeAccept(gone)
      PROVE  GateInv'
  <2>1. ahead' \in -1 .. MaxAhead /\ sender' \in Senders
    BY <1>2 DEF ExchangeAccept
  <2>2. resting' \in BOOLEAN /\ late' \in BOOLEAN
    BY <1>2 DEF ExchangeAccept
  <2>3. LockInv' /\ LateInv' /\ ExitInv' /\ NonceInv'
    BY <1>2 DEF ExchangeAccept
  <2>4. UNCHANGED <<lock, nonceOk, risk, mdFresh, halt, mailbox, poller, main>>
    BY <1>2 DEF ExchangeAccept
  <2>5. QED
    BY <2>1, <2>2, <2>3, <2>4
<1>3. CASE ExchangeLateFrame
  <2>1. ahead' \in -1 .. MaxAhead /\ sender' \in Senders
    BY <1>3 DEF ExchangeLateFrame
  <2>2. resting' \in BOOLEAN /\ late' \in BOOLEAN
    BY <1>3 DEF ExchangeLateFrame
  <2>3. LockInv' /\ LateInv' /\ ExitInv' /\ NonceInv'
    BY <1>3 DEF ExchangeLateFrame
  <2>4. QED
    BY <1>3, <2>1, <2>2, <2>3 DEF ExchangeLateFrame
<1>4. CASE ExchangeDrain
  <2>1. ahead' \in -1 .. MaxAhead /\ sender' \in Senders
    BY <1>4 DEF ExchangeDrain
  <2>2. resting' \in BOOLEAN /\ late' \in BOOLEAN
    BY <1>4 DEF ExchangeDrain
  <2>3. LockInv' /\ LateInv' /\ ExitInv' /\ NonceInv'
    BY <1>4 DEF ExchangeDrain
  <2>4. QED
    BY <1>4, <2>1, <2>2, <2>3 DEF ExchangeDrain
<1>5. CASE CooldownElapses
  <2>1. risk' \in RiskType /\ (risk'.reconcileOk => risk.reconcileOk)
    BY <1>5 DEF CooldownElapses, RiskType
  <2>2. QED
    BY <1>5, <2>1 DEF CooldownElapses
<1>6. ASSUME NEW fresh \in BOOLEAN, MarketData(fresh)
      PROVE  GateInv'
  BY <1>6 DEF MarketData
<1>7. QED
  BY <1>1, <1>2, <1>3, <1>4, <1>5, <1>6 DEF Environment

(* GateInv holds in every state of the sender, poller and shutdown.        *)
THEOREM GateInvariantHolds == Spec => []GateInv
<1>1. Init => GateInv
  BY InitInv
<1>2. GateInv /\ [Next]_vars => GateInv'
  <2> SUFFICES ASSUME GateInv, [Next]_vars PROVE GateInv'
    OBVIOUS
  <2>1. CASE Next
    BY <2>1, SenderKeepsInv, PollerKeepsInv, MainKeepsInv, EnvironmentKeepsInv DEF Next
  <2>2. CASE UNCHANGED vars
    BY <2>2 DEF vars, GateInv, TypeOK, LockInv, LateInv, ExitInv, NonceInv, SnapshotInv
  <2>3. QED
    BY <2>1, <2>2
<1>3. QED
  BY <1>1, <1>2, PTL DEF Spec

-----------------------------------------------------------------------------
(* THE PROPERTIES                                                          *)

(* The type invariant; the bound on the nonce counter is the part of it    *)
(* that needs the rest of GateInv (no rollback without a reservation).     *)
THEOREM TypeCorrect == Spec => []TypeOK
<1>1. GateInv => TypeOK
  BY DEF GateInv
<1>2. QED
  BY <1>1, GateInvariantHolds, PTL

(* Unless a frame can land after its timeout, an exit that verified a flat *)
(* book leaves no order resting, however sender, poller and shutdown       *)
(* interleave.                                                             *)
THEOREM ShutdownIsFlat ==
    ASSUME ~LateFrames PROVE Spec => []FlatAfterShutdown
<1>1. GateInv => FlatAfterShutdown
  BY DEF GateInv, ExitInv, FlatAfterShutdown
<1>2. QED
  BY <1>1, GateInvariantHolds, PTL

(* Unless a frame can land after its timeout or a refresh fails unnoticed, *)
(* a trusted nonce is the one the exchange expects whenever sdk_lock is    *)
(* free.                                                                   *)
THEOREM TrustedNonce ==
    ASSUME ~LateFrames, ~LostRefresh PROVE Spec => []TrustedNonceIsInSync
<1>1. GateInv => TrustedNonceIsInSync
  BY DEF GateInv, LockInv, SenderHolds, NonceInv, TrustedNonceIsInSync
<1>2. QED
  BY <1>1, GateInvariantHolds, PTL

(* A pause ends only when the last reconcile was clean.                    *)
LEMMA ResumeNeedsReconcileOk ==
    ASSUME GateInv, Next, Resumes PROVE risk.reconcileOk
<1>1. risk \in RiskType /\ mdFresh \in BOOLEAN
  BY DEF GateInv, TypeOK
<1>2. risk.armed /\ ~risk'.armed
  BY DEF Resumes
<1>3. CASE risk' = MaybeRecover(risk, mdFresh)
  BY <1>1, <1>2, <1>3, MaybeRecoverFacts
<1>4. CASE SenderStep
  <2>1. CASE SenderTick \/ SenderTake
    BY <1>3, <2>1 DEF SenderTick, SenderTake
  <2>2. CASE SenderOk
    BY <1>1, <1>2, <2>2, PauseAndSuccess DEF SenderOk
  <2>3. CASE SenderRateLimited
    BY <1>1, <1>2, <2>3, RecordRejectionFacts DEF SenderRateLimited
  <2>4. ASSUME NEW r \in RiskType, r.armed, NEW ok \in BOOLEAN
        PROVE  ResyncRisk(r, ok) \in RiskType /\ ResyncRisk(r, ok).armed
    BY <2>4, PauseAndSuccess, MarkReconcileFacts DEF ResyncRisk
  <2>5. RecordRejection(risk) \in RiskType /\ RecordRejection(risk).armed
    BY <1>1, <1>2, RecordRejectionFacts
  <2>6. ASSUME NEW ok \in BOOLEAN, NEW consumed \in BOOLEAN,
               SenderNonceRejected(ok) \/ SenderBusinessRejected(consumed, ok)
        PROVE  FALSE
    BY <1>2, <2>4, <2>5, <2>6 DEF SenderNonceRejected, SenderBusinessRejected
  <2>7. ASSUME NEW ok \in BOOLEAN, SenderUnknown(ok)
        PROVE  FALSE
    BY <1>1, <1>2, <2>4, <2>7, PauseAndSuccess, MarkReconcileFacts DEF SenderUnknown
  <2>8. CASE UNCHANGED risk
    BY <1>2, <2>8
  <2>9. QED
    BY <1>4, <2>1, <2>2, <2>3, <2>6, <2>7, <2>8
    DEF SenderStep, SenderAbandon, SenderSend, SenderNotSent, SenderSettle, SenderCancelAll
<1>5. CASE PollerStep
  <2>1. CASE PollWake
    BY <1>1, <1>2, <2>1, ParkedFacts DEF PollWake
  <2>2. CASE PollFail
    BY <1>1, <1>2, <2>2, MarkReconcileFacts, PauseIfStreakFacts DEF PollFail
  <2>3. CASE PollRecord
    BY <1>1, <1>2, <2>3, MarkReconcileFacts, PauseIfStreakFacts, PauseAndSuccess
    DEF PollRecord, Judged
  <2>4. CASE UNCHANGED risk
    BY <1>2, <2>4
  <2>5. QED
    BY <1>5, <2>1, <2>2, <2>3, <2>4
    DEF PollerStep, PollDone, PollFetch, PollResync, PollCancelOrphan, PollDeadMan, PollOverCap
<1>6. CASE MainStep
  BY <1>2, <1>6 DEF MainStep, MainSignal, MainLock, MainCancelAll
<1>7. CASE Environment
  <2>1. CASE CooldownElapses
    BY <1>1, <1>2, <2>1 DEF CooldownElapses, RiskType
  <2>2. CASE UNCHANGED risk
    BY <1>2, <2>2
  <2>3. QED
    BY <1>7, <2>1, <2>2
    DEF Environment, HotPublish, ExchangeAccept, ExchangeLateFrame, ExchangeDrain, MarketData
<1>8. QED
  BY <1>4, <1>5, <1>6, <1>7 DEF Next

(* The sender never resumes trading while the poller acts on a snapshot    *)
(* with orphans or too many orders, wherever the two interleave.           *)
THEOREM DirtySnapshotBlocksResume == Spec => NoResumeOnDirtySnapshot
<1> DEFINE Clean == poller.pc \in {"overCap", "resync", "orphans"} => poller.snap = "clean"
<1>1. GateInv /\ [Next]_vars => [Resumes => Clean]_vars
  BY ResumeNeedsReconcileOk DEF GateInv, SnapshotInv
<1>2. [Resumes => Clean]_vars
        => [Resumes /\ poller.pc \in {"overCap", "resync", "orphans"}
                => poller.snap = "clean"]_vars
  OBVIOUS
<1>3. QED
  BY <1>1, <1>2, GateInvariantHolds, PTL DEF Spec, NoResumeOnDirtySnapshot
=============================================================================
