---------------------------- MODULE TradingGate -----------------------------
(***************************************************************************)
(* Who may send, and with which nonce: the sender, the reconcile poller    *)
(* and the shutdown path share sdk_lock, the optimistic nonce, nonce_ok,   *)
(* the risk controller and the halt flag.                                  *)
(*                                                                         *)
(* Sources: exec/paced_send.rs, lighter/nonce.rs, risk.rs (RiskController) *)
(* and in orchestrator.rs the poller, cancel_all_and_verify and the        *)
(* shutdown of App::run.  What the orders are is the subject of            *)
(* LiveOrders; here a batch is a "trade" or cancel-only, and the exchange  *)
(* either has orders of ours resting or has none.                          *)
(*                                                                         *)
(* The nonce counter is kept as its distance to the exchange: ahead is     *)
(* next() minus the nonce the exchange expects, 0 when in sync.  The       *)
(* nonces of one batch are reserved, consumed and rolled back together, so *)
(* they count as one.                                                      *)
(*                                                                         *)
(* Definitions named X_Fault are X with a plausible programming error; no  *)
(* specification uses them.                                                *)
(***************************************************************************)
EXTENDS RiskController

CONSTANTS
    MaxAhead,           \* bound: how far the counter may run ahead
    LateFrames,         \* TRUE: a frame may land after its timeout
    LostRefresh         \* TRUE: the refresh inside cancel-all may fail

ASSUME GateAssumption ==
    /\ MaxAhead \in Nat \ {0}
    /\ LateFrames \in BOOLEAN /\ LostRefresh \in BOOLEAN

VARIABLES
    lock,       \* owner of sdk_lock
    ahead,      \* NonceManager, relative to the exchange
    nonceOk,    \* nonce_ok
    risk,       \* RiskController
    mdFresh,    \* md_age below MD_HEALTH_MS and md_deadman_sec (both 10 s)
    halt,       \* set by shutdown
    mailbox,    \* latest unsent batch
    sender,     \* position in run and send_once, and the batch held
    poller,     \* position in the poll loop and the snapshot held
    main,       \* App::run after startup: position, and what it verified
    resting,    \* exchange: some order of ours rests
    late        \* exchange: a trade of unknown outcome may still land

vars == <<lock, ahead, nonceOk, risk, mdFresh, halt, mailbox, sender, poller,
          main, resting, late>>

Batches == {"none", "cancel", "trade"}
SenderPcs == {"idle", "gate", "wire", "landed", "settle", "cancelAll", "aborted"}
PollerPcs == {"sleep", "deadman", "fetch", "record", "overCap", "resync", "orphans"}
Snapshots == {"none", "clean", "orphans", "overCap"}
MainPcs == {"running", "locking", "cancelAll", "exited"}

Senders == [pc : SenderPcs, batch : Batches]
Pollers == [pc : PollerPcs, snap : Snapshots]
Mains == [pc : MainPcs, flat : BOOLEAN]
At(pc, b) == [pc |-> pc, batch |-> b]
Sleeping == [pc |-> "sleep", snap |-> "none"]

Running == main.pc # "exited"

(* Startup ends with a fetched nonce and a verified flat book.             *)
Init ==
    /\ lock = "free"
    /\ ahead = 0 /\ nonceOk = TRUE
    /\ risk = NewRisk
    /\ mdFresh = TRUE
    /\ halt = FALSE
    /\ mailbox = "none"
    /\ sender = At("idle", "none")
    /\ poller = Sleeping
    /\ main = [pc |-> "running", flat |-> FALSE]
    /\ resting = FALSE /\ late = FALSE

-----------------------------------------------------------------------------
(* NONCE AND CANCEL-ALL                                                    *)

(* hard_refresh from a counter that stands at a: in sync, or unchanged.    *)
Refreshed(a, ok) == IF ok THEN 0 ELSE a

(* resync_nonce_or_pause: what it leaves in nonce_ok and in the risk state.*)
ResyncRisk(r, ok) == IF ok THEN r ELSE TriggerPause(MarkReconcile(r, FALSE))

(* cancel_all_and_verify, up to five attempts in a row.  An accepted       *)
(* cancel empties the book and consumes the nonce a late frame would need; *)
(* the verification only asks whether the book is empty.  A failed attempt *)
(* leaves a reserved nonce behind when its refresh fails too; one call     *)
(* loses at most one here, and piles more up when it is called again.      *)
CancelAllAndVerify(cancelled, flat, lost) ==
    /\ lost => LostRefresh /\ ahead < MaxAhead
    /\ ahead' \in IF lost THEN {1, ahead + 1} ELSE {0}
    /\ resting' = (resting /\ ~cancelled)
    /\ late' = (late /\ ~cancelled)
    /\ flat => ~resting'

-----------------------------------------------------------------------------
(* HOT TASK: every batch replaces the one that is still unsent.            *)

HotPublish(b) ==
    /\ Running
    /\ mailbox' = b
    /\ UNCHANGED <<lock, ahead, nonceOk, risk, mdFresh, halt, sender, poller,
                   main, resting, late>>

-----------------------------------------------------------------------------
(* SENDER                                                                  *)

CanTrade == MayTrade(risk, mdFresh) /\ nonceOk
Passes(b) == b = "cancel" \/ (b = "trade" /\ CanTrade)

SenderTick_NeedsBatch_Fault ==
    /\ Running
    /\ sender.pc = "idle" /\ mailbox # "none"
    /\ risk' = MaybeRecover(risk, mdFresh)
    /\ UNCHANGED <<lock, ahead, nonceOk, mdFresh, halt, mailbox, sender, poller,
                   main, resting, late>>

(* Recovery is attempted on every wake, with or without a batch.           *)
SenderTick ==
    /\ Running
    /\ sender.pc = "idle"
    /\ risk' = MaybeRecover(risk, mdFresh)
    /\ UNCHANGED <<lock, ahead, nonceOk, mdFresh, halt, mailbox, sender, poller,
                   main, resting, late>>

(* A new batch: dropped during shutdown or, unless cancel-only, while      *)
(* trading is not allowed.                                                 *)
SenderTake ==
    /\ Running
    /\ sender.pc = "idle" /\ mailbox # "none"
    /\ risk' = MaybeRecover(risk, mdFresh)
    /\ mailbox' = "none"
    /\ sender' = IF ~halt /\ Passes(mailbox) THEN At("gate", mailbox) ELSE sender
    /\ UNCHANGED <<lock, ahead, nonceOk, mdFresh, halt, poller, main, resting, late>>

(* write_slot refuses, halt was set in the meantime, or signing failed and *)
(* rolled its nonces back.                                                 *)
SenderAbandon ==
    /\ Running
    /\ sender.pc = "gate"
    /\ sender' = At("idle", "none")
    /\ UNCHANGED <<lock, ahead, nonceOk, risk, mdFresh, halt, mailbox, poller,
                   main, resting, late>>

(* sdk_lock, the halt re-check, sign_batch and the send.                   *)
SenderSend ==
    /\ Running
    /\ sender.pc = "gate"
    /\ lock = "free" /\ ~halt
    /\ ahead < MaxAhead
    /\ lock' = "sender"
    /\ ahead' = ahead + 1
    /\ sender' = [sender EXCEPT !.pc = "wire"]
    /\ UNCHANGED <<nonceOk, risk, mdFresh, halt, mailbox, poller, main, resting, late>>

SenderReturns ==
    /\ lock' = "free"
    /\ sender' = At("idle", "none")

SenderOk_KeepLock_Fault ==
    /\ Running
    /\ sender.pc = "landed"
    /\ risk' = RecordSuccess(risk)
    /\ sender' = At("idle", "none")
    /\ UNCHANGED <<lock, ahead, nonceOk, mdFresh, halt, mailbox, poller, main, resting, late>>

SenderOk ==
    /\ Running
    /\ sender.pc = "landed"
    /\ risk' = RecordSuccess(risk)
    /\ SenderReturns
    /\ UNCHANGED <<ahead, nonceOk, mdFresh, halt, mailbox, poller, main, resting, late>>

SenderNotSent_Twice_Fault ==
    /\ Running
    /\ sender.pc = "wire"
    /\ ahead' = ahead - 2
    /\ SenderReturns
    /\ UNCHANGED <<nonceOk, risk, mdFresh, halt, mailbox, poller, main, resting, late>>

(* No frame was written: roll the reservation back.                        *)
SenderNotSent ==
    /\ Running
    /\ sender.pc = "wire"
    /\ ahead' = ahead - 1
    /\ SenderReturns
    /\ UNCHANGED <<nonceOk, risk, mdFresh, halt, mailbox, poller, main, resting, late>>

SenderRateLimited_NoRollback_Fault ==
    /\ Running
    /\ sender.pc = "wire"
    /\ risk' = RecordRejection(risk)
    /\ sender' = [sender EXCEPT !.pc = "settle"]
    /\ UNCHANGED <<lock, ahead, nonceOk, mdFresh, halt, mailbox, poller, main, resting, late>>

(* 429: rejected before the nonce was consumed, local rollback only.       *)
SenderRateLimited ==
    /\ Running
    /\ sender.pc = "wire"
    /\ ahead' = ahead - 1
    /\ risk' = RecordRejection(risk)
    /\ sender' = [sender EXCEPT !.pc = "settle"]
    /\ UNCHANGED <<lock, nonceOk, mdFresh, halt, mailbox, poller, main, resting, late>>

(* Invalid nonce: the counter must be refreshed, or trading pauses.        *)
SenderNonceRejected(ok) ==
    /\ Running
    /\ sender.pc = "wire" /\ ahead # 1
    /\ ahead' = Refreshed(ahead, ok)
    /\ nonceOk' = ok
    /\ risk' = ResyncRisk(RecordRejection(risk), ok)
    /\ sender' = [sender EXCEPT !.pc = "settle"]
    /\ UNCHANGED <<lock, mdFresh, halt, mailbox, poller, main, resting, late>>

(* Quota, maker-only and other business rejections: whether the nonce was  *)
(* consumed is ambiguous, so roll back and refresh.                        *)
SenderBusinessRejected(consumed, ok) ==
    /\ Running
    /\ sender.pc = "wire" /\ ahead = 1
    /\ ahead' = Refreshed(IF consumed THEN -1 ELSE 0, ok)
    /\ late' = (late /\ ~consumed)
    /\ nonceOk' = ok
    /\ risk' = ResyncRisk(RecordRejection(risk), ok)
    /\ sender' = [sender EXCEPT !.pc = "settle"]
    /\ UNCHANGED <<lock, mdFresh, halt, mailbox, poller, main, resting>>

(* After a rejection: pull every order when trading is paused by now.      *)
SenderSettle ==
    /\ Running
    /\ sender.pc = "settle"
    /\ IF risk.paused
       THEN sender' = [sender EXCEPT !.pc = "cancelAll"] /\ UNCHANGED lock
       ELSE SenderReturns
    /\ UNCHANGED <<ahead, nonceOk, risk, mdFresh, halt, mailbox, poller, main,
                   resting, late>>

(* Unknown outcome: refresh, block the resume, pause and cancel all.  A    *)
(* trade that has not landed yet may still be under way.                   *)
SenderUnknown(ok) ==
    /\ Running
    /\ sender.pc \in {"wire", "landed"}
    /\ late' = (late \/ (LateFrames /\ sender = At("wire", "trade") /\ ahead = 1))
    /\ ahead' = Refreshed(ahead, ok)
    /\ nonceOk' = ok
    /\ risk' = TriggerPause(MarkReconcile(ResyncRisk(risk, ok), FALSE))
    /\ sender' = [sender EXCEPT !.pc = "cancelAll"]
    /\ UNCHANGED <<lock, mdFresh, halt, mailbox, poller, main, resting>>

SenderCancelAll(cancelled, flat, lost) ==
    /\ Running
    /\ sender.pc = "cancelAll"
    /\ CancelAllAndVerify(cancelled, flat, lost)
    /\ SenderReturns
    /\ UNCHANGED <<nonceOk, risk, mdFresh, halt, mailbox, poller, main>>

-----------------------------------------------------------------------------
(* EXCHANGE (external)                                                     *)

(* The exchange takes the frame on the wire: its nonce is the expected one.*)
(* A cancel-only batch may or may not have pulled the last order.          *)
ExchangeAccept(gone) ==
    /\ sender.pc = "wire" /\ ahead = 1
    /\ ahead' = 0
    /\ late' = FALSE
    /\ resting' = IF sender.batch = "trade" THEN TRUE ELSE resting /\ ~gone
    /\ sender' = [sender EXCEPT !.pc = "landed"]
    /\ UNCHANGED <<lock, nonceOk, risk, mdFresh, halt, mailbox, poller, main>>

(* The frame of an unknown outcome arrives after all; its nonce is still   *)
(* the expected one.                                                       *)
ExchangeLateFrame ==
    /\ late
    /\ ahead' = ahead - 1
    /\ late' = FALSE
    /\ resting' = TRUE
    /\ UNCHANGED <<lock, nonceOk, risk, mdFresh, halt, mailbox, sender, poller, main>>

(* Everything that rested was filled or expired.                           *)
ExchangeDrain ==
    /\ resting
    /\ resting' = FALSE
    /\ UNCHANGED <<lock, ahead, nonceOk, risk, mdFresh, halt, mailbox, sender,
                   poller, main, late>>

-----------------------------------------------------------------------------
(* RECONCILE POLLER.  Each stretch in which it holds sdk_lock is one       *)
(* action, so it never owns the lock between two steps.                    *)

(* Dead-man switch: stale market data fails the reconcile and arms a pause *)
(* unless one is running.                                                  *)
Parked(r) ==
    LET marked == MarkReconcile(r, FALSE)
    IN  IF marked.paused THEN marked ELSE TriggerPause(marked)

(* Wake-up; the dead-man switch asks for one cancel-all per pause.         *)
PollWake ==
    /\ Running
    /\ poller.pc = "sleep"
    /\ IF mdFresh
       THEN poller' = [poller EXCEPT !.pc = "fetch"] /\ UNCHANGED risk
       ELSE /\ risk' = [Parked(risk) EXCEPT !.cancelDone = TRUE]
            /\ poller' = [poller EXCEPT
                             !.pc = IF Parked(risk).cancelDone THEN "fetch" ELSE "deadman"]
    /\ UNCHANGED <<lock, ahead, nonceOk, mdFresh, halt, mailbox, sender, main,
                   resting, late>>

(* The dead-man cancel-all, whose result is ignored.                       *)
PollDeadMan(cancelled, flat, lost) ==
    /\ Running
    /\ poller.pc = "deadman" /\ lock = "free"
    /\ CancelAllAndVerify(cancelled, flat, lost)
    /\ poller' = [poller EXCEPT !.pc = "fetch"]
    /\ UNCHANGED <<lock, nonceOk, risk, mdFresh, halt, mailbox, sender, main>>

(* No auth token or no REST answer.                                        *)
PollFail ==
    /\ Running
    /\ poller.pc = "fetch"
    /\ risk' = PauseIfStreak(MarkReconcile(risk, FALSE))
    /\ poller' = Sleeping
    /\ UNCHANGED <<lock, ahead, nonceOk, mdFresh, halt, mailbox, sender, main,
                   resting, late>>

(* The snapshot as the exchange saw it, then compared with the tracked ids.*)
PollFetch(snap) ==
    /\ Running
    /\ poller.pc = "fetch"
    /\ snap # "clean" => resting
    /\ poller' = [pc |-> "record", snap |-> snap]
    /\ UNCHANGED <<lock, ahead, nonceOk, risk, mdFresh, halt, mailbox, sender,
                   main, resting, late>>

(* What a snapshot does to the risk state: in bounds and free of orphans,  *)
(* with orphans, or more orders than max_live.                             *)
Judged(r, snap) ==
    CASE snap = "clean"   -> MarkReconcile(r, TRUE)
      [] snap = "orphans" -> PauseIfStreak(MarkReconcile(r, FALSE))
      [] OTHER            -> TriggerPause(MarkReconcile(r, FALSE))

PollRecord_OnlyClean_Fault ==
    /\ Running
    /\ poller.pc = "record"
    /\ risk' = IF poller.snap = "clean" THEN MarkReconcile(risk, TRUE) ELSE risk
    /\ poller' = [poller EXCEPT !.pc = IF poller.snap = "overCap" THEN "overCap" ELSE "resync"]
    /\ UNCHANGED <<lock, ahead, nonceOk, mdFresh, halt, mailbox, sender, main,
                   resting, late>>

(* The health of the snapshot is recorded before any further await.        *)
PollRecord ==
    /\ Running
    /\ poller.pc = "record"
    /\ risk' = Judged(risk, poller.snap)
    /\ poller' = [poller EXCEPT !.pc = IF poller.snap = "overCap" THEN "overCap" ELSE "resync"]
    /\ UNCHANGED <<lock, ahead, nonceOk, mdFresh, halt, mailbox, sender, main,
                   resting, late>>

PollOverCap(cancelled, flat, lost) ==
    /\ Running
    /\ poller.pc = "overCap" /\ lock = "free"
    /\ CancelAllAndVerify(cancelled, flat, lost)
    /\ poller' = Sleeping
    /\ UNCHANGED <<lock, nonceOk, risk, mdFresh, halt, mailbox, sender, main>>

PollResync_NoFlag_Fault(ok) ==
    /\ Running
    /\ poller.pc = "resync"
    /\ ~nonceOk => lock = "free"
    /\ ahead' = IF nonceOk THEN ahead ELSE Refreshed(ahead, ok)
    /\ poller' = IF poller.snap = "orphans" THEN [poller EXCEPT !.pc = "orphans"] ELSE Sleeping
    /\ UNCHANGED <<lock, nonceOk, risk, mdFresh, halt, mailbox, sender, main, resting, late>>

(* An untrusted nonce is refreshed under sdk_lock.                         *)
PollResync(ok) ==
    /\ Running
    /\ poller.pc = "resync"
    /\ ~nonceOk => lock = "free"
    /\ ahead' = IF nonceOk THEN ahead ELSE Refreshed(ahead, ok)
    /\ nonceOk' = (nonceOk \/ ok)
    /\ poller' = IF poller.snap = "orphans" THEN [poller EXCEPT !.pc = "orphans"] ELSE Sleeping
    /\ UNCHANGED <<lock, risk, mdFresh, halt, mailbox, sender, main, resting, late>>

(* One orphan cancel under sdk_lock, taken by the exchange or not.  Unless *)
(* the answer is a success the nonce is refreshed; not ok is a failed      *)
(* refresh, which clears nonce_ok.                                         *)
PollCancelOrphan(taken, gone, ok) ==
    /\ Running
    /\ poller.pc = "orphans" /\ lock = "free"
    /\ taken => ahead = 0
    /\ ~taken /\ ~ok => ahead < MaxAhead
    /\ ahead' = Refreshed(IF taken THEN 0 ELSE ahead + 1, ok)
    /\ nonceOk' = (nonceOk /\ ok)
    /\ resting' = (resting /\ ~(taken /\ gone))
    /\ late' = (late /\ ~taken)
    /\ UNCHANGED <<lock, risk, mdFresh, halt, mailbox, sender, poller, main>>

PollDone ==
    /\ Running
    /\ poller.pc = "orphans"
    /\ poller' = Sleeping
    /\ UNCHANGED <<lock, ahead, nonceOk, risk, mdFresh, halt, mailbox, sender,
                   main, resting, late>>

-----------------------------------------------------------------------------
(* SHUTDOWN: halt, sdk_lock, abort the sender, cancel all, exit.           *)

MainSignal ==
    /\ main.pc = "running"
    /\ halt' = TRUE
    /\ main' = [main EXCEPT !.pc = "locking"]
    /\ UNCHANGED <<lock, ahead, nonceOk, risk, mdFresh, mailbox, sender, poller,
                   resting, late>>

MainLock_NoWait_Fault ==
    /\ main.pc = "locking"
    /\ lock' = "main"
    /\ sender' = At("aborted", "none")
    /\ late' = (sender = At("wire", "trade") /\ ahead = 1)
    /\ main' = [main EXCEPT !.pc = "cancelAll"]
    /\ UNCHANGED <<ahead, nonceOk, risk, mdFresh, halt, mailbox, poller, resting>>

MainLock ==
    /\ main.pc = "locking" /\ lock = "free"
    /\ lock' = "main"
    /\ sender' = At("aborted", "none")
    /\ main' = [main EXCEPT !.pc = "cancelAll"]
    /\ UNCHANGED <<ahead, nonceOk, risk, mdFresh, halt, mailbox, poller, resting, late>>

MainCancelAll(cancelled, flat, lost) ==
    /\ main.pc = "cancelAll"
    /\ CancelAllAndVerify(cancelled, flat, lost)
    /\ main' = [pc |-> "exited", flat |-> flat]
    /\ UNCHANGED <<lock, nonceOk, risk, mdFresh, halt, mailbox, sender, poller>>

-----------------------------------------------------------------------------
(* TIME                                                                    *)

CooldownElapses ==
    /\ Running
    /\ risk.paused
    /\ risk' = [risk EXCEPT !.paused = FALSE]
    /\ UNCHANGED <<lock, ahead, nonceOk, mdFresh, halt, mailbox, sender, poller,
                   main, resting, late>>

MarketData(fresh) ==
    /\ Running
    /\ mdFresh' = fresh
    /\ UNCHANGED <<lock, ahead, nonceOk, risk, halt, mailbox, sender, poller,
                   main, resting, late>>

-----------------------------------------------------------------------------
SenderStep ==
    \/ SenderTick \/ SenderTake \/ SenderAbandon \/ SenderSend
    \/ SenderOk \/ SenderNotSent \/ SenderRateLimited \/ SenderSettle
    \/ \E ok \in BOOLEAN : SenderNonceRejected(ok) \/ SenderUnknown(ok)
    \/ \E consumed, ok \in BOOLEAN : SenderBusinessRejected(consumed, ok)
    \/ \E cancelled, flat, lost \in BOOLEAN : SenderCancelAll(cancelled, flat, lost)

PollerStep ==
    \/ PollWake \/ PollFail \/ PollRecord \/ PollDone
    \/ \E snap \in Snapshots \ {"none"} : PollFetch(snap)
    \/ \E ok \in BOOLEAN : PollResync(ok)
    \/ \E taken, gone, ok \in BOOLEAN : PollCancelOrphan(taken, gone, ok)
    \/ \E cancelled, flat, lost \in BOOLEAN :
         PollDeadMan(cancelled, flat, lost) \/ PollOverCap(cancelled, flat, lost)

MainStep ==
    \/ MainSignal \/ MainLock
    \/ \E cancelled, flat, lost \in BOOLEAN : MainCancelAll(cancelled, flat, lost)

Environment ==
    \/ \E b \in Batches : HotPublish(b)
    \/ \E gone \in BOOLEAN : ExchangeAccept(gone)
    \/ ExchangeLateFrame \/ ExchangeDrain
    \/ CooldownElapses
    \/ \E fresh \in BOOLEAN : MarketData(fresh)

Next == SenderStep \/ PollerStep \/ MainStep \/ Environment

Spec == Init /\ [][Next]_vars

-----------------------------------------------------------------------------
(* Every task keeps running and every await of the code times out.         *)
(* sdk_lock is a FIFO mutex, so whoever waits for it gets it; REST is not  *)
(* down for ever: polls, refreshes and cancel-alls that are tried again    *)
(* and again succeed in the end.                                           *)
Fairness ==
    /\ WF_vars(SenderStep \/ \E gone \in BOOLEAN : ExchangeAccept(gone))
    /\ WF_vars(PollWake) /\ WF_vars(PollRecord) /\ WF_vars(PollDone)
    /\ SF_vars(\E snap \in Snapshots \ {"none"} : PollFetch(snap))
    /\ SF_vars(PollResync(TRUE))
    /\ SF_vars(PollDeadMan(TRUE, TRUE, FALSE))
    /\ SF_vars(PollOverCap(TRUE, TRUE, FALSE))
    /\ SF_vars(MainLock)
    /\ WF_vars(MainCancelAll(TRUE, TRUE, FALSE))
    /\ WF_vars(CooldownElapses)

FairSpec == Spec /\ Fairness

-----------------------------------------------------------------------------
(* The shape of every variable of the model.                               *)
TypeOK ==
    /\ lock \in {"free", "sender", "main"}
    /\ ahead \in -1 .. MaxAhead
    /\ nonceOk \in BOOLEAN
    /\ risk \in RiskType
    /\ mdFresh \in BOOLEAN /\ halt \in BOOLEAN
    /\ mailbox \in Batches
    /\ sender \in Senders /\ poller \in Pollers /\ main \in Mains
    /\ resting \in BOOLEAN /\ late \in BOOLEAN

(* Shutdown: halt, then sdk_lock, then abort, then the verified cancel-all *)
(* leave no send that could land "AFTER our cancel-all verified zero - a   *)
(* resting orphan post-exit".                                              *)
FlatAfterShutdown == main.pc = "exited" /\ main.flat => ~resting

(* nonce_ok is "True iff the optimistic nonce is believed in-sync": when   *)
(* nobody is sending, a trusted counter is the one the exchange expects.   *)
TrustedNonceIsInSync == lock = "free" /\ nonceOk => ahead = 0

(* The pause ends.                                                         *)
Resumes == risk.armed /\ ~risk'.armed

(* The poller records a dirty snapshot before it awaits anything, so that  *)
(* a parked sender cannot recover while the snapshot is acted upon.        *)
NoResumeOnDirtySnapshot ==
    [][Resumes /\ poller.pc \in {"overCap", "resync", "orphans"} => poller.snap = "clean"]_vars

(* "While not allowed to trade, place NO new orders": no batch but a       *)
(* cancel-only one goes out during a pause or on an untrusted nonce.  The  *)
(* code breaks this by the two awaits between check and send (README,      *)
(* known limits), so that no passing run states it.                        *)
NoTradeUnlessAllowed ==
    [][sender.pc = "gate" /\ sender'.pc = "wire" /\ (risk.paused \/ ~nonceOk)
         => sender.batch = "cancel"]_vars

(* Dead-man switch: "a stalled market-data feed must never leave stale     *)
(* quotes resting".                                                        *)
DeadManPullsQuotes ==
    (~mdFresh /\ resting) ~> (mdFresh \/ ~resting \/ ~Running)

(* The poller re-syncs an untrusted nonce once REST is reachable.          *)
NonceIsResynced == ~nonceOk ~> (nonceOk \/ ~Running)

(* The recovery tick: a quiet mailbox does not leave trading parked once   *)
(* the cooldown is over, the last reconcile was clean and data is fresh.   *)
ParkedWhileHealthy == Running /\ ~halt /\ Recovers(risk, mdFresh)
RecoversWhenHealthy == []<>~ParkedWhileHealthy

(* Shutdown gets sdk_lock and exits, whatever the sender and poller do.    *)
ShutdownCompletes == halt ~> ~Running
=============================================================================
