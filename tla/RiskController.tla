--------------------------- MODULE RiskController ---------------------------
(***************************************************************************)
(* The circuit breaker of risk.rs as operators on its state.               *)
(*                                                                         *)
(* paused_until is two flags: armed is paused_until.is_some(), paused is   *)
(* is_paused(), the deadline still ahead.  A pause therefore starts armed  *)
(* and paused, the cooldown clears paused alone, and maybe_recover clears  *)
(* armed.  Counters stop at the threshold they are compared with; reasons  *)
(* and timestamps, which are only logged, are left out.                    *)
(*                                                                         *)
(* Operators named X_Fault are X with a plausible programming error; no    *)
(* specification uses them.  They show that a property notices the error.  *)
(***************************************************************************)
EXTENDS Integers

CONSTANTS
    MaxRejections,      \* max_consecutive_order_rejections; 0 disables
    Debounce            \* stale_order_debounce_count

ASSUME RiskAssumption == MaxRejections \in Nat /\ Debounce \in Nat \ {0}

RiskType == [armed       : BOOLEAN,
             paused      : BOOLEAN,
             reconcileOk : BOOLEAN,
             cancelDone  : BOOLEAN,
             rejections  : 0 .. MaxRejections,
             streak      : 0 .. Debounce]

NewRisk == [armed |-> FALSE, paused |-> FALSE, reconcileOk |-> TRUE,
            cancelDone |-> FALSE, rejections |-> 0, streak |-> 0]

UpTo(limit, n) == IF n < limit THEN n ELSE limit

TriggerPause_KeepDone_Fault(r) == [r EXCEPT !.armed = TRUE, !.paused = TRUE]

(* trigger_pause: the deadline only ever moves forward.                    *)
TriggerPause(r) ==
    [r EXCEPT !.armed = TRUE, !.paused = TRUE, !.cancelDone = FALSE]

RecordSuccess(r) == [r EXCEPT !.rejections = 0]

(* record_rejection: trips the breaker at the threshold.                   *)
RecordRejection(r) ==
    LET counted == [r EXCEPT !.rejections = UpTo(MaxRejections, @ + 1)]
    IN  IF MaxRejections > 0 /\ r.rejections + 1 >= MaxRejections
        THEN TriggerPause(counted)
        ELSE counted

MarkReconcile(r, ok) ==
    [r EXCEPT !.reconcileOk = ok, !.streak = IF ok THEN 0 ELSE UpTo(Debounce, @ + 1)]

(* pause_if_streak, after a failed mark_reconcile.                         *)
PauseIfStreak(r) == IF r.streak >= Debounce THEN TriggerPause(r) ELSE r

(* maybe_recover: the condition under which an elapsed pause is cleared,   *)
(* the state it leaves behind and whether trading may proceed.             *)
Recovers(r, healthy) == r.armed /\ ~r.paused /\ r.reconcileOk /\ healthy

MaybeRecover(r, healthy) ==
    IF Recovers(r, healthy)
    THEN [r EXCEPT !.armed = FALSE, !.rejections = 0, !.cancelDone = FALSE]
    ELSE r

MayTrade(r, healthy) == ~r.armed \/ Recovers(r, healthy)
=============================================================================
