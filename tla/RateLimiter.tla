----------------------------- MODULE RateLimiter ----------------------------
(***************************************************************************)
(* exec/rate_limit.rs and its use by the sender: the sliding window of     *)
(* recorded ops, the 429 backoff with its escalation, the send-interval    *)
(* floors, the quota bands, and write_slot, which sleeps them out or       *)
(* refuses the batch.                                                      *)
(*                                                                         *)
(* The sender owns the limiter, so nothing changes it while write_slot     *)
(* sleeps and the wait is known when the gate is entered; the phases are   *)
(* not checked again afterwards.  Instants are kept as ages or as time     *)
(* left, in ticks; an age stops where no comparison can tell it apart.     *)
(*                                                                         *)
(* Definitions named X_Fault are X with a plausible programming error; no  *)
(* specification uses them.                                                *)
(***************************************************************************)
EXTENDS Integers, Sequences, FiniteSetsExt

CONSTANTS
    Budget, Window,             \* RL_OPS_PER_WINDOW, RL_WINDOW_SECONDS
    WindowSkip, BackoffSleep,   \* longest waits before the batch is skipped
    BackoffBase, BackoffMax,    \* RL_BACKOFF_BASE, RL_BACKOFF_MAX
    ResetAfter, Decay,          \* RL_BACKOFF_RESET_AFTER, BACKOFF_DECAY_SECS
    SendInterval, CancelInterval, FreeSlot,
    MaxBatch,                   \* bound: ops of one batch
    TopLevel                    \* bound: from this level on the backoff is BackoffMax

ASSUME LimiterAssumption ==
    /\ {Budget, Window, BackoffBase, ResetAfter, MaxBatch, TopLevel} \subseteq Nat \ {0}
    /\ {WindowSkip, BackoffSleep, BackoffMax, Decay} \subseteq Nat
    /\ {SendInterval, CancelInterval, FreeSlot} \subseteq Nat
    /\ MaxBatch <= Budget

VARIABLES
    window,     \* ages of the recorded ops, oldest first
    last,       \* age of last_send
    backoff,    \* time left until global_backoff_until
    level,      \* backoff_level
    successes,  \* consecutive_successes
    trigger,    \* age of last_backoff_trigger
    quota,      \* band of volume_quota_remaining
    sender,     \* the batch in the gate or on the wire
    seen        \* history: ages of the sends the exchange answered, per op

vars == <<window, last, backoff, level, successes, trigger, quota, sender, seen>>

Bands == {"high", "medium", "low", "critical"}
Idle == [pc |-> "idle", ops |-> 0, cancel |-> FALSE, wait |-> 0, age |-> 0]

Later(a, limit) == IF a < limit THEN a + 1 ELSE a
Copies(n, a) == [i \in 1 .. n |-> a]
Least(a, b) == IF a <= b THEN a ELSE b

(* The send interval is stretched by 1, 1.5 or 3 (rounded up to a tick);   *)
(* a critical quota waits for the free slot.                               *)
Pace(floor, q) ==
    CASE q = "high"     -> floor
      [] q = "medium"   -> (3 * floor + 1) \div 2
      [] q = "low"      -> 3 * floor
      [] q = "critical" -> Max({floor, FreeSlot})

LastCap == Max({CancelInterval, FreeSlot, 3 * SendInterval})

BackoffFor(l) == Least(BackoffBase * 2 ^ (l - 1), BackoffMax)

(* Levels beyond TopLevel all mean BackoffMax.                             *)
ASSUME LevelAssumption ==
    /\ BackoffFor(TopLevel) = BackoffMax
    /\ \A l \in 1 .. TopLevel : 2 ^ (l - 1) > 0

Init ==
    /\ window = <<>> /\ last = LastCap
    /\ backoff = 0 /\ level = 0 /\ successes = 0 /\ trigger = Decay + 1
    /\ quota = "high"
    /\ sender = Idle
    /\ seen = <<>>

-----------------------------------------------------------------------------
(* THE WINDOW                                                              *)

(* How many of the oldest entries are older than limit; popping from the   *)
(* front stops at the first that is not.                                   *)
Expired(w, limit) ==
    CHOOSE k \in 0 .. Len(w) : /\ \A i \in 1 .. k : w[i] > limit
                               /\ k < Len(w) => w[k + 1] <= limit

DropExpired(w, limit) == SubSeq(w, Expired(w, limit) + 1, Len(w))

(* prune_op_window: an op exactly Window old still counts.                 *)
Prune(w) == DropExpired(w, Window)

Available(w) == Max({0, Budget - Len(w)})

TimeUntilOpsFree_EarlyIndex_Fault(w, n) ==
    LET i == Len(w) - (Budget - n) - 1
    IN  IF w = <<>> \/ Len(w) + n <= Budget THEN 0
        ELSE Max({0, Window - w[Max({1, Least(i, Len(w))})]})

(* time_until_ops_free: the index is the code's, counted from 1.           *)
TimeUntilOpsFree(w, n) ==
    LET i == Len(w) - (Budget - n) + 1
    IN  IF w = <<>> \/ Len(w) + n <= Budget THEN 0
        ELSE Max({0, Window - w[Least(i, Len(w))]})

-----------------------------------------------------------------------------
(* THE GATE                                                                *)

Older(w, t) == [i \in 1 .. Len(w) |-> w[i] + t]
Aged(w, t) == Prune(Older(w, t))

(* The sleeps of phases 1 and 2; the interval and the quota pace of phases *)
(* 3 and 4 count from the last send, and t of it has been slept by then.   *)
Phase1 == backoff
Phase2(n) ==
    LET w == Aged(window, Phase1)
    IN  IF Available(w) < n THEN TimeUntilOpsFree(w, n) ELSE 0

Phase34_NoCheck_Fault(t, cancel) ==
    LET floor == IF cancel THEN CancelInterval ELSE SendInterval
        gap   == IF cancel THEN floor ELSE Pace(floor, quota)
    IN  t + (gap - Least(last + t, LastCap))

Phase34(t, cancel) ==
    LET floor == IF cancel THEN CancelInterval ELSE SendInterval
        gap   == IF cancel THEN floor ELSE Pace(floor, quota)
    IN  Max({t, gap - last})

Refused_Critical_Fault(n) ==
    Phase1 > BackoffSleep \/ Phase2(n) > WindowSkip \/ quota = "critical"

Refused(n) == Phase1 > BackoffSleep \/ Phase2(n) > WindowSkip

(* write_slot lets the batch wait, or skips the cycle (a skip decided in   *)
(* phase 2 is taken at once, without the short sleep of phase 1).          *)
WriteSlot(n, cancel) ==
    /\ sender.pc = "idle"
    /\ sender' = IF Refused(n) THEN sender
                 ELSE [pc |-> "gate", ops |-> n, cancel |-> cancel,
                       wait |-> Phase34(Phase1 + Phase2(n), cancel), age |-> 0]
    /\ UNCHANGED <<window, last, backoff, level, successes, trigger, quota, seen>>

(* The batch is dropped after the gate (halt, sign failure).               *)
Abandon ==
    /\ sender.pc = "gate"
    /\ sender' = Idle
    /\ UNCHANGED <<window, last, backoff, level, successes, trigger, quota, seen>>

Send ==
    /\ sender.pc = "gate" /\ sender.wait = 0
    /\ sender' = [sender EXCEPT !.pc = "sent"]
    /\ UNCHANGED <<window, last, backoff, level, successes, trigger, quota, seen>>

-----------------------------------------------------------------------------
(* OUTCOMES                                                                *)

(* record_ops_sent: the ops count from the answer, not from the send.      *)
RecordOpsSent ==
    /\ window' = window \o Copies(sender.ops, 0)
    /\ last' = 0
    /\ seen' = seen \o Copies(sender.ops, sender.age)
    /\ sender' = Idle

(* reset_global_backoff: two successes, or one after the decay, end the    *)
(* escalation.                                                             *)
ResetGlobalBackoff ==
    LET ends == level > 0 /\ (trigger > Decay \/ successes + 1 >= ResetAfter)
    IN  /\ level' = IF ends THEN 0 ELSE level
        /\ successes' = IF ends THEN 0 ELSE Later(successes, ResetAfter)
        /\ UNCHANGED <<backoff, trigger>>

Ok(q) ==
    /\ sender.pc = "sent"
    /\ RecordOpsSent
    /\ ResetGlobalBackoff
    /\ quota' = q

TriggerGlobalBackoff_OldLevel_Fault ==
    /\ level' = Least(level + 1, TopLevel)
    /\ successes' = 0
    /\ trigger' = 0
    /\ backoff' = IF level = 0 THEN 0 ELSE BackoffFor(level)

TriggerGlobalBackoff ==
    /\ level' = Least(level + 1, TopLevel)
    /\ successes' = 0
    /\ trigger' = 0
    /\ backoff' = BackoffFor(level')

RateLimited ==
    /\ sender.pc = "sent"
    /\ RecordOpsSent
    /\ TriggerGlobalBackoff
    /\ UNCHANGED quota

(* Quota (which forces the quota to 0) and the other rejections.           *)
Rejected(q) ==
    /\ sender.pc = "sent"
    /\ q \in {quota, "critical"}
    /\ RecordOpsSent
    /\ quota' = q
    /\ UNCHANGED <<backoff, level, successes, trigger>>

(* Unknown and NotSent: nothing is recorded.                               *)
Unanswered ==
    /\ sender.pc = "sent"
    /\ sender' = Idle
    /\ UNCHANGED <<window, last, backoff, level, successes, trigger, quota, seen>>

-----------------------------------------------------------------------------
Tick ==
    /\ window' = Aged(window, 1)
    /\ last' = Later(last, LastCap)
    /\ backoff' = Max({0, backoff - 1})
    /\ trigger' = Later(trigger, Decay + 1)
    /\ sender' = [sender EXCEPT !.wait = Max({0, @ - 1}),
                                !.age = IF sender.pc = "sent" THEN Later(@, Window) ELSE 0]
    /\ seen' = DropExpired(Older(seen, 1), Window - 1)
    /\ UNCHANGED <<level, successes, quota>>

Ask == \E n \in 1 .. MaxBatch, cancel \in BOOLEAN : WriteSlot(n, cancel)
Answer ==
    \/ \E q \in Bands : Ok(q) \/ Rejected(q)
    \/ RateLimited \/ Unanswered

Next == Ask \/ Abandon \/ Send \/ Answer \/ Tick

(* The hot task keeps publishing batches, sleeps end, awaits time out.     *)
Spec == Init /\ [][Next]_vars
FairSpec == Spec /\ WF_vars(Tick) /\ WF_vars(Ask) /\ SF_vars(Send) /\ WF_vars(Answer)

-----------------------------------------------------------------------------
Ages(limit) == 0 .. limit

(* The shape of every variable of the model.                               *)
TypeOK ==
    /\ window \in Seq(Ages(Window)) /\ seen \in Seq(Ages(Window))
    /\ last \in Ages(LastCap) /\ trigger \in Ages(Decay + 1)
    /\ backoff \in 0 .. BackoffMax /\ level \in 0 .. TopLevel
    /\ successes \in 0 .. ResetAfter
    /\ quota \in Bands
    /\ sender \in [pc : {"idle", "gate", "sent"}, ops : 0 .. MaxBatch, cancel : BOOLEAN,
                   wait : Nat, age : Ages(Window)]

(* Ops on the wire that are younger than the window.                       *)
InFlight == IF sender.pc = "sent" /\ sender.age < Window THEN sender.ops ELSE 0

(* "The binding limit is [...] 40 ops / rolling 60 s window": counted at   *)
(* the moment they were sent, the ops the exchange answered never exceed   *)
(* it, although write_slot checks only once, before its sleeps, and ops    *)
(* are recorded only when their answer arrives.                            *)
WindowRespected == Len(seen) + InFlight <= Budget

(* After the k-th 429 in a row nothing is sent for BackoffFor(k), so two   *)
(* 429s are at least that far apart and never meet inside one backoff.     *)
BackoffIsServed ==
    [][sender.pc = "gate" /\ sender'.pc = "sent" /\ level > 0
         => trigger >= Least(BackoffFor(level), Decay + 1)]_vars

(* Skipped cycles are not skipped for ever: window, backoff, escalation    *)
(* and quota pacing let a batch through again and again, whatever the      *)
(* exchange answers.                                                       *)
NoStarvation == []<>(sender.pc = "sent")
=============================================================================
