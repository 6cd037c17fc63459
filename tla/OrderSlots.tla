----------------------------- MODULE OrderSlots -----------------------------
(***************************************************************************)
(* The slot table of exec/order_manager.rs as operators on one slot.       *)
(*                                                                         *)
(* OrderManager keeps one OrderSlot per (side, level).  Every operation    *)
(* below reads and writes a single slot, so a slot is modelled once and    *)
(* the table is a function from slots to slots.  A slot numbers its own    *)
(* client order ids 1, 2, ...: the generator never hands the same id out   *)
(* twice, so "the n-th order created for slot s" names an order; 0 is      *)
(* Option::None and the wildcard of ClearLive.                             *)
(*                                                                         *)
(* Prices are left out (a quote either moved past the requote threshold or *)
(* did not).  Sizes are counted in amount ticks.  updated_at is the age of *)
(* the slot in clock ticks, which stops at Grace.  Placing and Modifying   *)
(* are one status, Pending: no code path tells them apart.                 *)
(*                                                                         *)
(* Operators named X_Fault are X with a plausible programming error; no    *)
(* specification uses them.  They show that a property notices the error.  *)
(***************************************************************************)
EXTENDS Integers

CONSTANTS
    MaxId,          \* bound: orders a slot may create
    BaseSize,       \* size of a fresh quote, in amount ticks
    Grace           \* the reconcile grace (5 s), in clock ticks

ASSUME BoundsAssumption ==
    MaxId \in Nat \ {0} /\ BaseSize \in Nat \ {0} /\ Grace \in Nat \ {0}

NoId == 0
Ids == 1 .. MaxId
Sizes == 0 .. BaseSize

AmountTick == 1                       \* the tolerance of apply_fill
MissingReconcileDebounce == 2

Statuses == {"Idle", "Pending", "Live", "Canceling"}

SlotType == [id     : Ids \cup {NoId},
             size   : Sizes,
             status : Statuses,
             miss   : 0 .. MissingReconcileDebounce,
             age    : 0 .. Grace]

IdleSlot == [id |-> NoId, size |-> 0, status |-> "Idle", miss |-> 0, age |-> 0]

-----------------------------------------------------------------------------
(* Operations emitted for one slot (BatchOp without its price)             *)

Actions == {"none", "create", "modify", "cancel"}
OpType == [act : Actions, id : Ids \cup {NoId}, size : Sizes]

NoOp == [act |-> "none", id |-> NoId, size |-> 0]
CreateOp(n) == [act |-> "create", id |-> n, size |-> BaseSize]
ModifyOp(n) == [act |-> "modify", id |-> n, size |-> BaseSize]
CancelOp(n) == [act |-> "cancel", id |-> n, size |-> 0]

(* What the quote engine wants of a slot: no quote at all, the quote it    *)
(* already shows, or one that moved past the requote threshold.            *)
Wants == {"none", "same", "moved"}

(* collect_order_operations for one slot.  mapped is the set of client ids *)
(* with a known exchange id, next the id a create would get, hold the      *)
(* post-fill settle window in which only creates are emitted.              *)
CollectOp(sl, want, hold, mapped, next) ==
    CASE want # "none" /\ sl.id = NoId
           -> CreateOp(next)
      [] want = "none" /\ ~hold /\ sl.id \in mapped
           -> CancelOp(sl.id)
      [] want # "none" /\ ~hold /\ sl.id \in mapped
           /\ (want = "moved" \/ sl.size # BaseSize)
           -> ModifyOp(sl.id)
      [] OTHER -> NoOp

(* collect_cancel_ops for one slot: the live gate pulls the ladder.        *)
CollectCancelOp(sl, mapped) ==
    IF sl.status # "Canceling" /\ sl.id \in mapped THEN CancelOp(sl.id) ELSE NoOp

-----------------------------------------------------------------------------
(* Slot mutations                                                          *)

Touch(sl) == [sl EXCEPT !.miss = 0, !.age = 0]

(* mark_pending: occupy the slot the moment the operation is emitted.      *)
MarkPending(sl, op) ==
    CASE op.act = "create"
           -> Touch([sl EXCEPT !.id = op.id, !.size = op.size, !.status = "Pending"])
      [] op.act = "modify"
           -> Touch([sl EXCEPT !.size = op.size, !.status = "Pending"])
      [] op.act = "cancel"
           -> Touch([sl EXCEPT !.status = "Canceling"])
      [] OTHER -> sl

BindLive(sl, n, size) ==
    Touch([sl EXCEPT !.id = n, !.size = size, !.status = "Live"])

ClearLive_AnyOrder_Fault(sl, n) == IdleSlot

(* apply_event: ClearLive clears only the order it names (0 is any order). *)
ClearLive(sl, n) ==
    IF n = NoId \/ sl.id = n THEN IdleSlot ELSE sl

(* apply_fill: a remainder above one tick shrinks the slot, else the order *)
(* is taken to be gone.                                                    *)
ApplyFill(sl, n, filled) ==
    IF sl.id # n THEN sl
    ELSE IF sl.size - filled > AmountTick
         THEN Touch([sl EXCEPT !.size = @ - filled])
         ELSE IdleSlot

ProcessReconcile_NoGrace_Fault(sl, remote) ==
    IF sl.id = NoId THEN sl
    ELSE IF remote[sl.id] > 0 THEN BindLive(sl, sl.id, remote[sl.id])
    ELSE IF sl.miss + 1 >= MissingReconcileDebounce THEN IdleSlot
    ELSE [sl EXCEPT !.miss = @ + 1]

ProcessReconcile_KeepStatus_Fault(sl, remote) ==
    IF sl.id = NoId THEN sl
    ELSE IF remote[sl.id] > 0 THEN Touch([sl EXCEPT !.size = remote[sl.id]])
    ELSE IF sl.age >= Grace /\ sl.miss + 1 >= MissingReconcileDebounce THEN IdleSlot
    ELSE [sl EXCEPT !.miss = IF @ < MissingReconcileDebounce THEN @ + 1 ELSE @]

ProcessReconcile_NoMiss_Fault(sl, remote) ==
    IF sl.id # NoId /\ remote[sl.id] > 0 THEN BindLive(sl, sl.id, remote[sl.id]) ELSE sl

(* process_reconcile for one slot.  remote[n] is the remaining size of the *)
(* slot's order n in the snapshot, 0 when the snapshot does not list it.   *)
(* A listed order is rebound (bind_live resets the miss counter and the    *)
(* age); an unlisted one counts a miss and is cleared at the debounce      *)
(* count, but never inside the grace window.  The counter, which the code  *)
(* lets grow, stops at the debounce count: only the comparison reads it.   *)
ProcessReconcile(sl, remote) ==
    IF sl.id = NoId THEN sl
    ELSE IF remote[sl.id] > 0 THEN BindLive(sl, sl.id, remote[sl.id])
    ELSE IF sl.age >= Grace /\ sl.miss + 1 >= MissingReconcileDebounce THEN IdleSlot
    ELSE [sl EXCEPT !.miss = IF @ < MissingReconcileDebounce THEN @ + 1 ELSE @]
=============================================================================
