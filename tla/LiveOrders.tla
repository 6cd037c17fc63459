----------------------------- MODULE LiveOrders -----------------------------
(***************************************************************************)
(* The life of a quote: the hot task that owns the slot table, the         *)
(* freshest-wins mailbox, the paced sender, the exchange, the account      *)
(* stream that reports fills, and the REST reconcile poller.               *)
(*                                                                         *)
(* Sources: orchestrator.rs (HotTask::maybe_quote, the poller and the      *)
(* account streams of spawn_live_cold_tasks), exec/paced_send.rs,          *)
(* exec/order_manager.rs.  Whether the sender may trade, its nonce and     *)
(* sdk_lock are the subject of TradingGate; here a batch may be refused,   *)
(* skipped, rejected or lost at every point at which the code can do so.   *)
(***************************************************************************)
EXTENDS OrderSlots, Sequences, FiniteSets

CONSTANTS
    Slots,              \* the (side, level) pairs
    MaxLive,            \* safety.max_live_orders_per_market
    OtherOrders,        \* bound: resting orders of the slots that are not modelled
    FillSizes,          \* sizes of the trades the exchange may report
    MaxPartial,         \* bound: REST snapshots that may miss live orders
    SlowSender,         \* TRUE: a batch may wait in the rate gate past Grace
    SlowReads,          \* TRUE: a snapshot may be Grace old when it is applied
    CancelAllMayFail    \* TRUE: cancel_all_and_verify may give up

ASSUME SlotsAssumption == IsFiniteSet(Slots)
ASSUME EnvAssumption ==
    /\ MaxLive \in Nat /\ OtherOrders \in Nat /\ MaxPartial \in Nat
    /\ FillSizes \subseteq Nat \ {0}
    /\ {SlowSender, SlowReads} \subseteq BOOLEAN /\ CancelAllMayFail \in BOOLEAN

VARIABLES
    slots,       \* OrderManager: bids and asks
    mapped,      \* OrderManager: client ids with a known exchange id
    created,     \* OrderManager: last client order index of each slot
    hotPc,       \* HotTask: "drain" the events or "quote"
    published,   \* tracked_ids, the ids the poller believes are ours
    mailbox,     \* the watch channel: the latest unsent batch
    events,      \* mpsc channel of OrderEvents into the hot task
    sender,      \* paced_send: position in send_once and the batch held
    swap,        \* reconcile_swap: the latest unread snapshot and its age
    poller,      \* position of the poll loop, its snapshot and work list
    prevOrphans, \* poller: orphans of the previous poll
    book,        \* exchange: remaining size of every order (0: not live)
    unreported,  \* account_all: filled size not yet reported
    partials     \* snapshots so far that missed a live order

hotVars == <<slots, mapped, created, hotPc, published>>
pollVars == <<poller, prevOrphans, partials>>
exchVars == <<book, unreported>>
vars == <<slots, mapped, created, hotPc, published, mailbox, events, sender,
          swap, poller, prevOrphans, book, unreported, partials>>

-----------------------------------------------------------------------------
Batch == [Slots -> OpType]
EmptyBatch == [s \in Slots |-> NoOp]
View == [Slots -> [Ids -> Sizes]]
NoOrders == [s \in Slots |-> [n \in Ids |-> 0]]
Orders == Slots \X Ids

EventType == [kind : {"BindLive", "ClearLive", "Fill"}, id : Ids, size : Nat]

(* Events that concern different slots commute, so the channel is kept as  *)
(* one FIFO per slot.                                                      *)
EventQueues == [Slots -> Seq(EventType)]
NoEvents == [s \in Slots |-> <<>>]

BindEvent(op) == [kind |-> "BindLive", id |-> op.id, size |-> op.size]
ClearEvent(op) == [kind |-> "ClearLive", id |-> op.id, size |-> 0]
FillEvent(n, q) == [kind |-> "Fill", id |-> n, size |-> q]

CancelOnly(b) == \A s \in Slots : b[s].act \in {"none", "cancel"}
LiveIn(v) == {o \in Orders : v[o[1]][o[2]] > 0}

(* A held batch is in the "gate" until the exchange takes it: the rate     *)
(* wait, sdk_lock, signing and the wire differ only in when the poller is  *)
(* kept out, and it may equally well have acted before.  Once it has       *)
(* "landed" the sender still holds sdk_lock until its answer is handled.   *)
SenderPcs == {"idle", "gate", "landed"}
IdleSender == [pc |-> "idle", batch |-> EmptyBatch]

PollerPcs == {"idle", "fetched", "cancelAll", "orphans"}
IdlePoller == [pc |-> "idle", snap |-> NoOrders, age |-> 0, todo |-> {}]

Snapshot == [full : BOOLEAN, view : View, age : 0 .. Grace]
NoSnapshot == [full |-> FALSE, view |-> NoOrders, age |-> 0]

(* The poller takes sdk_lock around every cancel it sends.                 *)
SdkLockFree == sender.pc # "landed"

(* The book after cancel_all_and_verify, whose result every caller but the *)
(* startup ignores.                                                        *)
AfterCancelAll(ok) == IF ok THEN NoOrders ELSE book
CancelAllResults == IF CancelAllMayFail THEN BOOLEAN ELSE {TRUE}

ClearFailedCreates_Wildcard_Fault(q, b) ==
    [s \in Slots |-> IF b[s].act = "create" THEN Append(q[s], ClearEvent(NoOp)) ELSE q[s]]

(* clear_failed_creates: one ClearLive per create of the batch.            *)
ClearFailedCreates(q, b) ==
    [s \in Slots |-> IF b[s].act = "create" THEN Append(q[s], ClearEvent(b[s])) ELSE q[s]]

-----------------------------------------------------------------------------
Init ==
    /\ slots = [s \in Slots |-> IdleSlot]
    /\ mapped = [s \in Slots |-> {}]
    /\ created = [s \in Slots |-> 0]
    /\ hotPc = "drain"
    /\ published = {}
    /\ mailbox = EmptyBatch
    /\ events = NoEvents
    /\ sender = IdleSender
    /\ swap = NoSnapshot
    /\ poller = IdlePoller
    /\ prevOrphans = {}
    /\ book = NoOrders          \* startup verified a flat book
    /\ unreported = NoOrders
    /\ partials = 0

-----------------------------------------------------------------------------
(* HOT TASK.  maybe_quote drains the events, then takes the snapshot, then *)
(* quotes.  Other tasks run between any two of these steps.                *)

ApplyEvent(sl, e) ==
    CASE e.kind = "BindLive"  -> BindLive(sl, e.id, e.size)
      [] e.kind = "ClearLive" -> ClearLive(sl, e.id)
      [] e.kind = "Fill"      -> ApplyFill(sl, e.id, e.size)

(* A BindLive of a modify carries the exchange id the modify was sent to,  *)
(* so the id is mapped already; a create's carries none.                   *)
HotDrainEvent(s) ==
    /\ hotPc = "drain"
    /\ events[s] # <<>>
    /\ slots' = [slots EXCEPT ![s] = ApplyEvent(@, Head(events[s]))]
    /\ events' = [events EXCEPT ![s] = Tail(@)]
    /\ UNCHANGED <<mapped, created, hotPc, published, mailbox, sender, swap,
                   pollVars, exchVars>>

HotDrained ==
    /\ hotPc = "drain"
    /\ events = NoEvents
    /\ hotPc' = "quote"
    /\ UNCHANGED <<slots, mapped, created, published, mailbox, events, sender,
                   swap, pollVars, exchVars>>

(* The slot table and the id map after reconcile_swap.swap(None) was       *)
(* processed; both are unchanged when there is no unread snapshot.         *)
Reconciled ==
    [s \in Slots |-> IF swap.full THEN ProcessReconcile(slots[s], swap.view[s]) ELSE slots[s]]
MappedAfter ==
    [s \in Slots |-> mapped[s] \cup {n \in Ids : swap.view[s][n] > 0}]

TickEnds ==
    /\ hotPc = "quote"
    /\ hotPc' = "drain"
    /\ swap' = NoSnapshot
    /\ mapped' = MappedAfter
    /\ UNCHANGED <<events, sender, pollVars, exchVars>>

(* The quote step is throttled by min_loop_interval.                       *)
HotThrottled ==
    /\ TickEnds
    /\ slots' = Reconciled
    /\ UNCHANGED <<created, published, mailbox>>

(* Live gate: no capital or no position yet.  The cancels replace whatever *)
(* batch is still unsent, even when there are none; tracked ids are not    *)
(* republished.                                                            *)
HotPullLadder ==
    /\ TickEnds
    /\ LET ops == [s \in Slots |-> CollectCancelOp(Reconciled[s], mapped'[s])]
       IN  /\ slots' = [s \in Slots |-> MarkPending(Reconciled[s], ops[s])]
           /\ mailbox' = ops
    /\ UNCHANGED <<created, published>>

(* Flat and not warmed up: the unsent batch is dropped, resting orders and *)
(* the published ids stay.                                                 *)
HotNotReady ==
    /\ TickEnds
    /\ slots' = Reconciled
    /\ mailbox' = EmptyBatch
    /\ UNCHANGED <<created, published>>

(* Nonce gap or book divergence: request_resnapshot drops the unsent batch *)
(* and returns before maybe_quote.                                         *)
HotRequestResnapshot ==
    /\ hotPc = "drain"
    /\ mailbox' = EmptyBatch
    /\ UNCHANGED <<hotVars, events, sender, swap, pollVars, exchVars>>

HotQuote_NoMark_Fault(want, hold) ==
    /\ TickEnds
    /\ \A s \in Slots : want[s] # "none" /\ Reconciled[s].id = NoId
                          => created[s] < MaxId
    /\ LET ops == [s \in Slots |->
                     CollectOp(Reconciled[s], want[s], hold, mapped'[s], created[s] + 1)]
       IN  /\ slots' = Reconciled
           /\ created' = [s \in Slots |->
                            IF ops[s].act = "create" THEN ops[s].id ELSE created[s]]
           /\ published' = {o \in Orders : Reconciled[o[1]].id = o[2]}
           /\ mailbox' = IF ops = EmptyBatch THEN mailbox ELSE ops

(* Normal quoting, and the reduce-only exit while not ready: collect, mark *)
(* every op pending, publish the tracked ids, replace the mailbox.         *)
HotQuote(want, hold) ==
    /\ TickEnds
    /\ \A s \in Slots : want[s] # "none" /\ Reconciled[s].id = NoId
                          => created[s] < MaxId
    /\ LET ops == [s \in Slots |->
                     CollectOp(Reconciled[s], want[s], hold, mapped'[s], created[s] + 1)]
           marked == [s \in Slots |-> MarkPending(Reconciled[s], ops[s])]
       IN  /\ slots' = marked
           /\ created' = [s \in Slots |->
                            IF ops[s].act = "create" THEN ops[s].id ELSE created[s]]
           /\ published' = {o \in Orders : marked[o[1]].id = o[2]}
           /\ mailbox' = IF ops = EmptyBatch THEN mailbox ELSE ops

-----------------------------------------------------------------------------
(* PACED SENDER                                                            *)

(* The risk controller or an untrusted nonce forbids trading: the batch is *)
(* dropped and its creates are reset.                                      *)
SenderRefuse ==
    /\ sender.pc = "idle"
    /\ ~CancelOnly(mailbox)
    /\ events' = ClearFailedCreates(events, mailbox)
    /\ mailbox' = EmptyBatch
    /\ UNCHANGED <<hotVars, sender, swap, pollVars, exchVars>>

SenderTake ==
    /\ sender.pc = "idle"
    /\ mailbox # EmptyBatch
    /\ sender' = [pc |-> "gate", batch |-> mailbox]
    /\ mailbox' = EmptyBatch
    /\ UNCHANGED <<hotVars, events, swap, pollVars, exchVars>>

(* write_slot refuses, halt is set, signing fails or no frame was written. *)
SenderAbandon ==
    /\ sender.pc = "gate"
    /\ events' = ClearFailedCreates(events, sender.batch)
    /\ sender' = IdleSender
    /\ UNCHANGED <<hotVars, mailbox, swap, pollVars, exchVars>>

(* Ok: bind creates and modifies, clear cancels.                           *)
SenderOk ==
    /\ sender.pc = "landed"
    /\ events' = [s \in Slots |->
                    CASE sender.batch[s].act \in {"create", "modify"}
                           -> Append(events[s], BindEvent(sender.batch[s]))
                      [] sender.batch[s].act = "cancel"
                           -> Append(events[s], ClearEvent(sender.batch[s]))
                      [] OTHER -> events[s]]
    /\ sender' = IdleSender
    /\ UNCHANGED <<hotVars, mailbox, swap, pollVars, exchVars>>

(* Rejected: reset the creates; when the rejection (or a failed nonce      *)
(* refresh) left trading paused, pull every order.                         *)
SenderRejected(paused, ok) ==
    /\ sender.pc = "gate"
    /\ events' = ClearFailedCreates(events, sender.batch)
    /\ book' = IF paused THEN AfterCancelAll(ok) ELSE book
    /\ sender' = IdleSender
    /\ UNCHANGED <<hotVars, mailbox, swap, pollVars, unreported>>

(* Unknown: no answer in time, whatever became of the frame.  Slots are    *)
(* left to the reconcile, the book is pulled.  A frame that lands later    *)
(* still is the subject of TradingGate and Session.                        *)
SenderUnknown(ok) ==
    /\ sender.pc # "idle"
    /\ book' = AfterCancelAll(ok)
    /\ sender' = IdleSender
    /\ UNCHANGED <<hotVars, mailbox, events, swap, pollVars, unreported>>

-----------------------------------------------------------------------------
(* RECONCILE POLLER                                                        *)

(* REST snapshot of the active orders; MaxPartial of them may be stale or  *)
(* partial and miss orders that rest.                                      *)
PollFetch(seen) ==
    /\ poller.pc = "idle"
    /\ seen \subseteq LiveIn(book)
    /\ seen # LiveIn(book) => partials < MaxPartial
    /\ partials' = IF seen = LiveIn(book) THEN partials ELSE partials + 1
    /\ poller' = [IdlePoller EXCEPT
                    !.pc = "fetched",
                    !.snap = [s \in Slots |-> [n \in Ids |->
                                IF <<s, n>> \in seen THEN book[s][n] ELSE 0]]]
    /\ UNCHANGED <<hotVars, mailbox, events, sender, swap, prevOrphans, exchVars>>

Orphans(snap) == LiveIn(snap) \ published

PollRecord_ForgetOrphans_Fault(others) ==
    /\ poller.pc = "fetched"
    /\ swap' = [full |-> TRUE, view |-> poller.snap, age |-> poller.age]
    /\ IF Cardinality(LiveIn(poller.snap)) + others > MaxLive
       THEN poller' = [poller EXCEPT !.pc = "cancelAll"]
       ELSE poller' = [IdlePoller EXCEPT !.pc = "orphans",
                                         !.todo = Orphans(poller.snap) \cap prevOrphans]
    /\ prevOrphans' = {}
    /\ UNCHANGED <<hotVars, mailbox, events, sender, exchVars, partials>>

(* Orphans are judged against the ids published now, after the fetch; the  *)
(* snapshot goes to the hot task; only orphans of two consecutive polls    *)
(* are cancelled, and too many orders, those of the other slots included,  *)
(* pull the whole book.                                                    *)
PollRecord(others) ==
    /\ poller.pc = "fetched"
    /\ swap' = [full |-> TRUE, view |-> poller.snap, age |-> poller.age]
    /\ IF Cardinality(LiveIn(poller.snap)) + others > MaxLive
       THEN /\ poller' = [poller EXCEPT !.pc = "cancelAll"]
            /\ prevOrphans' = {}
       ELSE /\ poller' = [IdlePoller EXCEPT !.pc = "orphans",
                                            !.todo = Orphans(poller.snap) \cap prevOrphans]
            /\ prevOrphans' = Orphans(poller.snap)
    /\ UNCHANGED <<hotVars, mailbox, events, sender, exchVars, partials>>

(* Too many live orders: cancel-all under sdk_lock, then poll again.       *)
PollCancelAll(ok) ==
    /\ poller.pc = "cancelAll"
    /\ SdkLockFree
    /\ book' = AfterCancelAll(ok)
    /\ poller' = IdlePoller
    /\ UNCHANGED <<hotVars, mailbox, events, sender, swap, prevOrphans, unreported, partials>>

(* One orphan cancel, a single REST send under sdk_lock.                   *)
PollCancelOrphan(o, ok) ==
    /\ poller.pc = "orphans"
    /\ o \in poller.todo
    /\ SdkLockFree
    /\ book' = IF ok THEN [book EXCEPT ![o[1]][o[2]] = 0] ELSE book
    /\ poller' = [poller EXCEPT !.todo = @ \ {o}]
    /\ UNCHANGED <<hotVars, mailbox, events, sender, swap, prevOrphans, unreported, partials>>

PollDone ==
    /\ poller.pc = "orphans"
    /\ poller.todo = {}
    /\ poller' = IdlePoller
    /\ UNCHANGED <<hotVars, mailbox, events, sender, swap, prevOrphans, exchVars, partials>>

-----------------------------------------------------------------------------
(* EXCHANGE AND ACCOUNT STREAMS (external)                                 *)

(* The exchange takes the frame: creates rest, modifies and cancels act on *)
(* their order.  It rejects a batch that modifies an order which no longer *)
(* rests (collect_order_operations: "modifying a just-filled id triggers a *)
(* maker-only batch reject").                                              *)
ExchangeAccept ==
    /\ sender.pc = "gate"
    /\ \A s \in Slots : sender.batch[s].act = "modify" => book[s][sender.batch[s].id] > 0
    /\ book' = [s \in Slots |->
                  LET op == sender.batch[s]
                  IN  IF op.act = "none" THEN book[s]
                      ELSE [book[s] EXCEPT ![op.id] = op.size]]
    /\ sender' = [sender EXCEPT !.pc = "landed"]
    /\ UNCHANGED <<hotVars, mailbox, events, swap, pollVars, unreported>>

(* A trade against a resting order; bound: one trade awaits its report.    *)
ExchangeFill(s, n, q) ==
    /\ unreported = NoOrders
    /\ book[s][n] >= q
    /\ book' = [book EXCEPT ![s][n] = @ - q]
    /\ unreported' = [unreported EXCEPT ![s][n] = @ + q]
    /\ UNCHANGED <<hotVars, mailbox, events, sender, swap, pollVars>>

(* Post-only cross, expiry, liquidation: the order goes without an event   *)
(* the program listens to.                                                 *)
ExchangeKill(s, n) ==
    /\ book[s][n] > 0
    /\ book' = [book EXCEPT ![s][n] = 0]
    /\ UNCHANGED <<hotVars, mailbox, events, sender, swap, pollVars, unreported>>

(* account_all reports a trade as a Fill event, once: a repeat on a new    *)
(* subscription is left out, since a repeated whole fill names an order    *)
(* that is gone already and a repeated partial one counts the trade twice, *)
(* as a snapshot taken before the report does.                             *)
ReportFill(s, n, q) ==
    /\ unreported[s][n] >= q
    /\ unreported' = [unreported EXCEPT ![s][n] = @ - q]
    /\ events' = [events EXCEPT ![s] = Append(@, FillEvent(n, q))]
    /\ UNCHANGED <<hotVars, mailbox, sender, swap, pollVars, book>>

(* The account_all session dropped before the trade was reported.          *)
LoseFill(s, n) ==
    /\ unreported[s][n] > 0
    /\ unreported' = [unreported EXCEPT ![s][n] = 0]
    /\ UNCHANGED <<hotVars, mailbox, events, sender, swap, pollVars, book>>

(* account_orders: IdResolved, which touches the id map only and so        *)
(* commutes with every other event.                                        *)
ResolveId(s, n) ==
    /\ book[s][n] > 0
    /\ n \notin mapped[s]
    /\ mapped' = [mapped EXCEPT ![s] = @ \cup {n}]
    /\ UNCHANGED <<slots, created, hotPc, published, mailbox, events, sender,
                   swap, pollVars, exchVars>>

(* An operation for slot s is between the hot task and the slot table.     *)
InPipeline(s) ==
    \/ mailbox[s] # NoOp
    \/ sender.batch[s] # NoOp
    \/ events[s] # <<>>

Older(a) == IF a < Grace THEN a + 1 ELSE a

(* Time passes.  Unless SlowSender, every operation is settled before its  *)
(* slot is Grace old; unless SlowReads, every snapshot is applied (or      *)
(* replaced) before it is Grace old.                                       *)
Tick ==
    /\ SlowSender \/ \A s \in Slots : InPipeline(s) => slots[s].age + 1 < Grace
    /\ SlowReads \/ (poller.pc = "fetched" => poller.age + 1 < Grace)
    /\ SlowReads \/ (swap.full => swap.age + 1 < Grace)
    /\ slots' = [s \in Slots |->
                   IF slots[s].id = NoId THEN slots[s] ELSE [slots[s] EXCEPT !.age = Older(@)]]
    /\ poller' = [poller EXCEPT !.age = IF poller.pc = "fetched" THEN Older(@) ELSE 0]
    /\ swap' = [swap EXCEPT !.age = IF swap.full THEN Older(@) ELSE 0]
    /\ UNCHANGED <<mapped, created, hotPc, published, mailbox, events, sender,
                   prevOrphans, partials, exchVars>>

-----------------------------------------------------------------------------
HotTick ==
    \/ HotThrottled \/ HotPullLadder \/ HotNotReady
    \/ \E want \in [Slots -> Wants], hold \in BOOLEAN : HotQuote(want, hold)

HotStep ==
    \/ \E s \in Slots : HotDrainEvent(s)
    \/ HotDrained \/ HotTick \/ HotRequestResnapshot

SenderStep ==
    \/ SenderRefuse \/ SenderTake \/ SenderAbandon \/ SenderOk
    \/ \E ok \in CancelAllResults :
         SenderUnknown(ok) \/ \E paused \in BOOLEAN : SenderRejected(paused, ok)

PollerStep ==
    \/ \E seen \in SUBSET LiveIn(book) : PollFetch(seen)
    \/ PollDone
    \/ \E others \in 0..OtherOrders : PollRecord(others)
    \/ \E ok \in CancelAllResults : PollCancelAll(ok)
    \/ \E o \in Orders, ok \in BOOLEAN : PollCancelOrphan(o, ok)

Environment ==
    \/ ExchangeAccept
    \/ \E s \in Slots, n \in Ids :
         \/ \E q \in FillSizes : ExchangeFill(s, n, q) \/ ReportFill(s, n, q)
         \/ ExchangeKill(s, n) \/ LoseFill(s, n) \/ ResolveId(s, n)
    \/ Tick

Next == HotStep \/ SenderStep \/ PollerStep \/ Environment

Spec == Init /\ [][Next]_vars

(* Every task keeps running: market data keeps ticking the hot task, the   *)
(* sender's awaits all time out, the poller polls on its own timer, the    *)
(* clock advances.  sdk_lock is a FIFO mutex, so the poller obtains it     *)
(* even though the sender takes it again and again; of the cancels the     *)
(* poller keeps sending for an order, one succeeds in the end.             *)
Fairness ==
    /\ \A s \in Slots : WF_vars(HotDrainEvent(s))
    /\ WF_vars(HotDrained) /\ WF_vars(HotTick)
    /\ WF_vars(SenderStep \/ ExchangeAccept)
    /\ WF_vars(\E seen \in SUBSET LiveIn(book) : PollFetch(seen))
    /\ WF_vars(\E others \in 0..OtherOrders : PollRecord(others)) /\ WF_vars(PollDone)
    /\ SF_vars(PollCancelAll(TRUE))
    /\ \A o \in Orders : SF_vars(PollCancelOrphan(o, TRUE))
    /\ WF_vars(Tick)

FairSpec == Spec /\ Fairness

-----------------------------------------------------------------------------
(* The shape of every variable of the model.                               *)
TypeOK ==
    /\ slots \in [Slots -> SlotType]
    /\ mapped \in [Slots -> SUBSET Ids]
    /\ created \in [Slots -> 0 .. MaxId]
    /\ hotPc \in {"drain", "quote"}
    /\ published \subseteq Orders
    /\ mailbox \in Batch
    /\ events \in EventQueues
    /\ sender \in [pc : SenderPcs, batch : Batch]
    /\ swap \in Snapshot
    /\ poller \in [pc : PollerPcs, snap : View, age : 0 .. Grace,
                  todo : SUBSET Orders]
    /\ prevOrphans \subseteq Orders
    /\ book \in View /\ unreported \in View
    /\ partials \in 0 .. MaxPartial

(* The keystone of maybe_quote: because mark_pending occupies a slot       *)
(* before its order is sent, one slot never has two orders resting.        *)
AtMostOneLive ==
    \A s \in Slots : \A m, n \in Ids : book[s][m] > 0 /\ book[s][n] > 0 => m = n

(* Once nothing about a slot is on its way, the order that rests for it is *)
(* the one the slot table holds: mark_pending, the sender's events, fills  *)
(* and process_reconcile together never lose sight of a live order.        *)
LiveIsTracked ==
    \A s \in Slots, n \in Ids :
        book[s][n] > 0 /\ ~InPipeline(s) => slots[s].id = n

(* Order n of slot s does not rest and never will again: it was created    *)
(* and its create is neither unsent nor in the sender's hands.             *)
Dead(s, n) ==
    /\ n <= created[s]
    /\ book[s][n] = 0
    /\ mailbox[s].act = "create" => mailbox[s].id # n
    /\ sender.pc = "gate" /\ sender.batch[s].act = "create" => sender.batch[s].id # n

(* The hot task applies the report of a fill smaller than a quote.          *)
AppliesPartialFill(s) ==
    /\ events[s] # <<>> /\ events'[s] = Tail(events[s])
    /\ Head(events[s]).kind = "Fill" /\ Head(events[s]).size < BaseSize

(* A slot is freed (by ClearLive, by a fill, by process_reconcile) only    *)
(* when its order is dead for good: collect_order_operations will emit a   *)
(* create for the slot on the next tick.  apply_fill is believed only for  *)
(* a fill of a whole quote: it calls an order gone when one tick of it     *)
(* remains, or when a snapshot already took off what the event reports.    *)
FreedOrderIsDead ==
    [][\A s \in Slots :
         slots[s].id # NoId /\ slots'[s].id = NoId
           => Dead(s, slots[s].id) \/ AppliesPartialFill(s)]_vars

(* The cancel of a resting order was dropped, refused or rejected.         *)
CancelLost(s) ==
    /\ slots[s].status = "Canceling"
    /\ book[s][slots[s].id] > 0
    /\ ~InPipeline(s)

(* collect_cancel_ops skips slots already Canceling because "a lost cancel *)
(* self-heals when reconcile re-binds the slot Live": the order is gone,   *)
(* the slot Live or the cancel under way again in the end.                 *)
LostCancelSelfHeals == \A s \in Slots : CancelLost(s) ~> ~CancelLost(s)

(* process_reconcile frees a slot whose order is dead unless something     *)
(* touches the slot again (a modify or a cancel is emitted for it, or an   *)
(* event or an old snapshot rebinds it).                                   *)
DeadSlotIsFreedOrTouched ==
    \A s \in Slots, n \in Ids :
        (slots[s].id = n /\ slots[s].age > 0 /\ Dead(s, n))
            ~> (slots[s].id # n \/ slots[s].age = 0)

(* The poller's orphan cancels repair what a degraded environment (a rate  *)
(* gate that waits past the grace window, slow or partial snapshots, a     *)
(* cancel-all that gave up) breaks: two orders of a slot do not rest       *)
(* together for ever.                                                      *)
DuplicatesAreRepaired == []<>AtMostOneLive
=============================================================================
