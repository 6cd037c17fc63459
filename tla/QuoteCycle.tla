------------------------------ MODULE QuoteCycle ----------------------------
(***************************************************************************)
(* What the bot believes its position is, and what that makes it quote:    *)
(* the account streams and the poller's REST fallback that write           *)
(* SharedPosition and Derived (orchestrator.rs, shared.rs), maybe_quote    *)
(* with its readiness gates and the hold after a fill, and the ladder of   *)
(* Quotes - against an exchange that fills orders whether or not anybody   *)
(* is told.                                                                *)
(*                                                                         *)
(* One level per side, orders of one unit, a constant mid price, so that   *)
(* orders are created and cancelled but never modified.  How an op reaches *)
(* the exchange and what becomes of its slot is the subject of LiveOrders; *)
(* here an op lands, or is dropped and its create forgotten.  A Period is  *)
(* one interval of the poller; ages are counted in periods, and a message  *)
(* of the stream arrives within its period or the stream is down.          *)
(*                                                                         *)
(* Definitions named X_Fault are X with a plausible programming error; no  *)
(* specification uses them.                                                *)
(***************************************************************************)
EXTENDS Quotes

CONSTANTS
    Mid,
    Capitals,           \* reported available capital, times leverage
    Grace,              \* periods after which a missing order is given up
    Fallback,           \* periods after which REST is asked for the position
    Warmup,             \* periods the calculator needs to warm up
    MaxLong, MaxShort,  \* bounds: the position
    ReadFills,          \* bound: fills while a REST read is under way
    MaxStream,          \* bound: messages under way
    MaxOutages,         \* bound: disconnects of the account stream
    PositionReadFails   \* account_position may fail, which nobody notices

ASSUME CycleAssumption ==
    /\ {Mid, Grace, Fallback, Warmup, MaxLong, MaxShort, MaxStream} \subseteq Nat \ {0}
    /\ Capitals \subseteq Nat /\ Capitals # {}
    /\ {MaxOutages, ReadFills} \subseteq Nat
    /\ PositionReadFails \in BOOLEAN

VARIABLES
    pos,        \* the position on the exchange
    order,      \* per side: the order resting there
    op,         \* per side: the op on its way there
    slot,       \* per side: OrderManager's slot: used, age, miss
    seen, age,  \* SharedPosition and its age in periods
    capital,    \* Derived: available capital, times leverage
    stream,     \* account_all messages on their way
    feed,       \* the account stream is connected
    outages,
    last, hold, \* last_seen_position, position_hold_until in the future
    warm,       \* periods since the calculator was reset
    poller,     \* where the poller is, and the position it read
    swap        \* ReconcileSwap: the sides that rest, if any

exchangeVars == <<pos, order, op>>
beliefVars == <<seen, age, capital, stream, feed, outages>>
hotVars == <<slot, last, hold, warm>>
pollVars == <<poller, swap>>
vars == <<exchangeVars, beliefVars, hotVars, pollVars>>

Sides == {"buy", "sell"}
Sign(s) == IF s = "buy" THEN 1 ELSE -1
Reduces(s, p) == p * Sign(s) < 0

None == "none"
Unknown == MaxLong + 1
FreeSlot == [used |-> FALSE, age |-> 0, miss |-> 0]
UsedSlot == [FreeSlot EXCEPT !.used = TRUE]
Resting == {s \in Sides : order[s] # None}
NoView == {"no view"}
Waiting == [pc |-> "wait", read |-> 0, fills |-> 0]
Done == [Waiting EXCEPT !.pc = "done"]

Init ==
    /\ pos = 0 /\ order = [s \in Sides |-> None] /\ op = [s \in Sides |-> None]
    /\ slot = [s \in Sides |-> FreeSlot]
    /\ seen = Unknown /\ age = Fallback
    /\ capital = 0 /\ stream = <<>> /\ feed = FALSE /\ outages = 0
    /\ last = Unknown /\ hold = FALSE /\ warm = 0
    /\ poller = Waiting /\ swap = NoView

-----------------------------------------------------------------------------
(* ACCOUNT STREAMS                                                         *)

(* A new subscription starts with the current position.                    *)
Connect ==
    /\ ~feed
    /\ feed' = TRUE /\ stream' = <<[pos |-> pos, filled |-> None]>>
    /\ UNCHANGED <<exchangeVars, seen, age, capital, outages, hotVars, pollVars>>

(* The stream dies, or silently stops delivering until its timeout.        *)
Disconnect ==
    /\ feed /\ outages < MaxOutages
    /\ feed' = FALSE /\ stream' = <<>> /\ outages' = outages + 1
    /\ UNCHANGED <<exchangeVars, seen, age, capital, hotVars, pollVars>>

AccountAll_NoPosition_Fault ==
    LET m == Head(stream)
    IN  /\ stream # <<>>
        /\ stream' = Tail(stream)
        /\ seen' = IF seen = Unknown THEN m.pos ELSE seen
        /\ age' = 0
        /\ slot' = [s \in Sides |-> IF s = m.filled /\ order[s] = None /\ op[s] = None
                                    THEN FreeSlot ELSE slot[s]]
        /\ UNCHANGED <<exchangeVars, capital, feed, outages, last, hold, warm, pollVars>>

(* account_all: the position is stored before the Fill events are sent, so *)
(* the hot task never frees a slot on an older position than the fill's.   *)
(* A fill concerns the slot as long as its order is still there.           *)
AccountAll ==
    LET m == Head(stream)
    IN  /\ stream # <<>>
        /\ stream' = Tail(stream)
        /\ seen' = m.pos /\ age' = 0
        /\ slot' = [s \in Sides |-> IF s = m.filled /\ order[s] = None /\ op[s] = None
                                    THEN FreeSlot ELSE slot[s]]
        /\ UNCHANGED <<exchangeVars, capital, feed, outages, last, hold, warm, pollVars>>

UserStats(c) ==
    /\ capital # c
    /\ capital' = c
    /\ UNCHANGED <<exchangeVars, seen, age, stream, feed, outages, hotVars, pollVars>>

-----------------------------------------------------------------------------
(* POLLER                                                                  *)

(* Once per period, or sooner when notified.  The snapshot is handed over  *)
(* before the position is asked for.                                       *)
Poll ==
    /\ poller.pc \in {"wait", "done"}
    /\ swap' = Resting
    /\ poller' = [poller EXCEPT !.pc = IF seen = Unknown \/ age >= Fallback
                                       THEN "ask" ELSE "done"]
    /\ UNCHANGED <<exchangeVars, beliefVars, hotVars>>

AskPosition_Never_Fault(ok) ==
    /\ poller.pc = "ask"
    /\ poller' = Done
    /\ UNCHANGED <<exchangeVars, beliefVars, hotVars, swap>>

(* Asked when the last position is too old.  A failure is not noticed.     *)
AskPosition(ok) ==
    /\ poller.pc = "ask"
    /\ ~ok => PositionReadFails
    /\ poller' = IF ok THEN [pc |-> "set", read |-> pos, fills |-> 0] ELSE Done
    /\ UNCHANGED <<exchangeVars, beliefVars, hotVars, swap>>

(* The age was tested before the request: the answer replaces whatever the *)
(* stream has stored meanwhile.                                            *)
SetPosition ==
    /\ poller.pc = "set"
    /\ seen' = poller.read /\ age' = 0
    /\ poller' = Done
    /\ UNCHANGED <<exchangeVars, capital, stream, feed, outages, hotVars, swap>>

(* The next interval begins: polls keep up, and so does the sender.        *)
Older(a, limit) == AtMost(a + 1, limit)

Period ==
    /\ poller.pc = "done" /\ swap = NoView /\ stream = <<>>
    /\ \A s \in Sides : op[s] = None
    /\ poller' = [poller EXCEPT !.pc = "wait"]
    /\ age' = Older(age, Fallback)
    /\ slot' = [s \in Sides |-> [slot[s] EXCEPT !.age = IF slot[s].used THEN Older(@, Grace)
                                                        ELSE 0]]
    /\ warm' = Older(warm, Warmup)
    /\ UNCHANGED <<exchangeVars, seen, capital, stream, feed, outages, last, hold, swap>>

-----------------------------------------------------------------------------
(* HOT TASK                                                                *)

(* process_reconcile: missing from two snapshots and older than the grace  *)
(* period.                                                                 *)
Reconciled(s, view) ==
    IF ~slot[s].used THEN slot[s]
    ELSE IF s \in view THEN UsedSlot
    ELSE IF slot[s].miss = 1 /\ slot[s].age >= Grace THEN FreeSlot
    ELSE [slot[s] EXCEPT !.miss = 1]

Reconcile ==
    /\ swap # NoView
    /\ slot' = [s \in Sides |-> Reconciled(s, swap)]
    /\ swap' = NoView
    /\ UNCHANGED <<exchangeVars, beliefVars, last, hold, warm, poller>>

(* Every new book starts the samples again.                                *)
ResetCalc ==
    /\ warm > 0
    /\ warm' = 0
    /\ UNCHANGED <<exchangeVars, beliefVars, slot, last, hold, pollVars>>

Ready == warm = Warmup
Limit == DynamicMaxPosition(Mid, capital, 1, 1)

Ladder ==
    IF Ready THEN QuoteLadder(Mid, 2 * Tick, 0, seen, Limit, 1)
    ELSE FallbackReduceOnly(Mid, seen, 1)

Wants(s, ladder) == IF s = "buy" THEN ladder[1].bid # {} ELSE ladder[1].ask # {}

(* collect_order_operations and mark_pending: what happens on one side.    *)
(* An order can be cancelled once its exchange id is known, whether or not *)
(* it still rests; nobody cancels during a hold.                           *)
Create(s, ladder) == ~slot[s].used /\ Wants(s, ladder)
Cancel(s, ladder, known) == slot[s].used /\ s \in known /\ ~Wants(s, ladder)
Collected(s, ladder, known) ==
    IF op[s] # None THEN op[s]
    ELSE IF Create(s, ladder) THEN (IF Reduces(s, seen) THEN "reduce" ELSE "plain")
    ELSE IF Cancel(s, ladder, known) THEN "cancel"
    ELSE None

Marked(s, ladder, known) ==
    IF op[s] = None /\ (Create(s, ladder) \/ Cancel(s, ladder, known)) THEN UsedSlot ELSE slot[s]

(* hold_quotes_for_position_reconcile: a change arms the hold and wakes    *)
(* the poller.                                                             *)
Changed == last # Unknown /\ last # seen

Publish(ladder, known) ==
    /\ op' = [s \in Sides |-> Collected(s, ladder, known)]
    /\ slot' = [s \in Sides |-> Marked(s, ladder, known)]

PullAll == [l \in {1} |-> NoLevel]

(* maybe_quote: without capital or a position everything is pulled; flat   *)
(* and not ready nothing is asked for, and what rests stays (that this     *)
(* discards an unsent batch is Dropped).  known: the sides whose exchange  *)
(* id is resolved.                                                         *)
MaybeQuote(known) ==
    /\ IF capital <= 0 \/ seen = Unknown
       THEN Publish(PullAll, known) /\ UNCHANGED <<last, hold>>
       ELSE /\ last' = seen
            /\ hold' = (hold \/ Changed)
            /\ IF ~Ready /\ seen = 0 THEN UNCHANGED <<op, slot>>
               ELSE Publish(Ladder, IF hold' THEN {} ELSE known)
    /\ UNCHANGED <<pos, order, beliefVars, warm, pollVars>>

HoldEnds ==
    /\ hold
    /\ hold' = FALSE
    /\ UNCHANGED <<exchangeVars, beliefVars, slot, last, warm, pollVars>>

-----------------------------------------------------------------------------
(* EXCHANGE                                                                *)

(* A reduce-only order that would not reduce is refused.                   *)
Lands(s) ==
    /\ op[s] # None
    /\ order' = [order EXCEPT ![s] =
                    CASE op[s] = "cancel" -> None
                      [] op[s] = "reduce" /\ ~Reduces(s, pos) -> None
                      [] OTHER -> op[s]]
    /\ op' = [op EXCEPT ![s] = None]
    /\ slot' = [slot EXCEPT ![s] = IF op[s] = "cancel" THEN FreeSlot ELSE UsedSlot]
    /\ UNCHANGED <<pos, beliefVars, last, hold, warm, pollVars>>

(* Refused by the rate gate or rejected: a create is forgotten.            *)
Dropped(s) ==
    /\ op[s] # None
    /\ op' = [op EXCEPT ![s] = None]
    /\ slot' = [slot EXCEPT ![s] = IF op[s] = "cancel" THEN @ ELSE FreeSlot]
    /\ UNCHANGED <<pos, order, beliefVars, last, hold, warm, pollVars>>

Told(m) == IF feed THEN Append(stream, m) ELSE stream

(* A resting reduce-only order has something to reduce until it is filled: *)
(* nothing else moves the position its way.                                *)
Fill(s) ==
    /\ order[s] # None
    /\ pos + Sign(s) \in -MaxShort .. MaxLong
    /\ poller.pc = "set" => poller.fills < ReadFills
    /\ feed => Len(stream) < MaxStream
    /\ pos' = pos + Sign(s)
    /\ order' = [order EXCEPT ![s] = None]
    /\ stream' = Told([pos |-> pos', filled |-> s])
    /\ poller' = [poller EXCEPT !.fills = IF poller.pc = "set" THEN @ + 1 ELSE @]
    /\ UNCHANGED <<op, seen, age, capital, feed, outages, hotVars, swap>>

-----------------------------------------------------------------------------
Position == SetPosition \/ \E ok \in BOOLEAN : AskPosition(ok)
Land == \E s \in Sides : Lands(s)

Next ==
    \/ Connect \/ Disconnect \/ AccountAll
    \/ \E c \in Capitals : UserStats(c)
    \/ Poll \/ Position \/ Period
    \/ Reconcile \/ (\E known \in SUBSET Sides : MaybeQuote(known)) \/ HoldEnds \/ ResetCalc
    \/ Land
    \/ \E s \in Sides : Dropped(s) \/ Fill(s)

Spec == Init /\ [][Next]_vars

-----------------------------------------------------------------------------
(* PROPERTIES                                                              *)

(* The largest position, as believed, at which an adding order is placed.  *)
LastAdding(c) == (DynamicMaxPosition(Mid, c, 1, 1) - 1) \div (10 * Mid)

(* Rounds of adding orders on one belief: reconcile frees the slot of an   *)
(* order whose fill nobody reported, at once if it is old enough, and then *)
(* every Grace periods until REST corrects the belief.                     *)
BlindRounds == 1 + Fallback \div Grace

(* Fills that the answer of a read in flight, or a message on its way,     *)
(* does not show.                                                          *)
Missed == AtLeast(ReadFills, MaxStream - 1)

(* However the account stream fails, and although maybe_quote asks only    *)
(* whether a position was ever received (its comment speaks of a position  *)
(* feed that is lost), the position stays within what is placed on one     *)
(* belief: the last order the limit allows, the rounds until the REST      *)
(* fallback of the poller, and the fills the belief has missed (an answer  *)
(* replaces a newer position of the stream).  This takes a capital that    *)
(* does not change and a warm-up no shorter than the grace: a ladder that  *)
(* is pulled frees the slot of a filled order at once.                     *)
ExposureIsBounded ==
    \E c \in Capitals : Abs(pos) <= LastAdding(c) + 1 + BlindRounds + Missed

(* Skew, minimal spread, level widening, exit bias, the position limit and *)
(* the fallback exit each move or remove prices of the ladder on a grid    *)
(* that rounds; together they keep it passive (given a spread floor),      *)
(* leaning against the inventory, and reduce-only at the limit             *)
(* (strategy/quotes.rs, vol_obi.rs quote), in sizes the exchange takes     *)
(* (normalize_live_order_size).  The claim does not depend on the state:   *)
(* it is evaluated once, in the initial one.                               *)
LadderIsSafe == Init => UnsafeInputs = {} /\ UnsafeSizes = {}
=============================================================================
