------------------------------ MODULE PnlActor ------------------------------
(***************************************************************************)
(* The PnL actor (account/pnl_actor.rs) with its stores: client ids        *)
(* announced by the sender and trades reported by the account stream in    *)
(* either order, trades that wait for their id, position snapshots,        *)
(* redelivered trades, the trade log, and the state that survives a        *)
(* restart.                                                                *)
(*                                                                         *)
(* A trade is named by its place in the exchange's history and has size    *)
(* one.  Amounts of money are left out: what is kept is how often a trade  *)
(* went into each total.  A generation is only ever compared with the      *)
(* current one, so a queued trade carries the outcome: fresh, or           *)
(* superseded by a snapshot.  Reports that are malformed or not of this    *)
(* account are skipped without effect and left out.                        *)
(***************************************************************************)
EXTENDS Integers, Sequences, SequencesExt, FiniteSets

CONSTANTS
    Cids,               \* client ids one process hands out
    IdSetCap,           \* ID_SET_CAP
    PendingLimit,       \* PENDING_LIMIT
    IncludeUnattributed,\* include_unattributed_account_fills
    Window,             \* how many recent trades a new subscription repeats (external)
    Sells,              \* which of the trades are sells
    MaxTrades,          \* bound: trades
    MaxEpoch            \* bound: processes, one after the other

ASSUME PnlAssumption ==
    /\ IdSetCap \in Nat \ {0} /\ PendingLimit \in Nat /\ Window \in Nat
    /\ 2 * Window + PendingLimit <= IdSetCap + 1
    /\ IncludeUnattributed \in BOOLEAN
    /\ IsFiniteSet(Cids) /\ MaxTrades \in Nat /\ MaxEpoch \in Nat \ {0}

VARIABLES
    made,       \* the account's trades: the client id of each
    delivered,  \* the last trade that an account message has covered
    session,    \* the account_all subscription is up
    epoch,      \* number of the process
    running,
    a,          \* the actor
    file,       \* the trade log: how many rows of each trade
    disk        \* LiveState on disk

vars == <<made, delivered, session, epoch, running, a, file, disk>>

Trades == 1..MaxTrades
Zero == [t \in Trades |-> 0]

(* Client ids differ from process to process.                              *)
NoCid == <<0, 0>>
OwnCids(e) == {e} \X Cids

(* What a set of trades does to the position.                              *)
Net(ts) == Cardinality(ts \ Sells) - Cardinality(ts \cap Sells)

NewState == [pos |-> 0, strategy |-> Zero, counted |-> Zero]

(* PnlActor::new over a LiveState: the sets start empty.                   *)
NewActor(state) ==
    [ids      |-> <<>>,                 \* strategy_client_ids, oldest first
     seen     |-> <<>>,                 \* seen_trade_ids, oldest first
     pending  |-> <<>>,                 \* trades that wait for their client id
     dropped  |-> {},                   \* fresh trades given up at PENDING_LIMIT
     synced   |-> FALSE,                \* sync_generation > 0
     pos      |-> state.pos,            \* accounting.position_size
     strategy |-> state.strategy,       \* trades in strategy_realized_pnl_usdc
     counted  |-> state.counted,        \* trades in fill_count and notional_usdc
     rows     |-> <<>>]                 \* TradeLogger::buffer

Init ==
    /\ made = <<>> /\ delivered = 0 /\ session = FALSE
    /\ epoch = 1 /\ running = TRUE
    /\ a = NewActor(NewState) /\ file = Zero /\ disk = NewState

Counts == [Trades -> 0..MaxEpoch]

Waiting(n) == [trade : 1..n, fresh : BOOLEAN]
Actor(n, e, counts) ==
    [ids : Seq(OwnCids(e)), seen : Seq(1..n), pending : Seq(Waiting(n)), dropped : SUBSET (1..n),
     synced : BOOLEAN, pos : Int, strategy : counts, counted : counts, rows : Seq(1..n)]

TypeOK ==
    /\ made \in Seq({NoCid} \cup (1..epoch) \X Cids)
    /\ delivered \in 0..Len(made) /\ epoch \in 1..MaxEpoch
    /\ session \in BOOLEAN /\ running \in BOOLEAN
    /\ a \in Actor(Len(made), epoch, Counts)
    /\ Len(a.ids) <= IdSetCap /\ IsInjective(a.ids)
    /\ Len(a.seen) <= IdSetCap /\ IsInjective(a.seen)
    /\ Len(a.pending) <= PendingLimit
    /\ file \in Counts
    /\ disk \in [pos : Int, strategy : Counts, counted : Counts]

-----------------------------------------------------------------------------
(* THE ACTOR'S OPERATIONS                                                  *)

(* An id set with first-in first-out eviction.                             *)
InsertBounded_Unbounded_Fault(order, x) ==
    IF Contains(order, x) THEN order ELSE Append(order, x)

InsertBounded(order, x) ==
    IF Contains(order, x) THEN order
    ELSE IF Len(order) < IdSetCap THEN Append(order, x)
    ELSE Append(Tail(order), x)

(* The loop of handle_event over the ids of a message.                     *)
InsertAll(order, xs) ==
    LET after[i \in 0..Len(xs)] == IF i = 0 THEN order ELSE InsertBounded(after[i - 1], xs[i])
    IN  after[Len(xs)]

Known(s, t) == Contains(s.ids, made[t])

(* TradeDecision::PendingClientId: an id that is not registered yet.       *)
Waits(s, t) == made[t] # NoCid /\ ~Known(s, t) /\ ~IncludeUnattributed

IsPending(s, t) == \E i \in DOMAIN s.pending : s.pending[i].trade = t

(* FillAccounting::apply on the position.                                  *)
AccountingApply(pos, t) == pos + Net({t})

MarkSeen_Forgets_Fault(s, t) == s

MarkSeen(s, t) == [s EXCEPT !.seen = InsertBounded(@, t)]

Accept_Replays_Fault(s, t, fresh) ==
    LET attributed == Known(s, t) \/ IncludeUnattributed
    IN  [MarkSeen(s, t) EXCEPT
            !.pos = AccountingApply(@, t),
            !.strategy[t] = IF attributed THEN @ + 1 ELSE @,
            !.counted[t] = @ + 1,
            !.rows = Append(@, t)]

(* try_accept_trade, from the first write on: a superseded trade is in the *)
(* position already.                                                       *)
Accept(s, t, fresh) ==
    LET attributed == Known(s, t) \/ IncludeUnattributed
    IN  [MarkSeen(s, t) EXCEPT
            !.pos = IF fresh THEN AccountingApply(@, t) ELSE @,
            !.strategy[t] = IF attributed THEN @ + 1 ELSE @,
            !.counted[t] = @ + 1,
            !.rows = Append(@, t)]

(* At the limit the oldest waiting trade is given up.                      *)
Queue(s, t) ==
    LET q == Append(s.pending, [trade |-> t, fresh |-> TRUE])
    IN  IF Len(q) <= PendingLimit THEN [s EXCEPT !.pending = q]
        ELSE [s EXCEPT !.pending = Tail(q),
                       !.dropped = IF Head(q).fresh THEN @ \cup {Head(q).trade} ELSE @]

ProcessOrQueue(s, t) ==
    IF Contains(s.seen, t) \/ IsPending(s, t) THEN s
    ELSE IF Waits(s, t) THEN Queue(s, t)
    ELSE Accept(s, t, TRUE)

(* The loop of handle_event over the trades of a message.                  *)
ProcessAll(s, trades) ==
    LET after[i \in 0..Len(trades)] ==
            IF i = 0 THEN s ELSE ProcessOrQueue(after[i - 1], trades[i])
    IN  after[Len(trades)]

RetryOne(s, p) ==
    IF Contains(s.seen, p.trade) THEN s
    ELSE IF Waits(s, p.trade) THEN [s EXCEPT !.pending = Append(@, p)]
    ELSE Accept(s, p.trade, p.fresh)

RetryPending_OnlyOldest_Fault(s) ==
    IF s.pending = <<>> THEN s
    ELSE RetryOne([s EXCEPT !.pending = Tail(@)], Head(s.pending))

(* The loop of retry_pending over the queue q it has taken.                *)
RetryAll(s, q) ==
    LET after[i \in 0..Len(q)] == IF i = 0 THEN s ELSE RetryOne(after[i - 1], q[i])
    IN  after[Len(q)]

RetryPending(s) == RetryAll([s EXCEPT !.pending = <<>>], s.pending)

NoPosition == [seen |-> FALSE]
Position(n, entry) == [seen |-> TRUE, signed |-> Net(1..n), entry |-> entry]

(* A position re-seeds the accounting if it is flat or has an entry price; *)
(* every trade queued so far is then superseded.                           *)
UpdatePosition(s, p) ==
    IF ~p.seen THEN s
    ELSE IF p.signed # 0 /\ ~p.entry THEN s
    ELSE [s EXCEPT !.pos = p.signed, !.synced = TRUE, !.dropped = {},
                   !.pending = [i \in DOMAIN @ |-> [@[i] EXCEPT !.fresh = FALSE]]]

-----------------------------------------------------------------------------
(* EVENTS                                                                  *)

HandleRegisterClientIds(ids) ==
    /\ running
    /\ a' = RetryPending([a EXCEPT !.ids = InsertAll(@, ids)])
    /\ UNCHANGED <<made, delivered, session, epoch, running, file, disk>>

(* Trades first, then the ones that wait, then the position.               *)
HandleAccountAll(trades, position) ==
    a' = UpdatePosition(RetryPending(ProcessAll(a, trades)), position)

(* An update inside a session: the trades up to n that were not reported   *)
(* before, a position or both.  A position is the one after the trades     *)
(* delivered with it.                                                      *)
AccountUpdate(n, position) ==
    /\ running /\ session
    /\ n > delivered \/ position.seen
    /\ HandleAccountAll([i \in 1..n - delivered |-> delivered + i], position)
    /\ delivered' = n
    /\ UNCHANGED <<made, session, epoch, running, file, disk>>

(* The first message of a subscription: the position, and recent trades    *)
(* whether or not they were reported before (external).                    *)
Subscribe(w) ==
    /\ running /\ ~session
    /\ w <= Len(made)
    /\ HandleAccountAll([i \in 1..w |-> Len(made) - w + i], Position(Len(made), TRUE))
    /\ delivered' = Len(made) /\ session' = TRUE
    /\ UNCHANGED <<made, epoch, running, file, disk>>

SessionLost ==
    /\ session
    /\ session' = FALSE
    /\ UNCHANGED <<made, delivered, epoch, running, a, file, disk>>

-----------------------------------------------------------------------------
(* PERSISTENCE                                                             *)

WriteRows(n) ==
    file' = [t \in Trades |->
        file[t] + Cardinality({i \in 1..n : a.rows[i] = t})]

RowsLeft_PutBack_Fault(n) == IF n = Len(a.rows) THEN <<>> ELSE a.rows

(* TradeLogger::flush: the rows are gone whether or not they were written. *)
RowsLeft(n) == <<>>

(* flush_all: the log, of which n rows reach the file, and the live state, *)
(* replaced as a whole or not at all.                                      *)
FlushAll(n, saved) ==
    /\ running
    /\ n <= Len(a.rows)
    /\ WriteRows(n)
    /\ disk' = IF saved THEN [pos |-> a.pos, strategy |-> a.strategy, counted |-> a.counted]
                        ELSE disk

Tick(n, saved) ==
    /\ FlushAll(n, saved)
    /\ a' = [a EXCEPT !.rows = RowsLeft(n)]
    /\ UNCHANGED <<made, delivered, session, epoch, running>>

Stopped ==
    /\ running' = FALSE /\ session' = FALSE
    /\ a' = NewActor(NewState)
    /\ UNCHANGED <<made, delivered, epoch>>

(* PnlEvent::Shutdown, or the channel closed.                              *)
Shutdown(n, saved) == FlushAll(n, saved) /\ Stopped

Crash == running /\ Stopped /\ UNCHANGED <<file, disk>>

(* A file that is missing or does not parse restores nothing.              *)
Restart(readable) ==
    /\ ~running /\ epoch < MaxEpoch
    /\ epoch' = epoch + 1 /\ running' = TRUE
    /\ a' = NewActor(IF readable THEN disk ELSE NewState)
    /\ UNCHANGED <<made, delivered, session, file, disk>>

(* The exchange (external): an order of this or of an earlier process      *)
(* trades, or something without a client id (a liquidation).               *)
Trade(cid) ==
    /\ Len(made) < MaxTrades
    /\ made' = Append(made, cid)
    /\ UNCHANGED <<delivered, session, epoch, running, a, file, disk>>

-----------------------------------------------------------------------------
Positions(n) == {NoPosition} \cup {Position(n, entry) : entry \in BOOLEAN}

Next ==
    \/ \E cid \in {NoCid} \cup (1..epoch) \X Cids : Trade(cid)
    \/ \E n \in 1..Cardinality(Cids) : \E ids \in [1..n -> OwnCids(epoch)] :
            HandleRegisterClientIds(ids)
    \/ \E n \in delivered..Len(made) : \E p \in Positions(n) : AccountUpdate(n, p)
    \/ \E w \in 0..Window : Subscribe(w)
    \/ \E n \in 0..Len(a.rows), saved \in BOOLEAN : Tick(n, saved) \/ Shutdown(n, saved)
    \/ \E readable \in BOOLEAN : Restart(readable)
    \/ SessionLost \/ Crash

Spec == Init /\ [][Next]_vars

-----------------------------------------------------------------------------
(* "It dedupes exchange trades" (pnl_actor.rs): however a trade is         *)
(* repeated, queued, retried, and with the process restarted in between,   *)
(* an order's trade enters the totals once.  A trade without client id is  *)
(* recognised only by the process that booked it.                          *)
BookedOnce ==
    \A t \in DOMAIN made : a.counted[t] <= IF made[t] = NoCid THEN epoch ELSE 1

(* "a trade queued BEFORE a position-snapshot re-seed is already included  *)
(* in that snapshot" (pending): once a snapshot has been seen, the local   *)
(* position is the exchange's, but for the trades that still wait for      *)
(* their id, each queued once, or were given up since.                     *)
PositionTracksExchange ==
    a.synced =>
        LET fresh == {i \in DOMAIN a.pending : a.pending[i].fresh}
        IN  /\ Net(1..delivered) =
                a.pos + Net(a.dropped) + Net({a.pending[i].trade : i \in fresh})
            /\ \A i, j \in DOMAIN a.pending :
                a.pending[i].trade = a.pending[j].trade => i = j

(* No trade waits for an id that has been registered: the two events may   *)
(* come in either order (retry_pending).                                   *)
NoRegisteredTradeWaits ==
    \A i \in DOMAIN a.pending : ~Known(a, a.pending[i].trade)

(* "duplicated/garbled audit data is worse than a logged gap" (flush): a   *)
(* failing write never repeats a row, so the log has at most one for each  *)
(* time the trade was booked.                                              *)
LoggedOnce ==
    \A t \in DOMAIN made :
        file[t] + Cardinality({i \in DOMAIN a.rows : a.rows[i] = t})
            <= IF made[t] = NoCid THEN epoch ELSE 1
=============================================================================
