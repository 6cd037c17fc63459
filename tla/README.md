# TLA+ models of the Lighter market maker

A verification development for the Rust market maker in this repository: it quotes a ladder of
post-only orders on Lighter, driven by the Lighter book and a Binance order-book-imbalance signal.
The models cover the parts whose failure costs money: which orders may rest, who may send, with
which nonce, which book is quoted from, what is booked as a fill, and what happens when something
is slow, lost or late.

## 1. Inventory of the system

| Component | State it keeps | Operations | What makes it correct |
|---|---|---|---|
| `HotTask` (orchestrator.rs) | local book, `OrderManager`, last published ids | one `maybe_quote` per market-data message: drain events, take the snapshot, throttle, gate, collect, mark, publish, send | a slot is never quoted twice; a live order is never forgotten |
| `OrderManager` (exec/order_manager.rs) | one slot per (side, level), client-to-exchange id map | collect, mark, bind, clear, fill, reconcile | a slot is freed only when its order is dead |
| paced sender (exec/paced_send.rs, exec/signing.rs) | the batch in hand, the rate limiter | take, gate, lock, sign, send, handle Ok / Rejected / Unknown / NotSent | nonce and slots are repaired on every outcome; nothing but cancels while trading is not allowed |
| rate limiter (exec/rate_limit.rs) | sliding window, last send, backoff, quota | `write_slot`, record, 429 escalation | stays within 40 ops per 60 s, serves every backoff, starves nobody |
| nonce manager (lighter/nonce.rs) | next nonce | reserve, roll back, refresh | a trusted nonce is the one the exchange expects |
| risk controller (risk.rs) | pause deadline, rejection count, last reconcile, mismatch streak | pause, recover, record | resumes only on a clean reconcile and fresh data |
| reconcile poller (orchestrator.rs) | previous orphans | dead-man switch, REST snapshot, over-cap cancel-all, nonce re-sync, orphan cancels | repairs what the rest of the program lost track of |
| account streams, `SharedPosition`, `Derived` (orchestrator.rs, shared.rs) | session, position with its age, capital | Fill, IdResolved, position, capital | fills reach the slot table once; an old position cannot let the exposure grow without end |
| startup and shutdown (orchestrator.rs, exec/instance_lock.rs) | halt flag, instance lock | lock, nonce, leverage, connect, verified cancel-all before and after trading | nothing of another process rests while one trades; nothing rests after a verified exit |
| transaction websocket (lighter/tx_ws.rs) | connection, reader, pinger | send a batch, route the answer | an answer belongs to the frame it answers; no send hangs |
| quote ladder (strategy/quotes.rs, vol_obi.rs) | position limit, warm-up | level-0 quote, levels, exit bias, fallback exit, order size | passive, leans against the inventory, reduce-only at the limit |
| Binance depth mirror (binance/) | snapshot and diffs | bracket, apply, resync | the mirror is the exchange's book or is being resynced |
| Lighter book (book/, lighter/ws.rs) | book, last nonce | snapshot, delta, gap | as above |
| PnL actor (account/) | position, seen trades, pending trades | attribute, deduplicate, persist | every own trade counted once |
| strategy statistics, metrics, config, logging, REST, signer | | | not modelled (section 7) |

How they interact. The hot task runs on its own thread and talks to the async tasks through a
`watch` mailbox that keeps only the latest batch, an unbounded event queue, an `ArcSwap` that holds
the latest unread snapshot, and an `ArcSwap` with the tracked ids. Sender, poller and shutdown share
`sdk_lock` (a FIFO tokio mutex), the nonce counter, `nonce_ok`, the risk controller and `halt`.
The hard behaviours follow from this: batches overwritten before they are sent, state checked before
an await and used after it, events of two streams in either order, snapshots older than the state
they are compared with, answers that never come, and a shutdown in the middle of all of it. The
full list, line by line, is under `hazards` in PROJECT.json.

## 2. Modules

| Module | Models | Extends |
|---|---|---|
| `OrderSlots` | the slot operations of `OrderManager`, as operators on one slot | |
| `LiveOrders` | hot task, mailbox, event queue, sender, poller, exchange and account stream around the slot table | `OrderSlots` |
| `MCLiveOrders` | `LiveOrders` for TLC | `LiveOrders` |
| `LiveOrdersProofs` | TLAPS proofs: types, keystone, tracking, freed orders | `LiveOrders` |
| `RiskController` | risk.rs, as operators on its state | |
| `TradingGate` | sender, poller and shutdown around `sdk_lock`, nonce, `nonce_ok`, risk controller, halt | `RiskController` |
| `GateInvariant` | the inductive invariant of `TradingGate` | `TradingGate` |
| `GateProofs` | TLAPS proofs: shutdown, nonce, resume | `GateInvariant` |
| `RateLimiter` | rate_limit.rs and its use by the sender | |
| `RateLimiterProofs` | TLAPS proofs: window and backoff | `RateLimiter` |
| `BookMirror` | abstract: what a local copy of an exchange's book promises | |
| `BookFeed` | external: a book that changes and the messages about it | |
| `BookHistory` | what is true of a book and of a message, and the invariant of the feed | `BookFeed` |
| `DepthSync` | depth_client.rs, obi.rs; implements `BookMirror` | `BookFeed` |
| `DepthSyncProofs` | TLAPS proofs: signal, refinement | `DepthSync`, `BookHistory` |
| `LighterBook` | ws.rs and `on_orderbook`; implements `BookMirror` | `BookFeed` |
| `LighterBookProofs` | TLAPS proofs: resets, refinement | `LighterBook`, `BookHistory` |
| `PnlActor` | pnl_actor.rs with its live-state store and trade log, position part of fill_accounting.rs | |
| `PnlActorProofs` | TLAPS proofs: totals, trade log, position, queue | `PnlActor` |
| `TxChannel` | abstract: what the outcome of a send promises its caller | |
| `TxWebSocket` | tx_ws.rs and the sender's REST path; implements `TxChannel` | |
| `Session` | processes on one account: lock, startup, sends, shutdown, crash; the id generator | `TxWebSocket` |
| `SessionProofs` | TLAPS proofs: lock, ghosts, client ids, refinement of `TxChannel` | `Session` |
| `Quotes` | quotes.rs, `VolObiCalculator::quote`, `dynamic_max_position`, as pure operators | |
| `QuoteCycle` | position and capital feeds, the poller's REST fallback, `maybe_quote`, an exchange that fills | `Quotes` |
| `QuoteCycleProofs` | TLAPS proofs: exposure, ladders, order sizes | `QuoteCycle` |

`LiveOrders` and `TradingGate` are two views of the same tasks. The first keeps what each order is
and lets a batch be refused, skipped, rejected or lost wherever the code can do so; the second keeps
who may send and reduces orders to "something of ours rests". Neither hides a transition of the
other: whatever one leaves out appears in the other as a free choice. The same holds for
`RateLimiter`: its verdict is a free choice in both. `Session` is a third view, of what outlives a
process: frames, nonces and orders; its trading loop is one send at a time, and pauses, which only
remove sends, are left to `TradingGate`. `QuoteCycle` is the fourth, of what the quotes are made from;
an op there lands or is dropped, whatever the reason `LiveOrders` has for it.

### State and actions

*Slots.* A slot is `[id, size, status, miss, age]`. Client ids are numbered per slot because the
generator never repeats one; id 0 is both `None` and the `ClearLive` wildcard. `age` is
`updated_at.elapsed()`, capped at `Grace`, since only `>= grace` is ever asked. Prices are reduced to
"no quote", "unchanged" and "moved past the threshold"; sizes are amount ticks. `Placing` and
`Modifying` are one status, since no code distinguishes them.

*Hot task.* `HotDrainEvent` and `HotDrained` are the `try_recv` loop; one of `HotThrottled`,
`HotPullLadder`, `HotNotReady`, `HotQuote` is the rest of the tick and begins with the snapshot swap;
`HotRequestResnapshot` drops the unsent batch. The two halves of a tick are separate steps: events
and snapshots that arrive in between are seen one tick apart, as in the code. Events of different
slots commute, so the queue is one FIFO per slot.

*Sender.* In `LiveOrders` a batch is in the `gate` until the exchange has taken it and `landed` until
its answer is handled. In `TradingGate` the positions are those of `send_once`: `gate` (rate wait and
wait for the lock), `wire`, `landed`, `settle` (after a rejection), `cancelAll`. Every outcome is an
action with the nonce correction, the risk update and the cancel-all the code performs.

*Nonce.* `ahead` is the local counter minus the nonce the exchange expects. The nonces of a batch are
reserved and rolled back together and count as one.

*Risk.* A deadline is two flags: `armed` (`paused_until.is_some()`) and `paused` (`is_paused()`).

*Poller.* One action per stretch between two awaits. A stretch under `sdk_lock` is one action,
because nobody else can act on what the lock protects meanwhile.

*Rate limiter.* Instants are ages or time left, capped where no comparison can tell them apart, so
the model is finite without a bound on time. The sender owns the limiter, hence all sleeps of
`write_slot` are known on entry and appear as one wait. Timestamps expire from the front of the deque
only (`Expired`), as in `prune_op_window`. Backoff levels are counted up to `TopLevel`, from which on the delay is
the maximal one.

*Books.* The contents of a price level are named by the update that set them, so "the book after
update n" is a first-order statement (`IsBookAt`) and a removal is an update like any other. A diff
has `prev`, `first`, `last`: `pu`, `U`, `u` on Binance, `begin_nonce` and `nonce` on Lighter.
`DepthSync` has the positions of `run` and `session`: `backoff`, `fetch` (the socket is buffered
while REST answers), `drain` (the buffered diffs are taken one by one: dropped, applied, or a gap),
`live`, `pause` before a re-snapshot. `LighterBook` keeps the reconnect permit
of `md_reconnect`, the lazy `reset_flag` (`Kept` is the book after it) and the ticker cross-check as
"none", "agrees" or "deviates".

*PnL.* Trades have size one and are named by their place in the exchange's history; the totals keep
how often each trade went in. A queued trade's generation is only compared with the current one,
so it is a flag. Client ids are pairs (process, number): the generator does not repeat one after a
restart. Memory is lost on a stop or crash; `disk` and `file` are what was flushed. The loops over ids,
trades and waiting trades are functions of the number of turns taken (`InsertAll`, `ProcessAll`, `RetryAll`).

*Transaction websocket.* `link` is `Conn` (alive flag, whether the reader still runs, frames whose
answer is still owed, messages on the wire, `resp_rx`), `call` the place inside `send_batch`: `open`,
`drain`, `write`, `wait`, or `rest` for the single-op REST path. Answers carry no identifier, neither
in the code nor in the model; `fate` (what became of a frame) is seen by the properties only. A
message that answers nothing may arrive between two sends.

*Session.* A frame stands for its batch: one nonce, one order. `ahead` is a process's counter minus the
nonce the exchange expects, and the nonce of a signed frame is kept the same way, so that every
accepted transaction moves all of them by one. `CollectUnsent` takes client ids that are never sent,
at most `MaxUnsent` of them in a row. `Exit` gives the lock back and drops the socket, but not
the frames already written: they may land in the life of the next process. The clock of the id
generator is an input that may stand still, and ids wrap at `MaxIndex`.

*Quotes.* Prices are integers on a grid of `Tick`; a fraction is carried as numerator over a fixed
denominator until the code rounds it. An optional price is a set of at most one. The quality
multiplier is left out, since its only caller passes 1, and so is the adverse-selection boost (0).

*Quote cycle.* One level per side, orders of one unit, a constant mid. Time is counted in poller periods.
`seen` and `age` are `SharedPosition`, `slot` keeps `used`, `age` and `miss`; the sides whose exchange
id is known are an input of `MaybeQuote`. While the stream is down the exchange fills and nobody is
told. A position below the dust threshold cannot occur with whole units.

*External.* The exchange (accept, fill, kill, drain, a late frame) and the loss of an account-stream
session are modelled from how the code uses them. The exchange rejects a batch that modifies an
order which no longer rests, as the comment on `collect_order_operations` reports. A new account
subscription reports the position with its entry price and repeats at most `Window` recent trades.

### Simplifications

Where an action says less than the lines it stands for:

* `OrderSlots`, `LiveOrders`: the id map does not evict (`ID_MAP_CAP` of 200, order_manager.rs 330-356;
  ids of live slots are kept there). The second loop of `process_reconcile` (407-431) would also bind a
  listed order that is not live, and skips one of the wrong side; here a snapshot lists live
  orders of their own slot. A trade is reported once, though orchestrator.rs 533-553 emits a Fill for
  every trade of every message, also for one a new subscription repeats; a repeated whole Fill finds its id
  gone, a repeated partial one counts twice (known limits). A frame of unknown outcome lands at once or never;
  late ones are in `TradingGate` and `Session`.
* `TradingGate`: one call of cancel-all loses at most one nonce; its up to five attempts
  (orchestrator.rs 987-1021) could lose several, which `MaxAhead` bounds over several calls.
* `Session`: a batch of k ops takes k nonces, here one frame with one order; the re-sync of the nonce
  succeeds. Its failures are in `TradingGate`.
* `TxWebSocket`: a stray message arrives between sends.
* `LighterBook`: the age and the gap of a delta are always judged; the code skips them if a message
  has no offset or no nonce (orchestrator.rs 1373, 1382).
* `DepthSync`: the REST snapshot is the whole book, not its best `depth_snapshot_limit` levels.
* `PnlActor`: the position in a message contains just the trades delivered with or before it; the
  filter `id > 0` is dropped.
* `QuoteCycle`: when flat and not ready the code publishes an empty batch (orchestrator.rs 1604), here the op
  stays and may be dropped (`Dropped`). The warm-up by the clock (1579) is part of `warm`. The capital is an
  input that changes on its own; the theorem and the run fix it, although in fact it moves with each fill.

## 3. Properties and runs

Every property of a passing run has a mutant: a definition named `X_Fault` that is `X` with a
plausible programming error, under which TLC finds the property violated.

| Run | Instance | Shows |
|---|---|---|
| `gate` | 2 rejections, debounce 2, counter up to 2 ahead, late frames, failing refreshes | `GateInv`, `NoResumeOnDirtySnapshot` |
| `gate_live` | thresholds 1, neither late frames nor lost refreshes, fair | `FlatAfterShutdown`, `TrustedNonceIsInSync`, `DeadManPullsQuotes`, `NonceIsResynced`, `RecoversWhenHealthy`, `ShutdownCompletes` |
| `keystone` | 3 orders, no fills, grace 2 | `AtMostOneLive`, `LiveIsTracked` |
| `fills` | 2 orders, whole-order fills | `FreedOrderIsDead` |
| `repair` | 2 orders, one partial snapshot, failing cancel-alls, cap 2 reached or not, fair | `DuplicatesAreRepaired`, `LostCancelSelfHeals`, `DeadSlotIsFreedOrTouched` |
| `rate_limiter` | 4 ops per 5 ticks, three backoff levels | `WindowRespected`, `BackoffIsServed`, `NoStarvation` |
| `depth_sync` | 2 levels, 5 updates, 3 messages on the socket, 3 resyncs | `FollowsTheExchange` (refinement of `BookMirror`), `NoAlphaFromUnsyncedBook` |
| `lighter_book` | 2 levels, 4 updates, 2 messages, streak 2, fair | `FollowsTheExchange`, `DistrustForcesReset`, `BookIsRepaired` |
| `pnl` | 4 trades, 2 processes, id sets of 3, queue of 2, 1 repeated trade | `BookedOnce`, `PositionTracksExchange`, `NoRegisteredTradeWaits`, `LoggedOnce` |
| `session` | 2 processes, 2 frames, 1 stray message, ids up to 3, 2 attempts, fair | `NoGhostOrders`, `IdsAreUsable`, `OutcomesAreHonest` (refinement of `TxChannel`), `SessionSettles` |
| `quoting` | limit between 1 and 2 units, fallback and grace 2 periods, 1 outage, 1 fill during a read; ladders for 4 mids, 4 spreads, 5 drifts, 7 positions, 5 limits | `ExposureIsBounded`, `LadderIsSafe` |
| `late_bind` | 3 orders with fills | violation of `AtMostOneLive` |

### Where the code and its comments disagree

* `late_bind`. A fill reported on the account stream before the sender handled its Ok frees the slot;
  the hot task quotes it again; then the late `BindLive` of the filled order overwrites the new id.
  `ClearLive` is guarded by the id, `BindLive` is not. It takes three orders of one slot, so `fills`
  passes with two.

Known limits that are not runs of their own:

* `write_slot` may sleep up to 15 s for the free slot (30 s for the window). The slot it holds ages past
  the 5 s grace, two snapshots clear it, the hot task creates again, and both creates are sent. The
  keystone comment (orchestrator.rs 1645) says this can never happen; the note in paced_send.rs assumes
  a wait of at most 0.15 s. `Keystone.cfg` with `SlowSender = TRUE`, `Grace = 1`, `MaxId = 2` shows it:
  `AtMostOneLive` is violated. `keystone` therefore assumes that an operation settles inside the grace.
* The sender checks pause and `nonce_ok` before two awaits (rate gate, `sdk_lock`) and afterwards only
  `halt`, while paced_send.rs 84 says "While not allowed to trade, place NO new orders": TLC violates
  `NoTradeUnlessAllowed` when it is added to `Gate.cfg`.
* `NoGhostOrders` rests on the start's own transactions. With `SetLeverage = FALSE` or
  `RefreshMayFail = TRUE` it is violated: a frame of a crashed process lands after a verification that
  saw an empty book although its cancel-all had failed, so nothing had used up the frame's nonce.
* A message of an unexpected kind that arrives during a send is taken for the answer, and reads as a
  success if it has no code (tx_ws.rs 139). In `TxWebSocket` strays come only between two sends.
* `connect_async` (tx_ws.rs 102), `write.lock().await` and `w.send().await` (tx_ws.rs 182, 183) have no
  timeout and run under `sdk_lock`: a socket that neither takes bytes nor fails holds up the sender, the
  poller and the shutdown until TCP gives up. The fairness of `session` assumes that all three end.
* orchestrator.rs 722 says the REST position must "never overwrite a fresh WS value", but the age is
  tested before the request: the answer may replace a newer position. `ExposureIsBounded` allows one
  order per fill during the read for it (`ReadFills`); without that allowance TLC violates it.
* `ExposureIsBounded` is tight, and holds because REST corrects an old position after `Fallback`
  periods. It fails when REST cannot (`PositionReadFails = TRUE`: a failed read is dropped silently),
  when capital changes during the outage (`Capitals = {0, 320}` or `{40, 320}`: the ladder is pulled, the
  cancel of an order that is already filled frees its slot at once, and the slot is quoted again on
  the old position), and with `Warmup = 1` and `Grace = 3` (the calculator is warm again before reconcile
  frees the slot). The code warms up on `min_warmup_samples` of 100 ms, ten seconds, and has a grace of
  five. Messages under way count like fills during a read (`Missed`: with `MaxStream = 3` TLC needs
  two even for `ReadFills = 0`). A message delayed by more than a period while the stream counts as connected
  is not modelled either.
* The comment at orchestrator.rs 1499 speaks of a "position feed lost" mid-run; the gate tests only
  whether a position was ever received.
* Flat and not ready, `maybe_quote` publishes an empty batch (orchestrator.rs 1602): a ladder
  that rested when the book was reset keeps resting until the calculator is warm again.
* With `min_half_spread_bps = 0` (the `if` at vol_obi.rs 193) nothing keeps the drift from carrying a
  quote across the mid, as TLC shows for `MinHalfSpread = 0` if passivity is claimed there too; the
  exchange's post-only check is then the only guard. `Safe` claims `Passive` (no quote across the
  mid, outer levels not closer) given a floor, the rest without one, and TLC also evaluated `LadderIsSafe`
  with `MinHalfSpread = 0`. Spread factors are
  whole numbers of at least 1; `validate_live` accepts any positive one, and below 1 the outer levels
  come closer than the first.
* `Leans` is claimed where the minimal half spread is at least a tick. With less the exit bias, which
  starts from a depth of at least one tick, may move the exit one tick away from the mid.
* With `LateFrames = TRUE` TLC violates `FlatAfterShutdown`: a frame that timed out lands after a
  cancel-all that verified an empty book without having been accepted itself. With
  `LostRefresh = TRUE` it violates `TrustedNonceIsInSync`: orchestrator.rs 1003 ignores a failed
  refresh and leaves `nonce_ok` up. These two constants are the hypotheses of the theorems below.
* `record_rejection` arms a pause without resetting `last_reconcile_ok`, so the reconcile that
  permits a resume may predate the pause.
* A partial fill may free a slot whose order still rests. `BaseSize = 4, FillSizes = {2}`: a snapshot
  already contains a trade whose Fill is still queued and `apply_fill` subtracts it again; a Fill that a
  new subscription repeats does the same. `BaseSize = 3, FillSizes = {1}`: `r > tol` takes a remainder
  of exactly one tick for a full fill. `FreedOrderIsDead` excepts just the step that applies a Fill
  smaller than a quote (`AppliesPartialFill`). It does claim that the sizes and slots such a Fill leaves
  behind lead no later event or snapshot to free the slot of a resting order. The rest of
  the order is an orphan, which the poller cancels once it is seen twice.
* A dead slot may linger beyond `grace`: every modify or cancel restarts the grace window and the miss
  counter (order_manager.rs 247). What does hold is `DeadSlotIsFreedOrTouched`.
* A quiet Binance symbol: if the first diff after the snapshot begins right behind it (`U` =
  `lastUpdateId` + 1), `classify_event` asks for a resync although nothing was lost, and five of them
  drop the connection. The book stays correct; the signal is missing meanwhile.
* With `BadSnapshots = TRUE` `LighterBook` does not implement `BookMirror`: after a reconnect whose
  snapshot does not parse, the first delta becomes the book (orchestrator.rs 1406) and later nonces
  look continuous. Only the ticker cross-check would notice.
* `BookedOnce` needs `2 * Window + PENDING_LIMIT <= ID_SET_CAP + 1`. A bound that
  counts one window is not enough; TLC shows why (`Window = 2`, `PendingLimit = 1`, `IdSetCap = 3`,
  four trades): the set keeps the order of booking, not of trading. A subscription repeats trade 3
  before it repeats trade 2, and a waiting trade 1 is booked later still; then one trade evicts 3,
  which the next subscription repeats. The code has 2000 and 10000, so up to 4000 repeated
  trades are harmless. A trade without client id is not recognised by the next process and may enter
  the totals once per process; with `include_unattributed_account_fills` every trade may
  (`IncludeUnattributed = TRUE` violates `LoggedOnce` and `BookedOnce`).
* `IdsAreUsable` needs a clock that is not stuck just below 2^48 - 1 (`ClockFits`): there the id
  wraps to 1 and, while it is behind the clock, jumps back to it, to an id that may still rest.
* Client ids are announced only on an Ok answer: fills of an order whose outcome stayed unknown wait
  in the pending queue for ever.
* The header of trade_log.rs (line 9) says rows of a failed write are put back; `flush` drops them.
  Putting them back would repeat rows: it is the mutant that breaks `LoggedOnce`.

### Bounds and why they are enough

* One slot. Slots meet only inside a batch, and a batch may be dropped, refused or rejected whatever
  it holds, so one slot already sees all another slot can do to it.
* `MaxId`: three orders are needed for a late event of the first to meet the second while a third is
  created; no property relates more than two orders and an event of an older one.
* `Grace` of one or two ticks: "younger than the grace" and "older" both occur; with two a slot can
  age without being aged out.
* One trade awaits its report (`ExchangeFill`); one partial snapshot (`MaxPartial`), enough to combine
  with a stale one into the two misses of the debounce.
* `fills` has whole fills only, so the branch of `apply_fill` that leaves a remainder
  (order_manager.rs 314) is covered by the theorem `FreedIsDead`, which holds for every fill and quote
  size. With partial fills two orders make too many states for a run; one order with `BaseSize = 3` and
  `FillSizes = {1}` (2.4 million states) or `{1, 3}` was checked without an error.
* `MaxAhead`: how far unnoticed reservations may pile up. The proofs hold for every value.
* `RateLimiter`: a full window needs more than one batch, a batch can be skipped, slept out or let
  through, and three levels reach the maximal backoff.
* `OtherOrders`: whether the cap on live orders is exceeded also depends on slots that are not
  modelled; with one such order it may or may not be, at every poll.
* `DepthSync`, `LighterBook`: two levels suffice for a missed change to be visible next to one that is
  not; the updates allow a snapshot, a lost diff and two that follow it; the socket holds more than
  the message being read, and the resync limit and the streak are reached and missed.
* `PnlActor`: four trades make the seen set (3) evict and the pending queue (2) overflow, two
  processes show what one leaves to the next; `Sells = {2}` takes the position through flat.
* `Session`: a predecessor and a successor, each of which may send; two frames so that one process sends
  both or each sends one, hence an answer can be late and ids can collide; `MaxIndex` 3 with a clock
  that stands still at 2 reaches the wrap and the sentinel within two sends, the second attempt of the
  cancel-all is reached and missed.
* `QuoteCycle`: a limit that admits more than one adding order, `MaxLong` at the bound that is claimed plus
  one, so that the bound can be broken; in the code interval, grace and fallback are 3 s, 5 s and 6 s, so
  two periods each. The bound was also checked with fallback 3 and grace 2 or 3, grace 1, no and two
  fills per read, two outages and shorts up to 3.
* `LadderIsSafe` does not depend on the state and is evaluated once, in the initial one. Its inputs take
  every branch: mid on and off the grid, no and large spread, drift beyond the spread, positions
  on both sides below, at and above the limit, a limit of 0.
* `CHECK_DEADLOCK FALSE` where the system may stop: the process exits, or all ids are used up.

### Fairness

All tasks are tokio tasks on timers or channels that keep being polled, every await has a timeout
(except the three of tx_ws.rs under known limits) and market data keeps ticking: weak fairness of
each task's steps. `sdk_lock` is a FIFO mutex: strong
fairness for those who wait for it. REST is not down for ever: of the refreshes, cancel-alls and
orphan cancels that are retried, one succeeds (strong fairness on the successful instance). `subscribe_loop` reconnects for ever and takes
its permit before the next read (weak fairness), and of the sessions that come up with a message
one gets to read it (strong fairness of `ReadMessage`). In `Session` a running process takes its next
step, since its awaits end by a timeout or an error (of the three without a timeout this is an assumption); nobody has to start, stop, send or answer. Nothing
is assumed of the exchange or of
market data.

## 4. What is proved

Eight modules hold TLAPS proofs. All theorems hold for every value of the constants that the named
assumptions admit; a hypothesis is written out where one is needed. Section 3 reports the TLC
counterexample that shows it to be needed.

| Module | Theorem | Statement |
|---|---|---|
| `GateProofs` | `GateInvariantHolds` | `Spec => []GateInv` |
| | `TypeCorrect` | `Spec => []TypeOK` |
| | `ShutdownIsFlat` | `~LateFrames` implies `Spec => []FlatAfterShutdown` |
| | `TrustedNonce` | `~LateFrames`, `~LostRefresh` imply `Spec => []TrustedNonceIsInSync` |
| | `DirtySnapshotBlocksResume` | `Spec => NoResumeOnDirtySnapshot` |
| `LiveOrdersProofs` | `LiveInvariantHolds`, `TypeCorrect` | `Spec => []LiveInv`, `Spec => []TypeOK`, in every environment |
| | `Keystone`, `Tracking` | `Healthy /\ Spec => []AtMostOneLive`, `... => []LiveIsTracked` |
| | `FreedIsDead` | `Prompt /\ Spec => FreedOrderIsDead` |
| `RateLimiterProofs` | `LimiterInvariantHolds`, `TypeCorrect` | `Spec => []LimiterInv`, `Spec => []TypeOK` |
| | `WindowIsRespected` | `Spec => []WindowRespected` |
| | `BackoffServed` | `Spec => BackoffIsServed` |
| `DepthSyncProofs` | `DepthInvariantHolds`, `TypeCorrect` | `Spec => []DepthInv`, `Spec => []TypeOK` |
| | `AlphaNeedsSync` | `Spec => []NoAlphaFromUnsyncedBook` |
| | `DepthMirrors` | `Spec => FollowsTheExchange` (refinement of `BookMirror`) |
| `LighterBookProofs` | `LighterInvariantHolds`, `TypeCorrect` | `Spec => []LighterInv`, `Spec => []TypeOK` |
| | `DistrustIsTemporary` | `Spec => []DistrustForcesReset` |
| | `LighterMirrors` | `~BadSnapshots` implies `Spec => FollowsTheExchange` |
| `SessionProofs` | `SessionInvariantHolds`, `TypeCorrect` | `Spec => []SessionInv`, `Spec => []TypeOK` |
| | `OneProcessTrades` | `Spec => []OneAtATime` |
| | `NoGhosts` | `SetLeverage`, `~RefreshMayFail` imply `Spec => []NoGhostOrders` |
| | `IdsStayApart` | `SetLeverage`, `~RefreshMayFail`, `ClockFits` imply `Spec => []IdsAreUsable` |
| | `HonestOutcomes` | `Spec => OutcomesAreHonest` (refinement of `TxChannel`) |
| `PnlActorProofs` | `PnlInvariantHolds`, `TypeCorrect` | `Spec => []PnlInv`, `Spec => []TypeOK` |
| | `BooksOnce`, `LogsOnce` | `~IncludeUnattributed` implies `Spec => []BookedOnce`, `... => []LoggedOnce` |
| | `TracksExchange` | `Spec => []PositionTracksExchange` |
| | `NoneWaitsInVain` | `Spec => []NoRegisteredTradeWaits` |
| `QuoteCycleProofs` | `CycleInvariantHolds` | `Regular` implies `Spec => []CycleInv` |
| | `ExposureStaysBounded` | `Regular` implies `Spec => []ExposureIsBounded` |
| | `EveryLadderIsSafe` | `Safe(mid, half, drift, position, maxPos)` for every `mid > 0`, `half >= 0`, drift, position and limit |
| | `EverySizeIsAccepted` | `NormalizeOrderSize` is `Accepted` and not larger than it has to be, for every size, price, step and minimum on the grid |
| | `LadderStaysSafe` | `Spec => []LadderIsSafe` |

No property above is inductive alone. The strengthenings, and why they are needed:

*Gate.* That the counter stays in its type needs `LateInv`: a rollback happens only on the wire, after
a reservation, and a late frame only has a nonce the counter is past. That in turn needs `LockInv`,
which keeps every other user of the nonce away while a frame is on the wire. `NonceInv` says the
counter is off by exactly the frame on the wire; `ExitInv` that nothing under way can undo the final
verification, for which `LockInv` supplies the aborted sender; `SnapshotInv` that a dirty snapshot
keeps `last_reconcile_ok` down until the next poll. The lemmas about `RiskController` are shared by the
invariant and by `DirtySnapshotBlocksResume`.

*Slots.* An order is in the mailbox, with the sender, on the book, in an event or in a snapshot, and
the invariant says for each place what the slot must look like. `Prompt` is the environment the
comments of the code assume: the sender settles and snapshots apply inside the grace, snapshots are
complete, cancel-all succeeds. `Healthy` is `Prompt` without fills; with fills `late_bind` refutes the
keystone, so no more can be claimed. No conjunct of `Prompt` can be dropped: with `SlowSender`,
`SlowReads`, `CancelAllMayFail` or `MaxPartial = 2` alone, TLC violates `AtMostOneLive` or
`LiveIsTracked` in `Keystone.cfg` and `FreedOrderIsDead` in `Fills.cfg` (for `CancelAllMayFail` with
`Grace = 2`). The core of `SlotOK` is that a create not yet answered is the
slot's latest order and nothing has been said about it (`CreateOK`), that a `ClearLive` names a dead
order and no `BindLive` of the latest order waits behind its `ClearLive` (`EventsOK`), and that a slot
with something under way is younger than the grace (`YoungOK`): this is what keeps reconcile away from
it. A snapshot may miss an order that landed after the fetch; `SnapOK` says that its slot is then at
most as old as the snapshot or will be touched by an answer, hence the grace protects it again. With
fills a late `BindLive` may put an old order back and a partial Fill may free a slot too early, so
`WeakOK` claims less about the slot and more about the past: what was cleared, filled in whole or awaits
the report of a whole fill is gone for good (`GoneOK`), and a snapshot is only compared with the order the slot holds (`HeldOK`). The conditional parts are carried
inside one invariant, since types are needed by all of them. Each kind of step is a lemma on the state of a
single slot; the actions then only say which lemma applies.

*Rate limiter.* Sends are recorded when answered, the exchange counts them when they arrive, and the
window is read once, before the sleeps. `WindowInv` matches the two windows from the youngest op on: an
entry is recorded no earlier than it was sent. `SenderInv` says that after the sleep enough entries
have left; `BackoffInv` that what has passed and what is left of a backoff make up all of it.

*Books.* `Covers` (a diff holds every change between two updates) and `BookAt` (a book is the
exchange's after update n) are first-order, and one lemma composes them: a book after n and a diff that
starts at or before n give the book after the diff. `DepthInv` adds that all that is buffered, queued or
fetched is true of the history, `LighterInv` that messages come in order and none is older than
the book, and that a client that will drop its book meets a snapshot first. The refinements map a
trusted book to the view of `BookMirror`, step by step.

*Session.* Answers carry no identifier; that they belong to the right frame is `ConnOK`: a connection that
will be used again owes nothing, and while a send waits at most one answer is under way, its own.
`LockInv`, `StartInv`: one process past the lock, sends only after a verified start. `NonceInv`: with
refreshes that succeed a frame is signed for the expected nonce or one already used, hence the leverage
transaction invalidates what a predecessor left behind (`GhostInv`). The lemma `NextIdFacts` says that the next
client id is in range, is not the wildcard 0 and is not the one before, wherever the clock stands.
For `IdsAreUsable` that is not enough: a later id must differ from all ids that may still rest. `TakenInv`
says that every signed frame of a process has an id its generator has passed, and `ApartInv` how far
apart ids can be: at most `MaxFrames * (MaxUnsent + 1)` are taken on one clock reading, which `ClockFits` keeps
below the wrap. Orders of an earlier process do not rest (`GhostInv`), hence the hypotheses of `NoGhosts`.

*PnL.* A trade that is in the totals is still in the seen set, or too old for any subscription to repeat
(`Once`), and the same holds of its rows in the log. The hard part is eviction. The seen set has the
order of booking, so an entry may be followed by older trades: by those that waited when it was
booked, at most `PENDING_LIMIT` of them (`OldAfter`), and by those within `Window` of it. A trade that is evicted has `ID_SET_CAP`
others behind it, all different, so some are a window younger, and no subscription repeats it
(`EvictedIsOld`). A client id belongs to one process, hence a trade of a predecessor is never booked
again (`Before`, `Limit`): this is where `~IncludeUnattributed` enters. The local position lacks what was
given up and what still waits since the last snapshot (`Balanced`), and what waits does so once and for an id that is
not registered (`QueueOK`). The loops are followed turn by turn: if a claim fails at some turn there is
a least one (`LeastElement`), which takes no induction theorem.

*Quote cycle.* `Blind` counts, per side, the orders filled or out beyond what a belief allows that was right
once. `InBounds` relates it to the age of the belief (`Window`): a slot whose fill nobody reported is freed by
reconcile, a grace after it was taken, so each further order makes the belief a grace older (`Timely`),
and from `Fallback` on REST replaces the belief; and while the bot has such orders it goes on asking for
that side (`Eager`), so it does not pull the order, which would free the slot earlier. `StreamInv` and `PollInv`
say how far a message or a read under way is behind the position. `Regular` collects what this
rests on: one capital, a warm-up no shorter than the grace, REST that answers; the run satisfies all
three, and section 3 shows what happens without each. The bound `MaxLong` of the run does not matter: the
theorem holds for every value of it.

*Ladder.* A sell price is looked at as the negated price of a buy, so there is one side: `First` (the
engine's quote), `Wider` (further levels), `Moved` (exit bias). For each of the three the lemmas say that it is
passive given a spread floor (`MinHalfSpread > 0`) and monotone in depth, price and percentage; `FloorFacts` says that `floor_tick` is the largest
price of the grid that is not above its argument, from which monotonicity and the tick lost
in `Leans` follow. Products of variables appear only through `Products`. `Ladders` puts the three together:
one price per level and side, which given the floor never crosses the mid, moves away with the level, and is on the right
side of the same price when flat. `EveryLadderIsSafe` states it for every input, `LadderStaysSafe` for
those of the run.

Assumptions are those in the modules and are evaluated by TLC in the runs: bounds are naturals, flags
Booleans, sets of slots finite, processes positive numbers. `LevelAssumption` is arithmetic: the backoff has
reached its maximum at `TopLevel`, and powers of two are positive, which the provers cannot
derive from the recursive definition of `^`. The inductive invariants were checked by TLC on the instances of the
runs before they were proved.

Only model-checked:

* all liveness (`BookIsRepaired`, `NoStarvation`, `SessionSettles`, and the leads-to properties of
  `gate_live` and `repair`): fairness and `ENABLED` are outside the prover;
* that the properties whose theorem has a hypothesis fail without it (section 3).

The ladder is both checked and proved for three levels per side; more would need an induction over the
spread factors.

Every safety invariant of a passing run is now a theorem, and so are the two refinements of `BookMirror` and
the one of `TxChannel`.

## 5. Running

`tlc -config Keystone.cfg MCLiveOrders` and likewise for the other runs (PROJECT.json lists module
and configuration). `tlapm GateProofs.tla`, and likewise `LiveOrdersProofs`, `RateLimiterProofs`,
`DepthSyncProofs`, `LighterBookProofs`, `SessionProofs`, `PnlActorProofs` and `QuoteCycleProofs`, for the proofs;
the longest takes a few minutes.

## 6. Plan

Done: the slot table and its environment, the gate, the rate limiter, both order-book mirrors against
one abstract specification, the PnL actor, the transaction websocket against its abstract
specification, the life of a process with crash and restart, the quote ladder and the position it is
made from; proofs of the safety properties of all of them. What could follow:

1. `FillAccounting`: VWAP and realised PnL against a cash-flow reference.
2. The ladder with several orders per side in `QuoteCycle`, whose bound then counts levels.
3. Refinements between the views (`TradingGate` and `LiveOrders`), which now share only their actions' names.

## 7. Not modelled, and why

The rolling statistics behind volatility and signal (rolling.rs, the sampling in vol_obi.rs) are
floating-point; their results are inputs of `Quotes`. Amounts of the PnL (VWAP, realised and unrealised)
are left out for the same reason. Live metrics are not used by the orchestrator, logging is read by
nobody in the trading path; of the trade log only what reaches the file is modelled. The REST client,
the signer FFI and authentication are stateless: their results and failures are inputs, and so are the
contents of the messages that messages.rs parses. Configuration and binaries hold no behaviour. Dry-run
mode places no orders.
