-------------------------------- MODULE Quotes ------------------------------
(***************************************************************************)
(* The quote ladder as pure operators: strategy/quotes.rs,                 *)
(* VolObiCalculator::quote and util::dynamic_max_position.                 *)
(*                                                                         *)
(* Prices are integers, Tick of them to a tick of the exchange; a fraction *)
(* is kept as a numerator over a fixed denominator until it is snapped to  *)
(* the grid, so that rounding happens where the code rounds.  Percentages  *)
(* are whole.  Volatility and signal are inputs: half is volatility times  *)
(* vol_to_half_spread, drift is c1 times alpha.  An optional price is a    *)
(* set of at most one.  apply_quality_spread_multiplier is called with 1,  *)
(* which changes nothing; the adverse-selection input is 0.                *)
(*                                                                         *)
(* Definitions named X_Fault are X with a plausible programming error; no  *)
(* specification uses them.                                                *)
(***************************************************************************)
EXTENDS Integers, Sequences

CONSTANTS
    Tick,
    Basis,              \* what a rate is a fraction of: 10000 for bps
    MinHalfSpread,      \* min_half_spread_bps, 0 for no floor
    Skew,               \* in percent
    FallbackDepth,      \* fallback_bps
    SpreadFactor,       \* spread_factor_level1
    MinRatio,           \* inventory_exit_bias, in percent
    ExitTighten, MaxExitTighten,
    AddWiden, MaxAddWiden,
    Mids, Halves, Drifts, Positions, Limits  \* bounds: inputs ladders are checked for

ASSUME QuotesAssumption ==
    /\ {Tick, Basis, FallbackDepth, SpreadFactor} \subseteq Nat \ {0}
    /\ MinHalfSpread \in Nat /\ MinHalfSpread < Basis
    /\ {Skew, MinRatio, ExitTighten, MaxExitTighten, AddWiden, MaxAddWiden} \subseteq Nat
    /\ Mids \subseteq Nat \ {0}
    /\ UNION {Halves, Drifts, Positions, Limits} \subseteq Nat

Abs(x) == IF x < 0 THEN -x ELSE x
AtMost(a, b) == IF a <= b THEN a ELSE b
AtLeast(a, b) == IF a >= b THEN a ELSE b

(* num / den on the grid of the exchange.                                  *)
FloorTick(num, den) == (num \div (den * Tick)) * Tick
CeilTick(num, den) == -FloorTick(-num, den)

NoLevel == [bid |-> {}, ask |-> {}]

-----------------------------------------------------------------------------
(* SIZES AND LIMITS                                                        *)

(* dynamic_max_position in tenths of a dollar: the resting ladder is       *)
(* reserved on both sides, and a tenth of the rest is kept back.           *)
DynamicMaxPosition(mid, buyingPower, size, levels) ==
    IF buyingPower <= 0 THEN 0
    ELSE 9 * AtLeast(0, buyingPower - 2 * levels * size * mid)

NormalizeOrderSize_Floors_Fault(size, mid, step, minBase, minQuote) ==
    LET floored == (size \div step) * step
        based   == AtLeast(floored, minBase)
    IN  IF size <= 0 THEN 0
        ELSE IF based * mid < minQuote THEN ((minQuote \div mid) \div step) * step
        ELSE based

(* normalize_live_order_size, on a grid of step.                           *)
NormalizeOrderSize(size, mid, step, minBase, minQuote) ==
    LET floored == (size \div step) * step
        based   == AtLeast(floored, minBase)
    IN  IF size <= 0 THEN 0
        ELSE IF based * mid < minQuote THEN -((-minQuote) \div (mid * step)) * step
        ELSE based

-----------------------------------------------------------------------------
(* PRICES                                                                  *)

Unit == 10000

(* The min spread floor, when one is configured: no quote is closer to mid *)
(* than the minimal half spread.                                           *)
FloorBid(raw, mid) ==
    IF MinHalfSpread > 0 THEN AtMost(raw, Unit * mid * (Basis - MinHalfSpread)) ELSE raw
FloorAsk(raw, mid) ==
    IF MinHalfSpread > 0 THEN AtLeast(raw, Unit * mid * (Basis + MinHalfSpread)) ELSE raw

(* The two sides, with depths in Units: floored, rounded away from mid.    *)
Snap(mid, fair, bidDepth, askDepth) ==
    [bid |-> FloorTick(FloorBid(Basis * (Unit * fair - bidDepth), mid), Unit * Basis),
     ask |-> CeilTick(FloorAsk(Basis * (Unit * fair + askDepth), mid), Unit * Basis)]

(* The share of the limit in use, with its sign, in percent.               *)
NormPos(mid, position, maxPos) ==
    IF maxPos <= 0 THEN 0
    ELSE AtLeast(-100, AtMost(100, (1000 * position * mid) \div maxPos))

(* Long, the bid moves away and the ask comes closer.                      *)
SkewedDepth(half, normPos) == AtLeast(0, half * (Unit + Skew * normPos))

(* VolObiCalculator::quote: None when not warmed up or crossed.            *)
EngineQuote(warm, mid, half, drift, position, maxPos) ==
    LET n == NormPos(mid, position, maxPos)
        q == Snap(mid, mid + drift, SkewedDepth(half, n), SkewedDepth(half, -n))
    IN  IF warm /\ q.bid < q.ask THEN [bid |-> {q.bid}, ask |-> {q.ask}] ELSE NoLevel

(* One passive order that reduces the position.                            *)
FallbackReduceOnly(mid, position, levels) ==
    LET depth == AtLeast(mid * FallbackDepth, Tick * Basis)
        exit  == IF position > 0
                 THEN [bid |-> {}, ask |-> {CeilTick(mid * Basis + depth, Basis)}]
                 ELSE [bid |-> {FloorTick(mid * Basis - depth, Basis)}, ask |-> {}]
    IN  [l \in 1 .. levels |-> IF l = 1 /\ position # 0 THEN exit ELSE NoLevel]

(* At the limit the side that adds to the position is not quoted.          *)
Suppressed(l0, mid, position, maxPos) ==
    LET full == 10 * Abs(position) * mid >= maxPos
    IN  [bid |-> IF full /\ position > 0 THEN {} ELSE l0.bid,
         ask |-> IF full /\ position < 0 THEN {} ELSE l0.ask]

(* spread_factors: the powers of spread_factor_level1, a whole number      *)
(* here; the configuration takes any positive one.                         *)
SpreadFactors(levels) ==
    LET factor[l \in 1 .. levels] == IF l = 1 THEN 1 ELSE factor[l - 1] * SpreadFactor
    IN  factor

(* build_quote_levels: further levels widen the depth of the first.        *)
BuildQuoteLevels(l0, mid, position, maxPos, levels) ==
    LET first == Suppressed(l0, mid, position, maxPos)
        factors == SpreadFactors(levels)
    IN  IF l0 = NoLevel \/ maxPos <= 0 THEN FallbackReduceOnly(mid, position, levels)
        ELSE [l \in 1 .. levels |->
                 IF l = 1 THEN first
                 ELSE [bid |-> {FloorTick(mid - (mid - b) * factors[l], 1) : b \in first.bid},
                       ask |-> {CeilTick(mid + (a - mid) * factors[l], 1) : a \in first.ask}]]

(* Depths after the bias, in percent: the exit side is tightened and the   *)
(* adding side widened in proportion to the share of the limit in use.     *)
ExitTightening(ratio) == AtMost((ExitTighten * ratio) \div 100, MaxExitTighten)
AddWidening(ratio) == AtMost((AddWiden * ratio) \div 100, MaxAddWiden)
Biased(depth, percent) == AtLeast(depth, Tick) * percent

BiasPercent_Swapped_Fault(position, ratio, isBid) ==
    IF (position < 0) = isBid THEN 100 + AddWidening(ratio)
    ELSE AtLeast(100 - ExitTightening(ratio), 5)

BiasPercent(position, ratio, isBid) ==
    IF (position < 0) = isBid THEN AtLeast(100 - ExitTightening(ratio), 5)
    ELSE 100 + AddWidening(ratio)

(* apply_inventory_exit_bias.                                              *)
InventoryExitBias(ladder, mid, position, maxPos) ==
    LET ratio == (1000 * Abs(position) * mid) \div maxPos
        Bid(b) == FloorTick(100 * mid - Biased(mid - b, BiasPercent(position, ratio, TRUE)), 100)
        Ask(a) == CeilTick(100 * mid + Biased(a - mid, BiasPercent(position, ratio, FALSE)), 100)
    IN  IF maxPos <= 0 \/ position = 0 THEN ladder
        ELSE IF ratio < MinRatio \/ (ExitTightening(ratio) = 0 /\ AddWidening(ratio) = 0) THEN ladder
        ELSE [l \in DOMAIN ladder |-> [bid |-> {Bid(b) : b \in ladder[l].bid},
                                       ask |-> {Ask(a) : a \in ladder[l].ask}]]

(* What a warmed-up quote cycle asks for.                                  *)
QuoteLadder(mid, half, drift, position, maxPos, levels) ==
    InventoryExitBias(BuildQuoteLevels(EngineQuote(TRUE, mid, half, drift, position, maxPos),
                                       mid, position, maxPos, levels),
                      mid, position, maxPos)

-----------------------------------------------------------------------------
(* WHAT A LADDER PROMISES                                                  *)

Signed(S) == S \cup {-x : x \in S}

(* No quote crosses the mid, and outer levels are not closer to it.        *)
(* Claimed where a spread floor is configured: without one a signal may    *)
(* carry a quote across the mid, and only post-only stops it.              *)
Passive(ladder, mid) ==
    \A l \in DOMAIN ladder :
        /\ \A b \in ladder[l].bid : b < mid
        /\ \A a \in ladder[l].ask : a > mid
        /\ \A m \in DOMAIN ladder : m >= l =>
              /\ \A b \in ladder[l].bid, c \in ladder[m].bid : c <= b
              /\ \A a \in ladder[l].ask, c \in ladder[m].ask : c >= a

(* There is a way out of every position, and at the limit nothing else.    *)
ExitsOnly(ladder, position) ==
    /\ position > 0 => ladder[1].ask # {} /\ \A l \in DOMAIN ladder : ladder[l].bid = {}
    /\ position < 0 => ladder[1].bid # {} /\ \A l \in DOMAIN ladder : ladder[l].ask = {}

(* Compared with being flat, no side that adds is closer to the mid and no *)
(* side that reduces is further away.                                      *)
Leans(ladder, flat, position) ==
    \A l \in DOMAIN ladder :
        /\ \A b \in ladder[l].bid, f \in flat[l].bid : IF position > 0 THEN b <= f ELSE b >= f
        /\ \A a \in ladder[l].ask, f \in flat[l].ask : IF position > 0 THEN a <= f ELSE a >= f

Safe(mid, half, drift, position, maxPos) ==
    LET ladder == QuoteLadder(mid, half, drift, position, maxPos, 3)
        flat   == QuoteLadder(mid, half, drift, 0, maxPos, 3)
    IN  /\ MinHalfSpread > 0 => Passive(ladder, mid)
        /\ 10 * Abs(position) * mid >= maxPos => ExitsOnly(ladder, position)
        /\ position # 0 /\ MinHalfSpread * mid >= Tick * Basis => Leans(ladder, flat, position)

UnsafeInputs ==
    {in \in Mids \X Halves \X Signed(Drifts) \X Signed(Positions) \X Limits :
        ~Safe(in[1], in[2], in[3], in[4], in[5])}

(* An order is not too small for the exchange, on its grid, and no larger  *)
(* than was asked for or than it has to be.                                *)
Accepted(n, mid, step, minBase, minQuote) == n >= minBase /\ n * mid >= minQuote /\ n % step = 0

UnsafeSizes ==
    {in \in (1 .. 30) \X Mids \X {1, 4} \X {0, 8} \X {0, 250, 777} :
        LET n == NormalizeOrderSize(in[1], in[2], in[3], in[4], in[5])
        IN  \/ ~Accepted(n, in[2], in[3], in[4], in[5])
            \/ n > in[1] /\ Accepted(n - in[3], in[2], in[3], in[4], in[5])}
=============================================================================
