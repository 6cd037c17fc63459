-------------------------- MODULE QuoteCycleProofs --------------------------
(***************************************************************************)
(* TLAPS proofs about QuoteCycle: how far the position can get from what   *)
(* the bot believes, for any limit, grace, fallback and length of stream,  *)
(* and that every ladder and every order size is one the bot may send.     *)
(***************************************************************************)
EXTENDS QuoteCycle, TLAPS

TheCapital == CHOOSE c \in Capitals : TRUE

(* One capital is ever reported, the warm-up (100 samples, ten seconds) is *)
(* no shorter than the grace (five), and REST answers.                     *)
Regular ==
    /\ Capitals = {TheCapital}
    /\ Warmup >= Grace
    /\ ~PositionReadFails

Last == LastAdding(TheCapital)

(* What a belief that was right once allows: the last adding order, and    *)
(* one more that is out when the belief is formed; fills it has missed.    *)
Base == Last + 1 + Missed

(* How far x lies in the direction of side s.                              *)
Toward(s, x) == IF s = "buy" THEN x ELSE -x

(* The position if what is out on side s were filled, and how many of the  *)
(* orders in it nobody has reported.                                       *)
Out(o, p) == IF o = "plain" \/ p = "plain" THEN 1 ELSE 0
Reach(s) == Toward(s, pos) + Out(order[s], op[s])
Blind(s) == Reach(s) - Base

(* Periods that k rounds take.                                             *)
Worth(k) == k * Grace

Prices == -MaxShort .. MaxLong
SlotType == [used : BOOLEAN, age : 0 .. Grace, miss : 0 .. 1]
MessageType == [pos : Prices, filled : Sides \cup {None}]
PollerType == [pc : {"wait", "ask", "set", "done"}, read : Prices, fills : Nat]

Types ==
    /\ pos \in Prices
    /\ order \in [Sides -> {None, "plain", "reduce"}]
    /\ op \in [Sides -> {None, "plain", "reduce", "cancel"}]
    /\ slot \in [Sides -> SlotType]
    /\ seen \in Prices \cup {Unknown} /\ age \in 0 .. Fallback
    /\ capital \in {0, TheCapital}
    /\ stream \in Seq(MessageType)
    /\ warm \in 0 .. Warmup
    /\ poller \in PollerType
    /\ swap \in (SUBSET Sides) \cup {NoView}

(* An order and an op hold their slot; a snapshot that misses an order is  *)
(* of the period in which it landed; what is reduce-only can reduce.       *)
OutInv ==
    \A s \in Sides :
        /\ order[s] # None => slot[s].used
        /\ op[s] # None => slot[s].used /\ slot[s].age = 0
        /\ op[s] \in {"plain", "reduce"} => order[s] = None
        /\ order[s] = "reduce" => Toward(s, pos) < 0
        /\ order[s] # None /\ swap # NoView /\ s \notin swap => slot[s].age = 0

(* Without capital or position nothing is ever quoted.                     *)
IdleInv ==
    capital <= 0 \/ seen = Unknown =>
        pos = 0 /\ \A s \in Sides : order[s] = None /\ op[s] = None /\ ~slot[s].used

(* A message lags behind by no more than the messages after it, a read by  *)
(* no more than the fills since.                                           *)
StreamInv ==
    /\ Len(stream) <= MaxStream /\ (~feed => stream = <<>>)
    /\ \A s \in Sides : \A i \in 1 .. Len(stream) :
         Toward(s, pos) - Toward(s, stream[i].pos) <= Len(stream) - i

PollInv ==
    /\ poller.pc = "done" => seen # Unknown /\ age < Fallback
    /\ poller.pc = "set" =>
         /\ poller.fills <= ReadFills
         /\ \A s \in Sides : Toward(s, pos) - Toward(s, poller.read) <= poller.fills

(* With b orders on its side that nobody reported, when they may have come *)
(* about: rounds are a grace apart, so that while the slot is used the     *)
(* last one is as old as the slot; a slot that was freed otherwise, by a   *)
(* cancel, was freed in a warm-up that is not over.                        *)
Timely(used, since, o, b, a, w) ==
    /\ used => Worth(b - 1) + since <= a
    /\ ~used => Worth(b) <= a \/ w < Warmup
    /\ o = "cancel" => b <= 0 \/ w < Warmup
    /\ o = "reduce" => b <= 0
    /\ w < Warmup => b <= 0 \/ Worth(b - 1) + w <= a

(* Believing in x, the calculator goes on asking for an order on side s.   *)
Eager(s, x, c) ==
    /\ Toward(s, x) >= 0 /\ c > 0 /\ x # Unknown
    /\ Wants(s, QuoteLadder(Mid, 2 * Tick, 0, x, DynamicMaxPosition(Mid, c, 1, 1), 1))

(* On a belief that allows orders on side s.                               *)
Window(s) ==
    Toward(s, seen) <= Last =>
        /\ Timely(slot[s].used, slot[s].age, op[s], Blind(s), age, warm)
        /\ Blind(s) >= 1 => Eager(s, seen, capital)

InBounds(s) == Window(s) /\ Blind(s) <= BlindRounds

CycleInv ==
    /\ Types /\ OutInv /\ IdleInv /\ StreamInv /\ PollInv
    /\ \A s \in Sides : InBounds(s)

-----------------------------------------------------------------------------
(* LEMMAS ABOUT THE OPERATORS                                              *)

LEMMA Constants ==
    /\ Grace \in Nat \ {0} /\ Fallback \in Nat \ {0} /\ Warmup \in Nat \ {0} /\ Mid \in Nat \ {0}
    /\ MaxLong \in Nat /\ MaxShort \in Nat /\ MaxStream \in Nat \ {0} /\ ReadFills \in Nat
    /\ TheCapital \in Nat /\ TheCapital \in Capitals
    /\ Missed \in Nat /\ ReadFills <= Missed /\ MaxStream - 1 <= Missed
<1>1. /\ Grace \in Nat \ {0} /\ Fallback \in Nat \ {0} /\ Warmup \in Nat \ {0} /\ Mid \in Nat \ {0}
      /\ MaxLong \in Nat /\ MaxShort \in Nat /\ MaxStream \in Nat \ {0} /\ ReadFills \in Nat
  BY CycleAssumption DEF CycleAssumption
<1>2. TheCapital \in Nat /\ TheCapital \in Capitals
  BY CycleAssumption DEF CycleAssumption, TheCapital
<1>3. Missed \in Nat /\ ReadFills <= Missed /\ MaxStream - 1 <= Missed
  BY <1>1 DEF Missed, AtLeast
<1>4. QED
  BY <1>1, <1>2, <1>3

LEMMA WorthFacts ==
    ASSUME NEW j \in Int, NEW k \in Int
    PROVE  /\ Worth(k) \in Int /\ Worth(k - 1) = Worth(k) - Grace
           /\ j <= k => Worth(j) <= Worth(k)
           /\ k <= 0 => Worth(k) <= 0
<1>1. Grace \in Nat \ {0}
  BY Constants
<1>2. Worth(k) \in Int /\ Worth(k - 1) = Worth(k) - Grace
  BY <1>1 DEF Worth
<1>3. ASSUME j <= k PROVE Worth(j) <= Worth(k)
  <2>1. k - j \in Nat /\ (k - j) * Grace >= 0 /\ (k - j) * Grace = k * Grace - j * Grace
    BY <1>1, <1>3
  <2>2. QED
    BY <1>1, <2>1 DEF Worth
<1>4. ASSUME k <= 0 PROVE Worth(k) <= 0
  <2>1. (0 - k) * Grace >= 0 /\ (0 - k) * Grace = 0 - k * Grace
    BY <1>1, <1>4
  <2>2. QED
    BY <1>1, <2>1 DEF Worth
<1>5. QED
  BY <1>2, <1>3, <1>4

(* Rounds that fit between two answers of REST.                            *)
LEMMA RoundsFacts ==
    /\ BlindRounds \in Nat \ {0}
    /\ \A k \in Int : Worth(k - 1) <= Fallback => k <= BlindRounds
<1> DEFINE q == Fallback \div Grace
<1>1. Grace \in Nat \ {0} /\ Fallback \in Nat \ {0}
  BY Constants
<1>2. q \in Nat /\ q * Grace <= Fallback /\ Fallback < q * Grace + Grace
  BY <1>1
<1>3. BlindRounds = 1 + q
  BY DEF BlindRounds
<1> HIDE DEF q
<1>4. ASSUME NEW k \in Int, Worth(k - 1) <= Fallback PROVE k <= 1 + q
  <2>1. Worth(q) \in Int /\ Fallback < Worth(q) + Grace
    BY <1>1, <1>2 DEF Worth
  <2>2. SUFFICES ASSUME k >= 2 + q PROVE FALSE
    BY <1>2
  <2>3. Worth(q + 1) <= Worth(k - 1) /\ Worth(q + 1 - 1) = Worth(q + 1) - Grace
    BY <1>2, <2>2, WorthFacts
  <2>4. Worth(q + 1) = Worth(q) + Grace
    <3>1. q + 1 - 1 = q /\ Worth(q + 1) \in Int
      BY <1>2, WorthFacts
    <3>2. QED
      BY <1>1, <2>1, <2>3, <3>1
  <2>5. Worth(k - 1) \in Int
    BY WorthFacts
  <2>6. QED
    BY <1>1, <1>4, <2>1, <2>3, <2>4, <2>5
<1>5. QED
  BY <1>2, <1>3, <1>4

LEMMA SideFacts ==
    ASSUME NEW s \in Sides, NEW x \in Int
    PROVE  /\ Toward(s, x) \in Int
           /\ Reduces(s, x) <=> Toward(s, x) < 0
           /\ Toward(s, x + Sign(s)) = Toward(s, x) + 1
           /\ \A t \in Sides : t # s => Toward(t, x + Sign(s)) = Toward(t, x) - 1
           /\ Toward(s, x) <= Abs(x)
           /\ x = 0 => Toward(s, x) = 0
<1>1. s = "buy" \/ s = "sell"
  BY DEF Sides
<1>2. CASE s = "buy"
  BY <1>2 DEF Sides, Toward, Reduces, Sign, Abs
<1>3. CASE s = "sell"
  BY <1>3 DEF Sides, Toward, Reduces, Sign, Abs
<1>4. QED
  BY <1>1, <1>2, <1>3

(* A fill moves the position by one.                                       *)
LEMMA FillMoves ==
    ASSUME NEW s \in Sides, NEW k \in Sides, NEW x \in Int
    PROVE  /\ Toward(s, x) \in Int /\ Toward(s, x + Sign(k)) \in Int
           /\ Toward(s, x + Sign(k)) <= Toward(s, x) + 1
<1>1. x + Sign(k) \in Int
  BY DEF Sign
<1>2. Toward(s, x) \in Int /\ Toward(s, x + Sign(k)) \in Int
  BY <1>1, SideFacts
<1>3. Toward(s, x + Sign(k)) = Toward(s, x) + 1 \/ Toward(s, x + Sign(k)) = Toward(s, x) - 1
  BY SideFacts
<1>4. QED
  BY <1>2, <1>3

(* dynamic_max_position and the suppression at the limit.                  *)
LEMMA LimitFacts ==
    ASSUME NEW c \in Nat
    PROVE  /\ DynamicMaxPosition(Mid, c, 1, 1) \in Nat
           /\ LastAdding(c) \in Int /\ LastAdding(c) >= -1
           /\ \A x \in Nat : 10 * x * Mid < DynamicMaxPosition(Mid, c, 1, 1) => x <= LastAdding(c)
<1> DEFINE d == DynamicMaxPosition(Mid, c, 1, 1)
           m == 10 * Mid
           q == (d - 1) \div m
<1>1. Mid \in Nat \ {0} /\ m \in Nat \ {0}
  BY Constants
<1>2. d \in Nat
  BY <1>1 DEF DynamicMaxPosition, AtLeast
<1>3. LastAdding(c) = q
  BY DEF LastAdding
<1> HIDE DEF d
<1>4. q \in Int /\ q * m <= d - 1 /\ d - 1 < q * m + m
  <2> HIDE DEF m
  <2>1. QED
    BY <1>1, <1>2
<1> HIDE DEF q
<1>5. q >= -1
  <2>1. SUFFICES ASSUME q <= -2 PROVE FALSE
    BY <1>4
  <2>2. (-1 - q) * m >= m /\ (-1 - q) * m = -m - q * m
    <3> HIDE DEF m
    <3>1. -1 - q >= 1 /\ -1 - q \in Nat
      BY <1>4, <2>1
    <3> DEFINE z == -1 - q
    <3>2. z * m >= m
      <4> HIDE DEF z
      <4>1. z >= 1 /\ z \in Nat
        BY <3>1 DEF z
      <4>2. z * m = (z - 1) * m + m /\ (z - 1) * m >= 0
        BY <1>1, <4>1
      <4>3. QED
        BY <1>1, <4>1, <4>2
    <3>3. z * m = -m - q * m
      BY <1>1, <1>4
    <3>4. QED
      BY <3>2, <3>3
  <2>3. q * m \in Int
    BY <1>1, <1>4
  <2>4. QED
    BY <1>1, <1>2, <1>4, <2>2, <2>3
<1>6. ASSUME NEW x \in Nat, 10 * x * Mid < d PROVE x <= q
  <2>1. x * m < d
    BY <1>1, <1>6
  <2>2. SUFFICES ASSUME x >= q + 1 PROVE FALSE
    BY <1>4
  <2>3. x * m >= q * m + m
    <3> HIDE DEF m
    <3>1. (x - q - 1) * m >= 0 /\ (x - q - 1) * m = x * m - q * m - m
      BY <1>1, <1>4, <2>2
    <3>2. x * m \in Int /\ q * m \in Int
      BY <1>1, <1>4
    <3>3. QED
      BY <1>1, <3>1, <3>2
  <2>4. x * m \in Int /\ q * m \in Int
    BY <1>1, <1>4
  <2> HIDE DEF m
  <2>5. QED
    BY <1>1, <1>2, <1>4, <2>1, <2>3, <2>4
<1>7. QED
  BY <1>2, <1>3, <1>4, <1>5, <1>6 DEF d

LEMMA BaseFacts == Last \in Int /\ Last >= -1 /\ Base \in Nat /\ Base = Last + 1 + Missed
<1>1. Last \in Int /\ Last >= -1
  BY Constants, LimitFacts DEF Last
<1>2. QED
  BY <1>1, Constants DEF Base

(* The fallback quotes the side that reduces, and no other.                *)
LEMMA FallbackReduces ==
    ASSUME NEW s \in Sides, NEW p \in Int, Wants(s, FallbackReduceOnly(Mid, p, 1))
    PROVE  Toward(s, p) < 0
<1>1. 1 \in 1 .. 1
  OBVIOUS
<1>2. CASE p = 0
  <2>1. FallbackReduceOnly(Mid, p, 1)[1] = NoLevel
    BY <1>1, <1>2 DEF FallbackReduceOnly
  <2>2. QED
    BY <2>1 DEF Wants, NoLevel
<1>3. CASE p > 0
  <2>1. FallbackReduceOnly(Mid, p, 1)[1].bid = {}
    BY <1>1, <1>3 DEF FallbackReduceOnly
  <2>2. s = "sell"
    BY <2>1 DEF Wants, Sides
  <2>3. QED
    BY <1>3, <2>2 DEF Toward
<1>4. CASE p < 0
  <2>1. FallbackReduceOnly(Mid, p, 1)[1].ask = {}
    BY <1>1, <1>4 DEF FallbackReduceOnly
  <2>2. s = "buy"
    BY <2>1 DEF Wants, Sides
  <2>3. QED
    BY <1>4, <2>2 DEF Toward
<1>5. QED
  BY <1>2, <1>3, <1>4

(* The exit bias moves prices; it neither adds nor removes a quote.        *)
LEMMA BiasKeepsSides ==
    ASSUME NEW s \in Sides, NEW ladder, DOMAIN ladder = 1 .. 1, NEW p, NEW maxPos,
           Wants(s, InventoryExitBias(ladder, Mid, p, maxPos))
    PROVE  Wants(s, ladder)
<1> DEFINE biased == InventoryExitBias(ladder, Mid, p, maxPos)
           ratio == (1000 * Abs(p) * Mid) \div maxPos
           Bid(b) == FloorTick(100 * Mid - Biased(Mid - b, BiasPercent(p, ratio, TRUE)), 100)
           Ask(a) == CeilTick(100 * Mid + Biased(a - Mid, BiasPercent(p, ratio, FALSE)), 100)
           moved == [l \in DOMAIN ladder |-> [bid |-> {Bid(b) : b \in ladder[l].bid},
                                              ask |-> {Ask(a) : a \in ladder[l].ask}]]
<1>1. biased = ladder \/ biased = moved
  BY DEF InventoryExitBias
<1> HIDE DEF Bid, Ask
<1>2. 1 \in DOMAIN ladder
  OBVIOUS
<1>3. CASE biased = moved
  <2>1. /\ biased[1].bid = {Bid(b) : b \in ladder[1].bid}
        /\ biased[1].ask = {Ask(a) : a \in ladder[1].ask}
    <3>1. moved[1] = [bid |-> {Bid(b) : b \in ladder[1].bid}, ask |-> {Ask(a) : a \in ladder[1].ask}]
      BY <1>2
    <3> HIDE DEF moved
    <3>2. QED
      BY <1>3, <3>1
  <2> HIDE DEF biased
  <2>2. ladder[1].bid = {} => biased[1].bid = {}
    BY <2>1
  <2>3. ladder[1].ask = {} => biased[1].ask = {}
    BY <2>1
  <2>4. QED
    BY <2>2, <2>3 DEF Wants, biased
<1>4. CASE biased = ladder
  BY <1>4
<1>5. QED
  BY <1>1, <1>3, <1>4

(* An order that does not reduce is asked for below the limit only.        *)
LEMMA WantsFacts ==
    ASSUME NEW s \in Sides, NEW p \in Int, NEW maxPos \in Int, NEW half,
           Wants(s, QuoteLadder(Mid, half, 0, p, maxPos, 1)), Toward(s, p) >= 0
    PROVE  10 * Abs(p) * Mid < maxPos
<1> DEFINE l0 == EngineQuote(TRUE, Mid, half, 0, p, maxPos)
           ladder == BuildQuoteLevels(l0, Mid, p, maxPos, 1)
<1>1. DOMAIN ladder = 1 .. 1
  BY DEF BuildQuoteLevels, FallbackReduceOnly
<1>2. Wants(s, ladder)
  BY <1>1, BiasKeepsSides DEF QuoteLadder
<1> HIDE DEF l0
<1>3. CASE l0 = NoLevel \/ maxPos <= 0
  <2>1. ladder = FallbackReduceOnly(Mid, p, 1)
    BY <1>3 DEF BuildQuoteLevels
  <2>2. Toward(s, p) < 0
    BY <1>2, <2>1, FallbackReduces
  <2>3. QED
    BY <2>2, SideFacts
<1>4. CASE ~(l0 = NoLevel \/ maxPos <= 0)
  <2>1. ladder[1] = Suppressed(l0, Mid, p, maxPos)
    BY <1>4 DEF BuildQuoteLevels
  <2>2. SUFFICES ASSUME 10 * Abs(p) * Mid >= maxPos PROVE FALSE
    BY Constants DEF Abs
  <2>3. p # 0
    BY <1>4, <2>2, Constants DEF Abs
  <2>4. CASE p > 0
    <3>1. ladder[1].bid = {}
      BY <2>1, <2>2, <2>4 DEF Suppressed
    <3>2. s = "sell"
      BY <1>2, <3>1 DEF Wants, Sides
    <3>3. QED
      BY <2>4, <3>2 DEF Toward
  <2>5. CASE p < 0
    <3>1. ladder[1].ask = {}
      BY <2>1, <2>2, <2>5 DEF Suppressed
    <3>2. s = "buy"
      BY <1>2, <3>1 DEF Wants, Sides
    <3>3. QED
      BY <2>5, <3>2 DEF Toward
  <2>6. QED
    BY <2>3, <2>4, <2>5
<1>5. QED
  BY <1>3, <1>4

(* Nothing unreported is always in time.                                   *)
LEMMA NothingIsTimely ==
    ASSUME NEW used \in BOOLEAN, NEW since \in 0 .. Grace, NEW o, NEW b \in Int,
           NEW a \in Nat, NEW w \in Nat, b <= 0
    PROVE  Timely(used, since, o, b, a, w)
<1>1. Grace \in Nat \ {0} /\ b - 1 \in Int
  BY Constants
<1>2. Worth(b) \in Int /\ Worth(b - 1) = Worth(b) - Grace /\ Worth(b) <= 0
  BY WorthFacts
<1>3. QED
  BY <1>1, <1>2 DEF Timely

(* A slot may be taken again, and freed by a cancel, after the grace, or   *)
(* because its order never was.                                            *)
LEMMA StaysTimely ==
    ASSUME NEW used \in BOOLEAN, NEW since \in 0 .. Grace, NEW o, NEW b \in Int,
           NEW a \in Nat, NEW w \in 0 .. Warmup, Timely(used, since, o, b, a, w),
           NEW used2 \in BOOLEAN, NEW since2 \in 0 .. Grace, NEW o2, NEW b2 \in Int,
           b2 <= b, used2 => used /\ since2 <= since,
           ~used2 => ~used \/ o = "cancel" \/ since >= Grace \/ b2 <= b - 1,
           o2 \in {"cancel", "reduce"} => o2 = o
    PROVE  Timely(used2, since2, o2, b2, a, w)
<1>1. Grace \in Nat \ {0} /\ b - 1 \in Int /\ b2 - 1 \in Int /\ b2 - 1 <= b - 1
  BY Constants
<1>2. /\ Worth(b) \in Int /\ Worth(b2) \in Int
      /\ Worth(b - 1) = Worth(b) - Grace /\ Worth(b2 - 1) = Worth(b2) - Grace
      /\ Worth(b2) <= Worth(b)
      /\ b <= 0 => Worth(b) <= 0
      /\ b2 <= 0 => Worth(b2) <= 0
  BY WorthFacts
<1>3. b2 <= b - 1 => Worth(b2) <= Worth(b - 1)
  BY <1>1, WorthFacts
<1>4. used2 => Worth(b2 - 1) + since2 <= a
  BY <1>1, <1>2 DEF Timely
<1>5. ~used2 => Worth(b2) <= a \/ w < Warmup
  BY <1>1, <1>2, <1>3 DEF Timely
<1>6. w < Warmup => b2 <= 0 \/ Worth(b2 - 1) + w <= a
  BY <1>1, <1>2 DEF Timely
<1>7. o2 = "cancel" => b2 <= 0 \/ w < Warmup
  BY DEF Timely
<1>8. o2 = "reduce" => b2 <= 0
  BY DEF Timely
<1>9. QED
  BY <1>4, <1>5, <1>6, <1>7, <1>8 DEF Timely

(* One more round, after a slot that is free with the warm-up over.        *)
LEMMA OneMoreIsTimely ==
    ASSUME NEW since \in 0 .. Grace, NEW o, NEW b \in Int, NEW a \in Nat,
           Timely(FALSE, since, o, b, a, Warmup)
    PROVE  Timely(TRUE, 0, "plain", b + 1, a, Warmup)
<1>1. Warmup \in Nat /\ b + 1 - 1 = b /\ Worth(b) \in Int
  BY Constants, WorthFacts
<1>2. Worth(b) <= a
  BY <1>1 DEF Timely
<1>3. QED
  BY <1>1, <1>2 DEF Timely

(* A period ages the belief, the slot and the warm-up alike.               *)
LEMMA PeriodIsTimely ==
    ASSUME Warmup >= Grace,
           NEW used \in BOOLEAN, NEW since \in 0 .. Grace, NEW b \in Int,
           NEW a \in Nat, NEW w \in 0 .. Warmup, Timely(used, since, None, b, a, w),
           NEW since2 \in 0 .. Grace, since2 <= since + 1
    PROVE  Timely(used, since2, None, b, a + 1, Older(w, Warmup))
<1>1. Grace \in Nat \ {0} /\ Warmup \in Nat \ {0} /\ b - 1 \in Int
  BY Constants
<1>2. Worth(b) \in Int /\ Worth(b - 1) = Worth(b) - Grace /\ (b <= 0 => Worth(b) <= 0)
  BY WorthFacts
<1>3. IF w < Warmup THEN Older(w, Warmup) = w + 1 ELSE Older(w, Warmup) = w
  BY <1>1 DEF Older, AtMost
<1>4. used => Worth(b - 1) + since2 <= a + 1
  BY <1>1, <1>2 DEF Timely
<1>5. ~used => Worth(b) <= a + 1 \/ Older(w, Warmup) < Warmup
  BY <1>1, <1>2, <1>3 DEF Timely
<1>6. Older(w, Warmup) < Warmup => b <= 0 \/ Worth(b - 1) + Older(w, Warmup) <= a + 1
  BY <1>1, <1>2, <1>3 DEF Timely
<1>7. None # "cancel" /\ None # "reduce"
  BY DEF None
<1>8. QED
  BY <1>4, <1>5, <1>6, <1>7 DEF Timely

(* A reset starts a warm-up that is not over.                              *)
LEMMA ResetIsTimely ==
    ASSUME NEW used \in BOOLEAN, NEW since \in 0 .. Grace, NEW o, NEW b \in Int,
           NEW a \in Nat, NEW w \in 0 .. Warmup, Timely(used, since, o, b, a, w)
    PROVE  Timely(used, since, o, b, a, 0)
<1>1. Grace \in Nat \ {0} /\ Warmup \in Nat \ {0}
  BY Constants
<1>2. Worth(b) \in Int /\ Worth(b - 1) = Worth(b) - Grace /\ (b <= 0 => Worth(b) <= 0)
  BY WorthFacts
<1>3. b <= 0 \/ Worth(b - 1) + 0 <= a
  BY <1>1, <1>2 DEF Timely
<1>4. QED
  BY <1>1, <1>2, <1>3 DEF Timely

(* REST answers before the rounds become too many.                         *)
LEMMA TimelyIsBounded ==
    ASSUME NEW used \in BOOLEAN, NEW since \in 0 .. Grace, NEW o, NEW b \in Int,
           NEW a \in 0 .. Fallback, NEW w \in 0 .. Warmup, Timely(used, since, o, b, a, w)
    PROVE  b <= BlindRounds
<1>1. Grace \in Nat \ {0} /\ Fallback \in Nat \ {0} /\ BlindRounds \in Nat \ {0}
  BY Constants, RoundsFacts
<1>2. Worth(b) \in Int /\ Worth(b - 1) = Worth(b) - Grace
  BY WorthFacts
<1>3. b <= 0 \/ Worth(b - 1) <= Fallback
  BY <1>1, <1>2 DEF Timely
<1>4. QED
  BY <1>1, <1>3, RoundsFacts

-----------------------------------------------------------------------------
(* STEPS ON ONE SIDE                                                       *)

LEMMA Numbers ==
    ASSUME Types, NEW s \in Sides
    PROVE  /\ slot[s].used \in BOOLEAN /\ slot[s].age \in 0 .. Grace
           /\ Blind(s) \in Int /\ age \in 0 .. Fallback /\ age \in Nat /\ warm \in 0 .. Warmup
           /\ warm \in Nat /\ Toward(s, pos) \in Int /\ Toward(s, seen) \in Int
<1>1. MaxLong \in Nat /\ MaxShort \in Nat /\ Base \in Int
  BY Constants, BaseFacts
<1>2. slot[s] \in SlotType /\ pos \in Int /\ seen \in Int
  BY <1>1 DEF Types, Prices, Unknown
<1>3. Toward(s, pos) \in Int /\ Toward(s, seen) \in Int
  BY <1>2, SideFacts
<1>4. Blind(s) \in Int
  BY <1>1, <1>3 DEF Blind, Reach, Out
<1>5. QED
  BY <1>2, <1>3, <1>4 DEF Types, SlotType

LEMMA NextNumbers ==
    ASSUME Types', NEW s \in Sides
    PROVE  /\ slot'[s].used \in BOOLEAN /\ slot'[s].age \in 0 .. Grace
           /\ Blind(s)' \in Int /\ age' \in 0 .. Fallback /\ age' \in Nat /\ warm' \in 0 .. Warmup
           /\ warm' \in Nat /\ Toward(s, pos') \in Int /\ Toward(s, seen') \in Int
<1>1. MaxLong \in Nat /\ MaxShort \in Nat /\ Base \in Int
  BY Constants, BaseFacts
<1>2. slot'[s] \in SlotType /\ pos' \in Int /\ seen' \in Int
  BY <1>1 DEF Types, Prices, Unknown
<1>3. Toward(s, pos') \in Int /\ Toward(s, seen') \in Int
  BY <1>2, SideFacts
<1>4. Blind(s)' \in Int
  BY <1>1, <1>3 DEF Blind, Reach, Out
<1>5. QED
  BY <1>2, <1>3, <1>4 DEF Types, SlotType

(* What a timely state after the step owes.                                *)
LEMMA TimelyInBounds ==
    ASSUME Types', NEW s \in Sides,
           Timely(slot'[s].used, slot'[s].age, op'[s], Blind(s)', age', warm'),
           Blind(s)' >= 1 => Eager(s, seen', capital')
    PROVE  InBounds(s)'
<1>1. Window(s)'
  BY DEF Window
<1>2. Blind(s)' <= BlindRounds
  BY NextNumbers, TimelyIsBounded
<1>3. QED
  BY <1>1, <1>2 DEF InBounds

LEMMA NothingOutInBounds ==
    ASSUME Types', NEW s \in Sides, Blind(s)' <= 0
    PROVE  InBounds(s)'
<1>1. /\ slot'[s].used \in BOOLEAN /\ slot'[s].age \in 0 .. Grace
      /\ Blind(s)' \in Int /\ age' \in Nat /\ warm' \in Nat
  BY NextNumbers
<1>2. Timely(slot'[s].used, slot'[s].age, op'[s], Blind(s)', age', warm')
  BY <1>1, NothingIsTimely
<1>3. ~(Blind(s)' >= 1)
  BY <1>1
<1>4. QED
  BY <1>2, <1>3, TimelyInBounds

(* A belief that is as it was.                                             *)
LEMMA SameBeliefInBounds ==
    ASSUME Types, Types', NEW s \in Sides, InBounds(s), UNCHANGED <<seen, age, capital, warm>>,
           Blind(s)' <= Blind(s),
           slot'[s].used => slot[s].used /\ slot'[s].age <= slot[s].age,
           ~slot'[s].used => ~slot[s].used \/ op[s] = "cancel" \/ slot[s].age >= Grace
                             \/ Blind(s)' <= Blind(s) - 1,
           op'[s] \in {"cancel", "reduce"} => op'[s] = op[s]
    PROVE  InBounds(s)'
<1>1. /\ slot[s].used \in BOOLEAN /\ slot[s].age \in 0 .. Grace
      /\ Blind(s) \in Int /\ age \in Nat /\ warm \in 0 .. Warmup
      /\ Toward(s, seen) \in Int
  BY Numbers
<1>2. slot'[s].used \in BOOLEAN /\ slot'[s].age \in 0 .. Grace /\ Blind(s)' \in Int
  BY NextNumbers
<1>3. CASE Toward(s, seen) <= Last
  <2>1. Timely(slot[s].used, slot[s].age, op[s], Blind(s), age, warm)
    BY <1>3 DEF InBounds, Window
  <2>2. Timely(slot'[s].used, slot'[s].age, op'[s], Blind(s)', age, warm)
    BY <1>1, <1>2, <2>1, StaysTimely
  <2>3. Blind(s) >= 1 => Eager(s, seen, capital)
    BY <1>3 DEF InBounds, Window
  <2>4. Blind(s)' >= 1 => Eager(s, seen', capital')
    BY <1>1, <1>2, <2>3
  <2>5. QED
    BY <2>2, <2>4, TimelyInBounds
<1>4. CASE ~(Toward(s, seen) <= Last)
  <2>1. Window(s)'
    BY <1>4 DEF Window
  <2>2. Blind(s)' <= BlindRounds
    BY <1>1, <1>2, RoundsFacts DEF InBounds
  <2>3. QED
    BY <2>1, <2>2 DEF InBounds
<1>5. QED
  BY <1>3, <1>4

LEMMA SteadyInBounds ==
    ASSUME Types, Types', NEW s \in Sides, InBounds(s), UNCHANGED <<seen, age, capital, warm>>,
           pos' = pos, order'[s] = order[s], op'[s] = op[s], slot'[s] = slot[s]
    PROVE  InBounds(s)'
<1>1. Blind(s)' = Blind(s) /\ Blind(s) \in Int /\ slot[s].age \in 0 .. Grace
  BY Numbers DEF Blind, Reach
<1>2. QED
  BY <1>1, SameBeliefInBounds

(* A belief that was right at most Missed fills ago.                       *)
LEMMA FreshBeliefInBounds ==
    ASSUME Types', NEW s \in Sides, Toward(s, pos') - Toward(s, seen') <= Missed
    PROVE  Toward(s, seen') <= Last => Blind(s)' <= 0
<1>1. Base = Last + 1 + Missed /\ Last \in Int /\ Missed \in Nat
  BY BaseFacts, Constants
<1>2. Toward(s, pos') \in Int /\ Toward(s, seen') \in Int
  BY NextNumbers
<1> SUFFICES ASSUME Toward(s, seen') <= Last PROVE Blind(s)' <= 0
  OBVIOUS
<1>3. Reach(s)' <= Toward(s, pos') + 1
  BY <1>2 DEF Reach, Out
<1>4. Reach(s)' \in Int
  BY <1>2 DEF Reach, Out
<1>5. QED
  BY <1>1, <1>2, <1>3, <1>4 DEF Blind

LEMMA RefreshedInBounds ==
    ASSUME Types, Types', NEW s \in Sides, InBounds(s), Blind(s)' <= Blind(s),
           Toward(s, pos') - Toward(s, seen') <= Missed
    PROVE  InBounds(s)'
<1>1. CASE Toward(s, seen') <= Last
  BY <1>1, FreshBeliefInBounds, NothingOutInBounds
<1>2. CASE ~(Toward(s, seen') <= Last)
  <2>1. Window(s)'
    BY <1>2 DEF Window
  <2>2. Blind(s)' <= BlindRounds
    BY Numbers, NextNumbers, RoundsFacts DEF InBounds
  <2>3. QED
    BY <2>1, <2>2 DEF InBounds
<1>3. QED
  BY <1>1, <1>2

-----------------------------------------------------------------------------
(* TYPES                                                                   *)

LEMMA SlotTypes ==
    /\ FreeSlot \in SlotType /\ FreeSlot.age = 0 /\ ~FreeSlot.used
    /\ UsedSlot \in SlotType /\ UsedSlot.age = 0 /\ UsedSlot.used
<1>1. 0 \in 0 .. Grace /\ 0 \in 0 .. 1
  BY Constants
<1>2. FreeSlot \in SlotType /\ FreeSlot.age = 0 /\ ~FreeSlot.used
  BY <1>1 DEF FreeSlot, SlotType
<1> HIDE DEF FreeSlot
<1>3. UsedSlot \in SlotType /\ UsedSlot.age = 0 /\ UsedSlot.used
  BY <1>2 DEF UsedSlot, SlotType
<1>4. QED
  BY <1>2, <1>3

LEMMA PollerTypes ==
    /\ Waiting \in PollerType /\ Waiting.pc = "wait"
    /\ Done \in PollerType /\ Done.pc = "done"
<1>1. 0 \in Prices
  BY Constants DEF Prices
<1>2. Waiting \in PollerType /\ Waiting.pc = "wait"
  BY <1>1 DEF Waiting, PollerType
<1>3. Done = [pc |-> "done", read |-> 0, fills |-> 0]
  BY DEF Done, Waiting
<1>4. QED
  BY <1>1, <1>2, <1>3 DEF PollerType

LEMMA MaybeQuoteFacts ==
    ASSUME Types, OutInv, IdleInv, NEW known \in SUBSET Sides, MaybeQuote(known), NEW s \in Sides
    PROVE  \/ op'[s] = op[s] /\ slot'[s] = slot[s]
           \/ /\ op[s] = None /\ capital > 0 /\ seen # Unknown /\ Create(s, Ladder)
              /\ op'[s] = (IF Reduces(s, seen) THEN "reduce" ELSE "plain")
              /\ slot'[s] = UsedSlot
           \/ /\ op[s] = None /\ capital > 0 /\ seen # Unknown
              /\ slot[s].used /\ ~Wants(s, Ladder)
              /\ op'[s] = "cancel" /\ slot'[s] = UsedSlot
<1>1. CASE capital <= 0 \/ seen = Unknown
  <2>1. op[s] = None /\ ~slot[s].used
    BY <1>1 DEF IdleInv
  <2>2. ~Wants(s, PullAll)
    BY DEF Wants, PullAll, NoLevel
  <2>3. Publish(PullAll, known)
    BY <1>1 DEF MaybeQuote
  <2>4. op'[s] = op[s] /\ slot'[s] = slot[s]
    BY <2>1, <2>2, <2>3 DEF Publish, Collected, Marked, Create, Cancel
  <2>5. QED
    BY <2>4
<1>2. CASE ~(capital <= 0 \/ seen = Unknown)
  <2>1. capital > 0 /\ seen # Unknown
    BY <1>2, Constants DEF Types
  <2>2. CASE ~Ready /\ seen = 0
    BY <1>2, <2>2 DEF MaybeQuote
  <2>3. CASE ~(~Ready /\ seen = 0)
    <3>1. PICK k : Publish(Ladder, k)
      BY <1>2, <2>3 DEF MaybeQuote
    <3>2. op'[s] = Collected(s, Ladder, k) /\ slot'[s] = Marked(s, Ladder, k)
      BY <3>1 DEF Publish
    <3>3. CASE op[s] # None
      BY <3>2, <3>3 DEF Collected, Marked
    <3>4. CASE op[s] = None /\ Create(s, Ladder)
      BY <2>1, <3>2, <3>4 DEF Collected, Marked
    <3>5. CASE op[s] = None /\ ~Create(s, Ladder) /\ Cancel(s, Ladder, k)
      BY <2>1, <3>2, <3>5 DEF Collected, Marked, Cancel
    <3>6. CASE op[s] = None /\ ~Create(s, Ladder) /\ ~Cancel(s, Ladder, k)
      BY <3>2, <3>6 DEF Collected, Marked
    <3>7. QED
      BY <3>3, <3>4, <3>5, <3>6
  <2>4. QED
    BY <2>2, <2>3
<1>3. QED
  BY <1>1, <1>2

LEMMA QuotedTypes ==
    ASSUME Types, NEW known \in SUBSET Sides, MaybeQuote(known)
    PROVE  /\ op' \in [Sides -> {None, "plain", "reduce", "cancel"}]
           /\ slot' \in [Sides -> SlotType]
<1>1. CASE UNCHANGED <<op, slot>>
  BY <1>1 DEF Types
<1>2. ASSUME NEW ladder, NEW k, Publish(ladder, k)
      PROVE  /\ op' \in [Sides -> {None, "plain", "reduce", "cancel"}]
             /\ slot' \in [Sides -> SlotType]
  <2>1. ASSUME NEW s \in Sides
        PROVE  Collected(s, ladder, k) \in {None, "plain", "reduce", "cancel"}
    BY DEF Collected, Types
  <2>2. ASSUME NEW s \in Sides PROVE Marked(s, ladder, k) \in SlotType
    BY SlotTypes DEF Marked, Types
  <2>3. QED
    BY <1>2, <2>1, <2>2 DEF Publish
<1>3. QED
  BY <1>1, <1>2 DEF MaybeQuote

(* Types, action by action.                                                *)
LEMMA TypesStep == ASSUME Regular, Types, PollInv, [Next]_vars PROVE Types'
<1>1. MaxLong \in Nat /\ MaxShort \in Nat /\ Fallback \in Nat \ {0} /\ Warmup \in Nat \ {0} /\ Grace \in Nat \ {0}
  BY Constants
<1>2. CASE UNCHANGED vars
  BY <1>2 DEF vars, exchangeVars, beliefVars, hotVars, pollVars, Types
<1>3. CASE Connect
  <2>1. [pos |-> pos, filled |-> None] \in MessageType
    BY DEF MessageType, Types
  <2>2. stream' \in Seq(MessageType)
    BY <1>3, <2>1 DEF Connect
  <2>3. QED
    BY <1>3, <2>2 DEF Connect, exchangeVars, hotVars, pollVars, Types
<1>4. CASE Disconnect
  <2>1. stream' \in Seq(MessageType)
    BY <1>4 DEF Disconnect
  <2>2. QED
    BY <1>4, <2>1 DEF Disconnect, exchangeVars, hotVars, pollVars, Types
<1>5. CASE AccountAll
  <2>1. Head(stream) \in MessageType /\ Tail(stream) \in Seq(MessageType)
    BY <1>5 DEF AccountAll, Types
  <2>2. seen' \in Prices \cup {Unknown} /\ age' \in 0 .. Fallback
    BY <1>1, <1>5, <2>1 DEF AccountAll, MessageType
  <2>3. slot' \in [Sides -> SlotType]
    BY <1>5, SlotTypes DEF AccountAll, Types
  <2>4. QED
    BY <1>5, <2>1, <2>2, <2>3 DEF AccountAll, exchangeVars, pollVars, Types
<1>6. CASE \E c \in Capitals : UserStats(c)
  <2>1. capital' = TheCapital
    BY <1>6 DEF UserStats, Regular
  <2>2. QED
    BY <1>6, <2>1 DEF UserStats, exchangeVars, hotVars, pollVars, Types
<1>7. CASE Poll
  <2>1. swap' \in SUBSET Sides
    BY <1>7 DEF Poll, Resting
  <2>2. poller' \in PollerType
    BY <1>7 DEF Poll, Types, PollerType
  <2>3. QED
    BY <1>7, <2>1, <2>2 DEF Poll, exchangeVars, beliefVars, hotVars, Types
<1>8. CASE SetPosition
  <2>1. poller.read \in Prices
    BY DEF Types, PollerType
  <2>2. seen' \in Prices \cup {Unknown} /\ age' \in 0 .. Fallback
    BY <1>1, <1>8, <2>1 DEF SetPosition
  <2>3. QED
    BY <1>8, <2>2, PollerTypes DEF SetPosition, exchangeVars, hotVars, Types
<1>9. CASE \E ok \in BOOLEAN : AskPosition(ok)
  <2>1. [pc |-> "set", read |-> pos, fills |-> 0] \in PollerType
    BY DEF PollerType, Types
  <2>2. poller' \in PollerType
    BY <1>9, <2>1, PollerTypes DEF AskPosition
  <2>3. QED
    BY <1>9, <2>2 DEF AskPosition, exchangeVars, beliefVars, hotVars, Types
<1>10. CASE Period
  <2>1. Older(age, Fallback) \in 0 .. Fallback /\ Older(warm, Warmup) \in 0 .. Warmup
    BY <1>1 DEF Older, AtMost, Types
  <2>2. ASSUME NEW s \in Sides
        PROVE  [slot[s] EXCEPT !.age = IF slot[s].used THEN Older(@, Grace) ELSE 0] \in SlotType
    <3>1. slot[s] \in SlotType
      BY DEF Types
    <3>2. Older(slot[s].age, Grace) \in 0 .. Grace /\ 0 \in 0 .. Grace
      BY <1>1, <3>1 DEF Older, AtMost, SlotType
    <3>3. QED
      BY <3>1, <3>2 DEF SlotType
  <2>3. slot' \in [Sides -> SlotType]
    BY <1>10, <2>2 DEF Period
  <2>4. poller' \in PollerType
    BY <1>10 DEF Period, PollerType, Types
  <2>5. QED
    BY <1>10, <2>1, <2>3, <2>4 DEF Period, exchangeVars, Types
<1>11. CASE Reconcile
  <2>1. ASSUME NEW s \in Sides PROVE Reconciled(s, swap) \in SlotType
    <3>1. slot[s] \in SlotType
      BY DEF Types
    <3>2. [slot[s] EXCEPT !.miss = 1] \in SlotType
      <4> DEFINE one == 1
      <4>1. one \in 0 .. 1
        OBVIOUS
      <4> HIDE DEF one
      <4>2. [slot[s] EXCEPT !.miss = one] \in SlotType
        BY <3>1, <4>1 DEF SlotType
      <4>3. QED
        BY <4>2 DEF one
    <3>3. QED
      BY <3>1, <3>2, SlotTypes DEF Reconciled
  <2>2. slot' \in [Sides -> SlotType]
    BY <1>11, <2>1 DEF Reconcile
  <2>3. QED
    BY <1>11, <2>2 DEF Reconcile, exchangeVars, beliefVars, Types
<1>12. ASSUME NEW known \in SUBSET Sides, MaybeQuote(known) PROVE Types'
  BY <1>12, QuotedTypes DEF MaybeQuote, Publish, beliefVars, pollVars, Types
<1>13. CASE HoldEnds
  BY <1>13 DEF HoldEnds, exchangeVars, beliefVars, pollVars, Types
<1>14. CASE ResetCalc
  <2>1. warm' \in 0 .. Warmup
    BY <1>1, <1>14 DEF ResetCalc
  <2>2. QED
    BY <1>14, <2>1 DEF ResetCalc, exchangeVars, beliefVars, pollVars, Types
<1>15. ASSUME NEW s \in Sides, Lands(s) PROVE Types'
  <2>1. op[s] \in {"plain", "reduce", "cancel"}
    BY <1>15 DEF Lands, Types
  <2>2. order' \in [Sides -> {None, "plain", "reduce"}]
    BY <1>15, <2>1 DEF Lands, Types
  <2>3. op' \in [Sides -> {None, "plain", "reduce", "cancel"}]
    BY <1>15 DEF Lands, Types
  <2>4. slot' \in [Sides -> SlotType]
    BY <1>15, SlotTypes DEF Lands, Types
  <2>5. QED
    BY <1>15, <2>2, <2>3, <2>4 DEF Lands, beliefVars, pollVars, Types
<1>16. ASSUME NEW s \in Sides, Dropped(s) PROVE Types'
  <2>1. op' \in [Sides -> {None, "plain", "reduce", "cancel"}]
    BY <1>16 DEF Dropped, Types
  <2>2. slot' \in [Sides -> SlotType]
    BY <1>16, SlotTypes DEF Dropped, Types
  <2>3. QED
    BY <1>16, <2>1, <2>2 DEF Dropped, beliefVars, pollVars, Types
<1>17. ASSUME NEW s \in Sides, Fill(s) PROVE Types'
  <2>1. pos' \in Prices
    BY <1>17 DEF Fill, Prices
  <2>2. [pos |-> pos', filled |-> s] \in MessageType
    BY <2>1 DEF MessageType
  <2>3. stream' \in Seq(MessageType)
    BY <1>17, <2>2 DEF Fill, Told, Types
  <2>4. order' \in [Sides -> {None, "plain", "reduce"}]
    BY <1>17 DEF Fill, Types
  <2>5. poller' \in PollerType
    BY <1>17 DEF Fill, Types, PollerType
  <2>6. QED
    BY <1>17, <2>1, <2>3, <2>4, <2>5 DEF Fill, hotVars, Types
<1>18. QED
  BY <1>2, <1>3, <1>4, <1>5, <1>6, <1>7, <1>8, <1>9, <1>10, <1>11, <1>12, <1>13, <1>14, <1>15,
     <1>16, <1>17 DEF Next, Position, Land

-----------------------------------------------------------------------------
(* WHAT IS OUT, AND WHAT IS UNDER WAY                                      *)

(* OutInv, action by action.                                               *)
LEMMA OutStep == ASSUME Types, OutInv, IdleInv, [Next]_vars PROVE OutInv'
<1> SUFFICES ASSUME NEW t \in Sides
             PROVE  /\ order'[t] # None => slot'[t].used
                    /\ op'[t] # None => slot'[t].used /\ slot'[t].age = 0
                    /\ op'[t] \in {"plain", "reduce"} => order'[t] = None
                    /\ order'[t] = "reduce" => Toward(t, pos') < 0
                    /\ order'[t] # None /\ swap' # NoView /\ t \notin swap' => slot'[t].age = 0
  BY DEF OutInv
<1>1. /\ order[t] # None => slot[t].used
      /\ op[t] # None => slot[t].used /\ slot[t].age = 0
      /\ op[t] \in {"plain", "reduce"} => order[t] = None
      /\ order[t] = "reduce" => Toward(t, pos) < 0
      /\ order[t] # None /\ swap # NoView /\ t \notin swap => slot[t].age = 0
  BY DEF OutInv
<1>2. Grace \in Nat \ {0} /\ slot[t].age \in 0 .. Grace /\ pos \in Int /\ None \notin {"plain", "reduce", "cancel"}
  BY Constants, Numbers DEF Types, Prices, None
<1>3. CASE UNCHANGED <<pos, order, op, slot, swap>>
  BY <1>1, <1>3
<1>4. CASE AccountAll
  <2>1. slot'[t] = slot[t] \/ (order[t] = None /\ op[t] = None)
    BY <1>4 DEF AccountAll
  <2>2. UNCHANGED <<pos, order, op, swap>>
    BY <1>4 DEF AccountAll, exchangeVars, pollVars
  <2>3. QED
    BY <1>1, <1>2, <2>1, <2>2
<1>5. CASE Poll
  <2>1. order[t] # None => t \in swap'
    BY <1>5 DEF Poll, Resting
  <2>2. UNCHANGED <<pos, order, op, slot>>
    BY <1>5 DEF Poll, exchangeVars, hotVars
  <2>3. QED
    BY <1>1, <2>1, <2>2
<1>6. CASE Period
  <2>1. op[t] = None /\ swap' = NoView /\ UNCHANGED <<pos, order, op>>
    BY <1>6 DEF Period, exchangeVars
  <2>2. slot'[t].used = slot[t].used
    BY <1>6 DEF Period, Types, SlotType
  <2>3. QED
    BY <1>1, <1>2, <2>1, <2>2
<1>7. CASE Reconcile
  <2>1. swap # NoView /\ swap' = NoView /\ UNCHANGED <<pos, order, op>>
    BY <1>7 DEF Reconcile, exchangeVars
  <2>2. slot'[t] = Reconciled(t, swap)
    BY <1>7 DEF Reconcile
  <2>3. slot[t].used /\ slot[t].age = 0 =>
            slot'[t].used /\ slot'[t].age = 0
    <3>1. SUFFICES ASSUME slot[t].used, slot[t].age = 0
                   PROVE  slot'[t].used /\ slot'[t].age = 0
      OBVIOUS
    <3>2. ~(slot[t].age >= Grace)
      BY <1>2, <3>1
    <3>3. slot'[t] = UsedSlot \/ slot'[t] = [slot[t] EXCEPT !.miss = 1]
      BY <2>2, <3>1, <3>2 DEF Reconciled
    <3>4. slot[t] \in SlotType
      BY DEF Types
    <3>5. QED
      BY <3>1, <3>3, <3>4, SlotTypes DEF SlotType
  <2>4. slot[t].used /\ t \in swap => slot'[t].used
    BY <2>2, SlotTypes DEF Reconciled
  <2>5. QED
    BY <1>1, <1>2, <2>1, <2>3, <2>4
<1>8. ASSUME NEW known \in SUBSET Sides, MaybeQuote(known)
      PROVE  /\ order'[t] # None => slot'[t].used
             /\ op'[t] # None => slot'[t].used /\ slot'[t].age = 0
             /\ op'[t] \in {"plain", "reduce"} => order'[t] = None
             /\ order'[t] = "reduce" => Toward(t, pos') < 0
             /\ order'[t] # None /\ swap' # NoView /\ t \notin swap' => slot'[t].age = 0
  <2>1. UNCHANGED <<pos, order, swap>>
    BY <1>8 DEF MaybeQuote, pollVars
  <2>2. CASE op'[t] = op[t] /\ slot'[t] = slot[t]
    BY <1>1, <2>1, <2>2
  <2>3. CASE Create(t, Ladder) /\ slot'[t] = UsedSlot
    <3>1. order[t] = None
      BY <1>1, <2>3 DEF Create
    <3>2. QED
      BY <1>2, <2>1, <2>3, <3>1, SlotTypes
  <2>4. CASE op'[t] = "cancel" /\ slot'[t] = UsedSlot
    BY <1>1, <1>2, <2>1, <2>4, SlotTypes
  <2>5. QED
    BY <1>8, <2>2, <2>3, <2>4, MaybeQuoteFacts
<1>9. ASSUME NEW s \in Sides, Lands(s)
      PROVE  /\ order'[t] # None => slot'[t].used
             /\ op'[t] # None => slot'[t].used /\ slot'[t].age = 0
             /\ op'[t] \in {"plain", "reduce"} => order'[t] = None
             /\ order'[t] = "reduce" => Toward(t, pos') < 0
             /\ order'[t] # None /\ swap' # NoView /\ t \notin swap' => slot'[t].age = 0
  <2>1. UNCHANGED <<pos, swap>>
    BY <1>9 DEF Lands, pollVars
  <2>2. CASE t # s
    <3>1. order'[t] = order[t] /\ op'[t] = op[t] /\ slot'[t] = slot[t]
      BY <1>9, <2>2 DEF Lands, Types
    <3>2. QED
      BY <1>1, <2>1, <3>1
  <2>3. CASE t = s
    <3>1. /\ op[t] # None /\ op'[t] = None
          /\ order'[t] = CASE op[t] = "cancel" -> None
                           [] op[t] = "reduce" /\ ~Reduces(t, pos) -> None
                           [] OTHER -> op[t]
          /\ slot'[t] = IF op[t] = "cancel" THEN FreeSlot ELSE UsedSlot
      BY <1>9, <2>3 DEF Lands, Types
    <3>2. Reduces(t, pos) <=> Toward(t, pos) < 0
      BY <1>2, SideFacts
    <3>3. CASE op[t] = "cancel"
      BY <1>2, <3>1, <3>3
    <3>4. CASE op[t] # "cancel"
      <4>1. order'[t] = None \/ (order'[t] = op[t] /\ (op[t] = "reduce" => Reduces(t, pos)))
        BY <3>1, <3>4
      <4>2. QED
        BY <1>2, <2>1, <3>1, <3>2, <3>4, <4>1, SlotTypes
    <3>5. QED
      BY <3>3, <3>4
  <2>4. QED
    BY <2>2, <2>3
<1>10. ASSUME NEW s \in Sides, Dropped(s)
       PROVE  /\ order'[t] # None => slot'[t].used
              /\ op'[t] # None => slot'[t].used /\ slot'[t].age = 0
              /\ op'[t] \in {"plain", "reduce"} => order'[t] = None
              /\ order'[t] = "reduce" => Toward(t, pos') < 0
              /\ order'[t] # None /\ swap' # NoView /\ t \notin swap' => slot'[t].age = 0
  <2>1. UNCHANGED <<pos, order, swap>>
    BY <1>10 DEF Dropped, pollVars
  <2>2. CASE t # s
    <3>1. op'[t] = op[t] /\ slot'[t] = slot[t]
      BY <1>10, <2>2 DEF Dropped, Types
    <3>2. QED
      BY <1>1, <2>1, <3>1
  <2>3. CASE t = s
    <3>1. /\ op[t] \in {"plain", "reduce", "cancel"} /\ op'[t] = None
          /\ slot'[t] = IF op[t] = "cancel" THEN slot[t] ELSE FreeSlot
      BY <1>10, <2>3 DEF Dropped, Types
    <3>2. QED
      BY <1>1, <1>2, <2>1, <3>1
  <2>4. QED
    BY <2>2, <2>3
<1>11. ASSUME NEW s \in Sides, Fill(s)
       PROVE  /\ order'[t] # None => slot'[t].used
              /\ op'[t] # None => slot'[t].used /\ slot'[t].age = 0
              /\ op'[t] \in {"plain", "reduce"} => order'[t] = None
              /\ order'[t] = "reduce" => Toward(t, pos') < 0
              /\ order'[t] # None /\ swap' # NoView /\ t \notin swap' => slot'[t].age = 0
  <2>1. UNCHANGED <<op, slot, swap>> /\ pos' = pos + Sign(s)
    BY <1>11 DEF Fill, hotVars
  <2>2. CASE t = s
    <3>1. order'[t] = None
      BY <1>11, <2>2 DEF Fill, Types
    <3>2. QED
      BY <1>1, <1>2, <2>1, <3>1
  <2>3. CASE t # s
    <3>1. order'[t] = order[t]
      BY <1>11, <2>3 DEF Fill, Types
    <3>2. Toward(t, pos') = Toward(t, pos) - 1 /\ Toward(t, pos) \in Int
      BY <1>2, <2>1, <2>3, SideFacts
    <3>3. QED
      BY <1>1, <2>1, <3>1, <3>2
  <2>4. QED
    BY <2>2, <2>3
<1>12. (\/ UNCHANGED vars \/ Connect \/ Disconnect \/ (\E c \in Capitals : UserStats(c))
        \/ Position \/ HoldEnds \/ ResetCalc) => UNCHANGED <<pos, order, op, slot, swap>>
  BY DEF vars, Connect, Disconnect, UserStats, Position, SetPosition, AskPosition, HoldEnds,
         ResetCalc, exchangeVars, hotVars, pollVars
<1>13. QED
  BY <1>3, <1>4, <1>5, <1>6, <1>7, <1>8, <1>9, <1>10, <1>11, <1>12 DEF Next, Land

(* IdleInv, action by action.                                              *)
LEMMA IdleStep == ASSUME Regular, Types, OutInv, IdleInv, [Next]_vars PROVE IdleInv'
<1> SUFFICES ASSUME capital' <= 0 \/ seen' = Unknown, NEW t \in Sides
             PROVE  pos' = 0 /\ order'[t] = None /\ op'[t] = None /\ ~slot'[t].used
  BY DEF IdleInv, Sides
<1> DEFINE quiet == pos = 0 /\ \A s \in Sides : order[s] = None /\ op[s] = None /\ ~slot[s].used
<1>1. capital <= 0 \/ seen = Unknown => quiet
  BY DEF IdleInv
<1>2. CASE UNCHANGED <<capital, seen, pos, order, op, slot>>
  BY <1>1, <1>2
<1>3. CASE AccountAll
  <2>1. UNCHANGED <<pos, order, op, capital>> /\ seen' = Head(stream).pos
    BY <1>3 DEF AccountAll, exchangeVars
  <2>2. slot'[t] = slot[t] \/ slot'[t] = FreeSlot
    BY <1>3 DEF AccountAll
  <2>3. Head(stream) \in MessageType
    BY <1>3 DEF AccountAll, Types
  <2>4. seen' # Unknown
    BY <2>1, <2>3, Constants DEF MessageType, Prices, Unknown
  <2>5. QED
    BY <1>1, <2>1, <2>2, <2>4, SlotTypes
<1>4. CASE \E c \in Capitals : UserStats(c)
  <2>1. UNCHANGED <<pos, order, op, slot, seen>> /\ capital' # capital
    BY <1>4 DEF UserStats, exchangeVars, hotVars
  <2>2. capital' = TheCapital
    BY <1>4 DEF UserStats, Regular
  <2>3. capital <= 0
    BY <2>1, <2>2 DEF Types
  <2>4. QED
    BY <1>1, <2>1, <2>3
<1>5. CASE SetPosition
  <2>1. UNCHANGED <<pos, order, op, slot, capital>> /\ seen' = poller.read
    BY <1>5 DEF SetPosition, exchangeVars, hotVars
  <2>2. poller.read # Unknown
    BY Constants DEF Types, PollerType, Prices, Unknown
  <2>3. QED
    BY <1>1, <2>1, <2>2
<1>6. CASE Period
  <2>1. UNCHANGED <<pos, order, op, seen, capital>>
    BY <1>6 DEF Period, exchangeVars
  <2>2. slot'[t].used = slot[t].used
    BY <1>6 DEF Period, Types, SlotType
  <2>3. QED
    BY <1>1, <2>1, <2>2
<1>7. CASE Reconcile
  <2>1. UNCHANGED <<pos, order, op, seen, capital>>
    BY <1>7 DEF Reconcile, exchangeVars, beliefVars
  <2>2. ~slot[t].used
    BY <1>1, <2>1
  <2>3. slot'[t] = slot[t]
    BY <1>7, <2>2 DEF Reconcile, Reconciled
  <2>4. QED
    BY <1>1, <2>1, <2>3
<1>8. ASSUME NEW known \in SUBSET Sides, MaybeQuote(known)
      PROVE  pos' = 0 /\ order'[t] = None /\ op'[t] = None /\ ~slot'[t].used
  <2>1. UNCHANGED <<pos, order, seen, capital>>
    BY <1>8 DEF MaybeQuote, beliefVars
  <2>2. quiet
    BY <1>1, <2>1
  <2>3. op'[t] = op[t] /\ slot'[t] = slot[t]
    <3>1. capital \in Nat
      BY Constants DEF Types
    <3>2. ~(capital > 0 /\ seen # Unknown)
      BY <2>1, <3>1
    <3>3. QED
      BY <1>8, <3>2, MaybeQuoteFacts
  <2>4. QED
    BY <2>1, <2>2, <2>3
<1>9. ASSUME NEW s \in Sides, Lands(s) \/ Dropped(s) \/ Fill(s) PROVE FALSE
  <2>1. UNCHANGED <<seen, capital>>
    BY <1>9 DEF Lands, Dropped, Fill, beliefVars
  <2>2. quiet
    BY <1>1, <2>1
  <2>3. QED
    BY <1>9, <2>2 DEF Lands, Dropped, Fill
<1>10. (\/ UNCHANGED vars \/ Connect \/ Disconnect \/ Poll \/ (\E ok \in BOOLEAN : AskPosition(ok))
        \/ HoldEnds \/ ResetCalc) => UNCHANGED <<capital, seen, pos, order, op, slot>>
  BY DEF vars, Connect, Disconnect, Poll, AskPosition, HoldEnds, ResetCalc, exchangeVars,
         beliefVars, hotVars, pollVars
<1>11. QED
  BY <1>2, <1>3, <1>4, <1>5, <1>6, <1>7, <1>8, <1>9, <1>10 DEF Next, Land, Position

(* StreamInv: messages leave at the head, fills append.                    *)
LEMMA StreamStep == ASSUME Types, StreamInv, [Next]_vars PROVE StreamInv'
<1>1. MaxStream \in Nat \ {0} /\ pos \in Int /\ stream \in Seq(MessageType) /\ Len(stream) \in Nat
  BY Constants DEF Types, Prices
<1>2. CASE UNCHANGED <<pos, stream, feed>>
  BY <1>2 DEF StreamInv
<1>3. CASE Connect \/ Disconnect
  <2>1. CASE Connect
    <3>1. pos' = pos /\ feed' /\ stream' = <<[pos |-> pos, filled |-> None]>>
      BY <2>1 DEF Connect, exchangeVars
    <3>2. Len(stream') = 1 /\ \A i \in 1 .. 1 : stream'[i].pos = pos
      BY <3>1
    <3>3. ASSUME NEW s \in Sides PROVE Toward(s, pos) \in Int
      BY <1>1, SideFacts
    <3>4. QED
      BY <1>1, <3>1, <3>2, <3>3 DEF StreamInv
  <2>2. CASE Disconnect
    <3>1. stream' = <<>>
      BY <2>2 DEF Disconnect
    <3>2. QED
      BY <1>1, <3>1 DEF StreamInv
  <2>3. QED
    BY <1>3, <2>1, <2>2
<1>4. CASE AccountAll
  <2>1. stream # <<>> /\ stream' = Tail(stream) /\ UNCHANGED <<pos, feed>>
    BY <1>4 DEF AccountAll, exchangeVars
  <2>2. Len(stream') = Len(stream) - 1 /\ \A i \in 1 .. Len(stream') : stream'[i] = stream[i + 1]
    BY <1>1, <2>1
  <2>3. feed /\ Len(stream') <= MaxStream
    BY <1>1, <2>1, <2>2 DEF StreamInv
  <2>4. ASSUME NEW s \in Sides, NEW i \in 1 .. Len(stream')
        PROVE  Toward(s, pos') - Toward(s, stream'[i].pos) <= Len(stream') - i
    <3>1. i + 1 \in 1 .. Len(stream)
      BY <1>1, <2>2
    <3>2. Toward(s, pos) - Toward(s, stream[i + 1].pos) <= Len(stream) - (i + 1)
      BY <3>1 DEF StreamInv
    <3>3. QED
      BY <1>1, <2>1, <2>2, <3>2
  <2>5. QED
    BY <2>1, <2>3, <2>4 DEF StreamInv
<1>5. ASSUME NEW k \in Sides, Fill(k) PROVE StreamInv'
  <2>1. feed' = feed /\ pos' = pos + Sign(k) /\ stream' = Told([pos |-> pos', filled |-> k])
    BY <1>5 DEF Fill
  <2>2. CASE ~feed
    BY <1>1, <2>1, <2>2 DEF Told, StreamInv
  <2>3. CASE feed
    <3>1. Len(stream) < MaxStream
      BY <1>5, <2>3 DEF Fill
    <3> DEFINE m == [pos |-> pos', filled |-> k]
    <3>2. stream' = Append(stream, m)
      BY <2>1, <2>3 DEF Told
    <3>3. m.pos = pos'
      OBVIOUS
    <3> HIDE DEF m
    <3>4. /\ Len(stream') = Len(stream) + 1 /\ stream'[Len(stream) + 1] = m
          /\ \A i \in 1 .. Len(stream) : stream'[i] = stream[i]
      BY <1>1, <3>2
    <3>5. ASSUME NEW s \in Sides, NEW i \in 1 .. Len(stream')
          PROVE  Toward(s, pos') - Toward(s, stream'[i].pos) <= Len(stream') - i
      <4>1. Toward(s, pos) \in Int /\ Toward(s, pos') \in Int /\ Toward(s, pos') <= Toward(s, pos) + 1
        BY <1>1, <2>1, FillMoves
      <4>2. CASE i = Len(stream) + 1
        BY <1>1, <3>3, <3>4, <4>1, <4>2
      <4>3. CASE i # Len(stream) + 1
        <5>1. i \in 1 .. Len(stream)
          BY <1>1, <3>4, <4>3
        <5>2. Toward(s, pos) - Toward(s, stream[i].pos) <= Len(stream) - i /\ stream'[i] = stream[i]
          BY <3>4, <5>1 DEF StreamInv
        <5>3. Toward(s, stream[i].pos) \in Int
          <6>1. stream[i] \in MessageType
            BY <1>1, <5>1
          <6>2. stream[i].pos \in Int
            BY <6>1, Constants DEF MessageType, Prices
          <6>3. QED
            BY <6>2, SideFacts
        <5>4. QED
          BY <1>1, <3>4, <4>1, <5>2, <5>3
      <4>4. QED
        BY <4>2, <4>3
    <3>6. QED
      BY <1>1, <2>1, <2>3, <3>1, <3>4, <3>5 DEF StreamInv
  <2>4. QED
    BY <2>2, <2>3
<1>6. (\/ UNCHANGED vars \/ (\E c \in Capitals : UserStats(c)) \/ Poll \/ Position \/ Period
       \/ Reconcile \/ (\E known \in SUBSET Sides : MaybeQuote(known)) \/ HoldEnds \/ ResetCalc
       \/ Land \/ (\E s \in Sides : Dropped(s))) => UNCHANGED <<pos, stream, feed>>
  BY DEF vars, UserStats, Poll, Position, SetPosition, AskPosition, Period, Reconcile, MaybeQuote,
         HoldEnds, ResetCalc, Land, Lands, Dropped, exchangeVars, beliefVars
<1>7. QED
  BY <1>2, <1>3, <1>4, <1>5, <1>6 DEF Next

(* PollInv: the poller is done only with a position that is not old; what  *)
(* it has read misses the fills since.                                     *)
LEMMA PollStep == ASSUME Regular, Types, PollInv, [Next]_vars PROVE PollInv'
<1>1. /\ Fallback \in Nat \ {0} /\ pos \in Int /\ poller \in PollerType /\ age \in 0 .. Fallback
      /\ ReadFills \in Nat
  BY Constants DEF Types, Prices
<1>2. ASSUME NEW p \in Prices PROVE p # Unknown
  BY Constants DEF Prices, Unknown
<1>3. CASE UNCHANGED <<pos, poller, seen, age>>
  BY <1>3 DEF PollInv
<1>4. CASE AccountAll
  <2>1. Head(stream) \in MessageType
    BY <1>4 DEF AccountAll, Types
  <2>2. seen' # Unknown /\ age' = 0 /\ UNCHANGED <<pos, poller>>
    BY <1>2, <1>4, <2>1 DEF AccountAll, MessageType, exchangeVars, pollVars
  <2>3. age' < Fallback
    BY <1>1, <2>2
  <2>4. QED
    BY <2>2, <2>3 DEF PollInv
<1>5. CASE Poll
  <2>1. UNCHANGED <<pos, seen, age>>
    BY <1>5 DEF Poll, exchangeVars, beliefVars
  <2>2. poller'.pc = IF seen = Unknown \/ age >= Fallback THEN "ask" ELSE "done"
    BY <1>1, <1>5 DEF Poll, PollerType
  <2>3. QED
    BY <1>1, <2>1, <2>2 DEF PollInv
<1>6. CASE SetPosition
  <2>1. poller' = Done /\ seen' = poller.read /\ age' = 0
    BY <1>6 DEF SetPosition
  <2>2. seen' # Unknown
    BY <1>1, <1>2, <2>1 DEF PollerType
  <2>3. poller'.pc # "set" /\ age' < Fallback
    BY <1>1, <2>1, PollerTypes
  <2>4. QED
    BY <2>2, <2>3 DEF PollInv
<1>7. CASE \E ok \in BOOLEAN : AskPosition(ok)
  <2>1. poller' = [pc |-> "set", read |-> pos, fills |-> 0] /\ UNCHANGED <<pos, seen, age>>
    BY <1>7 DEF AskPosition, Regular, exchangeVars, beliefVars
  <2>2. ASSUME NEW s \in Sides PROVE Toward(s, pos) \in Int
    BY <1>1, SideFacts
  <2>3. QED
    BY <1>1, <2>1, <2>2 DEF PollInv
<1>8. CASE Period
  <2>1. poller'.pc = "wait"
    BY <1>1, <1>8 DEF Period, PollerType
  <2>2. QED
    BY <2>1 DEF PollInv
<1>9. ASSUME NEW k \in Sides, Fill(k) PROVE PollInv'
  <2>1. UNCHANGED <<seen, age>> /\ pos' = pos + Sign(k)
    BY <1>9 DEF Fill
  <2>2. /\ poller'.pc = poller.pc /\ poller'.read = poller.read
        /\ poller.pc = "set" => poller'.fills = poller.fills + 1 /\ poller.fills < ReadFills
    BY <1>1, <1>9 DEF Fill, PollerType
  <2>3. poller.fills \in Nat /\ poller.read \in Int
    BY <1>1, Constants DEF PollerType, Prices
  <2>4. ASSUME NEW s \in Sides
        PROVE  /\ Toward(s, pos) \in Int /\ Toward(s, pos') \in Int
               /\ Toward(s, poller.read) \in Int
               /\ Toward(s, pos') <= Toward(s, pos) + 1
    BY <1>1, <2>1, <2>3, FillMoves
  <2>5. poller.pc = "done" => seen' # Unknown /\ age' < Fallback
    BY <2>1 DEF PollInv
  <2>6. ASSUME poller.pc = "set"
        PROVE  /\ poller'.fills <= ReadFills
               /\ \A s \in Sides : Toward(s, pos') - Toward(s, poller'.read) <= poller'.fills
    <3>1. poller'.fills <= ReadFills
      BY <1>1, <2>2, <2>3, <2>6
    <3>2. ASSUME NEW s \in Sides
          PROVE  Toward(s, pos') - Toward(s, poller'.read) <= poller'.fills
      <4>1. Toward(s, pos) - Toward(s, poller.read) <= poller.fills
        BY <2>6 DEF PollInv
      <4>2. QED
        BY <2>2, <2>3, <2>4, <2>6, <4>1
    <3>3. QED
      BY <3>1, <3>2
  <2>7. QED
    BY <2>2, <2>5, <2>6 DEF PollInv
<1>10. (\/ UNCHANGED vars \/ Connect \/ Disconnect \/ (\E c \in Capitals : UserStats(c))
        \/ Reconcile \/ (\E known \in SUBSET Sides : MaybeQuote(known)) \/ HoldEnds \/ ResetCalc
        \/ Land \/ (\E s \in Sides : Dropped(s))) => UNCHANGED <<pos, poller, seen, age>>
  BY DEF vars, Connect, Disconnect, UserStats, Reconcile, MaybeQuote, HoldEnds, ResetCalc,
         Land, Lands, Dropped, exchangeVars, beliefVars, pollVars
<1>11. QED
  BY <1>3, <1>4, <1>5, <1>6, <1>7, <1>8, <1>9, <1>10 DEF Next, Position

-----------------------------------------------------------------------------
(* ROUNDS ON ONE BELIEF                                                    *)

(* maybe_quote: an order that adds is asked for with the warm-up over and  *)
(* below the limit, and one that is asked for is not cancelled.            *)
LEMMA QuotingInBounds ==
    ASSUME CycleInv, Types', NEW known \in SUBSET Sides, MaybeQuote(known), NEW s \in Sides
    PROVE  InBounds(s)'
<1>1. Types /\ OutInv /\ IdleInv /\ InBounds(s)
  BY DEF CycleInv
<1>2. UNCHANGED <<pos, order, seen, age, capital, warm>>
  BY DEF MaybeQuote, beliefVars
<1>3. /\ slot[s].used \in BOOLEAN /\ slot[s].age \in 0 .. Grace /\ Blind(s) \in Int
      /\ age \in 0 .. Fallback /\ age \in Nat /\ warm \in 0 .. Warmup /\ Toward(s, seen) \in Int
  BY <1>1, Numbers
<1>4. Blind(s)' \in Int /\ None \notin {"plain", "reduce", "cancel"}
  BY NextNumbers DEF None
<1>5. seen \in Int /\ Limit \in Nat /\ Warmup \in Nat /\ Mid \in Nat \ {0}
  <2>1. seen \in Int
    BY <1>1, Constants DEF Types, Prices, Unknown
  <2>2. Limit \in Nat
    BY <1>1, Constants, LimitFacts DEF Types, Limit
  <2>3. QED
    BY <2>1, <2>2, Constants
<1>6. CASE op'[s] = op[s] /\ slot'[s] = slot[s]
  BY <1>1, <1>2, <1>6, SteadyInBounds
<1>7. ASSUME op[s] = None, capital > 0, seen # Unknown, Create(s, Ladder),
             op'[s] = (IF Reduces(s, seen) THEN "reduce" ELSE "plain"), slot'[s] = UsedSlot
      PROVE  InBounds(s)'
  <2>1. ~slot[s].used /\ Wants(s, Ladder) /\ order[s] = None
    BY <1>1, <1>7 DEF Create, OutInv
  <2>2. Reduces(s, seen) <=> Toward(s, seen) < 0
    BY <1>5, SideFacts
  <2>3. CASE Reduces(s, seen)
    <3>1. op'[s] = "reduce" /\ Blind(s)' = Blind(s)
      BY <1>2, <1>7, <2>1, <2>3 DEF Blind, Reach, Out, None
    <3>2. Toward(s, seen) <= Last
      BY <1>3, <2>2, <2>3, BaseFacts
    <3>3. ~(Blind(s) >= 1)
      BY <1>1, <1>3, <2>2, <2>3, <3>2 DEF InBounds, Window, Eager
    <3>4. Blind(s)' <= 0
      BY <1>3, <3>1, <3>3
    <3>5. QED
      BY <3>4, NothingOutInBounds
  <2>4. CASE ~Reduces(s, seen)
    <3>1. Toward(s, seen) >= 0 /\ op'[s] = "plain"
      BY <1>3, <1>7, <2>2, <2>4
    <3>2. Ready
      <4>1. SUFFICES ASSUME ~Ready PROVE FALSE
        OBVIOUS
      <4>2. Wants(s, FallbackReduceOnly(Mid, seen, 1))
        BY <2>1, <4>1 DEF Ladder
      <4>3. Toward(s, seen) < 0
        BY <1>5, <4>2, FallbackReduces
      <4>4. QED
        BY <1>3, <3>1, <4>3
    <3>3. Wants(s, QuoteLadder(Mid, 2 * Tick, 0, seen, Limit, 1))
      BY <2>1, <3>2 DEF Ladder
    <3>4. 10 * Abs(seen) * Mid < Limit
      BY <1>5, <3>1, <3>3, WantsFacts
    <3>5. capital = TheCapital /\ Abs(seen) \in Nat /\ Toward(s, seen) <= Abs(seen)
      <4>1. capital = TheCapital
        BY <1>1, <1>7 DEF Types
      <4>2. Abs(seen) \in Nat
        BY <1>5 DEF Abs
      <4>3. QED
        BY <1>5, <4>1, <4>2, SideFacts
    <3>6. Abs(seen) <= Last
      <4>1. 10 * Abs(seen) * Mid < DynamicMaxPosition(Mid, TheCapital, 1, 1)
        BY <3>4, <3>5 DEF Limit
      <4>2. QED
        BY <3>5, <4>1, Constants, LimitFacts DEF Last
    <3>7. Toward(s, seen) <= Last
      BY <1>3, <3>5, <3>6, BaseFacts
    <3>8. Blind(s)' = Blind(s) + 1
      <4>1. Out(order[s], op[s]) = 0 /\ Out(order'[s], op'[s]) = 1
        BY <1>2, <1>7, <2>1, <3>1 DEF Out, None
      <4>2. Toward(s, pos) \in Int /\ Base \in Int
        BY <1>1, Numbers, BaseFacts
      <4>3. Blind(s) = (Toward(s, pos) + 0) - Base
        BY <4>1 DEF Blind, Reach
      <4>4. Blind(s)' = (Toward(s, pos) + 1) - Base
        BY <1>2, <4>1 DEF Blind, Reach
      <4>5. QED
        BY <4>2, <4>3, <4>4
    <3>9. Timely(FALSE, slot[s].age, op[s], Blind(s), age, Warmup) /\ warm = Warmup
      BY <1>1, <1>3, <2>1, <3>2, <3>7 DEF InBounds, Window, Ready
    <3>10. Timely(TRUE, 0, "plain", Blind(s) + 1, age, Warmup)
      BY <1>3, <3>9, OneMoreIsTimely
    <3>11. Timely(slot'[s].used, slot'[s].age, op'[s], Blind(s)', age', warm')
      BY <1>2, <1>7, <3>1, <3>8, <3>9, <3>10, SlotTypes
    <3>12. Eager(s, seen', capital')
      BY <1>2, <1>7, <3>1, <3>3 DEF Eager, Limit
    <3>13. QED
      BY <3>11, <3>12, TimelyInBounds
  <2>5. QED
    BY <2>3, <2>4
<1>8. ASSUME op[s] = None, capital > 0, seen # Unknown, slot[s].used, ~Wants(s, Ladder),
             op'[s] = "cancel", slot'[s] = UsedSlot
      PROVE  InBounds(s)'
  <2>1. Blind(s)' = Blind(s)
    BY <1>2, <1>8 DEF Blind, Reach, Out, None
  <2>2. CASE Ready
    <3>1. ~Eager(s, seen, capital)
      BY <1>8, <2>2 DEF Eager, Ladder, Limit
    <3>2. CASE Toward(s, seen) <= Last
      <4>1. Blind(s)' <= 0
        BY <1>1, <1>3, <2>1, <3>1, <3>2 DEF InBounds, Window
      <4>2. QED
        BY <4>1, NothingOutInBounds
    <3>3. CASE ~(Toward(s, seen) <= Last)
      BY <1>1, <1>2, <2>1, <3>3 DEF InBounds, Window
    <3>4. QED
      BY <3>2, <3>3
  <2>3. CASE ~Ready
    <3>1. warm < Warmup
      BY <1>3, <1>5, <2>3 DEF Ready
    <3>2. CASE Toward(s, seen) <= Last
      <4>1. Timely(TRUE, slot[s].age, op[s], Blind(s), age, warm)
        BY <1>1, <1>8, <3>2 DEF InBounds, Window
      <4>2. Timely(TRUE, 0, None, Blind(s), age, warm)
        <5>1. 0 \in 0 .. Grace /\ 0 <= slot[s].age /\ Blind(s) <= Blind(s) /\ TRUE \in BOOLEAN
          BY <1>3, Constants
        <5>2. QED
          BY <1>3, <1>4, <4>1, <5>1, StaysTimely
      <4>3. Timely(TRUE, 0, "cancel", Blind(s), age, warm)
        BY <3>1, <4>2 DEF Timely
      <4>4. Timely(slot'[s].used, slot'[s].age, op'[s], Blind(s)', age', warm')
        BY <1>2, <1>8, <2>1, <4>3, SlotTypes
      <4>5. Blind(s)' >= 1 => Eager(s, seen', capital')
        BY <1>1, <1>2, <2>1, <3>2 DEF InBounds, Window
      <4>6. QED
        BY <4>4, <4>5, TimelyInBounds
    <3>3. CASE ~(Toward(s, seen) <= Last)
      BY <1>1, <1>2, <2>1, <3>3 DEF InBounds, Window
    <3>4. QED
      BY <3>2, <3>3
  <2>4. QED
    BY <2>2, <2>3
<1>9. QED
  BY <1>1, <1>6, <1>7, <1>8, MaybeQuoteFacts

(* Period: the poller is done, so the belief is not yet at the fallback.   *)
LEMMA PeriodInBounds ==
    ASSUME Regular, CycleInv, Types', Period, NEW s \in Sides
    PROVE  InBounds(s)'
<1>1. Types /\ PollInv /\ InBounds(s) /\ op[s] = None
  BY DEF CycleInv, Period
<1>2. UNCHANGED <<pos, order, op, seen, capital>>
  BY DEF Period, exchangeVars
<1>3. /\ slot[s].used \in BOOLEAN /\ slot[s].age \in 0 .. Grace /\ Blind(s) \in Int
      /\ age \in 0 .. Fallback /\ age \in Nat /\ warm \in 0 .. Warmup
  BY <1>1, Numbers
<1>4. Blind(s)' = Blind(s) /\ slot'[s].age \in 0 .. Grace
  BY <1>2, NextNumbers DEF Blind, Reach
<1>5. age' = age + 1 /\ warm' = Older(warm, Warmup)
  <2>1. age < Fallback
    BY <1>1 DEF PollInv, Period
  <2>2. QED
    BY <1>3, <2>1, Constants DEF Period, Older, AtMost
<1>6. slot'[s].used = slot[s].used /\ slot'[s].age <= slot[s].age + 1
  <2>1. slot[s] \in SlotType
    BY <1>1 DEF Types
  <2>2. slot'[s] = [slot[s] EXCEPT !.age = IF slot[s].used THEN Older(slot[s].age, Grace) ELSE 0]
    BY DEF Period
  <2>3. Older(slot[s].age, Grace) <= slot[s].age + 1
    BY <1>3, Constants DEF Older, AtMost
  <2>4. slot'[s].age = IF slot[s].used THEN Older(slot[s].age, Grace) ELSE 0
    BY <2>1, <2>2 DEF SlotType
  <2>5. slot'[s].used = slot[s].used
    BY <2>1, <2>2 DEF SlotType
  <2>6. QED
    BY <1>3, <2>3, <2>4, <2>5
<1>7. CASE Toward(s, seen) <= Last
  <2>1. Timely(slot[s].used, slot[s].age, None, Blind(s), age, warm)
    BY <1>1, <1>7 DEF InBounds, Window
  <2>2. Timely(slot[s].used, slot'[s].age, None, Blind(s), age + 1, Older(warm, Warmup))
    BY <1>3, <1>4, <1>6, <2>1, PeriodIsTimely DEF Regular
  <2>3. Timely(slot'[s].used, slot'[s].age, op'[s], Blind(s)', age', warm')
    BY <1>1, <1>2, <1>4, <1>5, <1>6, <2>2
  <2>4. Blind(s)' >= 1 => Eager(s, seen', capital')
    BY <1>1, <1>2, <1>4, <1>7 DEF InBounds, Window
  <2>5. QED
    BY <2>3, <2>4, TimelyInBounds
<1>8. CASE ~(Toward(s, seen) <= Last)
  BY <1>1, <1>2, <1>4, <1>8 DEF InBounds, Window
<1>9. QED
  BY <1>7, <1>8

LEMMA ResetInBounds ==
    ASSUME CycleInv, Types', ResetCalc, NEW s \in Sides
    PROVE  InBounds(s)'
<1>1. Types /\ InBounds(s)
  BY DEF CycleInv
<1>2. UNCHANGED <<pos, order, op, slot, seen, age, capital>> /\ warm' = 0
  BY DEF ResetCalc, exchangeVars, beliefVars
<1>3. /\ slot[s].used \in BOOLEAN /\ slot[s].age \in 0 .. Grace /\ Blind(s) \in Int
      /\ age \in Nat /\ warm \in 0 .. Warmup
  BY <1>1, Numbers
<1>4. Blind(s)' = Blind(s)
  BY <1>2 DEF Blind, Reach
<1>5. CASE Toward(s, seen) <= Last
  <2>1. Timely(slot[s].used, slot[s].age, op[s], Blind(s), age, warm)
    BY <1>1, <1>5 DEF InBounds, Window
  <2>2. Timely(slot[s].used, slot[s].age, op[s], Blind(s), age, 0)
    BY <1>3, <2>1, ResetIsTimely
  <2>3. Blind(s)' >= 1 => Eager(s, seen', capital')
    BY <1>1, <1>2, <1>4, <1>5 DEF InBounds, Window
  <2>4. QED
    BY <1>2, <1>4, <2>2, <2>3, TimelyInBounds
<1>6. CASE ~(Toward(s, seen) <= Last)
  BY <1>1, <1>2, <1>4, <1>6 DEF InBounds, Window
<1>7. QED
  BY <1>5, <1>6

(* account_all and the answer of REST: no more than Missed fills behind.   *)
LEMMA BeliefInBounds ==
    ASSUME CycleInv, Types', AccountAll \/ SetPosition, NEW s \in Sides
    PROVE  InBounds(s)'
<1>1. Types /\ StreamInv /\ PollInv /\ InBounds(s)
  BY DEF CycleInv
<1>2. UNCHANGED <<pos, order, op>>
  BY DEF AccountAll, SetPosition, exchangeVars
<1>3. Blind(s)' = Blind(s) /\ Blind(s) \in Int
  BY <1>1, <1>2, Numbers DEF Blind, Reach
<1>4. Toward(s, pos) \in Int /\ Toward(s, seen') \in Int /\ Missed \in Nat
  BY <1>1, Numbers, NextNumbers, Constants
<1>5. CASE AccountAll
  <2>1. stream # <<>> /\ seen' = Head(stream).pos /\ stream \in Seq(MessageType)
    BY <1>1, <1>5 DEF AccountAll, Types
  <2>2. Head(stream) = stream[1] /\ 1 \in 1 .. Len(stream) /\ Len(stream) \in Nat
    BY <2>1
  <2>3. Toward(s, pos) - Toward(s, seen') <= Len(stream) - 1 /\ Len(stream) <= MaxStream
    BY <1>1, <2>1, <2>2 DEF StreamInv
  <2>4. Toward(s, pos') - Toward(s, seen') <= Missed
    BY <1>2, <1>4, <2>2, <2>3, Constants
  <2>5. QED
    BY <1>1, <1>3, <2>4, RefreshedInBounds
<1>6. CASE SetPosition
  <2>1. /\ seen' = poller.read /\ poller.fills <= ReadFills /\ poller.fills \in Nat
        /\ Toward(s, pos) - Toward(s, poller.read) <= poller.fills
    BY <1>1, <1>6 DEF SetPosition, PollInv, Types, PollerType
  <2>2. Toward(s, pos') - Toward(s, seen') <= Missed
    BY <1>2, <1>4, <2>1, Constants
  <2>3. QED
    BY <1>1, <1>3, <2>2, RefreshedInBounds
<1>7. QED
  BY <1>5, <1>6

(* process_reconcile frees a slot after the grace.                         *)
LEMMA ReconcileInBounds ==
    ASSUME CycleInv, Types', Reconcile, NEW s \in Sides
    PROVE  InBounds(s)'
<1>1. Types /\ InBounds(s)
  BY DEF CycleInv
<1>2. UNCHANGED <<pos, order, op, seen, age, capital, warm>>
  BY DEF Reconcile, exchangeVars, beliefVars
<1>3. Blind(s)' = Blind(s) /\ Blind(s) \in Int /\ slot[s].age \in 0 .. Grace
  BY <1>1, <1>2, Numbers DEF Blind, Reach
<1>4. slot[s] \in SlotType /\ slot'[s] = Reconciled(s, swap)
  BY <1>1 DEF Types, Reconcile
<1>5. \/ slot'[s] = slot[s]
      \/ slot[s].used /\ slot'[s] = UsedSlot
      \/ slot[s].used /\ slot[s].age >= Grace /\ slot'[s] = FreeSlot
      \/ slot[s].used /\ slot'[s] = [slot[s] EXCEPT !.miss = 1]
  BY <1>4 DEF Reconciled
<1>6. [slot[s] EXCEPT !.miss = 1].used = slot[s].used /\ [slot[s] EXCEPT !.miss = 1].age = slot[s].age
  BY <1>4 DEF SlotType
<1>7. slot'[s].used => slot[s].used /\ slot'[s].age <= slot[s].age
  <2>1. slot'[s].used => slot[s].used
    BY <1>5, <1>6, SlotTypes
  <2>2. slot'[s].age = slot[s].age \/ slot'[s].age = 0
    BY <1>5, <1>6, SlotTypes
  <2>3. QED
    BY <1>3, <2>1, <2>2, Constants
<1>8. ~slot'[s].used => ~slot[s].used \/ slot[s].age >= Grace
  BY <1>5, <1>6, SlotTypes
<1>9. QED
  BY <1>1, <1>2, <1>3, <1>7, <1>8, SameBeliefInBounds

(* An op lands or is dropped.                                              *)
LEMMA OpInBounds ==
    ASSUME CycleInv, Types', NEW k \in Sides, Lands(k) \/ Dropped(k), NEW s \in Sides
    PROVE  InBounds(s)'
<1>1. Types /\ OutInv /\ InBounds(s)
  BY DEF CycleInv
<1>2. UNCHANGED <<pos, seen, age, capital, warm>>
  BY DEF Lands, Dropped, beliefVars
<1>3. CASE s # k
  <2>1. order'[s] = order[s] /\ op'[s] = op[s] /\ slot'[s] = slot[s]
    BY <1>1, <1>3 DEF Lands, Dropped, Types
  <2>2. QED
    BY <1>1, <1>2, <2>1, SteadyInBounds
<1>4. CASE s = k
  <2>1. /\ slot[s].age \in 0 .. Grace /\ Blind(s) \in Int /\ Blind(s)' \in Int
        /\ Toward(s, seen) \in Int /\ Toward(s, pos) \in Int /\ Base \in Int
    BY <1>1, Numbers, NextNumbers, BaseFacts
  <2>2. op[s] \in {"plain", "reduce", "cancel"} /\ op'[s] = None
    BY <1>1, <1>4 DEF Lands, Dropped, Types
  <2>3. slot[s].used /\ (op[s] # "cancel" => order[s] = None)
    BY <1>1, <2>2 DEF OutInv, None
  <2>4. /\ Blind(s) = (Toward(s, pos) + Out(order[s], op[s])) - Base
    BY DEF Blind, Reach
  <2>5. ASSUME NEW o, order'[s] = o
        PROVE  Blind(s)' = (Toward(s, pos) + (IF o = "plain" THEN 1 ELSE 0)) - Base
    BY <1>2, <2>2, <2>5 DEF Blind, Reach, Out, None
  <2>6. CASE Lands(k)
    <3>1. /\ order'[s] = CASE op[s] = "cancel" -> None
                           [] op[s] = "reduce" /\ ~Reduces(s, pos) -> None
                           [] OTHER -> op[s]
          /\ slot'[s] = IF op[s] = "cancel" THEN FreeSlot ELSE UsedSlot
      BY <1>1, <1>4, <2>6 DEF Lands, Types
    <3>2. order'[s] = "plain" => op[s] = "plain"
      BY <2>2, <3>1 DEF None
    <3>3. Blind(s)' <= Blind(s)
      BY <2>1, <2>4, <2>5, <3>2 DEF Out
    <3>4. slot'[s].used => slot'[s].age <= slot[s].age
      <4>1. slot'[s].age = 0
        BY <3>1, SlotTypes
      <4>2. QED
        BY <2>1, <4>1, Constants
    <3>5. ~slot'[s].used => op[s] = "cancel"
      BY <3>1, SlotTypes
    <3>6. op'[s] \notin {"cancel", "reduce"}
      BY <2>2 DEF None
    <3>7. QED
      BY <1>1, <1>2, <2>3, <3>3, <3>4, <3>5, <3>6, SameBeliefInBounds
  <2>7. CASE Dropped(k)
    <3>1. order'[s] = order[s] /\ slot'[s] = (IF op[s] = "cancel" THEN slot[s] ELSE FreeSlot)
      BY <1>1, <1>4, <2>7 DEF Dropped, Types
    <3>2. CASE op[s] = "cancel"
      <4>1. Blind(s)' <= Blind(s)
        BY <2>1, <2>4, <2>5, <3>1 DEF Out
      <4>2. slot'[s].age <= slot[s].age /\ slot'[s].used
        BY <2>1, <2>3, <3>1, <3>2, Constants
      <4>3. op'[s] \notin {"cancel", "reduce"}
        BY <2>2 DEF None
      <4>4. QED
        BY <1>1, <1>2, <2>3, <4>1, <4>2, <4>3, SameBeliefInBounds
    <3>3. CASE op[s] = "plain"
      <4>1. order'[s] # "plain"
        BY <2>3, <3>1, <3>3 DEF None
      <4>2. Out(order[s], op[s]) = 1
        BY <3>3 DEF Out
      <4>3. Blind(s)' <= Blind(s) - 1
        BY <2>1, <2>4, <2>5, <4>1, <4>2
      <4>4. ~slot'[s].used
        BY <3>1, <3>3, SlotTypes
      <4>5. op'[s] \notin {"cancel", "reduce"} /\ Blind(s)' <= Blind(s)
        BY <2>1, <2>2, <4>3 DEF None
      <4>6. QED
        BY <1>1, <1>2, <4>3, <4>4, <4>5, SameBeliefInBounds
    <3>4. CASE op[s] = "reduce"
      <4>1. Blind(s)' = Blind(s)
        <5>1. order'[s] # "plain" /\ order[s] # "plain"
          BY <2>3, <3>1, <3>4 DEF None
        <5>2. Out(order[s], op[s]) = 0
          BY <3>4, <5>1 DEF Out
        <5>3. QED
          BY <2>1, <2>4, <2>5, <5>1, <5>2
      <4>2. CASE Toward(s, seen) <= Last
        <5>1. Blind(s)' <= 0
          BY <1>1, <3>4, <4>1, <4>2 DEF InBounds, Window, Timely
        <5>2. QED
          BY <5>1, NothingOutInBounds
      <4>3. CASE ~(Toward(s, seen) <= Last)
        BY <1>1, <1>2, <4>1, <4>3 DEF InBounds, Window
      <4>4. QED
        BY <4>2, <4>3
    <3>5. QED
      BY <2>2, <3>2, <3>3, <3>4
  <2>8. QED
    BY <2>6, <2>7
<1>5. QED
  BY <1>3, <1>4

(* A fill only moves what was counted already.                             *)
LEMMA FillInBounds ==
    ASSUME CycleInv, Types', NEW k \in Sides, Fill(k), NEW s \in Sides
    PROVE  InBounds(s)'
<1>1. Types /\ OutInv /\ InBounds(s) /\ pos \in Int
  BY Constants DEF CycleInv, Types, Prices
<1>2. UNCHANGED <<op, slot, seen, age, capital, warm>> /\ pos' = pos + Sign(k)
  BY DEF Fill, hotVars
<1>3. /\ slot[s].used \in BOOLEAN /\ slot[s].age \in 0 .. Grace /\ Blind(s) \in Int
      /\ Blind(s)' \in Int /\ Toward(s, pos) \in Int /\ Base \in Nat
  BY <1>1, Numbers, NextNumbers, BaseFacts
<1>4. Blind(s) = (Toward(s, pos) + Out(order[s], op[s])) - Base
  BY DEF Blind, Reach
<1>5. ASSUME NEW o, order'[s] = o, NEW t, Toward(s, pos') = t
      PROVE  Blind(s)' = (t + Out(o, op[s])) - Base
  BY <1>2, <1>5 DEF Blind, Reach, Out, Toward
<1>6. ASSUME Blind(s)' <= Blind(s) PROVE InBounds(s)'
  BY <1>1, <1>2, <1>3, <1>6, SameBeliefInBounds
<1>7. CASE s # k
  <2>1. order'[s] = order[s]
    BY <1>1, <1>7 DEF Fill, Types
  <2>2. Toward(s, pos') = Toward(s, pos) - 1
    BY <1>1, <1>2, <1>7, SideFacts
  <2>3. Blind(s)' = ((Toward(s, pos) - 1) + Out(order[s], op[s])) - Base
    BY <1>5, <2>1, <2>2
  <2>4. Out(order[s], op[s]) \in 0 .. 1
    BY DEF Out
  <2>5. QED
    BY <1>3, <1>4, <1>6, <2>3, <2>4
<1>8. CASE s = k
  <2>1. order[s] \in {"plain", "reduce"} /\ order'[s] = None
    BY <1>1, <1>8 DEF Fill, Types
  <2>2. op[s] # "plain"
    BY <1>1, <2>1 DEF OutInv, None
  <2>3. Toward(s, pos') = Toward(s, pos) + 1
    BY <1>1, <1>2, <1>8, SideFacts
  <2>4. Out(None, op[s]) = 0
    BY <2>2 DEF Out, None
  <2>5. Blind(s)' = ((Toward(s, pos) + 1) + 0) - Base
    BY <1>5, <2>1, <2>3, <2>4
  <2>6. CASE order[s] = "plain"
    <3>1. Out(order[s], op[s]) = 1
      BY <2>6 DEF Out
    <3>2. QED
      BY <1>3, <1>4, <1>6, <2>5, <3>1
  <2>7. CASE order[s] = "reduce"
    <3>1. Toward(s, pos) < 0
      BY <1>1, <2>7 DEF OutInv
    <3>2. Blind(s)' <= 0
      BY <1>3, <2>5, <3>1
    <3>3. QED
      BY <3>2, NothingOutInBounds
  <2>8. QED
    BY <2>1, <2>6, <2>7
<1>9. QED
  BY <1>7, <1>8

-----------------------------------------------------------------------------
(* THE INVARIANT AND THE BOUND                                             *)

LEMMA InitInv == ASSUME Regular, Init PROVE CycleInv
<1>1. /\ MaxLong \in Nat /\ MaxShort \in Nat /\ Fallback \in Nat \ {0} /\ Warmup \in Nat
      /\ MaxStream \in Nat /\ Base \in Nat /\ BlindRounds \in Nat
  BY Constants, BaseFacts, RoundsFacts
<1>2. Types
  <2>1. 0 \in Prices
    BY <1>1 DEF Prices
  <2>2. age \in 0 .. Fallback /\ warm \in 0 .. Warmup
    BY <1>1 DEF Init
  <2>3. stream \in Seq(MessageType)
    BY DEF Init
  <2>4. slot \in [Sides -> SlotType] /\ poller \in PollerType
    BY SlotTypes, PollerTypes DEF Init
  <2>5. QED
    BY <2>1, <2>2, <2>3, <2>4 DEF Init, Types
<1>3. OutInv
  BY SlotTypes DEF Init, OutInv, None
<1>4. IdleInv
  BY SlotTypes DEF Init, IdleInv
<1>5. StreamInv
  BY <1>1 DEF Init, StreamInv
<1>6. PollInv
  BY PollerTypes DEF Init, PollInv
<1>7. ASSUME NEW s \in Sides PROVE InBounds(s)
  <2>1. /\ slot[s].used \in BOOLEAN /\ slot[s].age \in 0 .. Grace
        /\ Blind(s) \in Int /\ age \in Nat /\ warm \in Nat
    BY <1>2, Numbers
  <2>2. pos = 0 /\ Toward(s, pos) = 0
    <3>1. pos = 0 /\ 0 \in Int
      BY DEF Init
    <3>2. QED
      BY <3>1, SideFacts
  <2>3. Reach(s) = 0
    BY <2>2 DEF Init, Reach, Out, None
  <2>4. Blind(s) <= 0
    BY <1>1, <2>3 DEF Blind
  <2>5. Timely(slot[s].used, slot[s].age, op[s], Blind(s), age, warm)
    BY <2>1, <2>4, NothingIsTimely
  <2>6. ~(Blind(s) >= 1) /\ Blind(s) <= BlindRounds
    BY <1>1, <2>1, <2>4
  <2>7. QED
    BY <2>5, <2>6 DEF InBounds, Window
<1>8. QED
  BY <1>2, <1>3, <1>4, <1>5, <1>6, <1>7 DEF CycleInv

LEMMA BoundsStep ==
    ASSUME Regular, CycleInv, [Next]_vars, Types', NEW s \in Sides
    PROVE  InBounds(s)'
<1>1. Types /\ IdleInv /\ InBounds(s)
  BY DEF CycleInv
<1>2. CASE UNCHANGED <<pos, order, op, slot, seen, age, capital, warm>>
  BY <1>1, <1>2, SteadyInBounds
<1>3. CASE \E c \in Capitals : UserStats(c)
  <2>1. UNCHANGED <<pos, order, op>>
    BY <1>3 DEF UserStats, exchangeVars
  <2>2. capital <= 0
    <3>1. capital' = TheCapital /\ capital' # capital
      BY <1>3 DEF UserStats, Regular
    <3>2. QED
      BY <1>1, <3>1 DEF Types
  <2>3. pos = 0 /\ order[s] = None /\ op[s] = None
    BY <1>1, <2>2 DEF IdleInv
  <2>4. Reach(s)' = 0
    <3>1. Toward(s, pos) = 0
      BY <2>3, SideFacts
    <3>2. QED
      BY <2>1, <2>3, <3>1 DEF Reach, Out, None
  <2>5. Blind(s)' <= 0
    BY <2>4, BaseFacts DEF Blind
  <2>6. QED
    BY <2>5, NothingOutInBounds
<1>4. (\/ UNCHANGED vars \/ Connect \/ Disconnect \/ Poll \/ (\E ok \in BOOLEAN : AskPosition(ok))
       \/ HoldEnds) => UNCHANGED <<pos, order, op, slot, seen, age, capital, warm>>
  BY DEF vars, Connect, Disconnect, Poll, AskPosition, HoldEnds, exchangeVars, beliefVars,
         hotVars, pollVars
<1>5. CASE AccountAll \/ SetPosition
  BY <1>5, BeliefInBounds
<1>6. CASE Period
  BY <1>6, PeriodInBounds
<1>7. CASE Reconcile
  BY <1>7, ReconcileInBounds
<1>8. CASE \E known \in SUBSET Sides : MaybeQuote(known)
  BY <1>8, QuotingInBounds
<1>9. CASE ResetCalc
  BY <1>9, ResetInBounds
<1>10. CASE \E k \in Sides : Lands(k) \/ Dropped(k)
  BY <1>10, OpInBounds
<1>11. CASE \E k \in Sides : Fill(k)
  BY <1>11, FillInBounds
<1>12. QED
  BY <1>2, <1>3, <1>4, <1>5, <1>6, <1>7, <1>8, <1>9, <1>10, <1>11 DEF Next, Position, Land

LEMMA InvStep == ASSUME Regular, CycleInv, [Next]_vars PROVE CycleInv'
<1>1. Types /\ OutInv /\ IdleInv /\ StreamInv /\ PollInv
  BY DEF CycleInv
<1>2. Types'
  BY <1>1, TypesStep
<1>3. OutInv' /\ IdleInv' /\ StreamInv' /\ PollInv'
  BY <1>1, OutStep, IdleStep, StreamStep, PollStep
<1>4. \A s \in Sides : InBounds(s)'
  BY <1>2, BoundsStep
<1>5. QED
  BY <1>2, <1>3, <1>4 DEF CycleInv

(* Rounds of unreported orders on one belief are a grace apart, whatever   *)
(* the stream, the poller, the sender and the exchange do.                 *)
THEOREM CycleInvariantHolds ==
    ASSUME Regular
    PROVE  Spec => []CycleInv
<1>1. Init => CycleInv
  BY InitInv
<1>2. CycleInv /\ [Next]_vars => CycleInv'
  BY InvStep
<1>3. QED
  BY <1>1, <1>2, PTL DEF Spec

LEMMA BoundFollows == ASSUME CycleInv PROVE ExposureIsBounded
<1>1. Types
  BY DEF CycleInv
<1>2. /\ Base = Last + 1 + Missed /\ Last \in Int /\ Missed \in Nat
      /\ BlindRounds \in Nat /\ pos \in Int
  BY <1>1, BaseFacts, Constants, RoundsFacts DEF Types, Prices
<1>3. ASSUME NEW s \in Sides PROVE Toward(s, pos) <= Last + 1 + BlindRounds + Missed
  <2>1. Blind(s) <= BlindRounds /\ Blind(s) \in Int /\ Toward(s, pos) \in Int
    BY <1>1, Numbers DEF CycleInv, InBounds
  <2>2. Reach(s) >= Toward(s, pos) /\ Reach(s) \in Int
    BY <2>1 DEF Reach, Out
  <2>3. Blind(s) = Reach(s) - Base
    BY DEF Blind
  <2>4. QED
    BY <1>2, <2>1, <2>2, <2>3
<1>4. pos <= Last + 1 + BlindRounds + Missed
  <2>1. "buy" \in Sides /\ Toward("buy", pos) = pos
    BY DEF Sides, Toward
  <2>2. QED
    BY <1>3, <2>1
<1>5. -pos <= Last + 1 + BlindRounds + Missed
  <2>1. "sell" \in Sides /\ Toward("sell", pos) = -pos
    BY DEF Sides, Toward
  <2>2. QED
    BY <1>3, <2>1
<1>6. Abs(pos) <= LastAdding(TheCapital) + 1 + BlindRounds + Missed
  BY <1>2, <1>4, <1>5 DEF Abs, Last
<1>7. QED
  BY <1>6, Constants DEF ExposureIsBounded

(* ExposureIsBounded, for every limit, grace, fallback, warm-up and length *)
(* of the stream: however often the account stream fails, the position of  *)
(* maybe_quote's orders stays within what is placed on one belief.         *)
THEOREM ExposureStaysBounded ==
    ASSUME Regular
    PROVE  Spec => []ExposureIsBounded
<1>1. CycleInv => ExposureIsBounded
  BY BoundFollows
<1>2. QED
  BY <1>1, CycleInvariantHolds, PTL

-----------------------------------------------------------------------------
(* THE LADDER                                                              *)
(*                                                                         *)
(* Both sides of the book are one: a sell price is looked at as the        *)
(* negated price of a buy, so that ceil_tick is floor_tick and away from   *)
(* the mid is down (Toward).                                               *)

(* Side s of a level.                                                      *)
Offers(ladder, s, l) == IF s = "buy" THEN ladder[l].bid ELSE ladder[l].ask

OnGrid(x) == \E j \in Int : x = j * Tick

(* A quote seen from its side, where passive means below the mid: the      *)
(* first level, further levels, the exit bias.  m is the mid, w its        *)
(* minimal half spread.                                                    *)
First(m, fair, depth, w) ==
    FloorTick(AtMost(Basis * (Unit * fair - depth), Unit * (Basis * m - w)), Unit * Basis)
Wider(m, b, factor) == FloorTick(m - (m - b) * factor, 1)
Moved(m, b, percent) == FloorTick(100 * m - Biased(m - b, percent), 100)

LEMMA QuoteConstants ==
    /\ Tick \in Nat \ {0} /\ Basis \in Nat \ {0} /\ MinHalfSpread \in Nat
    /\ FallbackDepth \in Nat \ {0} /\ SpreadFactor \in Nat \ {0} /\ MinHalfSpread < Basis
    /\ Skew \in Nat /\ MinRatio \in Nat /\ ExitTighten \in Nat /\ MaxExitTighten \in Nat
    /\ AddWiden \in Nat /\ MaxAddWiden \in Nat
BY QuotesAssumption DEF QuotesAssumption

LEMMA Products ==
    ASSUME NEW a \in Int, NEW b \in Int, NEW c \in Nat
    PROVE  /\ a * c \in Int
           /\ a <= b => a * c <= b * c
           /\ c > 0 /\ a * c <= b * c => a <= b
           /\ c > 0 /\ a * c < b * c => a < b
           /\ c > 0 /\ a < b => a * c < b * c
<1>1. a * c \in Int /\ b * c \in Int
  OBVIOUS
<1>2. ASSUME NEW x \in Int, NEW y \in Int, x <= y PROVE x * c <= y * c
  <2>1. (y - x) * c >= 0 /\ (y - x) * c = y * c - x * c
    BY <1>2
  <2>2. QED
    BY <2>1
<1>3. ASSUME NEW x \in Int, NEW y \in Int, x < y, c > 0 PROVE x * c < y * c
  <2>1. (y - x) * c > 0 /\ (y - x) * c = y * c - x * c
    BY <1>3
  <2>2. QED
    BY <2>1
<1>4. c > 0 /\ a * c <= b * c => a <= b
  <2>1. SUFFICES ASSUME c > 0, a * c <= b * c, b < a PROVE FALSE
    OBVIOUS
  <2>2. b * c < a * c
    BY <1>3, <2>1
  <2>3. QED
    BY <1>1, <2>1, <2>2
<1>5. c > 0 /\ a * c < b * c => a < b
  <2>1. SUFFICES ASSUME c > 0, a * c < b * c, b <= a PROVE FALSE
    OBVIOUS
  <2>2. b * c <= a * c
    BY <1>2, <2>1
  <2>3. QED
    BY <1>1, <2>1, <2>2
<1>6. QED
  BY <1>1, <1>2, <1>3, <1>4, <1>5

(* floor_tick: the largest price of the grid that is not above.            *)
LEMMA FloorFacts ==
    ASSUME NEW num \in Int, NEW den \in Nat \ {0}
    PROVE  /\ FloorTick(num, den) \in Int /\ OnGrid(FloorTick(num, den))
           /\ FloorTick(num, den) * den <= num
           /\ \A x \in Int : OnGrid(x) /\ x * den <= num => x <= FloorTick(num, den)
<1> DEFINE g == den * Tick
           q == num \div g
<1>1. Tick \in Nat \ {0} /\ g \in Nat \ {0}
  <2>1. Tick \in Nat \ {0}
    BY QuoteConstants
  <2>2. 0 * Tick < den * Tick
    BY <2>1, Products
  <2>3. QED
    BY <2>1, <2>2
<1>2. q \in Int /\ q * g <= num /\ num < q * g + g
  <2> HIDE DEF g
  <2>1. QED
    BY <1>1
<1>3. FloorTick(num, den) = q * Tick
  BY DEF FloorTick
<1> HIDE DEF q
<1>4. (q * Tick) * den = q * g
  BY <1>1, <1>2
<1>5. q * Tick \in Int /\ OnGrid(q * Tick)
  BY <1>1, <1>2 DEF OnGrid
<1>6. ASSUME NEW x \in Int, OnGrid(x), x * den <= num PROVE x <= q * Tick
  <2>1. PICK j \in Int : x = j * Tick
    BY <1>6 DEF OnGrid
  <2>2. x * den = j * g
    BY <1>1, <2>1
  <2>3. j <= q
    <3>1. SUFFICES ASSUME q + 1 <= j PROVE FALSE
      BY <1>2
    <3>2. (q + 1) * g <= j * g
      <4> HIDE DEF g
      <4>1. QED
        BY <1>1, <1>2, <3>1, Products
    <3>3. (q + 1) * g = q * g + g
      BY <1>1, <1>2
    <3>4. q * g \in Int /\ j * g \in Int
      BY <1>1, <1>2
    <3> HIDE DEF g
    <3>5. QED
      BY <1>1, <1>2, <1>6, <2>2, <3>2, <3>3, <3>4
  <2>4. QED
    BY <1>1, <1>2, <2>1, <2>3, Products
<1>7. QED
  BY <1>2, <1>3, <1>4, <1>5, <1>6

LEMMA FloorGrows ==
    ASSUME NEW x \in Int, NEW y \in Int, NEW den \in Nat \ {0}, x <= y
    PROVE  FloorTick(x, den) <= FloorTick(y, den)
<1>1. /\ FloorTick(x, den) \in Int /\ OnGrid(FloorTick(x, den)) /\ FloorTick(x, den) * den <= x
      /\ FloorTick(x, den) * den \in Int
  BY FloorFacts
<1>2. FloorTick(x, den) * den <= y
  BY <1>1
<1>3. QED
  BY <1>1, <1>2, FloorFacts

(* The first level: below the mid by the minimal half spread, on the grid, *)
(* and further away with more depth.                                       *)
LEMMA FirstFacts ==
    ASSUME NEW m \in Int, NEW fair \in Int, NEW d \in Int, NEW w \in Nat \ {0}
    PROVE  /\ First(m, fair, d, w) \in Int /\ OnGrid(First(m, fair, d, w))
           /\ First(m, fair, d, w) < m
           /\ w >= Tick * Basis => First(m, fair, d, w) <= m - Tick
           /\ \A e \in Int : d <= e => First(m, fair, e, w) <= First(m, fair, d, w)
<1> DEFINE near == Unit * (Basis * m - w)
           Far(e) == Basis * (Unit * fair - e)
           den == Unit * Basis
           b == First(m, fair, d, w)
<1>1. Basis \in Nat \ {0} /\ Tick \in Nat \ {0} /\ den \in Nat \ {0}
  BY QuoteConstants DEF Unit
<1>2. near \in Int /\ \A e \in Int : Far(e) \in Int
  BY <1>1 DEF Unit
<1>3. \A e \in Int : First(m, fair, e, w) = FloorTick(AtMost(Far(e), near), den)
  BY DEF First
<1>4. \A e \in Int : AtMost(Far(e), near) \in Int /\ AtMost(Far(e), near) <= near
  <2> HIDE DEF near, Far
  <2>1. QED
    BY <1>2 DEF AtMost
<1>5. b \in Int /\ OnGrid(b) /\ b * den <= near
  <2> DEFINE x == AtMost(Far(d), near)
  <2>1. x \in Int /\ x <= near /\ b = FloorTick(x, den)
    BY <1>3, <1>4
  <2> HIDE DEF x, near, den, b
  <2>2. b \in Int /\ OnGrid(b) /\ b * den <= x /\ b * den \in Int
    BY <1>1, <2>1, FloorFacts
  <2>3. QED
    BY <1>2, <2>1, <2>2
<1>6. b * Basis <= Basis * m - w
  <2>1. b * Basis \in Int /\ Basis * m - w \in Int
    BY <1>1, <1>5
  <2>2. (b * Basis) * 10000 <= (Basis * m - w) * 10000
    <3>1. b * den = (b * Basis) * 10000 /\ near = (Basis * m - w) * 10000
      BY <1>1, <1>5, <2>1 DEF Unit
    <3>2. QED
      BY <1>5, <3>1
  <2>3. QED
    BY <2>1, <2>2
<1>7. b < m
  <2>1. b * Basis < m * Basis
    <3>1. Basis * m = m * Basis /\ m * Basis \in Int /\ b * Basis \in Int
      BY <1>1, <1>5
    <3>2. QED
      BY <1>6, <3>1
  <2>2. QED
    BY <1>1, <1>5, <2>1, Products
<1>8. ASSUME w >= Tick * Basis PROVE b <= m - Tick
  <2>1. b * Basis <= (m - Tick) * Basis
    <3>1. (m - Tick) * Basis = Basis * m - Tick * Basis /\ Basis * m \in Int /\ Tick * Basis \in Int
          /\ b * Basis \in Int
      BY <1>1, <1>5
    <3>2. QED
      BY <1>6, <1>8, <3>1
  <2>2. QED
    BY <1>1, <1>5, <2>1, Products
<1>9. ASSUME NEW e \in Int, d <= e PROVE First(m, fair, e, w) <= b
  <2>1. Far(e) <= Far(d)
    <3>1. (Unit * fair - e) * Basis <= (Unit * fair - d) * Basis
      <4>1. Unit * fair \in Int
        BY DEF Unit
      <4>2. Unit * fair - e \in Int /\ Unit * fair - d \in Int /\ Unit * fair - e <= Unit * fair - d
        BY <1>9, <4>1
      <4>3. QED
        BY <1>1, <4>2, Products
    <3>2. (Unit * fair - e) * Basis = Far(e) /\ (Unit * fair - d) * Basis = Far(d)
      BY <1>1 DEF Unit
    <3>3. QED
      BY <3>1, <3>2
  <2>2. AtMost(Far(e), near) <= AtMost(Far(d), near)
    <3>1. Far(e) \in Int /\ Far(d) \in Int
      BY <1>2
    <3> HIDE DEF near, Far
    <3>2. QED
      BY <1>2, <2>1, <3>1 DEF AtMost
  <2>3. QED
    BY <1>1, <1>3, <1>4, <2>2, FloorGrows
<1>10. QED
  BY <1>5, <1>7, <1>8, <1>9

(* A further level.                                                        *)
LEMMA WiderFacts ==
    ASSUME NEW m \in Int, NEW b \in Int, NEW f \in Nat \ {0}, b < m
    PROVE  /\ Wider(m, b, f) \in Int /\ OnGrid(Wider(m, b, f))
           /\ Wider(m, b, f) <= b
           /\ \A c \in Int : b <= c => Wider(m, b, f) <= Wider(m, c, f)
           /\ \A g \in Nat \ {0} : f <= g => Wider(m, b, g) <= Wider(m, b, f)
<1>1. \A c \in Int, g \in Nat : m - (m - c) * g \in Int
  OBVIOUS
<1>2. /\ Wider(m, b, f) \in Int /\ OnGrid(Wider(m, b, f))
      /\ Wider(m, b, f) <= m - (m - b) * f
  <2>1. 1 \in Nat \ {0} /\ m - (m - b) * f \in Int
    BY <1>1
  <2>2. /\ Wider(m, b, f) \in Int /\ OnGrid(Wider(m, b, f))
        /\ Wider(m, b, f) * 1 <= m - (m - b) * f
    BY <2>1, FloorFacts DEF Wider
  <2>3. QED
    BY <2>2
<1>3. m - (m - b) * f <= b
  <2>1. 1 * (m - b) <= f * (m - b) /\ m - b \in Nat
    BY Products
  <2>2. f * (m - b) = (m - b) * f /\ 1 * (m - b) = m - b /\ (m - b) * f \in Int
    BY <2>1
  <2>3. QED
    BY <2>1, <2>2
<1>4. ASSUME NEW c \in Int, b <= c PROVE Wider(m, b, f) <= Wider(m, c, f)
  <2>1. (m - c) * f <= (m - b) * f
    <3>1. m - c \in Int /\ m - b \in Int /\ m - c <= m - b
      BY <1>4
    <3>2. QED
      BY <3>1, Products
  <2>2. m - (m - b) * f <= m - (m - c) * f /\ m - (m - b) * f \in Int /\ m - (m - c) * f \in Int
    <3>1. (m - c) * f \in Int /\ (m - b) * f \in Int
      OBVIOUS
    <3>2. QED
      BY <2>1, <3>1
  <2>3. 1 \in Nat \ {0}
    OBVIOUS
  <2>4. QED
    BY <2>2, <2>3, FloorGrows DEF Wider
<1>5. ASSUME NEW g \in Nat \ {0}, f <= g PROVE Wider(m, b, g) <= Wider(m, b, f)
  <2>1. f * (m - b) <= g * (m - b) /\ m - b \in Nat
    BY <1>5, Products
  <2>2. f * (m - b) = (m - b) * f /\ g * (m - b) = (m - b) * g
        /\ (m - b) * f \in Int /\ (m - b) * g \in Int
    BY <2>1
  <2>3. m - (m - b) * g <= m - (m - b) * f /\ m - (m - b) * g \in Int /\ m - (m - b) * f \in Int
    BY <2>1, <2>2
  <2>4. 1 \in Nat \ {0}
    OBVIOUS
  <2>5. QED
    BY <2>3, <2>4, FloorGrows DEF Wider
<1>6. QED
  BY <1>2, <1>3, <1>4, <1>5

(* apply_inventory_exit_bias on one price: widened it is not closer to the *)
(* mid, tightened not further away if it was a tick away on the grid.      *)
LEMMA MovedFacts ==
    ASSUME NEW m \in Int, NEW b \in Int, NEW p \in Nat \ {0}, b < m
    PROVE  /\ Moved(m, b, p) \in Int
           /\ Moved(m, b, p) < m
           /\ \A c \in Int : b <= c => Moved(m, b, p) <= Moved(m, c, p)
           /\ p >= 100 => Moved(m, b, p) <= b
           /\ p <= 100 /\ b <= m - Tick /\ OnGrid(b) => b <= Moved(m, b, p)
<1> DEFINE Deep(c) == AtLeast(m - c, Tick)
<1>1. Tick \in Nat \ {0} /\ 100 \in Nat \ {0}
  BY QuoteConstants
<1>2. \A c \in Int : Deep(c) \in Nat \ {0} /\ Deep(c) >= m - c /\ Deep(c) >= Tick
  BY <1>1 DEF AtLeast
<1>3. \A c \in Int : b <= c => Deep(c) <= Deep(b)
  BY <1>1 DEF AtLeast
<1>4. b <= m - Tick => Deep(b) = m - b
  BY <1>1 DEF AtLeast
<1>5. \A c \in Int : Moved(m, c, p) = FloorTick(100 * m - Deep(c) * p, 100)
  BY DEF Moved, Biased
<1> HIDE DEF Deep
<1>6. \A c \in Int : Deep(c) * p \in Int /\ 100 * m - Deep(c) * p \in Int
  BY <1>2
<1>7. Moved(m, b, p) \in Int /\ Moved(m, b, p) * 100 <= 100 * m - Deep(b) * p
  BY <1>1, <1>5, <1>6, FloorFacts
<1>8. Deep(b) * p > 0
  <2>1. 0 * p < Deep(b) * p
    BY <1>2, Products
  <2>2. QED
    BY <2>1
<1>9. Moved(m, b, p) < m
  BY <1>6, <1>7, <1>8
<1>10. ASSUME NEW c \in Int, b <= c PROVE Moved(m, b, p) <= Moved(m, c, p)
  <2>1. Deep(c) * p <= Deep(b) * p
    BY <1>2, <1>3, <1>10, Products
  <2>2. 100 * m - Deep(b) * p <= 100 * m - Deep(c) * p
    <3>1. Deep(c) * p \in Int /\ Deep(b) * p \in Int
      BY <1>6
    <3>2. QED
      BY <2>1, <3>1
  <2>3. QED
    BY <1>1, <1>5, <1>6, <2>2, FloorGrows
<1>11. ASSUME p >= 100 PROVE Moved(m, b, p) <= b
  <2>1. (m - b) * 100 <= Deep(b) * 100
    BY <1>2
  <2>2. 100 * Deep(b) <= p * Deep(b)
    BY <1>2, <1>11, Products
  <2>3. p * Deep(b) = Deep(b) * p
    BY <1>2
  <2>4. QED
    BY <1>2, <1>6, <1>7, <2>1, <2>2, <2>3
<1>12. ASSUME p <= 100, b <= m - Tick, OnGrid(b) PROVE b <= Moved(m, b, p)
  <2>1. p * Deep(b) <= 100 * Deep(b)
    BY <1>2, <1>12, Products
  <2>2. p * Deep(b) = Deep(b) * p /\ Deep(b) = m - b
    BY <1>2, <1>4, <1>12
  <2>3. b * 100 <= 100 * m - Deep(b) * p
    BY <1>2, <1>6, <2>1, <2>2
  <2>4. QED
    BY <1>1, <1>5, <1>6, <1>12, <2>3, FloorFacts
<1>13. QED
  BY <1>7, <1>9, <1>10, <1>11, <1>12

(* Level l of a side.                                                      *)
Level(l, m, fair, d, w) ==
    IF l = 1 THEN First(m, fair, d, w)
    ELSE Wider(m, First(m, fair, d, w), SpreadFactors(3)[l])

(* spread_factors do not decrease.                                         *)
LEMMA FactorsFacts ==
    /\ \A l \in 1 .. 3 : SpreadFactors(3)[l] \in Nat \ {0}
    /\ SpreadFactors(3)[2] <= SpreadFactors(3)[3]
<1> DEFINE S == SpreadFactor
           Is(g) == g = [l \in 1 .. 3 |-> IF l = 1 THEN 1 ELSE g[l - 1] * SpreadFactor]
           g0 == [l \in 1 .. 3 |-> IF l = 1 THEN 1 ELSE IF l = 2 THEN S ELSE S * S]
<1>1. S \in Nat \ {0}
  BY QuoteConstants
<1>2. Is(g0)
  <2>1. \A l \in 1 .. 3 : g0[l] = IF l = 1 THEN 1 ELSE g0[l - 1] * SpreadFactor
    <3>1. g0[1] = 1 /\ g0[2] = S /\ g0[3] = S * S
      OBVIOUS
    <3> HIDE DEF g0
    <3>2. \A l \in 1 .. 3 : l = 1 \/ l = 2 \/ l = 3
      OBVIOUS
    <3>3. QED
      BY <1>1, <3>1, <3>2
  <2>2. g0 = [l \in 1 .. 3 |-> g0[l]]
    OBVIOUS
  <2> HIDE DEF g0
  <2>3. QED
    BY <2>1, <2>2
<1>3. SpreadFactors(3) = (CHOOSE g : Is(g))
  BY DEF SpreadFactors
<1>4. Is(SpreadFactors(3))
  <2> HIDE DEF Is, g0
  <2>1. QED
    BY <1>2, <1>3
<1> DEFINE f == SpreadFactors(3)
<1>5. f[1] = 1 /\ f[2] = f[1] * SpreadFactor /\ f[3] = f[2] * SpreadFactor
  <2> HIDE DEF f
  <2>1. f = [l \in 1 .. 3 |-> IF l = 1 THEN 1 ELSE f[l - 1] * SpreadFactor]
    BY <1>4 DEF f
  <2>2. \A l \in 1 .. 3 : f[l] = IF l = 1 THEN 1 ELSE f[l - 1] * SpreadFactor
    BY <2>1
  <2>3. 1 \in 1 .. 3 /\ 2 \in 1 .. 3 /\ 3 \in 1 .. 3
    OBVIOUS
  <2>4. QED
    BY <2>2, <2>3
<1> HIDE DEF f
<1>6. f[1] \in Nat \ {0} /\ f[2] = SpreadFactor /\ f[3] = SpreadFactor * SpreadFactor
  BY <1>1, <1>5
<1>7. 1 * S <= S * S
  BY <1>1, Products
<1>8. f[2] \in Nat \ {0} /\ f[3] \in Nat \ {0} /\ f[2] <= f[3]
  BY <1>1, <1>6, <1>7
<1>9. \A l \in 1 .. 3 : l = 1 \/ l = 2 \/ l = 3
  OBVIOUS
<1>10. QED
  BY <1>6, <1>8, <1>9 DEF f

LEMMA LevelFacts ==
    ASSUME NEW m \in Int, NEW fair \in Int, NEW d \in Int, NEW w \in Nat \ {0}, NEW l \in 1 .. 3
    PROVE  /\ Level(l, m, fair, d, w) \in Int /\ OnGrid(Level(l, m, fair, d, w))
           /\ Level(l, m, fair, d, w) < m
           /\ w >= Tick * Basis => Level(l, m, fair, d, w) <= m - Tick
           /\ \A k \in l .. 3 : Level(k, m, fair, d, w) <= Level(l, m, fair, d, w)
           /\ \A e \in Int : d <= e => Level(l, m, fair, e, w) <= Level(l, m, fair, d, w)
<1> DEFINE f == SpreadFactors(3)
           F(e) == First(m, fair, e, w)
<1>1. Tick \in Nat \ {0} /\ f[1] \in Nat \ {0} /\ f[2] \in Nat \ {0} /\ f[3] \in Nat \ {0} /\ f[2] <= f[3]
  BY QuoteConstants, FactorsFacts
<1>2. \A e \in Int : /\ F(e) \in Int /\ OnGrid(F(e)) /\ F(e) < m
                     /\ w >= Tick * Basis => F(e) <= m - Tick
                     /\ d <= e => F(e) <= F(d)
  BY FirstFacts
<1>3. \A k \in 1 .. 3, e \in Int : Level(k, m, fair, e, w) = IF k = 1 THEN F(e) ELSE Wider(m, F(e), f[k])
  BY DEF Level
<1> HIDE DEF F, f
<1>4. \A k \in 1 .. 3 : f[k] \in Nat \ {0}
  BY <1>1, FactorsFacts DEF f
<1>5. \A k \in 1 .. 3, e \in Int : /\ Wider(m, F(e), f[k]) \in Int /\ OnGrid(Wider(m, F(e), f[k]))
                                   /\ Wider(m, F(e), f[k]) <= F(e)
  BY <1>2, <1>4, WiderFacts
<1>6. Level(l, m, fair, d, w) \in Int /\ OnGrid(Level(l, m, fair, d, w)) /\ Level(l, m, fair, d, w) <= F(d)
  <2>1. CASE l = 1
    BY <1>2, <1>3, <2>1
  <2>2. CASE l # 1
    BY <1>3, <1>5, <2>2
  <2>3. QED
    BY <2>1, <2>2
<1>7. Level(l, m, fair, d, w) < m
  BY <1>2, <1>6
<1>8. w >= Tick * Basis => Level(l, m, fair, d, w) <= m - Tick
  BY <1>1, <1>2, <1>6
<1>9. ASSUME NEW k \in l .. 3 PROVE Level(k, m, fair, d, w) <= Level(l, m, fair, d, w)
  <2>1. k \in 1 .. 3 /\ F(d) \in Int /\ F(d) < m
    BY <1>2
  <2>2. CASE l = k
    BY <1>6, <2>2
  <2>3. CASE l = 1 /\ k # 1
    BY <1>3, <1>5, <2>1, <2>3
  <2>4. CASE l = 2 /\ k = 3
    <3>1. Wider(m, F(d), f[3]) <= Wider(m, F(d), f[2])
      BY <1>1, <2>1, WiderFacts
    <3>2. QED
      BY <1>3, <2>4, <3>1
  <2>5. QED
    BY <2>1, <2>2, <2>3, <2>4
<1>10. ASSUME NEW e \in Int, d <= e PROVE Level(l, m, fair, e, w) <= Level(l, m, fair, d, w)
  <2>1. F(e) \in Int /\ F(d) \in Int /\ F(e) <= F(d) /\ F(e) < m
    BY <1>2, <1>10
  <2>2. CASE l = 1
    BY <1>3, <2>1, <2>2
  <2>3. CASE l # 1
    <3>1. Wider(m, F(e), f[l]) <= Wider(m, F(d), f[l])
      BY <1>4, <2>1, WiderFacts
    <3>2. QED
      BY <1>3, <2>3, <3>1
  <2>4. QED
    BY <2>2, <2>3
<1>11. QED
  BY <1>6, <1>7, <1>8, <1>9, <1>10

(* The share of the limit in use has the sign of the position, and the     *)
(* skew follows it: more depth on the side that adds, less on the other.   *)
LEMMA SkewFacts ==
    ASSUME NEW mid \in Nat \ {0}, NEW half \in Nat, NEW p \in Int, NEW maxPos \in Nat
    PROVE  LET n == NormPos(mid, p, maxPos)
           IN  /\ n \in Int
               /\ SkewedDepth(half, n) \in Int /\ SkewedDepth(half, -n) \in Int
               /\ SkewedDepth(half, 0) \in Int
               /\ p = 0 => n = 0
               /\ p >= 0 => /\ SkewedDepth(half, 0) <= SkewedDepth(half, n)
                            /\ SkewedDepth(half, -n) <= SkewedDepth(half, 0)
               /\ p <= 0 => /\ SkewedDepth(half, n) <= SkewedDepth(half, 0)
                            /\ SkewedDepth(half, 0) <= SkewedDepth(half, -n)
<1> DEFINE n == NormPos(mid, p, maxPos)
           y == 1000 * p * mid
           q == y \div maxPos
<1>1. n \in Int /\ (p >= 0 => n >= 0) /\ (p <= 0 => n <= 0)
  <2>1. CASE maxPos <= 0
    BY <2>1 DEF NormPos
  <2>2. CASE maxPos > 0
    <3>1. y \in Int /\ (p >= 0 => y >= 0) /\ (p <= 0 => y <= 0)
      <4>1. (1000 * p) * mid \in Int
        OBVIOUS
      <4>2. p >= 0 => 0 * mid <= (1000 * p) * mid
        BY Products
      <4>3. p <= 0 => (1000 * p) * mid <= 0 * mid
        BY Products
      <4>4. QED
        BY <4>1, <4>2, <4>3
    <3>2. n = AtLeast(-100, AtMost(100, q))
      BY <2>2 DEF NormPos
    <3> HIDE DEF y
    <3>3. q \in Int /\ q * maxPos <= y /\ y < q * maxPos + maxPos
      BY <2>2, <3>1
    <3> HIDE DEF q
    <3>4. y >= 0 => q >= 0
      <4>1. SUFFICES ASSUME y >= 0, q + 1 <= 0 PROVE FALSE
        BY <3>3
      <4>2. (q + 1) * maxPos <= 0 * maxPos
        BY <3>3, <4>1, Products
      <4>3. (q + 1) * maxPos = q * maxPos + maxPos /\ 0 * maxPos = 0 /\ q * maxPos \in Int
        BY <3>3
      <4>4. QED
        BY <3>1, <3>3, <4>1, <4>2, <4>3
    <3>5. y <= 0 => q <= 0
      <4>1. SUFFICES ASSUME y <= 0, 1 <= q PROVE FALSE
        BY <3>3
      <4>2. 1 * maxPos <= q * maxPos
        BY <3>3, <4>1, Products
      <4>3. q * maxPos \in Int
        BY <3>3
      <4>4. QED
        BY <2>2, <3>1, <3>3, <4>1, <4>2, <4>3
    <3>6. QED
      BY <3>1, <3>2, <3>3, <3>4, <3>5 DEF AtLeast, AtMost
  <2>3. QED
    BY <2>1, <2>2
<1> HIDE DEF n
<1> DEFINE Raw(k) == half * (Unit + Skew * k)
<1>2. Skew \in Nat
  BY QuoteConstants
<1>3. \A k \in Int : Raw(k) \in Int /\ SkewedDepth(half, k) = AtLeast(0, Raw(k))
  BY <1>2 DEF SkewedDepth, Unit
<1>4. \A k \in Int : SkewedDepth(half, k) \in Int
  <2> HIDE DEF Raw
  <2>1. QED
    BY <1>3 DEF AtLeast
<1>5. ASSUME NEW j \in Int, NEW k \in Int, j <= k
      PROVE  SkewedDepth(half, j) <= SkewedDepth(half, k)
  <2>1. j * Skew <= k * Skew
    BY <1>2, <1>5, Products
  <2>2. Unit + Skew * j \in Int /\ Unit + Skew * k \in Int /\ Unit + Skew * j <= Unit + Skew * k
    <3>1. Skew * j = j * Skew /\ Skew * k = k * Skew /\ j * Skew \in Int /\ k * Skew \in Int
      BY <1>2
    <3>2. QED
      BY <2>1, <3>1 DEF Unit
  <2>3. (Unit + Skew * j) * half <= (Unit + Skew * k) * half
    BY <2>2, Products
  <2>4. (Unit + Skew * j) * half = Raw(j) /\ (Unit + Skew * k) * half = Raw(k)
    <3> DEFINE a == Unit + Skew * j
               b == Unit + Skew * k
    <3> HIDE DEF a, b
    <3>1. a \in Int /\ b \in Int
      BY <2>2 DEF a, b
    <3>2. a * half = half * a /\ b * half = half * b
      BY <3>1
    <3>3. QED
      BY <3>2 DEF a, b
  <2>5. Raw(j) <= Raw(k) /\ Raw(j) \in Int /\ Raw(k) \in Int
    BY <1>3, <2>3, <2>4
  <2> HIDE DEF Raw
  <2>6. QED
    BY <1>3, <2>5 DEF AtLeast
<1>6. -n \in Int /\ 0 \in Int
  BY <1>1
<1>7. p >= 0 => /\ SkewedDepth(half, 0) <= SkewedDepth(half, n)
                /\ SkewedDepth(half, -n) <= SkewedDepth(half, 0)
  BY <1>1, <1>5, <1>6
<1>8. p <= 0 => /\ SkewedDepth(half, n) <= SkewedDepth(half, 0)
                /\ SkewedDepth(half, 0) <= SkewedDepth(half, -n)
  BY <1>1, <1>5, <1>6
<1>9. p = 0 => n = 0
  BY <1>1
<1>10. SkewedDepth(half, n) \in Int /\ SkewedDepth(half, -n) \in Int /\ SkewedDepth(half, 0) \in Int
  BY <1>1, <1>4, <1>6
<1>11. QED
  BY <1>1, <1>7, <1>8, <1>9, <1>10 DEF n

(* The levels of one side before the exit bias.                            *)
LevelOf(s, l, mid, half, drift, p, maxPos) ==
    Level(l, Toward(s, mid), Toward(s, mid + drift),
          SkewedDepth(half, Toward(s, NormPos(mid, p, maxPos))), mid * MinHalfSpread)

(* VolObiCalculator::quote in this view: both sides, and never crossed.    *)
EngineShape(mid, half, drift, p, maxPos) ==
    EngineQuote(TRUE, mid, half, drift, p, maxPos) =
        [bid |-> {LevelOf("buy", 1, mid, half, drift, p, maxPos)},
         ask |-> {-LevelOf("sell", 1, mid, half, drift, p, maxPos)}]

LEMMA EngineSides ==
    ASSUME MinHalfSpread > 0,
           NEW mid \in Nat \ {0}, NEW half \in Nat, NEW drift \in Int, NEW p \in Int, NEW maxPos \in Nat
    PROVE  EngineShape(mid, half, drift, p, maxPos)
<1> DEFINE n == NormPos(mid, p, maxPos)
           w == mid * MinHalfSpread
           fair == mid + drift
           d == SkewedDepth(half, n)
           e == SkewedDepth(half, -n)
           b == First(mid, fair, d, w)
           a == First(-mid, -fair, e, w)
           q == Snap(mid, fair, d, e)
<1>1. Basis \in Nat \ {0} /\ MinHalfSpread \in Nat \ {0} /\ w \in Nat \ {0}
  <2>1. Basis \in Nat \ {0} /\ MinHalfSpread \in Nat \ {0}
    BY QuoteConstants
  <2>2. 0 * MinHalfSpread < mid * MinHalfSpread
    BY <2>1, Products
  <2>3. QED
    BY <2>1, <2>2
<1>2. n \in Int /\ d \in Int /\ e \in Int /\ fair \in Int
  <2>1. fair \in Int
    OBVIOUS
  <2> HIDE DEF w, fair, b, a, q
  <2>2. n \in Int /\ d \in Int /\ e \in Int
    BY SkewFacts
  <2>3. QED
    BY <2>1, <2>2
<1> HIDE DEF n, d, e, fair
<1>3. q.bid = b
  <2>1. Unit * mid * (Basis - MinHalfSpread) = Unit * (Basis * mid - w)
    BY <1>1 DEF Unit
  <2>2. q.bid = FloorTick(AtMost(Basis * (Unit * fair - d), Unit * mid * (Basis - MinHalfSpread)),
                          Unit * Basis)
    BY <1>1 DEF Snap, FloorBid
  <2>3. QED
    BY <2>1, <2>2 DEF First
<1>4. q.ask = -a
  <2> DEFINE x == Basis * (Unit * fair + e)
             y == Unit * mid * (Basis + MinHalfSpread)
             x2 == Basis * (Unit * (-fair) - e)
             y2 == Unit * (Basis * (-mid) - w)
  <2>1. x \in Int /\ y \in Int /\ x2 = -x /\ y2 = -y
    BY <1>1, <1>2 DEF Unit
  <2>2. q.ask = -FloorTick(-AtLeast(x, y), Unit * Basis)
    BY <1>1 DEF Snap, FloorAsk, CeilTick
  <2>3. a = FloorTick(AtMost(x2, y2), Unit * Basis)
    BY DEF First
  <2>4. -AtLeast(x, y) = AtMost(x2, y2)
    <3> HIDE DEF x, y, x2, y2
    <3>1. QED
      BY <2>1 DEF AtLeast, AtMost
  <2>5. QED
    BY <2>2, <2>3, <2>4
<1>5. b \in Int /\ b < mid /\ a \in Int /\ a < -mid
  <2>1. mid \in Int /\ -mid \in Int /\ -fair \in Int
    BY <1>2
  <2> HIDE DEF w
  <2>2. QED
    BY <1>1, <1>2, <2>1, FirstFacts
<1>6. q.bid < q.ask
  BY <1>3, <1>4, <1>5
<1>7. EngineQuote(TRUE, mid, half, drift, p, maxPos) = [bid |-> {q.bid}, ask |-> {q.ask}]
  BY <1>6 DEF EngineQuote, n, d, e, fair
<1>8. LevelOf("buy", 1, mid, half, drift, p, maxPos) = b
  BY DEF LevelOf, Level, Toward, n, d, fair
<1>9. LevelOf("sell", 1, mid, half, drift, p, maxPos) = a
  BY DEF LevelOf, Level, Toward, n, e, fair
<1>10. QED
  BY <1>3, <1>4, <1>7, <1>8, <1>9 DEF EngineShape

(* At the limit the side that adds is silent.                              *)
Silent(s, mid, p, maxPos) == 10 * Abs(p) * mid >= maxPos /\ Toward(s, p) > 0

Built(mid, half, drift, p, maxPos) ==
    BuildQuoteLevels(EngineQuote(TRUE, mid, half, drift, p, maxPos), mid, p, maxPos, 3)

(* build_quote_levels.                                                     *)
BuiltShape(s, l, mid, half, drift, p, maxPos) ==
    Offers(Built(mid, half, drift, p, maxPos), s, l) =
        IF Silent(s, mid, p, maxPos) THEN {}
        ELSE {Toward(s, LevelOf(s, l, mid, half, drift, p, maxPos))}

LEMMA BuiltSides ==
    ASSUME MinHalfSpread > 0,
           NEW mid \in Nat \ {0}, NEW half \in Nat, NEW drift \in Int, NEW p \in Int,
           NEW maxPos \in Nat \ {0}, NEW l \in 1 .. 3, NEW s \in Sides
    PROVE  BuiltShape(s, l, mid, half, drift, p, maxPos)
<1> SUFFICES Offers(Built(mid, half, drift, p, maxPos), s, l) =
             IF Silent(s, mid, p, maxPos) THEN {}
             ELSE {Toward(s, LevelOf(s, l, mid, half, drift, p, maxPos))}
  BY DEF BuiltShape
<1> DEFINE n == NormPos(mid, p, maxPos)
           w == mid * MinHalfSpread
           fair == mid + drift
           d == SkewedDepth(half, n)
           e == SkewedDepth(half, -n)
           b == First(mid, fair, d, w)
           a == First(-mid, -fair, e, w)
           f == SpreadFactors(3)
           l0 == EngineQuote(TRUE, mid, half, drift, p, maxPos)
           built == Built(mid, half, drift, p, maxPos)
           silent == Silent(s, mid, p, maxPos)
           lev == LevelOf(s, l, mid, half, drift, p, maxPos)
<1> SUFFICES Offers(built, s, l) = IF silent THEN {} ELSE {Toward(s, lev)}
  OBVIOUS
<1>1. l0 = [bid |-> {b}, ask |-> {-a}]
  <2>1. LevelOf("buy", 1, mid, half, drift, p, maxPos) = b
    BY DEF LevelOf, Level, Toward
  <2>2. LevelOf("sell", 1, mid, half, drift, p, maxPos) = a
    BY DEF LevelOf, Level, Toward
  <2>3. EngineShape(mid, half, drift, p, maxPos)
    BY EngineSides
  <2> HIDE DEF a, b
  <2>4. QED
    BY <2>1, <2>2, <2>3 DEF EngineShape
<1>2. MinHalfSpread \in Nat \ {0} /\ w \in Nat \ {0} /\ f[l] \in Nat \ {0}
  <2>1. MinHalfSpread \in Nat \ {0} /\ f[l] \in Nat \ {0}
    BY QuoteConstants, FactorsFacts
  <2>2. 0 * MinHalfSpread < mid * MinHalfSpread
    BY <2>1, Products
  <2>3. QED
    BY <2>1, <2>2
<1>3. n \in Int /\ d \in Int /\ e \in Int /\ fair \in Int /\ -fair \in Int /\ -mid \in Int
  BY SkewFacts
<1>4. a \in Int /\ b \in Int
  <2> HIDE DEF w, n, d, e, fair
  <2>1. mid \in Int
    OBVIOUS
  <2>2. QED
    BY <1>2, <1>3, <2>1, FirstFacts
<1> DEFINE full == 10 * Abs(p) * mid >= maxPos
           first == Suppressed(l0, mid, p, maxPos)
<1>5. /\ first.bid = IF full /\ p > 0 THEN {} ELSE {b}
      /\ first.ask = IF full /\ p < 0 THEN {} ELSE {-a}
  <2> HIDE DEF a, b, l0
  <2>1. l0.bid = {b} /\ l0.ask = {-a}
    BY <1>1
  <2>2. QED
    BY <2>1 DEF Suppressed
<1> HIDE DEF first
<1>6. built[l] = IF l = 1 THEN first
                 ELSE [bid |-> {FloorTick(mid - (mid - x) * f[l], 1) : x \in first.bid},
                       ask |-> {CeilTick(mid + (x - mid) * f[l], 1) : x \in first.ask}]
  <2>1. l0 # NoLevel
    <3> HIDE DEF a, b, l0
    <3>1. l0.bid # NoLevel.bid
      BY <1>1 DEF NoLevel
    <3>2. QED
      BY <3>1
  <2> HIDE DEF l0, f
  <2>2. ~(l0 = NoLevel \/ maxPos <= 0)
    BY <2>1
  <2>3. built = BuildQuoteLevels(l0, mid, p, maxPos, 3)
    BY DEF Built, l0
  <2>4. QED
    BY <2>2, <2>3 DEF BuildQuoteLevels, first, f
<1>7. CASE s = "buy"
  <2>1. silent <=> full /\ p > 0
    BY <1>7 DEF Silent, Toward
  <2>2. lev = IF l = 1 THEN b ELSE Wider(mid, b, f[l])
    BY <1>7 DEF LevelOf, Toward, Level
  <2>3. Offers(built, s, l) = built[l].bid /\ Toward(s, lev) = lev
    BY <1>7 DEF Offers, Toward
  <2> HIDE DEF silent, lev, built, b, full, f
  <2>4. CASE l = 1
    BY <1>5, <1>6, <2>1, <2>2, <2>3, <2>4
  <2>5. CASE l # 1
    <3>1. built[l].bid = {Wider(mid, x, f[l]) : x \in first.bid}
      BY <1>6, <2>5 DEF Wider
    <3>2. CASE silent
      <4>1. first.bid = {}
        BY <1>5, <2>1, <3>2
      <4>2. QED
        BY <2>3, <3>1, <3>2, <4>1
    <3>3. CASE ~silent
      <4>1. first.bid = {b}
        BY <1>5, <2>1, <3>3
      <4>2. built[l].bid = {Wider(mid, b, f[l])}
        BY <3>1, <4>1
      <4>3. QED
        BY <2>2, <2>3, <2>5, <3>3, <4>2
    <3>4. QED
      BY <3>2, <3>3
  <2>6. QED
    BY <2>4, <2>5
<1>8. CASE s = "sell"
  <2>1. silent <=> full /\ p < 0
    BY <1>8 DEF Silent, Toward
  <2>2. lev = IF l = 1 THEN a ELSE Wider(-mid, a, f[l])
    BY <1>8 DEF LevelOf, Toward, Level
  <2>3. Offers(built, s, l) = built[l].ask /\ Toward(s, lev) = -lev
    BY <1>8 DEF Offers, Toward
  <2>4. CeilTick(mid + ((-a) - mid) * f[l], 1) = -Wider(-mid, a, f[l])
    <3> HIDE DEF a, f
    <3>1. -(mid + ((-a) - mid) * f[l]) = (-mid) - ((-mid) - a) * f[l]
      BY <1>2, <1>4
    <3>2. QED
      BY <3>1 DEF CeilTick, Wider
  <2> HIDE DEF silent, lev, built, a, full, f
  <2>5. CASE l = 1
    BY <1>5, <1>6, <2>1, <2>2, <2>3, <2>5
  <2>6. CASE l # 1
    <3>1. built[l].ask = {CeilTick(mid + (x - mid) * f[l], 1) : x \in first.ask}
      BY <1>6, <2>6
    <3>2. CASE silent
      <4>1. first.ask = {}
        BY <1>5, <2>1, <3>2
      <4>2. QED
        BY <2>3, <3>1, <3>2, <4>1
    <3>3. CASE ~silent
      <4>1. first.ask = {-a}
        BY <1>5, <2>1, <3>3
      <4>2. built[l].ask = {CeilTick(mid + ((-a) - mid) * f[l], 1)}
        BY <3>1, <4>1
      <4>3. QED
        BY <2>2, <2>3, <2>4, <2>6, <3>3, <4>2
    <3>4. QED
      BY <3>2, <3>3
  <2>7. QED
    BY <2>5, <2>6
<1>9. QED
  BY <1>7, <1>8 DEF Sides

LEMMA BuiltIsLadder ==
    ASSUME NEW mid, NEW half, NEW drift, NEW p, NEW maxPos
    PROVE  DOMAIN Built(mid, half, drift, p, maxPos) = 1 .. 3
BY DEF Built, BuildQuoteLevels, FallbackReduceOnly

(* apply_inventory_exit_bias leaves the ladder alone, or moves every price *)
(* of a side by one percentage: at least 100 on the side that adds, at     *)
(* most 100 on the other.                                                  *)
BiasShape(biased, ladder, mid, p, bp, ap) ==
    /\ DOMAIN biased = 1 .. 3 /\ p # 0
    /\ p > 0 => bp >= 100 /\ ap <= 100
    /\ p < 0 => bp <= 100 /\ ap >= 100
    /\ \A l \in 1 .. 3 :
        /\ biased[l].bid = {FloorTick(100 * mid - Biased(mid - x, bp), 100) : x \in ladder[l].bid}
        /\ biased[l].ask = {CeilTick(100 * mid + Biased(x - mid, ap), 100) : x \in ladder[l].ask}

LEMMA BiasFacts ==
    ASSUME NEW mid \in Nat \ {0}, NEW p \in Int, NEW maxPos \in Nat \ {0},
           NEW ladder, DOMAIN ladder = 1 .. 3
    PROVE  \/ InventoryExitBias(ladder, mid, p, maxPos) = ladder
           \/ \E bp \in Nat \ {0}, ap \in Nat \ {0} :
                BiasShape(InventoryExitBias(ladder, mid, p, maxPos), ladder, mid, p, bp, ap)
<1> DEFINE biased == InventoryExitBias(ladder, mid, p, maxPos)
           y == 1000 * Abs(p) * mid
           ratio == y \div maxPos
           bp == BiasPercent(p, ratio, TRUE)
           ap == BiasPercent(p, ratio, FALSE)
<1> SUFFICES ASSUME biased # ladder
             PROVE  \E u \in Nat \ {0}, v \in Nat \ {0} : BiasShape(biased, ladder, mid, p, u, v)
  BY Zenon
<1>1. y \in Nat
  <2>1. 1000 * Abs(p) \in Nat
    BY DEF Abs
  <2>2. QED
    BY <2>1
<1>2. ratio \in Nat
  <2> HIDE DEF y
  <2>1. ratio \in Int /\ y < ratio * maxPos + maxPos
    BY <1>1
  <2> HIDE DEF ratio
  <2>2. ratio >= 0
    <3>1. SUFFICES ASSUME ratio + 1 <= 0 PROVE FALSE
      BY <2>1
    <3>2. (ratio + 1) * maxPos <= 0 * maxPos
      BY <2>1, <3>1, Products
    <3>3. (ratio + 1) * maxPos = ratio * maxPos + maxPos /\ 0 * maxPos = 0 /\ ratio * maxPos \in Int
      BY <2>1
    <3>4. QED
      BY <1>1, <2>1, <3>2, <3>3
  <2>3. QED
    BY <2>1, <2>2
<1>3. ExitTightening(ratio) \in Nat /\ AddWidening(ratio) \in Nat
  <2> HIDE DEF ratio
  <2>1. ExitTighten * ratio \in Nat /\ AddWiden * ratio \in Nat /\ MaxExitTighten \in Nat /\ MaxAddWiden \in Nat
    BY <1>2, QuoteConstants
  <2>2. (ExitTighten * ratio) \div 100 \in Nat /\ (AddWiden * ratio) \div 100 \in Nat
    <3> DEFINE u == ExitTighten * ratio
               v == AddWiden * ratio
    <3> HIDE DEF u, v
    <3>1. u \in Nat /\ v \in Nat
      BY <2>1 DEF u, v
    <3>2. u \div 100 \in Nat /\ v \div 100 \in Nat
      BY <3>1
    <3>3. QED
      BY <3>2 DEF u, v
  <2>3. QED
    BY <2>1, <2>2 DEF ExitTightening, AddWidening, AtMost
<1>4. p # 0 /\ biased = [l \in DOMAIN ladder |->
          [bid |-> {FloorTick(100 * mid - Biased(mid - x, bp), 100) : x \in ladder[l].bid},
           ask |-> {CeilTick(100 * mid + Biased(x - mid, ap), 100) : x \in ladder[l].ask}]]
  BY DEF InventoryExitBias
<1>5. /\ p < 0 => /\ bp = AtLeast(100 - ExitTightening(ratio), 5)
                  /\ ap = 100 + AddWidening(ratio)
      /\ p > 0 => /\ ap = AtLeast(100 - ExitTightening(ratio), 5)
                  /\ bp = 100 + AddWidening(ratio)
  <2> HIDE DEF ratio
  <2>1. CASE p < 0
    <3>1. (p < 0) = TRUE /\ (p < 0) # FALSE
      BY <2>1
    <3>2. QED
      BY <2>1, <3>1 DEF BiasPercent
  <2>2. CASE p > 0
    <3>1. ~(p < 0)
      BY <2>2
    <3>a. ASSUME NEW c \in BOOLEAN, ~c PROVE c = FALSE /\ c # TRUE
      BY <3>a
    <3>b. (p < 0) \in BOOLEAN
      OBVIOUS
    <3>2. ((p < 0) = FALSE) /\ ((p < 0) # TRUE)
      BY <3>1, <3>a, <3>b, Zenon
    <3>3. bp = 100 + AddWidening(ratio) /\ ap = AtLeast(100 - ExitTightening(ratio), 5)
      BY <3>2, Zenon DEF BiasPercent
    <3>4. QED
      BY <2>2, <3>1, <3>3
  <2>3. QED
    BY <2>1, <2>2
<1> HIDE DEF bp, ap, ratio, biased
<1>6. /\ p > 0 => bp >= 100 /\ ap <= 100 /\ bp \in Nat \ {0} /\ ap \in Nat \ {0}
      /\ p < 0 => bp <= 100 /\ ap >= 100 /\ bp \in Nat \ {0} /\ ap \in Nat \ {0}
  BY <1>3, <1>5 DEF AtLeast
<1>7. bp \in Nat \ {0} /\ ap \in Nat \ {0}
  BY <1>4, <1>6
<1>8. ASSUME NEW l \in 1 .. 3
      PROVE  /\ biased[l].bid = {FloorTick(100 * mid - Biased(mid - x, bp), 100) : x \in ladder[l].bid}
             /\ biased[l].ask = {CeilTick(100 * mid + Biased(x - mid, ap), 100) : x \in ladder[l].ask}
  BY <1>4
<1>9. DOMAIN biased = 1 .. 3
  BY <1>4
<1>10. QED
  BY <1>4, <1>6, <1>7, <1>8, <1>9 DEF BiasShape

(* A ladder of three levels, from both sides: one price per level, silent  *)
(* at the limit, below the mid as seen from the side, further away with    *)
(* the level, and moved by the bias in the direction of the position.      *)
SideShape(price, ladder, s, l, mid, half, drift, p, maxPos) ==
    /\ price[s][l] \in Int
    /\ Offers(ladder, s, l) = IF Silent(s, mid, p, maxPos) THEN {} ELSE {Toward(s, price[s][l])}
    /\ price[s][l] < Toward(s, mid)
    /\ \A k \in l .. 3 : price[s][k] <= price[s][l]
    /\ Toward(s, p) >= 0 => price[s][l] <= LevelOf(s, l, mid, half, drift, p, maxPos)
    /\ Toward(s, p) <= 0 /\ mid * MinHalfSpread >= Tick * Basis
         => price[s][l] >= LevelOf(s, l, mid, half, drift, p, maxPos)
    /\ p = 0 => price[s][l] = LevelOf(s, l, mid, half, drift, p, maxPos)

LadderShape(price, ladder, mid, half, drift, p, maxPos) ==
    /\ DOMAIN ladder = 1 .. 3
    /\ \A s \in Sides, l \in 1 .. 3 : SideShape(price, ladder, s, l, mid, half, drift, p, maxPos)

LEMMA Ladders ==
    ASSUME MinHalfSpread > 0,
           NEW mid \in Nat \ {0}, NEW half \in Nat, NEW drift \in Int, NEW p \in Int,
           NEW maxPos \in Nat \ {0}
    PROVE  \E price : LadderShape(price, QuoteLadder(mid, half, drift, p, maxPos, 3),
                                  mid, half, drift, p, maxPos)
<1> DEFINE ladder == QuoteLadder(mid, half, drift, p, maxPos, 3)
           built == Built(mid, half, drift, p, maxPos)
           Lev(s, l) == LevelOf(s, l, mid, half, drift, p, maxPos)
           w == mid * MinHalfSpread
<1>1. ladder = InventoryExitBias(built, mid, p, maxPos)
  BY DEF QuoteLadder, Built
<1>2. DOMAIN built = 1 .. 3
  BY BuiltIsLadder
<1>3. w \in Nat \ {0} /\ Tick \in Nat \ {0}
  <2>1. MinHalfSpread \in Nat \ {0} /\ Tick \in Nat \ {0}
    BY QuoteConstants
  <2>2. 0 * MinHalfSpread < mid * MinHalfSpread
    BY <2>1, Products
  <2>3. QED
    BY <2>1, <2>2
<1>4. ASSUME NEW s \in Sides, NEW l \in 1 .. 3
      PROVE  /\ Lev(s, l) \in Int /\ OnGrid(Lev(s, l)) /\ Lev(s, l) < Toward(s, mid)
             /\ w >= Tick * Basis => Lev(s, l) <= Toward(s, mid) - Tick
             /\ \A k \in l .. 3 : Lev(s, k) <= Lev(s, l)
  <2> DEFINE m == Toward(s, mid)
             fair == Toward(s, mid + drift)
             d == SkewedDepth(half, Toward(s, NormPos(mid, p, maxPos)))
  <2>1. m \in Int /\ fair \in Int
    BY DEF Toward
  <2>2. d \in Int
    <3>1. /\ SkewedDepth(half, NormPos(mid, p, maxPos)) \in Int
          /\ SkewedDepth(half, -NormPos(mid, p, maxPos)) \in Int
      BY SkewFacts
    <3>2. QED
      BY <3>1 DEF Toward
  <2>3. \A k \in 1 .. 3 : Lev(s, k) = Level(k, m, fair, d, w)
    BY DEF LevelOf
  <2>4. l .. 3 \subseteq 1 .. 3
    OBVIOUS
  <2> HIDE DEF m, fair, d, w, Lev
  <2>5. /\ Level(l, m, fair, d, w) \in Int /\ OnGrid(Level(l, m, fair, d, w))
        /\ Level(l, m, fair, d, w) < m
        /\ w >= Tick * Basis => Level(l, m, fair, d, w) <= m - Tick
        /\ \A k \in l .. 3 : Level(k, m, fair, d, w) <= Level(l, m, fair, d, w)
    BY <1>3, <2>1, <2>2, LevelFacts
  <2>6. Lev(s, l) = Level(l, m, fair, d, w)
    BY <2>3
  <2>7. \A k \in l .. 3 : Lev(s, k) = Level(k, m, fair, d, w)
    BY <2>3, <2>4
  <2>8. m = Toward(s, mid)
    BY DEF m
  <2>9. /\ Lev(s, l) \in Int /\ OnGrid(Lev(s, l)) /\ Lev(s, l) < m
        /\ w >= Tick * Basis => Lev(s, l) <= m - Tick
    BY <2>5, <2>6
  <2>10. \A k \in l .. 3 : Lev(s, k) <= Lev(s, l)
    BY <2>5, <2>6, <2>7
  <2>11. QED
    BY <2>8, <2>9, <2>10
<1>5. ASSUME NEW s \in Sides, NEW l \in 1 .. 3
      PROVE  Offers(built, s, l) = IF Silent(s, mid, p, maxPos) THEN {} ELSE {Toward(s, Lev(s, l))}
  <2>1. BuiltShape(s, l, mid, half, drift, p, maxPos)
    BY BuiltSides
  <2>2. QED
    BY <2>1, Zenon DEF BuiltShape
<1> HIDE DEF built, ladder, Lev
<1>6. CASE ladder = built
  <2> DEFINE price == [s \in Sides |-> [l \in 1 .. 3 |-> Lev(s, l)]]
  <2>1. \A s \in Sides, l \in 1 .. 3 : price[s][l] = Lev(s, l)
    OBVIOUS
  <2> HIDE DEF price
  <2>2. ASSUME NEW s \in Sides, NEW l \in 1 .. 3
        PROVE  SideShape(price, ladder, s, l, mid, half, drift, p, maxPos)
    <3>1. price[s][l] = Lev(s, l) /\ \A k \in l .. 3 : price[s][k] = Lev(s, k)
      BY <2>1
    <3>2. /\ Lev(s, l) \in Int /\ Lev(s, l) < Toward(s, mid)
          /\ \A k \in l .. 3 : Lev(s, k) <= Lev(s, l)
          /\ Offers(ladder, s, l) = IF Silent(s, mid, p, maxPos) THEN {} ELSE {Toward(s, Lev(s, l))}
      BY <1>4, <1>5, <1>6
    <3>3. Lev(s, l) <= Lev(s, l)
      BY <3>2
    <3>4. QED
      BY <3>1, <3>2, <3>3 DEF SideShape, Lev
  <2>3. LadderShape(price, ladder, mid, half, drift, p, maxPos)
    BY <1>2, <1>6, <2>2 DEF LadderShape
  <2>4. QED
    BY <2>3 DEF ladder
<1>7. CASE ladder # built
  <2>1. PICK bp \in Nat \ {0}, ap \in Nat \ {0} : BiasShape(ladder, built, mid, p, bp, ap)
    BY <1>1, <1>2, <1>7, BiasFacts
  <2> DEFINE Percent(s) == IF s = "buy" THEN bp ELSE ap
             Price(s, l) == Moved(Toward(s, mid), Lev(s, l), Percent(s))
             price == [s \in Sides |-> [l \in 1 .. 3 |-> Price(s, l)]]
  <2>2. \A s \in Sides, l \in 1 .. 3 : price[s][l] = Price(s, l)
    OBVIOUS
  <2> HIDE DEF price
  <2>3. ASSUME NEW s \in Sides, NEW l \in 1 .. 3
        PROVE  SideShape(price, ladder, s, l, mid, half, drift, p, maxPos)
    <3> DEFINE m == Toward(s, mid)
    <3>1. m \in Int /\ Percent(s) \in Nat \ {0} /\ p # 0
      BY <2>1 DEF Toward, BiasShape
    <3>2. /\ Toward(s, p) >= 0 => Percent(s) >= 100
          /\ Toward(s, p) <= 0 => Percent(s) <= 100
      BY <2>1 DEF BiasShape, Toward, Sides
    <3>3. ASSUME NEW k \in 1 .. 3
          PROVE  Lev(s, k) \in Int /\ Lev(s, k) < m /\ OnGrid(Lev(s, k))
      BY <1>4
    <3> HIDE DEF m
    <3>4. /\ Price(s, l) \in Int /\ Price(s, l) < m
          /\ Percent(s) >= 100 => Price(s, l) <= Lev(s, l)
          /\ Percent(s) <= 100 /\ Lev(s, l) <= m - Tick => Lev(s, l) <= Price(s, l)
      <4> HIDE DEF Percent
      <4>1. QED
        BY <3>1, <3>3, MovedFacts DEF m
    <3>5. ASSUME NEW k \in l .. 3 PROVE Price(s, k) <= Price(s, l)
      <4>1. k \in 1 .. 3 /\ Lev(s, k) <= Lev(s, l)
        BY <1>4
      <4> HIDE DEF Percent
      <4>2. QED
        BY <3>1, <3>3, <4>1, MovedFacts DEF m
    <3>6. w >= Tick * Basis => Lev(s, l) <= m - Tick
      BY <1>4 DEF m
    <3>7. Offers(ladder, s, l) = IF Silent(s, mid, p, maxPos) THEN {} ELSE {Toward(s, Price(s, l))}
      <4>1. CASE s = "buy"
        <5>1. /\ Offers(ladder, s, l) = ladder[l].bid /\ Offers(built, s, l) = built[l].bid
              /\ Toward(s, Lev(s, l)) = Lev(s, l) /\ Toward(s, Price(s, l)) = Price(s, l)
              /\ Toward(s, mid) = mid /\ Percent(s) = bp
          BY <4>1 DEF Offers, Toward
        <5>2. ladder[l].bid = {FloorTick(100 * mid - Biased(mid - x, bp), 100) : x \in built[l].bid}
          BY <2>1 DEF BiasShape
        <5>3. Price(s, l) = FloorTick(100 * mid - Biased(mid - Lev(s, l), bp), 100)
          BY <5>1 DEF Moved
        <5> HIDE DEF Price
        <5>4. CASE Silent(s, mid, p, maxPos)
          <6>1. built[l].bid = {}
            BY <1>5, <5>1, <5>4
          <6>2. ladder[l].bid = {}
            BY <5>2, <6>1
          <6>3. QED
            BY <5>1, <5>4, <6>2
        <5>5. CASE ~Silent(s, mid, p, maxPos)
          <6>1. built[l].bid = {Lev(s, l)}
            BY <1>5, <5>1, <5>5
          <6>2. ladder[l].bid = {FloorTick(100 * mid - Biased(mid - Lev(s, l), bp), 100)}
            BY <5>2, <6>1
          <6>3. QED
            BY <5>1, <5>3, <5>5, <6>2
        <5>6. QED
          BY <5>4, <5>5
      <4>2. CASE s = "sell"
        <5>1. /\ Offers(ladder, s, l) = ladder[l].ask /\ Offers(built, s, l) = built[l].ask
              /\ Toward(s, Lev(s, l)) = -Lev(s, l) /\ Toward(s, Price(s, l)) = -Price(s, l)
              /\ Toward(s, mid) = -mid /\ Percent(s) = ap
          BY <4>2 DEF Offers, Toward
        <5>2. ladder[l].ask = {CeilTick(100 * mid + Biased(x - mid, ap), 100) : x \in built[l].ask}
          BY <2>1 DEF BiasShape
        <5>3. -Price(s, l) = CeilTick(100 * mid + Biased((-Lev(s, l)) - mid, ap), 100)
          <6> DEFINE x == Biased((-Lev(s, l)) - mid, ap)
          <6>1. (-mid) - Lev(s, l) = (-Lev(s, l)) - mid
            BY <3>3
          <6>2. Price(s, l) = FloorTick(100 * (-mid) - x, 100)
            BY <5>1, <6>1 DEF Moved
          <6>3. x \in Int
            <7>1. AtLeast((-Lev(s, l)) - mid, Tick) \in Int
              BY <1>3, <3>3 DEF AtLeast
            <7>2. QED
              BY <7>1 DEF Biased
          <6> HIDE DEF x
          <6>4. -(100 * mid + x) = 100 * (-mid) - x
            BY <6>3
          <6>5. QED
            BY <6>2, <6>4 DEF CeilTick, x
        <5> HIDE DEF Price
        <5>4. CASE Silent(s, mid, p, maxPos)
          <6>1. built[l].ask = {}
            BY <1>5, <5>1, <5>4
          <6>2. ladder[l].ask = {}
            BY <5>2, <6>1
          <6>3. QED
            BY <5>1, <5>4, <6>2
        <5>5. CASE ~Silent(s, mid, p, maxPos)
          <6>1. built[l].ask = {-Lev(s, l)}
            BY <1>5, <5>1, <5>5
          <6>2. ladder[l].ask = {CeilTick(100 * mid + Biased((-Lev(s, l)) - mid, ap), 100)}
            BY <5>2, <6>1
          <6>3. QED
            BY <5>1, <5>3, <5>5, <6>2
        <5>6. QED
          BY <5>4, <5>5
      <4>3. QED
        BY <4>1, <4>2 DEF Sides
    <3>8. price[s][l] = Price(s, l) /\ \A k \in l .. 3 : price[s][k] = Price(s, k)
      BY <2>2
    <3> HIDE DEF Price, Percent
    <3>9. Toward(s, p) >= 0 => Price(s, l) <= Lev(s, l)
      BY <3>2, <3>4
    <3>10. Toward(s, p) <= 0 /\ w >= Tick * Basis => Price(s, l) >= Lev(s, l)
      BY <3>2, <3>3, <3>4, <3>6
    <3>11. QED
      BY <3>1, <3>4, <3>5, <3>7, <3>8, <3>9, <3>10 DEF SideShape, Lev, m
  <2>4. LadderShape(price, ladder, mid, half, drift, p, maxPos)
    BY <2>1, <2>3 DEF LadderShape, BiasShape
  <2>5. QED
    BY <2>4 DEF ladder
<1>8. QED
  BY <1>6, <1>7

(* The skew, level by level: against being flat, the side that adds is not *)
(* closer to the mid, the side that reduces not further away.              *)
LEMMA LevelLeans ==
    ASSUME MinHalfSpread > 0,
           NEW mid \in Nat \ {0}, NEW half \in Nat, NEW drift \in Int, NEW p \in Int,
           NEW maxPos \in Nat, NEW l \in 1 .. 3, NEW s \in Sides
    PROVE  /\ LevelOf(s, l, mid, half, drift, p, maxPos) \in Int
           /\ LevelOf(s, l, mid, half, drift, 0, maxPos) \in Int
           /\ Toward(s, p) >= 0 => LevelOf(s, l, mid, half, drift, p, maxPos)
                                     <= LevelOf(s, l, mid, half, drift, 0, maxPos)
           /\ Toward(s, p) <= 0 => LevelOf(s, l, mid, half, drift, 0, maxPos)
                                     <= LevelOf(s, l, mid, half, drift, p, maxPos)
<1> DEFINE m == Toward(s, mid)
           fair == Toward(s, mid + drift)
           n == NormPos(mid, p, maxPos)
           d == SkewedDepth(half, Toward(s, n))
           d0 == SkewedDepth(half, 0)
           w == mid * MinHalfSpread
<1>1. m \in Int /\ fair \in Int
  BY DEF Toward
<1>2. w \in Nat \ {0}
  <2>1. MinHalfSpread \in Nat \ {0}
    BY QuoteConstants
  <2>2. 0 * MinHalfSpread < mid * MinHalfSpread
    BY <2>1, Products
  <2>3. QED
    BY <2>1, <2>2
<1>3. NormPos(mid, 0, maxPos) = 0 /\ Toward(s, 0) = 0
  <2>1. ASSUME NEW z \in Int, z = 0 PROVE NormPos(mid, z, maxPos) = 0
    BY <2>1, SkewFacts
  <2>2. NormPos(mid, 0, maxPos) = 0
    BY <2>1
  <2>3. ASSUME NEW z \in Int, z = 0 PROVE Toward(s, z) = 0
    <3> DEFINE y == Toward(s, z)
    <3>1. y = z \/ y = -z
      BY DEF Toward
    <3> HIDE DEF y
    <3>2. y \in Int /\ (y + z = 0 \/ y = z)
      BY <3>1
    <3>3. y = 0
      BY <2>3, <3>2
    <3>4. QED
      BY <3>3 DEF y
  <2>4. Toward(s, 0) = 0
    BY <2>3
  <2>5. QED
    BY <2>2, <2>4
<1>4. /\ SkewedDepth(half, n) \in Int /\ SkewedDepth(half, -n) \in Int /\ d0 \in Int
      /\ p >= 0 => d0 <= SkewedDepth(half, n) /\ SkewedDepth(half, -n) <= d0
      /\ p <= 0 => SkewedDepth(half, n) <= d0 /\ d0 <= SkewedDepth(half, -n)
  BY SkewFacts
<1>5. /\ LevelOf(s, l, mid, half, drift, p, maxPos) = Level(l, m, fair, d, w)
      /\ LevelOf(s, l, mid, half, drift, 0, maxPos) = Level(l, m, fair, d0, w)
  BY <1>3 DEF LevelOf
<1>6. d \in Int /\ d0 \in Int
  BY <1>4 DEF Toward
<1>7. /\ Toward(s, p) >= 0 => d0 <= d
      /\ Toward(s, p) <= 0 => d <= d0
  <2>1. CASE s = "buy"
    <3>1. Toward(s, p) = p /\ d = SkewedDepth(half, n)
      BY <2>1 DEF Toward
    <3> HIDE DEF d, d0, n
    <3>2. QED
      BY <1>4, <3>1
  <2>2. CASE s = "sell"
    <3>1. Toward(s, p) = -p /\ d = SkewedDepth(half, -n)
      BY <2>2 DEF Toward
    <3> HIDE DEF d, d0, n
    <3>2. QED
      BY <1>4, <3>1
  <2>3. QED
    BY <2>1, <2>2 DEF Sides
<1> HIDE DEF m, fair, d, d0, w
<1>8. /\ Level(l, m, fair, d, w) \in Int
      /\ d <= d0 => Level(l, m, fair, d0, w) <= Level(l, m, fair, d, w)
  BY <1>1, <1>2, <1>6, LevelFacts
<1>9. /\ Level(l, m, fair, d0, w) \in Int
      /\ d0 <= d => Level(l, m, fair, d, w) <= Level(l, m, fair, d0, w)
  BY <1>1, <1>2, <1>6, LevelFacts
<1>10. QED
  BY <1>5, <1>7, <1>8, <1>9

(* Without a limit there is one order, and it reduces the position.        *)
LEMMA FallbackIsSafe ==
    ASSUME NEW mid \in Nat \ {0}, NEW half \in Nat, NEW drift \in Int, NEW p \in Int
    PROVE  Safe(mid, half, drift, p, 0)
<1> DEFINE depth == AtLeast(mid * FallbackDepth, Tick * Basis)
           bid == FloorTick(mid * Basis - depth, Basis)
           ask == CeilTick(mid * Basis + depth, Basis)
           exit == IF p > 0 THEN [bid |-> {}, ask |-> {ask}] ELSE [bid |-> {bid}, ask |-> {}]
           ladder == QuoteLadder(mid, half, drift, p, 0, 3)
           flat == QuoteLadder(mid, half, drift, 0, 0, 3)
<1>1. \A q : QuoteLadder(mid, half, drift, q, 0, 3) = FallbackReduceOnly(mid, q, 3)
  <2>1. 0 <= 0
    OBVIOUS
  <2>2. QED
    BY <2>1 DEF QuoteLadder, InventoryExitBias, BuildQuoteLevels
<1>2. depth \in Int /\ depth > 0 /\ Basis \in Nat \ {0} /\ mid * Basis \in Int
  <2>1. Tick \in Nat \ {0} /\ Basis \in Nat \ {0} /\ FallbackDepth \in Nat \ {0}
    BY QuoteConstants
  <2>2. 0 * Basis < Tick * Basis
    BY <2>1, Products
  <2>3. mid * FallbackDepth \in Int /\ Tick * Basis \in Int /\ Tick * Basis > 0 /\ mid * Basis \in Int
    BY <2>1, <2>2
  <2>4. QED
    BY <2>1, <2>3 DEF AtLeast
<1>3. bid \in Int /\ bid < mid
  <2> DEFINE x == mid * Basis - depth
  <2>1. x \in Int /\ x < mid * Basis
    BY <1>2
  <2>2. bid = FloorTick(x, Basis)
    OBVIOUS
  <2> HIDE DEF x, bid, depth
  <2>3. bid \in Int /\ bid * Basis <= x
    BY <1>2, <2>1, <2>2, FloorFacts
  <2>4. bid * Basis < mid * Basis
    BY <1>2, <2>1, <2>3
  <2>5. QED
    BY <1>2, <2>3, <2>4, Products
<1>4. ask \in Int /\ ask > mid
  <2> DEFINE x == -(mid * Basis + depth)
             y == FloorTick(x, Basis)
  <2>1. x \in Int /\ x < (-mid) * Basis
    BY <1>2
  <2>2. ask = -y
    BY DEF CeilTick
  <2> HIDE DEF x, ask, depth
  <2>3. y \in Int /\ y * Basis <= x
    BY <1>2, <2>1, FloorFacts
  <2> HIDE DEF y
  <2>4. y * Basis < (-mid) * Basis /\ -mid \in Int
    BY <1>2, <2>1, <2>3
  <2>5. y < -mid
    BY <1>2, <2>3, <2>4, Products
  <2>6. QED
    BY <2>2, <2>3, <2>5
<1>5. ladder = [l \in 1 .. 3 |-> IF l = 1 /\ p # 0 THEN exit ELSE NoLevel]
  BY <1>1 DEF FallbackReduceOnly
<1>6. flat = [l \in 1 .. 3 |-> NoLevel]
  BY <1>1 DEF FallbackReduceOnly
<1> HIDE DEF bid, ask, depth, ladder, flat
<1>7. /\ p > 0 => ladder[1].bid = {} /\ ladder[1].ask = {ask}
      /\ p < 0 => ladder[1].bid = {bid} /\ ladder[1].ask = {}
      /\ p = 0 => ladder[1].bid = {} /\ ladder[1].ask = {}
      /\ \A l \in 1 .. 3 : l # 1 => ladder[l].bid = {} /\ ladder[l].ask = {}
      /\ DOMAIN ladder = 1 .. 3
  BY <1>5 DEF NoLevel
<1>8. Passive(ladder, mid)
  <2>1. SUFFICES ASSUME NEW l \in 1 .. 3
                 PROVE  /\ \A b \in ladder[l].bid : b < mid
                        /\ \A a \in ladder[l].ask : a > mid
                        /\ \A m \in 1 .. 3 : m >= l =>
                              /\ \A b \in ladder[l].bid, c \in ladder[m].bid : c <= b
                              /\ \A a \in ladder[l].ask, c \in ladder[m].ask : c >= a
    BY <1>7 DEF Passive
  <2>2. CASE l # 1
    BY <1>7, <2>2
  <2>3. CASE l = 1
    <3>1. \A m \in 1 .. 3 : m = 1 \/ m # 1
      OBVIOUS
    <3>2. CASE p > 0
      BY <1>4, <1>7, <2>3, <3>1, <3>2
    <3>3. CASE p < 0
      BY <1>3, <1>7, <2>3, <3>1, <3>3
    <3>4. CASE p = 0
      BY <1>7, <2>3, <3>1, <3>4
    <3>5. QED
      BY <3>2, <3>3, <3>4
  <2>4. QED
    BY <2>2, <2>3
<1>9. ExitsOnly(ladder, p)
  <2>1. \A l \in 1 .. 3 : /\ p > 0 => ladder[l].bid = {}
                          /\ p < 0 => ladder[l].ask = {}
    BY <1>7
  <2>2. QED
    BY <1>7, <2>1 DEF ExitsOnly
<1>10. Leans(ladder, flat, p)
  <2>1. \A l \in 1 .. 3 : flat[l].bid = {} /\ flat[l].ask = {}
    BY <1>6 DEF NoLevel
  <2>2. QED
    BY <1>7, <2>1 DEF Leans
<1>11. QED
  BY <1>8, <1>9, <1>10 DEF Safe, ladder, flat

(* At the limit the ladder is reduce-only, with or without a spread floor. *)
LEMMA LimitExits ==
    ASSUME NEW mid \in Nat \ {0}, NEW half \in Nat, NEW drift \in Int, NEW p \in Int,
           NEW maxPos \in Nat \ {0}, 10 * Abs(p) * mid >= maxPos
    PROVE  ExitsOnly(QuoteLadder(mid, half, drift, p, maxPos, 3), p)
<1> DEFINE l0 == EngineQuote(TRUE, mid, half, drift, p, maxPos)
           built == BuildQuoteLevels(l0, mid, p, maxPos, 3)
           ladder == InventoryExitBias(built, mid, p, maxPos)
<1>1. l0 = NoLevel \/ \E x, y : l0 = [bid |-> {x}, ask |-> {y}]
  BY DEF EngineQuote
<1>2. p # 0
  BY DEF Abs
<1>3. /\ DOMAIN built = 1 .. 3
      /\ p > 0 => built[1].ask # {} /\ \A l \in 1 .. 3 : built[l].bid = {}
      /\ p < 0 => built[1].bid # {} /\ \A l \in 1 .. 3 : built[l].ask = {}
  <2>1. CASE l0 = NoLevel
    <3>1. built = FallbackReduceOnly(mid, p, 3)
      BY <2>1 DEF BuildQuoteLevels
    <3>2. /\ NoLevel.bid = {} /\ NoLevel.ask = {}
      BY DEF NoLevel
    <3> HIDE DEF built
    <3>3. QED
      BY <1>2, <3>1, <3>2 DEF FallbackReduceOnly
  <2>2. CASE l0 # NoLevel
    <3> DEFINE first == Suppressed(l0, mid, p, maxPos)
               f == SpreadFactors(3)
    <3>1. PICK x, y : l0 = [bid |-> {x}, ask |-> {y}]
      BY <1>1, <2>2
    <3>2. /\ p > 0 => first.bid = {} /\ first.ask = {y}
          /\ p < 0 => first.bid = {x} /\ first.ask = {}
      <4> HIDE DEF l0
      <4>1. l0.bid = {x} /\ l0.ask = {y}
        BY <3>1
      <4>2. QED
        BY <4>1 DEF Suppressed
    <3>3. built = [l \in 1 .. 3 |->
                     IF l = 1 THEN first
                     ELSE [bid |-> {FloorTick(mid - (mid - b) * f[l], 1) : b \in first.bid},
                           ask |-> {CeilTick(mid + (a - mid) * f[l], 1) : a \in first.ask}]]
      <4> HIDE DEF l0, f
      <4>1. ~(l0 = NoLevel \/ maxPos <= 0)
        BY <2>2
      <4>2. QED
        BY <4>1 DEF BuildQuoteLevels, first, f
    <3> HIDE DEF built, first, f
    <3>4. QED
      BY <3>2, <3>3
  <2>3. QED
    BY <2>1, <2>2
<1> HIDE DEF built, l0
<1> DEFINE Shifted(u, v) ==
             ladder = [l \in DOMAIN built |->
               [bid |-> {FloorTick(100 * mid - Biased(mid - b, u), 100) : b \in built[l].bid},
                ask |-> {CeilTick(100 * mid + Biased(a - mid, v), 100) : a \in built[l].ask}]]
<1>4. ladder = built \/ \E u, v : Shifted(u, v)
  <2> DEFINE ratio == (1000 * Abs(p) * mid) \div maxPos
             bp == BiasPercent(p, ratio, TRUE)
             ap == BiasPercent(p, ratio, FALSE)
  <2>1. ladder = built \/ Shifted(bp, ap)
    BY DEF InventoryExitBias
  <2> HIDE DEF ladder, bp, ap, Shifted
  <2>2. QED
    BY <2>1
<1>5. QuoteLadder(mid, half, drift, p, maxPos, 3) = ladder
  BY DEF QuoteLadder, built, l0
<1> HIDE DEF ladder
<1>6. ExitsOnly(ladder, p)
  <2>1. CASE ladder = built
    BY <1>3, <2>1 DEF ExitsOnly
  <2>2. CASE ladder # built
    <3>1. PICK u, v : Shifted(u, v)
      BY <1>4, <2>2
    <3>2. DOMAIN ladder = 1 .. 3
      BY <1>3, <3>1
    <3>3. ASSUME NEW l \in 1 .. 3
          PROVE  /\ ladder[l].bid = {FloorTick(100 * mid - Biased(mid - b, u), 100) : b \in built[l].bid}
                 /\ ladder[l].ask = {CeilTick(100 * mid + Biased(a - mid, v), 100) : a \in built[l].ask}
      BY <1>3, <3>1
    <3>4. ASSUME NEW l \in 1 .. 3
          PROVE  /\ ladder[l].bid = {} <=> built[l].bid = {}
                 /\ ladder[l].ask = {} <=> built[l].ask = {}
      <4>1. \A b \in built[l].bid : FloorTick(100 * mid - Biased(mid - b, u), 100) \in ladder[l].bid
        BY <3>3
      <4>2. \A a \in built[l].ask : CeilTick(100 * mid + Biased(a - mid, v), 100) \in ladder[l].ask
        BY <3>3
      <4>3. /\ built[l].bid = {} => ladder[l].bid = {}
            /\ built[l].ask = {} => ladder[l].ask = {}
        BY <3>3
      <4>4. (ladder[l].bid = {} => built[l].bid = {}) /\ (ladder[l].ask = {} => built[l].ask = {})
        BY <4>1, <4>2
      <4>5. QED
        BY <4>3, <4>4
    <3> HIDE DEF Shifted
    <3>5. QED
      BY <1>3, <3>2, <3>4 DEF ExitsOnly
  <2>3. QED
    BY <2>1, <2>2
<1>7. QED
  BY <1>5, <1>6

(* Every ladder, whatever the market, the position and the limit.          *)
THEOREM EveryLadderIsSafe ==
    ASSUME NEW mid \in Nat \ {0}, NEW half \in Nat, NEW drift \in Int, NEW p \in Int,
           NEW maxPos \in Nat
    PROVE  Safe(mid, half, drift, p, maxPos)
<1> DEFINE ladder == QuoteLadder(mid, half, drift, p, maxPos, 3)
           flat == QuoteLadder(mid, half, drift, 0, maxPos, 3)
<1>1. CASE maxPos = 0
  BY <1>1, FallbackIsSafe
<1>2. CASE maxPos # 0 /\ MinHalfSpread > 0
  <2>1. PICK price : LadderShape(price, ladder, mid, half, drift, p, maxPos)
    BY <1>2, Ladders
  <2>2. PICK level : LadderShape(level, flat, mid, half, drift, 0, maxPos)
    <3>1. ASSUME NEW z \in Int
          PROVE  \E q : LadderShape(q, QuoteLadder(mid, half, drift, z, maxPos, 3),
                                    mid, half, drift, z, maxPos)
      BY <1>2, Ladders
    <3>2. QED
      BY <3>1
  <2> HIDE DEF ladder, flat
  <2>3. ASSUME NEW s \in Sides, NEW l \in 1 .. 3
        PROVE  /\ price[s][l] \in Int /\ price[s][l] < Toward(s, mid)
               /\ \A k \in l .. 3 : price[s][k] <= price[s][l]
               /\ Offers(ladder, s, l) = IF Silent(s, mid, p, maxPos) THEN {}
                                         ELSE {Toward(s, price[s][l])}
               /\ Offers(ladder, s, l) \subseteq {Toward(s, price[s][l])}
    BY <2>1, Zenon DEF LadderShape, SideShape
  <2>4. ASSUME NEW s \in Sides, NEW l \in 1 .. 3
        PROVE  /\ level[s][l] \in Int
               /\ Offers(flat, s, l) \subseteq {Toward(s, level[s][l])}
               /\ Toward(s, p) >= 0 => price[s][l] <= level[s][l]
               /\ Toward(s, p) <= 0 /\ mid * MinHalfSpread >= Tick * Basis
                    => price[s][l] >= level[s][l]
    <3> DEFINE here == LevelOf(s, l, mid, half, drift, p, maxPos)
               there == LevelOf(s, l, mid, half, drift, 0, maxPos)
    <3>1. SideShape(price, ladder, s, l, mid, half, drift, p, maxPos)
      BY <2>1 DEF LadderShape
    <3>2. SideShape(level, flat, s, l, mid, half, drift, 0, maxPos)
      BY <2>2 DEF LadderShape
    <3>3. /\ price[s][l] \in Int
          /\ Toward(s, p) >= 0 => price[s][l] <= here
          /\ Toward(s, p) <= 0 /\ mid * MinHalfSpread >= Tick * Basis => price[s][l] >= here
      BY <3>1, Zenon DEF SideShape
    <3>4. /\ level[s][l] \in Int /\ level[s][l] = there
          /\ Offers(flat, s, l) \subseteq {Toward(s, level[s][l])}
      BY <3>2, Zenon DEF SideShape
    <3>5. /\ here \in Int /\ there \in Int
          /\ Toward(s, p) >= 0 => here <= there
          /\ Toward(s, p) <= 0 => there <= here
      BY <1>2, LevelLeans
    <3> HIDE DEF here, there
    <3>6. QED
      BY <3>3, <3>4, <3>5
  <2>5. DOMAIN ladder = 1 .. 3 /\ DOMAIN flat = 1 .. 3
    BY <2>1, <2>2 DEF LadderShape
  <2>6. "buy" \in Sides /\ "sell" \in Sides
    BY DEF Sides
  <2>7. \A x : Toward("buy", x) = x /\ Toward("sell", x) = -x
    BY DEF Toward
  <2>8. ASSUME NEW l \in 1 .. 3
        PROVE  /\ Offers(ladder, "buy", l) = ladder[l].bid /\ Offers(ladder, "sell", l) = ladder[l].ask
               /\ Offers(flat, "buy", l) = flat[l].bid /\ Offers(flat, "sell", l) = flat[l].ask
    BY DEF Offers
  <2>9. Passive(ladder, mid)
    <3>1. SUFFICES ASSUME NEW l \in 1 .. 3
                   PROVE  /\ \A b \in ladder[l].bid : b < mid
                          /\ \A a \in ladder[l].ask : a > mid
                          /\ \A m \in 1 .. 3 : m >= l =>
                                /\ \A b \in ladder[l].bid, c \in ladder[m].bid : c <= b
                                /\ \A a \in ladder[l].ask, c \in ladder[m].ask : c >= a
      BY <2>5 DEF Passive
    <3>2. ASSUME NEW k \in 1 .. 3
          PROVE  /\ \A b \in ladder[k].bid : b = price["buy"][k]
                 /\ \A a \in ladder[k].ask : a = -price["sell"][k]
      BY <2>3, <2>6, <2>7, <2>8
    <3>3. /\ price["buy"][l] \in Int /\ price["buy"][l] < mid
          /\ price["sell"][l] \in Int /\ price["sell"][l] < -mid
      BY <2>3, <2>6, <2>7
    <3>4. ASSUME NEW m \in 1 .. 3, m >= l
          PROVE  /\ price["buy"][m] \in Int /\ price["sell"][m] \in Int
                 /\ price["buy"][m] <= price["buy"][l] /\ price["sell"][m] <= price["sell"][l]
      <4>1. m \in l .. 3
        BY <3>4
      <4>2. QED
        BY <2>3, <2>6, <4>1
    <3>5. \A b \in ladder[l].bid : b < mid
      BY <3>2, <3>3
    <3>6. \A a \in ladder[l].ask : a > mid
      BY <3>2, <3>3
    <3>7. ASSUME NEW m \in 1 .. 3, m >= l
          PROVE  /\ \A b \in ladder[l].bid, c \in ladder[m].bid : c <= b
                 /\ \A a \in ladder[l].ask, c \in ladder[m].ask : c >= a
      BY <3>2, <3>3, <3>4, <3>7
    <3>8. QED
      BY <3>5, <3>6, <3>7
  <2>10. ASSUME 10 * Abs(p) * mid >= maxPos PROVE ExitsOnly(ladder, p)
    BY <1>2, <2>10, LimitExits DEF ladder
  <2>11. ASSUME p # 0, MinHalfSpread * mid >= Tick * Basis PROVE Leans(ladder, flat, p)
    <3>1. mid * MinHalfSpread >= Tick * Basis
      <4>1. MinHalfSpread \in Nat
        BY QuoteConstants
      <4>2. MinHalfSpread * mid = mid * MinHalfSpread
        BY <4>1
      <4>3. QED
        BY <2>11, <4>2
    <3>2. ASSUME NEW l \in 1 .. 3
          PROVE  /\ \A b \in ladder[l].bid, f \in flat[l].bid : IF p > 0 THEN b <= f ELSE b >= f
                 /\ \A a \in ladder[l].ask, f \in flat[l].ask : IF p > 0 THEN a <= f ELSE a >= f
      <4>1. /\ \A b \in ladder[l].bid : b = price["buy"][l]
            /\ \A a \in ladder[l].ask : a = -price["sell"][l]
            /\ \A f \in flat[l].bid : f = level["buy"][l]
            /\ \A f \in flat[l].ask : f = -level["sell"][l]
        BY <2>3, <2>4, <2>6, <2>7, <2>8
      <4>2. /\ price["buy"][l] \in Int /\ price["sell"][l] \in Int
            /\ level["buy"][l] \in Int /\ level["sell"][l] \in Int
        BY <2>3, <2>4, <2>6
      <4>3. /\ p >= 0 => price["buy"][l] <= level["buy"][l]
            /\ p <= 0 => price["buy"][l] >= level["buy"][l]
        BY <2>4, <2>6, <2>7, <3>1
      <4>4. /\ -p >= 0 => price["sell"][l] <= level["sell"][l]
            /\ -p <= 0 => price["sell"][l] >= level["sell"][l]
        BY <2>4, <2>6, <2>7, <3>1
      <4>5. \A b \in ladder[l].bid, f \in flat[l].bid : IF p > 0 THEN b <= f ELSE b >= f
        BY <4>1, <4>2, <4>3
      <4>6. \A a \in ladder[l].ask, f \in flat[l].ask : IF p > 0 THEN a <= f ELSE a >= f
        BY <4>1, <4>2, <4>4
      <4>7. QED
        BY <4>5, <4>6
    <3>3. QED
      BY <2>5, <3>2 DEF Leans
  <2>12. QED
    BY <2>9, <2>10, <2>11 DEF Safe, ladder, flat
<1>3. CASE maxPos # 0 /\ ~(MinHalfSpread > 0)
  <2>1. ~(MinHalfSpread * mid >= Tick * Basis)
    <3>1. MinHalfSpread = 0 /\ Tick \in Nat \ {0} /\ Basis \in Nat \ {0}
      BY <1>3, QuoteConstants
    <3>2. 0 * Basis < Tick * Basis
      BY <3>1, Products
    <3>3. QED
      BY <3>1, <3>2
  <2>2. 10 * Abs(p) * mid >= maxPos => ExitsOnly(ladder, p)
    BY <1>3, LimitExits
  <2>3. QED
    BY <1>3, <2>1, <2>2 DEF Safe
<1>4. QED
  BY <1>1, <1>2, <1>3

LEMMA MultipleFacts ==
    ASSUME NEW k \in Int, NEW step \in Nat \ {0}
    PROVE  (k * step) % step = 0
<1> DEFINE x == k * step
           d == x \div step
           r == x % step
<1>1. x \in Int
  OBVIOUS
<1>2. d \in Int /\ r \in Int /\ x = d * step + r /\ 0 <= r /\ r < step
  <2> HIDE DEF x
  <2>1. x = step * d + r /\ d \in Int /\ r \in Int /\ 0 <= r /\ r < step
    BY <1>1
  <2> HIDE DEF d, r
  <2>2. QED
    BY <2>1
<1>3. x = k * step
  OBVIOUS
<1> HIDE DEF x, d, r
<1>4. (k - d) * step = r
  BY <1>2, <1>3
<1>5. (k - d) * step < 1 * step /\ 0 * step <= (k - d) * step /\ k - d \in Int
  BY <1>2, <1>4
<1>6. k - d < 1 /\ 0 <= k - d
  <2> DEFINE c == k - d
  <2> HIDE DEF c
  <2>1. c \in Int /\ c * step < 1 * step /\ 0 * step <= c * step
    BY <1>5 DEF c
  <2>2. c < 1
    BY <2>1, Products
  <2>3. 0 <= c
    BY <2>1, Products
  <2>4. QED
    BY <2>2, <2>3 DEF c
<1>7. k - d = 0
  BY <1>2, <1>6
<1>8. r = 0
  BY <1>4, <1>7
<1>9. QED
  BY <1>8 DEF r, x

(* normalize_live_order_size: a minimum on the grid of sizes.              *)
SizeFits(size, mid, step, minBase, minQuote) ==
    LET n == NormalizeOrderSize(size, mid, step, minBase, minQuote)
    IN  /\ Accepted(n, mid, step, minBase, minQuote)
        /\ n > size => ~Accepted(n - step, mid, step, minBase, minQuote)

THEOREM EverySizeIsAccepted ==
    ASSUME NEW size \in Nat \ {0}, NEW mid \in Nat \ {0}, NEW step \in Nat \ {0},
           NEW minBase \in Nat, \E j \in Int : minBase = j * step, NEW minQuote \in Nat
    PROVE  SizeFits(size, mid, step, minBase, minQuote)
<1> DEFINE n == NormalizeOrderSize(size, mid, step, minBase, minQuote)
           k == size \div step
           floored == k * step
           based == AtLeast(floored, minBase)
           g == mid * step
           q == -((-minQuote) \div g)
<1>1. minBase \in Nat /\ \E j \in Int : minBase = j * step
  OBVIOUS
<1>2. k \in Int /\ floored \in Int /\ floored <= size
  <2>1. k \in Int /\ step * k <= size
    BY SMT
  <2> HIDE DEF k
  <2>2. QED
    BY <2>1
<1>3. g \in Nat \ {0}
  <2>1. 0 * step < mid * step
    BY Products
  <2>2. QED
    BY <2>1
<1>4. q \in Int /\ minQuote <= q * g /\ q * g - g < minQuote
  <2> DEFINE h == (-minQuote) \div g
  <2>1. q = -h
    OBVIOUS
  <2> HIDE DEF g, q
  <2>2. h \in Int /\ g * h <= -minQuote /\ -minQuote < g * h + g
    BY <1>3
  <2> HIDE DEF h
  <2>3. q \in Int /\ q * g = -(g * h)
    BY <1>3, <2>1, <2>2
  <2>4. QED
    BY <1>3, <2>2, <2>3
<1>5. (based = floored \/ based = minBase) /\ based >= floored /\ based >= minBase /\ based \in Int
  BY <1>1, <1>2 DEF AtLeast
<1>6. n = IF based * mid < minQuote THEN q * step ELSE based
  <2> DEFINE h == (-minQuote) \div g
  <2>1. ~(size <= 0)
    OBVIOUS
  <2>2. n = IF based * mid < minQuote THEN -(h * step) ELSE based
    BY <2>1, Zenon DEF NormalizeOrderSize
  <2>3. h \in Int /\ q = -h
    BY <1>3
  <2> HIDE DEF n, based, g, q, h
  <2>4. q * step = -(h * step)
    BY <2>3
  <2>5. QED
    BY <2>2, <2>4
<1> HIDE DEF n, based, g, q, k
<1>7. CASE based * mid < minQuote
  <2>1. n = q * step /\ n \in Int
    BY <1>4, <1>6, <1>7
  <2>2. n * mid = q * g
    BY <1>4, <2>1 DEF g
  <2>3. (n - step) * mid = q * g - g
    BY <1>4, <2>1 DEF g
  <2>4. n * mid >= minQuote /\ (n - step) * mid < minQuote
    BY <1>3, <1>4, <2>2, <2>3
  <2>5. n > based
    <3>1. based * mid < n * mid
      BY <1>5, <1>7, <2>1, <2>4
    <3>2. QED
      BY <1>5, <2>1, <3>1, Products
  <2>6. n >= minBase
    BY <1>1, <1>5, <2>1, <2>5
  <2>7. n % step = 0
    BY <1>4, <2>1, MultipleFacts
  <2>8. Accepted(n, mid, step, minBase, minQuote)
    BY <2>4, <2>6, <2>7 DEF Accepted
  <2>9. ~Accepted(n - step, mid, step, minBase, minQuote)
    <3>1. (n - step) * mid \in Int
      BY <2>1
    <3>2. ~((n - step) * mid >= minQuote)
      BY <2>4, <3>1
    <3>3. QED
      BY <3>2, Zenon DEF Accepted
  <2>10. QED
    BY <2>8, <2>9, Zenon DEF SizeFits, n
<1>8. CASE ~(based * mid < minQuote)
  <2>1. n = based
    BY <1>6, <1>8
  <2>2. n % step = 0
    <3>1. CASE n = floored
      BY <1>2, <3>1, MultipleFacts
    <3>2. CASE n = minBase
      <4>1. PICK j \in Int : minBase = j * step
        BY <1>1
      <4>2. (j * step) % step = 0
        BY MultipleFacts
      <4>3. QED
        BY <3>2, <4>1, <4>2
    <3>3. QED
      BY <1>5, <2>1, <3>1, <3>2
  <2>3. n >= minBase /\ n * mid >= minQuote
    BY <1>5, <1>8, <2>1
  <2>4. Accepted(n, mid, step, minBase, minQuote)
    BY <2>2, <2>3, Zenon DEF Accepted
  <2>5. ASSUME n > size PROVE ~Accepted(n - step, mid, step, minBase, minQuote)
    <3>1. n = minBase /\ n \in Int
      BY <1>1, <1>2, <1>5, <2>1, <2>5
    <3>2. ~(n - step >= minBase)
      BY <1>1, <3>1
    <3>3. QED
      BY <3>2, Zenon DEF Accepted
  <2>6. QED
    BY <2>4, <2>5, Zenon DEF SizeFits, n
<1>9. QED
  BY <1>7, <1>8

(***************************************************************************)
(* LadderIsSafe: for every mid, volatility, signal, position and limit,    *)
(* build_quote_levels and apply_inventory_exit_bias give a ladder that is  *)
(* passive (given a spread floor), leans against the inventory and is      *)
(* reduce-only at the limit, and normalize_live_order_size gives an order  *)
(* the exchange takes.                                                     *)
(***************************************************************************)
THEOREM LadderStaysSafe == Spec => []LadderIsSafe
<1>1. UnsafeInputs = {}
  <2>1. SUFFICES ASSUME NEW in \in Mids \X Halves \X Signed(Drifts) \X Signed(Positions) \X Limits
                 PROVE  Safe(in[1], in[2], in[3], in[4], in[5])
    BY DEF UnsafeInputs
  <2>2. /\ in[1] \in Mids /\ in[2] \in Halves /\ in[3] \in Signed(Drifts)
        /\ in[4] \in Signed(Positions) /\ in[5] \in Limits
    OBVIOUS
  <2>3. /\ Mids \subseteq Nat \ {0} /\ Halves \subseteq Nat /\ Drifts \subseteq Nat
        /\ Positions \subseteq Nat /\ Limits \subseteq Nat
    <3>1. Mids \subseteq Nat \ {0} /\ UNION {Halves, Drifts, Positions, Limits} \subseteq Nat
      BY QuotesAssumption, Zenon DEF QuotesAssumption
    <3>2. QED
      BY <3>1
  <2>4. ASSUME NEW S \in SUBSET Nat, NEW x \in Signed(S) PROVE x \in Int
    <3>1. CASE x \in S
      BY <3>1
    <3>2. CASE x \notin S
      <4>1. PICK y \in S : x = -y
        BY <3>2 DEF Signed
      <4>2. y \in Nat
        OBVIOUS
      <4>3. QED
        BY <4>1, <4>2
    <3>3. QED
      BY <3>1, <3>2
  <2>5. /\ in[1] \in Nat \ {0} /\ in[2] \in Nat /\ in[3] \in Int
        /\ in[4] \in Int /\ in[5] \in Nat
    BY <2>2, <2>3, <2>4
  <2>6. QED
    BY <2>5, EveryLadderIsSafe
<1>2. UnsafeSizes = {}
  <2>1. SUFFICES ASSUME NEW in \in (1 .. 30) \X Mids \X {1, 4} \X {0, 8} \X {0, 250, 777}
                 PROVE  SizeFits(in[1], in[2], in[3], in[4], in[5])
    BY DEF UnsafeSizes, SizeFits
  <2>2. /\ in[1] \in 1 .. 30 /\ in[2] \in Mids /\ in[3] \in {1, 4}
        /\ in[4] \in {0, 8} /\ in[5] \in {0, 250, 777}
    OBVIOUS
  <2>3. Mids \subseteq Nat \ {0}
    BY QuotesAssumption, Zenon DEF QuotesAssumption
  <2>4. in[2] \in Nat \ {0}
    <3> DEFINE mid == in[2]
    <3>1. mid \in Mids
      BY <2>2
    <3> HIDE DEF mid
    <3>2. mid \in Nat \ {0}
      BY <2>3, <3>1
    <3>3. QED
      BY <3>2 DEF mid
  <2>5. ASSUME NEW size \in 1 .. 30, NEW mid \in Nat \ {0}, NEW step \in {1, 4},
               NEW minBase \in {0, 8}, NEW minQuote \in {0, 250, 777}
        PROVE  SizeFits(size, mid, step, minBase, minQuote)
    <3>1. size \in Nat \ {0} /\ step \in Nat \ {0} /\ minBase \in Nat /\ minQuote \in Nat
      OBVIOUS
    <3>2. minBase = 0 * step \/ minBase = 8 * step \/ minBase = 2 * step
      OBVIOUS
    <3>3. \E j \in Int : minBase = j * step
      BY <3>2
    <3>4. QED
      BY <3>1, <3>3, EverySizeIsAccepted
  <2>6. QED
    BY <2>2, <2>4, <2>5
<1>3. LadderIsSafe
  BY <1>1, <1>2 DEF LadderIsSafe
<1>4. QED
  BY <1>3, PTL
=============================================================================
