--------------------------- MODULE PnlActorProofs ---------------------------
(***************************************************************************)
(* TLAPS proofs about PnlActor, for any number of trades, ids and          *)
(* processes: types, every trade booked and logged once, the local         *)
(* position, and no trade left waiting for an id that is registered.       *)
(***************************************************************************)
EXTENDS PnlActor, FiniteSetTheorems, SequenceTheorems, WellFoundedInduction, TLAPS

(* How often a trade may have been booked once process e has done so, and  *)
(* before: with a client id by its own process only, without one once by   *)
(* each process.                                                           *)
Anonymous(m, t) == IncludeUnattributed \/ m[t] = NoCid
Limit(m, e, t) == IF Anonymous(m, t) THEN e ELSE 1
Before(m, e, t) ==
    IF Anonymous(m, t) THEN e - 1 ELSE IF m[t] \in OwnCids(e) THEN 0 ELSE 1

(* A trade this process has booked is still in seen_trade_ids, or so far   *)
(* back that no subscription repeats it; and it is not in the set held of  *)
(* waiting trades.                                                         *)
Booked(seen, held, n, top, t) ==
    t <= top /\ t \notin held /\ (Contains(seen, t) \/ t <= n - Window)

Once(c, seen, held, m, e, top) ==
    \A t \in 1..Len(m) :
        \/ c[t] <= Before(m, e, t)
        \/ Booked(seen, held, Len(m), top, t) /\ c[t] <= Limit(m, e, t)

(* What came into the set after seen[i], or may come, although it is too   *)
(* old to be repeated together with it: trades that waited when seen[i]    *)
(* was booked.                                                             *)
OldAfter(seen, held, i) ==
    {u \in {seen[j] : j \in i + 1..Len(seen)} \cup held : u <= seen[i] - Window}

(* seen_trade_ids among n trades of which the actor has met top.           *)
SeenOK(seen, held, n, top) ==
    /\ seen \in Seq(1..n) /\ Len(seen) <= IdSetCap /\ IsInjective(seen)
    /\ held \subseteq 1..n /\ Cardinality(held) <= PendingLimit
    /\ \A t \in held : ~Contains(seen, t) /\ t <= top
    /\ \A i \in 1..Len(seen) :
        seen[i] <= top /\ Cardinality(OldAfter(seen, held, i)) <= PendingLimit

RowCount(rows, t) == Cardinality({i \in 1..Len(rows) : rows[i] = t})
Logged(s, f) == [t \in Trades |-> f[t] + RowCount(s.rows, t)]

AnyCounts == [Trades -> Nat]

(* The actor, with the trades in held still to be dealt with.              *)
ActorOK(s, held, f, m, e, top) ==
    /\ s \in Actor(Len(m), e, AnyCounts)
    /\ Len(s.ids) <= IdSetCap /\ IsInjective(s.ids)
    /\ SeenOK(s.seen, held, Len(m), top)
    /\ \A t \in s.dropped : t <= top
    /\ \A t \in Trades : s.strategy[t] <= s.counted[t] /\ (t > Len(m) => s.counted[t] = 0)
    /\ Once(s.counted, s.seen, held, m, e, top)
    /\ Once(Logged(s, f), s.seen, held, m, e, top)

(* The trades of a queue, and those no snapshot has superseded.            *)
Held(q) == {q[i].trade : i \in 1..Len(q)}
FreshHeld(q) == {q[i].trade : i \in {j \in 1..Len(q) : q[j].fresh}}

Distinct(q) == \A i, j \in 1..Len(q) : q[i].trade = q[j].trade => i = j

(* Each trade waits once, and for an id that is not registered.            *)
QueueOK(s, m) ==
    /\ Distinct(s.pending)
    /\ \A t \in Held(s.pending) :
        ~IncludeUnattributed /\ m[t] # NoCid /\ ~Contains(s.ids, m[t])

(* The local position lacks what was given up and what still waits.        *)
Balanced(total, pos, dropped, held, fresh) ==
    /\ total = pos + Net(dropped) + Net(fresh)
    /\ dropped \cap held = {} /\ fresh \subseteq held

PosOK(s, held, fresh, top) ==
    s.synced => Balanced(Net(1..top), s.pos, s.dropped, held, fresh)

RunningInv ==
    /\ ActorOK(a, Held(a.pending), file, made, epoch, delivered)
    /\ Len(a.pending) <= PendingLimit /\ QueueOK(a, made)
    /\ PosOK(a, Held(a.pending), FreshHeld(a.pending), delivered)

(* What outlives the process.                                              *)
StoredInv ==
    /\ file \in AnyCounts /\ disk \in [pos : Int, strategy : AnyCounts, counted : AnyCounts]
    /\ \A t \in 1..Len(made) :
        disk.counted[t] <= Limit(made, epoch, t) /\ file[t] <= Limit(made, epoch, t)
    /\ \A t \in Trades :
        /\ disk.strategy[t] <= disk.counted[t]
        /\ t > Len(made) => disk.counted[t] = 0 /\ file[t] = 0

WorldInv ==
    /\ made \in Seq({NoCid} \cup (1..epoch) \X Cids) /\ Len(made) <= MaxTrades
    /\ delivered \in 0..Len(made) /\ epoch \in 1..MaxEpoch
    /\ session \in BOOLEAN /\ running \in BOOLEAN /\ (session => running)

PnlInv ==
    /\ WorldInv /\ StoredInv
    /\ running => RunningInv
    /\ ~running => a = NewActor(NewState)

-----------------------------------------------------------------------------
(* LOOPS                                                                   *)

(* Every non-empty set of naturals has a least element: how the lemmas     *)
(* about loops argue by induction.                                         *)
LEMMA LeastElement ==
    ASSUME NEW T, T \subseteq Nat, T # {}
    PROVE  \E x \in T : \A y \in T : x <= y
<1>1. IsWellFoundedOn(OpToRel(<,Nat), Nat)
  BY NatLessThanWellFounded
<1>2. PICK x \in T : \A y \in T : ~ (<<y, x>> \in OpToRel(<,Nat))
  BY <1>1, WFMin
<1>3. ASSUME NEW y \in T, y < x PROVE FALSE
  <2>1. <<y, x>> \in OpToRel(<,Nat)
    BY <1>3 DEF OpToRel
  <2>2. QED
    BY <2>1, <1>2
<1>4. QED
  BY <1>3

LEMMA UpTo ==
    ASSUME NEW k \in Nat, NEW S, 0 \in S, \A i \in 1..k : i - 1 \in S => i \in S
    PROVE  \A i \in 0..k : i \in S
<1> DEFINE Bad == {i \in 0..k : i \notin S}
<1> SUFFICES ASSUME Bad # {} PROVE FALSE
  OBVIOUS
<1>1. PICK n \in Bad : \A i \in Bad : n <= i
  <2>1. Bad \subseteq Nat
    OBVIOUS
  <2> HIDE DEF Bad
  <2> QED BY <2>1, LeastElement
<1>2. n \in 1..k /\ n - 1 \in 0..k /\ ~ (n <= n - 1)
  BY <1>1
<1>3. n - 1 \in S
  BY <1>1, <1>2
<1>4. QED
  BY <1>1, <1>2, <1>3

(* A message is worked through trade by trade.                             *)
ProcessRun(run, s, xs) ==
    /\ run[0] = s
    /\ \A i \in 1..Len(xs) : run[i] = ProcessOrQueue(run[i - 1], xs[i])
    /\ ProcessAll(s, xs) = run[Len(xs)]

LEMMA ProcessAllSteps ==
    ASSUME NEW s, NEW xs, Len(xs) \in Nat
    PROVE  \E run : ProcessRun(run, s, xs)
<1> DEFINE Runs(n, g) == g = [i \in 0..n |-> IF i = 0 THEN s ELSE ProcessOrQueue(g[i - 1], xs[i])]
           Good == {n \in 0..Len(xs) : \E g : Runs(n, g)}
<1>1. \E g : Runs(0, g)
  <2>1. Runs(0, [i \in 0..0 |-> s])
    OBVIOUS
  <2>2. QED
    BY <2>1
<1>2. ASSUME NEW n \in 0..Len(xs), n # Len(xs), NEW g, Runs(n, g)
      PROVE  \E h : Runs(n + 1, h)
  <2> DEFINE h == [i \in 0..n + 1 |-> IF i = n + 1 THEN ProcessOrQueue(g[n], xs[n + 1]) ELSE g[i]]
  <2>1. \A i \in 0..n : g[i] = IF i = 0 THEN s ELSE ProcessOrQueue(g[i - 1], xs[i])
    BY <1>2
  <2>2. \A i \in 0..n + 1 : h[i] = IF i = 0 THEN s ELSE ProcessOrQueue(h[i - 1], xs[i])
    <3> SUFFICES ASSUME NEW i \in 0..n + 1
                 PROVE  h[i] = IF i = 0 THEN s ELSE ProcessOrQueue(h[i - 1], xs[i])
      OBVIOUS
    <3>1. CASE i = n + 1
      <4>1. h[i] = ProcessOrQueue(g[n], xs[i]) /\ i # 0 /\ i - 1 = n /\ h[n] = g[n]
        BY <3>1
      <4>2. QED
        BY <4>1
    <3>2. CASE i # n + 1
      <4>1. i \in 0..n /\ h[i] = g[i]
        BY <3>2
      <4>2. i # 0 => i - 1 \in 0..n /\ h[i - 1] = g[i - 1]
        BY <4>1
      <4>3. QED
        BY <2>1, <4>1, <4>2
    <3>3. QED
      BY <3>1, <3>2
  <2>3. Runs(n + 1, h)
    <3> HIDE DEF h
    <3>1. DOMAIN h = 0..n + 1 /\ h = [i \in 0..n + 1 |-> h[i]]
      BY DEF h
    <3>2. QED
      BY <2>2, <3>1
  <2>4. QED
    BY <2>3
<1>3. Good \subseteq 0..Len(xs) /\ 0 \in Good /\ \A i \in 1..Len(xs) : i - 1 \in Good => i \in Good
  <2>1. 0 \in Good
    BY <1>1
  <2>2. ASSUME NEW i \in 1..Len(xs), i - 1 \in Good PROVE i \in Good
    <3>1. i - 1 \in 0..Len(xs) /\ i - 1 # Len(xs) /\ i - 1 + 1 = i /\ i \in 0..Len(xs)
      OBVIOUS
    <3>2. PICK g : Runs(i - 1, g)
      BY <2>2
    <3> HIDE DEF Runs
    <3>3. \E h : Runs(i, h)
      BY <1>2, <3>1, <3>2
    <3>4. QED
      BY <3>1, <3>3
  <2>3. QED
    BY <2>1, <2>2
<1>4. \E g : Runs(Len(xs), g)
  <2>1. Len(xs) \in Good
    <3> HIDE DEF Good
    <3> QED BY <1>3, UpTo
  <2> HIDE DEF Runs
  <2>2. QED
    BY <2>1
<1> DEFINE run == CHOOSE g : Runs(Len(xs), g)
<1>5. Runs(Len(xs), run)
  <2> HIDE DEF Runs
  <2> QED BY <1>4
<1>6. ProcessAll(s, xs) = run[Len(xs)]
  BY DEF ProcessAll
<1>7. run[0] = s /\ \A i \in 1..Len(xs) : run[i] = ProcessOrQueue(run[i - 1], xs[i])
  <2> HIDE DEF run
  <2>1. 0 \in 0..Len(xs) /\ \A i \in 1..Len(xs) : i \in 0..Len(xs) /\ i # 0
    OBVIOUS
  <2>2. QED
    BY <1>5, <2>1
<1>8. ProcessRun(run, s, xs)
  BY <1>6, <1>7 DEF ProcessRun
<1>9. QED
  BY <1>8

(* And so is the queue of waiting trades ...                               *)
RetryRun(run, s, xs) ==
    /\ run[0] = s
    /\ \A i \in 1..Len(xs) : run[i] = RetryOne(run[i - 1], xs[i])
    /\ RetryAll(s, xs) = run[Len(xs)]

LEMMA RetryAllSteps ==
    ASSUME NEW s, NEW xs, Len(xs) \in Nat
    PROVE  \E run : RetryRun(run, s, xs)
<1> DEFINE Runs(n, g) == g = [i \in 0..n |-> IF i = 0 THEN s ELSE RetryOne(g[i - 1], xs[i])]
           Good == {n \in 0..Len(xs) : \E g : Runs(n, g)}
<1>1. \E g : Runs(0, g)
  <2>1. Runs(0, [i \in 0..0 |-> s])
    OBVIOUS
  <2>2. QED
    BY <2>1
<1>2. ASSUME NEW n \in 0..Len(xs), n # Len(xs), NEW g, Runs(n, g)
      PROVE  \E h : Runs(n + 1, h)
  <2> DEFINE h == [i \in 0..n + 1 |-> IF i = n + 1 THEN RetryOne(g[n], xs[n + 1]) ELSE g[i]]
  <2>1. \A i \in 0..n : g[i] = IF i = 0 THEN s ELSE RetryOne(g[i - 1], xs[i])
    BY <1>2
  <2>2. \A i \in 0..n + 1 : h[i] = IF i = 0 THEN s ELSE RetryOne(h[i - 1], xs[i])
    <3> SUFFICES ASSUME NEW i \in 0..n + 1
                 PROVE  h[i] = IF i = 0 THEN s ELSE RetryOne(h[i - 1], xs[i])
      OBVIOUS
    <3>1. CASE i = n + 1
      <4>1. h[i] = RetryOne(g[n], xs[i]) /\ i # 0 /\ i - 1 = n /\ h[n] = g[n]
        BY <3>1
      <4>2. QED
        BY <4>1
    <3>2. CASE i # n + 1
      <4>1. i \in 0..n /\ h[i] = g[i]
        BY <3>2
      <4>2. i # 0 => i - 1 \in 0..n /\ h[i - 1] = g[i - 1]
        BY <4>1
      <4>3. QED
        BY <2>1, <4>1, <4>2
    <3>3. QED
      BY <3>1, <3>2
  <2>3. Runs(n + 1, h)
    <3> HIDE DEF h
    <3>1. DOMAIN h = 0..n + 1 /\ h = [i \in 0..n + 1 |-> h[i]]
      BY DEF h
    <3>2. QED
      BY <2>2, <3>1
  <2>4. QED
    BY <2>3
<1>3. Good \subseteq 0..Len(xs) /\ 0 \in Good /\ \A i \in 1..Len(xs) : i - 1 \in Good => i \in Good
  <2>1. 0 \in Good
    BY <1>1
  <2>2. ASSUME NEW i \in 1..Len(xs), i - 1 \in Good PROVE i \in Good
    <3>1. i - 1 \in 0..Len(xs) /\ i - 1 # Len(xs) /\ i - 1 + 1 = i /\ i \in 0..Len(xs)
      OBVIOUS
    <3>2. PICK g : Runs(i - 1, g)
      BY <2>2
    <3> HIDE DEF Runs
    <3>3. \E h : Runs(i, h)
      BY <1>2, <3>1, <3>2
    <3>4. QED
      BY <3>1, <3>3
  <2>3. QED
    BY <2>1, <2>2
<1>4. \E g : Runs(Len(xs), g)
  <2>1. Len(xs) \in Good
    <3> HIDE DEF Good
    <3> QED BY <1>3, UpTo
  <2> HIDE DEF Runs
  <2>2. QED
    BY <2>1
<1> DEFINE run == CHOOSE g : Runs(Len(xs), g)
<1>5. Runs(Len(xs), run)
  <2> HIDE DEF Runs
  <2> QED BY <1>4
<1>6. RetryAll(s, xs) = run[Len(xs)]
  BY DEF RetryAll
<1>7. run[0] = s /\ \A i \in 1..Len(xs) : run[i] = RetryOne(run[i - 1], xs[i])
  <2> HIDE DEF run
  <2>1. 0 \in 0..Len(xs) /\ \A i \in 1..Len(xs) : i \in 0..Len(xs) /\ i # 0
    OBVIOUS
  <2>2. QED
    BY <1>5, <2>1
<1>8. RetryRun(run, s, xs)
  BY <1>6, <1>7 DEF RetryRun
<1>9. QED
  BY <1>8

(* ... and the ids of a message.                                           *)
InsertRun(run, s, xs) ==
    /\ run[0] = s
    /\ \A i \in 1..Len(xs) : run[i] = InsertBounded(run[i - 1], xs[i])
    /\ InsertAll(s, xs) = run[Len(xs)]

LEMMA InsertAllSteps ==
    ASSUME NEW s, NEW xs, Len(xs) \in Nat
    PROVE  \E run : InsertRun(run, s, xs)
<1> DEFINE Runs(n, g) == g = [i \in 0..n |-> IF i = 0 THEN s ELSE InsertBounded(g[i - 1], xs[i])]
           Good == {n \in 0..Len(xs) : \E g : Runs(n, g)}
<1>1. \E g : Runs(0, g)
  <2>1. Runs(0, [i \in 0..0 |-> s])
    OBVIOUS
  <2>2. QED
    BY <2>1
<1>2. ASSUME NEW n \in 0..Len(xs), n # Len(xs), NEW g, Runs(n, g)
      PROVE  \E h : Runs(n + 1, h)
  <2> DEFINE h == [i \in 0..n + 1 |-> IF i = n + 1 THEN InsertBounded(g[n], xs[n + 1]) ELSE g[i]]
  <2>1. \A i \in 0..n : g[i] = IF i = 0 THEN s ELSE InsertBounded(g[i - 1], xs[i])
    BY <1>2
  <2>2. \A i \in 0..n + 1 : h[i] = IF i = 0 THEN s ELSE InsertBounded(h[i - 1], xs[i])
    <3> SUFFICES ASSUME NEW i \in 0..n + 1
                 PROVE  h[i] = IF i = 0 THEN s ELSE InsertBounded(h[i - 1], xs[i])
      OBVIOUS
    <3>1. CASE i = n + 1
      <4>1. h[i] = InsertBounded(g[n], xs[i]) /\ i # 0 /\ i - 1 = n /\ h[n] = g[n]
        BY <3>1
      <4>2. QED
        BY <4>1
    <3>2. CASE i # n + 1
      <4>1. i \in 0..n /\ h[i] = g[i]
        BY <3>2
      <4>2. i # 0 => i - 1 \in 0..n /\ h[i - 1] = g[i - 1]
        BY <4>1
      <4>3. QED
        BY <2>1, <4>1, <4>2
    <3>3. QED
      BY <3>1, <3>2
  <2>3. Runs(n + 1, h)
    <3> HIDE DEF h
    <3>1. DOMAIN h = 0..n + 1 /\ h = [i \in 0..n + 1 |-> h[i]]
      BY DEF h
    <3>2. QED
      BY <2>2, <3>1
  <2>4. QED
    BY <2>3
<1>3. Good \subseteq 0..Len(xs) /\ 0 \in Good /\ \A i \in 1..Len(xs) : i - 1 \in Good => i \in Good
  <2>1. 0 \in Good
    BY <1>1
  <2>2. ASSUME NEW i \in 1..Len(xs), i - 1 \in Good PROVE i \in Good
    <3>1. i - 1 \in 0..Len(xs) /\ i - 1 # Len(xs) /\ i - 1 + 1 = i /\ i \in 0..Len(xs)
      OBVIOUS
    <3>2. PICK g : Runs(i - 1, g)
      BY <2>2
    <3> HIDE DEF Runs
    <3>3. \E h : Runs(i, h)
      BY <1>2, <3>1, <3>2
    <3>4. QED
      BY <3>1, <3>3
  <2>3. QED
    BY <2>1, <2>2
<1>4. \E g : Runs(Len(xs), g)
  <2>1. Len(xs) \in Good
    <3> HIDE DEF Good
    <3> QED BY <1>3, UpTo
  <2> HIDE DEF Runs
  <2>2. QED
    BY <2>1
<1> DEFINE run == CHOOSE g : Runs(Len(xs), g)
<1>5. Runs(Len(xs), run)
  <2> HIDE DEF Runs
  <2> QED BY <1>4
<1>6. InsertAll(s, xs) = run[Len(xs)]
  BY DEF InsertAll
<1>7. run[0] = s /\ \A i \in 1..Len(xs) : run[i] = InsertBounded(run[i - 1], xs[i])
  <2> HIDE DEF run
  <2>1. 0 \in 0..Len(xs) /\ \A i \in 1..Len(xs) : i \in 0..Len(xs) /\ i # 0
    OBVIOUS
  <2>2. QED
    BY <1>5, <2>1
<1>8. InsertRun(run, s, xs)
  BY <1>6, <1>7 DEF InsertRun
<1>9. QED
  BY <1>8
-----------------------------------------------------------------------------
(* THE SET OF SEEN TRADES                                                  *)

LEMMA Constants ==
    /\ IdSetCap \in Nat \ {0} /\ PendingLimit \in Nat /\ Window \in Nat
    /\ 2 * Window + PendingLimit <= IdSetCap + 1
    /\ IncludeUnattributed \in BOOLEAN
    /\ MaxTrades \in Nat /\ MaxEpoch \in Nat /\ MaxEpoch >= 1
BY PnlAssumption DEF PnlAssumption

(* insert_bounded: the new id goes last, at the limit the oldest leaves.   *)
Pushed(q, x, r, d) ==
    /\ d \in {0, 1} /\ (d = 1 => Len(q) = IdSetCap)
    /\ Len(r) = Len(q) + 1 - d /\ Len(r) <= IdSetCap /\ r[Len(r)] = x
    /\ \A i \in 1..Len(r) - 1 : r[i] = q[i + d]

LEMMA InsertPushes ==
    ASSUME NEW S, NEW q \in Seq(S), Len(q) <= IdSetCap, NEW x \in S, ~Contains(q, x)
    PROVE  /\ InsertBounded(q, x) \in Seq(S)
           /\ \E d \in {0, 1} : Pushed(q, x, InsertBounded(q, x), d)
<1>1. CASE Len(q) < IdSetCap
  <2>1. InsertBounded(q, x) = Append(q, x)
    BY <1>1 DEF InsertBounded
  <2>2. Pushed(q, x, Append(q, x), 0)
    <3>1. /\ Len(Append(q, x)) = Len(q) + 1 /\ Len(q) \in Nat
          /\ Append(q, x)[Len(q) + 1] = x
          /\ \A i \in 1..Len(q) : Append(q, x)[i] = q[i] /\ i + 0 = i
      OBVIOUS
    <3>2. Len(q) + 1 <= IdSetCap /\ Len(q) + 1 - 1 = Len(q) /\ Len(q) + 1 = Len(q) + 1 - 0
      BY <1>1, <3>1, Constants
    <3>3. QED
      BY <3>1, <3>2 DEF Pushed
  <2>3. QED
    BY <2>1, <2>2
<1>2. CASE ~ (Len(q) < IdSetCap)
  <2>1. InsertBounded(q, x) = Append(Tail(q), x)
    BY <1>2 DEF InsertBounded
  <2>2. Len(q) = IdSetCap /\ q # <<>>
    BY <1>2, Constants
  <2>3. Tail(q) \in Seq(S) /\ Len(Tail(q)) = Len(q) - 1
        /\ \A i \in 1..Len(q) - 1 : Tail(q)[i] = q[i + 1]
    BY <2>2
  <2>4. Pushed(q, x, Append(Tail(q), x), 1)
    BY <2>2, <2>3, Constants DEF Pushed
  <2>5. QED
    BY <2>1, <2>3, <2>4
<1>3. QED
  BY <1>1, <1>2

LEMMA PushedFacts ==
    ASSUME NEW S, NEW q \in Seq(S), Len(q) <= IdSetCap, IsInjective(q),
           NEW x \in S, ~Contains(q, x),
           NEW r \in Seq(S), NEW d \in {0, 1}, Pushed(q, x, r, d)
    PROVE  /\ Len(r) <= IdSetCap /\ IsInjective(r) /\ Len(r) \in Nat /\ Len(q) \in Nat
           /\ Contains(r, x)
           /\ \A y : Contains(r, y) => Contains(q, y) \/ y = x
           /\ \A y : Contains(q, y) => Contains(r, y) \/ (d = 1 /\ y = q[1])
<1>1. Len(r) \in Nat /\ Len(q) \in Nat /\ Len(r) = Len(q) + 1 - d /\ Len(r) >= 1
      /\ DOMAIN r = 1..Len(r) /\ DOMAIN q = 1..Len(q)
  BY Constants DEF Pushed
<1>2. /\ \A i \in 1..Len(r) : i = Len(r) \/ i \in 1..Len(r) - 1
      /\ \A i \in 1..Len(r) - 1 : i + d \in 1..Len(q) /\ i \in 1..Len(r)
      /\ \A j \in 1..Len(q) : j - d \in 1..Len(r) - 1 \/ (d = 1 /\ j = 1)
      /\ \A j \in 1..Len(q) : j - d + d = j
  BY <1>1
<1>3. r[Len(r)] = x /\ \A i \in 1..Len(r) - 1 : r[i] = q[i + d]
  BY DEF Pushed
<1>4. \A i \in 1..Len(q) : q[i] # x
  BY DEF Contains
<1>5. Len(r) <= IdSetCap
  BY DEF Pushed
<1>6. IsInjective(r)
  <2> SUFFICES ASSUME NEW i \in 1..Len(r), NEW j \in 1..Len(r), r[i] = r[j] PROVE i = j
    BY <1>1 DEF IsInjective
  <2>1. \A k, l \in 1..Len(q) : q[k] = q[l] => k = l
    BY <1>1 DEF IsInjective
  <2>2. CASE i = Len(r)
    BY <1>2, <1>3, <1>4, <2>2
  <2>3. CASE j = Len(r)
    BY <1>2, <1>3, <1>4, <2>3
  <2>4. CASE i # Len(r) /\ j # Len(r)
    <3>1. i \in 1..Len(r) - 1 /\ j \in 1..Len(r) - 1
      BY <1>2, <2>4
    <3>2. q[i + d] = q[j + d] /\ i + d \in 1..Len(q) /\ j + d \in 1..Len(q)
      BY <1>2, <1>3, <3>1
    <3>3. i + d = j + d
      BY <2>1, <3>2
    <3>4. QED
      BY <3>3
  <2>5. QED
    BY <2>2, <2>3, <2>4
<1>7. Contains(r, x)
  BY <1>1, <1>3 DEF Contains
<1>8. ASSUME NEW y, Contains(r, y) PROVE Contains(q, y) \/ y = x
  <2>1. PICK i \in 1..Len(r) : r[i] = y
    BY <1>8 DEF Contains
  <2>2. QED
    BY <1>2, <1>3, <2>1 DEF Contains
<1>9. ASSUME NEW y, Contains(q, y) PROVE Contains(r, y) \/ (d = 1 /\ y = q[1])
  <2>1. PICK j \in 1..Len(q) : q[j] = y
    BY <1>9 DEF Contains
  <2>2. CASE d = 1 /\ j = 1
    BY <2>1, <2>2
  <2>3. CASE ~ (d = 1 /\ j = 1)
    <3>1. j - d \in 1..Len(r) - 1 /\ j - d + d = j
      BY <1>2, <2>3
    <3>2. r[j - d] = y /\ j - d \in 1..Len(r)
      BY <1>2, <1>3, <2>1, <3>1
    <3>3. QED
      BY <3>2 DEF Contains
  <2>4. QED
    BY <2>2, <2>3
<1>10. QED
  BY <1>1, <1>5, <1>6, <1>7, <1>8, <1>9

(* The distinct entries of a sequence are as many as its length.           *)
LEMMA EntriesCounted ==
    ASSUME NEW S, NEW q \in Seq(S), IsInjective(q)
    PROVE  /\ IsFiniteSet({q[i] : i \in 1..Len(q)})
           /\ Cardinality({q[i] : i \in 1..Len(q)}) = Len(q)
<1> DEFINE T == {q[i] : i \in 1..Len(q)}
<1>1. Len(q) \in Nat /\ DOMAIN q = 1..Len(q)
  OBVIOUS
<1>2. q \in [1..Len(q) -> T]
  <2>1. q = [i \in 1..Len(q) |-> q[i]]
    BY <1>1
  <2>2. QED
    BY <2>1
<1>3. q \in Bijection(1..Len(q), T)
  BY <1>2 DEF Bijection, Injection, Surjection
<1>4. IsFiniteSet(1..Len(q)) /\ Cardinality(1..Len(q)) = Len(q)
  <2>1. 1 \in Int /\ Len(q) \in Int
    BY <1>1
  <2>2. IsFiniteSet(1..Len(q)) /\ Cardinality(1..Len(q)) = IF 1 > Len(q) THEN 0 ELSE Len(q) - 1 + 1
    BY <2>1, FS_Interval
  <2>3. QED
    BY <1>1, <2>2
<1> HIDE DEF T
<1>5. ExistsBijection(1..Len(q), T)
  BY <1>3 DEF ExistsBijection
<1>6. IsFiniteSet(T) /\ Cardinality(T) = Cardinality(1..Len(q))
  BY <1>4, <1>5, FS_Bijection
<1>7. QED
  BY <1>4, <1>6 DEF T

(* A subset of trades is finite.                                           *)
LEMMA TradesFinite ==
    ASSUME NEW n \in Nat, NEW T, T \subseteq 1..n
    PROVE  IsFiniteSet(T) /\ Cardinality(T) \in Nat
<1>1. IsFiniteSet(1..n)
  BY FS_Interval
<1>2. IsFiniteSet(T)
  BY <1>1, FS_Subset
<1>3. QED
  BY <1>2, FS_CardinalityType

LEMMA SmallerSet ==
    ASSUME NEW n \in Nat, NEW T, T \subseteq 1..n, NEW U, U \subseteq T
    PROVE  Cardinality(U) <= Cardinality(T)
BY TradesFinite, FS_Subset

LEMMA OldAfterTrades ==
    ASSUME NEW n \in Nat, NEW seen \in Seq(1..n), NEW held, held \subseteq 1..n,
           NEW i \in 1..Len(seen)
    PROVE  OldAfter(seen, held, i) \subseteq 1..n
<1>1. \A j \in i + 1..Len(seen) : j \in 1..Len(seen)
  OBVIOUS
<1>2. \A j \in 1..Len(seen) : seen[j] \in 1..n
  OBVIOUS
<1>3. \A j \in i + 1..Len(seen) : seen[j] \in 1..n
  BY <1>1, <1>2
<1>4. SUFFICES ASSUME NEW u \in OldAfter(seen, held, i) PROVE u \in 1..n
  BY DEF OldAfter
<1>5. u \in held \/ \E j \in i + 1..Len(seen) : u = seen[j]
  BY <1>4 DEF OldAfter
<1>6. QED
  BY <1>3, <1>5

(* seen_trade_ids evicts only what no subscription repeats any more: a     *)
(* full set that came in after u holds at most PENDING_LIMIT trades that   *)
(* waited when u was booked, and those within Window of u on either side.  *)
LEMMA EvictedIsOld ==
    ASSUME NEW n \in Nat, NEW u \in 1..n, NEW T, T \subseteq (1..n) \ {u},
           Cardinality(T) = IdSetCap,
           Cardinality({x \in T : x <= u - Window}) <= PendingLimit
    PROVE  u <= n - Window
<1> SUFFICES ASSUME u > n - Window PROVE FALSE
  BY Constants
<1> DEFINE Old == {x \in T : x <= u - Window}
           New == {x \in T : x > u - Window}
           Near == (u - Window + 1..n) \ {u}
<1>0. \A x \in T : /\ x <= u - Window \/ x > u - Window
                   /\ x <= u - Window => ~ (x > u - Window)
                   /\ x \in 1..n /\ x # u
  <2>1. \A x \in 1..n : /\ x <= u - Window \/ x > u - Window
                        /\ x <= u - Window => ~ (x > u - Window)
    BY Constants
  <2>2. QED
    BY <2>1
<1>1. T = Old \cup New /\ Old \cap New = {} /\ Old \subseteq T /\ New \subseteq T
  <2>1. \A x : /\ x \in Old <=> x \in T /\ x <= u - Window
               /\ x \in New <=> x \in T /\ x > u - Window
    OBVIOUS
  <2> HIDE DEF Old, New
  <2>2. Old \subseteq T /\ New \subseteq T
    BY <2>1
  <2>3. T = Old \cup New
    <3>1. ASSUME NEW x \in T PROVE x \in Old \/ x \in New
      <4>0. x \in 1..n
        OBVIOUS
      <4>1. x <= u - Window \/ x > u - Window
        BY <4>0, Constants, SMT
      <4>2. QED
        BY <2>1, <4>1, Zenon
    <3>2. QED
      BY <2>2, <3>1
  <2>4. Old \cap New = {}
    BY <1>0, <2>1
  <2>5. QED
    BY <2>2, <2>3, <2>4
<1>2. IsFiniteSet(Old) /\ IsFiniteSet(New) /\ Cardinality(Old) \in Nat /\ Cardinality(New) \in Nat
  <2>1. Old \subseteq 1..n /\ New \subseteq 1..n
    OBVIOUS
  <2> HIDE DEF Old, New
  <2>2. QED
    BY <2>1, TradesFinite
<1>3. Cardinality(T) = Cardinality(Old) + Cardinality(New)
  <2> HIDE DEF Old, New
  <2>1. Cardinality(Old \cup New) =
          Cardinality(Old) + Cardinality(New) - Cardinality(Old \cap New)
    BY <1>2, FS_Union
  <2>2. Cardinality(Old \cap New) = 0
    BY <1>1, FS_EmptySet
  <2>3. QED
    BY <1>1, <1>2, <2>1, <2>2
<1>4. New \subseteq Near
  <2>1. \A x \in 1..n : x > u - Window => x \in u - Window + 1..n
    BY Constants
  <2>2. QED
    BY <1>0, <2>1
<1>5. IsFiniteSet(Near) /\ Cardinality(Near) = n - u + Window - 1
  <2> DEFINE lo == u - Window + 1
  <2>1. lo \in Int /\ n \in Int /\ lo = u - Window + 1 /\ lo <= n + 1
    BY Constants
  <2>2. Window # 0
    OBVIOUS
  <2>3. u \in lo..n
    BY <2>2, Constants
  <2>4. Near = (lo..n) \ {u}
    OBVIOUS
  <2> HIDE DEF lo, Near
  <2>5. IsFiniteSet(lo..n) /\ Cardinality(lo..n) = IF lo > n THEN 0 ELSE n - lo + 1
    BY <2>1, FS_Interval
  <2>6. IsFiniteSet((lo..n) \ {u}) /\ Cardinality((lo..n) \ {u}) = Cardinality(lo..n) - 1
    BY <2>3, <2>5, FS_RemoveElement
  <2>7. QED
    BY <2>1, <2>3, <2>4, <2>5, <2>6, Constants
<1>6. Cardinality(New) <= Cardinality(Near)
  <2> HIDE DEF New, Near
  <2> QED BY <1>4, <1>5, FS_Subset
<1>7. Cardinality(Old) <= PendingLimit
  OBVIOUS
<1> HIDE DEF Old, New, Near
<1>8. QED
  BY <1>2, <1>3, <1>5, <1>6, <1>7, Constants

(* A trade that the actor can be told of and that it does not hold was not *)
(* booked: it is new, or so recent that it would be seen.                  *)
Recent(t, n, top) == t > n - Window \/ t > top

LEMMA NotOldAfter ==
    ASSUME NEW n \in Nat, NEW top \in Nat, top <= n, NEW t \in 1..n, Recent(t, n, top),
           NEW x \in 1..n, x <= top
    PROVE  ~ (t <= x - Window)
BY Constants DEF Recent

(* mark_seen: what leaves the set is too old to be repeated, and the rule  *)
(* for what may still come in after each entry is kept.                    *)
LEMMA SeenInsert ==
    ASSUME NEW n \in Nat, NEW top \in Nat, NEW new \in Nat, top <= new, new <= n,
           NEW seen, NEW held, SeenOK(seen, held, n, top),
           NEW t \in 1..n, ~Contains(seen, t), t <= new, t \in held \/ Recent(t, n, top)
    PROVE  /\ SeenOK(InsertBounded(seen, t), held \ {t}, n, new)
           /\ Contains(InsertBounded(seen, t), t)
           /\ \A u : Contains(seen, u) =>
                Contains(InsertBounded(seen, t), u) \/ u <= n - Window
<1> DEFINE r == InsertBounded(seen, t)
<1>1. /\ seen \in Seq(1..n) /\ Len(seen) <= IdSetCap /\ IsInjective(seen)
      /\ held \subseteq 1..n /\ Cardinality(held) <= PendingLimit
      /\ \A u \in held : ~Contains(seen, u) /\ u <= top
      /\ \A i \in 1..Len(seen) : seen[i] <= top
      /\ \A i \in 1..Len(seen) : Cardinality(OldAfter(seen, held, i)) <= PendingLimit
  BY DEF SeenOK
<1>2. r \in Seq(1..n) /\ \E d \in {0, 1} : Pushed(seen, t, r, d)
  BY <1>1, InsertPushes
<1> HIDE DEF r
<1>3. PICK d \in {0, 1} : Pushed(seen, t, r, d)
  BY <1>2
<1>4. /\ Len(r) <= IdSetCap /\ IsInjective(r) /\ Len(r) \in Nat /\ Len(seen) \in Nat
      /\ Contains(r, t)
      /\ \A y : Contains(r, y) => Contains(seen, y) \/ y = t
      /\ \A y : Contains(seen, y) => Contains(r, y) \/ (d = 1 /\ y = seen[1])
  BY <1>1, <1>2, <1>3, PushedFacts
<1>5. /\ Len(r) = Len(seen) + 1 - d /\ r[Len(r)] = t /\ Len(r) >= 1
      /\ \A i \in 1..Len(r) - 1 : r[i] = seen[i + d] /\ i + d \in 1..Len(seen)
      /\ \A i \in 1..Len(r) : i = Len(r) \/ i \in 1..Len(r) - 1
  BY <1>3, <1>4, Constants DEF Pushed
<1>6. \A u \in held \ {t} : ~Contains(r, u) /\ u <= new
  <2>1. \A u \in held \ {t} : ~Contains(r, u)
    BY <1>1, <1>4
  <2>2. \A u \in held : u \in Nat /\ u <= top
    BY <1>1
  <2>3. \A u \in held : u <= new
    BY <2>2
  <2>4. QED
    BY <2>1, <2>3
<1>7. \A i \in 1..Len(r) : r[i] <= new /\ r[i] \in 1..n
  <2> SUFFICES ASSUME NEW i \in 1..Len(r) PROVE r[i] <= new /\ r[i] \in 1..n
    OBVIOUS
  <2>1. CASE i = Len(r)
    BY <1>5, <2>1
  <2>2. CASE i \in 1..Len(r) - 1
    <3>1. r[i] = seen[i + d] /\ i + d \in 1..Len(seen)
      BY <1>5, <2>2
    <3>2. r[i] <= top /\ r[i] \in 1..n
      BY <1>1, <3>1
    <3>3. QED
      BY <3>2
  <2>3. QED
    BY <1>5, <2>1, <2>2
<1>8. Cardinality(held \ {t}) <= PendingLimit /\ held \ {t} \subseteq 1..n
  <2>1. Cardinality(held \ {t}) <= Cardinality(held)
    BY <1>1, SmallerSet
  <2>2. Cardinality(held \ {t}) \in Nat /\ Cardinality(held) \in Nat
    BY <1>1, TradesFinite
  <2>3. QED
    BY <1>1, <2>1, <2>2, Constants
<1>9. ASSUME NEW i \in 1..Len(r)
      PROVE  Cardinality(OldAfter(r, held \ {t}, i)) <= PendingLimit
  <2>1. OldAfter(r, held \ {t}, i) \subseteq 1..n
    BY <1>2, <1>8, OldAfterTrades
  <2>2. CASE i = Len(r)
    <3>1. OldAfter(r, held \ {t}, i) \subseteq held
      <4>1. i + 1..Len(r) = {}
        BY <1>4, <2>2
      <4>2. QED
        BY <4>1 DEF OldAfter
    <3> DEFINE A == OldAfter(r, held \ {t}, i)
    <3>2. A \subseteq held /\ held \subseteq 1..n /\ A \subseteq 1..n
          /\ Cardinality(held) <= PendingLimit
      BY <1>1, <2>1, <3>1
    <3> HIDE DEF A
    <3>3. Cardinality(A) <= Cardinality(held) /\ Cardinality(A) \in Nat /\ Cardinality(held) \in Nat
      BY <3>2, SmallerSet, TradesFinite
    <3>4. Cardinality(A) <= PendingLimit
      BY <3>2, <3>3, Constants
    <3>5. QED
      BY <3>4 DEF A
  <2>3. CASE i \in 1..Len(r) - 1
    <3>1. r[i] = seen[i + d] /\ i + d \in 1..Len(seen) /\ seen[i + d] \in 1..n /\ seen[i + d] <= top
      BY <1>1, <1>5, <2>3
    <3>2. OldAfter(r, held \ {t}, i) \subseteq OldAfter(seen, held, i + d)
      <4> SUFFICES ASSUME NEW u \in OldAfter(r, held \ {t}, i)
                   PROVE  u \in OldAfter(seen, held, i + d)
        OBVIOUS
      <4>1. u <= seen[i + d] - Window
        BY <3>1 DEF OldAfter
      <4>2. CASE u \in held
        BY <4>1, <4>2 DEF OldAfter
      <4>3. CASE u \notin held
        <5>1. PICK j \in i + 1..Len(r) : u = r[j]
          BY <4>3 DEF OldAfter
        <5>2. CASE j = Len(r)
          <6>1. u = t /\ Recent(t, n, top)
            BY <1>5, <4>3, <5>1, <5>2
          <6>2. top <= n
            OBVIOUS
          <6>3. QED
            BY <3>1, <4>1, <6>1, <6>2, NotOldAfter
        <5>3. CASE j # Len(r)
          <6>1. j \in 1..Len(r) - 1 /\ j + d \in i + d + 1..Len(seen)
            BY <1>4, <1>5, <5>1, <5>3
          <6>2. u = seen[j + d]
            BY <1>5, <5>1, <6>1
          <6>3. QED
            BY <4>1, <6>1, <6>2 DEF OldAfter
        <5>4. QED
          BY <5>2, <5>3
      <4>4. QED
        BY <4>2, <4>3
    <3>3. OldAfter(seen, held, i + d) \subseteq 1..n
      BY <1>1, <3>1, OldAfterTrades
    <3>4. Cardinality(OldAfter(seen, held, i + d)) <= PendingLimit
      BY <1>1, <3>1
    <3> DEFINE A == OldAfter(r, held \ {t}, i)
               B == OldAfter(seen, held, i + d)
    <3>5. A \subseteq B /\ B \subseteq 1..n /\ A \subseteq 1..n /\ Cardinality(B) <= PendingLimit
      BY <2>1, <3>2, <3>3, <3>4
    <3> HIDE DEF A, B
    <3>6. Cardinality(A) <= Cardinality(B) /\ Cardinality(A) \in Nat /\ Cardinality(B) \in Nat
      BY <3>5, SmallerSet, TradesFinite
    <3>7. Cardinality(A) <= PendingLimit
      BY <3>5, <3>6, Constants
    <3>8. QED
      BY <3>7 DEF A
  <2>4. QED
    BY <1>5, <2>2, <2>3
<1>10. ASSUME d = 1 PROVE seen[1] <= n - Window
  <2> DEFINE T == {r[i] : i \in 1..Len(r)}
             u == seen[1]
             Old == {x \in T : x <= u - Window}
  <2>1. Len(seen) = IdSetCap /\ Len(r) = IdSetCap /\ 1 \in 1..Len(seen)
    BY <1>3, <1>5, <1>10, Constants DEF Pushed
  <2>2. u \in 1..n /\ u <= top /\ Contains(seen, u)
    BY <1>1, <2>1 DEF Contains
  <2>3. \A i \in 1..Len(r) : r[i] # u
    <3> SUFFICES ASSUME NEW i \in 1..Len(r) PROVE r[i] # u
      OBVIOUS
    <3>1. CASE i = Len(r)
      BY <1>5, <2>2, <3>1
    <3>2. CASE i \in 1..Len(r) - 1
      <4>1. r[i] = seen[i + 1] /\ i + 1 \in 1..Len(seen) /\ i + 1 # 1
        BY <1>5, <1>10, <3>2
      <4>2. DOMAIN seen = 1..Len(seen)
        BY <1>1
      <4>3. QED
        BY <1>1, <2>1, <4>1, <4>2 DEF IsInjective
    <3>3. QED
      BY <1>5, <3>1, <3>2
  <2>4. T \subseteq (1..n) \ {u}
    BY <1>7, <2>3
  <2>5. Cardinality(T) = IdSetCap
    BY <1>2, <1>4, <2>1, EntriesCounted
  <2>6. Old \subseteq OldAfter(seen, held, 1)
    <3> SUFFICES ASSUME NEW i \in 1..Len(r), r[i] <= u - Window
                 PROVE  r[i] \in OldAfter(seen, held, 1)
      OBVIOUS
    <3>1. CASE i = Len(r)
      <4>1. t \in held
        <5>1. top <= n
          OBVIOUS
        <5>2. QED
          BY <1>5, <2>2, <3>1, <5>1, NotOldAfter
      <4>2. QED
        BY <1>5, <3>1, <4>1 DEF OldAfter
    <3>2. CASE i \in 1..Len(r) - 1
      <4>1. r[i] = seen[i + 1] /\ i + 1 \in 1 + 1..Len(seen)
        BY <1>4, <1>5, <1>10, <3>2
      <4>2. QED
        BY <4>1 DEF OldAfter
    <3>3. QED
      BY <1>5, <3>1, <3>2
  <2>7. OldAfter(seen, held, 1) \subseteq 1..n
    BY <1>1, <2>1, OldAfterTrades
  <2>8. Cardinality(OldAfter(seen, held, 1)) <= PendingLimit
    BY <1>1, <2>1
  <2>9. Cardinality(Old) <= PendingLimit
    <3> DEFINE B == OldAfter(seen, held, 1)
    <3>1. Old \subseteq B /\ B \subseteq 1..n /\ Old \subseteq 1..n /\ Cardinality(B) <= PendingLimit
      BY <2>6, <2>7, <2>8
    <3> HIDE DEF B, Old
    <3>2. Cardinality(Old) <= Cardinality(B) /\ Cardinality(Old) \in Nat /\ Cardinality(B) \in Nat
      BY <3>1, SmallerSet, TradesFinite
    <3>3. QED
      BY <3>1, <3>2, Constants
  <2> HIDE DEF T, u
  <2>10. u <= n - Window
    BY <2>2, <2>4, <2>5, <2>9, EvictedIsOld
  <2>11. QED
    BY <2>10 DEF u
<1>11. SeenOK(r, held \ {t}, n, new)
  BY <1>2, <1>4, <1>6, <1>7, <1>8, <1>9 DEF SeenOK
<1>12. \A u : Contains(seen, u) => Contains(r, u) \/ u <= n - Window
  BY <1>4, <1>10
<1>13. QED
  BY <1>4, <1>11, <1>12 DEF r

(* A trade that starts to wait, and any that leave.                        *)
LEMMA SeenQueue ==
    ASSUME NEW n \in Nat, NEW top \in Nat, NEW new \in Nat, top <= new, new <= n,
           NEW seen, NEW held, SeenOK(seen, held, n, top),
           NEW t \in 1..n, ~Contains(seen, t), t <= new, Recent(t, n, top),
           NEW more, more \subseteq held \cup {t}, Cardinality(more) <= PendingLimit
    PROVE  SeenOK(seen, more, n, new)
<1>1. /\ seen \in Seq(1..n) /\ Len(seen) <= IdSetCap /\ IsInjective(seen)
      /\ held \subseteq 1..n
      /\ \A u \in held : ~Contains(seen, u) /\ u <= top
      /\ \A i \in 1..Len(seen) : seen[i] <= top
      /\ \A i \in 1..Len(seen) : Cardinality(OldAfter(seen, held, i)) <= PendingLimit
      /\ \A i \in 1..Len(seen) : seen[i] \in 1..n
  BY DEF SeenOK
<1>2. more \subseteq 1..n
  BY <1>1
<1>3. \A u \in more : ~Contains(seen, u) /\ u <= new
  <2>1. \A u \in held : u \in Nat /\ u <= top
    BY <1>1
  <2>2. \A u \in held : u <= new
    BY <2>1
  <2>3. QED
    BY <1>1, <2>2
<1>4. ASSUME NEW i \in 1..Len(seen)
      PROVE  seen[i] <= new /\ Cardinality(OldAfter(seen, more, i)) <= PendingLimit
  <2>1. seen[i] \in 1..n /\ seen[i] <= top
    BY <1>1
  <2>2. seen[i] <= new
    BY <2>1
  <2>3. ~ (t <= seen[i] - Window)
    <3>1. top <= n
      OBVIOUS
    <3>2. QED
      BY <2>1, <3>1, NotOldAfter
  <2> DEFINE A == OldAfter(seen, more, i)
             B == OldAfter(seen, held, i)
  <2>4. A \subseteq B
    <3> SUFFICES ASSUME NEW u \in A PROVE u \in B
      OBVIOUS
    <3>1. u <= seen[i] - Window /\ (u \in more \/ \E j \in i + 1..Len(seen) : u = seen[j])
      BY DEF OldAfter
    <3>2. u \in held \/ \E j \in i + 1..Len(seen) : u = seen[j]
      BY <2>3, <3>1
    <3>3. QED
      BY <3>1, <3>2 DEF OldAfter
  <2>5. B \subseteq 1..n /\ A \subseteq 1..n /\ Cardinality(B) <= PendingLimit
    BY <1>1, <1>2, OldAfterTrades
  <2> HIDE DEF A, B
  <2>6. Cardinality(A) <= Cardinality(B) /\ Cardinality(A) \in Nat /\ Cardinality(B) \in Nat
    BY <2>4, <2>5, SmallerSet, TradesFinite
  <2>7. Cardinality(A) <= PendingLimit
    BY <2>5, <2>6, Constants
  <2>8. QED
    BY <2>2, <2>7 DEF A
<1>5. QED
  BY <1>1, <1>2, <1>3, <1>4 DEF SeenOK

(* More trades are made, or more of them are met.                          *)
LEMMA SeenLater ==
    ASSUME NEW n \in Nat, NEW top \in Nat, NEW later \in Nat, NEW new \in Nat,
           n <= later, top <= new, top <= n, NEW seen, NEW held, SeenOK(seen, held, n, top)
    PROVE  SeenOK(seen, held, later, new)
<1>1. /\ seen \in Seq(1..n) /\ Len(seen) <= IdSetCap /\ IsInjective(seen)
      /\ held \subseteq 1..n /\ Cardinality(held) <= PendingLimit
      /\ \A u \in held : ~Contains(seen, u) /\ u <= top
      /\ \A i \in 1..Len(seen) : seen[i] <= top
      /\ \A i \in 1..Len(seen) : Cardinality(OldAfter(seen, held, i)) <= PendingLimit
      /\ \A i \in 1..Len(seen) : seen[i] \in 1..n
  BY DEF SeenOK
<1>2. 1..n \subseteq 1..later
  OBVIOUS
<1>3. seen \in Seq(1..later) /\ held \subseteq 1..later
  BY <1>1, <1>2
<1>4. \A u \in held : u <= new
  <2>1. \A u \in held : u \in Nat /\ u <= top
    BY <1>1
  <2>2. QED
    BY <2>1
<1>5. \A i \in 1..Len(seen) : seen[i] <= new
  <2>1. \A i \in 1..Len(seen) : seen[i] \in Nat /\ seen[i] <= top
    BY <1>1
  <2>2. QED
    BY <2>1
<1>6. QED
  BY <1>1, <1>3, <1>4, <1>5 DEF SeenOK

-----------------------------------------------------------------------------
(* COUNTS                                                                  *)

LEMMA Limits ==
    ASSUME NEW m, NEW e \in Nat, e >= 1, NEW t
    PROVE  /\ Limit(m, e, t) \in Nat /\ Before(m, e, t) \in Nat
           /\ Before(m, e, t) <= Limit(m, e, t)
           /\ Limit(m, e, t) <= e
           /\ Anonymous(m, t) => Limit(m, e, t) = e /\ Before(m, e, t) = e - 1
           /\ m[t] \in OwnCids(e) => Limit(m, e, t) = Before(m, e, t) + 1 \/ m[t] = NoCid
BY DEF Limit, Before, Anonymous

(* Waiting and met trades change, the counts do not.                       *)
LEMMA OnceKept ==
    ASSUME NEW m, NEW e, Len(m) \in Nat, NEW top \in Nat, NEW new \in Nat, top <= new,
           NEW c, NEW seen, NEW held, Once(c, seen, held, m, e, top),
           NEW more, \A u \in more : u \in held \/ ~Booked(seen, held, Len(m), top, u)
    PROVE  Once(c, seen, more, m, e, new)
<1> SUFFICES ASSUME NEW t \in 1..Len(m), ~ (c[t] <= Before(m, e, t))
             PROVE  Booked(seen, more, Len(m), new, t) /\ c[t] <= Limit(m, e, t)
  BY DEF Once
<1>1. Booked(seen, held, Len(m), top, t) /\ c[t] <= Limit(m, e, t)
  BY DEF Once
<1>2. t \notin more
  BY <1>1 DEF Booked
<1>3. t <= top /\ (Contains(seen, t) \/ t <= Len(m) - Window)
  BY <1>1 DEF Booked
<1>4. t <= new
  BY <1>3
<1>5. QED
  BY <1>1, <1>2, <1>3, <1>4 DEF Booked

(* One trade is booked.                                                    *)
LEMMA OnceMore ==
    ASSUME NEW m, NEW e \in Nat, e >= 1, Len(m) \in Nat,
           NEW top \in Nat, NEW new \in Nat, top <= new,
           NEW c, NEW d, \A u \in 1..Len(m) : c[u] \in Nat,
           NEW seen, NEW held, Once(c, seen, held, m, e, top),
           NEW after, \A u : Contains(seen, u) => Contains(after, u) \/ u <= Len(m) - Window,
           NEW t \in 1..Len(m), ~Booked(seen, held, Len(m), top, t), Contains(after, t), t <= new,
           Limit(m, e, t) = Before(m, e, t) + 1, d[t] = c[t] + 1,
           \A u \in 1..Len(m) : u # t => d[u] = c[u]
    PROVE  Once(d, after, held \ {t}, m, e, new)
<1> SUFFICES ASSUME NEW u \in 1..Len(m), ~ (d[u] <= Before(m, e, u))
             PROVE  Booked(after, held \ {t}, Len(m), new, u) /\ d[u] <= Limit(m, e, u)
  BY DEF Once
<1>1. CASE u = t
  <2>1. c[t] <= Before(m, e, t)
    BY DEF Once
  <2>2. c[t] \in Nat /\ Before(m, e, t) \in Nat
    BY Limits
  <2>3. d[t] <= Limit(m, e, t)
    BY <2>1, <2>2
  <2>4. Booked(after, held \ {t}, Len(m), new, t)
    BY DEF Booked
  <2>5. QED
    BY <1>1, <2>3, <2>4
<1>2. CASE u # t
  <2>1. d[u] = c[u]
    BY <1>2
  <2>2. Booked(seen, held, Len(m), top, u) /\ c[u] <= Limit(m, e, u)
    BY <2>1 DEF Once
  <2>3. u <= top /\ u \notin held /\ (Contains(seen, u) \/ u <= Len(m) - Window)
    BY <2>2 DEF Booked
  <2>4. u <= new
    BY <2>3
  <2>5. Contains(after, u) \/ u <= Len(m) - Window
    BY <2>3
  <2>6. QED
    BY <2>1, <2>2, <2>3, <2>4, <2>5 DEF Booked
<1>3. QED
  BY <1>1, <1>2

LEMMA RowCountType ==
    ASSUME NEW S, NEW rows \in Seq(S), NEW t
    PROVE  RowCount(rows, t) \in Nat
<1>1. Len(rows) \in Nat
  OBVIOUS
<1>2. {i \in 1..Len(rows) : rows[i] = t} \subseteq 1..Len(rows)
  OBVIOUS
<1>3. QED
  BY <1>1, <1>2, TradesFinite DEF RowCount

(* A row more.                                                             *)
LEMMA RowAdded ==
    ASSUME NEW S, NEW rows \in Seq(S), NEW x \in S, NEW t
    PROVE  RowCount(Append(rows, x), t) = RowCount(rows, t) + (IF t = x THEN 1 ELSE 0)
<1> DEFINE n == Len(rows)
           A == {i \in 1..n : rows[i] = t}
           B == {i \in 1..Len(Append(rows, x)) : Append(rows, x)[i] = t}
<1>1. /\ n \in Nat /\ Len(Append(rows, x)) = n + 1 /\ Append(rows, x)[n + 1] = x
      /\ \A i \in 1..n : Append(rows, x)[i] = rows[i]
      /\ \A i \in 1..n + 1 : i \in 1..n \/ i = n + 1
      /\ \A i \in 1..n : i \in 1..n + 1
      /\ n + 1 \in 1..n + 1 /\ n + 1 \notin 1..n
  OBVIOUS
<1>2. A \subseteq 1..n
  OBVIOUS
<1>3. IsFiniteSet(A) /\ Cardinality(A) \in Nat /\ n + 1 \notin A
  <2> HIDE DEF A, n
  <2> QED BY <1>1, <1>2, TradesFinite
<1>4. B = IF t = x THEN A \cup {n + 1} ELSE A
  BY <1>1
<1>5. Cardinality(A \cup {n + 1}) = Cardinality(A) + 1
  <2> HIDE DEF A, n
  <2> QED BY <1>3, FS_AddElement
<1>6. QED
  <2> HIDE DEF A, n
  <2>1. Cardinality(B) = Cardinality(A) + (IF t = x THEN 1 ELSE 0)
    <3> HIDE DEF B
    <3> QED BY <1>3, <1>4, <1>5
  <2>2. QED
    BY <2>1 DEF RowCount, A, n

-----------------------------------------------------------------------------
(* POSITIONS                                                               *)

LEMMA NetAdds ==
    ASSUME NEW n \in Nat, NEW T, T \subseteq 1..n, NEW t, t \notin T
    PROVE  /\ Net(T) \in Int /\ Net({t}) \in Int
           /\ Net(T \cup {t}) = Net(T) + Net({t})
<1> DEFINE B == T \ Sells
           C == T \cap Sells
<1>1. IsFiniteSet(B) /\ IsFiniteSet(C) /\ Cardinality(B) \in Nat /\ Cardinality(C) \in Nat
      /\ t \notin B /\ t \notin C
  <2>1. B \subseteq 1..n /\ C \subseteq 1..n /\ t \notin B /\ t \notin C
    OBVIOUS
  <2> HIDE DEF B, C
  <2> QED BY <2>1, TradesFinite
<1>2. Cardinality({}) = 0 /\ Cardinality({t}) = 1
  BY FS_EmptySet, FS_Singleton
<1>3. Net(T) = Cardinality(B) - Cardinality(C)
  BY DEF Net
<1>4. CASE t \in Sells
  <2>1. {t} \ Sells = {} /\ {t} \cap Sells = {t}
    BY <1>4
  <2>2. (T \cup {t}) \ Sells = B /\ (T \cup {t}) \cap Sells = C \cup {t}
    BY <1>4
  <2>3. Net({t}) = 0 - 1
    BY <1>2, <2>1 DEF Net
  <2>4. Net(T \cup {t}) = Cardinality(B) - Cardinality(C \cup {t})
    BY <2>2 DEF Net
  <2> HIDE DEF B, C
  <2>5. Cardinality(C \cup {t}) = Cardinality(C) + 1
    BY <1>1, FS_AddElement
  <2>6. QED
    BY <1>1, <1>3, <2>3, <2>4, <2>5
<1>5. CASE t \notin Sells
  <2>1. {t} \ Sells = {t} /\ {t} \cap Sells = {}
    BY <1>5
  <2>2. (T \cup {t}) \ Sells = B \cup {t} /\ (T \cup {t}) \cap Sells = C
    BY <1>5
  <2>3. Net({t}) = 1
    BY <1>2, <2>1 DEF Net
  <2>4. Net(T \cup {t}) = Cardinality(B \cup {t}) - Cardinality(C)
    BY <2>2 DEF Net
  <2> HIDE DEF B, C
  <2>5. Cardinality(B \cup {t}) = Cardinality(B) + 1
    BY <1>1, FS_AddElement
  <2>6. QED
    BY <1>1, <1>3, <2>3, <2>4, <2>5
<1>6. QED
  BY <1>4, <1>5

LEMMA NetRemoves ==
    ASSUME NEW n \in Nat, NEW T, T \subseteq 1..n, NEW t \in T
    PROVE  /\ Net(T \ {t}) \in Int /\ Net({t}) \in Int
           /\ Net(T) = Net(T \ {t}) + Net({t})
<1> DEFINE U == T \ {t}
<1>1. U \subseteq 1..n /\ t \notin U /\ U \cup {t} = T
  OBVIOUS
<1> HIDE DEF U
<1>2. Net(U) \in Int /\ Net({t}) \in Int /\ Net(U \cup {t}) = Net(U) + Net({t})
  BY <1>1, NetAdds
<1>3. QED
  BY <1>1, <1>2 DEF U

LEMMA NetEmpty == Net({}) = 0
<1>1. {} \ Sells = {} /\ {} \cap Sells = {}
  OBVIOUS
<1>2. QED
  BY <1>1, FS_EmptySet DEF Net

-----------------------------------------------------------------------------
(* THE QUEUE OF WAITING TRADES                                             *)

(* A trade joins the queue.                                                *)
LEMMA QueueAppend ==
    ASSUME NEW n \in Nat, NEW q \in Seq(Waiting(n)), NEW p \in Waiting(n)
    PROVE  /\ Append(q, p) \in Seq(Waiting(n)) /\ Len(Append(q, p)) = Len(q) + 1
           /\ Held(Append(q, p)) = Held(q) \cup {p.trade}
           /\ FreshHeld(Append(q, p)) = FreshHeld(q) \cup (IF p.fresh THEN {p.trade} ELSE {})
           /\ Distinct(q) /\ p.trade \notin Held(q) => Distinct(Append(q, p))
<1> DEFINE r == Append(q, p)
           k == Len(q)
<1>1. /\ k \in Nat /\ Len(r) = k + 1 /\ r[k + 1] = p
      /\ \A i \in 1..k : r[i] = q[i]
      /\ r \in Seq(Waiting(n))
  OBVIOUS
<1>2. /\ \A i \in 1..k + 1 : i \in 1..k \/ i = k + 1
      /\ \A i \in 1..k : i \in 1..k + 1
      /\ k + 1 \in 1..k + 1
  BY <1>1
<1> HIDE DEF r, k
<1>3. Held(r) = Held(q) \cup {p.trade}
  <2>1. \A x \in Held(r) : x \in Held(q) \/ x = p.trade
    BY <1>1, <1>2 DEF Held, k
  <2>2. \A x \in Held(q) : x \in Held(r)
    BY <1>1, <1>2 DEF Held, k
  <2>3. p.trade \in Held(r)
    BY <1>1, <1>2 DEF Held
  <2>4. QED
    BY <2>1, <2>2, <2>3
<1>4. FreshHeld(r) = FreshHeld(q) \cup (IF p.fresh THEN {p.trade} ELSE {})
  <2>1. \A x \in FreshHeld(r) : x \in FreshHeld(q) \/ (p.fresh /\ x = p.trade)
    BY <1>1, <1>2 DEF FreshHeld, k
  <2>2. \A x \in FreshHeld(q) : x \in FreshHeld(r)
    BY <1>1, <1>2 DEF FreshHeld, k
  <2>3. p.fresh => p.trade \in FreshHeld(r)
    BY <1>1, <1>2 DEF FreshHeld
  <2>4. QED
    BY <2>1, <2>2, <2>3
<1>5. ASSUME Distinct(q), p.trade \notin Held(q) PROVE Distinct(r)
  <2>1. \A i \in 1..k : q[i].trade # p.trade
    BY <1>5 DEF Held, k
  <2>2. QED
    BY <1>1, <1>2, <1>5, <2>1 DEF Distinct, k
<1>6. QED
  BY <1>1, <1>3, <1>4, <1>5 DEF r, k

(* The oldest leaves it.                                                   *)
LEMMA QueueTail ==
    ASSUME NEW n \in Nat, NEW q \in Seq(Waiting(n)), Len(q) > 0, Distinct(q)
    PROVE  /\ Tail(q) \in Seq(Waiting(n)) /\ Len(Tail(q)) = Len(q) - 1
           /\ Head(q) \in Waiting(n) /\ Head(q).trade \in Held(q)
           /\ Held(Tail(q)) = Held(q) \ {Head(q).trade}
           /\ FreshHeld(Tail(q)) = FreshHeld(q) \ {Head(q).trade}
           /\ Head(q).trade \in FreshHeld(q) <=> Head(q).fresh
           /\ Distinct(Tail(q))
<1> DEFINE r == Tail(q)
           k == Len(q)
           h == Head(q)
<1>1. /\ k \in Nat /\ k > 0 /\ Len(r) = k - 1 /\ h = q[1] /\ h \in Waiting(n)
      /\ \A i \in 1..k - 1 : r[i] = q[i + 1]
      /\ r \in Seq(Waiting(n))
  <2>1. q # <<>>
    OBVIOUS
  <2>2. QED
    BY <2>1
<1>2. /\ \A i \in 1..k : i = 1 \/ (i - 1 \in 1..k - 1 /\ i - 1 + 1 = i)
      /\ \A i \in 1..k - 1 : i + 1 \in 1..k /\ i + 1 # 1
      /\ 1 \in 1..k
      /\ \A i, j \in 1..k - 1 : i + 1 = j + 1 => i = j
  BY <1>1
<1> HIDE DEF r, k, h
<1>3. \A i, j \in 1..k : q[i].trade = q[j].trade => i = j
  BY DEF Distinct, k
<1>4. \A i \in 1..k : i # 1 => r[i - 1] = q[i]
  BY <1>1, <1>2
<1>5. Held(r) = Held(q) \ {h.trade}
  <2>1. \A x \in Held(r) : x \in Held(q) /\ x # h.trade
    BY <1>1, <1>2, <1>3 DEF Held, k
  <2>2. \A x \in Held(q) : x # h.trade => x \in Held(r)
    BY <1>1, <1>2, <1>4 DEF Held, k
  <2>3. QED
    BY <2>1, <2>2
<1>6. FreshHeld(r) = FreshHeld(q) \ {h.trade}
  <2>1. \A x \in FreshHeld(r) : x \in FreshHeld(q) /\ x # h.trade
    BY <1>1, <1>2, <1>3 DEF FreshHeld, k
  <2>2. \A x \in FreshHeld(q) : x # h.trade => x \in FreshHeld(r)
    BY <1>1, <1>2, <1>4 DEF FreshHeld, k
  <2>3. QED
    BY <2>1, <2>2
<1>7. h.trade \in Held(q) /\ (h.fresh => h.trade \in FreshHeld(q))
  BY <1>1, <1>2 DEF Held, FreshHeld, k
<1>8. h.trade \in FreshHeld(q) => h.fresh
  BY <1>1, <1>2, <1>3 DEF FreshHeld, k
<1>9. Distinct(r)
  <2> SUFFICES ASSUME NEW i \in 1..k - 1, NEW j \in 1..k - 1, r[i].trade = r[j].trade
               PROVE  i = j
    BY <1>1 DEF Distinct
  <2>1. q[i + 1].trade = q[j + 1].trade /\ i + 1 \in 1..k /\ j + 1 \in 1..k
    BY <1>1, <1>2
  <2>2. i + 1 = j + 1
    BY <1>3, <2>1
  <2>3. QED
    BY <1>2, <2>2
<1>10. h.fresh \in BOOLEAN
  BY <1>1 DEF Waiting
<1>11. QED
  BY <1>1, <1>5, <1>6, <1>7, <1>8, <1>9 DEF r, k, h

(* A queue is as long as it has trades.                                    *)
LEMMA QueueCounted ==
    ASSUME NEW n \in Nat, NEW q \in Seq(Waiting(n)), Distinct(q)
    PROVE  /\ Held(q) \subseteq 1..n /\ FreshHeld(q) \subseteq Held(q)
           /\ Cardinality(Held(q)) = Len(q)
<1>1. Len(q) \in Nat /\ \A i \in 1..Len(q) : q[i].trade \in 1..n
  <2>1. Len(q) \in Nat /\ \A i \in 1..Len(q) : q[i] \in Waiting(n)
    OBVIOUS
  <2>2. \A w \in Waiting(n) : w.trade \in 1..n
    BY DEF Waiting
  <2>3. QED
    BY <2>1, <2>2
<1> DEFINE r == [i \in 1..Len(q) |-> q[i].trade]
<1>2. r \in Seq(1..n) /\ Len(r) = Len(q)
  BY <1>1
<1>3. IsInjective(r)
  BY DEF IsInjective, Distinct
<1>4. Cardinality({r[i] : i \in 1..Len(r)}) = Len(r)
  <2> HIDE DEF r
  <2> QED BY <1>2, <1>3, EntriesCounted
<1>5. {r[i] : i \in 1..Len(r)} = Held(q)
  BY <1>2 DEF Held
<1>6. Held(q) \subseteq 1..n /\ FreshHeld(q) \subseteq Held(q)
  BY <1>1 DEF Held, FreshHeld
<1>7. QED
  <2> HIDE DEF r
  <2> QED BY <1>2, <1>4, <1>5, <1>6

-----------------------------------------------------------------------------
(* ONE TRADE                                                               *)

(* try_accept_trade, field by field.                                       *)
Accepted(x, s, t, fresh, n, e) ==
    /\ x \in Actor(n, e, AnyCounts)
    /\ x.ids = s.ids /\ x.pending = s.pending /\ x.dropped = s.dropped
    /\ x.synced = s.synced /\ x.seen = InsertBounded(s.seen, t)
    /\ x.pos = (IF fresh THEN s.pos + Net({t}) ELSE s.pos)
    /\ x.rows = Append(s.rows, t)
    /\ x.counted[t] = s.counted[t] + 1
    /\ \A u \in Trades : u # t => x.counted[u] = s.counted[u] /\ x.strategy[u] = s.strategy[u]
    /\ x.strategy[t] \in {s.strategy[t], s.strategy[t] + 1}
    /\ \A u \in Trades : s.counted[u] \in Nat /\ s.strategy[u] \in Nat

LEMMA AcceptShape ==
    ASSUME NEW n \in Nat, NEW e, NEW s \in Actor(n, e, AnyCounts), NEW t \in Trades,
           t \in 1..n, NEW fresh \in BOOLEAN, InsertBounded(s.seen, t) \in Seq(1..n)
    PROVE  Accepted(Accept(s, t, fresh), s, t, fresh, n, e)
<1> DEFINE x == Accept(s, t, fresh)
           attributed == Known(s, t) \/ IncludeUnattributed
           one == s.counted[t] + 1
           str == IF attributed THEN s.strategy[t] + 1 ELSE s.strategy[t]
           c == [s.counted EXCEPT ![t] = one]
           g == [s.strategy EXCEPT ![t] = str]
           ps == IF fresh THEN s.pos + Net({t}) ELSE s.pos
           rs == Append(s.rows, t)
           sn == InsertBounded(s.seen, t)
<1>1. /\ s.ids \in Seq(OwnCids(e)) /\ s.seen \in Seq(1..n) /\ s.pending \in Seq(Waiting(n))
      /\ s.dropped \in SUBSET (1..n) /\ s.synced \in BOOLEAN /\ s.pos \in Int
      /\ s.strategy \in AnyCounts /\ s.counted \in AnyCounts /\ s.rows \in Seq(1..n)
  BY DEF Actor
<1>2. one \in Nat /\ str \in Nat /\ str \in {s.strategy[t], s.strategy[t] + 1}
  BY <1>1 DEF AnyCounts
<1>3. c \in AnyCounts /\ g \in AnyCounts /\ c[t] = one /\ g[t] = str
      /\ \A u \in Trades : u # t => c[u] = s.counted[u] /\ g[u] = s.strategy[u]
  <2> HIDE DEF one, str
  <2> QED BY <1>1, <1>2 DEF AnyCounts
<1>4. ps \in Int
  <2>1. {} \subseteq 1..n /\ t \notin {}
    OBVIOUS
  <2>2. Net({t}) \in Int
    BY <2>1, NetAdds
  <2>3. QED
    BY <1>1, <2>2
<1>5. rs \in Seq(1..n)
  BY <1>1
<1>6. sn \in Seq(1..n)
  OBVIOUS
<1>7. x = [s EXCEPT !.seen = sn, !.pos = ps, !.strategy = g, !.counted = c, !.rows = rs]
  BY DEF Accept, MarkSeen, AccountingApply, Actor
<1>8. \A u \in Trades : s.counted[u] \in Nat /\ s.strategy[u] \in Nat
  BY <1>1 DEF AnyCounts
<1> HIDE DEF c, g, ps, rs, sn, x
<1>9. /\ x \in Actor(n, e, AnyCounts)
      /\ x.ids = s.ids /\ x.pending = s.pending /\ x.dropped = s.dropped
      /\ x.synced = s.synced /\ x.seen = sn /\ x.pos = ps /\ x.rows = rs
      /\ x.counted = c /\ x.strategy = g
  BY <1>1, <1>3, <1>4, <1>5, <1>6, <1>7 DEF Actor
<1>10. Accepted(x, s, t, fresh, n, e)
  BY <1>2, <1>3, <1>8, <1>9 DEF Accepted, ps, rs, sn
<1>11. QED
  BY <1>10 DEF x

(* A trade the actor does not hold, or holds as waiting, is not booked.    *)
LEMMA NotBooked ==
    ASSUME NEW n \in Nat, NEW top \in Nat, NEW seen, NEW held, NEW t \in 1..n,
           ~Contains(seen, t), t \in held \/ Recent(t, n, top)
    PROVE  ~Booked(seen, held, n, top, t)
BY Constants DEF Booked, Recent

(* Only its own process can attribute a trade that has a client id.        *)
LEMMA AcceptLimit ==
    ASSUME NEW n \in Nat, NEW e \in Nat, e >= 1, NEW s \in Actor(n, e, AnyCounts), NEW t,
           ~Waits(s, t)
    PROVE  Limit(made, e, t) = Before(made, e, t) + 1
<1>1. CASE Anonymous(made, t)
  BY <1>1 DEF Limit, Before
<1>2. CASE ~Anonymous(made, t)
  <2>1. Contains(s.ids, made[t])
    BY <1>2, Constants DEF Anonymous, Waits, Known
  <2>2. s.ids \in Seq(OwnCids(e))
    BY DEF Actor
  <2>3. made[t] \in OwnCids(e)
    BY <2>1, <2>2 DEF Contains
  <2>4. QED
    BY <1>2, <2>3 DEF Limit, Before
<1>3. QED
  BY <1>1, <1>2

LEMMA LoggedType ==
    ASSUME NEW n \in Nat, NEW e, NEW s \in Actor(n, e, AnyCounts), NEW f \in AnyCounts
    PROVE  Logged(s, f) \in AnyCounts
<1>1. s.rows \in Seq(1..n)
  BY DEF Actor
<1>2. \A t \in Trades : f[t] \in Nat /\ RowCount(s.rows, t) \in Nat
  BY <1>1, RowCountType DEF AnyCounts
<1>3. QED
  BY <1>2 DEF Logged, AnyCounts

(* A trade is booked: its place is taken in the set of seen trades and in  *)
(* every count.                                                            *)
LEMMA AcceptStep ==
    ASSUME Len(made) \in Nat, Len(made) <= MaxTrades, NEW e \in Nat, e >= 1,
           NEW f \in AnyCounts, NEW top \in Nat, NEW new \in Nat, top <= new, new <= Len(made),
           NEW s, NEW held, ActorOK(s, held, f, made, e, top),
           NEW t \in 1..Len(made), ~Contains(s.seen, t), t <= new, ~Waits(s, t),
           t \in held \/ Recent(t, Len(made), top), NEW fresh \in BOOLEAN
    PROVE  ActorOK(Accept(s, t, fresh), held \ {t}, f, made, e, new)
<1> DEFINE x == Accept(s, t, fresh)
           n == Len(made)
<1>1. /\ s \in Actor(n, e, AnyCounts)
      /\ Len(s.ids) <= IdSetCap /\ IsInjective(s.ids)
      /\ SeenOK(s.seen, held, n, top)
      /\ \A u \in s.dropped : u <= top
      /\ \A u \in Trades : s.strategy[u] <= s.counted[u] /\ (u > n => s.counted[u] = 0)
      /\ Once(s.counted, s.seen, held, made, e, top)
      /\ Once(Logged(s, f), s.seen, held, made, e, top)
  BY DEF ActorOK
<1>2. /\ SeenOK(InsertBounded(s.seen, t), held \ {t}, n, new)
      /\ Contains(InsertBounded(s.seen, t), t)
      /\ \A u : Contains(s.seen, u) => Contains(InsertBounded(s.seen, t), u) \/ u <= n - Window
  <2> DEFINE sn == s.seen
  <2>1. SeenOK(sn, held, n, top) /\ ~Contains(sn, t)
    BY <1>1
  <2> HIDE DEF sn
  <2>2. /\ SeenOK(InsertBounded(sn, t), held \ {t}, n, new)
        /\ Contains(InsertBounded(sn, t), t)
        /\ \A u : Contains(sn, u) => Contains(InsertBounded(sn, t), u) \/ u <= n - Window
    BY <2>1, SeenInsert
  <2>3. QED
    BY <2>2 DEF sn
<1>3. InsertBounded(s.seen, t) \in Seq(1..n)
  BY <1>2 DEF SeenOK
<1>4. t \in Trades /\ \A u \in 1..n : u \in Trades
  BY Constants DEF Trades
<1>5. /\ x \in Actor(n, e, AnyCounts)
      /\ x.ids = s.ids /\ x.dropped = s.dropped
      /\ x.seen = InsertBounded(s.seen, t)
      /\ x.rows = Append(s.rows, t)
      /\ x.counted[t] = s.counted[t] + 1
      /\ \A u \in Trades : u # t => x.counted[u] = s.counted[u] /\ x.strategy[u] = s.strategy[u]
      /\ x.strategy[t] \in {s.strategy[t], s.strategy[t] + 1}
      /\ \A u \in Trades : s.counted[u] \in Nat /\ s.strategy[u] \in Nat
  <2>1. n \in Nat /\ s \in Actor(n, e, AnyCounts) /\ t \in Trades /\ t \in 1..n
        /\ fresh \in BOOLEAN /\ InsertBounded(s.seen, t) \in Seq(1..n)
        /\ x = Accept(s, t, fresh)
    BY <1>1, <1>3, <1>4
  <2>2. Accepted(x, s, t, fresh, n, e)
    BY <2>1, AcceptShape
  <2> HIDE DEF x, n
  <2>3. QED
    BY <2>2 DEF Accepted
<1>6. ~Booked(s.seen, held, n, top, t) /\ Limit(made, e, t) = Before(made, e, t) + 1
  BY <1>1, NotBooked, AcceptLimit
<1> HIDE DEF x
<1>7. Once(x.counted, x.seen, held \ {t}, made, e, new)
  <2> DEFINE c == s.counted
             d == x.counted
             after == x.seen
             sn == s.seen
  <2>1. /\ Once(c, sn, held, made, e, top) /\ \A u \in 1..Len(made) : c[u] \in Nat
        /\ \A u : Contains(sn, u) => Contains(after, u) \/ u <= Len(made) - Window
        /\ ~Booked(sn, held, Len(made), top, t) /\ Contains(after, t)
        /\ d[t] = c[t] + 1 /\ \A u \in 1..Len(made) : u # t => d[u] = c[u]
    BY <1>1, <1>2, <1>4, <1>5, <1>6
  <2> HIDE DEF c, d, after, sn
  <2>2. Once(d, after, held \ {t}, made, e, new)
    BY <1>6, <2>1, OnceMore
  <2>3. QED
    BY <2>2 DEF d, after
<1>8. Once(Logged(x, f), x.seen, held \ {t}, made, e, new)
  <2> DEFINE c == Logged(s, f)
             d == Logged(x, f)
             after == x.seen
             sn == s.seen
  <2>1. s.rows \in Seq(1..n) /\ f \in AnyCounts
    BY <1>1 DEF Actor
  <2>2. \A u \in Trades : /\ f[u] \in Nat /\ RowCount(s.rows, u) \in Nat
                          /\ RowCount(x.rows, u) = RowCount(s.rows, u) + (IF u = t THEN 1 ELSE 0)
    <3>1. \A u : RowCount(Append(s.rows, t), u) = RowCount(s.rows, u) + (IF u = t THEN 1 ELSE 0)
      BY <2>1, RowAdded
    <3>2. \A u : RowCount(s.rows, u) \in Nat
      BY <2>1, RowCountType
    <3>3. QED
      BY <1>5, <2>1, <3>1, <3>2 DEF AnyCounts
  <2>3. \A u \in Trades : c[u] = f[u] + RowCount(s.rows, u) /\ d[u] = f[u] + RowCount(x.rows, u)
    BY DEF Logged
  <2>4. \A u \in Trades : c[u] \in Nat /\ d[u] = c[u] + (IF u = t THEN 1 ELSE 0)
    <3> HIDE DEF c, d
    <3> QED BY <2>2, <2>3
  <2>5. /\ Once(c, sn, held, made, e, top) /\ \A u \in 1..Len(made) : c[u] \in Nat
        /\ \A u : Contains(sn, u) => Contains(after, u) \/ u <= Len(made) - Window
        /\ ~Booked(sn, held, Len(made), top, t) /\ Contains(after, t)
    BY <1>1, <1>2, <1>4, <1>5, <1>6, <2>4
  <2> HIDE DEF c, d, after, sn
  <2>6. d[t] = c[t] + 1 /\ \A u \in 1..Len(made) : u # t => d[u] = c[u]
    BY <1>4, <2>4
  <2>7. Once(d, after, held \ {t}, made, e, new)
    BY <1>6, <2>5, <2>6, OnceMore
  <2>8. QED
    BY <2>7 DEF d, after
<1>9. \A u \in Trades : x.strategy[u] <= x.counted[u] /\ (u > n => x.counted[u] = 0)
  <2> SUFFICES ASSUME NEW u \in Trades
               PROVE  x.strategy[u] <= x.counted[u] /\ (u > n => x.counted[u] = 0)
    OBVIOUS
  <2>1. CASE u = t
    <3>1. x.strategy[t] <= x.counted[t]
      BY <1>1, <1>4, <1>5
    <3>2. ~ (t > n)
      OBVIOUS
    <3>3. QED
      BY <2>1, <3>1, <3>2
  <2>2. CASE u # t
    BY <1>1, <1>5, <2>2
  <2>3. QED
    BY <2>1, <2>2
<1>10. \A u \in x.dropped : u <= new
  <2>1. \A u \in s.dropped : u \in Nat /\ u <= top
    BY <1>1 DEF Actor
  <2>2. \A u \in s.dropped : u <= new
    BY <2>1
  <2>3. QED
    BY <1>5, <2>2
<1>11. SeenOK(x.seen, held \ {t}, n, new)
  BY <1>2, <1>5
<1>12. ActorOK(x, held \ {t}, f, made, e, new)
  BY <1>1, <1>5, <1>7, <1>8, <1>9, <1>10, <1>11 DEF ActorOK
<1>13. QED
  BY <1>12 DEF x

(* What is held changes, what is booked does not.                          *)
LEMMA ActorKept ==
    ASSUME NEW m, Len(m) \in Nat, NEW e, NEW f,
           NEW top \in Nat, NEW new \in Nat, top <= new,
           NEW s, NEW held, ActorOK(s, held, f, m, e, top),
           NEW x \in Actor(Len(m), e, AnyCounts), x.ids = s.ids, x.seen = s.seen,
           x.strategy = s.strategy, x.counted = s.counted, x.rows = s.rows,
           \A u \in x.dropped : u <= new,
           NEW more, SeenOK(s.seen, more, Len(m), new),
           \A u \in more : u \in held \/ ~Booked(s.seen, held, Len(m), top, u)
    PROVE  ActorOK(x, more, f, m, e, new)
<1>1. /\ Len(s.ids) <= IdSetCap /\ IsInjective(s.ids)
      /\ \A u \in Trades : s.strategy[u] <= s.counted[u] /\ (u > Len(m) => s.counted[u] = 0)
      /\ Once(s.counted, s.seen, held, m, e, top)
      /\ Once(Logged(s, f), s.seen, held, m, e, top)
  BY DEF ActorOK
<1>2. Logged(x, f) = Logged(s, f)
  BY DEF Logged
<1>3. \A c : Once(c, s.seen, held, m, e, top) => Once(c, s.seen, more, m, e, new)
  <2> DEFINE sn == s.seen
  <2>1. \A u \in more : u \in held \/ ~Booked(sn, held, Len(m), top, u)
    OBVIOUS
  <2> HIDE DEF sn
  <2>2. \A c : Once(c, sn, held, m, e, top) => Once(c, sn, more, m, e, new)
    BY <2>1, OnceKept
  <2>3. QED
    BY <2>2 DEF sn
<1>4. Once(s.counted, s.seen, more, m, e, new) /\ Once(Logged(s, f), s.seen, more, m, e, new)
  BY <1>1, <1>3
<1>5. QED
  BY <1>1, <1>2, <1>4 DEF ActorOK

LEMMA NetNext ==
    ASSUME NEW k \in Nat
    PROVE  Net(1..k + 1) = Net(1..k) + Net({k + 1}) /\ Net(1..k) \in Int /\ Net({k + 1}) \in Int
<1>1. 1..k \subseteq 1..k /\ k + 1 \notin 1..k /\ 1..k + 1 = (1..k) \cup {k + 1}
  OBVIOUS
<1> DEFINE T == 1..k
<1>2. T \subseteq 1..k /\ k + 1 \notin T /\ 1..k + 1 = T \cup {k + 1}
  BY <1>1
<1> HIDE DEF T
<1>3. Net(T) \in Int /\ Net({k + 1}) \in Int /\ Net(T \cup {k + 1}) = Net(T) + Net({k + 1})
  BY <1>2, NetAdds
<1>4. QED
  BY <1>2, <1>3 DEF T

(* The next trade waits ...                                                *)
LEMMA PosQueued ==
    ASSUME NEW n \in Nat, NEW top \in Nat, NEW pos \in Int, NEW dropped, NEW held, NEW fresh,
           dropped \subseteq 1..n, held \subseteq 1..n, dropped \cup held \subseteq 1..top,
           Balanced(Net(1..top), pos, dropped, held, fresh), NEW t, t = top + 1
    PROVE  Balanced(Net(1..t), pos, dropped, held \cup {t}, fresh \cup {t})
<1>1. t \notin 1..top
  OBVIOUS
<1>2. /\ fresh \subseteq held /\ dropped \cap held = {} /\ fresh \subseteq 1..n
      /\ Net(1..top) = pos + Net(dropped) + Net(fresh)
  BY DEF Balanced
<1>3. t \notin held /\ t \notin dropped /\ t \notin fresh
  BY <1>1, <1>2
<1>4. Net(1..t) = Net(1..top) + Net({t}) /\ Net(1..top) \in Int
  BY NetNext
<1>5. Net(fresh) \in Int /\ Net({t}) \in Int /\ Net(fresh \cup {t}) = Net(fresh) + Net({t})
  BY <1>2, <1>3, NetAdds
<1>6. Net(dropped) \in Int
  BY <1>3, NetAdds
<1>7. Net(1..t) = pos + Net(dropped) + Net(fresh \cup {t})
  BY <1>2, <1>4, <1>5, <1>6
<1>8. QED
  BY <1>2, <1>3, <1>7 DEF Balanced

(* ... or is booked at once.                                               *)
LEMMA PosNext ==
    ASSUME NEW n \in Nat, NEW top \in Nat, NEW pos \in Int, NEW dropped, NEW held, NEW fresh,
           dropped \subseteq 1..n, held \subseteq 1..n,
           Balanced(Net(1..top), pos, dropped, held, fresh), NEW t, t = top + 1
    PROVE  Balanced(Net(1..t), pos + Net({t}), dropped, held, fresh)
<1>1. /\ fresh \subseteq held /\ dropped \cap held = {} /\ fresh \subseteq 1..n
      /\ Net(1..top) = pos + Net(dropped) + Net(fresh)
  BY DEF Balanced
<1>2. Net(1..t) = Net(1..top) + Net({t}) /\ Net(1..top) \in Int /\ Net({t}) \in Int
  BY NetNext
<1>3. n + 1 \notin fresh /\ n + 1 \notin dropped
  BY <1>1
<1>4. Net(dropped) \in Int /\ Net(fresh) \in Int
  BY <1>1, <1>3, NetAdds
<1>5. Net(1..t) = (pos + Net({t})) + Net(dropped) + Net(fresh)
  BY <1>1, <1>2, <1>4
<1>6. QED
  BY <1>1, <1>5 DEF Balanced

(* A waiting trade is given up ...                                         *)
LEMMA PosDropped ==
    ASSUME NEW n \in Nat, NEW total, NEW pos \in Int, NEW dropped, NEW held, NEW fresh,
           dropped \subseteq 1..n, held \subseteq 1..n,
           Balanced(total, pos, dropped, held, fresh), NEW h \in held,
           NEW given, given = IF h \in fresh THEN dropped \cup {h} ELSE dropped
    PROVE  Balanced(total, pos, given, held \ {h}, fresh \ {h})
<1>1. /\ fresh \subseteq held /\ dropped \cap held = {} /\ fresh \subseteq 1..n
      /\ total = pos + Net(dropped) + Net(fresh) /\ h \notin dropped
  BY DEF Balanced
<1>2. Net(dropped) \in Int /\ Net({h}) \in Int /\ Net(dropped \cup {h}) = Net(dropped) + Net({h})
  BY <1>1, NetAdds
<1>3. CASE h \in fresh
  <2>1. Net(fresh \ {h}) \in Int /\ Net(fresh) = Net(fresh \ {h}) + Net({h})
    BY <1>1, <1>3, NetRemoves
  <2>2. total = pos + Net(given) + Net(fresh \ {h})
    BY <1>1, <1>2, <1>3, <2>1
  <2>3. given \cap (held \ {h}) = {} /\ fresh \ {h} \subseteq held \ {h}
    BY <1>1, <1>3
  <2>4. QED
    BY <2>2, <2>3 DEF Balanced
<1>4. CASE h \notin fresh
  <2>1. fresh \ {h} = fresh /\ given = dropped
    BY <1>4
  <2>2. given \cap (held \ {h}) = {} /\ fresh \ {h} \subseteq held \ {h}
    BY <1>1, <2>1
  <2>3. QED
    BY <1>1, <2>1, <2>2 DEF Balanced
<1>5. QED
  BY <1>3, <1>4

(* ... or is booked after all.                                             *)
LEMMA PosBooked ==
    ASSUME NEW n \in Nat, NEW total, NEW pos \in Int, NEW dropped, NEW held, NEW fresh,
           dropped \subseteq 1..n, held \subseteq 1..n,
           Balanced(total, pos, dropped, held, fresh), NEW h \in held,
           NEW after, after = IF h \in fresh THEN pos + Net({h}) ELSE pos
    PROVE  Balanced(total, after, dropped, held \ {h}, fresh \ {h})
<1>1. /\ fresh \subseteq held /\ dropped \cap held = {} /\ fresh \subseteq 1..n
      /\ total = pos + Net(dropped) + Net(fresh) /\ h \notin dropped
  BY DEF Balanced
<1>2. Net(dropped) \in Int /\ Net({h}) \in Int
  BY <1>1, NetAdds
<1>3. dropped \cap (held \ {h}) = {} /\ fresh \ {h} \subseteq held \ {h}
  BY <1>1
<1>4. CASE h \in fresh
  <2>1. Net(fresh \ {h}) \in Int /\ Net(fresh) = Net(fresh \ {h}) + Net({h})
    BY <1>1, <1>4, NetRemoves
  <2>2. total = after + Net(dropped) + Net(fresh \ {h})
    BY <1>1, <1>2, <1>4, <2>1
  <2>3. QED
    BY <1>3, <2>2 DEF Balanced
<1>5. CASE h \notin fresh
  <2>1. fresh \ {h} = fresh /\ after = pos
    BY <1>5
  <2>2. QED
    BY <1>1, <1>3, <2>1 DEF Balanced
<1>6. QED
  BY <1>4, <1>5

(* The actor between two trades.                                           *)
Working(s, f, e, top) ==
    /\ ActorOK(s, Held(s.pending), f, made, e, top)
    /\ Len(s.pending) <= PendingLimit /\ QueueOK(s, made)

Tracking(s, top) == PosOK(s, Held(s.pending), FreshHeld(s.pending), top)

(* A trade waits for its id; at the limit the oldest is given up.          *)
LEMMA QueueStep ==
    ASSUME Len(made) \in Nat, NEW e, NEW f,
           NEW top \in Nat, NEW new \in Nat, top <= new, new <= Len(made),
           NEW s, Working(s, f, e, top),
           NEW t \in 1..Len(made), ~Contains(s.seen, t), t \notin Held(s.pending), t <= new,
           Recent(t, Len(made), top), Waits(s, t)
    PROVE  /\ Working(Queue(s, t), f, e, new)
           /\ Queue(s, t).ids = s.ids
           /\ Tracking(s, top) /\ t = top + 1 /\ new = t => Tracking(Queue(s, t), new)
<1> DEFINE n == Len(made)
           x == Queue(s, t)
           p == [trade |-> t, fresh |-> TRUE]
           q == Append(s.pending, p)
           held == Held(s.pending)
<1>1. /\ ActorOK(s, held, f, made, e, top) /\ s \in Actor(n, e, AnyCounts)
      /\ SeenOK(s.seen, held, n, top) /\ \A u \in s.dropped : u <= top
      /\ Len(s.pending) <= PendingLimit /\ Distinct(s.pending)
      /\ \A u \in held : ~IncludeUnattributed /\ made[u] # NoCid /\ ~Contains(s.ids, made[u])
      /\ \A u \in held : u <= top
  BY DEF Working, ActorOK, QueueOK, SeenOK
<1>2. /\ s.ids \in Seq(OwnCids(e)) /\ s.seen \in Seq(1..n) /\ s.pending \in Seq(Waiting(n))
      /\ s.dropped \in SUBSET (1..n) /\ s.synced \in BOOLEAN /\ s.pos \in Int
      /\ s.strategy \in AnyCounts /\ s.counted \in AnyCounts /\ s.rows \in Seq(1..n)
  BY <1>1 DEF Actor
<1>3. p \in Waiting(n) /\ p.trade = t /\ p.fresh
  BY DEF Waiting
<1>4. /\ q \in Seq(Waiting(n)) /\ Len(q) = Len(s.pending) + 1
      /\ Held(q) = held \cup {t} /\ FreshHeld(q) = FreshHeld(s.pending) \cup {t}
      /\ Distinct(q)
  <2> HIDE DEF p
  <2> QED BY <1>1, <1>2, <1>3, QueueAppend
<1>5. Held(s.pending) \subseteq 1..n /\ FreshHeld(s.pending) \subseteq Held(s.pending)
  BY <1>1, <1>2, QueueCounted
<1>6. ~IncludeUnattributed /\ made[t] # NoCid /\ ~Contains(s.ids, made[t])
  BY DEF Waits, Known
<1>7. ~Booked(s.seen, held, n, top, t)
  BY NotBooked
<1>8. \A u \in s.dropped : u <= new
  <2>1. \A u \in s.dropped : u \in Nat /\ u <= top
    BY <1>1, <1>2
  <2>2. QED
    BY <2>1
<1>9. ASSUME Tracking(s, top), s.synced, t = top + 1
      PROVE  Balanced(Net(1..t), s.pos, s.dropped, Held(q), FreshHeld(q))
  <2> DEFINE dr == s.dropped
             fh == FreshHeld(s.pending)
             ps == s.pos
  <2>1. /\ ps \in Int /\ dr \subseteq 1..n /\ held \subseteq 1..n
        /\ Balanced(Net(1..top), ps, dr, held, fh) /\ n \in Nat
    BY <1>1, <1>2, <1>5, <1>9 DEF Tracking, PosOK
  <2>2. dr \cup held \subseteq 1..top
    <3>1. \A u \in 1..n : u <= top => u \in 1..top
      OBVIOUS
    <3>2. QED
      BY <1>1, <2>1, <3>1
  <2> HIDE DEF dr, fh, ps, held, n
  <2>3. Balanced(Net(1..t), ps, dr, held \cup {t}, fh \cup {t})
    BY <1>9, <2>1, <2>2, PosQueued
  <2>4. QED
    BY <1>4, <2>3 DEF dr, fh, ps
(* What is shown of a queue r with the trades given up in g.               *)
<1> DEFINE Good(r, g) ==
        /\ Working([s EXCEPT !.pending = r, !.dropped = g], f, e, new)
        /\ [s EXCEPT !.pending = r, !.dropped = g].ids = s.ids
<1>10. ASSUME NEW r \in Seq(Waiting(n)), Held(r) \subseteq held \cup {t}, Distinct(r),
              Len(r) <= PendingLimit, NEW g \in SUBSET (1..n), \A u \in g : u <= new
       PROVE  Good(r, g)
  <2> DEFINE y == [s EXCEPT !.pending = r, !.dropped = g]
  <2> HIDE DEF q, p, x
  <2>1. /\ y \in Actor(n, e, AnyCounts) /\ y.ids = s.ids /\ y.seen = s.seen
        /\ y.strategy = s.strategy /\ y.counted = s.counted /\ y.rows = s.rows
        /\ y.dropped = g /\ y.pending = r
    BY <1>1, <1>2, <1>10 DEF Actor
  <2> HIDE DEF y, held
  <2>2. Cardinality(Held(r)) <= PendingLimit
    BY <1>10, QueueCounted
  <2>3. SeenOK(s.seen, Held(r), n, new)
    <3> DEFINE sn == s.seen
    <3>1. SeenOK(sn, held, n, top) /\ ~Contains(sn, t)
      BY <1>1
    <3> HIDE DEF sn
    <3>2. SeenOK(sn, Held(r), n, new)
      BY <1>10, <2>2, <3>1, SeenQueue
    <3>3. QED
      BY <3>2 DEF sn
  <2>4. \A u \in Held(r) : u \in held \/ ~Booked(s.seen, held, n, top, u)
    BY <1>7, <1>10
  <2>5. \A u \in y.dropped : u <= new
    BY <1>10, <2>1
  <2>6. ActorOK(y, Held(r), f, made, e, new)
    BY <1>1, <2>1, <2>3, <2>4, <2>5, ActorKept
  <2>7. QueueOK(y, made)
    BY <1>1, <1>6, <1>10, <2>1 DEF QueueOK
  <2>8. Working(y, f, e, new) /\ y.ids = s.ids
    BY <1>10, <2>1, <2>6, <2>7 DEF Working
  <2>9. QED
    BY <2>8 DEF y
<1> HIDE DEF Good, q, p, held
<1>11. CASE Len(q) <= PendingLimit
  <2>1. x = [s EXCEPT !.pending = q, !.dropped = s.dropped]
    BY <1>1, <1>11 DEF Queue, q, p, Actor
  <2>2. Good(q, s.dropped)
    BY <1>2, <1>4, <1>8, <1>10, <1>11
  <2>3. x.pos = s.pos /\ x.synced = s.synced /\ x.dropped = s.dropped /\ x.pending = q
    BY <1>1, <2>1 DEF Actor
  <2> HIDE DEF x
  <2>4. Tracking(s, top) /\ t = top + 1 /\ new = t => Tracking(x, new)
    BY <1>9, <2>3 DEF Tracking, PosOK
  <2>5. QED
    BY <2>1, <2>2, <2>4 DEF Good, x
<1>12. CASE ~ (Len(q) <= PendingLimit)
  <2> DEFINE h == Head(q).trade
             g == IF Head(q).fresh THEN s.dropped \cup {h} ELSE s.dropped
  <2>1. x = [s EXCEPT !.pending = Tail(q), !.dropped = g]
    BY <1>1, <1>12 DEF Queue, q, p, Actor
  <2>2. Len(s.pending) \in Nat /\ Len(q) > 0
    BY <1>2, <1>4
  <2>3. /\ Tail(q) \in Seq(Waiting(n)) /\ Len(Tail(q)) = Len(q) - 1
        /\ Head(q) \in Waiting(n) /\ h \in Held(q)
        /\ Held(Tail(q)) = Held(q) \ {h}
        /\ FreshHeld(Tail(q)) = FreshHeld(q) \ {h}
        /\ h \in FreshHeld(q) <=> Head(q).fresh
        /\ Distinct(Tail(q))
    BY <1>4, <2>2, QueueTail
  <2>4. Len(Tail(q)) <= PendingLimit
    BY <1>1, <1>4, <2>2, <2>3
  <2>5. h \in 1..n /\ h <= new
    <3>1. h = t \/ (h \in held /\ h \in 1..n)
      BY <1>4, <1>5, <2>3 DEF held
    <3>2. CASE h = t
      BY <3>2
    <3>3. CASE h \in held /\ h \in 1..n
      <4>1. h <= top /\ h \in Nat
        BY <1>1, <3>3
      <4>2. QED
        BY <3>3, <4>1
    <3>4. QED
      BY <3>1, <3>2, <3>3
  <2>6. g \in SUBSET (1..n) /\ \A u \in g : u <= new
    BY <1>2, <1>8, <2>5
  <2>7. Good(Tail(q), g)
    <3> HIDE DEF g, h
    <3>1. Held(Tail(q)) \subseteq held \cup {t}
      BY <1>4, <2>3
    <3>2. QED
      BY <1>10, <2>3, <2>4, <2>6, <3>1
  <2>8. ASSUME Tracking(s, top), s.synced, t = top + 1
        PROVE  Balanced(Net(1..t), s.pos, g, Held(Tail(q)), FreshHeld(Tail(q)))
    <3> DEFINE total == Net(1..t)
               ps == s.pos
               dr == s.dropped
               hq == Held(q)
               fq == FreshHeld(q)
    <3>1. /\ ps \in Int /\ dr \subseteq 1..n /\ hq \subseteq 1..n
          /\ Balanced(total, ps, dr, hq, fq) /\ h \in hq /\ n \in Nat
          /\ g = IF h \in fq THEN dr \cup {h} ELSE dr
      BY <1>2, <1>4, <1>5, <1>9, <2>3, <2>8 DEF held
    <3> HIDE DEF total, ps, dr, hq, fq, g, h, n
    <3>2. Balanced(total, ps, g, hq \ {h}, fq \ {h})
      BY <3>1, PosDropped
    <3>3. QED
      BY <2>3, <3>2 DEF total, ps, fq, hq
  <2> HIDE DEF g, h
  <2>9. x.pos = s.pos /\ x.synced = s.synced /\ x.dropped = g /\ x.pending = Tail(q)
    BY <1>1, <2>1 DEF Actor
  <2>10. Tracking(s, top) /\ t = top + 1 /\ new = t => Tracking(x, new)
    <3> HIDE DEF x
    <3> QED BY <2>8, <2>9 DEF Tracking, PosOK
  <2>11. QED
    BY <2>1, <2>7, <2>10 DEF Good
<1>13. QED
  BY <1>11, <1>12

LEMMA WorkingLater ==
    ASSUME Len(made) \in Nat, NEW e, NEW f, NEW top \in Nat, NEW new \in Nat,
           top <= new, new <= Len(made), NEW s, Working(s, f, e, top)
    PROVE  Working(s, f, e, new)
<1> DEFINE held == Held(s.pending)
           sn == s.seen
<1>1. /\ ActorOK(s, held, f, made, e, top) /\ s \in Actor(Len(made), e, AnyCounts)
      /\ SeenOK(sn, held, Len(made), top) /\ \A u \in s.dropped : u <= top
  BY DEF Working, ActorOK
<1>2. \A u \in s.dropped : u <= new
  <2>1. \A u \in s.dropped : u \in Nat /\ u <= top
    BY <1>1 DEF Actor
  <2>2. QED
    BY <2>1
<1>3. SeenOK(sn, held, Len(made), new)
  <2>1. Len(made) <= Len(made) /\ top <= Len(made)
    OBVIOUS
  <2> HIDE DEF sn, held
  <2>2. QED
    BY <1>1, <2>1, SeenLater
<1>4. ActorOK(s, held, f, made, e, new)
  <2> HIDE DEF held
  <2> QED BY <1>1, <1>2, <1>3, ActorKept
<1>5. QED
  BY <1>4 DEF Working

(* process_or_queue_trade.                                                 *)
LEMMA ProcessStep ==
    ASSUME Len(made) \in Nat, Len(made) <= MaxTrades, NEW e \in Nat, e >= 1,
           NEW f \in AnyCounts, NEW top \in Nat, NEW new \in Nat, top <= new, new <= Len(made),
           NEW s, Working(s, f, e, top),
           NEW t \in 1..Len(made), t <= new, Recent(t, Len(made), top)
    PROVE  /\ Working(ProcessOrQueue(s, t), f, e, new)
           /\ Tracking(s, top) /\ t = top + 1 /\ new = t => Tracking(ProcessOrQueue(s, t), new)
<1> DEFINE n == Len(made)
           held == Held(s.pending)
<1>1. /\ ActorOK(s, held, f, made, e, top) /\ s \in Actor(n, e, AnyCounts)
      /\ SeenOK(s.seen, held, n, top) /\ \A u \in s.dropped : u <= top
      /\ Len(s.pending) <= PendingLimit /\ Distinct(s.pending) /\ QueueOK(s, made)
      /\ \A u \in held : u <= top
      /\ s.seen \in Seq(1..n) /\ \A i \in 1..Len(s.seen) : s.seen[i] <= top
      /\ s.pending \in Seq(Waiting(n)) /\ s.dropped \subseteq 1..n /\ s.pos \in Int
  BY DEF Working, ActorOK, QueueOK, SeenOK, Actor
<1>2. held \subseteq 1..n
  BY <1>1, QueueCounted
<1>3. IsPending(s, t) <=> t \in held
  BY <1>1 DEF IsPending, Held
<1>4. CASE Contains(s.seen, t) \/ IsPending(s, t)
  <2>1. ProcessOrQueue(s, t) = s
    BY <1>4 DEF ProcessOrQueue
  <2>2. Working(s, f, e, new)
    BY WorkingLater
  <2>3. t <= top
    BY <1>1, <1>3, <1>4 DEF Contains
  <2>4. t # top + 1
    BY <2>3
  <2>5. QED
    BY <2>1, <2>2, <2>4
<1>5. CASE ~Contains(s.seen, t) /\ ~IsPending(s, t) /\ Waits(s, t)
  <2>1. ProcessOrQueue(s, t) = Queue(s, t)
    BY <1>5 DEF ProcessOrQueue
  <2>2. t \notin Held(s.pending)
    BY <1>3, <1>5
  <2>3. QED
    BY <1>5, <2>1, <2>2, QueueStep
<1>6. CASE ~Contains(s.seen, t) /\ ~IsPending(s, t) /\ ~Waits(s, t)
  <2> DEFINE x == Accept(s, t, TRUE)
  <2>1. ProcessOrQueue(s, t) = x
    BY <1>6 DEF ProcessOrQueue
  <2>2. ActorOK(x, held \ {t}, f, made, e, new)
    <3> HIDE DEF held
    <3> QED BY <1>1, <1>6, AcceptStep
  <2>3. held \ {t} = held
    BY <1>3, <1>6
  <2>4. Accepted(x, s, t, TRUE, n, e)
    <3>1. InsertBounded(s.seen, t) \in Seq(1..n)
      BY <1>1, <1>6, InsertPushes DEF SeenOK
    <3>2. t \in Trades
      BY Constants DEF Trades
    <3>3. QED
      BY <1>1, <3>1, <3>2, AcceptShape
  <2>5. /\ x.ids = s.ids /\ x.pending = s.pending /\ x.dropped = s.dropped
        /\ x.synced = s.synced /\ x.pos = s.pos + Net({t})
    BY <2>4 DEF Accepted
  <2> HIDE DEF x
  <2>6. Working(x, f, e, new)
    BY <1>1, <2>2, <2>3, <2>5 DEF Working, QueueOK
  <2>7. ASSUME Tracking(s, top), t = top + 1, new = t PROVE Tracking(x, new)
    <3> SUFFICES ASSUME s.synced
                 PROVE  Balanced(Net(1..t), s.pos + Net({t}), s.dropped, held, FreshHeld(s.pending))
      BY <2>5, <2>7 DEF Tracking, PosOK
    <3> DEFINE dr == s.dropped
               fh == FreshHeld(s.pending)
               ps == s.pos
    <3>1. /\ ps \in Int /\ dr \subseteq 1..n /\ held \subseteq 1..n
          /\ Balanced(Net(1..top), ps, dr, held, fh) /\ n \in Nat
      BY <1>1, <1>2, <2>7 DEF Tracking, PosOK
    <3> HIDE DEF dr, fh, ps, held, n
    <3>2. Balanced(Net(1..t), ps + Net({t}), dr, held, fh)
      BY <2>7, <3>1, PosNext
    <3>3. QED
      BY <3>2 DEF dr, fh, ps
  <2>8. QED
    BY <2>1, <2>6, <2>7
<1>7. QED
  BY <1>4, <1>5, <1>6

(* The trades of a queue from entry i + 1 on.                              *)
Left(q, i) == {q[j].trade : j \in i + 1..Len(q)}
FreshLeft(q, i) == {q[j].trade : j \in {k \in i + 1..Len(q) : q[k].fresh}}

LEMMA LeftStep ==
    ASSUME NEW n \in Nat, NEW q \in Seq(Waiting(n)), Distinct(q), NEW i \in 1..Len(q),
           NEW t, t = q[i].trade
    PROVE  /\ t \in 1..n /\ q[i] \in Waiting(n) /\ q[i].fresh \in BOOLEAN
           /\ Left(q, i - 1) = Left(q, i) \cup {t} /\ t \notin Left(q, i)
           /\ FreshLeft(q, i - 1) = FreshLeft(q, i) \cup (IF q[i].fresh THEN {t} ELSE {})
           /\ FreshLeft(q, i) \subseteq Left(q, i)
<1>1. /\ \A j \in i - 1 + 1..Len(q) : j = i \/ j \in i + 1..Len(q)
      /\ \A j \in i + 1..Len(q) : j \in i - 1 + 1..Len(q) /\ j # i /\ j \in 1..Len(q)
      /\ i \in i - 1 + 1..Len(q)
  OBVIOUS
<1>2. q[i] \in Waiting(n)
  OBVIOUS
<1>3. t \in 1..n /\ q[i].fresh \in BOOLEAN
  BY <1>2 DEF Waiting
<1>4. t \notin Left(q, i)
  BY <1>1 DEF Left, Distinct
<1>5. Left(q, i - 1) = Left(q, i) \cup {t}
  <2>1. \A x \in Left(q, i - 1) : x \in Left(q, i) \/ x = t
    BY <1>1 DEF Left
  <2>2. \A x \in Left(q, i) : x \in Left(q, i - 1)
    BY <1>1 DEF Left
  <2>3. t \in Left(q, i - 1)
    BY <1>1 DEF Left
  <2>4. QED
    BY <2>1, <2>2, <2>3
<1>6. FreshLeft(q, i - 1) = FreshLeft(q, i) \cup (IF q[i].fresh THEN {t} ELSE {})
  <2>1. \A x \in FreshLeft(q, i - 1) : x \in FreshLeft(q, i) \/ (q[i].fresh /\ x = t)
    BY <1>1 DEF FreshLeft
  <2>2. \A x \in FreshLeft(q, i) : x \in FreshLeft(q, i - 1)
    BY <1>1 DEF FreshLeft
  <2>3. q[i].fresh => t \in FreshLeft(q, i - 1)
    BY <1>1 DEF FreshLeft
  <2>4. QED
    BY <2>1, <2>2, <2>3
<1>7. FreshLeft(q, i) \subseteq Left(q, i)
  BY DEF FreshLeft, Left
<1>8. QED
  BY <1>2, <1>3, <1>4, <1>5, <1>6, <1>7

(* retry_pending when it has dealt with the first i entries of q.          *)
Retrying(s, q, i, f, e, top) ==
    /\ ActorOK(s, Held(s.pending) \cup Left(q, i), f, made, e, top)
    /\ Len(s.pending) <= i /\ QueueOK(s, made)
    /\ Held(s.pending) \cap Left(q, i) = {}

RetryTracking(s, q, i, top) ==
    PosOK(s, Held(s.pending) \cup Left(q, i), FreshHeld(s.pending) \cup FreshLeft(q, i), top)

LEMMA RetryStep ==
    ASSUME Len(made) \in Nat, Len(made) <= MaxTrades, NEW e \in Nat, e >= 1,
           NEW f \in AnyCounts, NEW top \in Nat, top <= Len(made),
           NEW q \in Seq(Waiting(Len(made))), Distinct(q), NEW i \in 1..Len(q),
           NEW s, Retrying(s, q, i - 1, f, e, top)
    PROVE  /\ Retrying(RetryOne(s, q[i]), q, i, f, e, top)
           /\ RetryTracking(s, q, i - 1, top) => RetryTracking(RetryOne(s, q[i]), q, i, top)
<1> DEFINE n == Len(made)
           t == q[i].trade
           held == Held(s.pending) \cup Left(q, i - 1)
           fresh == FreshHeld(s.pending) \cup FreshLeft(q, i - 1)
           x == RetryOne(s, q[i])
<1>1. /\ ActorOK(s, held, f, made, e, top) /\ s \in Actor(n, e, AnyCounts)
      /\ SeenOK(s.seen, held, n, top) /\ held \subseteq 1..n
      /\ \A u \in s.dropped : u <= top
      /\ Len(s.pending) <= i - 1 /\ Distinct(s.pending)
      /\ \A u \in Held(s.pending) : ~IncludeUnattributed /\ made[u] # NoCid /\ ~Contains(s.ids, made[u])
      /\ \A u \in held : ~Contains(s.seen, u) /\ u <= top
      /\ s.pending \in Seq(Waiting(n)) /\ s.dropped \subseteq 1..n /\ s.pos \in Int
      /\ s.seen \in Seq(1..n) /\ Len(s.seen) <= IdSetCap
      /\ Held(s.pending) \cap Left(q, i - 1) = {}
  BY DEF Retrying, ActorOK, QueueOK, SeenOK, Actor
<1>2. /\ t \in 1..n /\ q[i] \in Waiting(n) /\ q[i].fresh \in BOOLEAN
      /\ Left(q, i - 1) = Left(q, i) \cup {t} /\ t \notin Left(q, i)
      /\ FreshLeft(q, i - 1) = FreshLeft(q, i) \cup (IF q[i].fresh THEN {t} ELSE {})
      /\ FreshLeft(q, i) \subseteq Left(q, i)
  BY LeftStep
<1>3. t \in held /\ t \notin Held(s.pending)
  BY <1>1, <1>2
<1>4. ~Contains(s.seen, t) /\ t <= top
  BY <1>1, <1>3
<1>5. CASE Waits(s, t)
  <2> DEFINE r == Append(s.pending, q[i])
  <2>1. x = [s EXCEPT !.pending = r]
    BY <1>1, <1>4, <1>5 DEF RetryOne, Actor
  <2>2. /\ r \in Seq(Waiting(n)) /\ Len(r) = Len(s.pending) + 1
        /\ Held(r) = Held(s.pending) \cup {t}
        /\ FreshHeld(r) = FreshHeld(s.pending) \cup (IF q[i].fresh THEN {t} ELSE {})
        /\ Distinct(r)
    BY <1>1, <1>2, <1>3, QueueAppend
  <2> HIDE DEF r, x
  <2>3. /\ x \in Actor(n, e, AnyCounts) /\ x.ids = s.ids /\ x.seen = s.seen
        /\ x.strategy = s.strategy /\ x.counted = s.counted /\ x.rows = s.rows
        /\ x.dropped = s.dropped /\ x.pending = r /\ x.pos = s.pos /\ x.synced = s.synced
    BY <1>1, <2>1, <2>2 DEF Actor
  <2>4. Held(r) \cup Left(q, i) = held /\ FreshHeld(r) \cup FreshLeft(q, i) = fresh
    BY <1>2, <2>2
  <2>5. ActorOK(x, held, f, made, e, top)
    <3> HIDE DEF held
    <3>1. \A u \in x.dropped : u <= top
      BY <1>1, <2>3
    <3>2. top <= top
      OBVIOUS
    <3>3. QED
      BY <1>1, <2>3, <3>1, <3>2, ActorKept
  <2>6. QueueOK(x, made)
    <3>1. ~IncludeUnattributed /\ made[t] # NoCid /\ ~Contains(s.ids, made[t])
      BY <1>5 DEF Waits, Known
    <3>2. QED
      BY <1>1, <2>2, <2>3, <3>1 DEF QueueOK
  <2>7. Len(r) <= i /\ Held(r) \cap Left(q, i) = {}
    <3>1. Len(s.pending) \in Nat
      BY <1>1
    <3>2. Len(r) <= i
      BY <1>1, <2>2, <3>1
    <3>3. QED
      BY <1>1, <1>2, <2>2, <3>2
  <2>8. Retrying(x, q, i, f, e, top)
    BY <2>3, <2>4, <2>5, <2>6, <2>7 DEF Retrying
  <2>9. RetryTracking(s, q, i - 1, top) => RetryTracking(x, q, i, top)
    BY <2>3, <2>4 DEF RetryTracking, PosOK
  <2>10. QED
    BY <2>8, <2>9 DEF x
<1>6. CASE ~Waits(s, t)
  <2> DEFINE fr == q[i].fresh
  <2>1. x = Accept(s, t, fr)
    BY <1>4, <1>6 DEF RetryOne
  <2>2. ActorOK(Accept(s, t, fr), held \ {t}, f, made, e, top)
    <3>1. top <= top /\ fr \in BOOLEAN /\ t \in 1..Len(made)
      BY <1>2
    <3> HIDE DEF held, fr, t
    <3>2. QED
      BY <1>1, <1>3, <1>4, <1>6, <3>1, AcceptStep
  <2>3. Accepted(Accept(s, t, fr), s, t, fr, n, e)
    <3>1. InsertBounded(s.seen, t) \in Seq(1..n)
      BY <1>1, <1>2, <1>4, InsertPushes
    <3>2. t \in Trades
      BY <1>2, Constants DEF Trades
    <3>3. fr \in BOOLEAN
      BY <1>2
    <3> HIDE DEF t, fr
    <3>4. QED
      BY <1>1, <1>2, <3>1, <3>2, <3>3, AcceptShape
  <2> HIDE DEF x
  <2>4. /\ x.ids = s.ids /\ x.pending = s.pending /\ x.dropped = s.dropped
        /\ x.synced = s.synced /\ x.pos = (IF fr THEN s.pos + Net({t}) ELSE s.pos)
    BY <2>1, <2>3 DEF Accepted
  <2>5. Held(s.pending) \cup Left(q, i) = held \ {t}
    BY <1>2, <1>3
  <2>6. FreshHeld(s.pending) \cup FreshLeft(q, i) = fresh \ {t} /\ (t \in fresh <=> fr)
    <3>1. FreshHeld(s.pending) \subseteq Held(s.pending)
      BY <1>1, QueueCounted
    <3>2. t \notin FreshHeld(s.pending) /\ t \notin FreshLeft(q, i)
      BY <1>2, <1>3, <3>1
    <3>3. QED
      BY <1>2, <3>2
  <2>7. Retrying(x, q, i, f, e, top)
    <3>1. ActorOK(x, Held(x.pending) \cup Left(q, i), f, made, e, top)
      BY <2>1, <2>2, <2>4, <2>5
    <3>2. Len(x.pending) <= i
      <4>1. Len(s.pending) \in Nat
        BY <1>1
      <4>2. QED
        BY <1>1, <2>4, <4>1
    <3>3. QueueOK(x, made)
      BY <1>1, <2>4 DEF QueueOK
    <3>4. Held(x.pending) \cap Left(q, i) = {}
      BY <1>1, <1>2, <2>4
    <3>5. QED
      BY <3>1, <3>2, <3>3, <3>4 DEF Retrying
  <2>8. ASSUME RetryTracking(s, q, i - 1, top) PROVE RetryTracking(x, q, i, top)
    <3> SUFFICES ASSUME s.synced
                 PROVE  Balanced(Net(1..top), x.pos, s.dropped, held \ {t}, fresh \ {t})
      BY <2>4, <2>5, <2>6 DEF RetryTracking, PosOK
    <3> DEFINE dr == s.dropped
               ps == s.pos
               after == x.pos
               total == Net(1..top)
    <3>1. /\ ps \in Int /\ dr \subseteq 1..n /\ held \subseteq 1..n /\ n \in Nat
          /\ Balanced(total, ps, dr, held, fresh) /\ t \in held
          /\ after = IF t \in fresh THEN ps + Net({t}) ELSE ps
      BY <1>1, <1>3, <2>4, <2>6, <2>8 DEF RetryTracking, PosOK
    <3> HIDE DEF dr, ps, after, total, held, fresh, n, t
    <3>2. Balanced(total, after, dr, held \ {t}, fresh \ {t})
      BY <3>1, PosBooked
    <3>3. QED
      BY <3>2 DEF dr, after, total
  <2>9. QED
    BY <2>7, <2>8 DEF x
<1>7. QED
  BY <1>5, <1>6

-----------------------------------------------------------------------------
(* MESSAGES                                                                *)

(* The trades of a message, the actor having met reach[i] of them after    *)
(* the i-th.                                                               *)
LEMMA ProcessLoop ==
    ASSUME Len(made) \in Nat, Len(made) <= MaxTrades, NEW e \in Nat, e >= 1, NEW f \in AnyCounts,
           NEW xs, Len(xs) \in Nat, NEW reach \in [0..Len(xs) -> 0..Len(made)],
           \A i \in 1..Len(xs) :
                /\ reach[i - 1] <= reach[i] /\ xs[i] \in 1..Len(made) /\ xs[i] <= reach[i]
                /\ Recent(xs[i], Len(made), reach[i - 1]),
           NEW s, Working(s, f, e, reach[0])
    PROVE  /\ Working(ProcessAll(s, xs), f, e, reach[Len(xs)])
           /\ /\ Tracking(s, reach[0])
              /\ \A i \in 1..Len(xs) : xs[i] = reach[i - 1] + 1 /\ reach[i] = xs[i]
              => Tracking(ProcessAll(s, xs), reach[Len(xs)])
<1> DEFINE exact == /\ Tracking(s, reach[0])
                    /\ \A i \in 1..Len(xs) : xs[i] = reach[i - 1] + 1 /\ reach[i] = xs[i]
<1>0. PICK run : ProcessRun(run, s, xs)
  BY ProcessAllSteps
<1>1. /\ run[0] = s
      /\ \A i \in 1..Len(xs) : run[i] = ProcessOrQueue(run[i - 1], xs[i])
      /\ ProcessAll(s, xs) = run[Len(xs)]
  BY <1>0 DEF ProcessRun
<1> DEFINE Good(i) == Working(run[i], f, e, reach[i]) /\ (exact => Tracking(run[i], reach[i]))
           S == {i \in 0..Len(xs) : Good(i)}
<1>2. 0 \in S
  BY <1>1
<1>3. ASSUME NEW i \in 1..Len(xs), i - 1 \in S PROVE i \in S
  <2>1. i \in 0..Len(xs) /\ i - 1 \in 0..Len(xs)
    OBVIOUS
  <2> DEFINE r == run[i - 1]
             top == reach[i - 1]
             new == reach[i]
             t == xs[i]
  <2>2. /\ Working(r, f, e, top) /\ (exact => Tracking(r, top))
        /\ run[i] = ProcessOrQueue(r, t)
    BY <1>1, <1>3
  <2>3. top \in Nat /\ new \in Nat /\ new <= Len(made)
    <3>1. reach[i - 1] \in 0..Len(made) /\ reach[i] \in 0..Len(made)
      BY <2>1
    <3>2. QED
      BY <3>1
  <2>4. top <= new /\ t \in 1..Len(made) /\ t <= new /\ Recent(t, Len(made), top)
    OBVIOUS
  <2>5. exact => t = top + 1 /\ new = t
    OBVIOUS
  <2> HIDE DEF r, top, t, exact, new
  <2>6. /\ Working(ProcessOrQueue(r, t), f, e, new)
        /\ Tracking(r, top) /\ t = top + 1 /\ new = t => Tracking(ProcessOrQueue(r, t), new)
    BY <2>2, <2>3, <2>4, ProcessStep
  <2>7. Working(run[i], f, e, new) /\ (exact => Tracking(run[i], new))
    BY <2>2, <2>5, <2>6
  <2>8. QED
    BY <2>1, <2>7 DEF new
<1> HIDE DEF S
<1>4. Len(xs) \in S
  <2>1. 0 \in S /\ \A i \in 1..Len(xs) : i - 1 \in S => i \in S
    BY <1>2, <1>3
  <2>2. \A i \in 0..Len(xs) : i \in S
    BY <2>1, UpTo, Zenon
  <2>3. QED
    BY <2>2
<1>5. QED
  BY <1>1, <1>4 DEF S

(* retry_pending.                                                          *)
LEMMA RetryLoop ==
    ASSUME Len(made) \in Nat, Len(made) <= MaxTrades, NEW e \in Nat, e >= 1, NEW f \in AnyCounts,
           NEW top \in Nat, top <= Len(made), NEW s, ActorOK(s, Held(s.pending), f, made, e, top),
           Distinct(s.pending), Len(s.pending) <= PendingLimit
    PROVE  /\ Working(RetryPending(s), f, e, top)
           /\ Tracking(s, top) => Tracking(RetryPending(s), top)
<1> DEFINE q == s.pending
           z == [s EXCEPT !.pending = <<>>]
           n == Len(made)
<1>1. s \in Actor(n, e, AnyCounts) /\ q \in Seq(Waiting(n)) /\ Len(q) \in Nat
      /\ SeenOK(s.seen, Held(q), n, top) /\ (\A u \in s.dropped : u <= top)
  BY DEF ActorOK, Actor
<1>0. PICK run : RetryRun(run, z, q)
  <2> HIDE DEF z, q
  <2> QED BY <1>1, RetryAllSteps
<1>2. /\ run[0] = z
      /\ \A i \in 1..Len(q) : run[i] = RetryOne(run[i - 1], q[i])
      /\ RetryAll(z, q) = run[Len(q)]
  BY <1>0 DEF RetryRun
<1>3. /\ z \in Actor(n, e, AnyCounts) /\ z.ids = s.ids /\ z.seen = s.seen
      /\ z.strategy = s.strategy /\ z.counted = s.counted /\ z.rows = s.rows
      /\ z.dropped = s.dropped /\ z.pending = <<>> /\ z.pos = s.pos /\ z.synced = s.synced
  <2> DEFINE none == <<>>
  <2>1. none \in Seq(Waiting(n)) /\ z = [s EXCEPT !.pending = none]
    OBVIOUS
  <2> HIDE DEF none, z
  <2>2. /\ z \in Actor(n, e, AnyCounts) /\ z.ids = s.ids /\ z.seen = s.seen
        /\ z.strategy = s.strategy /\ z.counted = s.counted /\ z.rows = s.rows
        /\ z.dropped = s.dropped /\ z.pending = none /\ z.pos = s.pos /\ z.synced = s.synced
    BY <1>1, <2>1 DEF Actor
  <2>3. QED
    BY <2>2 DEF none
<1>4. /\ Held(<<>>) = {} /\ FreshHeld(<<>>) = {} /\ Len(<<>>) <= 0
      /\ Left(q, 0) = Held(q) /\ FreshLeft(q, 0) = FreshHeld(q)
      /\ Left(q, Len(q)) = {} /\ FreshLeft(q, Len(q)) = {}
  <2>1. 1..Len(<<>>) = {} /\ Len(<<>>) <= 0 /\ 0 + 1 = 1
    OBVIOUS
  <2>2. Len(q) + 1..Len(q) = {}
    BY <1>1
  <2>3. Held(<<>>) = {} /\ FreshHeld(<<>>) = {}
    BY <2>1 DEF Held, FreshHeld
  <2>4. Left(q, 0) = Held(q) /\ FreshLeft(q, 0) = FreshHeld(q)
    BY <2>1 DEF Held, FreshHeld, Left, FreshLeft
  <2>5. Left(q, Len(q)) = {} /\ FreshLeft(q, Len(q)) = {}
    BY <2>2 DEF Left, FreshLeft
  <2>6. QED
    BY <2>1, <2>3, <2>4, <2>5
<1>5. RetryPending(s) = RetryAll(z, q)
  BY DEF RetryPending
<1> HIDE DEF z
<1>6. Retrying(z, q, 0, f, e, top)
  <2>1. ActorOK(z, Held(q), f, made, e, top)
    <3> DEFINE h == Held(q)
    <3>1. /\ ActorOK(s, h, f, made, e, top) /\ SeenOK(s.seen, h, Len(made), top)
          /\ \A u \in z.dropped : u <= top
      BY <1>1, <1>3
    <3>2. top <= top
      OBVIOUS
    <3> HIDE DEF h
    <3>3. ActorOK(z, h, f, made, e, top)
      BY <1>3, <3>1, <3>2, ActorKept
    <3>4. QED
      BY <3>3 DEF h
  <2>2. QueueOK(z, made)
    <3>1. Distinct(<<>>)
      <4>1. 1..Len(<<>>) = {}
        OBVIOUS
      <4>2. QED
        BY <4>1 DEF Distinct
    <3>2. QED
      BY <1>3, <1>4, <3>1 DEF QueueOK
  <2>3. Held(z.pending) \cup Left(q, 0) = Held(q) /\ Held(z.pending) \cap Left(q, 0) = {}
        /\ Len(z.pending) <= 0
    BY <1>3, <1>4
  <2>4. QED
    BY <2>1, <2>2, <2>3 DEF Retrying
<1>7. Tracking(s, top) => RetryTracking(z, q, 0, top)
  <2>1. {} \cup Held(q) = Held(q) /\ {} \cup FreshHeld(q) = FreshHeld(q)
    OBVIOUS
  <2>2. QED
    BY <1>3, <1>4, <2>1 DEF Tracking, RetryTracking, PosOK
<1> HIDE DEF q
<1> DEFINE exact == Tracking(s, top)
           S == {i \in 0..Len(q) : /\ Retrying(run[i], q, i, f, e, top)
                                   /\ exact => RetryTracking(run[i], q, i, top)}
<1>8. 0 \in S
  BY <1>1, <1>2, <1>6, <1>7
<1>9. ASSUME NEW i \in 1..Len(q), i - 1 \in S PROVE i \in S
  <2> DEFINE r == run[i - 1]
  <2>1. /\ Retrying(r, q, i - 1, f, e, top) /\ (exact => RetryTracking(r, q, i - 1, top))
        /\ run[i] = RetryOne(r, q[i]) /\ i \in 0..Len(q)
    BY <1>1, <1>2, <1>9
  <2>2. Distinct(q) /\ q \in Seq(Waiting(Len(made)))
    BY <1>1 DEF q
  <2> HIDE DEF r, exact
  <2>3. /\ Retrying(RetryOne(r, q[i]), q, i, f, e, top)
        /\ RetryTracking(r, q, i - 1, top) => RetryTracking(RetryOne(r, q[i]), q, i, top)
    BY <2>1, <2>2, RetryStep
  <2>4. QED
    BY <2>1, <2>3
<1>10. Len(q) \in S
  <2> HIDE DEF S
  <2>1. 0 \in S /\ \A i \in 1..Len(q) : i - 1 \in S => i \in S
    BY <1>8, <1>9
  <2>2. \A i \in 0..Len(q) : i \in S
    BY <1>1, <2>1, UpTo, Zenon
  <2>3. QED
    BY <1>1, <2>2
<1> DEFINE x == run[Len(q)]
<1>11. Retrying(x, q, Len(q), f, e, top) /\ (exact => RetryTracking(x, q, Len(q), top))
  BY <1>10
<1>12. x = RetryPending(s)
  BY <1>2, <1>5
<1> HIDE DEF x, exact
<1>13. /\ Held(x.pending) \cup Left(q, Len(q)) = Held(x.pending)
       /\ FreshHeld(x.pending) \cup FreshLeft(q, Len(q)) = FreshHeld(x.pending)
  BY <1>4
<1>14. x.pending \in Seq(Waiting(n))
  BY <1>11 DEF Retrying, ActorOK, Actor
<1>15. Len(x.pending) <= PendingLimit
  <2>1. Len(x.pending) \in Nat /\ Len(x.pending) <= Len(q)
    BY <1>11, <1>14 DEF Retrying
  <2>2. Len(q) <= PendingLimit
    BY DEF q
  <2>3. QED
    BY <1>1, <2>1, <2>2, Constants
<1>16. Working(x, f, e, top)
  BY <1>11, <1>13, <1>15 DEF Retrying, Working
<1>17. exact => Tracking(x, top)
  BY <1>11, <1>13 DEF RetryTracking, Tracking
<1>18. QED
  BY <1>12, <1>16, <1>17 DEF exact

(* The ids of a message.                                                   *)
LEMMA IdsLoop ==
    ASSUME NEW S, NEW ids \in Seq(S), Len(ids) <= IdSetCap, IsInjective(ids),
           NEW xs, Len(xs) \in Nat, \A i \in 1..Len(xs) : xs[i] \in S
    PROVE  /\ InsertAll(ids, xs) \in Seq(S)
           /\ Len(InsertAll(ids, xs)) <= IdSetCap /\ IsInjective(InsertAll(ids, xs))
<1>0. PICK run : InsertRun(run, ids, xs)
  BY InsertAllSteps
<1>1. /\ run[0] = ids
      /\ \A i \in 1..Len(xs) : run[i] = InsertBounded(run[i - 1], xs[i])
      /\ InsertAll(ids, xs) = run[Len(xs)]
  BY <1>0 DEF InsertRun
<1> DEFINE T == {i \in 0..Len(xs) : run[i] \in Seq(S) /\ Len(run[i]) <= IdSetCap /\ IsInjective(run[i])}
<1>2. 0 \in T
  BY <1>1
<1>3. ASSUME NEW i \in 1..Len(xs), i - 1 \in T PROVE i \in T
  <2> DEFINE r == run[i - 1]
             x == xs[i]
  <2>1. /\ r \in Seq(S) /\ Len(r) <= IdSetCap /\ IsInjective(r) /\ x \in S
        /\ run[i] = InsertBounded(r, x) /\ i \in 0..Len(xs)
    BY <1>1, <1>3
  <2> HIDE DEF r, x
  <2>2. CASE Contains(r, x)
    BY <2>1, <2>2 DEF InsertBounded
  <2>3. CASE ~Contains(r, x)
    <3> DEFINE y == InsertBounded(r, x)
    <3>1. y \in Seq(S) /\ \E d \in {0, 1} : Pushed(r, x, y, d)
      BY <2>1, <2>3, InsertPushes
    <3> HIDE DEF y
    <3>2. PICK d \in {0, 1} : Pushed(r, x, y, d)
      BY <3>1
    <3>3. Len(y) <= IdSetCap /\ IsInjective(y)
      BY <2>1, <2>3, <3>1, <3>2, PushedFacts
    <3>4. QED
      BY <2>1, <3>1, <3>3 DEF y
  <2>4. QED
    BY <2>2, <2>3
<1> HIDE DEF T
<1>4. Len(xs) \in T
  <2>1. 0 \in T /\ \A i \in 1..Len(xs) : i - 1 \in T => i \in T
    BY <1>2, <1>3
  <2>2. \A i \in 0..Len(xs) : i \in T
    BY <2>1, UpTo, Zenon
  <2>3. QED
    BY <2>2
<1>5. QED
  BY <1>1, <1>4 DEF T

(* update_position_from_account_all: a snapshot supersedes every waiting   *)
(* trade; without one the position is left alone.                          *)
LEMMA PositionStep ==
    ASSUME Len(made) \in Nat, NEW e, NEW f, NEW top \in Nat, top <= Len(made),
           NEW s, Working(s, f, e, top), NEW p \in Positions(top),
           Tracking(s, top) \/ p = Position(top, TRUE)
    PROVE  Working(UpdatePosition(s, p), f, e, top) /\ Tracking(UpdatePosition(s, p), top)
<1> DEFINE n == Len(made)
           q == s.pending
           r == [i \in DOMAIN q |-> [q[i] EXCEPT !.fresh = FALSE]]
           x == UpdatePosition(s, p)
<1>1. /\ ActorOK(s, Held(q), f, made, e, top) /\ s \in Actor(n, e, AnyCounts)
      /\ SeenOK(s.seen, Held(q), n, top) /\ \A u \in s.dropped : u <= top
      /\ Len(q) <= PendingLimit /\ QueueOK(s, made) /\ Distinct(q)
      /\ q \in Seq(Waiting(n)) /\ Len(q) \in Nat /\ DOMAIN q = 1..Len(q)
  BY DEF Working, ActorOK, QueueOK, Actor
<1>2. Net(1..top) \in Int
  BY NetNext
<1>3. CASE x = s /\ Tracking(s, top)
  BY <1>3
<1>4. CASE x = [s EXCEPT !.pos = Net(1..top), !.synced = TRUE, !.dropped = {}, !.pending = r]
  <2>1. /\ r \in Seq(Waiting(n)) /\ Len(r) = Len(q)
        /\ \A i \in 1..Len(q) : r[i].trade = q[i].trade /\ r[i].fresh = FALSE
    <3>1. \A i \in 1..Len(q) : q[i] \in Waiting(n)
      BY <1>1
    <3>2. \A w \in Waiting(n) : /\ [w EXCEPT !.fresh = FALSE] \in Waiting(n)
                                /\ [w EXCEPT !.fresh = FALSE].trade = w.trade
                                /\ [w EXCEPT !.fresh = FALSE].fresh = FALSE
      BY DEF Waiting
    <3>3. \A i \in 1..Len(q) : r[i] = [q[i] EXCEPT !.fresh = FALSE] /\ r[i] \in Waiting(n)
      BY <1>1, <3>1, <3>2
    <3>4. r = [i \in 1..Len(q) |-> r[i]]
      BY <1>1
    <3>5. \A i \in 1..Len(q) : r[i].trade = q[i].trade /\ r[i].fresh = FALSE
      BY <3>1, <3>2, <3>3
    <3> HIDE DEF r, q
    <3>6. r \in Seq(Waiting(n)) /\ Len(r) = Len(q)
      BY <1>1, <3>3, <3>4
    <3>7. QED
      BY <3>5, <3>6
  <2> DEFINE ps == Net(1..top)
             none == {}
  <2>2. none \subseteq 1..n /\ ps \in Int
    BY <1>2
  <2>3. x = [s EXCEPT !.pos = ps, !.synced = TRUE, !.dropped = none, !.pending = r]
    BY <1>4
  <2> HIDE DEF x, r, ps, none
  <2>4. /\ x \in Actor(n, e, AnyCounts) /\ x.ids = s.ids /\ x.seen = s.seen
        /\ x.strategy = s.strategy /\ x.counted = s.counted /\ x.rows = s.rows
        /\ x.dropped = none /\ x.pending = r /\ x.pos = ps
    BY <1>1, <2>1, <2>2, <2>3 DEF Actor
  <2>5. Held(r) = Held(q) /\ FreshHeld(r) = {} /\ Distinct(r)
    <3>1. Held(r) = Held(q)
      BY <2>1 DEF Held
    <3>2. FreshHeld(r) = {}
      BY <2>1 DEF FreshHeld
    <3>3. Distinct(r)
      BY <1>1, <2>1 DEF Distinct
    <3>4. QED
      BY <3>1, <3>2, <3>3
  <2>6. ActorOK(x, Held(q), f, made, e, top)
    <3> DEFINE h == Held(q)
    <3>1. /\ ActorOK(s, h, f, made, e, top) /\ SeenOK(s.seen, h, Len(made), top)
          /\ \A u \in x.dropped : u <= top
      BY <1>1, <2>4 DEF none
    <3>2. top <= top
      OBVIOUS
    <3> HIDE DEF h
    <3>3. ActorOK(x, h, f, made, e, top)
      BY <2>4, <3>1, <3>2, ActorKept
    <3>4. QED
      BY <3>3 DEF h
  <2>7. QueueOK(x, made)
    BY <1>1, <2>4, <2>5 DEF QueueOK
  <2>8. Working(x, f, e, top)
    BY <1>1, <2>1, <2>4, <2>5, <2>6, <2>7 DEF Working
  <2>9. Balanced(ps, ps, {}, Held(q), {})
    <3>1. ps = ps + Net({}) + Net({})
      BY <2>2, NetEmpty
    <3>2. QED
      BY <3>1 DEF Balanced
  <2>10. Tracking(x, top)
    BY <2>4, <2>5, <2>9 DEF Tracking, PosOK, none, ps
  <2>11. QED
    BY <2>8, <2>10 DEF x
<1>5. CASE p = NoPosition
  <2>1. x = s
    BY <1>5 DEF UpdatePosition, NoPosition
  <2>2. Tracking(s, top)
    BY <1>5 DEF NoPosition, Position
  <2>3. QED
    BY <1>3, <2>1, <2>2
<1>6. ASSUME NEW entry \in BOOLEAN, p = Position(top, entry)
      PROVE  Working(x, f, e, top) /\ Tracking(x, top)
  <2>1. p.seen /\ p.signed = Net(1..top) /\ p.entry = entry
    BY <1>6 DEF Position
  <2>2. CASE Net(1..top) # 0 /\ ~entry
    <3>1. x = s
      BY <2>1, <2>2 DEF UpdatePosition
    <3>2. p # Position(top, TRUE)
      <4>1. Position(top, TRUE).entry = TRUE
        BY DEF Position
      <4>2. QED
        BY <2>1, <2>2, <4>1
    <3>3. QED
      BY <1>3, <3>1, <3>2
  <2>3. CASE ~ (Net(1..top) # 0 /\ ~entry)
    <3>1. x = [s EXCEPT !.pos = Net(1..top), !.synced = TRUE, !.dropped = {}, !.pending = r]
      BY <1>1, <2>1, <2>3 DEF UpdatePosition, Actor
    <3>2. QED
      BY <1>4, <3>1
  <2>4. QED
    BY <2>2, <2>3
<1>7. QED
  BY <1>5, <1>6 DEF Positions

-----------------------------------------------------------------------------
(* ACTIONS                                                                 *)

LEMMA WorldFacts ==
    ASSUME PnlInv
    PROVE  /\ Len(made) \in Nat /\ Len(made) <= MaxTrades
           /\ delivered \in Nat /\ delivered <= Len(made)
           /\ epoch \in Nat /\ epoch >= 1 /\ epoch <= MaxEpoch
           /\ file \in AnyCounts
           /\ running => Working(a, file, epoch, delivered) /\ Tracking(a, delivered)
<1>1. WorldInv /\ StoredInv
  BY DEF PnlInv
<1>2. Len(made) \in Nat
  BY <1>1 DEF WorldInv
<1>3. delivered \in Nat /\ delivered <= Len(made)
  BY <1>1, <1>2 DEF WorldInv
<1>4. epoch \in Nat /\ epoch >= 1 /\ epoch <= MaxEpoch /\ Len(made) <= MaxTrades
  BY <1>1, Constants DEF WorldInv
<1>5. file \in AnyCounts
  BY <1>1 DEF StoredInv
<1>6. running => Working(a, file, epoch, delivered) /\ Tracking(a, delivered)
  BY DEF PnlInv, RunningInv, Working, Tracking
<1>7. QED
  BY <1>2, <1>3, <1>4, <1>5, <1>6

(* A message of the account stream keeps the actor's part.                 *)
LEMMA MessageStep ==
    ASSUME PnlInv, NEW top \in Nat, top <= Len(made), NEW s, Working(s, file, epoch, top),
           NEW p \in Positions(top), Tracking(s, top) \/ p = Position(top, TRUE)
    PROVE  LET x == UpdatePosition(RetryPending(s), p)
           IN  Working(x, file, epoch, top) /\ Tracking(x, top)
<1> DEFINE y == RetryPending(s)
<1>1. /\ ActorOK(s, Held(s.pending), file, made, epoch, top)
      /\ Distinct(s.pending) /\ Len(s.pending) <= PendingLimit
  BY DEF Working, QueueOK
<1>2. Working(y, file, epoch, top) /\ (Tracking(s, top) => Tracking(y, top))
  BY <1>1, WorldFacts, RetryLoop
<1>3. Tracking(y, top) \/ p = Position(top, TRUE)
  BY <1>2
<1> HIDE DEF y
<1>4. Working(UpdatePosition(y, p), file, epoch, top) /\ Tracking(UpdatePosition(y, p), top)
  BY <1>2, <1>3, WorldFacts, PositionStep
<1>5. QED
  BY <1>4 DEF y

(* An action of the actor that leaves what is stored alone.                *)
LEMMA ActorMoves ==
    ASSUME PnlInv, running, Working(a', file, epoch, delivered'), Tracking(a', delivered'),
           delivered' \in 0..Len(made), session' \in BOOLEAN,
           UNCHANGED <<made, epoch, running, file, disk>>
    PROVE  PnlInv'
<1>1. WorldInv /\ StoredInv
  BY DEF PnlInv
<1>2. WorldInv'
  BY <1>1 DEF WorldInv
<1>3. StoredInv'
  BY <1>1 DEF StoredInv
<1>4. RunningInv'
  BY DEF RunningInv, Working, Tracking
<1>5. QED
  BY <1>2, <1>3, <1>4 DEF PnlInv

LEMMA UpdateKeeps ==
    ASSUME PnlInv, NEW n \in delivered..Len(made), NEW p \in Positions(n), AccountUpdate(n, p)
    PROVE  PnlInv'
<1> DEFINE k == n - delivered
           xs == [i \in 1..k |-> delivered + i]
           reach == [i \in 0..k |-> delivered + i]
<1>1. /\ Len(made) \in Nat /\ Len(made) <= MaxTrades
      /\ delivered \in Nat /\ delivered <= Len(made)
      /\ epoch \in Nat /\ epoch >= 1 /\ file \in AnyCounts
  BY WorldFacts
<1>2. Working(a, file, epoch, delivered) /\ Tracking(a, delivered) /\ running
  BY WorldFacts DEF AccountUpdate
<1>3. k \in Nat /\ Len(xs) = k /\ n \in Nat /\ n <= Len(made) /\ delivered + k = n
  <2>1. k \in Nat /\ n \in Nat /\ n <= Len(made) /\ delivered + k = n
    BY <1>1
  <2> HIDE DEF k
  <2>2. Len(xs) = k
    BY <2>1
  <2>3. QED
    BY <2>1, <2>2
<1>4. reach \in [0..Len(xs) -> 0..Len(made)] /\ reach[0] = delivered /\ reach[Len(xs)] = n
  <2> HIDE DEF k
  <2>1. \A i \in 0..k : delivered + i \in 0..Len(made)
    BY <1>1, <1>3
  <2>2. reach \in [0..k -> 0..Len(made)] /\ reach[0] = delivered + 0 /\ reach[k] = delivered + k
    BY <1>3, <2>1
  <2>3. QED
    BY <1>1, <1>3, <2>2
<1>5. \A i \in 1..Len(xs) :
        /\ reach[i - 1] <= reach[i] /\ xs[i] \in 1..Len(made) /\ xs[i] <= reach[i]
        /\ Recent(xs[i], Len(made), reach[i - 1])
        /\ xs[i] = reach[i - 1] + 1 /\ reach[i] = xs[i]
  <2> HIDE DEF k
  <2> SUFFICES ASSUME NEW i \in 1..k
               PROVE  /\ reach[i - 1] <= reach[i] /\ xs[i] \in 1..Len(made) /\ xs[i] <= reach[i]
                      /\ Recent(xs[i], Len(made), reach[i - 1])
                      /\ xs[i] = reach[i - 1] + 1 /\ reach[i] = xs[i]
    BY <1>3
  <2>1. i \in 0..k /\ i - 1 \in 0..k
    BY <1>3
  <2>2. xs[i] = delivered + i /\ reach[i] = delivered + i /\ reach[i - 1] = delivered + (i - 1)
    BY <2>1
  <2>3. /\ reach[i - 1] <= reach[i] /\ xs[i] \in 1..Len(made) /\ xs[i] <= reach[i]
        /\ xs[i] = reach[i - 1] + 1 /\ xs[i] > reach[i - 1]
    BY <1>1, <1>3, <2>2
  <2>4. QED
    BY <2>2, <2>3 DEF Recent
<1>6. a' = UpdatePosition(RetryPending(ProcessAll(a, xs)), p)
  BY DEF AccountUpdate, HandleAccountAll
<1> HIDE DEF xs, reach, k
<1>7. Working(ProcessAll(a, xs), file, epoch, n) /\ Tracking(ProcessAll(a, xs), n)
  <2>1. Working(a, file, epoch, reach[0]) /\ Tracking(a, reach[0]) /\ Len(xs) \in Nat
    BY <1>2, <1>3, <1>4
  <2>2. Working(ProcessAll(a, xs), file, epoch, reach[Len(xs)])
        /\ Tracking(ProcessAll(a, xs), reach[Len(xs)])
    BY <1>1, <1>4, <1>5, <2>1, ProcessLoop
  <2>3. QED
    BY <1>4, <2>2
<1>8. Working(a', file, epoch, n) /\ Tracking(a', n)
  <2> DEFINE s == ProcessAll(a, xs)
  <2>1. Working(s, file, epoch, n) /\ Tracking(s, n)
    BY <1>7
  <2> HIDE DEF s
  <2>2. LET x == UpdatePosition(RetryPending(s), p) IN Working(x, file, epoch, n) /\ Tracking(x, n)
    BY <1>3, <2>1, MessageStep
  <2>3. QED
    BY <1>6, <2>2 DEF s
<1>9. delivered' = n /\ UNCHANGED <<made, session, epoch, running, file, disk>>
  BY DEF AccountUpdate
<1>10. delivered' \in 0..Len(made) /\ session' \in BOOLEAN
  <2>1. session \in BOOLEAN
    BY DEF PnlInv, WorldInv
  <2>2. QED
    BY <1>1, <1>3, <1>9, <2>1
<1>11. QED
  BY <1>2, <1>8, <1>9, <1>10, ActorMoves

(* A new subscription repeats at most Window trades, and its position      *)
(* takes the place of the local one.                                       *)
LEMMA SubscribeKeeps ==
    ASSUME PnlInv, NEW w \in 0..Window, Subscribe(w)
    PROVE  PnlInv'
<1> DEFINE n == Len(made)
           xs == [i \in 1..w |-> n - w + i]
           reach == [i \in 0..w |-> n]
           p == Position(n, TRUE)
<1>1. /\ n \in Nat /\ n <= MaxTrades
      /\ delivered \in Nat /\ delivered <= n
      /\ epoch \in Nat /\ epoch >= 1 /\ file \in AnyCounts
  BY WorldFacts
<1>2. Working(a, file, epoch, delivered) /\ running
  BY WorldFacts DEF Subscribe
<1>3. w \in Nat /\ w <= Window /\ w <= n /\ Len(xs) = w
  BY Constants DEF Subscribe
<1>4. reach \in [0..Len(xs) -> 0..n] /\ reach[0] = n /\ reach[Len(xs)] = n
  BY <1>1, <1>3
<1>5. \A i \in 1..Len(xs) :
        /\ reach[i - 1] <= reach[i] /\ xs[i] \in 1..n /\ xs[i] <= reach[i]
        /\ Recent(xs[i], n, reach[i - 1])
  <2> SUFFICES ASSUME NEW i \in 1..w
               PROVE  /\ reach[i - 1] <= reach[i] /\ xs[i] \in 1..n /\ xs[i] <= reach[i]
                      /\ Recent(xs[i], n, reach[i - 1])
    BY <1>3
  <2>1. xs[i] = n - w + i /\ reach[i] = n /\ reach[i - 1] = n
    BY <1>3
  <2>2. n <= n /\ n - w + i \in 1..n /\ n - w + i <= n /\ n - w + i > n - Window
    BY <1>1, <1>3, Constants
  <2>3. QED
    BY <2>1, <2>2 DEF Recent
<1>6. a' = UpdatePosition(RetryPending(ProcessAll(a, xs)), p) /\ delivered' = n /\ session' = TRUE
      /\ UNCHANGED <<made, epoch, running, file, disk>>
  BY DEF Subscribe, HandleAccountAll
<1>7. p \in Positions(n)
  BY DEF Positions
<1> HIDE DEF xs, reach, p
<1>8. Working(ProcessAll(a, xs), file, epoch, n)
  <2>1. Working(a, file, epoch, n)
    <3>1. n <= n
      BY <1>1
    <3>2. QED
      BY <1>1, <1>2, <3>1, WorkingLater
  <2>2. Working(a, file, epoch, reach[0]) /\ Len(xs) \in Nat
    BY <1>3, <1>4, <2>1
  <2>3. Working(ProcessAll(a, xs), file, epoch, reach[Len(xs)])
    BY <1>1, <1>4, <1>5, <2>2, ProcessLoop
  <2>4. QED
    BY <1>4, <2>3
<1>9. Working(a', file, epoch, n) /\ Tracking(a', n)
  <2> DEFINE s == ProcessAll(a, xs)
  <2>1. Working(s, file, epoch, n) /\ p = Position(n, TRUE) /\ n <= Len(made) /\ n \in Nat
    BY <1>1, <1>8 DEF p
  <2> HIDE DEF s, n
  <2>2. LET x == UpdatePosition(RetryPending(s), p) IN Working(x, file, epoch, n) /\ Tracking(x, n)
    BY <1>7, <2>1, MessageStep
  <2>3. QED
    BY <1>6, <2>2 DEF s
<1>10. delivered' \in 0..Len(made) /\ session' \in BOOLEAN
  BY <1>1, <1>6
<1>11. QED
  BY <1>2, <1>6, <1>9, <1>10, ActorMoves

(* The ids of a batch arrive, and what waited for them is booked.          *)
LEMMA RegisterKeeps ==
    ASSUME PnlInv, NEW k \in 1..Cardinality(Cids), NEW ids \in [1..k -> OwnCids(epoch)],
           HandleRegisterClientIds(ids)
    PROVE  PnlInv'
<1> DEFINE all == InsertAll(a.ids, ids)
           s == [a EXCEPT !.ids = all]
           n == Len(made)
<1>1. /\ n \in Nat /\ n <= MaxTrades /\ delivered \in Nat /\ delivered <= n
      /\ epoch \in Nat /\ epoch >= 1 /\ file \in AnyCounts
  BY WorldFacts
<1>2. Working(a, file, epoch, delivered) /\ Tracking(a, delivered) /\ running
  BY WorldFacts DEF HandleRegisterClientIds
<1>3. /\ ActorOK(a, Held(a.pending), file, made, epoch, delivered)
      /\ a \in Actor(n, epoch, AnyCounts) /\ a.ids \in Seq(OwnCids(epoch))
      /\ Len(a.ids) <= IdSetCap /\ IsInjective(a.ids)
      /\ Distinct(a.pending) /\ Len(a.pending) <= PendingLimit
  BY <1>2 DEF Working, ActorOK, QueueOK, Actor
<1>4. k \in Nat /\ Len(ids) \in Nat /\ \A i \in 1..Len(ids) : ids[i] \in OwnCids(epoch)
  <2>1. IsFiniteSet(Cids)
    BY PnlAssumption DEF PnlAssumption
  <2>2. Cardinality(Cids) \in Nat
    BY <2>1, FS_CardinalityType
  <2>3. k \in Nat
    BY <2>2
  <2>4. Len(ids) = k
    BY <2>3
  <2>5. QED
    BY <2>3, <2>4
<1>5. all \in Seq(OwnCids(epoch)) /\ Len(all) <= IdSetCap /\ IsInjective(all)
  BY <1>3, <1>4, IdsLoop
<1>6. a' = RetryPending(s) /\ UNCHANGED <<made, delivered, session, epoch, running, file, disk>>
  BY DEF HandleRegisterClientIds
<1> HIDE DEF all
<1>7. /\ s \in Actor(n, epoch, AnyCounts) /\ s.ids = all /\ s.seen = a.seen
      /\ s.strategy = a.strategy /\ s.counted = a.counted /\ s.rows = a.rows
      /\ s.dropped = a.dropped /\ s.pending = a.pending /\ s.pos = a.pos /\ s.synced = a.synced
  BY <1>3, <1>5 DEF Actor
<1> HIDE DEF s
<1>8. ActorOK(s, Held(s.pending), file, made, epoch, delivered)
  <2>1. Logged(s, file) = Logged(a, file)
    BY <1>7 DEF Logged
  <2>2. QED
    BY <1>3, <1>5, <1>7, <2>1 DEF ActorOK
<1>9. Tracking(s, delivered)
  BY <1>2, <1>7 DEF Tracking, PosOK
<1>10. Distinct(s.pending) /\ Len(s.pending) <= PendingLimit
  BY <1>3, <1>7
<1>11. Working(RetryPending(s), file, epoch, delivered) /\ Tracking(RetryPending(s), delivered)
  BY <1>1, <1>8, <1>9, <1>10, RetryLoop
<1>12. Working(a', file, epoch, delivered') /\ Tracking(a', delivered')
  BY <1>6, <1>11
<1>13. delivered' \in 0..Len(made) /\ session' \in BOOLEAN
  <2>1. session \in BOOLEAN
    BY DEF PnlInv, WorldInv
  <2>2. QED
    BY <1>1, <1>6, <2>1
<1>14. QED
  BY <1>2, <1>6, <1>12, <1>13, ActorMoves

(* No count is above its limit, in the actor or in the log with the rows   *)
(* still buffered.                                                         *)
LEMMA WithinLimit ==
    ASSUME PnlInv, running, NEW t \in 1..Len(made)
    PROVE  a.counted[t] <= Limit(made, epoch, t) /\ Logged(a, file)[t] <= Limit(made, epoch, t)
<1>1. /\ Len(made) \in Nat /\ Len(made) <= MaxTrades /\ epoch \in Nat /\ epoch >= 1
      /\ file \in AnyCounts /\ Working(a, file, epoch, delivered)
  BY WorldFacts
<1> DEFINE held == Held(a.pending)
<1>2. /\ Once(a.counted, a.seen, held, made, epoch, delivered)
      /\ Once(Logged(a, file), a.seen, held, made, epoch, delivered)
      /\ a \in Actor(Len(made), epoch, AnyCounts)
  BY <1>1 DEF Working, ActorOK
<1>3. a.counted \in AnyCounts /\ Logged(a, file) \in AnyCounts
  <2>1. a.counted \in AnyCounts
    BY <1>2 DEF Actor
  <2>2. Logged(a, file) \in AnyCounts
    BY <1>1, <1>2, LoggedType
  <2>3. QED
    BY <2>1, <2>2
<1>4. t \in Trades
  BY <1>1, Constants DEF Trades
<1> HIDE DEF held
<1>5. ASSUME NEW c \in AnyCounts, Once(c, a.seen, held, made, epoch, delivered)
      PROVE  c[t] <= Limit(made, epoch, t)
  <2>1. c[t] \in Nat
    BY <1>4 DEF AnyCounts
  <2>2. Before(made, epoch, t) \in Nat /\ Limit(made, epoch, t) \in Nat
        /\ Before(made, epoch, t) <= Limit(made, epoch, t)
    BY <1>1, Limits
  <2>3. c[t] <= Before(made, epoch, t) \/ c[t] <= Limit(made, epoch, t)
    BY <1>5 DEF Once
  <2>4. QED
    BY <2>1, <2>2, <2>3
<1>6. QED
  BY <1>2, <1>3, <1>5

(* Rows name trades that were made.                                        *)
LEMMA NoRowAhead ==
    ASSUME NEW n \in Nat, NEW rows \in Seq(1..n), NEW t, t \notin 1..n
    PROVE  RowCount(rows, t) = 0
<1>1. \A i \in 1..Len(rows) : rows[i] # t
  BY SMT
<1>2. {i \in 1..Len(rows) : rows[i] = t} = {}
  BY <1>1
<1>3. QED
  BY <1>2, FS_EmptySet DEF RowCount

(* flush_all: the rows that reach the file were in the buffer, the state   *)
(* that reaches the disk was the actor's.                                  *)
LEMMA FlushStores ==
    ASSUME PnlInv, NEW k \in 0..Len(a.rows), NEW saved \in BOOLEAN, FlushAll(k, saved),
           UNCHANGED <<made, epoch>>
    PROVE  /\ StoredInv'
           /\ \A t \in Trades : file'[t] <= Logged(a, file)[t]
<1> DEFINE n == Len(made)
           part == [t \in Trades |-> Cardinality({i \in 1..k : a.rows[i] = t})]
           now == [pos |-> a.pos, strategy |-> a.strategy, counted |-> a.counted]
<1>1. /\ n \in Nat /\ n <= MaxTrades /\ epoch \in Nat /\ epoch >= 1 /\ running
      /\ file \in AnyCounts /\ Working(a, file, epoch, delivered) /\ StoredInv
  BY WorldFacts DEF FlushAll, PnlInv
<1>2. /\ a \in Actor(n, epoch, AnyCounts) /\ a.rows \in Seq(1..n) /\ a.pos \in Int
      /\ a.strategy \in AnyCounts /\ a.counted \in AnyCounts
      /\ \A t \in Trades : a.strategy[t] <= a.counted[t] /\ (t > n => a.counted[t] = 0)
  BY <1>1 DEF Working, ActorOK, Actor
<1>3. file' = [t \in Trades |-> file[t] + Cardinality({i \in 1..k : a.rows[i] = t})]
      /\ disk' = IF saved THEN now ELSE disk
  BY DEF FlushAll, WriteRows
<1>4. ASSUME NEW t \in Trades
      PROVE  /\ file'[t] \in Nat /\ Logged(a, file)[t] \in Nat /\ file'[t] <= Logged(a, file)[t]
             /\ t > n => file'[t] = 0
  <2> DEFINE A == {i \in 1..k : a.rows[i] = t}
             B == {i \in 1..Len(a.rows) : a.rows[i] = t}
  <2>1. Len(a.rows) \in Nat /\ A \subseteq B /\ B \subseteq 1..Len(a.rows) /\ A \subseteq 1..Len(a.rows)
    BY <1>2
  <2>2. file'[t] = file[t] + Cardinality(A) /\ Logged(a, file)[t] = file[t] + Cardinality(B)
    BY <1>3 DEF Logged, RowCount
  <2>3. t > n => Cardinality(B) = 0
    <3>1. t > n => t \notin 1..n
      BY <1>1
    <3>2. t > n => RowCount(a.rows, t) = 0
      BY <1>1, <1>2, <3>1, NoRowAhead
    <3>3. QED
      BY <3>2 DEF RowCount
  <2>4. file[t] \in Nat /\ (t > n => file[t] = 0)
    BY <1>1 DEF AnyCounts, StoredInv
  <2> HIDE DEF A, B
  <2>5. Cardinality(A) <= Cardinality(B) /\ Cardinality(A) \in Nat /\ Cardinality(B) \in Nat
    BY <2>1, SmallerSet, TradesFinite
  <2>6. QED
    BY <2>2, <2>3, <2>4, <2>5
<1>5. file' \in AnyCounts
  <2>1. file' = [t \in Trades |-> file'[t]]
    BY <1>3
  <2>2. QED
    BY <1>4, <2>1 DEF AnyCounts
<1>6. disk' \in [pos : Int, strategy : AnyCounts, counted : AnyCounts]
  <2>1. now \in [pos : Int, strategy : AnyCounts, counted : AnyCounts]
    BY <1>2
  <2>2. QED
    BY <1>1, <1>3, <2>1 DEF StoredInv
<1>7. ASSUME NEW t \in 1..n
      PROVE  disk'.counted[t] <= Limit(made, epoch, t) /\ file'[t] <= Limit(made, epoch, t)
  <2>1. t \in Trades
    BY <1>1, Constants DEF Trades
  <2>2. a.counted[t] <= Limit(made, epoch, t) /\ Logged(a, file)[t] <= Limit(made, epoch, t)
    BY <1>1, WithinLimit
  <2>3. file'[t] <= Limit(made, epoch, t)
    <3>1. Limit(made, epoch, t) \in Nat
      BY <1>1, Limits
    <3>2. QED
      BY <1>4, <2>1, <2>2, <3>1
  <2>4. disk'.counted[t] <= Limit(made, epoch, t)
    BY <1>1, <1>3, <2>2 DEF StoredInv
  <2>5. QED
    BY <2>3, <2>4
<1>8. \A t \in Trades : disk'.strategy[t] <= disk'.counted[t] /\ (t > n => disk'.counted[t] = 0)
  <2>1. \A t \in Trades : now.strategy[t] <= now.counted[t] /\ (t > n => now.counted[t] = 0)
    BY <1>2
  <2>2. \A t \in Trades : disk.strategy[t] <= disk.counted[t] /\ (t > n => disk.counted[t] = 0)
    BY <1>1 DEF StoredInv
  <2> HIDE DEF now
  <2>3. QED
    BY <1>3, <2>1, <2>2
<1>9. StoredInv'
  BY <1>4, <1>5, <1>6, <1>7, <1>8 DEF StoredInv
<1>10. QED
  BY <1>4, <1>9

LEMMA TickKeeps ==
    ASSUME PnlInv, NEW k \in 0..Len(a.rows), NEW saved \in BOOLEAN, Tick(k, saved)
    PROVE  PnlInv'
<1> DEFINE n == Len(made)
           held == Held(a.pending)
           none == <<>>
<1>1. /\ n \in Nat /\ n <= MaxTrades /\ epoch \in Nat /\ epoch >= 1 /\ running
      /\ file \in AnyCounts /\ Working(a, file, epoch, delivered) /\ Tracking(a, delivered)
  BY WorldFacts DEF Tick, FlushAll
<1>2. FlushAll(k, saved) /\ a' = [a EXCEPT !.rows = none]
      /\ UNCHANGED <<made, delivered, session, epoch, running>>
  BY DEF Tick, RowsLeft
<1>3. StoredInv' /\ \A t \in Trades : file'[t] <= Logged(a, file)[t]
  <2>1. UNCHANGED <<made, epoch>>
    BY <1>2
  <2>2. QED
    BY <1>2, <2>1, FlushStores
<1>4. WorldInv'
  BY <1>2 DEF PnlInv, WorldInv
<1>5. none \in Seq(1..n) /\ Len(none) = 0 /\ 1..Len(none) = {}
  OBVIOUS
<1>6. \A t : RowCount(none, t) = 0
  <2>1. \A t : {i \in 1..Len(none) : none[i] = t} = {}
    BY <1>5
  <2>2. QED
    BY <2>1, FS_EmptySet DEF RowCount
<1> HIDE DEF none
<1>7. /\ ActorOK(a, held, file, made, epoch, delivered) /\ a \in Actor(n, epoch, AnyCounts)
      /\ Once(a.counted, a.seen, held, made, epoch, delivered)
      /\ Once(Logged(a, file), a.seen, held, made, epoch, delivered)
  BY <1>1 DEF Working, ActorOK
<1>8. /\ a' \in Actor(n, epoch, AnyCounts) /\ a'.ids = a.ids /\ a'.seen = a.seen
      /\ a'.strategy = a.strategy /\ a'.counted = a.counted /\ a'.rows = none
      /\ a'.dropped = a.dropped /\ a'.pending = a.pending /\ a'.pos = a.pos /\ a'.synced = a.synced
  BY <1>2, <1>5, <1>7 DEF Actor
<1>9. Once(Logged(a', file'), a.seen, held, made, epoch, delivered)
  <2> SUFFICES ASSUME NEW t \in 1..n
               PROVE  \/ Logged(a', file')[t] <= Before(made, epoch, t)
                      \/ /\ Booked(a.seen, held, n, delivered, t)
                         /\ Logged(a', file')[t] <= Limit(made, epoch, t)
    BY DEF Once
  <2>1. t \in Trades
    BY <1>1, Constants DEF Trades
  <2>2. file' \in AnyCounts /\ file'[t] \in Nat
    BY <1>3, <2>1 DEF StoredInv, AnyCounts
  <2>3. Logged(a', file')[t] = file'[t] + 0
    BY <1>6, <1>8, <2>1 DEF Logged
  <2>4. Logged(a, file)[t] \in Nat
    BY <1>1, <1>7, <2>1, LoggedType DEF AnyCounts
  <2>5. Logged(a', file')[t] <= Logged(a, file)[t] /\ Logged(a', file')[t] \in Nat
    BY <1>3, <2>1, <2>2, <2>3
  <2>6. Before(made, epoch, t) \in Nat /\ Limit(made, epoch, t) \in Nat
    BY <1>1, Limits
  <2>7. \/ Logged(a, file)[t] <= Before(made, epoch, t)
        \/ Booked(a.seen, held, n, delivered, t) /\ Logged(a, file)[t] <= Limit(made, epoch, t)
    BY <1>7 DEF Once
  <2> DEFINE x == Logged(a', file')[t]
             y == Logged(a, file)[t]
             lo == Before(made, epoch, t)
             hi == Limit(made, epoch, t)
  <2>8. x <= y /\ x \in Nat /\ y \in Nat /\ lo \in Nat /\ hi \in Nat
    BY <2>4, <2>5, <2>6
  <2>9. (y <= lo => x <= lo) /\ (y <= hi => x <= hi)
    <3> HIDE DEF x, y, lo, hi
    <3> QED BY <2>8
  <2>10. QED
    BY <2>7, <2>9
<1>10. RunningInv'
  <2>1. ActorOK(a', held, file', made, epoch, delivered)
    BY <1>7, <1>8, <1>9 DEF ActorOK
  <2>2. Len(a'.pending) <= PendingLimit /\ QueueOK(a', made)
    BY <1>1, <1>8 DEF Working, QueueOK
  <2>3. PosOK(a', held, FreshHeld(a.pending), delivered)
    BY <1>1, <1>8 DEF Tracking, PosOK
  <2>4. QED
    BY <1>2, <1>8, <2>1, <2>2, <2>3 DEF RunningInv
<1>11. QED
  BY <1>1, <1>2, <1>3, <1>4, <1>10 DEF PnlInv

LEMMA StoppedKeeps ==
    ASSUME PnlInv, Stopped, StoredInv'
    PROVE  PnlInv'
<1>1. WorldInv'
  BY DEF Stopped, PnlInv, WorldInv
<1>2. running' = FALSE /\ a' = NewActor(NewState)
  BY DEF Stopped
<1>3. a' = NewActor(NewState)'
  BY <1>2 DEF NewActor, NewState, Zero, Trades
<1>4. QED
  BY <1>1, <1>2, <1>3 DEF PnlInv

LEMMA ShutdownKeeps ==
    ASSUME PnlInv, NEW k \in 0..Len(a.rows), NEW saved \in BOOLEAN, Shutdown(k, saved)
    PROVE  PnlInv'
<1>1. FlushAll(k, saved) /\ Stopped /\ UNCHANGED <<made, epoch>>
  BY DEF Shutdown, Stopped
<1>2. StoredInv'
  BY <1>1, FlushStores
<1>3. QED
  BY <1>1, <1>2, StoppedKeeps

LEMMA CrashKeeps ==
    ASSUME PnlInv, Crash
    PROVE  PnlInv'
<1>1. Stopped /\ UNCHANGED <<file, disk>> /\ UNCHANGED <<made, epoch>>
  BY DEF Crash, Stopped
<1>2. StoredInv'
  BY <1>1 DEF PnlInv, StoredInv
<1>3. QED
  BY <1>1, <1>2, StoppedKeeps

LEMMA SessionLostKeeps ==
    ASSUME PnlInv, SessionLost
    PROVE  PnlInv'
<1>1. session' = FALSE /\ UNCHANGED <<made, delivered, epoch, running, a, file, disk>>
  BY DEF SessionLost
<1>2. WorldInv' /\ StoredInv'
  BY <1>1 DEF PnlInv, WorldInv, StoredInv
<1>3. running' => RunningInv'
  BY <1>1 DEF PnlInv, RunningInv
<1>4. ~running' => a' = NewActor(NewState)'
  BY <1>1 DEF PnlInv, NewActor, NewState, Zero, Trades
<1>5. QED
  BY <1>2, <1>3, <1>4 DEF PnlInv

(* A process starts with what was stored: no trade is above what the       *)
(* processes before it could have booked.                                  *)
LEMMA FreshActor ==
    ASSUME NEW m, Len(m) \in Nat, NEW e \in Nat, e >= 1, NEW f \in AnyCounts,
           NEW state \in [pos : Int, strategy : AnyCounts, counted : AnyCounts],
           \A t \in Trades : /\ state.strategy[t] <= state.counted[t]
                             /\ t > Len(m) => state.counted[t] = 0,
           \A t \in 1..Len(m) : t \in Trades /\ state.counted[t] <= Before(m, e, t) /\ f[t] <= Before(m, e, t),
           NEW top \in Nat
    PROVE  LET x == NewActor(state)
           IN  /\ ActorOK(x, Held(x.pending), f, m, e, top)
               /\ Len(x.pending) <= PendingLimit /\ QueueOK(x, m)
               /\ PosOK(x, Held(x.pending), FreshHeld(x.pending), top)
<1> DEFINE x == NewActor(state)
           none == <<>>
           n == Len(m)
<1>1. /\ \A S : none \in Seq(S)
      /\ Len(none) = 0 /\ 1..Len(none) = {}
  OBVIOUS
<1>2. /\ Held(none) = {} /\ Distinct(none) /\ IsInjective(none) /\ \A y : ~Contains(none, y)
  <2>1. DOMAIN none = {}
    OBVIOUS
  <2>2. QED
    BY <1>1, <2>1 DEF Held, Distinct, IsInjective, Contains
<1>3. /\ state.pos \in Int /\ state.strategy \in AnyCounts /\ state.counted \in AnyCounts
  OBVIOUS
<1>4. {} \subseteq 1..n /\ FALSE \in BOOLEAN
  OBVIOUS
<1>5. x = [ids |-> none, seen |-> none, pending |-> none, dropped |-> {}, synced |-> FALSE,
           pos |-> state.pos, strategy |-> state.strategy, counted |-> state.counted, rows |-> none]
  BY DEF NewActor
<1> HIDE DEF x, none
<1>6. /\ x.ids = none /\ x.seen = none /\ x.pending = none /\ x.dropped = {} /\ x.synced = FALSE
      /\ x.pos = state.pos /\ x.strategy = state.strategy /\ x.counted = state.counted
      /\ x.rows = none
  BY <1>5
<1>7. x \in Actor(n, e, AnyCounts)
  BY <1>1, <1>3, <1>4, <1>5 DEF Actor
<1>8. SeenOK(none, {}, n, top)
  BY <1>1, <1>2, <1>4, FS_EmptySet, Constants DEF SeenOK
<1>9. Once(state.counted, none, {}, m, e, top)
  BY DEF Once
<1>10. Once(Logged(x, f), none, {}, m, e, top)
  <2>1. \A t : RowCount(none, t) = 0
    <3>1. \A t : {i \in 1..Len(none) : none[i] = t} = {}
      BY <1>1
    <3>2. QED
      BY <3>1, FS_EmptySet DEF RowCount
  <2>2. \A t \in 1..n : t \in Trades /\ f[t] \in Nat
    BY DEF AnyCounts
  <2>3. \A t \in 1..n : Logged(x, f)[t] = f[t] + 0
    BY <1>6, <2>1, <2>2 DEF Logged
  <2>4. \A t \in 1..n : Logged(x, f)[t] = f[t]
    BY <2>2, <2>3
  <2>5. QED
    BY <2>4 DEF Once
<1>11. ActorOK(x, {}, f, m, e, top)
  BY <1>1, <1>2, <1>6, <1>7, <1>8, <1>9, <1>10, Constants DEF ActorOK
<1>12. Len(x.pending) <= PendingLimit /\ QueueOK(x, m)
  BY <1>1, <1>2, <1>6, Constants DEF QueueOK
<1>13. PosOK(x, Held(x.pending), FreshHeld(x.pending), top)
  BY <1>6 DEF PosOK
<1>14. QED
  BY <1>2, <1>6, <1>11, <1>12, <1>13 DEF x

LEMMA NewStateFacts ==
    /\ NewState \in [pos : Int, strategy : AnyCounts, counted : AnyCounts]
    /\ \A t \in Trades : NewState.strategy[t] = 0 /\ NewState.counted[t] = 0
    /\ Zero \in AnyCounts /\ \A t \in Trades : Zero[t] = 0
<1>1. Zero \in AnyCounts /\ \A t \in Trades : Zero[t] = 0
  BY DEF Zero, AnyCounts
<1>2. NewState.strategy = Zero /\ NewState.counted = Zero /\ NewState.pos = 0
  BY DEF NewState
<1>3. NewState \in [pos : Int, strategy : AnyCounts, counted : AnyCounts]
  <2> DEFINE z == 0
  <2>1. z \in Int /\ NewState = [pos |-> z, strategy |-> Zero, counted |-> Zero]
    BY DEF NewState
  <2> HIDE DEF z
  <2>2. QED
    BY <1>1, <2>1
<1>4. QED
  BY <1>1, <1>2, <1>3

LEMMA InitPnl == Init => PnlInv
<1> SUFFICES ASSUME Init PROVE PnlInv
  OBVIOUS
<1>1. /\ made = <<>> /\ delivered = 0 /\ session = FALSE /\ epoch = 1 /\ running = TRUE
      /\ a = NewActor(NewState) /\ file = Zero /\ disk = NewState
  BY DEF Init
<1>2. Len(made) = 0 /\ 1..Len(made) = {} /\ \A S : made \in Seq(S)
  BY <1>1
<1>3. WorldInv
  <2>1. Len(made) <= MaxTrades /\ delivered \in 0..Len(made) /\ epoch \in 1..MaxEpoch
    BY <1>1, <1>2, Constants
  <2>2. made \in Seq({NoCid} \cup (1..epoch) \X Cids)
    BY <1>2, Zenon
  <2>3. QED
    BY <1>1, <2>1, <2>2, Zenon DEF WorldInv
<1>4. StoredInv
  BY <1>1, <1>2, NewStateFacts DEF StoredInv
<1>5. RunningInv
  <2> DEFINE f == Zero
             st == NewState
  <2>1. /\ f \in AnyCounts /\ st \in [pos : Int, strategy : AnyCounts, counted : AnyCounts]
        /\ (\A t \in Trades : /\ st.strategy[t] <= st.counted[t]
                              /\ t > Len(made) => st.counted[t] = 0)
        /\ (\A t \in 1..Len(made) : t \in Trades /\ st.counted[t] <= Before(made, 1, t)
                                    /\ f[t] <= Before(made, 1, t))
        /\ 1 \in Nat /\ 1 >= 1 /\ 0 \in Nat /\ Len(made) \in Nat
    BY <1>2, NewStateFacts
  <2> DEFINE e == 1
             top == 0
  <2> HIDE DEF f, st
  <2>2. LET x == NewActor(st)
        IN  /\ ActorOK(x, Held(x.pending), f, made, e, top)
            /\ Len(x.pending) <= PendingLimit /\ QueueOK(x, made)
            /\ PosOK(x, Held(x.pending), FreshHeld(x.pending), top)
    BY <2>1, FreshActor
  <2>3. QED
    BY <1>1, <2>2 DEF RunningInv, f, st
<1>6. QED
  BY <1>1, <1>3, <1>4, <1>5 DEF PnlInv

(* What a process may have booked is what its successors may find: no      *)
(* trade has a client id of a process that has not run.                    *)
LEMMA NextProcess ==
    ASSUME NEW e \in Nat, e >= 1, NEW m \in Seq({NoCid} \cup (1..e) \X Cids), NEW t \in 1..Len(m)
    PROVE  /\ Before(m, e + 1, t) = Limit(m, e, t)
           /\ Limit(m, e, t) <= Limit(m, e + 1, t)
<1>1. m[t] \in {NoCid} \cup (1..e) \X Cids
  OBVIOUS
<1>2. CASE Anonymous(m, t)
  BY <1>2 DEF Before, Limit
<1>3. CASE ~Anonymous(m, t)
  <2>1. m[t] \in (1..e) \X Cids
    BY <1>1, <1>3 DEF Anonymous
  <2>2. m[t] \notin OwnCids(e + 1)
    <3>1. PICK b \in 1..e, c \in Cids : m[t] = <<b, c>>
      BY <2>1
    <3>2. b # e + 1
      OBVIOUS
    <3>3. QED
      BY <3>1, <3>2 DEF OwnCids
  <2>3. QED
    BY <1>3, <2>2 DEF Before, Limit
<1>4. QED
  BY <1>2, <1>3

LEMMA RestartKeeps ==
    ASSUME PnlInv, NEW readable \in BOOLEAN, Restart(readable)
    PROVE  PnlInv'
<1> DEFINE n == Len(made)
           e == epoch + 1
           state == IF readable THEN disk ELSE NewState
<1>1. /\ n \in Nat /\ n <= MaxTrades /\ delivered \in Nat /\ delivered <= n
      /\ epoch \in Nat /\ epoch >= 1 /\ file \in AnyCounts
  BY WorldFacts
<1>2. /\ ~running /\ epoch < MaxEpoch /\ epoch' = e /\ running' = TRUE /\ a' = NewActor(state)
      /\ UNCHANGED <<made, delivered, session, file, disk>>
  BY DEF Restart
<1>3. WorldInv /\ StoredInv
  BY DEF PnlInv
<1>4. made \in Seq({NoCid} \cup (1..epoch) \X Cids)
  BY <1>3 DEF WorldInv
<1>5. WorldInv'
  <2>1. e \in 1..MaxEpoch /\ 1..epoch \subseteq 1..e
    BY <1>1, <1>2, Constants
  <2>2. {NoCid} \cup (1..epoch) \X Cids \subseteq {NoCid} \cup (1..e) \X Cids
    <3> HIDE DEF e
    <3> QED BY <2>1
  <2>3. made \in Seq({NoCid} \cup (1..e) \X Cids)
    <3> DEFINE A == {NoCid} \cup (1..epoch) \X Cids
               B == {NoCid} \cup (1..e) \X Cids
    <3>1. made \in Seq(A) /\ A \subseteq B
      BY <1>4, <2>2
    <3> HIDE DEF A, B
    <3>2. made \in Seq(B)
      BY <3>1
    <3>3. QED
      BY <3>2 DEF B
  <2> HIDE DEF e
  <2>4. QED
    BY <1>2, <1>3, <2>1, <2>3 DEF WorldInv
<1>6. \A t \in 1..n : /\ Before(made, e, t) = Limit(made, epoch, t)
                      /\ Limit(made, epoch, t) <= Limit(made, e, t)
                      /\ Limit(made, epoch, t) \in Nat /\ Limit(made, e, t) \in Nat
                      /\ t \in Trades
  <2>1. \A t \in 1..n : /\ Before(made, e, t) = Limit(made, epoch, t)
                        /\ Limit(made, epoch, t) <= Limit(made, e, t)
    BY <1>1, <1>4, NextProcess
  <2>2. e \in Nat /\ e >= 1
    BY <1>1
  <2>3. \A t : Limit(made, epoch, t) \in Nat /\ Limit(made, e, t) \in Nat
    <3> HIDE DEF e
    <3> QED BY <1>1, <2>2, Limits
  <2>4. \A t \in 1..n : t \in Trades
    BY <1>1, Constants DEF Trades
  <2>5. QED
    BY <2>1, <2>3, <2>4
<1>7. \A t \in 1..n : /\ disk.counted[t] <= Limit(made, epoch, t) /\ file[t] <= Limit(made, epoch, t)
                      /\ disk.counted[t] \in Nat /\ file[t] \in Nat
  <2>1. disk.counted \in AnyCounts /\ file \in AnyCounts
    BY <1>3 DEF StoredInv
  <2>2. \A t \in 1..n : disk.counted[t] \in Nat /\ file[t] \in Nat
    BY <1>6, <2>1 DEF AnyCounts
  <2>3. QED
    BY <1>3, <2>2 DEF StoredInv
<1>8. StoredInv'
  <2>1. \A t \in 1..n : disk.counted[t] <= Limit(made, e, t) /\ file[t] <= Limit(made, e, t)
    <3> SUFFICES ASSUME NEW t \in 1..n
                 PROVE  disk.counted[t] <= Limit(made, e, t) /\ file[t] <= Limit(made, e, t)
      OBVIOUS
    <3> HIDE DEF e
    <3>1. QED
      BY <1>6, <1>7
  <2> HIDE DEF e
  <2>2. QED
    BY <1>2, <1>3, <2>1 DEF StoredInv
<1>9. /\ state \in [pos : Int, strategy : AnyCounts, counted : AnyCounts]
      /\ \A t \in Trades : /\ state.strategy[t] <= state.counted[t]
                           /\ t > n => state.counted[t] = 0
      /\ \A t \in 1..n : /\ t \in Trades /\ state.counted[t] <= Before(made, e, t)
                         /\ file[t] <= Before(made, e, t)
  <2> HIDE DEF e
  <2>1. CASE readable
    <3>1. state = disk
      BY <2>1
    <3> HIDE DEF state
    <3>2. QED
      BY <1>3, <1>6, <1>7, <3>1 DEF StoredInv
  <2>2. CASE ~readable
    <3>1. state = NewState
      BY <2>2
    <3> HIDE DEF state
    <3>2. \A t \in 1..n : NewState.counted[t] <= Before(made, e, t)
      BY <1>6, NewStateFacts
    <3>3. \A t \in Trades : NewState.strategy[t] <= NewState.counted[t] /\ NewState.counted[t] = 0
      BY NewStateFacts
    <3>4. \A t \in 1..n : t \in Trades /\ file[t] <= Before(made, e, t)
      BY <1>6, <1>7
    <3>5. QED
      BY <3>1, <3>2, <3>3, <3>4, NewStateFacts
  <2>3. QED
    BY <2>1, <2>2
<1>10. RunningInv'
  <2>1. e \in Nat /\ e >= 1
    BY <1>1
  <2> HIDE DEF e, state
  <2>2. LET x == NewActor(state)
        IN  /\ ActorOK(x, Held(x.pending), file, made, e, delivered)
            /\ Len(x.pending) <= PendingLimit /\ QueueOK(x, made)
            /\ PosOK(x, Held(x.pending), FreshHeld(x.pending), delivered)
    BY <1>1, <1>9, <2>1, FreshActor
  <2>3. QED
    BY <1>2, <2>2 DEF RunningInv
<1>11. QED
  BY <1>2, <1>5, <1>8, <1>10 DEF PnlInv

(* The exchange makes a trade: what was too old to be repeated stays so.   *)
LEMMA TradeKeeps ==
    ASSUME PnlInv, NEW cid \in {NoCid} \cup (1..epoch) \X Cids, Trade(cid)
    PROVE  PnlInv'
<1> DEFINE n == Len(made)
           m == Append(made, cid)
           Ids == {NoCid} \cup (1..epoch) \X Cids
<1>1. /\ n \in Nat /\ n <= MaxTrades /\ delivered \in Nat /\ delivered <= n
      /\ epoch \in Nat /\ epoch >= 1 /\ file \in AnyCounts
  BY WorldFacts
<1>2. n < MaxTrades /\ made' = m /\ UNCHANGED <<delivered, session, epoch, running, a, file, disk>>
  BY DEF Trade
<1>3. WorldInv /\ StoredInv
  BY DEF PnlInv
<1>4. made \in Seq(Ids) /\ cid \in Ids
  BY <1>3 DEF WorldInv
<1>5. /\ m \in Seq(Ids) /\ Len(m) = n + 1 /\ \A t \in 1..n : m[t] = made[t]
  <2> HIDE DEF Ids
  <2> QED BY <1>4
<1> HIDE DEF m
<1>6. WorldInv'
  <2>1. n + 1 <= MaxTrades /\ delivered \in 0..n + 1
    BY <1>1, <1>2, Constants
  <2>2. QED
    BY <1>2, <1>3, <1>5, <2>1 DEF WorldInv
<1>7. \A t \in 1..n : Limit(m, epoch, t) = Limit(made, epoch, t) /\ Before(m, epoch, t) = Before(made, epoch, t)
  BY <1>5 DEF Limit, Before, Anonymous
<1>8. \A t : Limit(m, epoch, t) \in Nat /\ Before(m, epoch, t) \in Nat
  BY <1>1, Limits
<1>9. /\ \A t \in 1..n + 1 : t \in 1..n \/ t = n + 1
      /\ n + 1 \in Trades /\ n + 1 > n
      /\ \A t \in Trades : t > n + 1 => t > n
  <2>1. \A t \in 1..n + 1 : t \in 1..n \/ t = n + 1
    BY <1>1
  <2>2. n + 1 \in Trades /\ n + 1 > n
    BY <1>1, <1>2, Constants DEF Trades
  <2>3. \A t \in Trades : t > n + 1 => t > n
    BY <1>1 DEF Trades
  <2>4. QED
    BY <2>1, <2>2, <2>3
<1>10. StoredInv'
  <2>1. disk.counted[n + 1] = 0 /\ file[n + 1] = 0
    BY <1>3, <1>9 DEF StoredInv
  <2>2. \A t \in 1..n + 1 : disk.counted[t] <= Limit(m, epoch, t) /\ file[t] <= Limit(m, epoch, t)
    BY <1>3, <1>7, <1>8, <1>9, <2>1 DEF StoredInv
  <2>3. QED
    BY <1>2, <1>3, <1>5, <1>9, <2>2 DEF StoredInv
<1>11. ASSUME running PROVE RunningInv'
  <2> DEFINE held == Held(a.pending)
  <2>1. /\ ActorOK(a, held, file, made, epoch, delivered)
        /\ a \in Actor(n, epoch, AnyCounts)
        /\ SeenOK(a.seen, held, n, delivered)
        /\ \A u \in Trades : a.strategy[u] <= a.counted[u] /\ (u > n => a.counted[u] = 0)
        /\ Once(a.counted, a.seen, held, made, epoch, delivered)
        /\ Once(Logged(a, file), a.seen, held, made, epoch, delivered)
        /\ Len(a.pending) <= PendingLimit /\ QueueOK(a, made)
        /\ PosOK(a, held, FreshHeld(a.pending), delivered)
    BY <1>11 DEF PnlInv, RunningInv, ActorOK
  <2>2. /\ a.ids \in Seq(OwnCids(epoch)) /\ a.seen \in Seq(1..n) /\ a.pending \in Seq(Waiting(n))
        /\ a.dropped \in SUBSET (1..n) /\ a.synced \in BOOLEAN /\ a.pos \in Int
        /\ a.strategy \in AnyCounts /\ a.counted \in AnyCounts /\ a.rows \in Seq(1..n)
    BY <2>1 DEF Actor
  <2>3. a \in Actor(n + 1, epoch, AnyCounts)
    <3>1. 1..n \subseteq 1..n + 1
      BY <1>1
    <3>2. Waiting(n) \subseteq Waiting(n + 1)
      BY <3>1 DEF Waiting
    <3>3. a.seen \in Seq(1..n + 1) /\ a.rows \in Seq(1..n + 1) /\ a.pending \in Seq(Waiting(n + 1))
          /\ a.dropped \in SUBSET (1..n + 1)
      BY <2>2, <3>1, <3>2
    <3>4. a = [ids |-> a.ids, seen |-> a.seen, pending |-> a.pending, dropped |-> a.dropped,
               synced |-> a.synced, pos |-> a.pos, strategy |-> a.strategy, counted |-> a.counted,
               rows |-> a.rows]
      BY <2>1 DEF Actor
    <3>5. QED
      BY <2>2, <3>3, <3>4 DEF Actor
  <2>4. SeenOK(a.seen, held, n + 1, delivered)
    <3> DEFINE sn == a.seen
               l == n + 1
    <3>1. /\ SeenOK(sn, held, n, delivered) /\ l \in Nat /\ n <= l /\ delivered <= delivered
      BY <1>1, <2>1
    <3> HIDE DEF sn, held, l, n
    <3>2. SeenOK(sn, held, l, delivered)
      BY <1>1, <3>1, SeenLater
    <3>3. QED
      BY <3>2 DEF sn, l
  <2>5. ASSUME NEW c, Once(c, a.seen, held, made, epoch, delivered), c[n + 1] = 0
        PROVE  Once(c, a.seen, held, m, epoch, delivered)
    <3> SUFFICES ASSUME NEW t \in 1..n + 1
                 PROVE  \/ c[t] <= Before(m, epoch, t)
                        \/ Booked(a.seen, held, n + 1, delivered, t) /\ c[t] <= Limit(m, epoch, t)
      BY <1>5 DEF Once
    <3> HIDE DEF held
    <3>1. CASE t = n + 1
      BY <1>8, <2>5, <3>1
    <3>2. CASE t \in 1..n
      <4>1. \/ c[t] <= Before(made, epoch, t)
            \/ Booked(a.seen, held, n, delivered, t) /\ c[t] <= Limit(made, epoch, t)
        BY <2>5, <3>2 DEF Once
      <4> DEFINE l == n + 1
      <4>2. t <= n - Window => t <= l - Window
        BY <1>1, <3>2, Constants
      <4>3. ASSUME Booked(a.seen, held, n, delivered, t)
            PROVE  Booked(a.seen, held, n + 1, delivered, t)
        <5>1. t <= delivered /\ t \notin held /\ (Contains(a.seen, t) \/ t <= n - Window)
          BY <4>3 DEF Booked
        <5>2. Contains(a.seen, t) \/ t <= l - Window
          <6> HIDE DEF l, n
          <6> QED BY <4>2, <5>1
        <5> HIDE DEF l
        <5>3. Booked(a.seen, held, l, delivered, t)
          BY <5>1, <5>2 DEF Booked
        <5>4. QED
          BY <5>3 DEF l
      <4>4. QED
        BY <1>7, <3>2, <4>1, <4>3
    <3>3. QED
      BY <1>9, <3>1, <3>2
  <2>6. a.counted[n + 1] = 0 /\ Logged(a, file)[n + 1] = 0
    <3>1. n + 1 \notin 1..n
      BY <1>1
    <3>2. RowCount(a.rows, n + 1) = 0
      BY <1>1, <2>2, <3>1, NoRowAhead
    <3>3. file[n + 1] = 0
      BY <1>3, <1>9 DEF StoredInv
    <3>4. Logged(a, file)[n + 1] = 0 + 0
      BY <1>9, <3>2, <3>3 DEF Logged
    <3>5. QED
      BY <1>9, <2>1, <3>4
  <2>7. ActorOK(a, held, file, m, epoch, delivered)
    <3>1. /\ Once(a.counted, a.seen, held, m, epoch, delivered)
          /\ Once(Logged(a, file), a.seen, held, m, epoch, delivered)
      BY <2>1, <2>5, <2>6
    <3>2. \A u \in Trades : a.strategy[u] <= a.counted[u] /\ (u > n + 1 => a.counted[u] = 0)
      BY <1>9, <2>1
    <3>3. Len(a.ids) <= IdSetCap /\ IsInjective(a.ids) /\ \A t \in a.dropped : t <= delivered
      BY <2>1 DEF ActorOK
    <3>4. QED
      BY <1>5, <2>3, <2>4, <3>1, <3>2, <3>3 DEF ActorOK
  <2>8. QueueOK(a, m)
    <3>1. held \subseteq 1..n
      BY <2>1 DEF SeenOK
    <3>2. QED
      BY <1>5, <2>1, <3>1 DEF QueueOK
  <2>9. QED
    BY <1>2, <2>1, <2>7, <2>8 DEF RunningInv
<1>12. ~running' => a' = NewActor(NewState)'
  BY <1>2 DEF PnlInv, NewActor, NewState, Zero, Trades
<1>13. QED
  BY <1>2, <1>6, <1>10, <1>11, <1>12 DEF PnlInv

LEMMA NextPnl == PnlInv /\ [Next]_vars => PnlInv'
<1> SUFFICES ASSUME PnlInv, [Next]_vars PROVE PnlInv'
  OBVIOUS
<1>1. CASE \E cid \in {NoCid} \cup (1..epoch) \X Cids : Trade(cid)
  BY <1>1, TradeKeeps
<1>2. CASE \E n \in 1..Cardinality(Cids) : \E ids \in [1..n -> OwnCids(epoch)] :
                HandleRegisterClientIds(ids)
  BY <1>2, RegisterKeeps
<1>3. CASE \E n \in delivered..Len(made) : \E p \in Positions(n) : AccountUpdate(n, p)
  BY <1>3, UpdateKeeps
<1>4. CASE \E w \in 0..Window : Subscribe(w)
  BY <1>4, SubscribeKeeps
<1>5. CASE \E n \in 0..Len(a.rows), saved \in BOOLEAN : Tick(n, saved) \/ Shutdown(n, saved)
  BY <1>5, TickKeeps, ShutdownKeeps
<1>6. CASE \E readable \in BOOLEAN : Restart(readable)
  BY <1>6, RestartKeeps
<1>7. CASE SessionLost
  BY <1>7, SessionLostKeeps
<1>8. CASE Crash
  BY <1>8, CrashKeeps
<1>9. CASE UNCHANGED vars
  <2>1. UNCHANGED <<made, delivered, session, epoch, running, a, file, disk>>
    BY <1>9 DEF vars
  <2>2. WorldInv' /\ StoredInv'
    BY <2>1 DEF PnlInv, WorldInv, StoredInv
  <2>3. running' => RunningInv'
    BY <2>1 DEF PnlInv, RunningInv
  <2>4. ~running' => a' = NewActor(NewState)'
    BY <2>1 DEF PnlInv, NewActor, NewState, Zero, Trades
  <2>5. QED
    BY <2>2, <2>3, <2>4 DEF PnlInv
<1>10. QED
  BY <1>1, <1>2, <1>3, <1>4, <1>5, <1>6, <1>7, <1>8, <1>9 DEF Next

-----------------------------------------------------------------------------
(* THEOREMS                                                                *)

(* The inductive invariant: the account stream, the actor and the stores   *)
(* agree on what has been met, what is booked and what still waits.        *)
THEOREM PnlInvariantHolds == Spec => []PnlInv
<1>1. Init => PnlInv
  BY InitPnl
<1>2. PnlInv /\ [Next]_vars => PnlInv'
  BY NextPnl
<1>3. QED
  BY <1>1, <1>2, PTL DEF Spec

(* How often a trade was booked, in the actor, on disk and in the log.     *)
LEMMA CountsBounded ==
    ASSUME PnlInv
    PROVE  \A t \in 1..Len(made) :
                /\ t \in Trades
                /\ a.counted[t] <= Limit(made, epoch, t)
                /\ file[t] + RowCount(a.rows, t) <= Limit(made, epoch, t)
<1> SUFFICES ASSUME NEW t \in 1..Len(made)
             PROVE  /\ t \in Trades /\ a.counted[t] <= Limit(made, epoch, t)
                    /\ file[t] + RowCount(a.rows, t) <= Limit(made, epoch, t)
  OBVIOUS
<1>1. /\ Len(made) \in Nat /\ Len(made) <= MaxTrades /\ epoch \in Nat /\ epoch >= 1
      /\ file \in AnyCounts
  BY WorldFacts
<1>2. t \in Trades
  BY <1>1, Constants DEF Trades
<1>3. CASE running
  <2>1. a.counted[t] <= Limit(made, epoch, t) /\ Logged(a, file)[t] <= Limit(made, epoch, t)
    BY <1>3, WithinLimit
  <2>2. Logged(a, file)[t] = file[t] + RowCount(a.rows, t)
    BY <1>2 DEF Logged
  <2>3. QED
    BY <1>2, <2>1, <2>2
<1>4. CASE ~running
  <2>1. a = NewActor(NewState) /\ StoredInv
    BY <1>4 DEF PnlInv
  <2>2. a.counted = NewState.counted /\ a.rows = <<>>
    BY <2>1 DEF NewActor
  <2>3. a.counted[t] = 0
    BY <1>2, <2>2, NewStateFacts
  <2>4. Limit(made, epoch, t) \in Nat
    BY <1>1, Limits
  <2>5. RowCount(a.rows, t) = 0
    <3>1. <<>> \in Seq(1..0) /\ 0 \in Nat /\ t \notin 1..0
      OBVIOUS
    <3>2. RowCount(<<>>, t) = 0
      BY <3>1, NoRowAhead
    <3>3. QED
      BY <2>2, <3>2
  <2>6. file[t] \in Nat /\ file[t] <= Limit(made, epoch, t)
    BY <1>1, <1>2, <2>1 DEF StoredInv, AnyCounts
  <2>7. QED
    BY <1>2, <2>3, <2>4, <2>5, <2>6
<1>5. QED
  BY <1>3, <1>4

LEMMA SmallCounts ==
    ASSUME PnlInv, NEW c \in AnyCounts, NEW d \in AnyCounts,
           \A t \in 1..Len(made) : c[t] <= Limit(made, epoch, t),
           \A t \in Trades : d[t] <= c[t] /\ (t > Len(made) => c[t] = 0)
    PROVE  c \in Counts /\ d \in Counts
<1>1. /\ Len(made) \in Nat /\ epoch \in Nat /\ epoch >= 1 /\ epoch <= MaxEpoch
  BY WorldFacts
<1>2. ASSUME NEW t \in Trades PROVE c[t] \in 0..MaxEpoch /\ d[t] \in 0..MaxEpoch
  <2>1. c[t] \in Nat /\ d[t] \in Nat /\ d[t] <= c[t]
    BY DEF AnyCounts
  <2>2. c[t] <= MaxEpoch
    <3>1. CASE t > Len(made)
      BY <3>1, Constants
    <3>2. CASE ~ (t > Len(made))
      <4>1. t \in 1..Len(made)
        BY <1>1, <3>2 DEF Trades
      <4>2. c[t] <= Limit(made, epoch, t) /\ Limit(made, epoch, t) <= epoch
            /\ Limit(made, epoch, t) \in Nat
        BY <1>1, <4>1, Limits
      <4>3. QED
        BY <1>1, <2>1, <4>2, Constants
    <3>3. QED
      BY <3>1, <3>2
  <2>3. QED
    BY <2>1, <2>2, Constants
<1>3. c = [t \in Trades |-> c[t]] /\ d = [t \in Trades |-> d[t]]
  BY DEF AnyCounts
<1>4. QED
  BY <1>2, <1>3 DEF Counts

(* Every field keeps its type; both id sets stay within ID_SET_CAP without *)
(* repetition and the queue within PENDING_LIMIT.                          *)
THEOREM TypeCorrect == Spec => []TypeOK
<1>1. PnlInv => TypeOK
  <2> SUFFICES ASSUME PnlInv PROVE TypeOK
    OBVIOUS
  <2> DEFINE n == Len(made)
  <2>1. WorldInv /\ StoredInv /\ n \in Nat /\ file \in AnyCounts
    BY WorldFacts DEF PnlInv
  <2>2. file \in Counts
    <3>1. \A t \in 1..n : file[t] <= Limit(made, epoch, t)
      BY <2>1 DEF StoredInv
    <3>2. \A t \in Trades : file[t] <= file[t] /\ (t > n => file[t] = 0)
      BY <2>1 DEF StoredInv, AnyCounts
    <3>3. QED
      BY <2>1, <3>1, <3>2, SmallCounts
  <2>3. disk \in [pos : Int, strategy : Counts, counted : Counts]
    <3> DEFINE c == disk.counted
               d == disk.strategy
    <3>1. /\ c \in AnyCounts /\ d \in AnyCounts
          /\ (\A t \in 1..n : c[t] <= Limit(made, epoch, t))
          /\ \A t \in Trades : d[t] <= c[t] /\ (t > n => c[t] = 0)
          /\ disk = [pos |-> disk.pos, strategy |-> d, counted |-> c] /\ disk.pos \in Int
      BY <2>1 DEF StoredInv
    <3> HIDE DEF c, d
    <3>2. c \in Counts /\ d \in Counts
      BY <3>1, SmallCounts
    <3>3. QED
      BY <3>1, <3>2
  <2>4. /\ a \in Actor(n, epoch, AnyCounts)
        /\ Len(a.ids) <= IdSetCap /\ IsInjective(a.ids)
        /\ Len(a.seen) <= IdSetCap /\ IsInjective(a.seen)
        /\ Len(a.pending) <= PendingLimit
        /\ \A t \in Trades : a.strategy[t] <= a.counted[t] /\ (t > n => a.counted[t] = 0)
    <3>1. CASE running
      BY <3>1 DEF PnlInv, RunningInv, ActorOK, SeenOK
    <3>2. CASE ~running
      <4> DEFINE none == <<>>
      <4>1. /\ a = NewActor(NewState) /\ (\A S : none \in Seq(S)) /\ Len(none) = 0
            /\ IsInjective(none)
        BY <3>2 DEF PnlInv, IsInjective
      <4>2. a = [ids |-> none, seen |-> none, pending |-> none, dropped |-> {}, synced |-> FALSE,
                 pos |-> NewState.pos, strategy |-> NewState.strategy,
                 counted |-> NewState.counted, rows |-> none]
        BY <4>1 DEF NewActor
      <4>3. NewState.pos \in Int /\ NewState.strategy \in AnyCounts /\ NewState.counted \in AnyCounts
            /\ \A t \in Trades : NewState.strategy[t] = 0 /\ NewState.counted[t] = 0
        BY NewStateFacts
      <4>4. {} \in SUBSET (1..n) /\ FALSE \in BOOLEAN
        OBVIOUS
      <4> HIDE DEF none
      <4>5. a \in Actor(n, epoch, AnyCounts)
        BY <4>1, <4>2, <4>3, <4>4 DEF Actor
      <4>6. /\ a.ids = none /\ a.seen = none /\ a.pending = none
            /\ a.strategy = NewState.strategy /\ a.counted = NewState.counted
        BY <4>2
      <4>7. 0 <= IdSetCap /\ 0 <= PendingLimit
        BY Constants
      <4>8. QED
        BY <4>1, <4>3, <4>5, <4>6, <4>7
    <3>3. QED
      BY <3>1, <3>2
  <2>5. a.counted \in Counts /\ a.strategy \in Counts
    <3> DEFINE c == a.counted
               d == a.strategy
    <3>1. /\ c \in AnyCounts /\ d \in AnyCounts
          /\ (\A t \in 1..n : c[t] <= Limit(made, epoch, t))
          /\ \A t \in Trades : d[t] <= c[t] /\ (t > n => c[t] = 0)
      BY <2>4, CountsBounded DEF Actor
    <3> HIDE DEF c, d
    <3>2. c \in Counts /\ d \in Counts
      BY <3>1, SmallCounts
    <3>3. QED
      BY <3>2 DEF c, d
  <2>6. a \in Actor(n, epoch, Counts)
    BY <2>4, <2>5 DEF Actor
  <2>7. QED
    BY <2>1, <2>2, <2>3, <2>4, <2>6 DEF TypeOK, WorldInv
<1>2. QED
  BY <1>1, PnlInvariantHolds, PTL

(* An order's trade enters the totals once, however it is repeated,        *)
(* queued, retried, and whenever the process ends: when other trades of    *)
(* the account are not counted in.                                         *)
THEOREM BooksOnce ==
    ASSUME ~IncludeUnattributed
    PROVE  Spec => []BookedOnce
<1>1. PnlInv => BookedOnce
  <2> SUFFICES ASSUME PnlInv, NEW t \in DOMAIN made
               PROVE  a.counted[t] <= IF made[t] = NoCid THEN epoch ELSE 1
    BY DEF BookedOnce
  <2>1. t \in 1..Len(made)
    BY DEF PnlInv, WorldInv
  <2>2. a.counted[t] <= Limit(made, epoch, t)
    BY <2>1, CountsBounded
  <2>3. QED
    BY <2>2 DEF Limit, Anonymous
<1>2. QED
  BY <1>1, PnlInvariantHolds, PTL

(* And it gets one row in the trade log, written or still in the buffer.   *)
THEOREM LogsOnce ==
    ASSUME ~IncludeUnattributed
    PROVE  Spec => []LoggedOnce
<1>1. PnlInv => LoggedOnce
  <2> SUFFICES ASSUME PnlInv, NEW t \in DOMAIN made
               PROVE  file[t] + Cardinality({i \in DOMAIN a.rows : a.rows[i] = t})
                        <= IF made[t] = NoCid THEN epoch ELSE 1
    BY DEF LoggedOnce
  <2>1. t \in 1..Len(made)
    BY DEF PnlInv, WorldInv
  <2>2. file[t] + RowCount(a.rows, t) <= Limit(made, epoch, t)
    BY <2>1, CountsBounded
  <2>3. DOMAIN a.rows = 1..Len(a.rows)
    <3>1. CASE running
      BY <3>1 DEF PnlInv, RunningInv, ActorOK, Actor
    <3>2. CASE ~running
      BY <3>2 DEF PnlInv, NewActor
    <3>3. QED
      BY <3>1, <3>2
  <2>4. QED
    BY <2>2, <2>3 DEF Limit, Anonymous, RowCount
<1>2. QED
  BY <1>1, PnlInvariantHolds, PTL

(* Once a snapshot has been seen the local position is the exchange's, but *)
(* for what waits and what was given up.                                   *)
THEOREM TracksExchange == Spec => []PositionTracksExchange
<1>1. PnlInv => PositionTracksExchange
  <2> SUFFICES ASSUME PnlInv, a.synced
               PROVE  LET fresh == {i \in DOMAIN a.pending : a.pending[i].fresh}
                      IN  /\ Net(1..delivered) =
                                a.pos + Net(a.dropped) + Net({a.pending[i].trade : i \in fresh})
                          /\ \A i, j \in DOMAIN a.pending :
                                a.pending[i].trade = a.pending[j].trade => i = j
    BY DEF PositionTracksExchange
  <2>1. running
    <3>1. ~running => a.synced = FALSE
      BY DEF PnlInv, NewActor
    <3>2. QED
      BY <3>1
  <2>2. RunningInv
    BY <2>1 DEF PnlInv
  <2>3. DOMAIN a.pending = 1..Len(a.pending)
    BY <2>2 DEF RunningInv, ActorOK, Actor
  <2>4. Net(1..delivered) = a.pos + Net(a.dropped) + Net(FreshHeld(a.pending))
    BY <2>2 DEF RunningInv, PosOK, Balanced
  <2>5. Distinct(a.pending)
    BY <2>2 DEF RunningInv, QueueOK
  <2>6. QED
    BY <2>3, <2>4, <2>5 DEF FreshHeld, Distinct
<1>2. QED
  BY <1>1, PnlInvariantHolds, PTL

(* No trade is left waiting for an id that is registered, whichever of the *)
(* two came first.                                                         *)
THEOREM NoneWaitsInVain == Spec => []NoRegisteredTradeWaits
<1>1. PnlInv => NoRegisteredTradeWaits
  <2> SUFFICES ASSUME PnlInv, NEW i \in DOMAIN a.pending
               PROVE  ~Contains(a.ids, made[a.pending[i].trade])
    BY DEF NoRegisteredTradeWaits, Known
  <2>1. CASE running
    <3>1. RunningInv
      BY <2>1 DEF PnlInv
    <3>2. DOMAIN a.pending = 1..Len(a.pending)
      BY <3>1 DEF RunningInv, ActorOK, Actor
    <3>3. a.pending[i].trade \in Held(a.pending)
      BY <3>2 DEF Held
    <3>4. QED
      BY <3>1, <3>3 DEF RunningInv, QueueOK
  <2>2. CASE ~running
    <3>1. a.pending = <<>>
      BY <2>2 DEF PnlInv, NewActor
    <3>2. DOMAIN a.pending = {}
      BY <3>1
    <3>3. QED
      BY <3>2
  <2>3. QED
    BY <2>1, <2>2
<1>2. QED
  BY <1>1, PnlInvariantHolds, PTL
=============================================================================
