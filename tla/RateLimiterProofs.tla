-------------------------- MODULE RateLimiterProofs -------------------------
(***************************************************************************)
(* TLAPS proofs about RateLimiter, for every budget, window, threshold and *)
(* backoff: types, the rolling window as the exchange sees it, and the     *)
(* service of every backoff.                                               *)
(***************************************************************************)
EXTENDS RateLimiter, SequenceTheorems, WellFoundedInduction, TLAPS

(* The entries of a window are ordered, the oldest first.                  *)
Ordered(w) == \A i \in 1 .. Len(w), j \in 1 .. Len(w) : i <= j => w[j] <= w[i]

(* The recorded ops and the answered ones are the same up to what has      *)
(* expired: counted from the youngest, an op is recorded no earlier than   *)
(* it was sent.  What the exchange counts no longer was answered late,     *)
(* within this tick.                                                       *)
Recorded(w, s) ==
    /\ Len(s) <= Len(w)
    /\ \A j \in 1 .. Len(s) :
        /\ w[Len(w) - Len(s) + j] <= s[j]
        /\ s[j] < Window \/ w[Len(w) - Len(s) + j] = 0

(* When the sleep is over, so many recorded ops have left the window that  *)
(* n more fit in.                                                          *)
SleepSuffices(w, n, wait) ==
    Len(w) + n > Budget => w[Len(w) - (Budget - n)] + wait >= Window

WindowInv == Ordered(window) /\ Ordered(seen) /\ Recorded(window, seen)

SenderInv ==
    /\ sender.pc = "gate" =>
        /\ SleepSuffices(window, sender.ops, sender.wait) /\ sender.wait >= backoff
        /\ sender.age = 0
    /\ sender.pc = "sent" =>
        /\ Len(seen) + sender.ops <= Budget
        /\ \A j \in 1 .. Len(seen) : seen[j] >= sender.age

(* What has passed of a backoff and what is left of it make up all of it.  *)
BackoffInv == level > 0 => trigger + backoff >= Least(BackoffFor(level), Decay + 1)

SeenFits == Len(seen) <= Budget

LimiterInv == TypeOK /\ WindowInv /\ SenderInv /\ BackoffInv /\ SeenFits

-----------------------------------------------------------------------------
(* ARITHMETIC                                                              *)

(* Max of two numbers.                                                     *)
LEMMA MaxOfTwo ==
    ASSUME NEW a \in Int, NEW b \in Int
    PROVE  Max({a, b}) = IF a >= b THEN a ELSE b
BY DEF Max

(* Every non-empty set of naturals has a least element.                    *)
LEMMA LeastElement ==
    ASSUME NEW T, T \subseteq Nat, T # {}
    PROVE  \E x \in T : \A y \in T : x <= y
<1>1. IsWellFoundedOn(OpToRel(<,Nat), Nat)
  BY NatLessThanWellFounded
<1>2. PICK x \in T : \A y \in T : ~ (<<y, x>> \in OpToRel(<,Nat))
  BY <1>1, WFMin
<1>3. ASSUME NEW y \in T, y < x PROVE FALSE
  <2>1. <<y, x>> \in OpToRel(<,Nat)
    BY <1>3 DEF OpToRel
  <2>2. QED
    BY <2>1, <1>2
<1>4. QED
  BY <1>3

-----------------------------------------------------------------------------
(* THE WINDOW                                                              *)

(* A window is a sequence of ages.                                         *)
LEMMA WindowShape ==
    ASSUME NEW w \in Seq(Nat)
    PROVE  Len(w) \in Nat /\ \A i \in 1 .. Len(w) : w[i] \in Nat
OBVIOUS

(* The cut of prune_op_window: everything in front of it is older than the *)
(* limit, and the entry behind it is not.                                  *)
LEMMA ExpiredFacts ==
    ASSUME NEW w \in Seq(Nat), NEW limit \in Int
    PROVE  /\ Expired(w, limit) \in 0 .. Len(w)
           /\ \A i \in 1 .. Expired(w, limit) : w[i] > limit
           /\ Expired(w, limit) < Len(w) => w[Expired(w, limit) + 1] <= limit
<1> DEFINE T == {n \in 0 .. Len(w) : n < Len(w) => w[n + 1] <= limit}
<1>1. Len(w) \in T /\ T \subseteq Nat
  OBVIOUS
<1>2. PICK k \in T : \A y \in T : k <= y
  <2> HIDE DEF T
  <2> QED BY <1>1, LeastElement
<1>3. ASSUME NEW i \in 1 .. k PROVE w[i] > limit
  <2>1. k \in 0 .. Len(w)
    BY <1>2
  <2>2. i - 1 \in 0 .. Len(w) /\ i - 1 < Len(w) /\ w[i] \in Nat /\ i - 1 + 1 = i /\ ~ (k <= i - 1)
    BY <2>1
  <2>3. i - 1 \notin T
    BY <1>2, <2>2
  <2>4. QED
    BY <2>2, <2>3
<1>4. \E n \in 0 .. Len(w) : /\ \A i \in 1 .. n : w[i] > limit
                             /\ n < Len(w) => w[n + 1] <= limit
  BY <1>2, <1>3
<1>5. QED
  BY <1>4 DEF Expired

(* d is w after t more ticks, without its k oldest entries, the ones beyond *)
(* the limit.                                                              *)
Cut(d, w, t, limit, k) ==
    /\ k \in 0 .. Len(w) /\ Len(d) = Len(w) - k
    /\ \A i \in 1 .. Len(d) : d[i] = w[k + i] + t /\ d[i] <= limit
    /\ \A i \in 1 .. k : w[i] + t > limit

(* Time passes: an ordered window stays ordered, loses some of its oldest  *)
(* entries, all of them beyond the limit, and keeps none beyond it.        *)
LEMMA AgedFacts ==
    ASSUME NEW w \in Seq(Nat), Ordered(w), NEW t \in Nat, NEW limit \in Int,
           NEW d, d = DropExpired(Older(w, t), limit)
    PROVE  /\ d \in Seq(Nat) /\ Ordered(d)
           /\ \E k \in Nat : Cut(d, w, t, limit, k)
<1> DEFINE o == Older(w, t)
           k == Expired(o, limit)
<1>1. o \in Seq(Nat) /\ Len(o) = Len(w) /\ \A i \in 1 .. Len(w) : o[i] = w[i] + t
  BY DEF Older
<1> HIDE DEF o
<1>2. k \in 0 .. Len(w) /\ (\A i \in 1 .. k : o[i] > limit) /\ (k < Len(w) => o[k + 1] <= limit)
  BY <1>1, ExpiredFacts
<1>3. d = SubSeq(o, k + 1, Len(o))
  BY DEF DropExpired, o
<1> HIDE DEF k
<1>4. \A i \in k + 1 .. Len(o) : o[i] \in Nat
  BY <1>1, <1>2
<1>5. d \in Seq(Nat) /\ Len(d) = Len(w) - k /\ \A i \in 1 .. Len(w) - k : d[i] = o[k + i]
  <2>1. k + 1 \in Int /\ Len(o) \in Int
    BY <1>1, <1>2
  <2>2. /\ SubSeq(o, k + 1, Len(o)) \in Seq(Nat)
        /\ Len(SubSeq(o, k + 1, Len(o))) = IF k + 1 <= Len(o) THEN Len(o) - (k + 1) + 1 ELSE 0
        /\ \A i \in 1 .. Len(o) - (k + 1) + 1 : SubSeq(o, k + 1, Len(o))[i] = o[(k + 1) + i - 1]
    BY <2>1, <1>4, SubSeqProperties
  <2>3. QED
    BY <2>2, <1>1, <1>2, <1>3
<1>6. \A i \in 1 .. Len(d) : d[i] = w[k + i] + t
  BY <1>1, <1>2, <1>5
<1>7. \A i \in 1 .. Len(d) : d[i] <= limit
  <2> SUFFICES ASSUME NEW i \in 1 .. Len(d) PROVE d[i] <= limit
    OBVIOUS
  <2> DEFINE f == k + 1
             g == k + i
  <2>1. f \in 1 .. Len(w) /\ g \in 1 .. Len(w) /\ f <= g /\ k < Len(w)
    BY <1>2, <1>5
  <2>2. o[f] <= limit /\ d[i] = w[g] + t
    BY <2>1, <1>2, <1>6
  <2> HIDE DEF f, g
  <2>3. w[g] <= w[f] /\ w[g] \in Nat /\ w[f] \in Nat /\ o[f] = w[f] + t
    BY <2>1, <1>1 DEF Ordered
  <2>4. QED
    BY <2>2, <2>3
<1>8. Ordered(d)
  <2> SUFFICES ASSUME NEW i \in 1 .. Len(d), NEW j \in 1 .. Len(d), i <= j PROVE d[j] <= d[i]
    BY DEF Ordered
  <2>1. k + i \in 1 .. Len(w) /\ k + j \in 1 .. Len(w) /\ k + i <= k + j
    BY <1>2, <1>5
  <2>2. w[k + j] <= w[k + i] /\ w[k + i] \in Nat /\ w[k + j] \in Nat
    BY <2>1 DEF Ordered
  <2>3. QED
    BY <2>2, <1>6
<1>9. ASSUME NEW i \in 1 .. k PROVE w[i] + t > limit
  <2>1. i \in 1 .. Len(w) /\ o[i] > limit
    BY <1>2
  <2>2. QED
    BY <2>1, <1>1
<1>10. Cut(d, w, t, limit, k) /\ k \in Nat
  BY <1>2, <1>5, <1>6, <1>7, <1>9 DEF Cut
<1>11. QED
  BY <1>5, <1>8, <1>10

(* The sleep in the gate is as good one tick later, when one tick less of  *)
(* it is left.                                                             *)
LEMMA SleepGoesOn ==
    ASSUME NEW w \in Seq(Nat), Ordered(w), NEW n \in 0 .. Budget, NEW wait \in Nat,
           SleepSuffices(w, n, wait)
    PROVE  SleepSuffices(Aged(w, 1), n, Max({0, wait - 1}))
<1>0. Budget \in Nat /\ Window \in Nat
  BY LimiterAssumption DEF LimiterAssumption
<1>1. PICK left \in Nat : left = Max({0, wait - 1}) /\ left + 1 >= wait
  BY MaxOfTwo
<1>2. PICK d : d = Aged(w, 1)
  OBVIOUS
<1>3. d \in Seq(Nat) /\ \E k \in Nat : Cut(d, w, 1, Window, k)
  <2>1. d = DropExpired(Older(w, 1), Window)
    BY <1>2 DEF Aged, Prune
  <2>2. Window \in Int /\ 1 \in Nat
    BY <1>0
  <2>3. QED
    BY <2>1, <2>2, AgedFacts
<1>4. PICK k \in Nat : Cut(d, w, 1, Window, k)
  BY <1>3
<1>5. ASSUME Len(d) + n > Budget PROVE d[Len(d) - (Budget - n)] + left >= Window
  <2> DEFINE i == Len(d) - (Budget - n)
             j == Len(w) - (Budget - n)
  <2>1. Len(d) \in Nat /\ Len(w) \in Nat /\ k \in 0 .. Len(w) /\ Len(d) = Len(w) - k
    BY <1>3, <1>4, WindowShape, Zenon DEF Cut
  <2>2. i \in 1 .. Len(d) /\ j \in 1 .. Len(w) /\ k + i = j /\ Len(w) + n > Budget
    BY <1>0, <1>5, <2>1
  <2>3. w[j] + wait >= Window
    BY <2>2 DEF SleepSuffices
  <2> HIDE DEF i, j
  <2>4. d[i] = w[j] + 1 /\ w[j] \in Nat
    BY <2>2, <1>4 DEF Cut
  <2>5. d[i] + left >= Window
    BY <2>3, <2>4, <1>0, <1>1
  <2>6. QED
    BY <2>5 DEF i
<1>6. QED
  BY <1>1, <1>2, <1>5 DEF SleepSuffices

(* Phases 1 and 2 of write_slot: the backoff and then the time until n ops *)
(* are free make room for n ops, although the window is looked at only     *)
(* after the backoff and entries that expired by then are gone.            *)
LEMMA PhasesSuffice ==
    ASSUME NEW w \in Seq(Nat), Ordered(w), NEW n \in 1 .. Budget, NEW b \in Nat,
           NEW a, a = Aged(w, b),
           NEW p, p = IF Available(a) < n THEN TimeUntilOpsFree(a, n) ELSE 0
    PROVE  /\ p \in Nat
           /\ \A t \in Nat : t >= b + p => SleepSuffices(w, n, t)
<1>0. Budget \in Nat /\ Window \in Nat
  BY LimiterAssumption DEF LimiterAssumption
<1>1. a \in Seq(Nat) /\ \E k \in Nat : Cut(a, w, b, Window, k)
  <2>1. a = DropExpired(Older(w, b), Window)
    BY DEF Aged, Prune
  <2>2. Window \in Int
    BY <1>0
  <2>3. QED
    BY <2>1, <2>2, AgedFacts
<1>2. PICK k \in Nat : Cut(a, w, b, Window, k)
  BY <1>1
<1>3. k \in 0 .. Len(w) /\ Len(a) = Len(w) - k
  BY <1>2 DEF Cut
<1>4. Available(a) < n <=> Len(a) + n > Budget
  <2>1. Available(a) = IF 0 >= Budget - Len(a) THEN 0 ELSE Budget - Len(a)
    BY <1>0, <1>3, MaxOfTwo DEF Available
  <2>2. QED
    BY <2>1, <1>0, <1>3
<1>5. CASE Len(a) + n <= Budget
  <2>1. p = 0
    BY <1>4, <1>5, <1>0, <1>3
  <2>2. ASSUME NEW t \in Nat, t >= b, Len(w) + n > Budget
        PROVE  w[Len(w) - (Budget - n)] + t >= Window
    <3> DEFINE i == Len(w) - (Budget - n)
    <3>1. i \in 1 .. Len(w) /\ i \in 1 .. k
      BY <1>0, <1>3, <1>5, <2>2
    <3> HIDE DEF i
    <3>2. w[i] + b > Window /\ w[i] \in Nat
      BY <3>1, <1>2 DEF Cut
    <3>3. w[i] + t >= Window
      BY <3>2, <2>2, <1>0
    <3>4. QED
      BY <3>3 DEF i
  <2>3. QED
    BY <2>1, <2>2 DEF SleepSuffices
<1>6. CASE Len(a) + n > Budget
  <2> DEFINE m == Least(Len(a) - (Budget - n) + 1, Len(a))
             i == Len(w) - (Budget - n)
             j == k + m
  <2>1. m \in 1 .. Len(a) /\ i \in 1 .. Len(w) /\ j \in 1 .. Len(w) /\ i <= j
    BY <1>0, <1>3, <1>6 DEF Least
  <2>2. p = Max({0, Window - a[m]})
    <3>1. a # <<>>
      <4>1. Len(a) # 0
        BY <1>0, <1>1, <1>6
      <4>2. QED
        BY <4>1
    <3>2. ~ (Len(a) + n <= Budget)
      BY <1>0, <1>1, <1>6
    <3>3. QED
      BY <1>4, <1>6, <3>1, <3>2 DEF TimeUntilOpsFree
  <2> HIDE DEF m
  <2>3. a[m] = w[j] + b
    BY <2>1, <1>2 DEF Cut
  <2> HIDE DEF i, j
  <2>4. w[j] <= w[i] /\ w[i] \in Nat /\ w[j] \in Nat
    BY <2>1 DEF Ordered
  <2>5. p \in Nat /\ p >= Window - a[m]
    <3>1. Window - a[m] \in Int
      BY <2>3, <2>4, <1>0
    <3>2. p = IF 0 >= Window - a[m] THEN 0 ELSE Window - a[m]
      BY <2>2, <3>1, MaxOfTwo
    <3>3. QED
      BY <3>1, <3>2
  <2>6. ASSUME NEW t \in Nat, t >= b + p PROVE w[i] + t >= Window
    <3>1. p >= Window - (w[j] + b)
      BY <2>3, <2>5
    <3>2. w[j] + t >= Window
      BY <3>1, <2>4, <2>5, <2>6, <1>0
    <3>3. QED
      BY <3>2, <2>4, <1>0
  <2>7. QED
    BY <2>5, <2>6 DEF SleepSuffices, i
<1>7. QED
  BY <1>5, <1>6, <1>0, <1>3

(* Where the sleep is over, the exchange no longer counts what stands in   *)
(* the way of n more ops.                                                  *)
LEMMA RoomAfterSleep ==
    ASSUME NEW w \in Seq(Nat), NEW s \in Seq(Nat), Recorded(w, s),
           NEW n \in 0 .. Budget, SleepSuffices(w, n, 0)
    PROVE  Len(s) + n <= Budget
<1>0. Budget \in Nat /\ Window \in Nat \ {0}
  BY LimiterAssumption DEF LimiterAssumption
<1> SUFFICES ASSUME Len(s) + n > Budget PROVE FALSE
  BY <1>0
<1> DEFINE i == Len(w) - (Budget - n)
           j == Len(s) - (Budget - n)
<1>1. Len(s) <= Len(w) /\ Len(s) \in Nat /\ Len(w) \in Nat
  BY DEF Recorded
<1>2. /\ j \in 1 .. Len(s) /\ i \in 1 .. Len(w) /\ i = Len(w) - Len(s) + j
      /\ Len(w) + n > Budget
  BY <1>0, <1>1
<1>3. w[i] + 0 >= Window
  BY <1>2 DEF SleepSuffices
<1> HIDE DEF i, j
<1>4. w[i] <= s[j] /\ (s[j] < Window \/ w[i] = 0)
  BY <1>2 DEF Recorded
<1>5. w[i] \in Nat /\ s[j] \in Nat
  BY <1>2, WindowShape
<1>6. QED
  BY <1>3, <1>4, <1>5, <1>0

(* Both windows age together; what the limiter forgets, the exchange does  *)
(* not count any more.                                                     *)
LEMMA RecordedAges ==
    ASSUME NEW w \in Seq(Nat), Ordered(w), NEW s \in Seq(Nat), Ordered(s), Recorded(w, s)
    PROVE  Recorded(Aged(w, 1), DropExpired(Older(s, 1), Window - 1))
<1>0. Window \in Nat /\ Window - 1 \in Int
  BY LimiterAssumption DEF LimiterAssumption
<1>1. PICK d : d = Aged(w, 1)
  OBVIOUS
<1>2. PICK e : e = DropExpired(Older(s, 1), Window - 1)
  OBVIOUS
<1>3. d \in Seq(Nat) /\ \E k \in Nat : Cut(d, w, 1, Window, k)
  <2>1. d = DropExpired(Older(w, 1), Window)
    BY <1>1 DEF Aged, Prune
  <2>2. Window \in Int /\ 1 \in Nat
    BY <1>0
  <2>3. QED
    BY <2>1, <2>2, AgedFacts
<1>4. e \in Seq(Nat) /\ \E k \in Nat : Cut(e, s, 1, Window - 1, k)
  BY AgedFacts, <1>0, <1>2
<1>5. PICK k \in Nat : Cut(d, w, 1, Window, k)
  BY <1>3
<1>6. PICK l \in Nat : Cut(e, s, 1, Window - 1, l)
  BY <1>4
<1>7. /\ k \in 0 .. Len(w) /\ Len(d) = Len(w) - k
      /\ l \in 0 .. Len(s) /\ Len(e) = Len(s) - l
      /\ Len(w) \in Nat /\ Len(s) \in Nat /\ Len(s) <= Len(w)
  BY <1>5, <1>6 DEF Cut, Recorded
<1> DEFINE g == Len(w) - Len(s)
<1>8. g \in Nat /\ g + Len(s) = Len(w)
  BY <1>7
<1>9. \A j \in 1 .. Len(s) : w[g + j] <= s[j]
  BY DEF Recorded
<1> HIDE DEF g
<1>10. k <= g + l
  <2> SUFFICES ASSUME k > g + l PROVE FALSE
    BY <1>7, <1>8
  <2> DEFINE m == l + 1
             i == g + m
  <2>1. m \in 1 .. Len(s) /\ i \in 1 .. Len(w) /\ i \in 1 .. k /\ 1 \in 1 .. Len(e)
    BY <1>7, <1>8
  <2>2. e[1] = s[m] + 1 /\ e[1] <= Window - 1
    BY <2>1, <1>6 DEF Cut
  <2> HIDE DEF m
  <2>3. w[i] <= s[m]
    BY <2>1, <1>9
  <2> HIDE DEF i
  <2>4. w[i] + 1 > Window
    BY <2>1, <1>5 DEF Cut
  <2>5. w[i] \in Nat /\ s[m] \in Nat
    BY <2>1
  <2>6. QED
    BY <2>2, <2>3, <2>4, <2>5, <1>0
<1>11. Len(e) <= Len(d)
  BY <1>7, <1>8, <1>10
<1>12. ASSUME NEW j \in 1 .. Len(e) PROVE d[Len(d) - Len(e) + j] <= e[j] /\ e[j] < Window
  <2> DEFINE m == l + j
             i == g + m
             h == Len(d) - Len(e) + j
  <2>0. Len(d) \in Nat /\ Len(e) \in Nat
    BY <1>3, <1>4, WindowShape
  <2>1. m \in 1 .. Len(s) /\ i \in 1 .. Len(w)
    BY <1>7, <1>8
  <2>2. h \in 1 .. Len(d)
    BY <2>0, <1>11
  <2>3. k + h = i
    <3>1. Len(w) = g + Len(s)
      BY <1>8
    <3>2. Len(d) = Len(w) - k /\ Len(e) = Len(s) - l
      BY <1>7
    <3>3. Len(w) \in Nat /\ Len(s) \in Nat /\ g \in Nat
      BY <1>7, <1>8
    <3>4. QED
      BY <3>1, <3>2, <3>3, <2>0
  <2>4. e[j] = s[m] + 1 /\ e[j] <= Window - 1
    BY <1>6 DEF Cut
  <2> HIDE DEF m, h
  <2>5. w[i] <= s[m]
    BY <2>1, <1>9
  <2> HIDE DEF i
  <2>6. d[h] = w[i] + 1
    BY <2>2, <2>3, <1>5 DEF Cut
  <2>7. w[i] \in Nat /\ s[m] \in Nat
    BY <2>1
  <2>8. d[h] <= e[j] /\ e[j] < Window
    <3>1. ASSUME NEW x \in Nat, NEW y \in Nat, x <= y, y + 1 <= Window - 1
          PROVE  x + 1 <= y + 1 /\ y + 1 < Window
      BY <3>1, <1>0
    <3>2. w[i] + 1 <= s[m] + 1 /\ s[m] + 1 < Window
      BY <3>1, <2>4, <2>5, <2>7, Zenon
    <3>3. QED
      BY <3>2, <2>4, <2>6
  <2>9. QED
    BY <2>8 DEF h
<1>13. QED
  BY <1>1, <1>2, <1>11, <1>12 DEF Recorded

(* record_ops_sent: the new entries are the youngest of both windows.      *)
LEMMA OpsAreRecorded ==
    ASSUME NEW w \in Seq(Nat), Ordered(w), NEW s \in Seq(Nat), Ordered(s), Recorded(w, s),
           NEW n \in Nat, NEW a \in Ages(Window), \A j \in 1 .. Len(s) : s[j] >= a
    PROVE  /\ Ordered(w \o Copies(n, 0)) /\ Ordered(s \o Copies(n, a))
           /\ Recorded(w \o Copies(n, 0), s \o Copies(n, a))
           /\ Len(s \o Copies(n, a)) = Len(s) + n
<1>0. Window \in Nat /\ a \in Nat
  BY LimiterAssumption DEF LimiterAssumption, Ages
<1>1. PICK x : x = w \o Copies(n, 0)
  OBVIOUS
<1>2. PICK y : y = s \o Copies(n, a)
  OBVIOUS
<1>3. /\ x \in Seq(Nat) /\ Len(x) = Len(w) + n
      /\ \A i \in 1 .. Len(x) : x[i] = IF i <= Len(w) THEN w[i] ELSE 0
  BY <1>1 DEF Copies
<1>4. /\ y \in Seq(Nat) /\ Len(y) = Len(s) + n
      /\ \A i \in 1 .. Len(y) : y[i] = IF i <= Len(s) THEN s[i] ELSE a
  BY <1>0, <1>2 DEF Copies
<1>5. Ordered(x)
  <2> SUFFICES ASSUME NEW i \in 1 .. Len(x), NEW j \in 1 .. Len(x), i <= j PROVE x[j] <= x[i]
    BY DEF Ordered
  <2>1. CASE j <= Len(w)
    <3>1. i \in 1 .. Len(w) /\ j \in 1 .. Len(w)
      BY <2>1
    <3>2. w[j] <= w[i]
      BY <3>1 DEF Ordered
    <3>3. QED
      BY <3>1, <3>2, <1>3
  <2>2. CASE ~ (j <= Len(w))
    BY <2>2, <1>3
  <2>3. QED
    BY <2>1, <2>2
<1>6. Ordered(y)
  <2> SUFFICES ASSUME NEW i \in 1 .. Len(y), NEW j \in 1 .. Len(y), i <= j PROVE y[j] <= y[i]
    BY DEF Ordered
  <2>1. CASE j <= Len(s)
    <3>1. i \in 1 .. Len(s) /\ j \in 1 .. Len(s)
      BY <2>1
    <3>2. s[j] <= s[i]
      BY <3>1 DEF Ordered
    <3>3. QED
      BY <3>1, <3>2, <1>4
  <2>2. CASE ~ (j <= Len(s))
    <3>1. /\ y[j] = a
          /\ i <= Len(s) => y[i] = s[i] /\ i \in 1 .. Len(s)
          /\ ~ (i <= Len(s)) => y[i] = a
      BY <2>2, <1>4
    <3>2. QED
      BY <3>1, <1>0
  <2>3. QED
    BY <2>1, <2>2
<1>7. Recorded(x, y)
  <2>1. Len(y) <= Len(x) /\ Len(s) <= Len(w) /\ Len(s) \in Nat /\ Len(w) \in Nat
    BY <1>3, <1>4 DEF Recorded
  <2>2. ASSUME NEW j \in 1 .. Len(y)
        PROVE  /\ x[Len(x) - Len(y) + j] <= y[j]
               /\ y[j] < Window \/ x[Len(x) - Len(y) + j] = 0
    <3> DEFINE i == Len(x) - Len(y) + j
    <3>1. i \in 1 .. Len(x) /\ i = Len(w) - Len(s) + j
      BY <1>3, <1>4, <2>1
    <3> HIDE DEF i
    <3>2. CASE j <= Len(s)
      <4>1. i <= Len(w) /\ j \in 1 .. Len(s)
        BY <3>1, <3>2, <2>1
      <4>2. w[i] <= s[j] /\ (s[j] < Window \/ w[i] = 0)
        BY <3>1, <4>1 DEF Recorded
      <4>3. x[i] = w[i]
        BY <3>1, <4>1, <1>3
      <4>4. y[j] = s[j]
        BY <1>4, <3>2
      <4>5. QED
        BY <4>2, <4>3, <4>4 DEF i
    <3>3. CASE ~ (j <= Len(s))
      <4>1. ~ (i <= Len(w))
        BY <3>1, <3>3, <2>1
      <4>2. x[i] = 0
        BY <3>1, <4>1, <1>3
      <4>3. y[j] = a
        BY <1>4, <3>3
      <4>4. QED
        BY <4>2, <4>3, <1>0 DEF i
    <3>4. QED
      BY <3>2, <3>3
  <2>3. QED
    BY <2>1, <2>2 DEF Recorded
<1>8. QED
  BY <1>1, <1>2, <1>4, <1>5, <1>6, <1>7

-----------------------------------------------------------------------------
(* TYPES                                                                   *)

SenderType == [pc : {"idle", "gate", "sent"}, ops : 0 .. MaxBatch, cancel : BOOLEAN,
               wait : Nat, age : Ages(Window)]

(* The constants are naturals, and so is the age at which last_send ceases *)
(* to matter.                                                              *)
LEMMA Constants ==
    /\ Budget \in Nat \ {0} /\ Window \in Nat \ {0} /\ BackoffMax \in Nat /\ Decay \in Nat
    /\ ResetAfter \in Nat \ {0} /\ MaxBatch \in Nat \ {0} /\ MaxBatch <= Budget
    /\ SendInterval \in Nat /\ CancelInterval \in Nat /\ FreeSlot \in Nat
    /\ BackoffBase \in Nat \ {0} /\ TopLevel \in Nat \ {0}
    /\ LastCap \in Nat
<1>1. /\ Budget \in Nat \ {0} /\ Window \in Nat \ {0} /\ BackoffMax \in Nat /\ Decay \in Nat
      /\ ResetAfter \in Nat \ {0} /\ MaxBatch \in Nat \ {0} /\ MaxBatch <= Budget
      /\ SendInterval \in Nat /\ CancelInterval \in Nat /\ FreeSlot \in Nat
      /\ BackoffBase \in Nat \ {0} /\ TopLevel \in Nat \ {0}
  BY LimiterAssumption DEF LimiterAssumption
<1>2. ASSUME NEW a \in Nat, NEW b \in Nat, NEW c \in Nat PROVE Max({a, b, c}) \in Nat
  BY DEF Max
<1>3. 3 * SendInterval \in Nat
  BY <1>1
<1>4. QED
  BY <1>1, <1>2, <1>3 DEF LastCap

(* RL_BACKOFF_BASE * 2^(level - 1), at most RL_BACKOFF_MAX.                *)
LEMMA BackoffRange ==
    ASSUME NEW l \in 1 .. TopLevel
    PROVE  BackoffFor(l) \in 0 .. BackoffMax
<1> DEFINE e == 2 ^ (l - 1)
<1>1. e \in Int /\ e > 0
  BY LevelAssumption, Constants DEF LevelAssumption
<1> HIDE DEF e
<1>2. BackoffBase * e \in Int /\ BackoffBase * e > 0
  BY <1>1, Constants
<1>3. BackoffFor(l) = Least(BackoffBase * e, BackoffMax)
  BY DEF BackoffFor, e
<1>4. QED
  BY <1>2, <1>3, Constants DEF Least

(* A window holds ages up to Window, and a sequence of such ages is one.   *)
LEMMA AgeSequences ==
    /\ \A w \in Seq(Ages(Window)) : w \in Seq(Nat) /\ \A i \in 1 .. Len(w) : w[i] <= Window
    /\ \A w \in Seq(Nat) : (\A i \in 1 .. Len(w) : w[i] <= Window) => w \in Seq(Ages(Window))
BY Constants DEF Ages

(* The windows one tick later.                                             *)
LEMMA WindowsAge ==
    ASSUME TypeOK, WindowInv,
           NEW d, d = Aged(window, 1), NEW e, e = DropExpired(Older(seen, 1), Window - 1)
    PROVE  /\ d \in Seq(Ages(Window)) /\ e \in Seq(Ages(Window))
           /\ Ordered(d) /\ Ordered(e) /\ Recorded(d, e)
           /\ Len(e) <= Len(seen)
           /\ \A a \in Nat : (\A j \in 1 .. Len(seen) : seen[j] >= a)
                             => \A j \in 1 .. Len(e) : e[j] >= a + 1
<1>0. Window \in Int /\ Window - 1 \in Int /\ 1 \in Nat
  BY Constants
<1>1. window \in Seq(Nat) /\ seen \in Seq(Nat)
  BY AgeSequences DEF TypeOK
<1>2. Ordered(window) /\ Ordered(seen) /\ Recorded(window, seen)
  BY DEF WindowInv
<1>3. d \in Seq(Nat) /\ Ordered(d) /\ \E k \in Nat : Cut(d, window, 1, Window, k)
  <2>1. d = DropExpired(Older(window, 1), Window)
    BY DEF Aged, Prune
  <2>2. QED
    BY <2>1, <1>0, <1>1, <1>2, AgedFacts
<1>4. e \in Seq(Nat) /\ Ordered(e) /\ \E k \in Nat : Cut(e, seen, 1, Window - 1, k)
  BY <1>0, <1>1, <1>2, AgedFacts
<1>5. Recorded(d, e)
  BY <1>1, <1>2, RecordedAges
<1>6. d \in Seq(Ages(Window))
  <2>1. \A i \in 1 .. Len(d) : d[i] <= Window
    BY <1>3 DEF Cut
  <2>2. QED
    BY <1>3, <2>1, AgeSequences
<1>7. PICK k \in Nat : Cut(e, seen, 1, Window - 1, k)
  BY <1>4
<1>8. e \in Seq(Ages(Window))
  <2>1. ASSUME NEW i \in 1 .. Len(e) PROVE e[i] <= Window
    <3>1. e[i] <= Window - 1 /\ e[i] \in Nat
      BY <1>4, <1>7 DEF Cut
    <3>2. QED
      BY <3>1, Constants
  <2>2. QED
    BY <1>4, <2>1, AgeSequences
<1>9. Len(e) <= Len(seen)
  <2>1. Len(e) = Len(seen) - k /\ Len(seen) \in Nat
    BY <1>1, <1>7, WindowShape DEF Cut
  <2>2. QED
    BY <2>1
<1>10. ASSUME NEW a \in Nat, \A j \in 1 .. Len(seen) : seen[j] >= a, NEW j \in 1 .. Len(e)
       PROVE  e[j] >= a + 1
  <2> DEFINE i == k + j
  <2>1. Len(e) = Len(seen) - k /\ k \in 0 .. Len(seen) /\ Len(seen) \in Nat /\ e[j] = seen[i] + 1
    BY <1>1, <1>7, WindowShape DEF Cut
  <2>2. i \in 1 .. Len(seen)
    BY <2>1
  <2> HIDE DEF i
  <2>3. seen[i] >= a /\ seen[i] \in Nat
    BY <2>2, <1>1, <1>10
  <2>4. QED
    BY <2>1, <2>3
<1>11. QED
  BY <1>3, <1>4, <1>5, <1>6, <1>8, <1>9, <1>10

-----------------------------------------------------------------------------
(* THE INVARIANT                                                           *)

(* Nothing has been sent.                                                  *)
LEMMA InitInv == Init => LimiterInv
<1> SUFFICES ASSUME Init PROVE LimiterInv
  OBVIOUS
<1>1. sender \in SenderType /\ sender.pc = "idle"
  <2>1. 0 \in 0 .. MaxBatch /\ 0 \in Ages(Window) /\ 0 \in Nat
    BY Constants DEF Ages
  <2>2. QED
    BY <2>1 DEF Init, Idle, SenderType
<1>2. /\ window \in Seq(Ages(Window)) /\ seen \in Seq(Ages(Window))
      /\ Len(window) = 0 /\ Len(seen) = 0
  BY DEF Init
<1>3. /\ last \in Ages(LastCap) /\ trigger \in Ages(Decay + 1)
      /\ backoff \in 0 .. BackoffMax /\ level \in 0 .. TopLevel /\ successes \in 0 .. ResetAfter
      /\ quota \in Bands /\ level = 0
  BY Constants DEF Init, Ages, Bands
<1>4. TypeOK
  BY <1>1, <1>2, <1>3 DEF TypeOK, SenderType
<1>5. WindowInv /\ SeenFits
  BY <1>2, Constants DEF WindowInv, SeenFits, Ordered, Recorded
<1>6. QED
  BY <1>1, <1>3, <1>4, <1>5 DEF LimiterInv, SenderInv, BackoffInv

(* write_slot: a batch that is not refused sleeps long enough.             *)
LEMMA WriteSlotKeeps ==
    ASSUME LimiterInv, NEW n \in 1 .. MaxBatch, NEW cancel \in BOOLEAN, WriteSlot(n, cancel)
    PROVE  LimiterInv'
<1> USE DEF LimiterInv
<1>1. CASE Refused(n)
  <2>1. UNCHANGED vars
    BY <1>1 DEF WriteSlot, vars
  <2>2. QED
    BY <2>1 DEF vars, TypeOK, WindowInv, SenderInv, BackoffInv, SeenFits, Ordered, Recorded,
                SleepSuffices
<1>2. CASE ~Refused(n)
  <2>1. window \in Seq(Nat) /\ Ordered(window) /\ backoff \in Nat /\ last \in Nat /\ quota \in Bands
    BY AgeSequences, Constants DEF TypeOK, WindowInv, Ages
  <2>2. n \in 1 .. Budget /\ n \in 0 .. MaxBatch
    BY Constants
  <2>3. /\ Phase2(n) \in Nat
        /\ \A t \in Nat : t >= backoff + Phase2(n) => SleepSuffices(window, n, t)
    <3>1. PICK a : a = Aged(window, backoff)
      OBVIOUS
    <3>2. Phase2(n) = IF Available(a) < n THEN TimeUntilOpsFree(a, n) ELSE 0
      BY <3>1 DEF Phase2, Phase1
    <3>3. QED
      BY <2>1, <2>2, <3>1, <3>2, PhasesSuffice
  <2>4. PICK t \in Nat : t = Phase1 + Phase2(n) /\ t = backoff + Phase2(n)
    BY <2>1, <2>3 DEF Phase1
  <2>5. Phase34(t, cancel) \in Nat /\ Phase34(t, cancel) >= t
    <3> DEFINE floor == IF cancel THEN CancelInterval ELSE SendInterval
               gap == IF cancel THEN floor ELSE Pace(floor, quota)
    <3>1. floor \in Nat
      BY Constants
    <3> HIDE DEF floor
    <3>2. Max({floor, FreeSlot}) \in Int
      BY <3>1, Constants, MaxOfTwo
    <3>3. Pace(floor, quota) \in Int
      BY <3>1, <3>2, <2>1 DEF Pace, Bands
    <3>4. gap - last \in Int
      BY <3>1, <3>3, <2>1
    <3>5. Phase34(t, cancel) = Max({t, gap - last})
      BY DEF Phase34, floor
    <3> HIDE DEF gap
    <3>6. QED
      BY <3>4, <3>5, MaxOfTwo
  <2>6. PICK wait \in Nat : wait = Phase34(Phase1 + Phase2(n), cancel) /\ wait >= t
    BY <2>4, <2>5
  <2>7. sender' = [pc |-> "gate", ops |-> n, cancel |-> cancel, wait |-> wait, age |-> 0]
    BY <1>2, <2>6 DEF WriteSlot
  <2>8. /\ sender' \in SenderType /\ sender'.pc = "gate" /\ sender'.ops = n
        /\ sender'.wait = wait /\ sender'.age = 0
    <3>1. 0 \in Ages(Window)
      BY Constants DEF Ages
    <3>2. QED
      BY <2>2, <2>7, <3>1 DEF SenderType
  <2>9. UNCHANGED <<window, last, backoff, level, successes, trigger, quota, seen>>
    BY DEF WriteSlot
  <2>10. SleepSuffices(window, n, wait) /\ wait >= backoff
    BY <2>1, <2>3, <2>4, <2>6
  <2>11. TypeOK'
    BY <2>8, <2>9 DEF TypeOK, SenderType
  <2>12. SenderInv'
    BY <2>8, <2>9, <2>10 DEF SenderInv, SleepSuffices
  <2>13. WindowInv' /\ BackoffInv' /\ SeenFits'
    BY <2>9 DEF WindowInv, BackoffInv, SeenFits, Ordered, Recorded
  <2>14. QED
    BY <2>11, <2>12, <2>13
<1>3. QED
  BY <1>1, <1>2

(* A batch given up leaves nothing behind.                                 *)
LEMMA ForgetKeeps ==
    ASSUME LimiterInv, sender' = Idle,
           UNCHANGED <<window, last, backoff, level, successes, trigger, quota, seen>>
    PROVE  LimiterInv'
<1>1. sender' \in SenderType /\ sender'.pc = "idle"
  <2>1. 0 \in 0 .. MaxBatch /\ 0 \in Ages(Window) /\ 0 \in Nat
    BY Constants DEF Ages
  <2>2. QED
    BY <2>1 DEF Idle, SenderType
<1>2. TypeOK'
  BY <1>1 DEF LimiterInv, TypeOK, SenderType
<1>3. WindowInv' /\ BackoffInv' /\ SeenFits'
  BY DEF LimiterInv, WindowInv, BackoffInv, SeenFits, Ordered, Recorded
<1>4. SenderInv'
  BY <1>1 DEF SenderInv
<1>5. QED
  BY <1>2, <1>3, <1>4 DEF LimiterInv

(* A batch leaves the gate when there is room for it.                      *)
LEMMA SendKeeps ==
    ASSUME LimiterInv, Send
    PROVE  LimiterInv'
<1> USE DEF LimiterInv
<1>1. window \in Seq(Nat) /\ seen \in Seq(Nat) /\ sender \in SenderType /\ sender.age = 0
  BY AgeSequences DEF TypeOK, SenderType, Send, SenderInv
<1>2. sender' \in SenderType /\ sender'.pc = "sent" /\ sender'.ops = sender.ops /\ sender'.age = 0
  BY <1>1 DEF Send, SenderType
<1>3. UNCHANGED <<window, last, backoff, level, successes, trigger, quota, seen>>
  BY DEF Send
<1>4. Len(seen) + sender.ops <= Budget
  <2>1. PICK n : n = sender.ops
    OBVIOUS
  <2>2. n \in 0 .. MaxBatch
    BY <1>1, <2>1 DEF SenderType
  <2>3. n \in 0 .. Budget
    BY <2>2, Constants
  <2>4. SleepSuffices(window, n, 0) /\ Recorded(window, seen)
    BY <2>1 DEF Send, SenderInv, WindowInv
  <2>5. QED
    BY <1>1, <2>1, <2>3, <2>4, RoomAfterSleep
<1>5. \A j \in 1 .. Len(seen) : seen[j] >= 0
  BY <1>1
<1>6. SenderInv'
  BY <1>2, <1>3, <1>4, <1>5 DEF SenderInv
<1>7. TypeOK'
  BY <1>2, <1>3 DEF TypeOK, SenderType
<1>8. WindowInv' /\ BackoffInv' /\ SeenFits'
  BY <1>3 DEF WindowInv, BackoffInv, SeenFits, Ordered, Recorded
<1>9. QED
  BY <1>6, <1>7, <1>8

(* record_ops_sent, whatever the answer does to the backoff and the quota. *)
LEMMA RecordKeeps ==
    ASSUME LimiterInv, sender.pc = "sent", RecordOpsSent,
           trigger' \in Ages(Decay + 1), backoff' \in 0 .. BackoffMax, level' \in 0 .. TopLevel,
           successes' \in 0 .. ResetAfter, quota' \in Bands, BackoffInv'
    PROVE  LimiterInv'
<1> USE DEF LimiterInv
<1>1. window \in Seq(Nat) /\ seen \in Seq(Nat) /\ sender \in SenderType
  BY AgeSequences DEF TypeOK, SenderType
<1>2. PICK n \in 0 .. MaxBatch, a \in Ages(Window) : n = sender.ops /\ a = sender.age
  BY <1>1 DEF SenderType
<1>3. PICK x, y : x = window \o Copies(n, 0) /\ y = seen \o Copies(n, a)
  OBVIOUS
<1>4. window' = x /\ seen' = y /\ last' = 0 /\ sender' = Idle
  BY <1>2, <1>3 DEF RecordOpsSent
<1>5. n \in Nat /\ \A j \in 1 .. Len(seen) : seen[j] >= a
  BY <1>2, Constants DEF SenderInv
<1>6. Ordered(x) /\ Ordered(y) /\ Recorded(x, y) /\ Len(y) = Len(seen) + n
  BY <1>1, <1>2, <1>3, <1>5, OpsAreRecorded DEF WindowInv
<1>7. x \in Seq(Ages(Window)) /\ y \in Seq(Ages(Window))
  <2>1. 0 \in Ages(Window)
    BY Constants DEF Ages
  <2>2. Copies(n, 0) \in Seq(Ages(Window)) /\ Copies(n, a) \in Seq(Ages(Window))
    BY <1>2, <1>5, <2>1 DEF Copies
  <2>3. window \in Seq(Ages(Window)) /\ seen \in Seq(Ages(Window))
    BY DEF TypeOK
  <2>4. QED
    BY <1>3, <2>2, <2>3
<1>8. sender' \in SenderType /\ sender'.pc = "idle"
  <2>1. 0 \in 0 .. MaxBatch /\ 0 \in Ages(Window) /\ 0 \in Nat
    BY Constants DEF Ages
  <2>2. QED
    BY <1>4, <2>1 DEF Idle, SenderType
<1>9. last' \in Ages(LastCap)
  BY <1>4, Constants DEF Ages
<1>10. TypeOK'
  BY <1>4, <1>7, <1>8, <1>9 DEF TypeOK, SenderType
<1>11. SeenFits'
  BY <1>2, <1>4, <1>6 DEF SeenFits, SenderInv
<1>12. WindowInv'
  BY <1>4, <1>6 DEF WindowInv
<1>13. SenderInv'
  BY <1>8 DEF SenderInv
<1>14. QED
  BY <1>10, <1>11, <1>12, <1>13

(* Ok: the escalation goes on or ends.                                     *)
LEMMA OkKeeps ==
    ASSUME LimiterInv, NEW q \in Bands, Ok(q)
    PROVE  LimiterInv'
<1>1. /\ level \in 0 .. TopLevel /\ successes \in 0 .. ResetAfter
      /\ trigger \in Ages(Decay + 1) /\ backoff \in 0 .. BackoffMax
  BY DEF LimiterInv, TypeOK
<1>2. level' \in {0, level} /\ UNCHANGED <<backoff, trigger>>
  BY DEF Ok, ResetGlobalBackoff
<1>3. level' \in 0 .. TopLevel
  BY <1>1, <1>2, Constants
<1>4. successes' \in 0 .. ResetAfter
  BY <1>1, Constants DEF Ok, ResetGlobalBackoff, Later
<1>5. BackoffInv'
  BY <1>1, <1>2 DEF LimiterInv, BackoffInv, BackoffFor
<1>6. QED
  BY <1>1, <1>2, <1>3, <1>4, <1>5, RecordKeeps DEF Ok

(* A 429: the new backoff is all still to be served.                       *)
LEMMA RateLimitedKeeps ==
    ASSUME LimiterInv, RateLimited
    PROVE  LimiterInv'
<1>1. level \in 0 .. TopLevel /\ quota \in Bands
  BY DEF LimiterInv, TypeOK
<1>2. PICK l \in 1 .. TopLevel : l = level'
  BY <1>1, Constants DEF RateLimited, TriggerGlobalBackoff, Least
<1>3. BackoffFor(l) \in 0 .. BackoffMax
  BY BackoffRange
<1>4. backoff' = BackoffFor(l) /\ trigger' = 0 /\ successes' = 0 /\ quota' = quota
  BY <1>2 DEF RateLimited, TriggerGlobalBackoff
<1>5. trigger' \in Ages(Decay + 1) /\ successes' \in 0 .. ResetAfter /\ level' \in 0 .. TopLevel
  BY <1>2, <1>4, Constants DEF Ages
<1>6. BackoffInv'
  <2>1. trigger' + backoff' >= Least(BackoffFor(l), Decay + 1)
    BY <1>3, <1>4, Constants DEF Least
  <2>2. QED
    BY <1>2, <2>1 DEF BackoffInv, BackoffFor
<1>7. QED
  BY <1>1, <1>3, <1>4, <1>5, <1>6, RecordKeeps DEF RateLimited

(* The other rejections change nothing but the quota.                      *)
LEMMA RejectedKeeps ==
    ASSUME LimiterInv, NEW q \in Bands, Rejected(q)
    PROVE  LimiterInv'
<1>1. /\ level' \in 0 .. TopLevel /\ successes' \in 0 .. ResetAfter
      /\ trigger' \in Ages(Decay + 1) /\ backoff' \in 0 .. BackoffMax
  BY DEF LimiterInv, TypeOK, Rejected
<1>2. BackoffInv'
  BY DEF LimiterInv, BackoffInv, Rejected, BackoffFor
<1>3. QED
  BY <1>1, <1>2, RecordKeeps DEF Rejected

(* Time passes for the windows, the backoff and the batch alike.           *)
LEMMA TickKeeps ==
    ASSUME LimiterInv, Tick
    PROVE  LimiterInv'
<1> USE DEF LimiterInv
<1>1. /\ window \in Seq(Nat) /\ seen \in Seq(Nat) /\ sender \in SenderType
      /\ Ordered(window) /\ backoff \in 0 .. BackoffMax /\ trigger \in Ages(Decay + 1)
      /\ last \in Ages(LastCap)
  BY AgeSequences DEF TypeOK, SenderType, WindowInv
<1>2. /\ window' \in Seq(Ages(Window)) /\ seen' \in Seq(Ages(Window))
      /\ Ordered(window') /\ Ordered(seen') /\ Recorded(window', seen')
      /\ Len(seen') <= Len(seen)
      /\ \A a \in Nat : (\A j \in 1 .. Len(seen) : seen[j] >= a)
                        => \A j \in 1 .. Len(seen') : seen'[j] >= a + 1
  <2>1. window' = Aged(window, 1) /\ seen' = DropExpired(Older(seen, 1), Window - 1)
    BY DEF Tick
  <2>2. QED
    BY <2>1, WindowsAge
<1>3. PICK b \in Nat : b = Max({0, backoff - 1}) /\ b <= backoff /\ b + 1 >= backoff
  BY <1>1, Constants, MaxOfTwo
<1>4. PICK v \in Nat : v = Max({0, sender.wait - 1}) /\ v + 1 >= sender.wait /\ v >= sender.wait - 1
  BY <1>1, MaxOfTwo DEF SenderType
<1>5. PICK g \in Ages(Window) :
        /\ g = IF sender.pc = "sent" THEN Later(sender.age, Window) ELSE 0
        /\ sender.pc = "sent" => g <= sender.age + 1
        /\ sender.pc # "sent" => g = 0
  BY <1>1, Constants DEF SenderType, Ages, Later
<1>6. sender' = [sender EXCEPT !.wait = v, !.age = g] /\ backoff' = b
  BY <1>3, <1>4, <1>5 DEF Tick
<1>7. /\ sender' \in SenderType /\ sender'.pc = sender.pc /\ sender'.ops = sender.ops
      /\ sender'.wait = v /\ sender'.age = g
  BY <1>1, <1>6 DEF SenderType
<1>8. trigger' \in Ages(Decay + 1) /\ last' \in Ages(LastCap) /\ backoff' \in 0 .. BackoffMax
  <2>1. ASSUME NEW cap \in Nat, NEW a \in Ages(cap)
        PROVE  Later(a, cap) \in Ages(cap)
    BY DEF Ages, Later
  <2>2. Decay + 1 \in Nat /\ LastCap \in Nat
    BY Constants
  <2>3. trigger' \in Ages(Decay + 1) /\ last' \in Ages(LastCap)
    BY <1>1, <2>1, <2>2 DEF Tick
  <2>4. QED
    BY <1>1, <1>3, <1>6, <2>3, Constants
<1>9. TypeOK'
  BY <1>2, <1>7, <1>8 DEF TypeOK, Tick, SenderType
<1>10. WindowInv'
  BY <1>2 DEF WindowInv
<1>11. SeenFits'
  BY <1>1, <1>2, Constants DEF SeenFits, TypeOK
<1>12. BackoffInv'
  <2> SUFFICES ASSUME level > 0
               PROVE  trigger' + backoff' >= Least(BackoffFor(level), Decay + 1)
    BY DEF BackoffInv, BackoffFor, Tick
  <2>1. PICK f \in 0 .. BackoffMax : f = BackoffFor(level)
    BY BackoffRange, Constants DEF TypeOK
  <2>2. trigger + backoff >= Least(f, Decay + 1)
    BY <2>1 DEF BackoffInv
  <2>3. trigger' + b >= Least(f, Decay + 1)
    <3>1. PICK c \in Nat : c = Decay + 1
      BY Constants
    <3>2. trigger \in 0 .. c
      BY <1>1, <3>1 DEF Ages
    <3>3. trigger' = IF trigger < c THEN trigger + 1 ELSE trigger
      BY <3>1 DEF Tick, Later
    <3>4. PICK m \in Int : m = Least(f, c) /\ m <= c
      BY <3>1, Constants DEF Least
    <3>5. trigger' + b >= m
      BY <1>1, <1>3, <2>2, <3>1, <3>2, <3>3, <3>4, Constants
    <3>6. QED
      BY <3>1, <3>4, <3>5
  <2>4. QED
    BY <1>6, <2>1, <2>3
<1>13. ASSUME sender'.pc = "gate"
       PROVE  SleepSuffices(window', sender'.ops, v) /\ v >= b /\ g = 0
  <2>1. PICK n : n = sender.ops
    OBVIOUS
  <2>2. PICK u \in Nat : u = sender.wait
    BY <1>1 DEF SenderType
  <2>3. n \in 0 .. Budget
    BY <1>1, <2>1, Constants DEF SenderType
  <2>4. SleepSuffices(window, n, u) /\ u >= backoff
    BY <1>7, <1>13, <2>1, <2>2 DEF SenderInv
  <2>5. SleepSuffices(Aged(window, 1), n, Max({0, u - 1}))
    BY <1>1, <2>2, <2>3, <2>4, SleepGoesOn
  <2>6. SleepSuffices(window', sender'.ops, v)
    BY <1>4, <1>7, <2>1, <2>2, <2>5 DEF Tick
  <2>7. v = IF 0 >= u - 1 THEN 0 ELSE u - 1
    BY <1>4, <2>2, MaxOfTwo
  <2>8. b = IF 0 >= backoff - 1 THEN 0 ELSE backoff - 1
    BY <1>1, <1>3, MaxOfTwo
  <2>9. QED
    BY <1>1, <1>5, <1>7, <1>13, <2>2, <2>4, <2>6, <2>7, <2>8
<1>14. ASSUME sender'.pc = "sent"
       PROVE  /\ Len(seen') + sender'.ops <= Budget
              /\ \A j \in 1 .. Len(seen') : seen'[j] >= g
  <2>1. PICK a \in Nat : a = sender.age /\ g <= a + 1
    BY <1>1, <1>5, <1>7, <1>14, Constants DEF SenderType, Ages
  <2>2. Len(seen) + sender.ops <= Budget /\ \A j \in 1 .. Len(seen) : seen[j] >= a
    BY <1>7, <1>14, <2>1 DEF SenderInv
  <2>3. \A j \in 1 .. Len(seen') : seen'[j] >= a + 1
    BY <1>2, <2>2
  <2>4. ASSUME NEW j \in 1 .. Len(seen') PROVE seen'[j] >= g
    <3>1. seen'[j] \in Nat /\ g \in Nat
      BY <1>2, <1>5, Constants DEF Ages
    <3>2. QED
      BY <3>1, <2>1, <2>3
  <2>5. Len(seen') \in Nat /\ Len(seen) \in Nat /\ sender.ops \in Nat
    BY <1>1, <1>2, Constants DEF SenderType
  <2>6. QED
    BY <1>2, <1>7, <2>2, <2>4, <2>5, Constants
<1>15. SenderInv'
  BY <1>6, <1>7, <1>13, <1>14 DEF SenderInv
<1>16. QED
  BY <1>9, <1>10, <1>11, <1>12, <1>15

-----------------------------------------------------------------------------
(* THEOREMS                                                                *)

(* The limiter's own window, shifted by the answers it waits for, bounds   *)
(* the one the exchange keeps; a backoff is never cut short.               *)
THEOREM LimiterInvariantHolds == Spec => []LimiterInv
<1>1. LimiterInv /\ [Next]_vars => LimiterInv'
  <2> SUFFICES ASSUME LimiterInv, [Next]_vars PROVE LimiterInv'
    OBVIOUS
  <2>1. CASE Ask
    BY <2>1, WriteSlotKeeps DEF Ask
  <2>2. CASE Abandon \/ Unanswered
    BY <2>2, ForgetKeeps DEF Abandon, Unanswered
  <2>3. CASE Send
    BY <2>3, SendKeeps
  <2>4. CASE Answer
    BY <2>2, <2>4, OkKeeps, RejectedKeeps, RateLimitedKeeps DEF Answer
  <2>5. CASE Tick
    BY <2>5, TickKeeps
  <2>6. CASE UNCHANGED vars
    BY <2>6 DEF vars, LimiterInv, TypeOK, WindowInv, SenderInv, BackoffInv, SeenFits, Ordered,
                Recorded, SleepSuffices, BackoffFor
  <2>7. QED
    BY <2>1, <2>2, <2>3, <2>4, <2>5, <2>6 DEF Next
<1>2. QED
  BY <1>1, InitInv, PTL DEF Spec

(* Type correctness; no sleep is negative, no backoff exceeds              *)
(* RL_BACKOFF_MAX.                                                         *)
THEOREM TypeCorrect == Spec => []TypeOK
<1>1. LimiterInv => TypeOK
  BY DEF LimiterInv
<1>2. QED
  BY <1>1, LimiterInvariantHolds, PTL

(* The exchange never answers more than RL_OPS_PER_WINDOW ops sent within  *)
(* RL_WINDOW_SECONDS, however long its answers take.                       *)
THEOREM WindowIsRespected == Spec => []WindowRespected
<1>1. LimiterInv => WindowRespected
  <2> SUFFICES ASSUME LimiterInv PROVE WindowRespected
    OBVIOUS
  <2>1. Len(seen) \in Nat /\ Len(seen) <= Budget
    BY DEF LimiterInv, SeenFits, TypeOK
  <2>2. sender.pc = "sent" => Len(seen) + sender.ops <= Budget
    BY DEF LimiterInv, SenderInv
  <2>3. QED
    BY <2>1, <2>2, Constants DEF WindowRespected, InFlight
<1>2. QED
  BY <1>1, LimiterInvariantHolds, PTL

(* After a 429 nothing is sent before the backoff of its level is over.    *)
THEOREM BackoffServed == Spec => BackoffIsServed
<1>1. ASSUME LimiterInv, [Next]_vars
      PROVE  [sender.pc = "gate" /\ sender'.pc = "sent" /\ level > 0
                => trigger >= Least(BackoffFor(level), Decay + 1)]_vars
  <2> SUFFICES ASSUME Next, sender.pc = "gate", sender'.pc = "sent", level > 0
               PROVE  trigger >= Least(BackoffFor(level), Decay + 1)
    BY <1>1 DEF vars
  <2>1. sender \in SenderType /\ backoff \in Nat /\ trigger \in Nat
    BY <1>1, Constants DEF LimiterInv, TypeOK, SenderType, Ages
  <2>2. Send
    <3>1. ~Abandon /\ ~Ask /\ ~Answer
      BY DEF Abandon, Idle, Ask, WriteSlot, Answer, Ok, Rejected, RateLimited, Unanswered
    <3>2. ~Tick
      BY <2>1 DEF Tick, SenderType
    <3>3. QED
      BY <3>1, <3>2 DEF Next
  <2>3. backoff = 0
    BY <1>1, <2>1, <2>2 DEF Send, LimiterInv, SenderInv
  <2>4. QED
    BY <1>1, <2>1, <2>3 DEF LimiterInv, BackoffInv
<1>2. QED
  BY <1>1, LimiterInvariantHolds, PTL DEF Spec, BackoffIsServed
=============================================================================
