-------------------------- MODULE LighterBookProofs -------------------------
(***************************************************************************)
(* TLAPS proofs about LighterBook: its types, the fate of a book that was  *)
(* given up, and the refinement of BookMirror, for every set of levels,    *)
(* every bound and every streak threshold.                                 *)
(***************************************************************************)
EXTENDS LighterBook, BookHistory, TLAPS

(* The socket holds true messages, in the order of their last update, none *)
(* of them older than the book.                                            *)
SocketInv ==
    /\ socket \in Seq(Message)
    /\ \A i \in 1..Len(socket) :
        /\ TrueMessage(hist, socket[i])
        /\ book.lastNonce <= socket[i].last
        /\ \A j \in 1..i : socket[j].last <= socket[i].last

(* A client that has no book, or will drop it at the next message, is off  *)
(* line or finds a snapshot first.                                         *)
SnapshotFirst ==
    /\ ~up => socket = <<>>
    /\ ~BadSnapshots /\ up /\ (resetFlag \/ ~book.initialized)
        => socket # <<>> /\ socket[1].kind = "snapshot"

(* A book that was started is the exchange's after update last_nonce, even *)
(* one that was given up.                                                  *)
BookInv ==
    ~BadSnapshots /\ book.initialized
        => book.lastNonce \in 0..Now /\ BookAt(hist, book.levels, book.lastNonce)

BookType == [levels : [Levels -> 0..Now], initialized : BOOLEAN,
             lastOffset : -1..Now, lastNonce : -1..Now]

ClientType ==
    /\ up \in BOOLEAN /\ reconnect \in BOOLEAN /\ resetFlag \in BOOLEAN
    /\ awaiting \in BOOLEAN
    /\ book \in BookType
    /\ streak \in 0..StreakTrip - 1

LighterInv ==
    /\ FeedInv /\ SocketInv /\ SnapshotFirst /\ BookInv
    /\ ClientType /\ DistrustForcesReset

-----------------------------------------------------------------------------
(* LEMMAS ABOUT BOOKS AND DIFFS                                            *)

(* One more update leaves the books and the diffs of the past as they are. *)
LEMMA PastIsFixed ==
    ASSUME NEW h \in Seq(Levels), NEW k \in Levels,
           NEW levels, NEW a \in Nat, NEW n \in 0..Len(h)
    PROVE  /\ BookAt(h, levels, n) => BookAt(Append(h, k), levels, n)
           /\ Covers(h, levels, a, n) => Covers(Append(h, k), levels, a, n)
<1> DEFINE g == Append(h, k)
<1>1. n \in Nat /\ \A i \in 1..n : g[i] = h[i]
  OBVIOUS
<1> HIDE DEF g
<1>2. ASSUME BookAt(h, levels, n) PROVE BookAt(g, levels, n)
  <2> SUFFICES ASSUME NEW l \in Levels
               PROVE  /\ levels[l] \in 0..n
                      /\ levels[l] # 0 => g[levels[l]] = l
                      /\ \A i \in levels[l] + 1 .. n : g[i] # l
    BY DEF BookAt
  <2>1. /\ levels[l] \in 0..n
        /\ levels[l] # 0 => h[levels[l]] = l
        /\ \A i \in levels[l] + 1 .. n : h[i] # l
    BY <1>2 DEF BookAt
  <2>2. QED
    BY <1>1, <2>1
<1>3. ASSUME Covers(h, levels, a, n) PROVE Covers(g, levels, a, n)
  BY <1>1, <1>3 DEF Covers
<1>4. QED
  BY <1>2, <1>3 DEF g

(* So does it leave a true message true.                                   *)
LEMMA MessageStaysTrue ==
    ASSUME NEW h \in Seq(Levels), NEW k \in Levels, NEW m, TrueMessage(h, m)
    PROVE  TrueMessage(Append(h, k), m)
<1>1. Len(h) \in Nat /\ Len(Append(h, k)) = Len(h) + 1
  OBVIOUS
<1>2. CASE m.kind = "snapshot"
  <2>1. m.last \in 0..Len(h) /\ BookAt(h, m.levels, m.last)
    BY <1>2 DEF TrueMessage
  <2>2. BookAt(Append(h, k), m.levels, m.last)
    BY <2>1, PastIsFixed
  <2>3. QED
    BY <1>1, <1>2, <2>1, <2>2 DEF TrueMessage
<1>3. CASE m.kind = "diff"
  <2>1. m.last \in 0..Len(h) /\ m.prev \in Nat /\ Covers(h, m.levels, m.prev, m.last)
    BY <1>1, <1>3 DEF TrueMessage
  <2>2. Covers(Append(h, k), m.levels, m.prev, m.last)
    BY <2>1, PastIsFixed
  <2>3. QED
    BY <1>1, <1>3, <2>1, <2>2 DEF TrueMessage
<1>4. QED
  BY <1>2, <1>3 DEF TrueMessage

(* upsert_level of a whole diff: a diff that starts no later than right    *)
(* after the book and does not end before it brings the book to the        *)
(* diff's end.  It is the one fact both continuity checks (prev = last     *)
(* nonce; U <= lastUpdateId <= u, then pu = u) establish the premise of.   *)
LEMMA DiffJoinsBook ==
    ASSUME NEW h \in Seq(Levels), NEW levels, NEW d,
           NEW p \in Nat, NEW a \in Nat, NEW b \in Nat, p <= a, a <= b,
           BookAt(h, levels, a), Covers(h, d, p, b)
    PROVE  BookAt(h, Upserted(levels, d), b)
<1> SUFFICES ASSUME NEW l \in Levels
             PROVE  /\ Upserted(levels, d)[l] \in 0..b
                    /\ Upserted(levels, d)[l] # 0 => h[Upserted(levels, d)[l]] = l
                    /\ \A i \in Upserted(levels, d)[l] + 1 .. b : h[i] # l
  BY DEF BookAt
<1>1. CASE l \in DOMAIN d
  <2>1. Upserted(levels, d)[l] = d[l]
    BY <1>1 DEF Upserted
  <2>2. d[l] \in p + 1 .. b /\ h[d[l]] = l /\ \A i \in d[l] + 1 .. b : h[i] # l
    BY <1>1 DEF Covers
  <2>3. QED
    BY <2>1, <2>2
<1>2. CASE l \notin DOMAIN d
  <2>1. Upserted(levels, d)[l] = levels[l]
    BY <1>2 DEF Upserted
  <2>2. /\ levels[l] \in 0..a
        /\ levels[l] # 0 => h[levels[l]] = l
        /\ \A i \in levels[l] + 1 .. a : h[i] # l
    BY DEF BookAt
  <2>3. \A i \in p + 1 .. b : h[i] # l
    BY <1>2 DEF Covers
  <2>4. QED
    BY <2>1, <2>2, <2>3
<1>3. QED
  BY <1>1, <1>2

(* A snapshot names every level, so that it replaces the book.             *)
LEMMA SnapshotReplaces ==
    ASSUME NEW n, NEW levels \in [Levels -> 0..n]
    PROVE  Replaced(levels) = levels
BY DEF Replaced, Upserted

(* Whatever is applied, the levels stay updates of the history.            *)
LEMMA UpsertedType ==
    ASSUME NEW h \in Seq(Levels), NEW levels \in [Levels -> 0..Len(h)],
           NEW m, TrueMessage(h, m)
    PROVE  /\ Upserted(levels, m.levels) \in [Levels -> 0..Len(h)]
           /\ Replaced(m.levels) \in [Levels -> 0..Len(h)]
<1>1. Len(h) \in Nat
  OBVIOUS
<1>2. \A l \in DOMAIN m.levels \cap Levels : m.levels[l] \in 0..Len(h)
  <2>1. CASE m.kind = "snapshot"
    BY <1>1, <2>1 DEF TrueMessage
  <2>2. CASE m.kind = "diff"
    <3>1. m.last \in 0..Len(h) /\ m.prev \in Nat /\ Covers(h, m.levels, m.prev, m.last)
      BY <1>1, <2>2 DEF TrueMessage
    <3>2. \A l \in DOMAIN m.levels : m.levels[l] \in m.prev + 1 .. m.last
      BY <3>1 DEF Covers
    <3>3. QED
      BY <1>1, <3>1, <3>2
  <2>3. QED
    BY <2>1, <2>2 DEF TrueMessage
<1>3. Upserted(levels, m.levels) \in [Levels -> 0..Len(h)]
  BY <1>2 DEF Upserted
<1>4. Absent \in [Levels -> 0..Len(h)]
  BY <1>1 DEF Absent
<1>5. Replaced(m.levels) \in [Levels -> 0..Len(h)]
  BY <1>2, <1>4 DEF Replaced, Upserted
<1>6. QED
  BY <1>3, <1>5

-----------------------------------------------------------------------------
(* THE EXCHANGE                                                            *)

(* The empty diff.                                                         *)
LEMMA NoLevelsIsMap == NoLevels \in LevelMaps
<1>1. <<>> \in [{} -> Nat]
  OBVIOUS
<1>2. QED
  BY <1>1 DEF NoLevels, LevelMaps

(* Nothing happened yet.                                                   *)
LEMMA FeedInitInv == FeedInit => FeedInv
BY NoLevelsIsMap DEF FeedInit, FeedInv, Now, Absent, NoLevels, BookAt, Covers

(* An update changes the book, joins the prepared diff and leaves the      *)
(* past alone.                                                             *)
LEMMA UpdateKeepsFeed ==
    ASSUME FeedInv, NEW k \in Levels, Update(k)
    PROVE  FeedInv' /\ hist' = Append(hist, k) /\ Now' = Now + 1
<1>1. /\ hist \in Seq(Levels) /\ Now \in Nat /\ Now = Len(hist)
      /\ hist' = Append(hist, k) /\ Now' = Now + 1
      /\ hist'[Now + 1] = k /\ \A i \in 1..Now : hist'[i] = hist[i]
  BY DEF FeedInv, Update, Now
<1>2. sent' = sent /\ sent \in 0..Now
  BY DEF FeedInv, Update
<1>3. truth' \in [Levels -> 0..Now'] /\ \A l \in Levels : truth'[l] = IF l = k THEN Now + 1 ELSE truth[l]
  BY <1>1 DEF FeedInv, Update
<1>4. BookAt(hist', truth', Now')
  <2> SUFFICES ASSUME NEW l \in Levels
               PROVE  /\ truth'[l] \in 0..Now'
                      /\ truth'[l] # 0 => hist'[truth'[l]] = l
                      /\ \A i \in truth'[l] + 1 .. Now' : hist'[i] # l
    BY DEF BookAt
  <2>1. /\ truth[l] \in 0..Now
        /\ truth[l] # 0 => hist[truth[l]] = l
        /\ \A i \in truth[l] + 1 .. Now : hist[i] # l
    BY DEF FeedInv, BookAt
  <2>2. CASE l = k
    BY <1>1, <1>3, <2>2
  <2>3. CASE l # k
    BY <1>1, <1>3, <2>1, <2>3
  <2>4. QED
    BY <2>2, <2>3
<1>5. /\ DOMAIN diff' = DOMAIN diff \cup {k}
      /\ \A l \in DOMAIN diff' : diff'[l] = IF l = k THEN Now + 1 ELSE diff[l]
  BY DEF Update
<1>6. /\ DOMAIN diff \subseteq Levels
      /\ \A l \in DOMAIN diff : /\ diff[l] \in sent + 1 .. Now
                                /\ hist[diff[l]] = l
                                /\ \A i \in diff[l] + 1 .. Now : hist[i] # l
      /\ \A l \in Levels \ DOMAIN diff : \A i \in sent + 1 .. Now : hist[i] # l
  BY DEF FeedInv, Covers
<1>7. Covers(hist', diff', sent, Now')
  <2>1. ASSUME NEW l \in DOMAIN diff'
        PROVE  /\ diff'[l] \in sent + 1 .. Now'
               /\ hist'[diff'[l]] = l
               /\ \A i \in diff'[l] + 1 .. Now' : hist'[i] # l
    <3>1. CASE l = k
      BY <1>1, <1>2, <1>5, <3>1
    <3>2. CASE l # k
      <4>1. l \in DOMAIN diff /\ diff'[l] = diff[l]
        BY <1>5, <3>2
      <4>2. QED
        BY <1>1, <1>2, <1>6, <3>2, <4>1
    <3>3. QED
      BY <3>1, <3>2
  <2>2. ASSUME NEW l \in Levels \ DOMAIN diff', NEW i \in sent + 1 .. Now'
        PROVE  hist'[i] # l
    BY <1>1, <1>2, <1>5, <1>6
  <2>3. QED
    BY <1>5, <1>6, <2>1, <2>2 DEF Covers
<1>8. diff' \in LevelMaps
  <2>1. diff' = [l \in DOMAIN diff \cup {k} |-> IF l = k THEN Now + 1 ELSE diff[l]]
    BY DEF Update
  <2>2. \A l \in DOMAIN diff : diff[l] \in Nat
    BY <1>1, <1>2, <1>6
  <2>3. diff' \in [DOMAIN diff \cup {k} -> Nat]
    BY <1>1, <2>1, <2>2
  <2>4. DOMAIN diff \cup {k} \in SUBSET Levels
    BY <1>6
  <2>5. QED
    BY <2>3, <2>4 DEF LevelMaps
<1>9. QED
  BY <1>1, <1>2, <1>3, <1>4, <1>7, <1>8 DEF FeedInv

(* Nothing is prepared after a diff or a snapshot went out.                *)
LEMMA SentKeepsFeed ==
    ASSUME FeedInv, sent' = Now, diff' = NoLevels, UNCHANGED <<hist, truth>>
    PROVE  FeedInv'
<1>1. Now' = Now /\ Now \in Nat /\ hist' = hist /\ truth' = truth
  BY DEF FeedInv, Now
<1>2. Covers(hist, NoLevels, Now, Now)
  BY <1>1 DEF Covers, NoLevels
<1>3. QED
  BY <1>1, <1>2, NoLevelsIsMap DEF FeedInv

(* What the exchange puts on the socket is true: the snapshot, ...         *)
LEMMA SnapshotIsTrue ==
    ASSUME FeedInv
    PROVE  /\ Snapshot \in Message /\ TrueMessage(hist, Snapshot)
           /\ Snapshot.kind = "snapshot" /\ Snapshot.last = Now
<1>1. Now = Len(hist) /\ Now \in Nat /\ truth \in [Levels -> 0..Now] /\ BookAt(hist, truth, Now)
  BY DEF FeedInv, Now
<1>2. truth \in [Levels -> Nat] /\ Levels \in SUBSET Levels
  BY <1>1
<1>3. truth \in LevelMaps
  BY <1>2 DEF LevelMaps
<1>4. QED
  BY <1>1, <1>3 DEF TrueMessage, Snapshot, Message

(* ... and the diff.                                                       *)
LEMMA DiffIsTrue ==
    ASSUME FeedInv, sent < Now
    PROVE  /\ Diff \in Message /\ TrueMessage(hist, Diff)
           /\ Diff.kind = "diff" /\ Diff.last = Now
<1>1. /\ Now = Len(hist) /\ Now \in Nat /\ sent \in 0..Now
      /\ diff \in LevelMaps /\ Covers(hist, diff, sent, Now)
  BY DEF FeedInv, Now
<1>2. QED
  BY <1>1 DEF TrueMessage, Diff, Message

-----------------------------------------------------------------------------
(* THE CLIENT                                                              *)

(* There is no book before the first message.                              *)
LEMMA NewBookFacts ==
    ASSUME FeedInv
    PROVE  NewBook \in BookType /\ ~NewBook.initialized /\ NewBook.lastNonce = -1
<1>1. Now \in Nat
  BY DEF FeedInv, Now
<1>2. Absent \in [Levels -> 0..Now]
  BY <1>1 DEF Absent
<1>3. QED
  BY <1>1, <1>2 DEF NewBook, BookType

(* What is left after the lazy reset.                                      *)
LEMMA KeptFacts ==
    ASSUME LighterInv
    PROVE  /\ Kept.book \in BookType /\ Kept.awaiting \in BOOLEAN
           /\ Kept.streak \in 0..StreakTrip - 1
           /\ Kept.book.lastNonce <= book.lastNonce
           /\ ~resetFlag => Kept.book = book /\ Kept.awaiting = awaiting
           /\ resetFlag => ~Kept.awaiting /\ ~Kept.book.initialized
<1>1. book \in BookType /\ streak \in 0..StreakTrip - 1 /\ awaiting \in BOOLEAN
  BY DEF LighterInv, ClientType
<1>2. NewBook \in BookType /\ ~NewBook.initialized /\ NewBook.lastNonce = -1
  BY NewBookFacts DEF LighterInv
<1>3. Now \in Nat /\ book.lastNonce \in -1..Now
  BY <1>1 DEF LighterInv, FeedInv, Now, BookType
<1>4. CASE resetFlag
  <2>1. Kept.book = NewBook /\ Kept.awaiting = FALSE /\ Kept.streak = 0
    BY <1>4 DEF Kept
  <2>2. 0 \in 0..StreakTrip - 1
    BY LighterAssumption DEF LighterAssumption
  <2>3. Kept.book.lastNonce <= book.lastNonce
    BY <1>2, <1>3, <2>1
  <2>4. QED
    BY <1>2, <1>4, <2>1, <2>2, <2>3, Zenon
<1>5. CASE ~resetFlag
  <2>1. Kept.book = book /\ Kept.awaiting = awaiting /\ Kept.streak = streak
    BY <1>5 DEF Kept
  <2>2. QED
    BY <1>1, <1>3, <1>5, <2>1
<1>6. QED
  BY <1>4, <1>5

(* A message put on the socket that is true and no older than the one      *)
(* before it and the book keeps the socket in order.                       *)
LEMMA AppendKeepsSocket ==
    ASSUME SocketInv, NEW m \in Message, TrueMessage(hist, m), book.lastNonce <= m.last,
           \A i \in 1..Len(socket) : socket[i].last <= m.last,
           socket' = Append(socket, m), UNCHANGED <<hist, book>>
    PROVE  SocketInv'
<1>1. /\ socket' \in Seq(Message) /\ Len(socket') = Len(socket) + 1
      /\ Len(socket) \in Nat
      /\ \A i \in 1..Len(socket) : socket'[i] = socket[i]
      /\ socket'[Len(socket) + 1] = m
  BY DEF SocketInv
<1>2. m.last \in Nat
  BY DEF Message
<1>3. ASSUME NEW i \in 1..Len(socket')
      PROVE  /\ TrueMessage(hist, socket'[i])
             /\ book.lastNonce <= socket'[i].last
             /\ \A j \in 1..i : socket'[j].last <= socket'[i].last
  <2>1. CASE i = Len(socket) + 1
    BY <1>1, <1>2, <2>1
  <2>2. CASE i # Len(socket) + 1
    <3>1. i \in 1..Len(socket) /\ socket'[i] = socket[i]
      BY <1>1, <2>2
    <3>2. \A j \in 1..i : j \in 1..Len(socket) /\ socket'[j] = socket[j]
      BY <1>1, <3>1
    <3>3. QED
      BY <3>1, <3>2 DEF SocketInv
  <2>3. QED
    BY <2>1, <2>2
<1>4. QED
  BY <1>1, <1>3 DEF SocketInv

(* The message that is read, and what is left on the socket.               *)
LEMMA ReadFacts ==
    ASSUME LighterInv, Reading
    PROVE  /\ Head(socket) = socket[1] /\ TrueMessage(hist, Head(socket))
           /\ Head(socket).last \in 0..Now
           /\ book.lastNonce <= Head(socket).last
           /\ socket' \in Seq(Message)
           /\ \A i \in 1..Len(socket') :
                /\ TrueMessage(hist, socket'[i])
                /\ Head(socket).last <= socket'[i].last
                /\ book.lastNonce <= socket'[i].last
                /\ \A j \in 1..i : socket'[j].last <= socket'[i].last
<1>1. socket \in Seq(Message) /\ socket # <<>> /\ socket' = Tail(socket)
  BY DEF Reading, LighterInv, SocketInv
<1>2. /\ Head(socket) = socket[1] /\ 1 \in 1..Len(socket) /\ Len(socket) \in Nat
      /\ socket' \in Seq(Message) /\ Len(socket') = Len(socket) - 1
      /\ \A i \in 1..Len(socket') : socket'[i] = socket[i + 1]
  BY <1>1
<1>3. \A i \in 1..Len(socket) :
        /\ TrueMessage(hist, socket[i])
        /\ book.lastNonce <= socket[i].last
        /\ \A j \in 1..i : socket[j].last <= socket[i].last
  BY DEF LighterInv, SocketInv
<1>4. TrueMessage(hist, socket[1]) /\ book.lastNonce <= socket[1].last
  BY <1>2, <1>3
<1>5. socket[1].last \in 0..Now
  BY <1>4 DEF TrueMessage, Now
<1>6. ASSUME NEW i \in 1..Len(socket')
      PROVE  /\ TrueMessage(hist, socket'[i])
             /\ socket[1].last <= socket'[i].last
             /\ book.lastNonce <= socket'[i].last
             /\ \A j \in 1..i : socket'[j].last <= socket'[i].last
  <2>1. i + 1 \in 1..Len(socket) /\ socket'[i] = socket[i + 1] /\ 1 \in 1..i + 1
    BY <1>2
  <2>2. \A j \in 1..i : j + 1 \in 1..i + 1 /\ socket'[j] = socket[j + 1]
    BY <1>2
  <2>3. QED
    BY <1>3, <2>1, <2>2
<1>7. QED
  BY <1>2, <1>4, <1>5, <1>6

(* Unless snapshots get lost, a diff that is read finds a book that was    *)
(* started and stays.                                                      *)
LEMMA DiffFindsBook ==
    ASSUME LighterInv, Reading, Head(socket).kind = "diff", ~BadSnapshots
    PROVE  ~resetFlag /\ book.initialized /\ Kept.book = book
<1>1. Head(socket) = socket[1] /\ up
  BY ReadFacts DEF Reading
<1>2. ~resetFlag /\ book.initialized
  BY <1>1 DEF LighterInv, SnapshotFirst, ClientType
<1>3. QED
  BY <1>2, KeptFacts

(* No delta is ignored for want of a snapshot in a session that was not    *)
(* told to end.                                                            *)
LEMMA NotAwaitingWhenReading ==
    ASSUME LighterInv, Reading
    PROVE  ~Kept.awaiting
BY KeptFacts DEF LighterInv, DistrustForcesReset, Reading

(* on_orderbook's apply: the book is the exchange's after the message.     *)
LEMMA AppliedFacts ==
    ASSUME LighterInv, Reading, ~HasGap(Kept.book, Head(socket))
    PROVE  LET b == Applied(Kept.book, Head(socket)) IN
           /\ b \in BookType /\ b.initialized
           /\ b.lastNonce = Head(socket).last
           /\ ~BadSnapshots => BookAt(hist, b.levels, b.lastNonce)
<1> DEFINE m == Head(socket)
           b == Applied(Kept.book, m)
<1>1. TrueMessage(hist, m) /\ m.last \in 0..Now /\ hist \in Seq(Levels) /\ Now = Len(hist) /\ Now \in Nat
  BY ReadFacts DEF LighterInv, FeedInv, Now
<1>2. Kept.book \in BookType
  BY KeptFacts
<1>3. Kept.book.levels \in [Levels -> 0..Len(hist)]
  BY <1>1, <1>2 DEF BookType
<1>4. /\ Upserted(Kept.book.levels, m.levels) \in [Levels -> 0..Now]
      /\ Replaced(m.levels) \in [Levels -> 0..Now]
  BY <1>1, <1>3, UpsertedType
<1>5. b.initialized = TRUE /\ b.lastNonce = m.last /\ b \in BookType
  BY <1>1, <1>4 DEF Applied, BookType
<1>6. ASSUME ~BadSnapshots PROVE BookAt(hist, b.levels, m.last)
  <2>1. CASE m.kind = "snapshot"
    <3>1. m.levels \in [Levels -> 0..m.last] /\ BookAt(hist, m.levels, m.last)
      BY <1>1, <2>1 DEF TrueMessage
    <3>2. b.levels = m.levels
      BY <2>1, <3>1, SnapshotReplaces DEF Applied
    <3>3. QED
      BY <3>1, <3>2
  <2>2. CASE m.kind = "diff"
    <3>1. Kept.book = book /\ book.initialized
      BY <1>6, <2>2, DiffFindsBook
    <3>2. m.prev = book.lastNonce
      BY <2>2, <3>1 DEF HasGap
    <3>3. BookAt(hist, book.levels, m.prev)
      BY <1>6, <3>1, <3>2 DEF LighterInv, BookInv
    <3>4. m.prev \in Nat /\ m.last \in Nat /\ m.prev <= m.last /\ Covers(hist, m.levels, m.prev, m.last)
      BY <1>1, <2>2 DEF TrueMessage
    <3>5. BookAt(hist, Upserted(book.levels, m.levels), m.last)
      <4>1. m.prev <= m.prev
        BY <3>4
      <4>2. QED
        BY <1>1, <3>3, <3>4, <4>1, DiffJoinsBook
    <3>6. b.levels = Upserted(book.levels, m.levels)
      BY <2>2, <3>1 DEF Applied
    <3>7. QED
      BY <3>5, <3>6
  <2>3. QED
    BY <1>1, <2>1, <2>2 DEF TrueMessage
<1>7. QED
  BY <1>5, <1>6

-----------------------------------------------------------------------------
(* THE INVARIANT                                                           *)

(* Before the first session there is neither a book nor a message.         *)
LEMMA InitInv == Init => LighterInv
<1> SUFFICES ASSUME Init PROVE LighterInv
  OBVIOUS
<1>1. FeedInv /\ hist = <<>> /\ socket = <<>>
  BY FeedInitInv DEF Init, FeedInit
<1>2. book = NewBook /\ book \in BookType /\ ~book.initialized
  BY <1>1, NewBookFacts DEF Init
<1>3. streak \in 0..StreakTrip - 1
  BY LighterAssumption DEF LighterAssumption, Init
<1>4. SocketInv
  BY <1>1 DEF SocketInv
<1>5. QED
  BY <1>1, <1>2, <1>3, <1>4
  DEF Init, LighterInv, SnapshotFirst, BookInv, ClientType, DistrustForcesReset

(* The exchange keeps it: what it adds to the history touches neither the  *)
(* book nor the messages under way.                                        *)
LEMMA FeedKeeps == LighterInv /\ Feed => LighterInv'
<1> SUFFICES ASSUME LighterInv, Feed PROVE LighterInv'
  OBVIOUS
<1>1. FeedInv /\ SocketInv /\ hist \in Seq(Levels) /\ Now \in Nat /\ Now = Len(hist)
  BY DEF LighterInv, FeedInv, Now
<1>2. UNCHANGED clientVars
  BY DEF Feed
<1>3. ASSUME NEW k \in Levels, Update(k) PROVE LighterInv'
  <2>1. FeedInv' /\ hist' = Append(hist, k) /\ Now' = Now + 1 /\ socket' = socket
    BY <1>1, <1>3, UpdateKeepsFeed DEF Update
  <2>2. \A i \in 1..Len(socket) : TrueMessage(hist', socket[i])
    BY <1>1, <2>1, MessageStaysTrue DEF SocketInv
  <2>3. SocketInv'
    BY <1>1, <1>2, <2>1, <2>2 DEF SocketInv, clientVars
  <2>4. BookInv'
    <3> SUFFICES ASSUME ~BadSnapshots, book.initialized
                 PROVE  book.lastNonce \in 0..Now' /\ BookAt(hist', book.levels, book.lastNonce)
      BY <1>2 DEF BookInv, clientVars
    <3>1. book.lastNonce \in 0..Len(hist) /\ BookAt(hist, book.levels, book.lastNonce)
      BY <1>1 DEF LighterInv, BookInv
    <3>2. BookAt(Append(hist, k), book.levels, book.lastNonce)
      <4>1. 0 \in Nat
        OBVIOUS
      <4>2. QED
        BY <1>1, <3>1, <4>1, PastIsFixed
    <3>3. QED
      BY <1>1, <2>1, <3>1, <3>2
  <2>5. ClientType'
    <3>1. book \in [levels : [Levels -> 0..Now], initialized : BOOLEAN,
                    lastOffset : -1..Now, lastNonce : -1..Now]
      BY DEF LighterInv, ClientType, BookType
    <3>2. book \in [levels : [Levels -> 0..Now + 1], initialized : BOOLEAN,
                    lastOffset : -1..Now + 1, lastNonce : -1..Now + 1]
      BY <1>1, <3>1
    <3>3. QED
      BY <1>2, <2>1, <3>2 DEF LighterInv, ClientType, BookType, clientVars
  <2>6. QED
    BY <1>2, <2>1, <2>3, <2>4, <2>5
    DEF LighterInv, SnapshotFirst, DistrustForcesReset, clientVars
<1>4. ASSUME Bundle PROVE FeedInv' /\ hist' = hist /\ Now' = Now
  BY <1>1, <1>4, SentKeepsFeed DEF Bundle, Now
<1>5. CASE up /\ PublishDiff
  <2>1. FeedInv' /\ hist' = hist /\ Now' = Now /\ sent < Now /\ socket' = Append(socket, Diff)
    BY <1>4, <1>5 DEF PublishDiff, Bundle
  <2>2. Diff \in Message /\ TrueMessage(hist, Diff) /\ Diff.kind = "diff" /\ Diff.last = Now
    BY <1>1, <2>1, DiffIsTrue
  <2>3. book.lastNonce <= Now /\ \A i \in 1..Len(socket) : socket[i].last <= Now
    BY <1>1 DEF LighterInv, ClientType, BookType, SocketInv, TrueMessage
  <2>4. SocketInv'
    BY <1>1, <1>2, <2>1, <2>2, <2>3, AppendKeepsSocket DEF clientVars
  <2>5. SnapshotFirst'
    BY <1>1, <1>2, <1>5, <2>1 DEF LighterInv, SnapshotFirst, SocketInv, clientVars
  <2>6. QED
    BY <1>2, <2>1, <2>4, <2>5
    DEF LighterInv, BookInv, ClientType, BookType, DistrustForcesReset, clientVars
<1>6. CASE LoseDiff
  <2>1. FeedInv' /\ hist' = hist /\ Now' = Now /\ socket' = socket
    BY <1>4, <1>6 DEF LoseDiff
  <2>2. QED
    BY <1>2, <2>1
    DEF LighterInv, SocketInv, SnapshotFirst, BookInv, ClientType, BookType,
        DistrustForcesReset, clientVars
<1>7. QED
  BY <1>3, <1>5, <1>6 DEF Feed

(* The exchange's extras: a snapshot inside a session, a repeated delta.   *)
LEMMA ExtrasKeep == LighterInv /\ (RefreshSnapshot \/ RepeatDelta) => LighterInv'
<1> SUFFICES ASSUME LighterInv, RefreshSnapshot \/ RepeatDelta PROVE LighterInv'
  OBVIOUS
<1>1. FeedInv /\ SocketInv /\ hist \in Seq(Levels) /\ Now \in Nat /\ Now = Len(hist)
  BY DEF LighterInv, FeedInv, Now
<1>2. UNCHANGED <<hist, truth, clientVars>> /\ Now' = Now
  BY DEF RefreshSnapshot, RepeatDelta, Now
<1>3. book.lastNonce <= Now /\ \A i \in 1..Len(socket) : socket[i].last <= Now
  BY <1>1 DEF LighterInv, ClientType, BookType, SocketInv, TrueMessage
<1>4. CASE RefreshSnapshot
  <2>1. FeedInv'
    BY <1>1, <1>4, SentKeepsFeed DEF RefreshSnapshot
  <2>2. Snapshot \in Message /\ TrueMessage(hist, Snapshot) /\ Snapshot.kind = "snapshot" /\ Snapshot.last = Now
    BY <1>1, SnapshotIsTrue
  <2>3. socket' = Append(socket, Snapshot) /\ up
    BY <1>4 DEF RefreshSnapshot
  <2>4. SocketInv'
    BY <1>1, <1>2, <1>3, <2>2, <2>3, AppendKeepsSocket DEF clientVars
  <2>5. SnapshotFirst'
    BY <1>1, <1>2, <2>3 DEF LighterInv, SnapshotFirst, SocketInv, clientVars
  <2>6. QED
    BY <1>2, <2>1, <2>4, <2>5
    DEF LighterInv, BookInv, ClientType, BookType, DistrustForcesReset, clientVars
<1>5. CASE RepeatDelta
  <2> DEFINE n == Len(socket)
  <2>1. n \in 1..Len(socket) /\ socket[n] \in Message /\ socket' = Append(socket, socket[n])
    BY <1>1, <1>5 DEF RepeatDelta, SocketInv
  <2>2. /\ TrueMessage(hist, socket[n]) /\ book.lastNonce <= socket[n].last
        /\ \A i \in 1..Len(socket) : socket[i].last <= socket[n].last
    BY <1>1, <2>1 DEF SocketInv
  <2>3. SocketInv'
    <3> HIDE DEF n
    <3>1. QED
      BY <1>1, <1>2, <2>1, <2>2, AppendKeepsSocket DEF clientVars
  <2>4. FeedInv'
    BY <1>1, <1>2, <1>5 DEF RepeatDelta, FeedInv
  <2>5. SnapshotFirst'
    BY <1>1, <1>2, <2>1 DEF LighterInv, SnapshotFirst, SocketInv, clientVars
  <2>6. QED
    BY <1>2, <2>3, <2>4, <2>5
    DEF LighterInv, BookInv, ClientType, BookType, DistrustForcesReset, clientVars
<1>6. QED
  BY <1>4, <1>5

(* A session that starts finds a snapshot first; one that ends has its     *)
(* book dropped at the next message.                                       *)
LEMMA SessionKeeps == LighterInv /\ (Connect \/ ForcedReconnect \/ SessionEnds) => LighterInv'
<1> SUFFICES ASSUME LighterInv, Connect \/ ForcedReconnect \/ SessionEnds PROVE LighterInv'
  OBVIOUS
<1>1. FeedInv /\ SocketInv /\ hist \in Seq(Levels) /\ Now \in Nat /\ Now = Len(hist)
  BY DEF LighterInv, FeedInv, Now
<1>2. UNCHANGED <<hist, truth, book, awaiting, streak>> /\ Now' = Now
  BY DEF Connect, ForcedReconnect, SessionEnds, Disconnected, Now
<1>3. CASE Connect
  <2>1. FeedInv'
    BY <1>1, <1>3, SentKeepsFeed DEF Connect
  <2>2. Snapshot \in Message /\ TrueMessage(hist, Snapshot) /\ Snapshot.kind = "snapshot" /\ Snapshot.last = Now
    BY <1>1, SnapshotIsTrue
  <2>3. socket' = <<Snapshot>> /\ up' = TRUE /\ UNCHANGED <<reconnect, resetFlag>>
    BY <1>3 DEF Connect
  <2>4. book.lastNonce <= Now
    BY <1>1 DEF LighterInv, ClientType, BookType
  <2>5. SocketInv'
    <3>1. socket' \in Seq(Message) /\ Len(socket') = 1 /\ socket'[1] = Snapshot
      BY <2>2, <2>3
    <3>2. QED
      BY <1>1, <1>2, <2>2, <2>4, <3>1 DEF SocketInv
  <2>6. SnapshotFirst'
    BY <2>2, <2>3 DEF SnapshotFirst
  <2>7. QED
    BY <1>2, <1>3, <2>1, <2>3, <2>5, <2>6
    DEF Connect, LighterInv, BookInv, ClientType, BookType, DistrustForcesReset
<1>4. CASE ForcedReconnect \/ SessionEnds
  <2>1. /\ up' = FALSE /\ resetFlag' = TRUE /\ reconnect' = FALSE /\ socket' = <<>>
        /\ UNCHANGED <<sent, diff>>
    BY <1>4 DEF ForcedReconnect, SessionEnds, Disconnected, LighterInv, ClientType
  <2>2. FeedInv'
    BY <1>1, <1>2, <2>1 DEF FeedInv
  <2>3. SocketInv'
    BY <2>1 DEF SocketInv
  <2>4. QED
    BY <1>2, <2>1, <2>2, <2>3
    DEF LighterInv, SnapshotFirst, BookInv, ClientType, BookType, DistrustForcesReset
<1>5. QED
  BY <1>3, <1>4

(* The hot task keeps it, whatever it makes of the message.                *)
LEMMA ReadKeeps == LighterInv /\ ReadMessage => LighterInv'
<1> SUFFICES ASSUME LighterInv, ReadMessage PROVE LighterInv'
  OBVIOUS
<1> DEFINE m == Head(socket)
<1>1. Reading
  BY DEF ReadMessage, IgnoreDelta, NonceGap, Unparseable, ApplyMessage
<1>2. /\ UNCHANGED <<hist, truth, sent, diff, up>> /\ Now' = Now
      /\ up = TRUE /\ reconnect = FALSE
  BY <1>1 DEF Reading, Now, LighterInv, ClientType
<1>3. FeedInv' /\ Now \in Nat
  BY <1>2 DEF LighterInv, FeedInv, Now
<1>4. /\ Kept.book \in BookType /\ Kept.awaiting = FALSE
      /\ Kept.streak \in 0..StreakTrip - 1
      /\ Kept.book.lastNonce <= book.lastNonce
  BY <1>1, KeptFacts, NotAwaitingWhenReading
<1>5. book.lastNonce \in Int /\ m.last \in 0..Now /\ Kept.book.lastNonce \in Int
  BY <1>1, <1>3, <1>4, ReadFacts DEF LighterInv, ClientType, BookType
<1>6. ASSUME book' = book \/ book' = Kept.book \/ (book'.lastNonce = m.last)
      PROVE  SocketInv'
  <2>1. /\ socket' \in Seq(Message)
        /\ \A i \in 1..Len(socket') :
             /\ TrueMessage(hist, socket'[i])
             /\ m.last <= socket'[i].last
             /\ book.lastNonce <= socket'[i].last
             /\ \A j \in 1..i : socket'[j].last <= socket'[i].last
    BY <1>1, ReadFacts
  <2>2. \A i \in 1..Len(socket') : socket'[i].last \in Nat
    <3>1. \A i \in 1..Len(socket') : socket'[i] \in Message
      BY <2>1
    <3>2. QED
      BY <3>1 DEF Message
  <2>3. \A i \in 1..Len(socket') : book'.lastNonce <= socket'[i].last
    BY <1>4, <1>5, <1>6, <2>1, <2>2
  <2>4. QED
    BY <1>2, <2>1, <2>3 DEF SocketInv
<1>7. CASE IgnoreDelta \/ NonceGap
  <2>1. m.kind = "diff" /\ book' = Kept.book /\ resetFlag' = FALSE
    BY <1>7 DEF IgnoreDelta, NonceGap, HasGap
  <2>2. SocketInv'
    BY <1>6, <2>1
  <2>3. ~BadSnapshots => book.initialized /\ book' = book
    BY <1>1, <2>1, DiffFindsBook
  <2>4. SnapshotFirst' /\ BookInv'
    BY <1>2, <2>1, <2>3 DEF LighterInv, SnapshotFirst, BookInv
  <2>5. awaiting' \in BOOLEAN /\ streak' \in 0..StreakTrip - 1 /\ reconnect' \in BOOLEAN
    <3>1. CASE IgnoreDelta
      <4>1. awaiting' = Kept.awaiting /\ streak' = Kept.streak /\ reconnect' = reconnect
        BY <3>1 DEF IgnoreDelta
      <4>2. QED
        BY <1>2, <1>4, <4>1
    <3>2. CASE NonceGap
      <4>1. awaiting' = TRUE /\ streak' = 0 /\ reconnect' = TRUE
        BY <3>2 DEF NonceGap, RequestResnapshot
      <4>2. 0 \in 0..StreakTrip - 1
        BY LighterAssumption DEF LighterAssumption
      <4>3. QED
        BY <4>1, <4>2
    <3>3. QED
      BY <1>7, <3>1, <3>2
  <2>6. DistrustForcesReset'
    BY <1>2, <1>4, <1>7 DEF IgnoreDelta, NonceGap, RequestResnapshot, DistrustForcesReset
  <2>7. ClientType'
    BY <1>2, <1>4, <2>1, <2>5 DEF ClientType, BookType
  <2>8. QED
    BY <1>3, <2>2, <2>4, <2>6, <2>7 DEF LighterInv
<1>8. CASE Unparseable
  <2>1. UNCHANGED <<reconnect, resetFlag, book, awaiting, streak>>
    BY <1>8 DEF Unparseable
  <2>2. SocketInv'
    BY <1>6, <2>1
  <2>3. ~BadSnapshots => m.kind = "diff"
    BY <1>1, <1>8, ReadFacts DEF Unparseable, TrueMessage
  <2>4. ~BadSnapshots => ~resetFlag /\ book.initialized
    BY <1>1, <2>3, DiffFindsBook
  <2>5. SnapshotFirst'
    BY <1>2, <2>1, <2>4 DEF SnapshotFirst
  <2>6. QED
    BY <1>2, <1>3, <2>1, <2>2, <2>5
    DEF LighterInv, BookInv, ClientType, BookType, DistrustForcesReset
<1>9. ASSUME NEW check \in {"none", "agrees", "deviates"}, ApplyMessage(check)
      PROVE  LighterInv'
  <2>1. ~HasGap(Kept.book, m) /\ resetFlag' = FALSE /\ book' = Applied(Kept.book, m)
    BY <1>9 DEF ApplyMessage
  <2>2. /\ book' \in BookType /\ book'.initialized /\ book'.lastNonce = m.last
        /\ ~BadSnapshots => BookAt(hist, book'.levels, book'.lastNonce)
    BY <1>1, <2>1, AppliedFacts
  <2>3. SocketInv'
    BY <1>6, <2>2
  <2>4. SnapshotFirst'
    BY <1>2, <2>1, <2>2 DEF SnapshotFirst
  <2>5. BookInv'
    BY <1>2, <1>5, <2>2 DEF BookInv
  <2>6. \/ awaiting' = TRUE /\ reconnect' = TRUE
        \/ awaiting' = FALSE /\ reconnect' = FALSE
    BY <1>2, <1>9, Zenon DEF ApplyMessage, RequestResnapshot
  <2>7. streak' \in 0..StreakTrip - 1
    <3>1. CASE BookSanityDiverged(check)
      BY <1>9, <3>1, LighterAssumption DEF LighterAssumption, ApplyMessage, RequestResnapshot
    <3>2. CASE ~BookSanityDiverged(check)
      BY <1>4, <1>9, <3>2, LighterAssumption
      DEF LighterAssumption, ApplyMessage, BookSanityDiverged, SanityStreak
    <3>3. QED
      BY <3>1, <3>2
  <2>8. ClientType'
    BY <1>2, <2>1, <2>2, <2>6, <2>7 DEF ClientType, BookType
  <2>9. DistrustForcesReset'
    BY <1>2, <2>6 DEF DistrustForcesReset
  <2>10. QED
    BY <1>3, <2>3, <2>4, <2>5, <2>8, <2>9 DEF LighterInv
<1>10. QED
  BY <1>7, <1>8, <1>9 DEF ReadMessage

(* What the exchange sends, loses and repeats, when sessions end and what  *)
(* the ticker says: none of it makes a book that was started anything but  *)
(* the exchange's after update last_nonce (as long as snapshots parse).    *)
THEOREM LighterInvariantHolds == Spec => []LighterInv
<1>1. LighterInv /\ [Next]_vars => LighterInv'
  <2> SUFFICES ASSUME LighterInv, [Next]_vars PROVE LighterInv'
    OBVIOUS
  <2>1. CASE Next
    BY <2>1, FeedKeeps, ExtrasKeep, SessionKeeps, ReadKeeps DEF Next
  <2>2. CASE UNCHANGED vars
    BY <2>2
    DEF vars, feedVars, clientVars, LighterInv, FeedInv, SocketInv, SnapshotFirst, BookInv,
        ClientType, BookType, DistrustForcesReset, Now
  <2>3. QED
    BY <2>1, <2>2
<1>2. QED
  BY <1>1, InitInv, PTL DEF Spec

(* Every variable of the session and of the book keeps its type.           *)
THEOREM TypeCorrect == Spec => []TypeOK
<1>1. LighterInv => TypeOK
  BY DEF LighterInv, FeedInv, ClientType, BookType, TypeOK, Covers
<1>2. QED
  BY <1>1, LighterInvariantHolds, PTL

(* request_resnapshot never leaves awaiting_resnapshot up with nothing     *)
(* under way that takes it down, and its permit never reaches a session    *)
(* that started clean.                                                     *)
THEOREM DistrustIsTemporary == Spec => []DistrustForcesReset
<1>1. LighterInv => DistrustForcesReset
  BY DEF LighterInv
<1>2. QED
  BY <1>1, LighterInvariantHolds, PTL

-----------------------------------------------------------------------------
(* THE REFINEMENT                                                          *)

(* What the mapping makes of the hot task's book.                          *)
View == IF Trusted THEN [id |-> book.lastNonce, levels |-> book.levels]
                   ELSE [id |-> -1, levels |-> <<>>]

(* A message that is read moves the view forward, or not at all, or drops  *)
(* it: deltas and snapshots are never older than a trusted book.           *)
LEMMA ReadRefines ==
    ASSUME LighterInv, LighterInv', ~BadSnapshots, ReadMessage
    PROVE  \/ ~Trusted'
           \/ Trusted' /\ View' = View
           \/ Trusted' /\ View'.id >= View.id
<1> SUFFICES ASSUME Trusted' PROVE View' = View \/ View'.id >= View.id
  OBVIOUS
<1>1. Reading
  BY DEF ReadMessage, IgnoreDelta, NonceGap, Unparseable, ApplyMessage
<1>2. CASE IgnoreDelta
  <2>1. ~resetFlag /\ Kept.book = book
    BY <1>1, <1>2, DiffFindsBook DEF IgnoreDelta
  <2>2. book' = book /\ awaiting' = awaiting /\ resetFlag' = FALSE
    BY <1>2, <2>1, KeptFacts DEF IgnoreDelta
  <2>3. Trusted
    BY <2>1, <2>2 DEF Trusted
  <2>4. QED
    BY <2>2, <2>3 DEF View
<1>3. CASE NonceGap
  BY <1>3 DEF NonceGap, RequestResnapshot, Trusted
<1>4. CASE Unparseable
  BY <1>4 DEF Unparseable, View, Trusted
<1>5. ASSUME NEW check \in {"none", "agrees", "deviates"}, ApplyMessage(check)
      PROVE  View'.id >= View.id
  <2>1. ~HasGap(Kept.book, Head(socket)) /\ book' = Applied(Kept.book, Head(socket))
    BY <1>5 DEF ApplyMessage
  <2>2. book'.lastNonce = Head(socket).last
    BY <1>1, <2>1, AppliedFacts
  <2>3. book.lastNonce <= Head(socket).last /\ Head(socket).last \in 0..Now
    BY <1>1, ReadFacts
  <2>4. View'.id = book'.lastNonce
    BY DEF View
  <2>5. Now \in Nat /\ book.lastNonce \in Int
    BY DEF LighterInv, FeedInv, Now, ClientType, BookType
  <2>6. View.id \in {-1, book.lastNonce}
    BY DEF View
  <2>7. QED
    BY <2>2, <2>3, <2>4, <2>5, <2>6
<1>6. QED
  BY <1>2, <1>3, <1>4, <1>5 DEF ReadMessage

(* Every step of the program is a step of the mirror or leaves it alone.   *)
LEMMA StepRefines ==
    ASSUME LighterInv, LighterInv', ~BadSnapshots, [Next]_vars
    PROVE  [Mirror!Next]_<<hist, View>>
<1>1. CASE Feed
  <2>1. View' = View
    BY <1>1 DEF Feed, clientVars, View, Trusted
  <2>2. CASE \E l \in Levels : Update(l)
    <3>1. PICK l \in Levels : hist' = Append(hist, l)
      BY <2>2 DEF Update
    <3>2. Mirror!Update(l)
      BY <2>1, <3>1 DEF Mirror!Update, View
    <3>3. QED
      BY <3>2 DEF Mirror!Next
  <2>3. CASE UNCHANGED hist
    BY <2>1, <2>3
  <2>4. QED
    BY <1>1, <2>2, <2>3 DEF Feed, PublishDiff, LoseDiff, Bundle
<1>2. CASE RefreshSnapshot \/ RepeatDelta
  BY <1>2 DEF RefreshSnapshot, RepeatDelta, clientVars, View, Trusted
<1>3. CASE Connect
  BY <1>3 DEF Connect, View, Trusted
<1>4. CASE ForcedReconnect \/ SessionEnds
  <2>1. hist' = hist /\ ~Trusted'
    BY <1>4 DEF ForcedReconnect, SessionEnds, Disconnected, Trusted
  <2>2. Mirror!Distrust
    BY <2>1 DEF Mirror!Distrust, Mirror!NoView
  <2>3. QED
    BY <2>2 DEF Mirror!Next
<1>5. CASE ReadMessage
  <2>1. hist' = hist /\ Now' = Now
    BY <1>5 DEF ReadMessage, IgnoreDelta, NonceGap, Unparseable, ApplyMessage, Reading, Now
  <2>2. CASE ~Trusted'
    <3>1. Mirror!Distrust
      BY <2>1, <2>2 DEF Mirror!Distrust, Mirror!NoView
    <3>2. QED
      BY <3>1 DEF Mirror!Next
  <2>3. CASE View' = View
    BY <2>1, <2>3
  <2>4. CASE Trusted' /\ View'.id >= View.id
    <3>1. View'.id \in 0..Now' /\ BookAt(hist', View'.levels, View'.id)
      <4>1. View'.id = book'.lastNonce /\ View'.levels = book'.levels
        BY <2>4 DEF View
      <4>2. QED
        BY <2>4, <4>1 DEF LighterInv, BookInv, Trusted
    <3>2. View' # [id |-> -1, levels |-> <<>>]
      BY <3>1
    <3>3. View'.id \in 0..Len(hist) /\ BookAt(hist, View'.levels, View'.id)
      BY <2>1, <3>1 DEF Now
    <3>4. Mirror!IsBookAt(View'.levels, View'.id)
      BY <3>3 DEF Mirror!IsBookAt, BookAt
    <3>5. Mirror!Follow
      BY <2>1, <2>4, <3>2, <3>3, <3>4 DEF Mirror!Follow, Mirror!NoView, View
    <3>6. QED
      BY <3>5 DEF Mirror!Next
  <2>5. QED
    BY <1>5, <2>2, <2>3, <2>4, ReadRefines
<1>6. CASE UNCHANGED vars
  BY <1>6 DEF vars, feedVars, clientVars, View, Trusted
<1>7. QED
  BY <1>1, <1>2, <1>3, <1>4, <1>5, <1>6 DEF Next

(* As long as snapshots parse, the book maybe_quote reads is at every      *)
(* moment the exchange's after update last_nonce, and only moves forward   *)
(* until it is given up.                                                   *)
THEOREM LighterMirrors ==
    ASSUME ~BadSnapshots
    PROVE  Spec => FollowsTheExchange
<1>1. Init => Mirror!Init
  BY DEF Init, FeedInit, NewBook, Trusted, Mirror!Init, Mirror!NoView
<1>2. LighterInv /\ LighterInv' /\ [Next]_vars => [Mirror!Next]_<<hist, View>>
  BY StepRefines
<1>3. QED
  BY <1>1, <1>2, LighterInvariantHolds, PTL DEF Spec, FollowsTheExchange, Mirror!Spec, View
=============================================================================
