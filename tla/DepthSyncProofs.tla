--------------------------- MODULE DepthSyncProofs --------------------------
(***************************************************************************)
(* TLAPS proofs about DepthSync: its types, the life of the published      *)
(* signal, and the refinement of BookMirror, for every set of levels and   *)
(* every bound.                                                            *)
(***************************************************************************)
EXTENDS DepthSync, BookHistory, TLAPS

TrueDiffs(h, s) ==
    /\ s \in Seq(Message)
    /\ \A i \in 1..Len(s) : s[i].kind = "diff" /\ TrueMessage(h, s[i])

(* Whatever is on its way to the book is true of the exchange.             *)
InputInv ==
    /\ TrueDiffs(hist, socket) /\ TrueDiffs(hist, buffer)
    /\ snap # NoSnap =>
        snap \in Message /\ snap.kind = "snapshot" /\ TrueMessage(hist, snap)

ObiType == [levels : [Levels -> 0..Now], lastUpdateId : 0..Now, prevU : 0..Now]

ClientType ==
    /\ pc \in {"backoff", "fetch", "drain", "live", "pause"}
    /\ obi \in ObiType
    /\ synced \in BOOLEAN /\ alpha \in BOOLEAN
    /\ attempts \in 0..MaxResync - 1

(* From the snapshot on, the book is the exchange's: after update          *)
(* lastUpdateId until the first diff joins it, after update prev_u then.   *)
ObiInv ==
    /\ pc = "fetch" => ~synced
    /\ pc \in {"drain", "live"} =>
        BookAt(hist, obi.levels, IF synced THEN obi.prevU ELSE obi.lastUpdateId)

DepthInv == FeedInv /\ InputInv /\ ClientType /\ ObiInv /\ NoAlphaFromUnsyncedBook

-----------------------------------------------------------------------------
(* LEMMAS ABOUT BOOKS AND DIFFS                                            *)

(* One more update leaves the books and the diffs of the past as they are. *)
LEMMA PastIsFixed ==
    ASSUME NEW h \in Seq(Levels), NEW k \in Levels,
           NEW levels, NEW a \in Nat, NEW n \in 0..Len(h)
    PROVE  /\ BookAt(h, levels, n) => BookAt(Append(h, k), levels, n)
           /\ Covers(h, levels, a, n) => Covers(Append(h, k), levels, a, n)
<1> DEFINE g == Append(h, k)
<1>1. n \in Nat /\ \A i \in 1..n : g[i] = h[i]
  OBVIOUS
<1> HIDE DEF g
<1>2. ASSUME BookAt(h, levels, n) PROVE BookAt(g, levels, n)
  <2> SUFFICES ASSUME NEW l \in Levels
               PROVE  /\ levels[l] \in 0..n
                      /\ levels[l] # 0 => g[levels[l]] = l
                      /\ \A i \in levels[l] + 1 .. n : g[i] # l
    BY DEF BookAt
  <2>1. /\ levels[l] \in 0..n
        /\ levels[l] # 0 => h[levels[l]] = l
        /\ \A i \in levels[l] + 1 .. n : h[i] # l
    BY <1>2 DEF BookAt
  <2>2. QED
    BY <1>1, <2>1
<1>3. ASSUME Covers(h, levels, a, n) PROVE Covers(g, levels, a, n)
  BY <1>1, <1>3 DEF Covers
<1>4. QED
  BY <1>2, <1>3 DEF g

(* So does it leave a true message true.                                   *)
LEMMA MessageStaysTrue ==
    ASSUME NEW h \in Seq(Levels), NEW k \in Levels, NEW m, TrueMessage(h, m)
    PROVE  TrueMessage(Append(h, k), m)
<1>1. Len(h) \in Nat /\ Len(Append(h, k)) = Len(h) + 1
  OBVIOUS
<1>2. CASE m.kind = "snapshot"
  <2>1. m.last \in 0..Len(h) /\ BookAt(h, m.levels, m.last)
    BY <1>2 DEF TrueMessage
  <2>2. BookAt(Append(h, k), m.levels, m.last)
    BY <2>1, PastIsFixed
  <2>3. QED
    BY <1>1, <1>2, <2>1, <2>2 DEF TrueMessage
<1>3. CASE m.kind = "diff"
  <2>1. m.last \in 0..Len(h) /\ m.prev \in Nat /\ Covers(h, m.levels, m.prev, m.last)
    BY <1>1, <1>3 DEF TrueMessage
  <2>2. Covers(Append(h, k), m.levels, m.prev, m.last)
    BY <2>1, PastIsFixed
  <2>3. QED
    BY <1>1, <1>3, <2>1, <2>2 DEF TrueMessage
<1>4. QED
  BY <1>2, <1>3 DEF TrueMessage

(* upsert_level of a whole diff: a diff that starts no later than right    *)
(* after the book and does not end before it brings the book to the        *)
(* diff's end.  It is the one fact both continuity checks (prev = last     *)
(* nonce; U <= lastUpdateId <= u, then pu = u) establish the premise of.   *)
LEMMA DiffJoinsBook ==
    ASSUME NEW h \in Seq(Levels), NEW levels, NEW d,
           NEW p \in Nat, NEW a \in Nat, NEW b \in Nat, p <= a, a <= b,
           BookAt(h, levels, a), Covers(h, d, p, b)
    PROVE  BookAt(h, Upserted(levels, d), b)
<1> SUFFICES ASSUME NEW l \in Levels
             PROVE  /\ Upserted(levels, d)[l] \in 0..b
                    /\ Upserted(levels, d)[l] # 0 => h[Upserted(levels, d)[l]] = l
                    /\ \A i \in Upserted(levels, d)[l] + 1 .. b : h[i] # l
  BY DEF BookAt
<1>1. CASE l \in DOMAIN d
  <2>1. Upserted(levels, d)[l] = d[l]
    BY <1>1 DEF Upserted
  <2>2. d[l] \in p + 1 .. b /\ h[d[l]] = l /\ \A i \in d[l] + 1 .. b : h[i] # l
    BY <1>1 DEF Covers
  <2>3. QED
    BY <2>1, <2>2
<1>2. CASE l \notin DOMAIN d
  <2>1. Upserted(levels, d)[l] = levels[l]
    BY <1>2 DEF Upserted
  <2>2. /\ levels[l] \in 0..a
        /\ levels[l] # 0 => h[levels[l]] = l
        /\ \A i \in levels[l] + 1 .. a : h[i] # l
    BY DEF BookAt
  <2>3. \A i \in p + 1 .. b : h[i] # l
    BY <1>2 DEF Covers
  <2>4. QED
    BY <2>1, <2>2, <2>3
<1>3. QED
  BY <1>1, <1>2

(* A snapshot names every level, so that it replaces the book.             *)
LEMMA SnapshotReplaces ==
    ASSUME NEW n, NEW levels \in [Levels -> 0..n]
    PROVE  Replaced(levels) = levels
BY DEF Replaced, Upserted

(* Whatever is applied, the levels stay updates of the history.            *)
LEMMA UpsertedType ==
    ASSUME NEW h \in Seq(Levels), NEW levels \in [Levels -> 0..Len(h)],
           NEW m, TrueMessage(h, m)
    PROVE  /\ Upserted(levels, m.levels) \in [Levels -> 0..Len(h)]
           /\ Replaced(m.levels) \in [Levels -> 0..Len(h)]
<1>1. Len(h) \in Nat
  OBVIOUS
<1>2. \A l \in DOMAIN m.levels \cap Levels : m.levels[l] \in 0..Len(h)
  <2>1. CASE m.kind = "snapshot"
    BY <1>1, <2>1 DEF TrueMessage
  <2>2. CASE m.kind = "diff"
    <3>1. m.last \in 0..Len(h) /\ m.prev \in Nat /\ Covers(h, m.levels, m.prev, m.last)
      BY <1>1, <2>2 DEF TrueMessage
    <3>2. \A l \in DOMAIN m.levels : m.levels[l] \in m.prev + 1 .. m.last
      BY <3>1 DEF Covers
    <3>3. QED
      BY <1>1, <3>1, <3>2
  <2>3. QED
    BY <2>1, <2>2 DEF TrueMessage
<1>3. Upserted(levels, m.levels) \in [Levels -> 0..Len(h)]
  BY <1>2 DEF Upserted
<1>4. Absent \in [Levels -> 0..Len(h)]
  BY <1>1 DEF Absent
<1>5. Replaced(m.levels) \in [Levels -> 0..Len(h)]
  BY <1>2, <1>4 DEF Replaced, Upserted
<1>6. QED
  BY <1>3, <1>5

-----------------------------------------------------------------------------
(* THE EXCHANGE                                                            *)

(* The empty diff.                                                         *)
LEMMA NoLevelsIsMap == NoLevels \in LevelMaps
<1>1. <<>> \in [{} -> Nat]
  OBVIOUS
<1>2. QED
  BY <1>1 DEF NoLevels, LevelMaps

(* Nothing happened yet.                                                   *)
LEMMA FeedInitInv == FeedInit => FeedInv
BY NoLevelsIsMap DEF FeedInit, FeedInv, Now, Absent, NoLevels, BookAt, Covers

(* An update changes the book, joins the prepared diff and leaves the      *)
(* past alone.                                                             *)
LEMMA UpdateKeepsFeed ==
    ASSUME FeedInv, NEW k \in Levels, Update(k)
    PROVE  FeedInv' /\ hist' = Append(hist, k) /\ Now' = Now + 1
<1>1. /\ hist \in Seq(Levels) /\ Now \in Nat /\ Now = Len(hist)
      /\ hist' = Append(hist, k) /\ Now' = Now + 1
      /\ hist'[Now + 1] = k /\ \A i \in 1..Now : hist'[i] = hist[i]
  BY DEF FeedInv, Update, Now
<1>2. sent' = sent /\ sent \in 0..Now
  BY DEF FeedInv, Update
<1>3. truth' \in [Levels -> 0..Now'] /\ \A l \in Levels : truth'[l] = IF l = k THEN Now + 1 ELSE truth[l]
  BY <1>1 DEF FeedInv, Update
<1>4. BookAt(hist', truth', Now')
  <2> SUFFICES ASSUME NEW l \in Levels
               PROVE  /\ truth'[l] \in 0..Now'
                      /\ truth'[l] # 0 => hist'[truth'[l]] = l
                      /\ \A i \in truth'[l] + 1 .. Now' : hist'[i] # l
    BY DEF BookAt
  <2>1. /\ truth[l] \in 0..Now
        /\ truth[l] # 0 => hist[truth[l]] = l
        /\ \A i \in truth[l] + 1 .. Now : hist[i] # l
    BY DEF FeedInv, BookAt
  <2>2. CASE l = k
    BY <1>1, <1>3, <2>2
  <2>3. CASE l # k
    BY <1>1, <1>3, <2>1, <2>3
  <2>4. QED
    BY <2>2, <2>3
<1>5. /\ DOMAIN diff' = DOMAIN diff \cup {k}
      /\ \A l \in DOMAIN diff' : diff'[l] = IF l = k THEN Now + 1 ELSE diff[l]
  BY DEF Update
<1>6. /\ DOMAIN diff \subseteq Levels
      /\ \A l \in DOMAIN diff : /\ diff[l] \in sent + 1 .. Now
                                /\ hist[diff[l]] = l
                                /\ \A i \in diff[l] + 1 .. Now : hist[i] # l
      /\ \A l \in Levels \ DOMAIN diff : \A i \in sent + 1 .. Now : hist[i] # l
  BY DEF FeedInv, Covers
<1>7. Covers(hist', diff', sent, Now')
  <2>1. ASSUME NEW l \in DOMAIN diff'
        PROVE  /\ diff'[l] \in sent + 1 .. Now'
               /\ hist'[diff'[l]] = l
               /\ \A i \in diff'[l] + 1 .. Now' : hist'[i] # l
    <3>1. CASE l = k
      BY <1>1, <1>2, <1>5, <3>1
    <3>2. CASE l # k
      <4>1. l \in DOMAIN diff /\ diff'[l] = diff[l]
        BY <1>5, <3>2
      <4>2. QED
        BY <1>1, <1>2, <1>6, <3>2, <4>1
    <3>3. QED
      BY <3>1, <3>2
  <2>2. ASSUME NEW l \in Levels \ DOMAIN diff', NEW i \in sent + 1 .. Now'
        PROVE  hist'[i] # l
    BY <1>1, <1>2, <1>5, <1>6
  <2>3. QED
    BY <1>5, <1>6, <2>1, <2>2 DEF Covers
<1>8. diff' \in LevelMaps
  <2>1. diff' = [l \in DOMAIN diff \cup {k} |-> IF l = k THEN Now + 1 ELSE diff[l]]
    BY DEF Update
  <2>2. \A l \in DOMAIN diff : diff[l] \in Nat
    BY <1>1, <1>2, <1>6
  <2>3. diff' \in [DOMAIN diff \cup {k} -> Nat]
    BY <1>1, <2>1, <2>2
  <2>4. DOMAIN diff \cup {k} \in SUBSET Levels
    BY <1>6
  <2>5. QED
    BY <2>3, <2>4 DEF LevelMaps
<1>9. QED
  BY <1>1, <1>2, <1>3, <1>4, <1>7, <1>8 DEF FeedInv

(* Nothing is prepared after a diff or a snapshot went out.                *)
LEMMA SentKeepsFeed ==
    ASSUME FeedInv, sent' = Now, diff' = NoLevels, UNCHANGED <<hist, truth>>
    PROVE  FeedInv'
<1>1. Now' = Now /\ Now \in Nat /\ hist' = hist /\ truth' = truth
  BY DEF FeedInv, Now
<1>2. Covers(hist, NoLevels, Now, Now)
  BY <1>1 DEF Covers, NoLevels
<1>3. QED
  BY <1>1, <1>2, NoLevelsIsMap DEF FeedInv

(* What the exchange puts on the socket is true: the snapshot, ...         *)
LEMMA SnapshotIsTrue ==
    ASSUME FeedInv
    PROVE  /\ Snapshot \in Message /\ TrueMessage(hist, Snapshot)
           /\ Snapshot.kind = "snapshot" /\ Snapshot.last = Now
<1>1. Now = Len(hist) /\ Now \in Nat /\ truth \in [Levels -> 0..Now] /\ BookAt(hist, truth, Now)
  BY DEF FeedInv, Now
<1>2. truth \in [Levels -> Nat] /\ Levels \in SUBSET Levels
  BY <1>1
<1>3. truth \in LevelMaps
  BY <1>2 DEF LevelMaps
<1>4. QED
  BY <1>1, <1>3 DEF TrueMessage, Snapshot, Message

(* ... and the diff.                                                       *)
LEMMA DiffIsTrue ==
    ASSUME FeedInv, sent < Now
    PROVE  /\ Diff \in Message /\ TrueMessage(hist, Diff)
           /\ Diff.kind = "diff" /\ Diff.last = Now
<1>1. /\ Now = Len(hist) /\ Now \in Nat /\ sent \in 0..Now
      /\ diff \in LevelMaps /\ Covers(hist, diff, sent, Now)
  BY DEF FeedInv, Now
<1>2. QED
  BY <1>1 DEF TrueMessage, Diff, Message

-----------------------------------------------------------------------------
(* THE CLIENT                                                              *)

(* One more update leaves a queue of true diffs true.                      *)
LEMMA DiffsStayTrue ==
    ASSUME NEW h \in Seq(Levels), NEW k \in Levels, NEW s, TrueDiffs(h, s)
    PROVE  TrueDiffs(Append(h, k), s)
BY MessageStaysTrue DEF TrueDiffs

(* One more diff at the end, or one fewer at the front.                    *)
LEMMA DiffQueues ==
    ASSUME NEW h, NEW s, TrueDiffs(h, s)
    PROVE  /\ \A e \in Message :
                e.kind = "diff" /\ TrueMessage(h, e) => TrueDiffs(h, Append(s, e))
           /\ s # <<>> => /\ Head(s) \in Message /\ Head(s).kind = "diff"
                          /\ TrueMessage(h, Head(s)) /\ TrueDiffs(h, Tail(s))
           /\ TrueDiffs(h, <<>>)
<1>1. s \in Seq(Message) /\ \A i \in 1..Len(s) : s[i].kind = "diff" /\ TrueMessage(h, s[i])
  BY DEF TrueDiffs
<1>2. ASSUME NEW e \in Message, e.kind = "diff", TrueMessage(h, e)
      PROVE  TrueDiffs(h, Append(s, e))
  <2>1. /\ Append(s, e) \in Seq(Message) /\ Len(Append(s, e)) = Len(s) + 1 /\ Len(s) \in Nat
        /\ \A i \in 1..Len(s) : Append(s, e)[i] = s[i]
        /\ Append(s, e)[Len(s) + 1] = e
    BY <1>1
  <2>2. ASSUME NEW i \in 1..Len(Append(s, e))
        PROVE  Append(s, e)[i].kind = "diff" /\ TrueMessage(h, Append(s, e)[i])
    <3>1. CASE i = Len(s) + 1
      BY <1>2, <2>1, <3>1
    <3>2. CASE i \in 1..Len(s)
      BY <1>1, <2>1, <3>2
    <3>3. QED
      BY <2>1, <3>1, <3>2
  <2>3. QED
    BY <2>1, <2>2 DEF TrueDiffs
<1>3. ASSUME s # <<>>
      PROVE  /\ Head(s) \in Message /\ Head(s).kind = "diff"
             /\ TrueMessage(h, Head(s)) /\ TrueDiffs(h, Tail(s))
  <2>1. /\ Head(s) = s[1] /\ Head(s) \in Message /\ 1 \in 1..Len(s)
        /\ Tail(s) \in Seq(Message) /\ Len(Tail(s)) = Len(s) - 1 /\ Len(s) \in Nat
        /\ \A i \in 1..Len(Tail(s)) : Tail(s)[i] = s[i + 1]
    BY <1>1, <1>3
  <2>2. \A i \in 1..Len(Tail(s)) : i + 1 \in 1..Len(s)
    BY <2>1
  <2>3. TrueDiffs(h, Tail(s))
    BY <1>1, <2>1, <2>2 DEF TrueDiffs
  <2>4. QED
    BY <1>1, <2>1, <2>3
<1>4. TrueDiffs(h, <<>>)
  BY DEF TrueDiffs
<1>5. QED
  BY <1>2, <1>3, <1>4

(* classify_event lets a diff into the book only where it joins: around    *)
(* lastUpdateId first (U <= lastUpdateId <= u), then right behind the diff *)
(* before (pu = prev_u).                                                   *)
LEMMA AcceptedDiffJoins ==
    ASSUME DepthInv, pc \in {"drain", "live"},
           NEW e \in Message, e.kind = "diff", TrueMessage(hist, e),
           ClassifyEvent(synced, obi, e) \in {"ApplyFirst", "Apply"}
    PROVE  /\ ApplyDiff(obi, e) \in ObiType
           /\ ApplyDiff(obi, e).prevU = e.last /\ e.last \in 0..Now
           /\ BookAt(hist, ApplyDiff(obi, e).levels, e.last)
           /\ synced => e.last >= obi.prevU
<1>1. /\ hist \in Seq(Levels) /\ Now = Len(hist) /\ Now \in Nat
      /\ obi \in ObiType /\ synced \in BOOLEAN
  BY DEF DepthInv, FeedInv, ClientType, Now
<1>2. /\ e.last \in 0..Now /\ e.prev \in Nat /\ e.prev < e.last /\ e.first = e.prev + 1
      /\ Covers(hist, e.levels, e.prev, e.last)
  BY <1>1 DEF TrueMessage
<1>3. /\ obi.levels \in [Levels -> 0..Len(hist)]
      /\ obi.lastUpdateId \in Nat /\ obi.prevU \in Nat
  BY <1>1 DEF ObiType
<1>4. Upserted(obi.levels, e.levels) \in [Levels -> 0..Now]
  BY <1>1, <1>3, UpsertedType
<1>5. /\ ApplyDiff(obi, e).levels = Upserted(obi.levels, e.levels)
      /\ ApplyDiff(obi, e).prevU = e.last
      /\ ApplyDiff(obi, e) \in ObiType
  BY <1>1, <1>2, <1>4 DEF ApplyDiff, ObiType
<1> DEFINE at == IF synced THEN obi.prevU ELSE obi.lastUpdateId
<1>6. at \in Nat /\ BookAt(hist, obi.levels, at)
  BY <1>1, <1>3 DEF DepthInv, ObiInv
<1>7. e.prev <= at /\ at <= e.last
  <2>1. CASE synced
    <3>1. e.prev = obi.prevU
      BY <2>1 DEF ClassifyEvent
    <3>2. QED
      BY <1>2, <1>3, <2>1, <3>1
  <2>2. CASE ~synced
    <3>1. obi.lastUpdateId \in e.first .. e.last
      BY <2>2 DEF ClassifyEvent
    <3>2. QED
      BY <1>1, <1>2, <1>3, <2>2, <3>1
  <2>3. QED
    BY <2>1, <2>2
<1>8. BookAt(hist, Upserted(obi.levels, e.levels), e.last)
  <2>1. e.last \in Nat
    BY <1>1, <1>2
  <2> HIDE DEF at
  <2>2. QED
    BY <1>1, <1>2, <1>6, <1>7, <2>1, DiffJoinsBook
<1>9. synced => e.last >= obi.prevU
  BY <1>2, <1>3, <1>7
<1>10. QED
  BY <1>2, <1>5, <1>8, <1>9

(* The REST snapshot starts the book.                                      *)
LEMMA SnapshotStartsBook ==
    ASSUME DepthInv, snap # NoSnap
    PROVE  /\ ApplySnapshot(snap) \in ObiType
           /\ BookAt(hist, ApplySnapshot(snap).levels, ApplySnapshot(snap).lastUpdateId)
<1>1. /\ snap \in Message /\ snap.kind = "snapshot" /\ TrueMessage(hist, snap)
      /\ Now = Len(hist) /\ Now \in Nat
  BY DEF DepthInv, InputInv, FeedInv, Now
<1>2. /\ snap.last \in 0..Now /\ snap.levels \in [Levels -> 0..snap.last]
      /\ BookAt(hist, snap.levels, snap.last)
  BY <1>1 DEF TrueMessage
<1>3. Replaced(snap.levels) = snap.levels
  BY <1>2, SnapshotReplaces
<1>4. snap.levels \in [Levels -> 0..Now]
  BY <1>1, <1>2
<1>5. /\ ApplySnapshot(snap).levels = snap.levels
      /\ ApplySnapshot(snap).lastUpdateId = snap.last
  BY <1>3 DEF ApplySnapshot
<1>6. ApplySnapshot(snap) \in ObiType
  BY <1>1, <1>2, <1>3, <1>4 DEF ApplySnapshot, ObiType
<1>7. QED
  BY <1>2, <1>5, <1>6

(* An empty book, and a counter that gives up in time.                     *)
LEMMA ClearedObiType ==
    ASSUME FeedInv
    PROVE  ClearedObi \in ObiType
<1>1. Now \in Nat
  BY DEF FeedInv, Now
<1>2. Absent \in [Levels -> 0..Now]
  BY <1>1 DEF Absent
<1>3. QED
  BY <1>1, <1>2 DEF ClearedObi, ObiType

(* MAX_RESYNC_ATTEMPTS is never reached inside a session.                  *)
LEMMA ResyncFacts ==
    ASSUME attempts \in 0..MaxResync - 1, Resync
    PROVE  attempts' \in 0..MaxResync - 1 /\ pc' \in {"backoff", "pause"}
BY DepthAssumption DEF DepthAssumption, Resync

-----------------------------------------------------------------------------
(* THE INVARIANT                                                           *)

(* Nothing is published and nothing is buffered before the first session.  *)
LEMMA InitInv == Init => DepthInv
<1> SUFFICES ASSUME Init PROVE DepthInv
  OBVIOUS
<1>1. FeedInv /\ socket = <<>> /\ buffer = <<>>
  BY FeedInitInv DEF Init, FeedInit
<1>2. TrueDiffs(hist, <<>>)
  BY DEF TrueDiffs
<1>3. obi \in ObiType
  BY <1>1, ClearedObiType DEF Init
<1>4. attempts \in 0..MaxResync - 1
  BY DepthAssumption DEF DepthAssumption, Init
<1>5. QED
  BY <1>1, <1>2, <1>3, <1>4
  DEF Init, DepthInv, InputInv, ClientType, ObiInv, NoAlphaFromUnsyncedBook

(* The exchange keeps it.                                                  *)
LEMMA FeedKeeps == DepthInv /\ Feed => DepthInv'
<1> SUFFICES ASSUME DepthInv, Feed PROVE DepthInv'
  OBVIOUS
<1>1. FeedInv /\ hist \in Seq(Levels) /\ Now \in Nat /\ Now = Len(hist)
  BY DEF DepthInv, FeedInv, Now
<1>2. UNCHANGED clientVars
  BY DEF Feed
<1>3. NoAlphaFromUnsyncedBook'
  BY <1>2 DEF DepthInv, NoAlphaFromUnsyncedBook, clientVars
<1>4. ASSUME NEW k \in Levels, Update(k) PROVE DepthInv'
  <2>1. FeedInv' /\ hist' = Append(hist, k) /\ Now' = Now + 1 /\ socket' = socket
    BY <1>1, <1>4, UpdateKeepsFeed DEF Update
  <2>2. InputInv'
    BY <1>1, <1>2, <2>1, DiffsStayTrue, MessageStaysTrue DEF DepthInv, InputInv, clientVars
  <2>3. ClientType'
    <3>1. obi \in [levels : [Levels -> 0..Now], lastUpdateId : 0..Now, prevU : 0..Now]
      BY DEF DepthInv, ClientType, ObiType
    <3>2. obi \in [levels : [Levels -> 0..Now + 1], lastUpdateId : 0..Now + 1, prevU : 0..Now + 1]
      BY <1>1, <3>1
    <3>3. QED
      BY <1>2, <2>1, <3>2 DEF DepthInv, ClientType, ObiType, clientVars
  <2>4. ObiInv'
    <3> DEFINE at == IF synced THEN obi.prevU ELSE obi.lastUpdateId
    <3>1. at \in 0..Len(hist)
      BY <1>1 DEF DepthInv, ClientType, ObiType
    <3>2. BookAt(hist, obi.levels, at) => BookAt(hist', obi.levels, at)
      <4>1. 0 \in Nat
        OBVIOUS
      <4> HIDE DEF at
      <4>2. QED
        BY <1>1, <2>1, <3>1, <4>1, PastIsFixed
    <3>3. QED
      BY <1>2, <3>2 DEF DepthInv, ObiInv, clientVars
  <2>5. QED
    BY <1>3, <2>1, <2>2, <2>3, <2>4 DEF DepthInv
<1>5. CASE PublishDiff \/ LoseDiff
  <2>1. FeedInv' /\ hist' = hist /\ Now' = Now /\ sent < Now
    BY <1>1, <1>5, SentKeepsFeed DEF PublishDiff, LoseDiff, Bundle, Now
  <2>2. TrueDiffs(hist, socket')
    <3>1. CASE PublishDiff
      <4>1. Diff \in Message /\ TrueMessage(hist, Diff) /\ Diff.kind = "diff"
        BY <1>1, <2>1, DiffIsTrue
      <4>2. QED
        BY <3>1, <4>1, DiffQueues DEF PublishDiff, DepthInv, InputInv
    <3>2. CASE LoseDiff
      BY <3>2 DEF LoseDiff, DepthInv, InputInv
    <3>3. QED
      BY <1>5, <3>1, <3>2
  <2>3. QED
    BY <1>2, <1>3, <2>1, <2>2 DEF DepthInv, InputInv, ClientType, ObiType, ObiInv, clientVars
<1>6. QED
  BY <1>4, <1>5 DEF Feed

(* Connecting, failing to, fetching and giving up.                         *)
LEMMA SessionKeeps ==
    DepthInv /\ (Connect \/ ConnectFails \/ RestSnapshot \/ BufferDiff \/ PauseEnds \/ SessionEnds)
        => DepthInv'
<1> SUFFICES ASSUME DepthInv, Connect \/ ConnectFails \/ RestSnapshot \/ BufferDiff
                              \/ PauseEnds \/ SessionEnds
             PROVE  DepthInv'
  OBVIOUS
<1>1. FeedInv /\ TrueDiffs(hist, socket) /\ TrueDiffs(hist, buffer)
  BY DEF DepthInv, InputInv
<1>2. UNCHANGED <<hist, truth, sent, diff>> /\ Now' = Now
  BY DEF Connect, ConnectFails, RestSnapshot, BufferDiff, PauseEnds, SessionEnds, feedVars, Now
<1>3. FeedInv'
  BY <1>1, <1>2 DEF FeedInv
<1>4. ClearedObi \in ObiType /\ TrueDiffs(hist, <<>>)
  BY <1>1, ClearedObiType DEF TrueDiffs
<1>5. CASE Connect \/ PauseEnds
  <2>1. /\ obi' = ClearedObi /\ alpha' = FALSE /\ snap' = NoSnap /\ buffer' = <<>>
        /\ synced' = FALSE /\ pc' = "fetch" /\ attempts' = attempts
        /\ socket' \in {socket, <<>>}
    BY <1>5 DEF Connect, PauseEnds, Refetch, ResetObi, feedVars
  <2>2. InputInv'
    BY <1>1, <1>2, <1>4, <2>1 DEF InputInv
  <2>3. ClientType' /\ ObiInv' /\ NoAlphaFromUnsyncedBook'
    BY <1>2, <1>4, <2>1 DEF DepthInv, ClientType, ObiType, ObiInv, NoAlphaFromUnsyncedBook
  <2>4. QED
    BY <1>3, <2>2, <2>3 DEF DepthInv
<1>6. CASE ConnectFails
  <2>1. /\ obi' = ClearedObi /\ alpha' = FALSE /\ pc = "backoff"
        /\ UNCHANGED <<feedVars, pc, snap, buffer, synced, attempts>>
    BY <1>6 DEF ConnectFails, ResetObi
  <2>2. QED
    BY <1>2, <1>3, <1>4, <2>1
    DEF DepthInv, InputInv, ClientType, ObiType, ObiInv, NoAlphaFromUnsyncedBook, feedVars
<1>7. CASE RestSnapshot
  <2>1. Snapshot \in Message /\ TrueMessage(hist, Snapshot) /\ Snapshot.kind = "snapshot"
    BY <1>1, SnapshotIsTrue
  <2>2. snap' = Snapshot /\ UNCHANGED <<feedVars, pc, buffer, obi, synced, attempts, alpha>>
    BY <1>7 DEF RestSnapshot
  <2>3. InputInv'
    BY <1>1, <1>2, <2>1, <2>2 DEF InputInv, feedVars
  <2>4. QED
    BY <1>2, <1>3, <2>2, <2>3
    DEF DepthInv, ClientType, ObiType, ObiInv, NoAlphaFromUnsyncedBook
<1>8. CASE BufferDiff
  <2>1. /\ socket # <<>> /\ buffer' = Append(buffer, Head(socket)) /\ socket' = Tail(socket)
        /\ UNCHANGED <<pc, snap, obi, synced, attempts, alpha>>
    BY <1>8 DEF BufferDiff
  <2>2. /\ Head(socket) \in Message /\ Head(socket).kind = "diff"
        /\ TrueMessage(hist, Head(socket)) /\ TrueDiffs(hist, Tail(socket))
    BY <1>1, <2>1, DiffQueues
  <2>3. TrueDiffs(hist, buffer')
    BY <1>1, <2>1, <2>2, DiffQueues
  <2>4. InputInv'
    BY <1>2, <2>1, <2>2, <2>3 DEF DepthInv, InputInv
  <2>5. QED
    BY <1>2, <1>3, <2>1, <2>4
    DEF DepthInv, ClientType, ObiType, ObiInv, NoAlphaFromUnsyncedBook
<1>9. CASE SessionEnds
  <2>1. pc' = "backoff" /\ attempts' = 0 /\ UNCHANGED <<feedVars, snap, buffer, obi, synced, alpha>>
    BY <1>9 DEF SessionEnds
  <2>2. ClientType'
    BY <1>2, <2>1, DepthAssumption DEF DepthAssumption, DepthInv, ClientType, ObiType
  <2>3. QED
    BY <1>2, <1>3, <2>1, <2>2
    DEF DepthInv, InputInv, ObiInv, NoAlphaFromUnsyncedBook, feedVars
<1>10. QED
  BY <1>5, <1>6, <1>7, <1>8, <1>9

(* Applying the snapshot and draining the buffer.                          *)
LEMMA DrainKeeps ==
    DepthInv /\ (StartDrain \/ DrainDrop \/ DrainApply \/ DrainResync \/ DrainDone) => DepthInv'
<1> SUFFICES ASSUME DepthInv, StartDrain \/ DrainDrop \/ DrainApply \/ DrainResync \/ DrainDone
             PROVE  DepthInv'
  OBVIOUS
<1>1. FeedInv /\ TrueDiffs(hist, socket) /\ TrueDiffs(hist, buffer)
  BY DEF DepthInv, InputInv
<1>2. UNCHANGED feedVars /\ Now' = Now /\ alpha' = alpha
  BY DEF StartDrain, DrainDrop, DrainApply, DrainResync, DrainDone, feedVars, Now
<1>3. FeedInv'
  BY <1>1, <1>2 DEF FeedInv, feedVars
<1>4. TrueDiffs(hist, <<>>)
  BY DEF TrueDiffs
<1>5. CASE StartDrain
  <2>1. /\ ApplySnapshot(snap) \in ObiType
        /\ BookAt(hist, ApplySnapshot(snap).levels, ApplySnapshot(snap).lastUpdateId)
    BY <1>5, SnapshotStartsBook DEF StartDrain
  <2>2. /\ obi' = ApplySnapshot(snap) /\ pc = "fetch" /\ pc' = "drain" /\ snap' = NoSnap
        /\ UNCHANGED <<buffer, synced, attempts>>
    BY <1>5 DEF StartDrain
  <2>3. ~synced /\ ~alpha
    BY <2>2 DEF DepthInv, ObiInv, NoAlphaFromUnsyncedBook
  <2>4. ObiInv' /\ NoAlphaFromUnsyncedBook'
    BY <1>2, <2>1, <2>2, <2>3 DEF ObiInv, NoAlphaFromUnsyncedBook, feedVars
  <2>5. QED
    BY <1>2, <1>3, <2>1, <2>2, <2>4 DEF DepthInv, InputInv, ClientType, ObiType, feedVars
<1>6. CASE DrainDrop
  <2>1. buffer # <<>> /\ buffer' = Tail(buffer) /\ UNCHANGED <<pc, snap, obi, synced, attempts>>
    BY <1>6 DEF DrainDrop
  <2>2. TrueDiffs(hist, buffer')
    BY <1>1, <2>1, DiffQueues
  <2>3. QED
    BY <1>2, <1>3, <2>1, <2>2
    DEF DepthInv, InputInv, ClientType, ObiType, ObiInv, NoAlphaFromUnsyncedBook, feedVars
<1>7. CASE DrainApply
  <2> DEFINE e == Head(buffer)
  <2>1. /\ pc = "drain" /\ buffer # <<>> /\ buffer' = Tail(buffer)
        /\ ClassifyEvent(synced, obi, e) \in {"ApplyFirst", "Apply"}
        /\ obi' = ApplyDiff(obi, e) /\ synced' = TRUE /\ UNCHANGED <<pc, snap, attempts>>
    BY <1>7 DEF DrainApply
  <2>2. /\ e \in Message /\ e.kind = "diff" /\ TrueMessage(hist, e) /\ TrueDiffs(hist, buffer')
    BY <1>1, <2>1, DiffQueues
  <2>3. /\ obi' \in ObiType /\ obi'.prevU = e.last /\ BookAt(hist, obi'.levels, e.last)
    <3> HIDE DEF e
    <3>1. QED
      BY <2>1, <2>2, AcceptedDiffJoins
  <2>4. ObiInv' /\ NoAlphaFromUnsyncedBook'
    BY <1>2, <2>1, <2>3 DEF ObiInv, NoAlphaFromUnsyncedBook, feedVars
  <2>5. QED
    BY <1>2, <1>3, <2>1, <2>2, <2>3, <2>4 DEF DepthInv, InputInv, ClientType, ObiType, feedVars
<1>8. CASE DrainResync
  <2>1. /\ attempts' \in 0..MaxResync - 1 /\ pc' \in {"backoff", "pause"}
        /\ buffer' = <<>> /\ UNCHANGED <<snap, obi, synced>>
    BY <1>8, ResyncFacts DEF DrainResync, DepthInv, ClientType
  <2>2. QED
    BY <1>2, <1>3, <1>4, <2>1
    DEF DepthInv, InputInv, ClientType, ObiType, ObiInv, NoAlphaFromUnsyncedBook, feedVars
<1>9. CASE DrainDone
  <2>1. /\ pc = "drain" /\ pc' = "live" /\ attempts' \in {0, attempts}
        /\ UNCHANGED <<snap, buffer, obi, synced>>
    BY <1>9 DEF DrainDone
  <2>2. attempts' \in 0..MaxResync - 1
    BY <2>1, DepthAssumption DEF DepthAssumption, DepthInv, ClientType
  <2>3. QED
    BY <1>2, <1>3, <2>1, <2>2
    DEF DepthInv, InputInv, ClientType, ObiType, ObiInv, NoAlphaFromUnsyncedBook, feedVars
<1>10. QED
  BY <1>5, <1>6, <1>7, <1>8, <1>9

(* The live loop.                                                          *)
LEMMA LiveKeeps ==
    DepthInv /\ (LiveDrop \/ LiveResync \/ \E usable \in BOOLEAN : LiveApply(usable)) => DepthInv'
<1> SUFFICES ASSUME DepthInv, LiveDrop \/ LiveResync \/ \E usable \in BOOLEAN : LiveApply(usable)
             PROVE  DepthInv'
  OBVIOUS
<1> DEFINE e == Head(socket)
<1>1. /\ FeedInv /\ TrueDiffs(hist, socket)
      /\ pc = "live" /\ socket # <<>> /\ socket' = Tail(socket)
      /\ UNCHANGED <<hist, truth, sent, diff, snap, buffer>> /\ Now' = Now
  BY DEF LiveDrop, LiveResync, LiveApply, clientVars, DepthInv, InputInv, Now
<1>2. /\ e \in Message /\ e.kind = "diff" /\ TrueMessage(hist, e) /\ TrueDiffs(hist, socket')
  BY <1>1, DiffQueues
<1>3. FeedInv' /\ InputInv'
  BY <1>1, <1>2 DEF FeedInv, DepthInv, InputInv
<1>4. CASE LiveDrop
  BY <1>1, <1>3, <1>4
  DEF LiveDrop, clientVars, DepthInv, ClientType, ObiType, ObiInv, NoAlphaFromUnsyncedBook
<1>5. CASE LiveResync
  <2>1. /\ attempts' \in 0..MaxResync - 1 /\ pc' \in {"backoff", "pause"}
        /\ UNCHANGED <<obi, synced, alpha>>
    BY <1>5, ResyncFacts DEF LiveResync, DepthInv, ClientType
  <2>2. QED
    BY <1>1, <1>3, <2>1 DEF DepthInv, ClientType, ObiType, ObiInv, NoAlphaFromUnsyncedBook
<1>6. ASSUME NEW usable \in BOOLEAN, LiveApply(usable) PROVE DepthInv'
  <2>1. /\ ClassifyEvent(synced, obi, e) \in {"ApplyFirst", "Apply"}
        /\ obi' = ApplyDiff(obi, e) /\ synced' = TRUE /\ pc' = pc
        /\ attempts' \in {0, attempts} /\ alpha' \in BOOLEAN
    BY <1>6 DEF LiveApply, UpdateAlpha
  <2>2. obi' \in ObiType /\ obi'.prevU = e.last /\ BookAt(hist, obi'.levels, e.last)
    <3> HIDE DEF e
    <3>1. QED
      BY <1>1, <1>2, <2>1, AcceptedDiffJoins
  <2>3. attempts' \in 0..MaxResync - 1
    BY <2>1, DepthAssumption DEF DepthAssumption, DepthInv, ClientType
  <2>4. ObiInv' /\ NoAlphaFromUnsyncedBook'
    BY <1>1, <2>1, <2>2 DEF ObiInv, NoAlphaFromUnsyncedBook
  <2>5. QED
    BY <1>1, <1>3, <2>1, <2>2, <2>3, <2>4 DEF DepthInv, ClientType, ObiType
<1>7. QED
  BY <1>4, <1>5, <1>6

(* However snapshots and diffs overlap, miss each other or get lost, a     *)
(* book past its snapshot is the exchange's at the update it claims.       *)
THEOREM DepthInvariantHolds == Spec => []DepthInv
<1>1. DepthInv /\ [Next]_vars => DepthInv'
  <2> SUFFICES ASSUME DepthInv, [Next]_vars PROVE DepthInv'
    OBVIOUS
  <2>1. CASE Next
    BY <2>1, FeedKeeps, SessionKeeps, DrainKeeps, LiveKeeps DEF Next
  <2>2. CASE UNCHANGED vars
    BY <2>2
    DEF vars, feedVars, clientVars, DepthInv, FeedInv, InputInv, ClientType, ObiType, ObiInv,
        NoAlphaFromUnsyncedBook, Now
  <2>3. QED
    BY <2>1, <2>2
<1>2. QED
  BY <1>1, InitInv, PTL DEF Spec

(* Every variable of the depth client keeps its type; resync_attempts      *)
(* stays below MAX_RESYNC_ATTEMPTS.                                        *)
THEOREM TypeCorrect == Spec => []TypeOK
<1>1. DepthInv => TypeOK
  BY DEF DepthInv, FeedInv, ClientType, ObiType, TypeOK, Covers
<1>2. QED
  BY <1>1, DepthInvariantHolds, PTL

(* reset() and the order of the session's steps keep the signal of an      *)
(* earlier book from being published while the new one is not joined yet.  *)
THEOREM AlphaNeedsSync == Spec => []NoAlphaFromUnsyncedBook
<1>1. DepthInv => NoAlphaFromUnsyncedBook
  BY DEF DepthInv
<1>2. QED
  BY <1>1, DepthInvariantHolds, PTL

-----------------------------------------------------------------------------
(* THE REFINEMENT                                                          *)

(* What the mapping makes of the OBI book.                                 *)
View == IF Trusted THEN [id |-> obi.prevU, levels |-> obi.levels]
                   ELSE [id |-> -1, levels |-> <<>>]

(* Every step of the client is a step of the mirror or leaves it alone.    *)
LEMMA StepRefines ==
    ASSUME DepthInv, DepthInv', [Next]_vars
    PROVE  [Mirror!Next]_<<hist, View>>
<1>1. CASE Feed
  <2>1. View' = View
    BY <1>1 DEF Feed, clientVars, View, Trusted
  <2>2. CASE \E l \in Levels : Update(l)
    <3>1. PICK l \in Levels : hist' = Append(hist, l)
      BY <2>2 DEF Update
    <3>2. Mirror!Update(l)
      BY <2>1, <3>1 DEF Mirror!Update, View
    <3>3. QED
      BY <3>2 DEF Mirror!Next
  <2>3. CASE UNCHANGED hist
    BY <2>1, <2>3
  <2>4. QED
    BY <1>1, <2>2, <2>3 DEF Feed, PublishDiff, LoseDiff, Bundle
<1>2. ASSUME UNCHANGED hist, ~Trusted' PROVE Mirror!Next
  <2>1. Mirror!Distrust
    BY <1>2 DEF Mirror!Distrust, Mirror!NoView
  <2>2. QED
    BY <2>1 DEF Mirror!Next
<1>3. ASSUME UNCHANGED hist, Trusted', View'.id >= View.id PROVE Mirror!Next
  <2>1. View'.id = obi'.prevU /\ View'.levels = obi'.levels
    BY <1>3 DEF View
  <2>2. synced' /\ BookAt(hist', obi'.levels, obi'.prevU) /\ obi'.prevU \in 0..Now'
    BY <1>3 DEF DepthInv, ObiInv, ClientType, ObiType, Trusted
  <2>3. View'.id \in 0..Len(hist) /\ BookAt(hist, View'.levels, View'.id)
    BY <1>3, <2>1, <2>2 DEF Now
  <2>4. View' # [id |-> -1, levels |-> <<>>]
    BY <2>3
  <2>5. Mirror!IsBookAt(View'.levels, View'.id)
    BY <2>3 DEF Mirror!IsBookAt, BookAt
  <2>6. Mirror!Follow
    BY <1>3, <2>3, <2>4, <2>5 DEF Mirror!Follow, Mirror!NoView, View
  <2>7. QED
    BY <2>6 DEF Mirror!Next
<1>4. CASE Connect \/ ConnectFails \/ RestSnapshot \/ BufferDiff \/ PauseEnds \/ SessionEnds
  BY <1>2, <1>4
  DEF Connect, ConnectFails, RestSnapshot, BufferDiff, PauseEnds, SessionEnds, Refetch,
      feedVars, Trusted
<1>5. CASE StartDrain \/ DrainDrop \/ DrainApply
  BY <1>2, <1>5 DEF StartDrain, DrainDrop, DrainApply, feedVars, Trusted
<1>6. CASE DrainResync \/ LiveResync
  BY <1>2, <1>6, ResyncFacts
  DEF DrainResync, LiveResync, feedVars, Trusted, DepthInv, ClientType
<1>7. CASE DrainDone
  <2>1. UNCHANGED hist /\ View.id = -1
    BY <1>7 DEF DrainDone, feedVars, View, Trusted
  <2>2. CASE Trusted'
    <3>1. View'.id = obi'.prevU /\ obi'.prevU \in 0..Now' /\ Now' \in Nat
      BY <2>2 DEF View, DepthInv, ClientType, ObiType, FeedInv, Now
    <3>2. QED
      BY <1>3, <2>1, <2>2, <3>1
  <2>3. QED
    BY <1>2, <2>1, <2>2
<1>8. CASE LiveDrop
  BY <1>8 DEF LiveDrop, clientVars, View, Trusted
<1>9. ASSUME NEW usable \in BOOLEAN, LiveApply(usable) PROVE Mirror!Next
  <2> DEFINE e == Head(socket)
  <2>1. /\ pc = "live" /\ socket # <<>> /\ pc' = pc /\ synced' = TRUE /\ hist' = hist
        /\ ClassifyEvent(synced, obi, e) \in {"ApplyFirst", "Apply"}
        /\ obi' = ApplyDiff(obi, e)
    BY <1>9 DEF LiveApply
  <2>2. e \in Message /\ e.kind = "diff" /\ TrueMessage(hist, e)
    BY <2>1, DiffQueues DEF DepthInv, InputInv
  <2>3. obi'.prevU = e.last /\ e.last \in 0..Now /\ (synced => e.last >= obi.prevU)
    <3> HIDE DEF e
    <3>1. QED
      BY <2>1, <2>2, AcceptedDiffJoins
  <2>4. Trusted' /\ View'.id = e.last
    BY <2>1, <2>3 DEF Trusted, View
  <2>5. View.id = IF synced THEN obi.prevU ELSE -1
    BY <2>1 DEF View, Trusted
  <2>6. Now \in Nat
    BY DEF DepthInv, FeedInv, Now
  <2>7. View'.id >= View.id
    BY <2>3, <2>4, <2>5, <2>6
  <2>8. QED
    BY <1>3, <2>1, <2>4, <2>7
<1>10. CASE UNCHANGED vars
  BY <1>10 DEF vars, feedVars, clientVars, View, Trusted
<1>11. QED
  BY <1>1, <1>4, <1>5, <1>6, <1>7, <1>8, <1>9, <1>10 DEF Next

(* The book OBI is computed from is at every moment the exchange's after   *)
(* update prev_u and only moves forward until it is given up, however      *)
(* diffs and snapshots interleave.                                         *)
THEOREM DepthMirrors == Spec => FollowsTheExchange
<1>1. Init => Mirror!Init
  BY DEF Init, FeedInit, Trusted, Mirror!Init, Mirror!NoView
<1>2. DepthInv /\ DepthInv' /\ [Next]_vars => [Mirror!Next]_<<hist, View>>
  BY StepRefines
<1>3. QED
  BY <1>1, <1>2, DepthInvariantHolds, PTL DEF Spec, FollowsTheExchange, Mirror!Spec, View
=============================================================================
