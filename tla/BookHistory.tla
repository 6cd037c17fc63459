---------------------------- MODULE BookHistory -----------------------------
(***************************************************************************)
(* What it means that a book or a message of BookFeed is true of the       *)
(* exchange's history, and the invariant of the exchange's side: the       *)
(* vocabulary in which both mirrors' invariants are stated.                *)
(***************************************************************************)
EXTENDS BookFeed

(* levels is the book after the first n updates of h.                      *)
BookAt(h, levels, n) ==
    \A l \in Levels :
        /\ levels[l] \in 0..n
        /\ levels[l] # 0 => h[levels[l]] = l
        /\ \A i \in levels[l] + 1 .. n : h[i] # l

(* d names the levels that the updates a+1..b of h changed, each with the  *)
(* last update it got among them.                                          *)
Covers(h, d, a, b) ==
    /\ DOMAIN d \subseteq Levels
    /\ \A l \in DOMAIN d :
        /\ d[l] \in a + 1 .. b
        /\ h[d[l]] = l
        /\ \A i \in d[l] + 1 .. b : h[i] # l
    /\ \A l \in Levels \ DOMAIN d : \A i \in a + 1 .. b : h[i] # l

(* Contents of some levels, and messages of that shape.                    *)
LevelMaps == UNION {[D -> Nat] : D \in SUBSET Levels}

Message == [kind : {"snapshot", "diff"}, prev : Nat, first : Nat, last : Nat,
            levels : LevelMaps]

(* A message that is true of the history h.                                *)
TrueMessage(h, m) ==
    \/ /\ m.kind = "snapshot"
       /\ m.last \in 0..Len(h)
       /\ m.levels \in [Levels -> 0..m.last]
       /\ BookAt(h, m.levels, m.last)
    \/ /\ m.kind = "diff"
       /\ m.last \in 0..Len(h) /\ m.prev \in 0..m.last - 1
       /\ m.first = m.prev + 1
       /\ Covers(h, m.levels, m.prev, m.last)

(* The exchange's book is its history, and the diff it prepares is what    *)
(* happened since the last one.                                            *)
FeedInv ==
    /\ hist \in Seq(Levels)
    /\ truth \in [Levels -> 0..Now] /\ BookAt(hist, truth, Now)
    /\ sent \in 0..Now
    /\ diff \in LevelMaps /\ Covers(hist, diff, sent, Now)
=============================================================================
