------------------------------ MODULE BookFeed ------------------------------
(***************************************************************************)
(* The exchange's side of a market-data connection (external): updates of  *)
(* the book, bundled into diffs that are chained by sequence numbers and   *)
(* put on the socket in order.  A diff may be lost before it is read.      *)
(***************************************************************************)
EXTENDS Integers, Sequences

CONSTANTS
    Levels,         \* price levels
    MaxUpdates,     \* bound: updates of the exchange
    MaxSocket       \* bound: messages on the socket

ASSUME FeedAssumption == MaxUpdates \in Nat /\ MaxSocket \in Nat

VARIABLES
    hist,           \* the level changed by each update
    truth,          \* the exchange's book: the last update of each level
    sent,           \* last update that went into a diff
    diff,           \* levels changed since, with their contents
    socket          \* messages sent and not yet read

feedVars == <<hist, truth, sent, diff, socket>>

Now == Len(hist)
NoLevels == <<>>
Absent == [l \in Levels |-> 0]

FeedInit ==
    /\ hist = <<>> /\ truth = Absent
    /\ sent = 0 /\ diff = NoLevels
    /\ socket = <<>>

(* upsert of every level a diff names.                                     *)
Upserted(levels, changes) ==
    [l \in Levels |-> IF l \in DOMAIN changes THEN changes[l] ELSE levels[l]]

(* clear, then the levels a snapshot names.                                *)
Replaced(changes) == Upserted(Absent, changes)

Update(l) ==
    /\ Now < MaxUpdates
    /\ hist' = Append(hist, l)
    /\ truth' = [truth EXCEPT ![l] = Now + 1]
    /\ diff' = [k \in DOMAIN diff \cup {l} |-> IF k = l THEN Now + 1 ELSE diff[k]]
    /\ UNCHANGED <<sent, socket>>

(* The diff covers the updates first..last; prev is the end of the one     *)
(* before it.                                                              *)
Diff == [kind |-> "diff", prev |-> sent, first |-> sent + 1, last |-> Now, levels |-> diff]
Snapshot == [kind |-> "snapshot", prev |-> 0, first |-> 0, last |-> Now, levels |-> truth]

Bundle ==
    /\ sent < Now
    /\ sent' = Now /\ diff' = NoLevels
    /\ UNCHANGED <<hist, truth>>

PublishDiff ==
    /\ Bundle
    /\ Len(socket) < MaxSocket
    /\ socket' = Append(socket, Diff)

LoseDiff == Bundle /\ UNCHANGED socket
=============================================================================
