------------------------------ MODULE DepthSync -----------------------------
(***************************************************************************)
(* The Binance diff-depth client (binance/depth_client.rs, obi.rs): a REST *)
(* snapshot fetched while diffs are buffered, the futures rules that join  *)
(* the two, re-snapshots inside a session, reconnects, and the signal that *)
(* is published from the book.                                             *)
(***************************************************************************)
EXTENDS BookFeed

CONSTANT MaxResync      \* MAX_RESYNC_ATTEMPTS

ASSUME DepthAssumption == MaxResync \in Nat \ {0}

VARIABLES
    pc,         \* where run and session are
    snap,       \* the REST answer, when the exchange has produced it
    buffer,     \* diffs read while the snapshot is fetched, then drained
    obi,        \* BinanceObi: levels, last_update_id, prev_u
    synced,
    attempts,   \* resync_attempts
    alpha       \* SharedAlpha holds a value

clientVars == <<pc, snap, buffer, obi, synced, attempts, alpha>>
vars == <<feedVars, clientVars>>

NoSnap == [kind |-> "none"]
ClearedObi == [levels |-> Absent, lastUpdateId |-> 0, prevU |-> 0]

TypeOK ==
    /\ hist \in Seq(Levels) /\ truth \in [Levels -> 0..Now]
    /\ sent \in 0..Now /\ DOMAIN diff \subseteq Levels
    /\ pc \in {"backoff", "fetch", "drain", "live", "pause"}
    /\ obi \in [levels : [Levels -> 0..Now], lastUpdateId : 0..Now, prevU : 0..Now]
    /\ synced \in BOOLEAN /\ alpha \in BOOLEAN
    /\ attempts \in 0..MaxResync - 1

Init ==
    /\ FeedInit
    /\ pc = "backoff" /\ snap = NoSnap /\ buffer = <<>>
    /\ obi = ClearedObi /\ synced = FALSE
    /\ attempts = 0 /\ alpha = FALSE

-----------------------------------------------------------------------------
(* What to do with one diff.                                               *)
ClassifyEvent_NoBracket_Fault(s, o, e) ==
    CASE ~s /\ e.last < o.lastUpdateId  -> "Drop"
      [] ~s /\ e.last >= o.lastUpdateId -> "ApplyFirst"
      [] s /\ e.prev = o.prevU          -> "Apply"
      [] OTHER                          -> "Resync"

ClassifyEvent(s, o, e) ==
    CASE ~s /\ e.last < o.lastUpdateId             -> "Drop"
      [] ~s /\ o.lastUpdateId \in e.first .. e.last -> "ApplyFirst"
      [] s /\ e.prev = o.prevU                     -> "Apply"
      [] OTHER                                     -> "Resync"

ApplySnapshot(s) == [levels |-> Replaced(s.levels), lastUpdateId |-> s.last, prevU |-> 0]

ApplyDiff(o, e) == [o EXCEPT !.levels = Upserted(@, e.levels), !.prevU = e.last]

-----------------------------------------------------------------------------
ResetObi_KeepAlpha_Fault == obi' = ClearedObi /\ UNCHANGED alpha

(* BinanceObi::reset clears the published signal too.                      *)
ResetObi == obi' = ClearedObi /\ alpha' = FALSE

(* update_alpha publishes, or skips a one-sided or crossed book.           *)
UpdateAlpha(usable) == alpha' = (alpha \/ usable)

(* session: top of the resync loop.                                        *)
Refetch ==
    /\ ResetObi
    /\ snap' = NoSnap /\ buffer' = <<>>
    /\ synced' = FALSE
    /\ pc' = "fetch"

Resync_OffByOne_Fault ==
    IF attempts + 1 > MaxResync
    THEN pc' = "backoff" /\ attempts' = 0
    ELSE pc' = "pause" /\ attempts' = attempts + 1

(* A Resync verdict: pause and fetch again, or give the session up.        *)
Resync ==
    IF attempts + 1 >= MaxResync
    THEN pc' = "backoff" /\ attempts' = 0
    ELSE pc' = "pause" /\ attempts' = attempts + 1

(* run: reset and connect; only what is sent from now on arrives.          *)
Connect ==
    /\ pc = "backoff"
    /\ Refetch
    /\ socket' = <<>>
    /\ UNCHANGED <<hist, truth, sent, diff, attempts>>

ConnectFails ==
    /\ pc = "backoff"
    /\ ResetObi
    /\ UNCHANGED <<feedVars, pc, snap, buffer, synced, attempts>>

(* fetch_snapshot_buffering: the socket is read while REST answers.  All   *)
(* levels are within depth_snapshot_limit here.                            *)
RestSnapshot ==
    /\ pc = "fetch" /\ snap = NoSnap
    /\ snap' = Snapshot
    /\ UNCHANGED <<feedVars, pc, buffer, obi, synced, attempts, alpha>>

BufferDiff ==
    /\ pc = "fetch" /\ socket # <<>>
    /\ buffer' = Append(buffer, Head(socket))
    /\ socket' = Tail(socket)
    /\ UNCHANGED <<hist, truth, sent, diff, pc, snap, obi, synced, attempts, alpha>>

(* apply_snapshot_and_drain: the snapshot, then one buffered diff after    *)
(* the other until the first Resync verdict.                               *)
StartDrain ==
    /\ pc = "fetch" /\ snap # NoSnap
    /\ obi' = ApplySnapshot(snap)
    /\ pc' = "drain" /\ snap' = NoSnap
    /\ UNCHANGED <<feedVars, buffer, synced, attempts, alpha>>

DrainDrop ==
    /\ pc = "drain" /\ buffer # <<>>
    /\ ClassifyEvent(synced, obi, Head(buffer)) = "Drop"
    /\ buffer' = Tail(buffer)
    /\ UNCHANGED <<feedVars, pc, snap, obi, synced, attempts, alpha>>

DrainApply ==
    LET e == Head(buffer) IN
    /\ pc = "drain" /\ buffer # <<>>
    /\ ClassifyEvent(synced, obi, e) \in {"ApplyFirst", "Apply"}
    /\ obi' = ApplyDiff(obi, e)
    /\ synced' = TRUE
    /\ buffer' = Tail(buffer)
    /\ UNCHANGED <<feedVars, pc, snap, attempts, alpha>>

DrainResync ==
    /\ pc = "drain" /\ buffer # <<>>
    /\ ClassifyEvent(synced, obi, Head(buffer)) = "Resync"
    /\ Resync
    /\ buffer' = <<>>
    /\ UNCHANGED <<feedVars, snap, obi, synced, alpha>>

DrainDone ==
    /\ pc = "drain" /\ buffer = <<>>
    /\ pc' = "live"
    /\ attempts' = IF synced THEN 0 ELSE attempts
    /\ UNCHANGED <<feedVars, snap, buffer, obi, synced, alpha>>

(* Live loop.                                                              *)
LiveApply(usable) ==
    LET e == Head(socket) IN
    /\ pc = "live" /\ socket # <<>>
    /\ ClassifyEvent(synced, obi, e) \in {"ApplyFirst", "Apply"}
    /\ obi' = ApplyDiff(obi, e)
    /\ synced' = TRUE
    /\ attempts' = IF synced THEN attempts ELSE 0
    /\ UpdateAlpha(usable)
    /\ socket' = Tail(socket)
    /\ UNCHANGED <<hist, truth, sent, diff, pc, snap, buffer>>

LiveDrop ==
    /\ pc = "live" /\ socket # <<>>
    /\ ClassifyEvent(synced, obi, Head(socket)) = "Drop"
    /\ socket' = Tail(socket)
    /\ UNCHANGED <<hist, truth, sent, diff, clientVars>>

LiveResync ==
    /\ pc = "live" /\ socket # <<>>
    /\ ClassifyEvent(synced, obi, Head(socket)) = "Resync"
    /\ Resync
    /\ socket' = Tail(socket)
    /\ UNCHANGED <<hist, truth, sent, diff, snap, buffer, obi, synced, alpha>>

PauseEnds ==
    /\ pc = "pause"
    /\ Refetch
    /\ UNCHANGED <<feedVars, attempts>>

(* An error or the end of the socket, 30 s without data, a failed fetch.   *)
SessionEnds ==
    /\ pc \in {"fetch", "live"}
    /\ pc' = "backoff" /\ attempts' = 0
    /\ UNCHANGED <<feedVars, snap, buffer, obi, synced, alpha>>

-----------------------------------------------------------------------------
Feed ==
    /\ (\E l \in Levels : Update(l)) \/ PublishDiff \/ LoseDiff
    /\ UNCHANGED clientVars

Next ==
    \/ Feed
    \/ Connect \/ ConnectFails \/ RestSnapshot \/ BufferDiff
    \/ StartDrain \/ DrainDrop \/ DrainApply \/ DrainResync \/ DrainDone
    \/ LiveDrop \/ LiveResync \/ PauseEnds \/ SessionEnds
    \/ \E usable \in BOOLEAN : LiveApply(usable)

Spec == Init /\ [][Next]_vars

-----------------------------------------------------------------------------
(* The book the client goes by.                                            *)
Trusted == pc = "live" /\ synced

Mirror == INSTANCE BookMirror WITH
    view <- IF Trusted THEN [id |-> obi.prevU, levels |-> obi.levels]
                       ELSE [id |-> -1, levels |-> <<>>]

(* A lost, stale or overlapping diff never goes unnoticed: a synced book   *)
(* is at every moment the exchange's book after update prev_u, and goes    *)
(* only forward until it is given up (classify_event,                      *)
(* apply_snapshot_and_drain, session).                                     *)
FollowsTheExchange == Mirror!Spec

(* "a stale OBI value cannot leak across a reconnect / re-snapshot"        *)
(* (obi.rs, reset): between a reset and the first diff that joins the new  *)
(* snapshot nothing is published.                                          *)
NoAlphaFromUnsyncedBook == pc \in {"fetch", "drain", "live"} /\ ~synced => ~alpha
=============================================================================
