----------------------------- MODULE LighterBook ----------------------------
(***************************************************************************)
(* The Lighter market-data session (lighter/ws.rs) and the book the hot    *)
(* task keeps from it (on_orderbook): snapshots, deltas checked by offset  *)
(* and nonce, the cross-check against the ticker, forced and unforced      *)
(* reconnects, and the lazy reset that follows one.                        *)
(***************************************************************************)
EXTENDS BookFeed

CONSTANTS
    StreakTrip,     \* SANITY_STREAK_TRIP
    BadSnapshots    \* whether a snapshot may fail to parse (on_message drops it)

ASSUME LighterAssumption == StreakTrip \in Nat \ {0} /\ BadSnapshots \in BOOLEAN

VARIABLES
    up,             \* a session is running
    reconnect,      \* md_reconnect holds a permit
    resetFlag,      \* set on disconnect, consumed by the next order-book message
    book,           \* LocalBook: levels, initialized, last_offset, last_nonce
    awaiting,       \* awaiting_resnapshot
    streak          \* sanity_streak

clientVars == <<up, reconnect, resetFlag, book, awaiting, streak>>
vars == <<feedVars, clientVars>>

(* Offset and nonce are -1 for None.                                       *)
NewBook == [levels |-> Absent, initialized |-> FALSE, lastOffset |-> -1, lastNonce |-> -1]

TypeOK ==
    /\ hist \in Seq(Levels) /\ truth \in [Levels -> 0..Now]
    /\ sent \in 0..Now /\ DOMAIN diff \subseteq Levels
    /\ up \in BOOLEAN /\ reconnect \in BOOLEAN /\ resetFlag \in BOOLEAN
    /\ awaiting \in BOOLEAN
    /\ book \in [levels : [Levels -> 0..Now], initialized : BOOLEAN,
                 lastOffset : -1..Now, lastNonce : -1..Now]
    /\ streak \in 0..StreakTrip - 1

Init ==
    /\ FeedInit
    /\ up = FALSE /\ reconnect = FALSE /\ resetFlag = FALSE
    /\ book = NewBook /\ awaiting = FALSE /\ streak = 0

-----------------------------------------------------------------------------
(* SESSION                                                                 *)

(* connect and subscribe; the exchange answers with a snapshot.            *)
Connect ==
    /\ ~up
    /\ up' = TRUE
    /\ socket' = <<Snapshot>>
    /\ sent' = Now /\ diff' = NoLevels
    /\ UNCHANGED <<hist, truth, reconnect, resetFlag, book, awaiting, streak>>

Disconnected ==
    /\ up' = FALSE /\ resetFlag' = TRUE
    /\ socket' = <<>>
    /\ UNCHANGED <<hist, truth, sent, diff, book, awaiting, streak>>

(* The permit is looked at before every read.                              *)
ForcedReconnect ==
    /\ up /\ reconnect
    /\ reconnect' = FALSE
    /\ Disconnected

(* Error, end of stream, close frame, a dead ping, or the watchdog; a      *)
(* permit was consumed without an await after the message that set it.     *)
SessionEnds ==
    /\ up /\ ~reconnect
    /\ Disconnected /\ UNCHANGED reconnect

-----------------------------------------------------------------------------
(* HOT TASK: on_orderbook                                                  *)

(* A book from before the reconnect is thrown away first.                  *)
Kept ==
    IF resetFlag THEN [book |-> NewBook, awaiting |-> FALSE, streak |-> 0]
                 ELSE [book |-> book, awaiting |-> awaiting, streak |-> streak]

(* Offset guard and, for what passes it, nonce continuity.  Every message  *)
(* carries both here; the code skips a check whose field is missing.       *)
IsStale(b, m) == m.kind = "diff" /\ b.initialized /\ m.last <= b.lastOffset

HasGap_NoCheck_Fault(b, m) == FALSE

HasGap(b, m) == m.kind = "diff" /\ b.initialized /\ m.prev # b.lastNonce

(* A snapshot, or whatever comes first, replaces the book.                 *)
Applied(b, m) ==
    [levels |-> IF m.kind = "snapshot" \/ ~b.initialized
                THEN Replaced(m.levels) ELSE Upserted(b.levels, m.levels),
     initialized |-> TRUE, lastOffset |-> m.last, lastNonce |-> m.last]

Reading ==
    /\ up /\ ~reconnect /\ socket # <<>>
    /\ socket' = Tail(socket)
    /\ UNCHANGED <<hist, truth, sent, diff, up>>

(* Early returns: a delta for a book that is given up, or an old one.      *)
IgnoreDelta ==
    LET m == Head(socket) IN
    /\ Reading
    /\ m.kind = "diff"
    /\ Kept.awaiting \/ IsStale(Kept.book, m)
    /\ resetFlag' = FALSE
    /\ book' = Kept.book /\ awaiting' = Kept.awaiting /\ streak' = Kept.streak
    /\ UNCHANGED reconnect

Accepts(m) == m.kind = "snapshot" \/ ~(Kept.awaiting \/ IsStale(Kept.book, m))

RequestResnapshot_NoNotify_Fault == awaiting' = TRUE /\ streak' = 0 /\ UNCHANGED reconnect

(* request_resnapshot                                                      *)
RequestResnapshot == awaiting' = TRUE /\ streak' = 0 /\ reconnect' = TRUE

NonceGap ==
    LET m == Head(socket) IN
    /\ Reading
    /\ Accepts(m) /\ HasGap(Kept.book, m)
    /\ resetFlag' = FALSE
    /\ book' = Kept.book
    /\ RequestResnapshot

BookSanityDiverged_Never_Fault(check) == FALSE

(* The mid of a two-sided book against a fresh ticker's: StreakTrip        *)
(* deviations in a row distrust the book, one agreement forgives them.     *)
BookSanityDiverged(check) == check = "deviates" /\ Kept.streak + 1 >= StreakTrip

SanityStreak(check) ==
    CASE check = "deviates" -> Kept.streak + 1
      [] check = "agrees"   -> 0
      [] OTHER              -> Kept.streak

ApplyMessage(check) ==
    LET m == Head(socket) IN
    /\ Reading
    /\ Accepts(m) /\ ~HasGap(Kept.book, m)
    /\ resetFlag' = FALSE
    /\ book' = Applied(Kept.book, m)
    /\ IF BookSanityDiverged(check)
       THEN RequestResnapshot
       ELSE awaiting' = FALSE /\ streak' = SanityStreak(check) /\ UNCHANGED reconnect

(* A message that does not parse is dropped by on_message.                 *)
Unparseable ==
    /\ Reading
    /\ Head(socket).kind = "snapshot" => BadSnapshots
    /\ UNCHANGED <<reconnect, resetFlag, book, awaiting, streak>>

-----------------------------------------------------------------------------
(* EXCHANGE (external): a snapshot inside a session, a repeated delta.     *)
RefreshSnapshot ==
    /\ up /\ Len(socket) < MaxSocket
    /\ socket' = Append(socket, Snapshot)
    /\ sent' = Now /\ diff' = NoLevels
    /\ UNCHANGED <<hist, truth, clientVars>>

RepeatDelta ==
    /\ socket # <<>> /\ Len(socket) < MaxSocket
    /\ socket[Len(socket)].kind = "diff"
    /\ socket' = Append(socket, socket[Len(socket)])
    /\ UNCHANGED <<hist, truth, sent, diff, clientVars>>

Feed ==
    /\ (\E l \in Levels : Update(l)) \/ (up /\ PublishDiff) \/ LoseDiff
    /\ UNCHANGED clientVars

ReadMessage ==
    \/ IgnoreDelta \/ NonceGap \/ Unparseable
    \/ \E check \in {"none", "agrees", "deviates"} : ApplyMessage(check)

Next ==
    \/ Feed \/ RefreshSnapshot \/ RepeatDelta
    \/ Connect \/ ForcedReconnect \/ SessionEnds
    \/ ReadMessage

Spec == Init /\ [][Next]_vars

(* subscribe_loop reconnects for ever and consumes its permit; a session   *)
(* that comes up again and again with a message gets one of them read.     *)
Fairness == WF_vars(Connect) /\ WF_vars(ForcedReconnect) /\ SF_vars(ReadMessage)

FairSpec == Spec /\ Fairness

-----------------------------------------------------------------------------
(* The book that maybe_quote uses: it runs only after a message was        *)
(* applied, so a book that waits for its reset is not in use.              *)
Trusted == book.initialized /\ ~awaiting /\ ~resetFlag

Mirror == INSTANCE BookMirror WITH
    view <- IF Trusted THEN [id |-> book.lastNonce, levels |-> book.levels]
                       ELSE [id |-> -1, levels |-> <<>>]

(* Lost and repeated deltas, snapshots inside a session and reconnects     *)
(* never leave a quoting book that is not the exchange's after update      *)
(* last_nonce ("A gap means missed updates: the book is silently diverged  *)
(* and must be re-snapshotted", on_orderbook).                             *)
FollowsTheExchange == Mirror!Spec

(* A book that was given up is on its way to a reset: the deltas ignored   *)
(* meanwhile (awaiting_resnapshot) cannot be ignored for ever, and the     *)
(* permit of request_resnapshot is used up by the session it distrusts,    *)
(* not by one that starts clean.                                           *)
DistrustForcesReset ==
    /\ awaiting => reconnect \/ resetFlag
    /\ reconnect => up /\ awaiting

(* "must be re-snapshotted" (on_orderbook): a book that was given up is    *)
(* usable again in the end, however often sessions break.                  *)
BookIsRepaired == awaiting ~> Trusted
=============================================================================
