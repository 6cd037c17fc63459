-------------------------- MODULE LiveOrdersProofs --------------------------
(***************************************************************************)
(* TLAPS proofs about LiveOrders, for any set of slots, any number of orders *)
(* and any grace: types in every environment; in the one the code's        *)
(* comments assume (operations settle inside the grace, snapshots are      *)
(* complete and fresh, cancel-all succeeds) and without fills the keystone, *)
(* a slot never has two orders resting, whatever is overwritten, refused,  *)
(* rejected, lost or killed; in the same one with fills of any size, a     *)
(* slot is freed only of an order that is dead, or by a partial fill.      *)
(***************************************************************************)
EXTENDS LiveOrders, SequenceTheorems, TLAPS

(* The environment the comments of the code assume: operations settle and  *)
(* snapshots are applied inside the grace, snapshots list every order,     *)
(* cancel-all succeeds.                                                    *)
Prompt == ~SlowSender /\ ~SlowReads /\ ~CancelAllMayFail /\ MaxPartial = 0
Healthy == Prompt /\ FillSizes = {}

Named(op) ==
    /\ op.act # "none" => op.id \in Ids
    /\ op.act = "cancel" => op.size = 0
GoodEvent(e) == e.kind = "BindLive" => e.size \in Sizes

(* What types leave open: a real operation names an order and a cancel     *)
(* leaves nothing of it, a bind carries the size of a quote, and a sender  *)
(* that holds no batch holds no operation.                                 *)
ShapeInv ==
    /\ \A s \in Slots : Named(mailbox[s]) /\ Named(sender.batch[s])
    /\ \A s \in Slots : \A i \in 1 .. Len(events[s]) : GoodEvent(events[s][i])
    /\ sender.pc = "idle" => sender.batch = EmptyBatch

Clears(q, n) == \E i \in 1 .. Len(q) : q[i].kind = "ClearLive" /\ q[i].id = n
Binds(q, n) == \E i \in 1 .. Len(q) : q[i].kind = "BindLive" /\ q[i].id = n
About(q, n) == \E i \in 1 .. Len(q) : q[i].id = n

(* The slot holds its latest order c or none.                              *)
IdsOK(sl, c, mb, op, q) ==
    /\ sl.id \in {NoId, c} /\ mb.id <= c /\ op.id <= c
    /\ \A i \in 1 .. Len(q) : q[i].kind # "Fill" /\ q[i].id <= c

(* Only the order the slot holds may rest.                                 *)
RestOK(sl, c, bk) == \A n \in Ids : bk[n] > 0 => n = c /\ sl.id = c

(* A create that has not been answered is the slot's order, and nothing    *)
(* else has been said about it.                                            *)
CreateOK(sl, c, mb, pc, op, q, bk) ==
    /\ mb.act = "create" => mb.id = c /\ sl.id = c /\ op.id # c /\ ~About(q, c) /\ bk[c] = 0
    /\ op.act = "create" => op.id = c /\ sl.id = c /\ ~About(q, c) /\ (pc = "gate" => bk[c] = 0)

(* An accepted modify or cancel that has not been answered.                *)
LandedOK(sl, c, pc, op, q, bk) ==
    pc = "landed" =>
        /\ op.act = "modify" => op.id = c /\ sl.id = c /\ ~Clears(q, c)
        /\ op.act = "cancel" => bk[op.id] = 0

(* A ClearLive names a dead order; a BindLive finds the slot as it was     *)
(* when its operation was sent.                                            *)
EventsOK(sl, c, q, bk) ==
    \A i \in 1 .. Len(q) :
        /\ q[i].kind = "ClearLive" => bk[q[i].id] = 0
        /\ q[i].kind = "BindLive" =>
            /\ q[i].id = c /\ sl.id = c
            /\ \A j \in 1 .. i - 1 : q[j].kind = "ClearLive" => q[j].id # c

(* A slot with something under way is younger than the grace.              *)
YoungOK(sl, mb, op, q) == mb # NoOp \/ op # NoOp \/ q # <<>> => sl.age < Grace

SlotOK(sl, c, mb, pc, op, q, bk) ==
    /\ IdsOK(sl, c, mb, op, q) /\ RestOK(sl, c, bk) /\ CreateOK(sl, c, mb, pc, op, q, bk)
    /\ LandedOK(sl, c, pc, op, q, bk) /\ EventsOK(sl, c, q, bk) /\ YoungOK(sl, mb, op, q)

(* An order that rests but is missing in a snapshot v of age a landed      *)
(* after the fetch: its slot was touched since, or will be by the answer.  *)
SnapOK(sl, op, q, bk, v, a) ==
    /\ a < Grace
    /\ \A n \in Ids : bk[n] > 0 /\ v[n] = 0 =>
         sl.age <= a \/ (op.act = "create" /\ op.id = n) \/ Binds(q, n)

SlotInv(s) ==
    SlotOK(slots[s], created[s], mailbox[s], sender.pc, sender.batch[s], events[s], book[s])
SwapInv(s) ==
    swap.full =>
        SnapOK(slots[s], sender.batch[s], events[s], book[s], swap.view[s], swap.age)
PollInv(s) ==
    poller.pc = "fetched" =>
        SnapOK(slots[s], sender.batch[s], events[s], book[s], poller.snap[s], poller.age)

(* With fills a late BindLive may put an old order back into the slot, so  *)
(* less is true: what was cleared or filled in whole is gone for good ...  *)
Ends(e) == e.kind = "ClearLive" \/ (e.kind = "Fill" /\ e.size >= BaseSize)

Gone(c, mb, pc, op, bk, n) ==
    /\ n <= c /\ bk[n] = 0
    /\ mb.act = "create" => mb.id # n
    /\ pc = "gate" /\ op.act = "create" => op.id # n

BoundOK(sl, c, mb, op, q, bk) ==
    /\ sl.id <= c /\ mb.id <= c /\ op.id <= c
    /\ \A i \in 1 .. Len(q) : q[i].kind = "BindLive" => q[i].id <= c
    /\ \A n \in Ids : bk[n] > 0 => n <= c

FreshOK(mb, pc, op, bk) ==
    /\ mb.act = "create" => bk[mb.id] = 0 /\ op.id # mb.id
    /\ pc = "gate" /\ op.act = "create" => bk[op.id] = 0
    /\ pc = "landed" /\ op.act = "cancel" => bk[op.id] = 0

GoneOK(c, mb, pc, op, q, bk, u) ==
    /\ \A i \in 1 .. Len(q) : Ends(q[i]) => Gone(c, mb, pc, op, bk, q[i].id)
    /\ \A n \in Ids : u[n] >= BaseSize => Gone(c, mb, pc, op, bk, n)

(* A fill may be reported when the slot is old, an answer may not.         *)
SettlesOK(sl, mb, op, q) ==
    mb # NoOp \/ op # NoOp \/ (\E i \in 1 .. Len(q) : q[i].kind = "BindLive") => sl.age < Grace

WeakOK(sl, c, mb, pc, op, q, bk, u) ==
    /\ BoundOK(sl, c, mb, op, q, bk) /\ FreshOK(mb, pc, op, bk)
    /\ GoneOK(c, mb, pc, op, q, bk, u) /\ SettlesOK(sl, mb, op, q)

(* ... and a snapshot speaks of the order the slot holds.                  *)
HeldOK(sl, op, q, bk, v, a) ==
    /\ a < Grace
    /\ sl.id \in Ids /\ bk[sl.id] > 0 /\ v[sl.id] = 0 =>
         sl.age <= a \/ (op.act = "create" /\ op.id = sl.id) \/ Binds(q, sl.id)

WeakNow(s) ==
    WeakOK(slots[s], created[s], mailbox[s], sender.pc, sender.batch[s], events[s],
            book[s], unreported[s])
WeakInv(s) ==
    /\ WeakNow(s)
    /\ swap.full =>
         HeldOK(slots[s], sender.batch[s], events[s], book[s], swap.view[s], swap.age)
    /\ poller.pc = "fetched" =>
         HeldOK(slots[s], sender.batch[s], events[s], book[s], poller.snap[s], poller.age)

LiveInv ==
    /\ TypeOK /\ ShapeInv
    /\ Healthy => \A s \in Slots : SlotInv(s) /\ SwapInv(s) /\ PollInv(s)
    /\ Prompt => \A s \in Slots : WeakInv(s)

-----------------------------------------------------------------------------
(* LEMMAS ABOUT ONE SLOT                                                   *)

Typed(sl, c, mb, op, q, bk) ==
    /\ sl \in SlotType /\ c \in 0 .. MaxId
    /\ mb \in OpType /\ op \in OpType /\ Named(mb) /\ Named(op)
    /\ q \in Seq(EventType) /\ bk \in [Ids -> Sizes]

(* The bounds are positive.                                                *)
LEMMA Bounds == MaxId \in Nat \ {0} /\ BaseSize \in Nat \ {0} /\ Grace \in Nat \ {0}
BY BoundsAssumption DEF BoundsAssumption

(* What the parts of a slot are, spelt out.                                *)
LEMMA Shapes ==
    ASSUME NEW sl, NEW c, NEW mb, NEW op, NEW q, NEW bk, Typed(sl, c, mb, op, q, bk)
    PROVE  /\ sl.id \in 0 .. MaxId /\ sl.age \in 0 .. Grace /\ c \in 0 .. MaxId
           /\ mb.id \in 0 .. MaxId /\ (mb.act # "none" => mb.id \in Ids)
           /\ op.id \in 0 .. MaxId /\ (op.act # "none" => op.id \in Ids)
           /\ Len(q) \in Nat
           /\ \A i \in 1 .. Len(q) : q[i] \in EventType /\ q[i].id \in Ids
           /\ \A n \in Ids : bk[n] \in Nat
<1>1. Ids \cup {NoId} = 0 .. MaxId
  BY Bounds DEF Ids, NoId
<1>2. sl.id \in 0 .. MaxId /\ sl.age \in 0 .. Grace /\ c \in 0 .. MaxId
  BY <1>1 DEF Typed, SlotType
<1>3. /\ mb.id \in 0 .. MaxId /\ (mb.act # "none" => mb.id \in Ids)
      /\ op.id \in 0 .. MaxId /\ (op.act # "none" => op.id \in Ids)
  BY <1>1 DEF Typed, OpType, Named
<1>4. Len(q) \in Nat /\ \A i \in 1 .. Len(q) : q[i] \in EventType /\ q[i].id \in Ids
  <2>1. \A e \in EventType : e.id \in Ids
    BY DEF EventType
  <2>2. q \in Seq(EventType)
    BY DEF Typed
  <2>3. Len(q) \in Nat /\ \A i \in 1 .. Len(q) : q[i] \in EventType
    BY <2>2
  <2>4. QED
    BY <2>1, <2>3
<1>5. \A n \in Ids : bk[n] \in Nat
  BY Bounds DEF Typed, Sizes
<1>6. QED
  BY <1>2, <1>3, <1>4, <1>5

(* Orders that go (cancel-all, an orphan cancel, a kill) only help.        *)
LEMMA LessRests ==
    ASSUME NEW sl, NEW c, NEW mb, NEW pc, NEW op, NEW q, NEW bk, Typed(sl, c, mb, op, q, bk),
           SlotOK(sl, c, mb, pc, op, q, bk),
           NEW less \in [Ids -> Sizes], \A n \in Ids : less[n] > 0 => bk[n] > 0
    PROVE  /\ SlotOK(sl, c, mb, pc, op, q, less)
           /\ \A v, a : SnapOK(sl, op, q, bk, v, a) => SnapOK(sl, op, q, less, v, a)
<1>1. \A n \in Ids : bk[n] = 0 => less[n] = 0
  BY Shapes, Bounds DEF Sizes
<1>2. RestOK(sl, c, less)
  BY DEF SlotOK, RestOK
<1>3. CreateOK(sl, c, mb, pc, op, q, less)
  BY <1>1, Shapes DEF SlotOK, CreateOK
<1>4. LandedOK(sl, c, pc, op, q, less)
  BY <1>1, Shapes DEF SlotOK, LandedOK
<1>5. EventsOK(sl, c, q, less)
  BY <1>1, Shapes DEF SlotOK, EventsOK
<1>6. QED
  BY <1>2, <1>3, <1>4, <1>5 DEF SlotOK, SnapOK

(* A slot that keeps its order, and its age or a younger one.              *)
LEMMA TouchKeeps ==
    ASSUME NEW sl, NEW c, NEW mb, NEW pc, NEW op, NEW q, NEW bk, Typed(sl, c, mb, op, q, bk),
           SlotOK(sl, c, mb, pc, op, q, bk),
           NEW new \in SlotType, new.id = sl.id, new.age = sl.age \/ new.age = 0
    PROVE  /\ SlotOK(new, c, mb, pc, op, q, bk)
           /\ \A v : \A a \in Nat : SnapOK(sl, op, q, bk, v, a) => SnapOK(new, op, q, bk, v, a)
<1>1. sl.age \in Nat /\ Grace > 0 /\ Grace \in Nat
  BY Shapes, Bounds
<1>2. YoungOK(new, mb, op, q)
  BY <1>1 DEF SlotOK, YoungOK
<1>3. IdsOK(new, c, mb, op, q) /\ RestOK(new, c, bk) /\ CreateOK(new, c, mb, pc, op, q, bk)
  BY DEF SlotOK, IdsOK, RestOK, CreateOK
<1>4. LandedOK(new, c, pc, op, q, bk) /\ EventsOK(new, c, q, bk)
  BY DEF SlotOK, LandedOK, EventsOK
<1>5. \A v : \A a \in Nat : SnapOK(sl, op, q, bk, v, a) => SnapOK(new, op, q, bk, v, a)
  BY <1>1 DEF SnapOK
<1>6. QED
  BY <1>2, <1>3, <1>4, <1>5 DEF SlotOK

(* process_reconcile frees a slot only past the grace and unlisted.        *)
LEMMA ReconcileClears ==
    ASSUME NEW sl \in SlotType, sl.id # NoId, NEW v \in [Ids -> Sizes],
           ProcessReconcile(sl, v) = IdleSlot
    PROVE  sl.id \in Ids /\ v[sl.id] = 0 /\ ~(sl.age < Grace)
<1>1. sl.id \in Ids /\ sl.age \in Nat /\ Grace \in Nat
  BY Bounds DEF SlotType
<1>2. v[sl.id] \in Nat
  BY <1>1, Bounds DEF Sizes
<1>3. IdleSlot.id = NoId
  BY DEF IdleSlot
<1> DEFINE bound == BindLive(sl, sl.id, v[sl.id])
           missed == [sl EXCEPT !.miss = IF @ < MissingReconcileDebounce THEN @ + 1 ELSE @]
           over == sl.age >= Grace /\ sl.miss + 1 >= MissingReconcileDebounce
<1>4. bound.id = sl.id /\ missed.id = sl.id
  BY <1>1 DEF BindLive, Touch, SlotType
<1>5. IdleSlot = IF v[sl.id] > 0 THEN bound ELSE IF over THEN IdleSlot ELSE missed
  BY DEF ProcessReconcile
<1>6. IdleSlot # bound /\ IdleSlot # missed
  BY <1>3, <1>4
<1> HIDE DEF bound, missed, over
<1>7. ~ (v[sl.id] > 0) /\ over
  BY <1>5, <1>6
<1>8. QED
  BY <1>1, <1>2, <1>7 DEF over

(* process_reconcile on a slot that holds something: the slot is rebound,  *)
(* counts a miss, or is freed for good, its order being dead.              *)
LEMMA ReconcileFrees ==
    ASSUME NEW sl, NEW c, NEW mb, NEW pc, NEW op, NEW q, NEW bk, Typed(sl, c, mb, op, q, bk),
           SlotOK(sl, c, mb, pc, op, q, bk),
           NEW v \in [Ids -> Sizes], NEW a \in Nat, SnapOK(sl, op, q, bk, v, a),
           sl.id # NoId, ProcessReconcile(sl, v) = IdleSlot
    PROVE  /\ mb = NoOp /\ op = NoOp /\ q = <<>>
           /\ \A n \in Ids : bk[n] = 0
<1>1. sl.id \in Ids /\ sl.id = c
  BY Shapes DEF SlotOK, IdsOK, Ids, NoId
<1>4. v[sl.id] = 0 /\ ~ (sl.age < Grace)
  BY ReconcileClears DEF Typed
<1>5. ~ (sl.age < Grace)
  BY <1>4
<1>6. mb = NoOp /\ op = NoOp /\ q = <<>>
  BY <1>5 DEF SlotOK, YoungOK
<1>7. ASSUME NEW n \in Ids, bk[n] > 0 PROVE FALSE
  <2>1. n = sl.id
    BY <1>1, <1>7 DEF SlotOK, RestOK
  <2>2. ~Binds(q, n) /\ op.act # "create"
    BY <1>6 DEF Binds, NoOp
  <2>3. sl.age <= a /\ a < Grace
    BY <1>4, <1>7, <2>1, <2>2 DEF SnapOK
  <2>4. QED
    BY <1>5, <2>3, Shapes, Bounds
<1>8. QED
  BY <1>6, <1>7, Shapes

(* A slot with nothing under way and nothing resting may be idle.          *)
LEMMA IdleIsFine ==
    ASSUME NEW c, NEW mb, NEW pc, NEW op, NEW q, NEW bk, Typed(IdleSlot, c, mb, op, q, bk),
           mb.act # "create", mb.id <= c, op = NoOp, q = <<>>, \A n \in Ids : bk[n] = 0
    PROVE  /\ SlotOK(IdleSlot, c, mb, pc, op, q, bk)
           /\ \A v, a : a < Grace => SnapOK(IdleSlot, op, q, bk, v, a)
<1>1. IdleSlot.id = NoId /\ IdleSlot.age = 0 /\ op.act = "none" /\ op.id = 0 /\ Len(q) = 0
  BY DEF IdleSlot, NoOp, NoId
<1>2. IdsOK(IdleSlot, c, mb, op, q) /\ RestOK(IdleSlot, c, bk)
  BY <1>1, Shapes DEF IdsOK, RestOK
<1>3. CreateOK(IdleSlot, c, mb, pc, op, q, bk) /\ LandedOK(IdleSlot, c, pc, op, q, bk)
  BY <1>1 DEF CreateOK, LandedOK
<1>4. EventsOK(IdleSlot, c, q, bk) /\ YoungOK(IdleSlot, mb, op, q)
  BY <1>1, Bounds DEF EventsOK, YoungOK
<1>5. \A v, a : a < Grace => SnapOK(IdleSlot, op, q, bk, v, a)
  BY DEF SnapOK
<1>6. QED
  BY <1>2, <1>3, <1>4, <1>5 DEF SlotOK

(* The idle slot is a slot, and so is what process_reconcile makes of one. *)
LEMMA ReconcileType ==
    ASSUME NEW sl \in SlotType, NEW v \in [Ids -> Sizes]
    PROVE  /\ IdleSlot \in SlotType
           /\ ProcessReconcile(sl, v) \in SlotType
           /\ \/ ProcessReconcile(sl, v) = IdleSlot
              \/ /\ ProcessReconcile(sl, v).id = sl.id
                 /\ ProcessReconcile(sl, v).age \in {0, sl.age}
<1>1. IdleSlot \in SlotType
  BY Bounds DEF IdleSlot, SlotType, Statuses, Sizes, NoId, MissingReconcileDebounce
<1>2. ASSUME sl.id # NoId
      PROVE  LET b == BindLive(sl, sl.id, v[sl.id])
             IN  b \in SlotType /\ b.id = sl.id /\ b.age = 0
  <2>1. sl.id \in Ids /\ v[sl.id] \in Sizes
    BY <1>2 DEF SlotType, NoId
  <2> DEFINE z == 0
  <2>2. z \in 0 .. MissingReconcileDebounce /\ z \in 0 .. Grace
    BY Bounds DEF MissingReconcileDebounce
  <2> HIDE DEF z
  <2>3. BindLive(sl, sl.id, v[sl.id]) =
          [sl EXCEPT !.id = sl.id, !.size = v[sl.id], !.status = "Live", !.miss = z, !.age = z]
    BY DEF BindLive, Touch, z, SlotType
  <2>4. QED
    BY <2>1, <2>2, <2>3 DEF SlotType, Statuses, z
<1>3. LET m == [sl EXCEPT !.miss = IF @ < MissingReconcileDebounce THEN @ + 1 ELSE @]
      IN  m \in SlotType /\ m.id = sl.id /\ m.age = sl.age
  <2> DEFINE k == IF sl.miss < MissingReconcileDebounce THEN sl.miss + 1 ELSE sl.miss
  <2>1. k \in 0 .. MissingReconcileDebounce
    BY DEF SlotType, MissingReconcileDebounce
  <2> HIDE DEF k
  <2>2. [sl EXCEPT !.miss = IF @ < MissingReconcileDebounce THEN @ + 1 ELSE @]
          = [sl EXCEPT !.miss = k]
    BY DEF k
  <2>3. QED
    BY <2>1, <2>2 DEF SlotType
<1>4. QED
  BY <1>1, <1>2, <1>3 DEF ProcessReconcile

(* The slot after a reconcile, with the snapshot the poller may hold.      *)
LEMMA ReconcileKeeps ==
    ASSUME NEW sl, NEW c, NEW mb, NEW pc, NEW op, NEW q, NEW bk, Typed(sl, c, mb, op, q, bk),
           SlotOK(sl, c, mb, pc, op, q, bk),
           NEW v \in [Ids -> Sizes], NEW a \in Nat, SnapOK(sl, op, q, bk, v, a),
           NEW new, new = ProcessReconcile(sl, v)
    PROVE  /\ new \in SlotType
           /\ SlotOK(new, c, mb, pc, op, q, bk)
           /\ \A w : \A b \in Nat : SnapOK(sl, op, q, bk, w, b) => SnapOK(new, op, q, bk, w, b)
<1>1. sl \in SlotType
  BY DEF Typed
<1>2. CASE sl.id = NoId
  <2>1. new = sl
    BY <1>2 DEF ProcessReconcile
  <2>2. QED
    BY <1>1, <2>1
<1>3. CASE sl.id # NoId /\ new = IdleSlot
  <2>1. mb = NoOp /\ op = NoOp /\ q = <<>> /\ \A n \in Ids : bk[n] = 0
    BY <1>3, ReconcileFrees
  <2>2. Typed(IdleSlot, c, mb, op, q, bk)
    BY <1>1, ReconcileType DEF Typed
  <2>3. mb.act # "create" /\ mb.id <= c
    BY <2>1 DEF NoOp, SlotOK, IdsOK
  <2>4. /\ SlotOK(IdleSlot, c, mb, pc, op, q, bk)
        /\ \A w, b : b < Grace => SnapOK(IdleSlot, op, q, bk, w, b)
    BY <2>1, <2>2, <2>3, IdleIsFine
  <2>5. QED
    BY <1>1, <1>3, <2>4, ReconcileType DEF SnapOK
<1>4. CASE new # IdleSlot
  <2>1. new \in SlotType /\ new.id = sl.id /\ (new.age = sl.age \/ new.age = 0)
    BY <1>1, <1>4, ReconcileType
  <2>2. QED
    BY <2>1, TouchKeeps
<1>5. QED
  BY <1>2, <1>3, <1>4

(* Draining one event.                                                     *)
LEMMA DrainKeeps ==
    ASSUME NEW sl, NEW c, NEW mb, NEW pc, NEW op, NEW q, NEW bk, Typed(sl, c, mb, op, q, bk),
           SlotOK(sl, c, mb, pc, op, q, bk), q # <<>>,
           NEW new \in SlotType, new = ApplyEvent(sl, Head(q))
    PROVE  /\ SlotOK(new, c, mb, pc, op, Tail(q), bk)
           /\ \A v : \A a \in Nat :
                SnapOK(sl, op, q, bk, v, a) => SnapOK(new, op, Tail(q), bk, v, a)
<1>1. PICK e, t : e = Head(q) /\ t = Tail(q)
  OBVIOUS
<1>2. q \in Seq(EventType)
  BY DEF Typed
<1>3. /\ t \in Seq(EventType) /\ Len(t) \in Nat /\ Len(t) = Len(q) - 1 /\ e = q[1] /\ 1 \in 1 .. Len(q)
      /\ \A i \in 1 .. Len(t) : t[i] = q[i + 1] /\ i + 1 \in 1 .. Len(q)
  BY <1>1, <1>2
<1>4. e.kind \in {"BindLive", "ClearLive", "Fill"} /\ e.id \in Ids /\ e.kind # "Fill"
  BY <1>3, Shapes DEF EventType, SlotOK, IdsOK
<1>5. Typed(sl, c, mb, op, t, bk)
  BY <1>3 DEF Typed
<1>6. \A n : (About(t, n) => About(q, n)) /\ (Clears(t, n) => Clears(q, n))
  BY <1>3 DEF About, Clears
<1>7. SlotOK(sl, c, mb, pc, op, t, bk)
  <2>1. IdsOK(sl, c, mb, op, t)
    BY <1>3 DEF SlotOK, IdsOK
  <2>2. CreateOK(sl, c, mb, pc, op, t, bk) /\ LandedOK(sl, c, pc, op, t, bk)
    BY <1>6 DEF SlotOK, CreateOK, LandedOK
  <2>3. EventsOK(sl, c, t, bk)
    <3> SUFFICES ASSUME NEW i \in 1 .. Len(t)
                 PROVE  /\ t[i].kind = "ClearLive" => bk[t[i].id] = 0
                        /\ t[i].kind = "BindLive" =>
                             /\ t[i].id = c /\ sl.id = c
                             /\ \A j \in 1 .. i - 1 : t[j].kind = "ClearLive" => t[j].id # c
      BY DEF EventsOK
    <3>1. t[i] = q[i + 1] /\ i + 1 \in 1 .. Len(q)
      BY <1>3
    <3>2. \A j \in 1 .. i - 1 : t[j] = q[j + 1] /\ j + 1 \in 1 .. (i + 1) - 1
      BY <1>3
    <3>3. QED
      BY <3>1, <3>2 DEF SlotOK, EventsOK
  <2>4. YoungOK(sl, mb, op, t)
    BY <1>3 DEF SlotOK, YoungOK
  <2>5. QED
    BY <2>1, <2>2, <2>3, <2>4 DEF SlotOK
<1>8. CASE e.kind = "BindLive"
  <2>1. new = BindLive(sl, e.id, e.size)
    BY <1>1, <1>8 DEF ApplyEvent
  <2>2. e.id = c /\ sl.id = c /\ new.id = c /\ new.age = 0
    BY <1>3, <1>8, <2>1 DEF SlotOK, EventsOK, BindLive, Touch, Typed, SlotType
  <2>3. SlotOK(new, c, mb, pc, op, t, bk)
    BY <1>5, <1>7, <2>2, TouchKeeps
  <2>4. ASSUME NEW v, NEW a \in Nat, SnapOK(sl, op, q, bk, v, a) PROVE SnapOK(new, op, t, bk, v, a)
    BY <2>2, <2>4 DEF SnapOK
  <2>5. QED
    BY <1>1, <2>2, <2>3, <2>4
<1>9. CASE e.kind = "ClearLive" /\ sl.id # e.id
  <2>1. new = sl
    BY <1>1, <1>4, <1>9 DEF ApplyEvent, ClearLive, NoId, Ids
  <2>2. ASSUME NEW n \in Ids, Binds(q, n) PROVE Binds(t, n)
    <3>1. PICK i \in 1 .. Len(q) : q[i].kind = "BindLive" /\ q[i].id = n
      BY <2>2 DEF Binds
    <3>2. i # 1
      BY <1>3, <1>9, <3>1
    <3>3. i - 1 \in 1 .. Len(t) /\ t[i - 1] = q[i]
      BY <1>3, <3>2
    <3>4. QED
      BY <3>1, <3>3 DEF Binds
  <2>3. QED
    BY <1>1, <1>7, <2>1, <2>2 DEF SnapOK
<1>10. CASE e.kind = "ClearLive" /\ sl.id = e.id
  <2>1. new = IdleSlot
    BY <1>1, <1>10 DEF ApplyEvent, ClearLive
  <2>2. sl.id = c /\ c \in Ids /\ bk[c] = 0 /\ About(q, c) /\ Clears(q, c)
    BY <1>3, <1>4, <1>10 DEF SlotOK, IdsOK, EventsOK, About, Clears, NoId, Ids
  <2>3. \A n \in Ids : bk[n] = 0
    BY <2>2, Shapes DEF SlotOK, RestOK
  <2>4. mb.act # "create" /\ op.act # "create"
    BY <2>2 DEF SlotOK, CreateOK
  <2>5. \A i \in 1 .. Len(t) : t[i].kind # "BindLive"
    <3> SUFFICES ASSUME NEW i \in 1 .. Len(t), t[i].kind = "BindLive" PROVE FALSE
      OBVIOUS
    <3>1. t[i] = q[i + 1] /\ i + 1 \in 1 .. Len(q) /\ 1 \in 1 .. (i + 1) - 1
      BY <1>3
    <3>2. QED
      BY <1>3, <1>10, <2>2, <3>1 DEF SlotOK, EventsOK
  <2>6. IdleSlot.id = NoId /\ IdleSlot.age = 0
    BY DEF IdleSlot
  <2>7. IdsOK(IdleSlot, c, mb, op, t)
    BY <1>7, <2>6 DEF SlotOK, IdsOK
  <2>8. RestOK(IdleSlot, c, bk)
    BY <2>3 DEF RestOK
  <2>9. CreateOK(IdleSlot, c, mb, pc, op, t, bk)
    BY <2>4 DEF CreateOK
  <2>10. LandedOK(IdleSlot, c, pc, op, t, bk)
    BY <2>2 DEF SlotOK, LandedOK
  <2>11. EventsOK(IdleSlot, c, t, bk)
    BY <1>7, <2>5 DEF SlotOK, EventsOK
  <2>12. YoungOK(IdleSlot, mb, op, t)
    BY <2>6, Bounds DEF YoungOK
  <2>13. \A v, a : SnapOK(sl, op, q, bk, v, a) => SnapOK(IdleSlot, op, t, bk, v, a)
    BY <2>3 DEF SnapOK
  <2>14. QED
    BY <1>1, <2>1, <2>3, <2>4, <2>7, <2>8, <2>9, <2>10, <2>11, <2>12, <2>13 DEF SlotOK
<1>11. QED
  BY <1>4, <1>8, <1>9, <1>10

(* What appending one event does to a queue.                               *)
LEMMA Appended ==
    ASSUME NEW q \in Seq(EventType), NEW e \in EventType, NEW r, r = Append(q, e)
    PROVE  /\ r \in Seq(EventType) /\ r # <<>> /\ Len(q) \in Nat /\ Len(r) = Len(q) + 1
           /\ \A i \in 1 .. Len(q) : i \in 1 .. Len(r) /\ r[i] = q[i]
           /\ \A i \in 1 .. Len(r) : i \in 1 .. Len(q) \/ (i = Len(r) /\ r[i] = e)
           /\ \A n : About(r, n) => About(q, n) \/ e.id = n
           /\ \A n : Binds(q, n) => Binds(r, n)
           /\ e.kind = "BindLive" => Binds(r, e.id)
<1>1. /\ r \in Seq(EventType) /\ r # <<>> /\ Len(q) \in Nat /\ Len(r) = Len(q) + 1
      /\ \A i \in 1 .. Len(q) : i \in 1 .. Len(r) /\ r[i] = q[i]
      /\ r[Len(r)] = e /\ Len(r) \in 1 .. Len(r)
  OBVIOUS
<1>2. \A i \in 1 .. Len(r) : i \in 1 .. Len(q) \/ (i = Len(r) /\ r[i] = e)
  BY <1>1
<1>3. /\ \A n : About(r, n) => About(q, n) \/ e.id = n
      /\ \A n : Binds(q, n) => Binds(r, n)
      /\ e.kind = "BindLive" => Binds(r, e.id)
  BY <1>1, <1>2 DEF About, Binds
<1>4. QED
  BY <1>1, <1>2, <1>3

(* An operation that is gone before it was sent constrains nothing.        *)
LEMMA DropMail ==
    ASSUME NEW sl, NEW c, NEW mb, NEW pc, NEW op, NEW q, NEW bk, Typed(sl, c, mb, op, q, bk),
           SlotOK(sl, c, mb, pc, op, q, bk)
    PROVE  SlotOK(sl, c, NoOp, pc, op, q, bk)
<1>1. NoOp.act = "none" /\ NoOp.id = 0 /\ 0 <= c
  BY Shapes DEF NoOp, NoId
<1>2. QED
  BY <1>1 DEF SlotOK, IdsOK, CreateOK, YoungOK

(* mark_pending on the operation collected for the slot.                   *)
LEMMA CollectKeeps ==
    ASSUME NEW sl, NEW c, NEW mb, NEW pc, NEW op, NEW q, NEW bk, Typed(sl, c, mb, op, q, bk),
           SlotOK(sl, c, mb, pc, op, q, bk),
           NEW o \in OpType, NEW d,
           \/ o = NoOp /\ d = c
           \/ o.act = "create" /\ sl.id = NoId /\ d = c + 1 /\ o.id = d
           \/ o.act \in {"modify", "cancel"} /\ sl.id \in Ids /\ o.id = sl.id /\ d = c,
           NEW new, new = MarkPending(sl, o)
    PROVE  /\ SlotOK(new, d, o, pc, op, q, bk)
           /\ \A v : \A a \in Nat : SnapOK(sl, op, q, bk, v, a) => SnapOK(new, op, q, bk, v, a)
<1>1. CASE o = NoOp /\ d = c
  <2>1. new = sl
    BY <1>1 DEF MarkPending, NoOp
  <2>2. QED
    BY <1>1, <2>1, DropMail
<1>2. CASE o.act = "create" /\ sl.id = NoId /\ d = c + 1 /\ o.id = d
  <2>1. new.id = d /\ new.age = 0
    BY <1>2 DEF MarkPending, Touch, Typed, SlotType
  <2>2. d \in Nat /\ c \in Nat /\ c < d /\ d # c /\ d \in Ids
    BY <1>2, Shapes DEF OpType, Ids, NoId
  <2>3. \A n \in Ids : bk[n] = 0
    <3>1. \A n \in Ids : ~ (bk[n] > 0)
      BY <1>2 DEF SlotOK, RestOK, Ids, NoId
    <3>2. QED
      BY <3>1, Shapes
  <2>4. /\ \A i \in 1 .. Len(q) : q[i].kind # "BindLive" /\ q[i].id \in Ids /\ q[i].id < d
        /\ \A i \in 1 .. Len(q) : q[i].kind # "Fill" /\ q[i].id <= d
    BY <1>2, <2>2, Shapes DEF SlotOK, IdsOK, EventsOK, Ids, NoId
  <2>5. op.id < d /\ op.id <= d /\ ~About(q, d)
    <3>1. op.id <= c /\ op.id \in Nat
      BY Shapes DEF SlotOK, IdsOK
    <3>2. ASSUME NEW i \in 1 .. Len(q), q[i].id = d PROVE FALSE
      BY <2>2, <2>4, <3>2
    <3>3. QED
      BY <2>2, <3>1, <3>2 DEF About
  <2>6. op.act # "create" /\ (pc = "landed" => op.act # "modify")
    BY <1>2, Shapes DEF SlotOK, CreateOK, LandedOK, Ids, NoId
  <2>7. IdsOK(new, d, o, op, q) /\ RestOK(new, d, bk)
    BY <1>2, <2>1, <2>2, <2>3, <2>4, <2>5 DEF IdsOK, RestOK
  <2>8. CreateOK(new, d, o, pc, op, q, bk)
    BY <1>2, <2>1, <2>2, <2>3, <2>5, <2>6, Shapes DEF CreateOK
  <2>9. LandedOK(new, d, pc, op, q, bk)
    BY <2>6 DEF LandedOK, SlotOK
  <2>10. EventsOK(new, d, q, bk) /\ YoungOK(new, o, op, q)
    BY <2>1, <2>3, <2>4, Bounds DEF EventsOK, YoungOK
  <2>11. \A v : \A a \in Nat : SnapOK(sl, op, q, bk, v, a) => SnapOK(new, op, q, bk, v, a)
    BY <2>3 DEF SnapOK
  <2>12. QED
    BY <2>7, <2>8, <2>9, <2>10, <2>11 DEF SlotOK
<1>3. CASE o.act \in {"modify", "cancel"} /\ sl.id \in Ids /\ o.id = sl.id /\ d = c
  <2>1. new.id = sl.id /\ new.age = 0
    BY <1>3 DEF MarkPending, Touch, Typed, SlotType
  <2>2. sl.id = c /\ c \in Nat /\ Grace > 0 /\ o.act # "create"
    BY <1>3, Shapes, Bounds DEF SlotOK, IdsOK, Ids, NoId
  <2>3. IdsOK(new, c, o, op, q) /\ RestOK(new, c, bk)
    BY <1>3, <2>1, <2>2 DEF SlotOK, IdsOK, RestOK
  <2>4. CreateOK(new, c, o, pc, op, q, bk) /\ LandedOK(new, c, pc, op, q, bk)
    BY <2>1, <2>2 DEF SlotOK, CreateOK, LandedOK
  <2>5. EventsOK(new, c, q, bk) /\ YoungOK(new, o, op, q)
    BY <2>1, <2>2 DEF SlotOK, EventsOK, YoungOK
  <2>6. \A v : \A a \in Nat : SnapOK(sl, op, q, bk, v, a) => SnapOK(new, op, q, bk, v, a)
    BY <2>1 DEF SnapOK
  <2>7. QED
    BY <1>3, <2>3, <2>4, <2>5, <2>6 DEF SlotOK
<1>4. QED
  BY <1>1, <1>2, <1>3

(* The sender takes the mailbox.                                           *)
LEMMA TakeKeeps ==
    ASSUME NEW sl, NEW c, NEW mb, NEW pc, NEW q, NEW bk, Typed(sl, c, mb, NoOp, q, bk),
           SlotOK(sl, c, mb, pc, NoOp, q, bk)
    PROVE  /\ SlotOK(sl, c, NoOp, "gate", mb, q, bk)
           /\ \A v, a : SnapOK(sl, NoOp, q, bk, v, a) => SnapOK(sl, mb, q, bk, v, a)
<1>1. NoOp.act = "none" /\ NoOp.id = 0 /\ 0 <= c
  BY Shapes DEF NoOp, NoId
<1>2. IdsOK(sl, c, NoOp, mb, q) /\ YoungOK(sl, NoOp, mb, q)
  BY <1>1 DEF SlotOK, IdsOK, YoungOK
<1>3. CreateOK(sl, c, NoOp, "gate", mb, q, bk) /\ LandedOK(sl, c, "gate", mb, q, bk)
  BY <1>1 DEF SlotOK, CreateOK, LandedOK
<1>4. \A v, a : SnapOK(sl, NoOp, q, bk, v, a) => SnapOK(sl, mb, q, bk, v, a)
  BY <1>1 DEF SnapOK
<1>5. QED
  BY <1>2, <1>3, <1>4 DEF SlotOK

(* A create that was refused before the sender took it.                    *)
LEMMA RefuseKeeps ==
    ASSUME NEW sl, NEW c, NEW mb, NEW pc, NEW q, NEW bk, Typed(sl, c, mb, NoOp, q, bk),
           SlotOK(sl, c, mb, pc, NoOp, q, bk), mb.act = "create",
           NEW r, r = Append(q, ClearEvent(mb)), ClearEvent(mb) \in EventType
    PROVE  /\ SlotOK(sl, c, NoOp, pc, NoOp, r, bk)
           /\ \A v, a : SnapOK(sl, NoOp, q, bk, v, a) => SnapOK(sl, NoOp, r, bk, v, a)
<1>1. NoOp.act = "none" /\ NoOp.id = 0 /\ 0 <= c /\ c \in Nat
  BY Shapes DEF NoOp, NoId
<1>2. PICK e : e = ClearEvent(mb)
  OBVIOUS
<1>3. e.kind = "ClearLive" /\ e.id = mb.id /\ e \in EventType /\ r = Append(q, e) /\ q \in Seq(EventType)
  BY <1>2 DEF ClearEvent, Typed
<1>4. mb.id = c /\ sl.id = c /\ ~About(q, c) /\ bk[c] = 0
  BY DEF SlotOK, CreateOK
<1>5. \A i \in 1 .. Len(q) : q[i].kind # "BindLive"
  BY <1>4 DEF SlotOK, EventsOK, About
<1>6. \A i \in 1 .. Len(r) : (i \in 1 .. Len(q) /\ r[i] = q[i]) \/ r[i] = e
  BY <1>3, Appended
<1>7. IdsOK(sl, c, NoOp, NoOp, r)
  BY <1>1, <1>3, <1>4, <1>6 DEF SlotOK, IdsOK
<1>8. CreateOK(sl, c, NoOp, pc, NoOp, r, bk) /\ LandedOK(sl, c, pc, NoOp, r, bk)
  BY <1>1 DEF CreateOK, LandedOK
<1>9. EventsOK(sl, c, r, bk)
  BY <1>3, <1>4, <1>5, <1>6 DEF SlotOK, EventsOK
<1>10. YoungOK(sl, NoOp, NoOp, r)
  BY <1>1 DEF SlotOK, YoungOK
<1>11. \A v, a : SnapOK(sl, NoOp, q, bk, v, a) => SnapOK(sl, NoOp, r, bk, v, a)
  BY <1>3, Appended DEF SnapOK
<1>12. QED
  BY <1>7, <1>8, <1>9, <1>10, <1>11 DEF SlotOK

(* The sender is done with an operation that said nothing to the slot:     *)
(* nothing rests, or it was neither in the exchange nor a create.          *)
LEMMA SilentKeeps ==
    ASSUME NEW sl, NEW c, NEW mb, NEW pc, NEW op, NEW q, NEW bk, Typed(sl, c, mb, op, q, bk),
           SlotOK(sl, c, mb, pc, op, q, bk),
           op.act # "create" \/ \A n \in Ids : bk[n] = 0
    PROVE  /\ SlotOK(sl, c, mb, "idle", NoOp, q, bk)
           /\ \A v, a : SnapOK(sl, op, q, bk, v, a) => SnapOK(sl, NoOp, q, bk, v, a)
<1>1. NoOp.act = "none" /\ NoOp.id = 0 /\ 0 <= c /\ c \in Nat
  BY Shapes DEF NoOp, NoId
<1>2. mb.act = "create" => c # 0
  BY Shapes DEF SlotOK, CreateOK, Ids
<1>3. IdsOK(sl, c, mb, NoOp, q) /\ YoungOK(sl, mb, NoOp, q)
  BY <1>1 DEF SlotOK, IdsOK, YoungOK
<1>4. CreateOK(sl, c, mb, "idle", NoOp, q, bk) /\ LandedOK(sl, c, "idle", NoOp, q, bk)
  BY <1>1, <1>2 DEF SlotOK, CreateOK, LandedOK
<1>5. \A v, a : SnapOK(sl, op, q, bk, v, a) => SnapOK(sl, NoOp, q, bk, v, a)
  BY Shapes DEF SnapOK
<1>6. QED
  BY <1>3, <1>4, <1>5 DEF SlotOK

(* The sender answers an operation with one event: ClearLive for a create  *)
(* that never reached the exchange or a cancel that did, BindLive for a    *)
(* create or a modify that did.                                            *)
LEMMA AnswerKeeps ==
    ASSUME NEW sl, NEW c, NEW mb, NEW pc, NEW op, NEW q, NEW bk, Typed(sl, c, mb, op, q, bk),
           SlotOK(sl, c, mb, pc, op, q, bk), op.act # "none",
           NEW e \in EventType, e.id = op.id,
           \/ e.kind = "ClearLive" /\ pc = "gate" /\ op.act = "create"
           \/ e.kind = "ClearLive" /\ pc = "landed" /\ op.act = "cancel"
           \/ e.kind = "BindLive" /\ pc = "landed" /\ op.act \in {"create", "modify"},
           NEW r, r = Append(q, e)
    PROVE  /\ SlotOK(sl, c, mb, "idle", NoOp, r, bk)
           /\ \A v, a : SnapOK(sl, op, q, bk, v, a) => SnapOK(sl, NoOp, r, bk, v, a)
<1>1. NoOp.act = "none" /\ NoOp.id = 0 /\ 0 <= c /\ c \in Nat /\ op # NoOp
  BY Shapes DEF NoOp, NoId
<1>2. q \in Seq(EventType) /\ op.id \in Ids
  BY Shapes DEF Typed
<1>3. /\ Len(q) \in Nat /\ Len(r) = Len(q) + 1
      /\ \A i \in 1 .. Len(q) : i \in 1 .. Len(r) /\ r[i] = q[i]
      /\ \A i \in 1 .. Len(r) : i \in 1 .. Len(q) \/ (i = Len(r) /\ r[i] = e)
  BY <1>2, Appended
<1>4. e.kind = "ClearLive" => bk[op.id] = 0
  BY DEF SlotOK, CreateOK, LandedOK
<1>5. e.kind = "BindLive" \/ op.act = "create" => op.id = c /\ sl.id = c /\ mb.act # "create"
  BY DEF SlotOK, CreateOK, LandedOK
<1>6. e.kind = "BindLive" => \A i \in 1 .. Len(q) : q[i].kind = "ClearLive" => q[i].id # c
  BY DEF SlotOK, CreateOK, LandedOK, About, Clears
<1>7. e.kind = "ClearLive" /\ op.act = "create" => \A n \in Ids : bk[n] = 0
  BY <1>4, <1>5, Shapes DEF SlotOK, RestOK
<1>8. IdsOK(sl, c, mb, NoOp, r)
  BY <1>1, <1>3 DEF SlotOK, IdsOK
<1>9. mb.act = "create" => c # 0 /\ op.id # c /\ ~About(q, c)
  BY Shapes DEF SlotOK, CreateOK, Ids
<1>10. CreateOK(sl, c, mb, "idle", NoOp, r, bk)
  <2>1. mb.act = "create" => ~About(r, c)
    BY <1>2, <1>9, Appended
  <2>2. QED
    BY <1>1, <1>9, <2>1 DEF SlotOK, CreateOK
<1>11. LandedOK(sl, c, "idle", NoOp, r, bk)
  BY DEF LandedOK
<1>12. EventsOK(sl, c, r, bk)
  <2> SUFFICES ASSUME NEW i \in 1 .. Len(r)
               PROVE  /\ r[i].kind = "ClearLive" => bk[r[i].id] = 0
                      /\ r[i].kind = "BindLive" =>
                           /\ r[i].id = c /\ sl.id = c
                           /\ \A j \in 1 .. i - 1 : r[j].kind = "ClearLive" => r[j].id # c
    BY DEF EventsOK
  <2>1. CASE i \in 1 .. Len(q)
    <3>1. r[i] = q[i] /\ \A j \in 1 .. i - 1 : r[j] = q[j] /\ j \in 1 .. Len(q)
      BY <1>3, <2>1
    <3>2. QED
      BY <2>1, <3>1 DEF SlotOK, EventsOK
  <2>2. CASE i = Len(r) /\ r[i] = e
    <3>1. \A j \in 1 .. i - 1 : r[j] = q[j] /\ j \in 1 .. Len(q)
      BY <1>3, <2>2
    <3>2. QED
      BY <1>4, <1>5, <1>6, <2>2, <3>1
  <2>3. QED
    BY <1>3, <2>1, <2>2
<1>13. YoungOK(sl, mb, NoOp, r)
  BY <1>1 DEF SlotOK, YoungOK
<1>14. \A v, a : SnapOK(sl, op, q, bk, v, a) => SnapOK(sl, NoOp, r, bk, v, a)
  <2>1. (\A n : Binds(q, n) => Binds(r, n)) /\ (e.kind = "BindLive" => Binds(r, op.id))
    BY <1>2, Appended
  <2>2. QED
    BY <1>7, <2>1, Shapes DEF SnapOK
<1>15. QED
  BY <1>8, <1>10, <1>11, <1>12, <1>13, <1>14 DEF SlotOK

(* The exchange takes the operation.                                       *)
LEMMA AcceptKeeps ==
    ASSUME NEW sl, NEW c, NEW mb, NEW op, NEW q, NEW bk, Typed(sl, c, mb, op, q, bk),
           SlotOK(sl, c, mb, "gate", op, q, bk),
           op.act = "modify" => bk[op.id] > 0,
           NEW new, new = IF op.act = "none" THEN bk ELSE [bk EXCEPT ![op.id] = op.size]
    PROVE  /\ SlotOK(sl, c, mb, "landed", op, q, new)
           /\ \A v, a : SnapOK(sl, op, q, bk, v, a) => SnapOK(sl, op, q, new, v, a)
<1>1. op.act \in Actions /\ c \in Nat
  BY Shapes DEF Typed, OpType
<1>2. CASE op.act = "none"
  BY <1>2 DEF SlotOK, CreateOK, LandedOK
<1>3. CASE op.act # "none"
  <2>1. op.id \in Ids /\ \A n \in Ids : new[n] = IF n = op.id THEN op.size ELSE bk[n]
    BY <1>3, Shapes DEF Typed
  <2>2. CASE op.act = "create"
    <3>1. op.id = c /\ sl.id = c /\ ~About(q, c) /\ bk[c] = 0 /\ mb.act # "create"
      BY <2>2 DEF SlotOK, CreateOK
    <3>2. RestOK(sl, c, new) /\ CreateOK(sl, c, mb, "landed", op, q, new)
      BY <2>1, <2>2, <3>1 DEF SlotOK, RestOK, CreateOK
    <3>3. LandedOK(sl, c, "landed", op, q, new)
      BY <2>2 DEF LandedOK
    <3>4. EventsOK(sl, c, q, new)
      BY <2>1, <3>1, Shapes DEF SlotOK, EventsOK, About
    <3>5. \A v, a : SnapOK(sl, op, q, bk, v, a) => SnapOK(sl, op, q, new, v, a)
      BY <2>1, <2>2 DEF SnapOK
    <3>6. QED
      BY <3>2, <3>3, <3>4, <3>5 DEF SlotOK
  <2>3. CASE op.act = "modify"
    <3>1. op.id = c /\ sl.id = c /\ bk[c] > 0 /\ mb.act # "create"
      BY <2>1, <2>3 DEF SlotOK, RestOK, CreateOK
    <3>2. \A i \in 1 .. Len(q) : q[i].kind = "ClearLive" => q[i].id # c
      BY <3>1, <2>1, Shapes DEF SlotOK, EventsOK
    <3>3. RestOK(sl, c, new) /\ CreateOK(sl, c, mb, "landed", op, q, new)
      BY <2>1, <2>3, <3>1 DEF SlotOK, RestOK, CreateOK
    <3>4. LandedOK(sl, c, "landed", op, q, new)
      BY <2>3, <3>1, <3>2 DEF LandedOK, Clears
    <3>5. EventsOK(sl, c, q, new)
      BY <2>1, <3>1, <3>2, Shapes DEF SlotOK, EventsOK
    <3>6. \A v, a : SnapOK(sl, op, q, bk, v, a) => SnapOK(sl, op, q, new, v, a)
      BY <2>1, <3>1 DEF SnapOK
    <3>7. QED
      BY <3>3, <3>4, <3>5, <3>6 DEF SlotOK
  <2>4. CASE op.act = "cancel"
    <3>1. op.size = 0
      BY <2>4 DEF Typed, Named
    <3>2. \A n \in Ids : (new[n] > 0 => bk[n] > 0) /\ (bk[n] = 0 => new[n] = 0)
      BY <2>1, <3>1, Shapes
    <3>3. RestOK(sl, c, new)
      BY <3>2 DEF SlotOK, RestOK
    <3>4. CreateOK(sl, c, mb, "landed", op, q, new)
      BY <3>2, <2>4, Shapes DEF SlotOK, CreateOK
    <3>5. LandedOK(sl, c, "landed", op, q, new)
      BY <2>1, <2>4, <3>1 DEF LandedOK
    <3>6. EventsOK(sl, c, q, new)
      BY <3>2, Shapes DEF SlotOK, EventsOK
    <3>7. \A v, a : SnapOK(sl, op, q, bk, v, a) => SnapOK(sl, op, q, new, v, a)
      BY <3>2 DEF SnapOK
    <3>8. QED
      BY <3>3, <3>4, <3>5, <3>6, <3>7 DEF SlotOK
  <2>5. QED
    BY <1>1, <1>3, <2>2, <2>3, <2>4 DEF Actions
<1>4. QED
  BY <1>2, <1>3

(* Time passes while nothing waits past the grace.                         *)
LEMMA TickKeeps ==
    ASSUME NEW sl, NEW c, NEW mb, NEW pc, NEW op, NEW q, NEW bk, Typed(sl, c, mb, op, q, bk),
           SlotOK(sl, c, mb, pc, op, q, bk),
           mb # NoOp \/ op # NoOp \/ q # <<>> => sl.age + 1 < Grace,
           NEW new, new = IF sl.id = NoId THEN sl ELSE [sl EXCEPT !.age = Older(@)]
    PROVE  /\ new \in SlotType
           /\ SlotOK(new, c, mb, pc, op, q, bk)
           /\ \A v : \A a \in Nat : SnapOK(sl, op, q, bk, v, a) /\ a + 1 < Grace
                => SnapOK(new, op, q, bk, v, Older(a))
<1>1. sl.age \in Nat /\ sl.age <= Grace /\ Grace \in Nat /\ Grace > 0
  BY Shapes, Bounds
<1>2. PICK g : g = IF sl.id = NoId THEN sl.age ELSE Older(sl.age)
  OBVIOUS
<1>3. g \in 0 .. Grace /\ g <= sl.age + 1
  BY <1>1, <1>2 DEF Older
<1>4. new = [sl EXCEPT !.age = g]
  BY <1>2 DEF Typed, SlotType
<1>5. new \in SlotType /\ new.id = sl.id /\ new.age = g
  BY <1>3, <1>4 DEF Typed, SlotType
<1>6. YoungOK(new, mb, op, q)
  BY <1>1, <1>3, <1>5 DEF YoungOK
<1>7. SlotOK(new, c, mb, pc, op, q, bk)
  BY <1>5, <1>6 DEF SlotOK, IdsOK, RestOK, CreateOK, LandedOK, EventsOK
<1>8. ASSUME NEW v, NEW a \in Nat, SnapOK(sl, op, q, bk, v, a), a + 1 < Grace
      PROVE  SnapOK(new, op, q, bk, v, Older(a))
  <2>1. Older(a) = a + 1 /\ a + 1 < Grace
    BY <1>1, <1>8 DEF Older
  <2>2. sl.age <= a => new.age <= a + 1
    BY <1>1, <1>3, <1>5
  <2>3. QED
    BY <1>8, <2>1, <2>2 DEF SnapOK
<1>9. QED
  BY <1>5, <1>7, <1>8

-----------------------------------------------------------------------------
(* TYPES                                                                   *)

PollerType == [pc : PollerPcs, snap : View, age : 0 .. Grace, todo : SUBSET Orders]
SenderType == [pc : SenderPcs, batch : Batch]

(* The constants of the model have their types.                            *)
LEMMA IdleTypes ==
    /\ IdleSlot \in SlotType /\ NoOp \in OpType /\ Named(NoOp)
    /\ EmptyBatch \in Batch /\ NoOrders \in View /\ NoEvents \in EventQueues
    /\ IdleSender \in SenderType /\ NoSnapshot \in Snapshot /\ IdlePoller \in PollerType
    /\ \A s \in Slots : EmptyBatch[s] = NoOp /\ NoEvents[s] = <<>>
    /\ \A s \in Slots, n \in Ids : NoOrders[s][n] = 0
<1>1. 0 \in Sizes /\ 0 \in 0 .. Grace
  BY Bounds DEF Sizes
<1>2. IdleSlot \in SlotType
  BY <1>1 DEF IdleSlot, SlotType, Statuses, NoId, MissingReconcileDebounce
<1>3. NoOp \in OpType /\ Named(NoOp)
  BY <1>1 DEF NoOp, OpType, Actions, Named, NoId
<1>4. EmptyBatch \in Batch /\ \A s \in Slots : EmptyBatch[s] = NoOp
  BY <1>3 DEF EmptyBatch, Batch
<1>5. NoOrders \in View /\ \A s \in Slots, n \in Ids : NoOrders[s][n] = 0
  BY <1>1 DEF NoOrders, View
<1>6. NoEvents \in EventQueues /\ \A s \in Slots : NoEvents[s] = <<>>
  BY DEF NoEvents, EventQueues
<1>7. IdleSender \in SenderType /\ NoSnapshot \in Snapshot /\ IdlePoller \in PollerType
  BY <1>1, <1>4, <1>5
     DEF IdleSender, SenderType, SenderPcs, NoSnapshot, Snapshot, IdlePoller, PollerType, PollerPcs
<1>8. QED
  BY <1>2, <1>3, <1>4, <1>5, <1>6, <1>7

(* A touched slot is a slot.                                               *)
LEMMA TouchType ==
    ASSUME NEW sl \in SlotType
    PROVE  Touch(sl) \in SlotType /\ Touch(sl).id = sl.id /\ Touch(sl).age = 0
<1> DEFINE z == 0
<1>1. z \in 0 .. MissingReconcileDebounce /\ z \in 0 .. Grace
  BY Bounds DEF MissingReconcileDebounce
<1> HIDE DEF z
<1>2. Touch(sl) = [sl EXCEPT !.miss = z, !.age = z]
  BY DEF Touch, z
<1>3. QED
  BY <1>1, <1>2 DEF SlotType, z

(* mark_pending of a well-formed operation.                                *)
LEMMA MarkType ==
    ASSUME NEW sl \in SlotType, NEW o \in OpType
    PROVE  MarkPending(sl, o) \in SlotType
<1>1. [sl EXCEPT !.id = o.id, !.size = o.size, !.status = "Pending"] \in SlotType
  BY DEF SlotType, OpType, Statuses
<1>2. [sl EXCEPT !.size = o.size, !.status = "Pending"] \in SlotType
  BY DEF SlotType, OpType, Statuses
<1>3. [sl EXCEPT !.status = "Canceling"] \in SlotType
  BY DEF SlotType, Statuses
<1>4. CASE o.act = "create"
  BY <1>1, <1>4, TouchType DEF MarkPending
<1>5. CASE o.act = "modify"
  BY <1>2, <1>5, TouchType DEF MarkPending
<1>6. CASE o.act = "cancel"
  BY <1>3, <1>6, TouchType DEF MarkPending
<1>7. CASE o.act \notin {"create", "modify", "cancel"}
  BY <1>7 DEF MarkPending
<1>8. QED
  BY <1>4, <1>5, <1>6, <1>7

(* What the two collectors may emit for a slot.                            *)
Emits(sl, c, o, d) ==
    \/ o = NoOp /\ d = c
    \/ o.act = "create" /\ sl.id = NoId /\ d = c + 1 /\ o.id = d
    \/ o.act \in {"modify", "cancel"} /\ sl.id \in Ids /\ o.id = sl.id /\ d = c

(* The three operations are well formed.                                   *)
LEMMA OpTypes ==
    ASSUME NEW n \in Ids
    PROVE  /\ CreateOp(n) \in OpType /\ ModifyOp(n) \in OpType /\ CancelOp(n) \in OpType
           /\ Named(CreateOp(n)) /\ Named(ModifyOp(n)) /\ Named(CancelOp(n))
           /\ CreateOp(n).id = n /\ ModifyOp(n).id = n /\ CancelOp(n).id = n
           /\ CreateOp(n).act = "create" /\ ModifyOp(n).act = "modify"
           /\ CancelOp(n).act = "cancel"
<1>1. 0 \in Sizes /\ BaseSize \in Sizes
  BY Bounds DEF Sizes
<1>2. QED
  BY <1>1 DEF CreateOp, ModifyOp, CancelOp, OpType, Actions, Named

(* collect_order_operations for one slot.                                  *)
LEMMA CollectedOp ==
    ASSUME NEW sl \in SlotType, NEW want, NEW hold, NEW m \in SUBSET Ids, NEW c \in 0 .. MaxId,
           want # "none" /\ sl.id = NoId => c < MaxId,
           NEW o, o = CollectOp(sl, want, hold, m, c + 1),
           NEW d, d = IF o.act = "create" THEN o.id ELSE c
    PROVE  o \in OpType /\ Named(o) /\ Emits(sl, c, o, d) /\ d \in 0 .. MaxId
<1>1. NoId \notin m /\ NoOp.act = "none"
  BY DEF Ids, NoId, NoOp
<1>2. CASE want # "none" /\ sl.id = NoId
  <2>1. c + 1 \in Ids /\ o = CreateOp(c + 1)
    BY <1>1, <1>2, Bounds DEF CollectOp, Ids
  <2>2. o.act = "create" /\ o.id = c + 1 /\ o \in OpType /\ Named(o)
    BY <2>1, OpTypes
  <2>3. QED
    BY <1>2, <2>1, <2>2 DEF Emits, Ids
<1>3. CASE want = "none" /\ ~hold /\ sl.id \in m
  <2>1. sl.id \in Ids /\ o = CancelOp(sl.id)
    BY <1>1, <1>3 DEF CollectOp
  <2>2. o.act = "cancel" /\ o.id = sl.id /\ o \in OpType /\ Named(o)
    BY <2>1, OpTypes
  <2>3. QED
    BY <2>1, <2>2 DEF Emits
<1>4. CASE want # "none" /\ ~hold /\ sl.id \in m /\ (want = "moved" \/ sl.size # BaseSize)
  <2>1. sl.id \in Ids /\ o = ModifyOp(sl.id)
    BY <1>1, <1>4 DEF CollectOp
  <2>2. o.act = "modify" /\ o.id = sl.id /\ o \in OpType /\ Named(o)
    BY <2>1, OpTypes
  <2>3. QED
    BY <2>1, <2>2 DEF Emits
<1>5. CASE /\ ~(want # "none" /\ sl.id = NoId)
           /\ ~(want = "none" /\ ~hold /\ sl.id \in m)
           /\ ~(want # "none" /\ ~hold /\ sl.id \in m /\ (want = "moved" \/ sl.size # BaseSize))
  <2>1. o = NoOp
    BY <1>5 DEF CollectOp
  <2>2. QED
    BY <1>1, <2>1, IdleTypes DEF Emits
<1>6. QED
  BY <1>2, <1>3, <1>4, <1>5

(* collect_cancel_ops for one slot.                                        *)
LEMMA CollectedCancel ==
    ASSUME NEW sl \in SlotType, NEW m \in SUBSET Ids, NEW c \in 0 .. MaxId,
           NEW o, o = CollectCancelOp(sl, m)
    PROVE  o \in OpType /\ Named(o) /\ Emits(sl, c, o, c)
<1>1. CASE sl.status # "Canceling" /\ sl.id \in m
  <2>1. sl.id \in Ids /\ o = CancelOp(sl.id)
    BY <1>1 DEF CollectCancelOp
  <2>2. QED
    BY <2>1, OpTypes DEF Emits
<1>2. CASE ~(sl.status # "Canceling" /\ sl.id \in m)
  BY <1>2, IdleTypes DEF CollectCancelOp, Emits
<1>3. QED
  BY <1>1, <1>2

(* The events of a well-formed operation.                                  *)
LEMMA EventTypes ==
    ASSUME NEW o \in OpType, Named(o), o.act # "none"
    PROVE  /\ ClearEvent(o) \in EventType /\ GoodEvent(ClearEvent(o))
           /\ ClearEvent(o).kind = "ClearLive" /\ ClearEvent(o).id = o.id
           /\ BindEvent(o) \in EventType /\ GoodEvent(BindEvent(o))
           /\ BindEvent(o).kind = "BindLive" /\ BindEvent(o).id = o.id
<1>1. o.id \in Ids /\ o.size \in Sizes /\ o.size \in Nat
  BY Bounds DEF Named, OpType, Sizes
<1>2. QED
  BY <1>1 DEF ClearEvent, BindEvent, EventType, GoodEvent

(* A drained event leaves a slot.                                          *)
LEMMA ApplyType ==
    ASSUME NEW sl \in SlotType, NEW e \in EventType, GoodEvent(e)
    PROVE  ApplyEvent(sl, e) \in SlotType
<1>1. CASE e.kind = "BindLive"
  <2>1. [sl EXCEPT !.id = e.id, !.size = e.size, !.status = "Live"] \in SlotType
    BY <1>1 DEF SlotType, EventType, GoodEvent, Statuses
  <2>2. ApplyEvent(sl, e) = Touch([sl EXCEPT !.id = e.id, !.size = e.size, !.status = "Live"])
    BY <1>1 DEF ApplyEvent, BindLive
  <2>3. QED
    BY <2>1, <2>2, TouchType
<1>2. CASE e.kind = "ClearLive"
  BY <1>2, IdleTypes DEF ApplyEvent, ClearLive
<1>3. CASE e.kind = "Fill"
  <2>1. ApplyEvent(sl, e) = ApplyFill(sl, e.id, e.size)
    BY <1>3 DEF ApplyEvent
  <2>2. CASE sl.size - e.size > AmountTick
    <3> DEFINE k == sl.size - e.size
    <3>1. k \in Sizes
      BY <2>2, Bounds DEF SlotType, EventType, Sizes, AmountTick
    <3> HIDE DEF k
    <3>2. [sl EXCEPT !.size = k] \in SlotType
      BY <3>1 DEF SlotType
    <3>3. [sl EXCEPT !.size = @ - e.size] = [sl EXCEPT !.size = k]
      BY DEF k
    <3>4. Touch([sl EXCEPT !.size = @ - e.size]) \in SlotType
      BY <3>2, <3>3, TouchType
    <3>5. QED
      BY <2>1, <2>2, <3>4 DEF ApplyFill
  <2>3. CASE ~ (sl.size - e.size > AmountTick)
    BY <2>1, <2>3, IdleTypes DEF ApplyFill
  <2>4. QED
    BY <2>2, <2>3
<1>4. e.kind \in {"BindLive", "ClearLive", "Fill"}
  BY DEF EventType
<1>5. QED
  BY <1>1, <1>2, <1>3, <1>4

GoodQueue(q) == \A i \in 1 .. Len(q) : GoodEvent(q[i])

(* A queue stays well formed when an event is appended or taken.           *)
LEMMA QueueTypes ==
    ASSUME NEW q \in Seq(EventType), GoodQueue(q)
    PROVE  /\ \A e \in EventType : GoodEvent(e) =>
                Append(q, e) \in Seq(EventType) /\ GoodQueue(Append(q, e))
           /\ q # <<>> => /\ Head(q) \in EventType /\ GoodEvent(Head(q))
                          /\ Tail(q) \in Seq(EventType) /\ GoodQueue(Tail(q))
<1>1. ASSUME NEW e \in EventType, GoodEvent(e)
      PROVE  Append(q, e) \in Seq(EventType) /\ GoodQueue(Append(q, e))
  <2>1. PICK r : r = Append(q, e)
    OBVIOUS
  <2>2. /\ r \in Seq(EventType)
        /\ \A i \in 1 .. Len(q) : r[i] = q[i]
        /\ \A i \in 1 .. Len(r) : i \in 1 .. Len(q) \/ (i = Len(r) /\ r[i] = e)
    BY <2>1, Appended
  <2>3. QED
    BY <1>1, <2>1, <2>2 DEF GoodQueue
<1>2. ASSUME q # <<>>
      PROVE  /\ Head(q) \in EventType /\ GoodEvent(Head(q))
             /\ Tail(q) \in Seq(EventType) /\ GoodQueue(Tail(q))
  <2>1. PICK t : t = Tail(q)
    OBVIOUS
  <2>2. /\ Head(q) \in EventType /\ Head(q) = q[1] /\ 1 \in 1 .. Len(q) /\ t \in Seq(EventType)
        /\ \A i \in 1 .. Len(t) : t[i] = q[i + 1] /\ i + 1 \in 1 .. Len(q)
    BY <1>2, <2>1
  <2>3. QED
    BY <2>1, <2>2 DEF GoodQueue
<1>3. QED
  BY <1>1, <1>2

(* clear_failed_creates of a well-formed batch.                            *)
LEMMA ClearedTypes ==
    ASSUME NEW q \in EventQueues, \A s \in Slots : GoodQueue(q[s]),
           NEW b \in Batch, \A s \in Slots : Named(b[s])
    PROVE  /\ ClearFailedCreates(q, b) \in EventQueues
           /\ \A s \in Slots : GoodQueue(ClearFailedCreates(q, b)[s])
<1> DEFINE r(s) == IF b[s].act = "create" THEN Append(q[s], ClearEvent(b[s])) ELSE q[s]
<1>1. ASSUME NEW s \in Slots PROVE r(s) \in Seq(EventType) /\ GoodQueue(r(s))
  <2>1. q[s] \in Seq(EventType) /\ GoodQueue(q[s]) /\ b[s] \in OpType /\ Named(b[s])
    BY DEF EventQueues, Batch
  <2>2. CASE b[s].act = "create"
    <3>1. ClearEvent(b[s]) \in EventType /\ GoodEvent(ClearEvent(b[s]))
      BY <2>1, <2>2, EventTypes
    <3>2. QED
      BY <2>1, <2>2, <3>1, QueueTypes
  <2>3. CASE b[s].act # "create"
    BY <2>1, <2>3
  <2>4. QED
    BY <2>2, <2>3
<1>2. ClearFailedCreates(q, b) = [s \in Slots |-> r(s)]
  BY DEF ClearFailedCreates
<1> HIDE DEF r
<1>3. QED
  BY <1>1, <1>2 DEF EventQueues

(* The part of ShapeInv about events, with the queues named.               *)
LEMMA ShapeOf ==
    ShapeInv <=> /\ \A s \in Slots : Named(mailbox[s]) /\ Named(sender.batch[s])
                 /\ \A s \in Slots : GoodQueue(events[s])
                 /\ sender.pc = "idle" => sender.batch = EmptyBatch
BY DEF ShapeInv, GoodQueue

(* A state of the model, one slot at a time.                               *)
LEMMA SlotTyped ==
    ASSUME TypeOK, ShapeInv, NEW s \in Slots
    PROVE  /\ Typed(slots[s], created[s], mailbox[s], sender.batch[s], events[s], book[s])
           /\ mapped[s] \in SUBSET Ids /\ swap.view[s] \in [Ids -> Sizes]
           /\ swap.age \in Nat /\ poller.age \in Nat /\ poller.snap[s] \in [Ids -> Sizes]
<1>1. sender.batch \in Batch /\ swap.view \in View /\ swap.age \in 0 .. Grace
  BY DEF TypeOK, Snapshot
<1>2. poller.snap \in View /\ poller.age \in 0 .. Grace
  BY DEF TypeOK
<1>3. QED
  BY <1>1, <1>2, Bounds DEF TypeOK, ShapeInv, Typed, Batch, EventQueues, View

(* The slot table and the id map a hot tick starts from.                   *)
LEMMA Ticked ==
    ASSUME TypeOK, ShapeInv
    PROVE  /\ Reconciled \in [Slots -> SlotType] /\ MappedAfter \in [Slots -> SUBSET Ids]
           /\ \A s \in Slots : Reconciled[s] =
                IF swap.full THEN ProcessReconcile(slots[s], swap.view[s]) ELSE slots[s]
<1>1. ASSUME NEW s \in Slots
      PROVE  /\ ProcessReconcile(slots[s], swap.view[s]) \in SlotType
             /\ slots[s] \in SlotType
  <2>1. slots[s] \in SlotType /\ swap.view[s] \in [Ids -> Sizes]
    BY SlotTyped DEF Typed
  <2>2. QED
    BY <2>1, ReconcileType
<1>2. Reconciled \in [Slots -> SlotType]
  BY <1>1 DEF Reconciled
<1>3. MappedAfter \in [Slots -> SUBSET Ids]
  BY DEF TypeOK, MappedAfter
<1>4. QED
  BY <1>2, <1>3 DEF Reconciled

(* Every way a hot tick ends marks the operations it emits, possibly none, *)
(* on the reconciled table, and the mailbox holds them or, when there are  *)
(* none, what it held.                                                     *)
Emitted(ops) ==
    /\ ops \in Batch /\ slots' \in [Slots -> SlotType] /\ created' \in [Slots -> 0 .. MaxId]
    /\ \A s \in Slots : /\ Named(ops[s])
                        /\ Emits(Reconciled[s], created[s], ops[s], created'[s])
                        /\ slots'[s] = MarkPending(Reconciled[s], ops[s])
    /\ mailbox' = ops \/ (mailbox' = mailbox /\ ops = EmptyBatch)

(* A hot tick is TickEnds with the operations it emits.                    *)
LEMMA TickEmits ==
    ASSUME TypeOK, ShapeInv, HotTick
    PROVE  TickEnds /\ published' \in SUBSET Orders /\ \E ops : Emitted(ops)
<1>1. /\ Reconciled \in [Slots -> SlotType] /\ MappedAfter \in [Slots -> SUBSET Ids]
      /\ created \in [Slots -> 0 .. MaxId] /\ published \in SUBSET Orders
  BY Ticked DEF TypeOK
<1>2. ASSUME slots' = Reconciled, created' = created, mailbox' \in {mailbox, EmptyBatch}
      PROVE  Emitted(EmptyBatch)
  <2>1. \A s \in Slots : EmptyBatch[s] = NoOp /\ MarkPending(Reconciled[s], NoOp) = Reconciled[s]
    BY IdleTypes DEF MarkPending, NoOp
  <2>2. QED
    BY <1>1, <1>2, <2>1, IdleTypes DEF Emitted, Emits
<1>3. CASE HotThrottled \/ HotNotReady
  BY <1>1, <1>2, <1>3 DEF HotThrottled, HotNotReady
<1>4. CASE HotPullLadder
  <2> DEFINE ops == [s \in Slots |-> CollectCancelOp(Reconciled[s], mapped'[s])]
  <2>1. /\ TickEnds /\ mapped' = MappedAfter /\ created' = created /\ published' = published
        /\ slots' = [s \in Slots |-> MarkPending(Reconciled[s], ops[s])] /\ mailbox' = ops
    BY <1>4 DEF HotPullLadder, TickEnds
  <2>2. ASSUME NEW s \in Slots
        PROVE  /\ ops[s] \in OpType /\ Named(ops[s])
               /\ Emits(Reconciled[s], created[s], ops[s], created'[s])
               /\ MarkPending(Reconciled[s], ops[s]) \in SlotType
    <3>1. /\ Reconciled[s] \in SlotType /\ mapped'[s] \in SUBSET Ids /\ created[s] \in 0 .. MaxId
          /\ created'[s] = created[s]
      BY <1>1, <2>1
    <3>2. ops[s] = CollectCancelOp(Reconciled[s], mapped'[s])
      OBVIOUS
    <3> HIDE DEF ops
    <3>3. /\ ops[s] \in OpType /\ Named(ops[s])
          /\ Emits(Reconciled[s], created[s], ops[s], created[s])
      BY <3>1, <3>2, CollectedCancel
    <3>4. QED
      BY <3>1, <3>3, MarkType
  <2>3. ops \in Batch
    BY <2>2 DEF Batch
  <2> HIDE DEF ops
  <2>4. Emitted(ops)
    BY <1>1, <2>1, <2>2, <2>3 DEF Emitted
  <2>5. QED
    BY <1>1, <2>1, <2>4
<1>5. ASSUME NEW want, NEW hold, HotQuote(want, hold)
      PROVE  TickEnds /\ published' \in SUBSET Orders /\ \E ops : Emitted(ops)
  <2> DEFINE ops == [s \in Slots |->
                       CollectOp(Reconciled[s], want[s], hold, mapped'[s], created[s] + 1)]
  <2>1. /\ TickEnds /\ mapped' = MappedAfter
        /\ slots' = [s \in Slots |-> MarkPending(Reconciled[s], ops[s])]
        /\ created' = [s \in Slots |-> IF ops[s].act = "create" THEN ops[s].id ELSE created[s]]
        /\ mailbox' = IF ops = EmptyBatch THEN mailbox ELSE ops
        /\ published' \in SUBSET Orders
    BY <1>5 DEF HotQuote, TickEnds
  <2>2. ASSUME NEW s \in Slots
        PROVE  /\ ops[s] \in OpType /\ Named(ops[s])
               /\ Emits(Reconciled[s], created[s], ops[s], created'[s])
               /\ MarkPending(Reconciled[s], ops[s]) \in SlotType
               /\ created'[s] \in 0 .. MaxId
    <3>1. /\ Reconciled[s] \in SlotType /\ mapped'[s] \in SUBSET Ids /\ created[s] \in 0 .. MaxId
          /\ created'[s] = IF ops[s].act = "create" THEN ops[s].id ELSE created[s]
      BY <1>1, <2>1
    <3>2. want[s] # "none" /\ Reconciled[s].id = NoId => created[s] < MaxId
      BY <1>5 DEF HotQuote
    <3>3. ops[s] = CollectOp(Reconciled[s], want[s], hold, mapped'[s], created[s] + 1)
      OBVIOUS
    <3> HIDE DEF ops
    <3>4. /\ ops[s] \in OpType /\ Named(ops[s])
          /\ Emits(Reconciled[s], created[s], ops[s], created'[s])
          /\ created'[s] \in 0 .. MaxId
      BY <3>1, <3>2, <3>3, CollectedOp
    <3>5. QED
      BY <3>1, <3>4, MarkType
  <2>3. ops \in Batch
    BY <2>2 DEF Batch
  <2> HIDE DEF ops
  <2>4. Emitted(ops)
    BY <2>1, <2>2, <2>3 DEF Emitted
  <2>5. QED
    BY <2>1, <2>4
<1>6. QED
  BY <1>3, <1>4, <1>5 DEF HotTick

(* Steps of the hot task keep types and shapes.                            *)
LEMMA HotTypes ==
    ASSUME TypeOK, ShapeInv, HotStep
    PROVE  TypeOK' /\ ShapeInv'
<1>1. /\ \A s \in Slots : Named(mailbox[s]) /\ Named(sender.batch[s])
      /\ \A s \in Slots : GoodQueue(events[s])
      /\ sender.pc = "idle" => sender.batch = EmptyBatch
  BY ShapeOf
<1>2. ASSUME NEW s \in Slots, HotDrainEvent(s) PROVE TypeOK' /\ ShapeInv'
  <2>1. /\ slots[s] \in SlotType /\ events[s] \in Seq(EventType) /\ events[s] # <<>>
        /\ slots \in [Slots -> SlotType] /\ events \in [Slots -> Seq(EventType)]
    BY <1>2 DEF TypeOK, EventQueues, HotDrainEvent
  <2>2. /\ Head(events[s]) \in EventType /\ GoodEvent(Head(events[s]))
        /\ Tail(events[s]) \in Seq(EventType) /\ GoodQueue(Tail(events[s]))
    BY <1>1, <2>1, QueueTypes
  <2>3. ApplyEvent(slots[s], Head(events[s])) \in SlotType
    BY <2>1, <2>2, ApplyType
  <2>4. slots' \in [Slots -> SlotType] /\ events' \in EventQueues
    BY <1>2, <2>1, <2>2, <2>3 DEF HotDrainEvent, EventQueues
  <2>5. \A t \in Slots : GoodQueue(events'[t])
    BY <1>1, <1>2, <2>1, <2>2 DEF HotDrainEvent
  <2>6. TypeOK'
    BY <1>2, <2>4 DEF HotDrainEvent, TypeOK, pollVars, exchVars
  <2>7. ShapeInv'
    BY <1>1, <1>2, <2>5, ShapeOf DEF HotDrainEvent, ShapeInv, GoodQueue
  <2>8. QED
    BY <2>6, <2>7
<1>3. CASE HotDrained
  BY <1>3 DEF HotDrained, TypeOK, ShapeInv, pollVars, exchVars
<1>4. CASE HotTick
  <2>1. TickEnds /\ published' \in SUBSET Orders
    BY <1>4, TickEmits
  <2>2. PICK ops : Emitted(ops)
    BY <1>4, TickEmits
  <2>3. /\ hotPc' = "drain" /\ swap' = NoSnapshot /\ mapped' = MappedAfter
        /\ UNCHANGED <<events, sender, poller, prevOrphans, partials, book, unreported>>
    BY <2>1 DEF TickEnds, pollVars, exchVars
  <2>4. mailbox' \in Batch /\ \A s \in Slots : Named(mailbox'[s])
    BY <1>1, <2>2 DEF Emitted, TypeOK
  <2>5. TypeOK'
    BY <2>1, <2>2, <2>3, <2>4, IdleTypes, Ticked DEF Emitted, TypeOK
  <2>6. ShapeInv'
    BY <2>3, <2>4 DEF ShapeInv
  <2>7. QED
    BY <2>5, <2>6
<1>5. CASE HotRequestResnapshot
  <2>1. mailbox' \in Batch /\ \A s \in Slots : Named(mailbox'[s])
    BY <1>5, IdleTypes DEF HotRequestResnapshot
  <2>2. QED
    BY <1>5, <2>1 DEF HotRequestResnapshot, TypeOK, ShapeInv, hotVars, pollVars, exchVars
<1>6. QED
  BY <1>2, <1>3, <1>4, <1>5 DEF HotStep

(* The book after cancel-all is a book.                                    *)
LEMMA CancelAllType ==
    ASSUME TypeOK, NEW ok
    PROVE  AfterCancelAll(ok) \in View
BY IdleTypes DEF AfterCancelAll, TypeOK

(* Steps of the paced sender keep types and shapes.                        *)
LEMMA SenderTypes ==
    ASSUME TypeOK, ShapeInv, SenderStep
    PROVE  TypeOK' /\ ShapeInv'
<1>1. /\ \A s \in Slots : Named(mailbox[s]) /\ Named(sender.batch[s])
      /\ \A s \in Slots : GoodQueue(events[s])
      /\ sender.pc = "idle" => sender.batch = EmptyBatch
  BY ShapeOf
<1>2. /\ events \in EventQueues /\ mailbox \in Batch /\ sender.batch \in Batch
      /\ sender \in [pc : SenderPcs, batch : Batch] /\ book \in View
  BY DEF TypeOK
<1>3. /\ EmptyBatch \in Batch /\ (\A s \in Slots : Named(EmptyBatch[s]))
      /\ IdleSender \in [pc : SenderPcs, batch : Batch]
      /\ IdleSender.batch = EmptyBatch
  BY IdleTypes DEF SenderType, IdleSender
<1>4. CASE SenderRefuse
  <2>1. events' \in EventQueues /\ \A s \in Slots : GoodQueue(events'[s])
    BY <1>1, <1>2, <1>4, ClearedTypes DEF SenderRefuse
  <2>2. TypeOK'
    BY <1>3, <1>4, <2>1 DEF SenderRefuse, TypeOK, hotVars, pollVars, exchVars
  <2>3. ShapeInv'
    BY <1>1, <1>3, <1>4, <2>1 DEF SenderRefuse, ShapeInv, GoodQueue
  <2>4. QED
    BY <2>2, <2>3
<1>5. CASE SenderTake
  <2>1. sender' \in [pc : SenderPcs, batch : Batch] /\ sender'.batch = mailbox /\ sender'.pc = "gate"
    BY <1>2, <1>5 DEF SenderTake, SenderPcs
  <2>2. TypeOK'
    BY <1>3, <1>5, <2>1 DEF SenderTake, TypeOK, hotVars, pollVars, exchVars
  <2>3. ShapeInv'
    BY <1>1, <1>3, <1>5, <2>1 DEF SenderTake, ShapeInv, GoodQueue
  <2>4. QED
    BY <2>2, <2>3
<1>6. CASE SenderAbandon
  <2>1. events' \in EventQueues /\ \A s \in Slots : GoodQueue(events'[s])
    BY <1>1, <1>2, <1>6, ClearedTypes DEF SenderAbandon
  <2>2. TypeOK'
    BY <1>3, <1>6, <2>1 DEF SenderAbandon, TypeOK, hotVars, pollVars, exchVars
  <2>3. ShapeInv'
    BY <1>1, <1>3, <1>6, <2>1 DEF SenderAbandon, ShapeInv, GoodQueue
  <2>4. QED
    BY <2>2, <2>3
<1>7. CASE SenderOk
  <2> DEFINE r(s) == CASE sender.batch[s].act \in {"create", "modify"}
                           -> Append(events[s], BindEvent(sender.batch[s]))
                       [] sender.batch[s].act = "cancel"
                           -> Append(events[s], ClearEvent(sender.batch[s]))
                       [] OTHER -> events[s]
  <2>1. ASSUME NEW s \in Slots PROVE r(s) \in Seq(EventType) /\ GoodQueue(r(s))
    <3>1. PICK o : o = sender.batch[s]
      OBVIOUS
    <3>2. o \in OpType /\ Named(o) /\ events[s] \in Seq(EventType) /\ GoodQueue(events[s])
      BY <1>1, <1>2, <3>1 DEF Batch, EventQueues
    <3>3. o.act # "none" => /\ ClearEvent(o) \in EventType /\ GoodEvent(ClearEvent(o))
                            /\ BindEvent(o) \in EventType /\ GoodEvent(BindEvent(o))
      BY <3>2, EventTypes
    <3>4. CASE o.act \in {"create", "modify"}
      <4>1. r(s) = Append(events[s], BindEvent(o))
        BY <3>1, <3>4
      <4>2. QED
        BY <3>2, <3>3, <3>4, <4>1, QueueTypes
    <3>5. CASE o.act = "cancel"
      <4>1. r(s) = Append(events[s], ClearEvent(o))
        BY <3>1, <3>5
      <4>2. QED
        BY <3>2, <3>3, <3>5, <4>1, QueueTypes
    <3>6. CASE o.act \notin {"create", "modify", "cancel"}
      <4>1. r(s) = events[s]
        BY <3>1, <3>6
      <4>2. QED
        BY <3>2, <4>1
    <3>7. QED
      BY <3>4, <3>5, <3>6
  <2>2. events' = [s \in Slots |-> r(s)]
    BY <1>7 DEF SenderOk
  <2> HIDE DEF r
  <2>3. events' \in EventQueues /\ \A s \in Slots : GoodQueue(events'[s])
    BY <2>1, <2>2 DEF EventQueues
  <2>4. TypeOK'
    BY <1>3, <1>7, <2>3 DEF SenderOk, TypeOK, hotVars, pollVars, exchVars
  <2>5. ShapeInv'
    BY <1>1, <1>3, <1>7, <2>3 DEF SenderOk, ShapeInv, GoodQueue
  <2>6. QED
    BY <2>4, <2>5
<1>8. ASSUME NEW ok, NEW paused, SenderRejected(paused, ok) PROVE TypeOK' /\ ShapeInv'
  <2>1. events' \in EventQueues /\ \A s \in Slots : GoodQueue(events'[s])
    BY <1>1, <1>2, <1>8, ClearedTypes DEF SenderRejected
  <2>2. book' \in View
    BY <1>2, <1>8, CancelAllType DEF SenderRejected
  <2>3. TypeOK'
    BY <1>3, <1>8, <2>1, <2>2 DEF SenderRejected, TypeOK, hotVars, pollVars
  <2>4. ShapeInv'
    BY <1>1, <1>3, <1>8, <2>1 DEF SenderRejected, ShapeInv, GoodQueue
  <2>5. QED
    BY <2>3, <2>4
<1>9. ASSUME NEW ok, SenderUnknown(ok) PROVE TypeOK' /\ ShapeInv'
  <2>1. book' \in View
    BY <1>9, CancelAllType DEF SenderUnknown
  <2>2. TypeOK'
    BY <1>3, <1>9, <2>1 DEF SenderUnknown, TypeOK, hotVars, pollVars
  <2>3. ShapeInv'
    BY <1>1, <1>3, <1>9 DEF SenderUnknown, ShapeInv, GoodQueue
  <2>4. QED
    BY <2>2, <2>3
<1>10. QED
  BY <1>4, <1>5, <1>6, <1>7, <1>8, <1>9 DEF SenderStep

(* Steps of the reconcile poller keep types and shapes.                    *)
LEMMA PollerTypes ==
    ASSUME TypeOK, ShapeInv, PollerStep
    PROVE  TypeOK' /\ ShapeInv'
<1>1. /\ poller \in PollerType /\ book \in View /\ prevOrphans \in SUBSET Orders
      /\ IdlePoller \in PollerType /\ partials \in 0 .. MaxPartial /\ MaxPartial \in Nat
      /\ 0 \in Sizes
  BY IdleTypes, EnvAssumption, Bounds DEF TypeOK, PollerType, EnvAssumption, Sizes
<1>2. ASSUME NEW seen, PollFetch(seen) PROVE TypeOK' /\ ShapeInv'
  <2> DEFINE v == [s \in Slots |-> [n \in Ids |-> IF <<s, n>> \in seen THEN book[s][n] ELSE 0]]
  <2>1. v \in View
    BY <1>1 DEF View
  <2> HIDE DEF v
  <2>2. [IdlePoller EXCEPT !.pc = "fetched", !.snap = v] \in PollerType
    BY <1>1, <2>1 DEF PollerType, PollerPcs
  <2>3. poller' \in PollerType
    BY <1>2, <2>2 DEF PollFetch, v
  <2>4. partials' \in 0 .. MaxPartial
    BY <1>1, <1>2 DEF PollFetch
  <2>5. QED
    BY <1>2, <2>3, <2>4 DEF PollFetch, TypeOK, ShapeInv, PollerType, hotVars, exchVars
<1>3. ASSUME NEW others, PollRecord(others) PROVE TypeOK' /\ ShapeInv'
  <2>1. swap' \in Snapshot
    BY <1>1, <1>3 DEF PollRecord, PollerType, Snapshot
  <2>2. Orphans(poller.snap) \in SUBSET Orders
    BY DEF Orphans, LiveIn
  <2>3. [poller EXCEPT !.pc = "cancelAll"] \in PollerType
    BY <1>1 DEF PollerType, PollerPcs
  <2>4. [IdlePoller EXCEPT !.pc = "orphans", !.todo = Orphans(poller.snap) \cap prevOrphans] \in PollerType
    BY <1>1, <2>2 DEF PollerType, PollerPcs
  <2>5. poller' \in PollerType /\ prevOrphans' \in SUBSET Orders
    BY <1>3, <2>2, <2>3, <2>4 DEF PollRecord
  <2>6. QED
    BY <1>3, <2>1, <2>5 DEF PollRecord, TypeOK, ShapeInv, PollerType, hotVars, exchVars
<1>4. ASSUME NEW ok, PollCancelAll(ok) PROVE TypeOK' /\ ShapeInv'
  <2>1. book' \in View
    BY <1>4, CancelAllType DEF PollCancelAll
  <2>2. QED
    BY <1>1, <1>4, <2>1 DEF PollCancelAll, TypeOK, ShapeInv, PollerType, hotVars
<1>5. ASSUME NEW o \in Orders, NEW ok, PollCancelOrphan(o, ok) PROVE TypeOK' /\ ShapeInv'
  <2>1. PICK s \in Slots, n \in Ids : o[1] = s /\ o[2] = n
    BY DEF Orders
  <2>2. [book EXCEPT ![s][n] = 0] \in View
    BY <1>1 DEF View
  <2>3. book' \in View
    BY <1>1, <1>5, <2>1, <2>2 DEF PollCancelOrphan
  <2>4. [poller EXCEPT !.todo = @ \ {o}] \in PollerType
    BY <1>1 DEF PollerType
  <2>5. QED
    BY <1>5, <2>3, <2>4 DEF PollCancelOrphan, TypeOK, ShapeInv, PollerType, hotVars
<1>6. CASE PollDone
  BY <1>1, <1>6 DEF PollDone, TypeOK, ShapeInv, PollerType, hotVars, exchVars
<1>7. QED
  BY <1>2, <1>3, <1>4, <1>5, <1>6 DEF PollerStep

(* Steps of the exchange, the streams and the clock keep types and shapes. *)
LEMMA EnvironmentTypes ==
    ASSUME TypeOK, ShapeInv, Environment
    PROVE  TypeOK' /\ ShapeInv'
<1>1. /\ \A s \in Slots : Named(mailbox[s]) /\ Named(sender.batch[s])
      /\ \A s \in Slots : GoodQueue(events[s])
      /\ sender.pc = "idle" => sender.batch = EmptyBatch
  BY ShapeOf
<1>2. /\ book \in View /\ unreported \in View /\ sender \in [pc : SenderPcs, batch : Batch]
      /\ sender.batch \in Batch /\ 0 \in Sizes /\ FillSizes \subseteq Nat
  BY EnvAssumption, Bounds DEF TypeOK, EnvAssumption, Sizes
<1>3. CASE ExchangeAccept
  <2> DEFINE b(s) == IF sender.batch[s].act = "none" THEN book[s]
                     ELSE [book[s] EXCEPT ![sender.batch[s].id] = sender.batch[s].size]
  <2>1. ASSUME NEW s \in Slots PROVE b(s) \in [Ids -> Sizes]
    <3>1. sender.batch[s].size \in Sizes /\ book[s] \in [Ids -> Sizes]
      BY <1>2 DEF Batch, OpType, View
    <3>2. QED
      BY <3>1
  <2>2. book' = [s \in Slots |-> b(s)]
    BY <1>3 DEF ExchangeAccept
  <2> HIDE DEF b
  <2>3. book' \in View
    BY <2>1, <2>2 DEF View
  <2>4. /\ sender' \in [pc : SenderPcs, batch : Batch] /\ sender'.batch = sender.batch
        /\ sender'.pc # "idle"
    BY <1>2, <1>3 DEF ExchangeAccept, SenderPcs
  <2>5. TypeOK'
    BY <1>3, <2>3, <2>4 DEF ExchangeAccept, TypeOK, hotVars, pollVars
  <2>6. ShapeInv'
    BY <1>1, <1>3, <2>4 DEF ExchangeAccept, ShapeInv, GoodQueue
  <2>7. QED
    BY <2>5, <2>6
<1>4. ASSUME NEW s \in Slots, NEW n \in Ids, NEW q \in FillSizes, ExchangeFill(s, n, q)
      PROVE  TypeOK' /\ ShapeInv'
  <2>1. book[s][n] \in Sizes /\ q \in Nat /\ unreported[s][n] = 0 /\ book[s][n] >= q
    BY <1>2, <1>4, IdleTypes DEF ExchangeFill, View
  <2>2. PICK x, y : x = book[s][n] - q /\ y = unreported[s][n] + q
    OBVIOUS
  <2>3. x \in Sizes /\ y \in Sizes
    BY <2>1, <2>2, Bounds DEF Sizes
  <2>4. book' = [book EXCEPT ![s][n] = x] /\ unreported' = [unreported EXCEPT ![s][n] = y]
    BY <1>4, <2>2 DEF ExchangeFill
  <2>5. book' \in View /\ unreported' \in View
    BY <1>2, <2>3, <2>4 DEF View
  <2>6. QED
    BY <1>4, <2>5 DEF ExchangeFill, TypeOK, ShapeInv, hotVars, pollVars
<1>5. ASSUME NEW s \in Slots, NEW n \in Ids, NEW q \in FillSizes, ReportFill(s, n, q)
      PROVE  TypeOK' /\ ShapeInv'
  <2>1. unreported[s][n] \in Sizes /\ q \in Nat /\ unreported[s][n] >= q
    BY <1>2, <1>5 DEF ReportFill, View
  <2>2. PICK y : y = unreported[s][n] - q
    OBVIOUS
  <2>3. y \in Sizes
    BY <2>1, <2>2, Bounds DEF Sizes
  <2>4. unreported' = [unreported EXCEPT ![s][n] = y]
    BY <1>5, <2>2 DEF ReportFill
  <2>5. unreported' \in View
    BY <1>2, <2>3, <2>4 DEF View
  <2>6. FillEvent(n, q) \in EventType /\ GoodEvent(FillEvent(n, q))
    BY <2>1 DEF FillEvent, EventType, GoodEvent
  <2>7. events \in [Slots -> Seq(EventType)] /\ events[s] \in Seq(EventType)
    BY DEF TypeOK, EventQueues
  <2>8. Append(events[s], FillEvent(n, q)) \in Seq(EventType)
        /\ GoodQueue(Append(events[s], FillEvent(n, q)))
    BY <1>1, <2>6, <2>7, QueueTypes
  <2>9. events' \in EventQueues /\ \A t \in Slots : GoodQueue(events'[t])
    BY <1>1, <1>5, <2>7, <2>8 DEF ReportFill, EventQueues
  <2>10. TypeOK'
    BY <1>5, <2>5, <2>9 DEF ReportFill, TypeOK, hotVars, pollVars
  <2>11. ShapeInv'
    BY <1>1, <1>5, <2>9 DEF ReportFill, ShapeInv, GoodQueue
  <2>12. QED
    BY <2>10, <2>11
<1>6. ASSUME NEW s \in Slots, NEW n \in Ids, ExchangeKill(s, n) PROVE TypeOK' /\ ShapeInv'
  <2>1. book' \in View
    BY <1>2, <1>6 DEF ExchangeKill, View
  <2>2. QED
    BY <1>6, <2>1 DEF ExchangeKill, TypeOK, ShapeInv, hotVars, pollVars
<1>7. ASSUME NEW s \in Slots, NEW n \in Ids, LoseFill(s, n) PROVE TypeOK' /\ ShapeInv'
  <2>1. unreported' \in View
    BY <1>2, <1>7 DEF LoseFill, View
  <2>2. QED
    BY <1>7, <2>1 DEF LoseFill, TypeOK, ShapeInv, hotVars, pollVars
<1>8. ASSUME NEW s \in Slots, NEW n \in Ids, ResolveId(s, n) PROVE TypeOK' /\ ShapeInv'
  <2>1. mapped' \in [Slots -> SUBSET Ids]
    BY <1>8 DEF ResolveId, TypeOK
  <2>2. QED
    BY <1>8, <2>1 DEF ResolveId, TypeOK, ShapeInv, pollVars, exchVars
<1>9. CASE Tick
  <2>1. \A a \in 0 .. Grace : Older(a) \in 0 .. Grace
    BY Bounds DEF Older
  <2>2. 0 \in 0 .. Grace
    BY Bounds
  <2>3. slots' \in [Slots -> SlotType]
    <3>1. ASSUME NEW s \in Slots
          PROVE  (IF slots[s].id = NoId THEN slots[s] ELSE [slots[s] EXCEPT !.age = Older(@)]) \in SlotType
      <4>1. slots[s] \in SlotType /\ Older(slots[s].age) \in 0 .. Grace
        BY <2>1 DEF TypeOK, SlotType
      <4>2. QED
        BY <4>1 DEF SlotType
    <3>2. QED
      BY <1>9, <3>1 DEF Tick
  <2>4. poller' \in PollerType
    <3>1. PICK g : g = IF poller.pc = "fetched" THEN Older(poller.age) ELSE 0
      OBVIOUS
    <3>2. g \in 0 .. Grace
      BY <2>1, <2>2, <3>1 DEF TypeOK
    <3>3. poller' = [poller EXCEPT !.age = g]
      BY <1>9, <3>1 DEF Tick
    <3>4. QED
      BY <3>2, <3>3 DEF TypeOK, PollerType
  <2>5. swap' \in Snapshot
    <3>1. PICK g : g = IF swap.full THEN Older(swap.age) ELSE 0
      OBVIOUS
    <3>2. g \in 0 .. Grace
      BY <2>1, <2>2, <3>1 DEF TypeOK, Snapshot
    <3>3. swap' = [swap EXCEPT !.age = g]
      BY <1>9, <3>1 DEF Tick
    <3>4. QED
      BY <3>2, <3>3 DEF TypeOK, Snapshot
  <2>6. QED
    BY <1>9, <2>3, <2>4, <2>5 DEF Tick, TypeOK, ShapeInv, PollerType, exchVars
<1>10. QED
  BY <1>3, <1>4, <1>5, <1>6, <1>7, <1>8, <1>9 DEF Environment

(* Every step keeps types and shapes, in every environment.                *)
LEMMA TypeStep ==
    ASSUME TypeOK, ShapeInv, [Next]_vars
    PROVE  TypeOK' /\ ShapeInv'
<1>1. CASE UNCHANGED vars
  BY <1>1 DEF vars, TypeOK, ShapeInv
<1>2. QED
  BY <1>1, HotTypes, SenderTypes, PollerTypes, EnvironmentTypes DEF Next

-----------------------------------------------------------------------------
(* THE HEALTHY ENVIRONMENT                                                 *)

Fine(s) == SlotInv(s) /\ SwapInv(s) /\ PollInv(s)

(* A step that keeps the slot and takes no new snapshot.                   *)
LEMMA Carried ==
    ASSUME TypeOK, ShapeInv, NEW s \in Slots, Fine(s), SlotInv(s)',
           \A v : \A a \in Nat :
               SnapOK(slots[s], sender.batch[s], events[s], book[s], v, a)
                 => SnapOK(slots'[s], sender'.batch[s], events'[s], book'[s], v, a),
           swap' = swap \/ ~swap'.full,
           poller' = poller \/ poller'.pc # "fetched"
    PROVE  Fine(s)'
<1>1. swap.age \in Nat /\ poller.age \in Nat
  BY SlotTyped
<1>2. SwapInv(s)'
  BY <1>1 DEF Fine, SwapInv
<1>3. PollInv(s)'
  BY <1>1 DEF Fine, PollInv
<1>4. QED
  BY <1>2, <1>3 DEF Fine

(* The slot the tick starts from: the snapshot, if any, has been applied.  *)
LEMMA ReconciledIsFine ==
    ASSUME TypeOK, ShapeInv, NEW s \in Slots, Fine(s)
    PROVE  /\ Typed(Reconciled[s], created[s], mailbox[s], sender.batch[s], events[s], book[s])
           /\ SlotOK(Reconciled[s], created[s], mailbox[s], sender.pc, sender.batch[s],
                     events[s], book[s])
           /\ \A v : \A a \in Nat :
                SnapOK(slots[s], sender.batch[s], events[s], book[s], v, a)
                  => SnapOK(Reconciled[s], sender.batch[s], events[s], book[s], v, a)
<1>1. /\ Typed(slots[s], created[s], mailbox[s], sender.batch[s], events[s], book[s])
      /\ swap.age \in Nat /\ swap.view[s] \in [Ids -> Sizes]
  BY SlotTyped
<1>2. SlotOK(slots[s], created[s], mailbox[s], sender.pc, sender.batch[s], events[s], book[s])
  BY DEF Fine, SlotInv
<1>3. Reconciled[s] = IF swap.full THEN ProcessReconcile(slots[s], swap.view[s]) ELSE slots[s]
  BY Ticked
<1>4. CASE swap.full
  <2>1. SnapOK(slots[s], sender.batch[s], events[s], book[s], swap.view[s], swap.age)
    BY <1>4 DEF Fine, SwapInv
  <2>2. /\ Reconciled[s] \in SlotType
        /\ SlotOK(Reconciled[s], created[s], mailbox[s], sender.pc, sender.batch[s],
                  events[s], book[s])
        /\ \A v : \A a \in Nat :
             SnapOK(slots[s], sender.batch[s], events[s], book[s], v, a)
               => SnapOK(Reconciled[s], sender.batch[s], events[s], book[s], v, a)
    BY <1>1, <1>2, <1>3, <1>4, <2>1, ReconcileKeeps
  <2>3. QED
    BY <1>1, <2>2 DEF Typed
<1>5. CASE ~swap.full
  BY <1>1, <1>2, <1>3, <1>5
<1>6. QED
  BY <1>4, <1>5

(* The hot task keeps every slot fine.                                     *)
LEMMA HotHealthy ==
    ASSUME TypeOK, ShapeInv, TypeOK', NEW s \in Slots, Fine(s), HotStep
    PROVE  Fine(s)'
<1>1. /\ Typed(slots[s], created[s], mailbox[s], sender.batch[s], events[s], book[s])
      /\ SlotOK(slots[s], created[s], mailbox[s], sender.pc, sender.batch[s], events[s], book[s])
  BY SlotTyped DEF Fine, SlotInv
<1>2. ASSUME NEW t \in Slots, HotDrainEvent(t)
      PROVE  Fine(s)'
  <2>1. /\ UNCHANGED <<created, mailbox, sender, swap, poller, book>>
        /\ slots' = [slots EXCEPT ![t] = ApplyEvent(@, Head(events[t]))]
        /\ events' = [events EXCEPT ![t] = Tail(@)] /\ events[t] # <<>>
    BY <1>2 DEF HotDrainEvent, pollVars, exchVars
  <2>2. slots \in [Slots -> SlotType] /\ events \in [Slots -> Seq(EventType)] /\ slots'[s] \in SlotType
    BY DEF TypeOK, EventQueues
  <2>3. CASE t = s
    <3>1. slots'[s] = ApplyEvent(slots[s], Head(events[s])) /\ events'[s] = Tail(events[s])
      BY <2>1, <2>2, <2>3
    <3>2. /\ SlotOK(slots'[s], created[s], mailbox[s], sender.pc, sender.batch[s],
                    events'[s], book[s])
          /\ \A v : \A a \in Nat :
               SnapOK(slots[s], sender.batch[s], events[s], book[s], v, a)
                 => SnapOK(slots'[s], sender.batch[s], events'[s], book[s], v, a)
      BY <1>1, <2>1, <2>2, <2>3, <3>1, DrainKeeps
    <3>3. SlotInv(s)'
      BY <2>1, <3>2 DEF SlotInv
    <3>4. QED
      BY <2>1, <3>2, <3>3, Carried
  <2>4. CASE t # s
    <3>1. slots'[s] = slots[s] /\ events'[s] = events[s]
      BY <2>1, <2>2, <2>4
    <3>2. SlotInv(s)'
      BY <1>1, <2>1, <3>1 DEF SlotInv
    <3>3. QED
      BY <2>1, <3>1, <3>2, Carried
  <2>5. QED
    BY <2>3, <2>4
<1>3. CASE HotDrained
  <2>1. UNCHANGED <<slots, created, mailbox, events, sender, swap, poller, book>>
    BY <1>3 DEF HotDrained, pollVars, exchVars
  <2>2. SlotInv(s)'
    BY <1>1, <2>1 DEF SlotInv
  <2>3. QED
    BY <2>1, <2>2, Carried
<1>4. CASE HotTick
  <2>1. UNCHANGED <<events, sender, poller, book>> /\ ~swap'.full
    BY <1>4, TickEmits DEF TickEnds, NoSnapshot, pollVars, exchVars
  <2>2. PICK ops : Emitted(ops)
    BY <1>4, TickEmits
  <2>3. /\ ops[s] \in OpType /\ slots'[s] = MarkPending(Reconciled[s], ops[s])
        /\ Emits(Reconciled[s], created[s], ops[s], created'[s])
        /\ mailbox'[s] = ops[s] \/ (mailbox'[s] = mailbox[s] /\ ops[s] = NoOp)
    BY <2>2, IdleTypes DEF Emitted, Batch
  <2>4. /\ Typed(Reconciled[s], created[s], mailbox[s], sender.batch[s], events[s], book[s])
        /\ SlotOK(Reconciled[s], created[s], mailbox[s], sender.pc, sender.batch[s],
                  events[s], book[s])
        /\ \A v : \A a \in Nat :
             SnapOK(slots[s], sender.batch[s], events[s], book[s], v, a)
               => SnapOK(Reconciled[s], sender.batch[s], events[s], book[s], v, a)
    BY ReconciledIsFine
  <2>5. /\ SlotOK(slots'[s], created'[s], ops[s], sender.pc, sender.batch[s], events[s], book[s])
        /\ \A v : \A a \in Nat :
             SnapOK(Reconciled[s], sender.batch[s], events[s], book[s], v, a)
               => SnapOK(slots'[s], sender.batch[s], events[s], book[s], v, a)
    BY <2>3, <2>4, CollectKeeps DEF Emits
  <2>6. ops[s] = NoOp => slots'[s] = Reconciled[s] /\ created'[s] = created[s]
    BY <2>3 DEF Emits, MarkPending, NoOp
  <2>7. SlotOK(slots'[s], created'[s], mailbox'[s], sender.pc, sender.batch[s], events[s], book[s])
    BY <2>3, <2>4, <2>5, <2>6
  <2>8. SlotInv(s)'
    BY <2>1, <2>7 DEF SlotInv
  <2>9. QED
    BY <2>1, <2>4, <2>5, <2>8, Carried
<1>5. CASE HotRequestResnapshot
  <2>1. UNCHANGED <<slots, created, events, sender, swap, poller, book>> /\ mailbox'[s] = NoOp
    BY <1>5, IdleTypes DEF HotRequestResnapshot, hotVars, pollVars, exchVars
  <2>2. SlotInv(s)'
    BY <1>1, <2>1, DropMail DEF SlotInv
  <2>3. QED
    BY <2>1, <2>2, Carried
<1>6. QED
  BY <1>2, <1>3, <1>4, <1>5 DEF HotStep

(* A step that only takes orders off the book.                             *)
LEMMA FewerOrders ==
    ASSUME TypeOK, ShapeInv, TypeOK', NEW s \in Slots, Fine(s),
           UNCHANGED <<slots, created, mailbox, events, sender, swap>>,
           poller' = poller \/ poller'.pc # "fetched",
           \A n \in Ids : book'[s][n] > 0 => book[s][n] > 0
    PROVE  Fine(s)'
<1>1. /\ Typed(slots[s], created[s], mailbox[s], sender.batch[s], events[s], book[s])
      /\ SlotOK(slots[s], created[s], mailbox[s], sender.pc, sender.batch[s], events[s], book[s])
  BY SlotTyped DEF Fine, SlotInv
<1>2. book'[s] \in [Ids -> Sizes]
  BY DEF TypeOK, View
<1>3. /\ SlotOK(slots[s], created[s], mailbox[s], sender.pc, sender.batch[s], events[s], book'[s])
      /\ \A v, a : SnapOK(slots[s], sender.batch[s], events[s], book[s], v, a)
                     => SnapOK(slots[s], sender.batch[s], events[s], book'[s], v, a)
  BY <1>1, <1>2, LessRests
<1>4. SlotInv(s)'
  BY <1>3 DEF SlotInv
<1>5. QED
  BY <1>3, <1>4, Carried

(* One slot when the sender gives a batch up before it was accepted.       *)
LEMMA GaveUp ==
    ASSUME TypeOK, ShapeInv, NEW s \in Slots, Fine(s), sender.pc = "gate",
           events' = ClearFailedCreates(events, sender.batch)
    PROVE  /\ SlotOK(slots[s], created[s], mailbox[s], "idle", NoOp, events'[s], book[s])
           /\ \A v, a : SnapOK(slots[s], sender.batch[s], events[s], book[s], v, a)
                          => SnapOK(slots[s], NoOp, events'[s], book[s], v, a)
<1>1. /\ Typed(slots[s], created[s], mailbox[s], sender.batch[s], events[s], book[s])
      /\ SlotOK(slots[s], created[s], mailbox[s], sender.pc, sender.batch[s], events[s], book[s])
  BY SlotTyped DEF Fine, SlotInv
<1>2. PICK o : o = sender.batch[s]
  OBVIOUS
<1>3. o \in OpType /\ Named(o)
  BY <1>1, <1>2 DEF Typed
<1>4. CASE o.act = "create"
  <2>1. PICK e : e = ClearEvent(o)
    OBVIOUS
  <2>2. PICK r : r = events'[s]
    OBVIOUS
  <2>3. e \in EventType /\ e.kind = "ClearLive" /\ e.id = o.id
    BY <1>3, <1>4, <2>1, EventTypes
  <2>4. PICK q : q = events[s]
    OBVIOUS
  <2>5. r = Append(q, e)
    BY <1>2, <1>4, <2>1, <2>2, <2>4 DEF ClearFailedCreates
  <2>6. /\ Typed(slots[s], created[s], mailbox[s], o, q, book[s])
        /\ SlotOK(slots[s], created[s], mailbox[s], "gate", o, q, book[s])
    BY <1>1, <1>2, <2>4
  <2>7. o.act # "none"
    BY <1>4
  <2>8. /\ SlotOK(slots[s], created[s], mailbox[s], "idle", NoOp, r, book[s])
        /\ \A v, a : SnapOK(slots[s], o, q, book[s], v, a)
                       => SnapOK(slots[s], NoOp, r, book[s], v, a)
    BY <1>4, <2>3, <2>5, <2>6, <2>7, AnswerKeeps
  <2>9. QED
    BY <1>2, <2>2, <2>4, <2>8
<1>5. CASE o.act # "create"
  <2>1. events'[s] = events[s]
    BY <1>2, <1>5 DEF ClearFailedCreates
  <2>2. QED
    BY <1>1, <1>2, <1>5, <2>1, SilentKeeps
<1>6. QED
  BY <1>4, <1>5

(* The paced sender keeps every slot fine.                                 *)
LEMMA SenderHealthy ==
    ASSUME TypeOK, ShapeInv, TypeOK', NEW s \in Slots, Fine(s), Healthy, SenderStep
    PROVE  Fine(s)'
<1>1. /\ Typed(slots[s], created[s], mailbox[s], sender.batch[s], events[s], book[s])
      /\ SlotOK(slots[s], created[s], mailbox[s], sender.pc, sender.batch[s], events[s], book[s])
  BY SlotTyped DEF Fine, SlotInv
<1>2. /\ sender.pc = "idle" => sender.batch[s] = NoOp
      /\ IdleSender.pc = "idle" /\ IdleSender.batch[s] = NoOp /\ EmptyBatch[s] = NoOp
      /\ sender.pc \in SenderPcs
  BY IdleTypes DEF ShapeInv, IdleSender, TypeOK
<1>3. CASE SenderRefuse
  <2>1. /\ UNCHANGED <<slots, created, sender, swap, poller, book>> /\ mailbox'[s] = NoOp
        /\ sender.batch[s] = NoOp /\ sender.pc = "idle"
        /\ events'[s] = IF mailbox[s].act = "create" THEN Append(events[s], ClearEvent(mailbox[s]))
                        ELSE events[s]
    BY <1>2, <1>3 DEF SenderRefuse, ClearFailedCreates, hotVars, pollVars, exchVars
  <2>2. CASE mailbox[s].act = "create"
    <3>1. ClearEvent(mailbox[s]) \in EventType
      BY <1>1, <2>2, EventTypes DEF Typed
    <3>2. /\ SlotOK(slots[s], created[s], NoOp, sender.pc, NoOp, events'[s], book[s])
          /\ \A v, a : SnapOK(slots[s], NoOp, events[s], book[s], v, a)
                         => SnapOK(slots[s], NoOp, events'[s], book[s], v, a)
      <4>1. /\ Typed(slots[s], created[s], mailbox[s], NoOp, events[s], book[s])
            /\ SlotOK(slots[s], created[s], mailbox[s], sender.pc, NoOp, events[s], book[s])
            /\ events'[s] = Append(events[s], ClearEvent(mailbox[s]))
        BY <1>1, <2>1, <2>2
      <4>2. QED
        BY <2>2, <3>1, <4>1, RefuseKeeps
    <3>3. SlotInv(s)'
      BY <2>1, <3>2 DEF SlotInv
    <3>4. QED
      BY <2>1, <3>2, <3>3, Carried
  <2>3. CASE mailbox[s].act # "create"
    <3>1. SlotInv(s)'
      BY <1>1, <2>1, <2>3, DropMail DEF SlotInv
    <3>2. QED
      BY <2>1, <2>3, <3>1, Carried
  <2>4. QED
    BY <2>2, <2>3
<1>4. CASE SenderTake
  <2>1. /\ UNCHANGED <<slots, created, events, swap, poller, book>> /\ mailbox'[s] = NoOp
        /\ sender.batch[s] = NoOp /\ sender'.pc = "gate" /\ sender'.batch[s] = mailbox[s]
    BY <1>2, <1>4 DEF SenderTake, hotVars, pollVars, exchVars
  <2>2. /\ SlotOK(slots[s], created[s], NoOp, "gate", mailbox[s], events[s], book[s])
        /\ \A v, a : SnapOK(slots[s], NoOp, events[s], book[s], v, a)
                       => SnapOK(slots[s], mailbox[s], events[s], book[s], v, a)
    BY <1>1, <2>1, TakeKeeps
  <2>3. SlotInv(s)'
    BY <2>1, <2>2 DEF SlotInv
  <2>4. QED
    BY <2>1, <2>2, <2>3, Carried
<1>5. CASE SenderAbandon
  <2>1. /\ UNCHANGED <<slots, created, mailbox, swap, poller, book>>
        /\ sender.pc = "gate" /\ sender'.pc = "idle" /\ sender'.batch[s] = NoOp
        /\ events' = ClearFailedCreates(events, sender.batch)
    BY <1>2, <1>5 DEF SenderAbandon, hotVars, pollVars, exchVars
  <2>2. /\ SlotOK(slots[s], created[s], mailbox[s], "idle", NoOp, events'[s], book[s])
        /\ \A v, a : SnapOK(slots[s], sender.batch[s], events[s], book[s], v, a)
                       => SnapOK(slots[s], NoOp, events'[s], book[s], v, a)
    BY <2>1, GaveUp
  <2>3. SlotInv(s)'
    BY <2>1, <2>2 DEF SlotInv
  <2>4. QED
    BY <2>1, <2>2, <2>3, Carried
<1>6. CASE SenderOk
  <2>1. PICK o : o = sender.batch[s]
    OBVIOUS
  <2>2. /\ UNCHANGED <<slots, created, mailbox, swap, poller, book>>
        /\ sender.pc = "landed" /\ sender'.pc = "idle" /\ sender'.batch[s] = NoOp
    BY <1>2, <1>6 DEF SenderOk, hotVars, pollVars, exchVars
  <2>3. events'[s] = CASE o.act \in {"create", "modify"} -> Append(events[s], BindEvent(o))
                       [] o.act = "cancel" -> Append(events[s], ClearEvent(o))
                       [] OTHER -> events[s]
    BY <1>6, <2>1 DEF SenderOk
  <2>4. /\ o \in OpType /\ Named(o)
        /\ Typed(slots[s], created[s], mailbox[s], o, events[s], book[s])
        /\ SlotOK(slots[s], created[s], mailbox[s], "landed", o, events[s], book[s])
    BY <1>1, <2>1, <2>2 DEF Typed
  <2>5. /\ SlotOK(slots[s], created[s], mailbox[s], "idle", NoOp, events'[s], book[s])
        /\ \A v, a : SnapOK(slots[s], o, events[s], book[s], v, a)
                       => SnapOK(slots[s], NoOp, events'[s], book[s], v, a)
    <3>1. CASE o.act \in {"create", "modify"}
      <4>1. PICK e : e = BindEvent(o)
        OBVIOUS
      <4>2. e \in EventType /\ e.kind = "BindLive" /\ e.id = o.id
        BY <2>4, <3>1, <4>1, EventTypes
      <4>3. events'[s] = Append(events[s], e)
        BY <2>3, <3>1, <4>1
      <4>4. QED
        BY <2>4, <3>1, <4>2, <4>3, AnswerKeeps
    <3>2. CASE o.act = "cancel"
      <4>1. PICK e : e = ClearEvent(o)
        OBVIOUS
      <4>2. e \in EventType /\ e.kind = "ClearLive" /\ e.id = o.id
        BY <2>4, <3>2, <4>1, EventTypes
      <4>3. events'[s] = Append(events[s], e)
        BY <2>3, <3>2, <4>1
      <4>4. QED
        BY <2>4, <3>2, <4>2, <4>3, AnswerKeeps
    <3>3. CASE o.act \notin {"create", "modify", "cancel"}
      <4>1. events'[s] = events[s]
        BY <2>3, <3>3
      <4>2. QED
        BY <1>1, <2>1, <3>3, <4>1, SilentKeeps
    <3>4. QED
      BY <3>1, <3>2, <3>3
  <2>6. SlotInv(s)'
    BY <2>2, <2>5 DEF SlotInv
  <2>7. QED
    BY <2>1, <2>2, <2>5, <2>6, Carried
<1>7. ASSUME NEW ok \in CancelAllResults, NEW paused, SenderRejected(paused, ok)
      PROVE  Fine(s)'
  <2>1. /\ UNCHANGED <<slots, created, mailbox, swap, poller>>
        /\ sender.pc = "gate" /\ sender'.pc = "idle" /\ sender'.batch[s] = NoOp
        /\ events' = ClearFailedCreates(events, sender.batch)
        /\ book' = IF paused THEN AfterCancelAll(ok) ELSE book
    BY <1>2, <1>7 DEF SenderRejected, hotVars, pollVars
  <2>2. /\ SlotOK(slots[s], created[s], mailbox[s], "idle", NoOp, events'[s], book[s])
        /\ \A v, a : SnapOK(slots[s], sender.batch[s], events[s], book[s], v, a)
                       => SnapOK(slots[s], NoOp, events'[s], book[s], v, a)
    BY <2>1, GaveUp
  <2>3. \A n \in Ids : book'[s][n] > 0 => book[s][n] > 0
    BY <2>1, IdleTypes DEF AfterCancelAll
  <2>4. Typed(slots[s], created[s], mailbox[s], NoOp, events'[s], book[s]) /\ book'[s] \in [Ids -> Sizes]
    BY <1>1, IdleTypes DEF Typed, TypeOK, View, EventQueues
  <2>5. /\ SlotOK(slots[s], created[s], mailbox[s], "idle", NoOp, events'[s], book'[s])
        /\ \A v, a : SnapOK(slots[s], NoOp, events'[s], book[s], v, a)
                       => SnapOK(slots[s], NoOp, events'[s], book'[s], v, a)
    BY <2>2, <2>3, <2>4, LessRests
  <2>6. SlotInv(s)'
    BY <2>1, <2>5 DEF SlotInv
  <2>7. QED
    BY <2>1, <2>2, <2>5, <2>6, Carried
<1>8. ASSUME NEW ok \in CancelAllResults, SenderUnknown(ok)
      PROVE  Fine(s)'
  <2>1. /\ UNCHANGED <<slots, created, mailbox, events, swap, poller>>
        /\ sender'.pc = "idle" /\ sender'.batch[s] = NoOp /\ book' = NoOrders
    BY <1>2, <1>8 DEF SenderUnknown, AfterCancelAll, CancelAllResults, Healthy, Prompt, hotVars, pollVars
  <2>2. (\A n \in Ids : book'[s][n] = 0) /\ book'[s] \in [Ids -> Sizes]
    BY <2>1, IdleTypes DEF TypeOK, View
  <2>3. \A n \in Ids : book'[s][n] > 0 => book[s][n] > 0
    BY <2>2
  <2>4. /\ SlotOK(slots[s], created[s], mailbox[s], sender.pc, sender.batch[s], events[s], book'[s])
        /\ \A v, a : SnapOK(slots[s], sender.batch[s], events[s], book[s], v, a)
                       => SnapOK(slots[s], sender.batch[s], events[s], book'[s], v, a)
    BY <1>1, <2>2, <2>3, LessRests
  <2>5. Typed(slots[s], created[s], mailbox[s], sender.batch[s], events[s], book'[s])
    BY <1>1, <2>2 DEF Typed
  <2>6. /\ SlotOK(slots[s], created[s], mailbox[s], "idle", NoOp, events[s], book'[s])
        /\ \A v, a : SnapOK(slots[s], sender.batch[s], events[s], book'[s], v, a)
                       => SnapOK(slots[s], NoOp, events[s], book'[s], v, a)
    BY <2>2, <2>4, <2>5, SilentKeeps
  <2>7. SlotInv(s)'
    BY <2>1, <2>6 DEF SlotInv
  <2>8. QED
    BY <2>1, <2>4, <2>6, <2>7, Carried
<1>9. QED
  BY <1>3, <1>4, <1>5, <1>6, <1>7, <1>8 DEF SenderStep

(* The reconcile poller keeps every slot fine: a fetch sees the whole book *)
(* and what it cancels only takes orders away.                             *)
LEMMA PollerHealthy ==
    ASSUME TypeOK, ShapeInv, TypeOK', NEW s \in Slots, Fine(s), Healthy, PollerStep
    PROVE  Fine(s)'
<1>1. SlotOK(slots[s], created[s], mailbox[s], sender.pc, sender.batch[s], events[s], book[s])
  BY DEF Fine, SlotInv
<1>2. ASSUME NEW seen, PollFetch(seen) PROVE Fine(s)'
  <2>1. /\ UNCHANGED <<slots, created, mailbox, events, sender, swap, book>>
        /\ seen = LiveIn(book)
        /\ poller' = [IdlePoller EXCEPT
                        !.pc = "fetched",
                        !.snap = [t \in Slots |-> [n \in Ids |->
                                    IF <<t, n>> \in seen THEN book[t][n] ELSE 0]]]
    <3>1. ~ (partials < MaxPartial)
      BY EnvAssumption DEF TypeOK, Healthy, Prompt, EnvAssumption
    <3>2. QED
      BY <1>2, <3>1 DEF PollFetch, hotVars, exchVars
  <2>2. poller'.age = 0 /\ poller'.snap[s] = [n \in Ids |-> IF <<s, n>> \in seen THEN book[s][n] ELSE 0]
    BY <2>1 DEF IdlePoller
  <2>3. \A n \in Ids : book[s][n] > 0 => <<s, n>> \in seen
    BY <2>1 DEF LiveIn, Orders
  <2>4. \A n \in Ids : book[s][n] > 0 => poller'.snap[s][n] # 0
    BY <2>2, <2>3
  <2>5. PollInv(s)'
    BY <2>1, <2>2, <2>4, Bounds DEF PollInv, SnapOK
  <2>6. SlotInv(s)' /\ SwapInv(s)'
    BY <1>1, <2>1 DEF Fine, SlotInv, SwapInv
  <2>7. QED
    BY <2>1, <2>5, <2>6 DEF Fine
<1>3. ASSUME NEW others, PollRecord(others) PROVE Fine(s)'
  <2>1. /\ UNCHANGED <<slots, created, mailbox, events, sender, book>> /\ poller.pc = "fetched"
        /\ swap'.view = poller.snap /\ swap'.age = poller.age
    BY <1>3 DEF PollRecord, hotVars, exchVars
  <2>2. poller'.pc # "fetched"
    BY <1>3 DEF PollRecord, TypeOK, IdlePoller
  <2>3. SnapOK(slots[s], sender.batch[s], events[s], book[s], poller.snap[s], poller.age)
    BY <2>1 DEF Fine, PollInv
  <2>4. SwapInv(s)'
    BY <2>1, <2>3 DEF SwapInv
  <2>5. SlotInv(s)'
    BY <1>1, <2>1 DEF SlotInv
  <2>6. QED
    BY <2>1, <2>2, <2>4, <2>5 DEF Fine, PollInv
<1>4. ASSUME NEW ok, PollCancelAll(ok) PROVE Fine(s)'
  <2>1. /\ UNCHANGED <<slots, created, mailbox, events, sender, swap>>
        /\ poller'.pc # "fetched" /\ book' = AfterCancelAll(ok)
    BY <1>4 DEF PollCancelAll, IdlePoller, hotVars
  <2>2. \A n \in Ids : book'[s][n] > 0 => book[s][n] > 0
    BY <2>1, IdleTypes DEF AfterCancelAll
  <2>3. QED
    BY <2>1, <2>2, FewerOrders
<1>5. ASSUME NEW o \in Orders, NEW ok, PollCancelOrphan(o, ok) PROVE Fine(s)'
  <2>1. /\ UNCHANGED <<slots, created, mailbox, events, sender, swap>>
        /\ book' = IF ok THEN [book EXCEPT ![o[1]][o[2]] = 0] ELSE book
    BY <1>5 DEF PollCancelOrphan, hotVars
  <2>2. poller'.pc # "fetched"
    BY <1>5 DEF PollCancelOrphan, TypeOK
  <2>3. PICK t \in Slots, m \in Ids : o[1] = t /\ o[2] = m
    BY DEF Orders
  <2>4. \A n \in Ids : book'[s][n] > 0 => book[s][n] > 0
    BY <2>1, <2>3 DEF TypeOK, View
  <2>5. QED
    BY <2>1, <2>2, <2>4, FewerOrders
<1>6. CASE PollDone
  <2>1. UNCHANGED <<slots, created, mailbox, events, sender, swap, book>> /\ poller'.pc # "fetched"
    BY <1>6 DEF PollDone, IdlePoller, hotVars, exchVars
  <2>2. QED
    BY <2>1, FewerOrders
<1>7. QED
  BY <1>2, <1>3, <1>4, <1>5, <1>6 DEF PollerStep

(* The exchange, the streams and the clock keep every slot fine.           *)
LEMMA EnvironmentHealthy ==
    ASSUME TypeOK, ShapeInv, TypeOK', NEW s \in Slots, Fine(s), Healthy, Environment
    PROVE  Fine(s)'
<1>1. /\ Typed(slots[s], created[s], mailbox[s], sender.batch[s], events[s], book[s])
      /\ SlotOK(slots[s], created[s], mailbox[s], sender.pc, sender.batch[s], events[s], book[s])
  BY SlotTyped DEF Fine, SlotInv
<1>2. CASE ExchangeAccept
  <2>1. PICK o : o = sender.batch[s]
    OBVIOUS
  <2>2. /\ UNCHANGED <<slots, created, mailbox, events, swap, poller>> /\ sender.pc = "gate"
        /\ o.act = "modify" => book[s][o.id] > 0
        /\ book'[s] = IF o.act = "none" THEN book[s] ELSE [book[s] EXCEPT ![o.id] = o.size]
    BY <1>2, <2>1 DEF ExchangeAccept, hotVars, pollVars
  <2>3. sender'.pc = "landed" /\ sender'.batch[s] = o
    BY <1>2, <2>1 DEF ExchangeAccept, TypeOK
  <2>4. /\ Typed(slots[s], created[s], mailbox[s], o, events[s], book[s])
        /\ SlotOK(slots[s], created[s], mailbox[s], "gate", o, events[s], book[s])
    BY <1>1, <2>1, <2>2
  <2>5. /\ SlotOK(slots[s], created[s], mailbox[s], "landed", o, events[s], book'[s])
        /\ \A v, a : SnapOK(slots[s], o, events[s], book[s], v, a)
                       => SnapOK(slots[s], o, events[s], book'[s], v, a)
    BY <2>2, <2>4, AcceptKeeps
  <2>6. SlotInv(s)'
    BY <2>2, <2>3, <2>5 DEF SlotInv
  <2>7. QED
    BY <2>1, <2>2, <2>3, <2>5, <2>6, Carried
<1>3. ASSUME NEW t \in Slots, NEW n \in Ids, ExchangeKill(t, n)
      PROVE  Fine(s)'
  <2>1. UNCHANGED <<slots, created, mailbox, events, sender, swap, poller>>
    BY <1>3 DEF ExchangeKill, hotVars, pollVars
  <2>2. \A m \in Ids : book'[s][m] > 0 => book[s][m] > 0
    BY <1>3 DEF ExchangeKill, TypeOK, View
  <2>3. QED
    BY <2>1, <2>2, FewerOrders
<1>4. ASSUME NEW t \in Slots, NEW n \in Ids, LoseFill(t, n) \/ ResolveId(t, n)
      PROVE  Fine(s)'
  <2>1. UNCHANGED <<slots, created, mailbox, events, sender, swap, poller, book>>
    BY <1>4 DEF LoseFill, ResolveId, hotVars, pollVars, exchVars
  <2>2. QED
    BY <2>1, FewerOrders
<1>5. CASE Tick
  <2>1. /\ UNCHANGED <<created, mailbox, events, sender, book>>
        /\ slots'[s] = IF slots[s].id = NoId THEN slots[s] ELSE [slots[s] EXCEPT !.age = Older(@)]
    BY <1>5 DEF Tick, exchVars
  <2>2. /\ mailbox[s] # NoOp \/ sender.batch[s] # NoOp \/ events[s] # <<>> => slots[s].age + 1 < Grace
        /\ poller.pc = "fetched" => poller.age + 1 < Grace
        /\ swap.full => swap.age + 1 < Grace
    BY <1>5 DEF Tick, Healthy, Prompt, InPipeline
  <2>3. /\ swap'.full = swap.full /\ swap'.view = swap.view /\ (swap.full => swap'.age = Older(swap.age))
        /\ poller'.pc = poller.pc /\ poller'.snap = poller.snap
        /\ poller.pc = "fetched" => poller'.age = Older(poller.age)
    BY <1>5 DEF Tick, TypeOK, Snapshot
  <2>4. /\ SlotOK(slots'[s], created[s], mailbox[s], sender.pc, sender.batch[s], events[s], book[s])
        /\ \A v : \A a \in Nat :
             SnapOK(slots[s], sender.batch[s], events[s], book[s], v, a) /\ a + 1 < Grace
               => SnapOK(slots'[s], sender.batch[s], events[s], book[s], v, Older(a))
    BY <1>1, <2>1, <2>2, TickKeeps
  <2>5. swap.age \in Nat /\ poller.age \in Nat
    BY SlotTyped
  <2>6. SlotInv(s)'
    BY <2>1, <2>4 DEF SlotInv
  <2>7. SwapInv(s)'
    BY <2>1, <2>2, <2>3, <2>4, <2>5 DEF Fine, SwapInv
  <2>8. PollInv(s)'
    BY <2>1, <2>2, <2>3, <2>4, <2>5 DEF Fine, PollInv
  <2>9. QED
    BY <2>6, <2>7, <2>8 DEF Fine
<1>6. QED
  BY <1>2, <1>3, <1>4, <1>5 DEF Environment, Healthy

-----------------------------------------------------------------------------
(* FILLS: LEMMAS ABOUT ONE SLOT                                            *)

(* Orders that go, u reaching a quote only by orders that went.            *)
LEMMA WeakLess ==
    ASSUME NEW sl, NEW c, NEW mb, NEW pc, NEW op, NEW q, NEW bk, NEW u,
           Typed(sl, c, mb, op, q, bk), WeakOK(sl, c, mb, pc, op, q, bk, u),
           NEW less \in [Ids -> Sizes], \A n \in Ids : less[n] > 0 => bk[n] > 0,
           NEW w, \A n \in Ids : w[n] >= BaseSize => u[n] >= BaseSize \/ (bk[n] > 0 /\ less[n] = 0)
    PROVE  /\ WeakOK(sl, c, mb, pc, op, q, less, w)
           /\ \A v, a : HeldOK(sl, op, q, bk, v, a) => HeldOK(sl, op, q, less, v, a)
<1>1. \A n \in Ids : bk[n] = 0 => less[n] = 0
  BY Shapes, Bounds DEF Sizes
<1>2. BoundOK(sl, c, mb, op, q, less)
  BY DEF WeakOK, BoundOK
<1>3. FreshOK(mb, pc, op, less)
  BY <1>1, Shapes DEF WeakOK, FreshOK
<1>4. \A n \in Ids : Gone(c, mb, pc, op, bk, n) => Gone(c, mb, pc, op, less, n)
  BY <1>1 DEF Gone
<1>5. ASSUME NEW n \in Ids, bk[n] > 0, less[n] = 0 PROVE Gone(c, mb, pc, op, less, n)
  BY <1>5 DEF WeakOK, BoundOK, FreshOK, Gone
<1>6. GoneOK(c, mb, pc, op, q, less, w)
  BY <1>4, <1>5, Shapes DEF WeakOK, GoneOK
<1>7. \A v, a : HeldOK(sl, op, q, bk, v, a) => HeldOK(sl, op, q, less, v, a)
  BY DEF HeldOK
<1>8. QED
  BY <1>2, <1>3, <1>6, <1>7 DEF WeakOK

(* A slot that changes: its order is bounded and it is young, or it is no  *)
(* older than it was.                                                      *)
LEMMA WeakSlot ==
    ASSUME NEW sl, NEW c, NEW mb, NEW pc, NEW op, NEW q, NEW bk, NEW u,
           Typed(sl, c, mb, op, q, bk), WeakOK(sl, c, mb, pc, op, q, bk, u),
           NEW new \in SlotType, new.id <= c,
           new.age = 0 \/ (new.id = sl.id /\ new.age = sl.age)
    PROVE  /\ WeakOK(new, c, mb, pc, op, q, bk, u)
           /\ \A v : \A a \in Nat : HeldOK(sl, op, q, bk, v, a) => HeldOK(new, op, q, bk, v, a)
<1>1. Grace > 0 /\ Grace \in Nat
  BY Bounds
<1>2. BoundOK(new, c, mb, op, q, bk)
  BY DEF WeakOK, BoundOK
<1>3. SettlesOK(new, mb, op, q)
  BY <1>1 DEF WeakOK, SettlesOK
<1>4. \A v : \A a \in Nat : HeldOK(sl, op, q, bk, v, a) => HeldOK(new, op, q, bk, v, a)
  BY DEF HeldOK
<1>5. QED
  BY <1>2, <1>3, <1>4 DEF WeakOK

(* process_reconcile; a freed order is gone.                               *)
LEMMA WeakReconcile ==
    ASSUME NEW sl, NEW c, NEW mb, NEW pc, NEW op, NEW q, NEW bk, NEW u,
           Typed(sl, c, mb, op, q, bk), WeakOK(sl, c, mb, pc, op, q, bk, u),
           NEW v \in [Ids -> Sizes], NEW a \in Nat, HeldOK(sl, op, q, bk, v, a),
           NEW new, new = ProcessReconcile(sl, v)
    PROVE  /\ new \in SlotType /\ WeakOK(new, c, mb, pc, op, q, bk, u)
           /\ \A w : \A b \in Nat : HeldOK(sl, op, q, bk, w, b) => HeldOK(new, op, q, bk, w, b)
           /\ sl.id # NoId /\ new.id = NoId => Gone(c, mb, pc, op, bk, sl.id)
<1>0. sl \in SlotType /\ IdleSlot.id = NoId /\ IdleSlot.age = 0
  BY DEF Typed, IdleSlot
<1>1. /\ sl \in SlotType /\ IdleSlot.id = NoId /\ IdleSlot.age = 0
      /\ c \in Nat /\ sl.age \in Nat /\ Grace \in Nat
  BY <1>0, Shapes, Bounds
<1>2. /\ new \in SlotType
      /\ new = IdleSlot \/ (new.id = sl.id /\ new.age \in {0, sl.age})
  BY <1>1, ReconcileType
<1>3. new.id <= c /\ (new.age = 0 \/ (new.id = sl.id /\ new.age = sl.age))
  BY <1>1, <1>2 DEF WeakOK, BoundOK, NoId
<1>4. /\ WeakOK(new, c, mb, pc, op, q, bk, u)
      /\ \A w : \A b \in Nat : HeldOK(sl, op, q, bk, w, b) => HeldOK(new, op, q, bk, w, b)
  BY <1>2, <1>3, WeakSlot
<1>5. ASSUME sl.id # NoId, new.id = NoId PROVE Gone(c, mb, pc, op, bk, sl.id)
  <2>1. new = IdleSlot
    BY <1>2, <1>5
  <2>2. sl.id \in Ids /\ v[sl.id] = 0 /\ ~(sl.age < Grace)
    BY <1>1, <1>5, <2>1, ReconcileClears
  <2>3. mb = NoOp /\ op = NoOp /\ ~Binds(q, sl.id)
    BY <2>2 DEF WeakOK, SettlesOK, Binds
  <2>4. ~ (bk[sl.id] > 0)
    BY <1>1, <2>2, <2>3 DEF HeldOK, NoOp
  <2>5. bk[sl.id] = 0
    BY <2>2, <2>4, Shapes
  <2>6. QED
    BY <2>3, <2>5 DEF Gone, NoOp, WeakOK, BoundOK
<1>6. QED
  BY <1>2, <1>4, <1>5

(* Draining one event; a freed order is gone, unless by a partial fill.    *)
LEMMA WeakDrain ==
    ASSUME NEW sl, NEW c, NEW mb, NEW pc, NEW op, NEW q, NEW bk, NEW u,
           Typed(sl, c, mb, op, q, bk), WeakOK(sl, c, mb, pc, op, q, bk, u), q # <<>>,
           NEW new \in SlotType, new = ApplyEvent(sl, Head(q))
    PROVE  /\ WeakOK(new, c, mb, pc, op, Tail(q), bk, u)
           /\ \A v : \A a \in Nat :
                HeldOK(sl, op, q, bk, v, a) => HeldOK(new, op, Tail(q), bk, v, a)
           /\ sl.id # NoId /\ new.id = NoId =>
                Gone(c, mb, pc, op, bk, sl.id)
                  \/ (Head(q).kind = "Fill" /\ Head(q).size < BaseSize)
<1>1. PICK e, t : e = Head(q) /\ t = Tail(q)
  OBVIOUS
<1>2. q \in Seq(EventType) /\ sl \in SlotType
  BY DEF Typed
<1>3. /\ t \in Seq(EventType) /\ Len(t) \in Nat /\ Len(t) = Len(q) - 1 /\ e = q[1] /\ 1 \in 1 .. Len(q)
      /\ \A i \in 1 .. Len(t) : t[i] = q[i + 1] /\ i + 1 \in 1 .. Len(q)
  BY <1>1, <1>2
<1>4. /\ e \in EventType /\ e.kind \in {"BindLive", "ClearLive", "Fill"} /\ e.id \in Ids
      /\ e.kind = "BindLive" => e.id <= c
  BY <1>3, Shapes DEF EventType, WeakOK, BoundOK
<1>5. Typed(sl, c, mb, op, t, bk)
  BY <1>3 DEF Typed
<1>6. WeakOK(sl, c, mb, pc, op, t, bk, u)
  <2>1. BoundOK(sl, c, mb, op, t, bk)
    BY <1>3 DEF WeakOK, BoundOK
  <2>2. GoneOK(c, mb, pc, op, t, bk, u)
    BY <1>3 DEF WeakOK, GoneOK
  <2>3. SettlesOK(sl, mb, op, t)
    BY <1>3 DEF WeakOK, SettlesOK
  <2>4. QED
    BY <2>1, <2>2, <2>3 DEF WeakOK
<1>7. IdleSlot.id = NoId /\ IdleSlot.age = 0 /\ NoId <= c
  BY Shapes DEF IdleSlot, NoId
<1>8. CASE e.kind = "BindLive"
  <2>1. new = BindLive(sl, e.id, e.size)
    BY <1>1, <1>8 DEF ApplyEvent
  <2>2. new.id = e.id /\ new.age = 0 /\ new.id <= c /\ new.id # NoId
    <3>1. new.id = e.id /\ new.age = 0
      BY <1>2, <2>1 DEF BindLive, Touch, SlotType
    <3>2. QED
      BY <1>4, <1>8, <3>1 DEF Ids, NoId
  <2>3. WeakOK(new, c, mb, pc, op, t, bk, u)
    BY <1>5, <1>6, <2>2, WeakSlot
  <2>4. \A v : \A a \in Nat : HeldOK(sl, op, q, bk, v, a) => HeldOK(new, op, t, bk, v, a)
    BY <2>2 DEF HeldOK
  <2>5. QED
    BY <1>1, <2>2, <2>3, <2>4
<1>9. CASE e.kind # "BindLive"
  <2>1. Gone(c, mb, pc, op, bk, e.id) \/ (e.kind = "Fill" /\ e.size < BaseSize)
    <3>1. e.size \in Nat /\ BaseSize \in Nat
      BY <1>4, Bounds DEF EventType
    <3>2. Ends(e) \/ (e.kind = "Fill" /\ e.size < BaseSize)
      BY <1>4, <1>9, <3>1 DEF Ends
    <3>3. QED
      BY <1>3, <3>2 DEF WeakOK, GoneOK
  <2>2. ASSUME NEW n, Binds(q, n) PROVE Binds(t, n)
    <3>1. PICK i \in 1 .. Len(q) : q[i].kind = "BindLive" /\ q[i].id = n
      BY <2>2 DEF Binds
    <3>2. i # 1
      BY <1>3, <1>9, <3>1
    <3>3. i - 1 \in 1 .. Len(t) /\ t[i - 1] = q[i]
      BY <1>3, <3>2
    <3>4. QED
      BY <3>1, <3>3 DEF Binds
  <2>3. ASSUME NEW v, NEW a \in Nat, HeldOK(sl, op, q, bk, v, a) PROVE HeldOK(sl, op, t, bk, v, a)
    BY <2>2, <2>3 DEF HeldOK
  <2>4. \/ new = sl
        \/ sl.id = e.id /\ new = IdleSlot
        \/ new.id = sl.id /\ new.age = 0
    <3>1. CASE e.kind = "ClearLive"
      BY <1>1, <1>4, <3>1 DEF ApplyEvent, ClearLive, NoId, Ids
    <3>2. CASE e.kind = "Fill"
      <4>1. new = ApplyFill(sl, e.id, e.size)
        BY <1>1, <3>2 DEF ApplyEvent
      <4>2. PICK k : k = [sl EXCEPT !.size = @ - e.size]
        OBVIOUS
      <4>3. Touch(k).id = sl.id /\ Touch(k).age = 0
        BY <1>2, <4>2 DEF Touch, SlotType
      <4>4. QED
        BY <4>1, <4>2, <4>3 DEF ApplyFill
    <3>3. QED
      BY <1>4, <1>9, <3>1, <3>2
  <2>5. new.id <= c /\ (new.age = 0 \/ (new.id = sl.id /\ new.age = sl.age))
    BY <1>7, <2>4 DEF WeakOK, BoundOK
  <2>6. /\ WeakOK(new, c, mb, pc, op, t, bk, u)
        /\ \A v : \A a \in Nat : HeldOK(sl, op, t, bk, v, a) => HeldOK(new, op, t, bk, v, a)
    BY <1>5, <1>6, <2>5, WeakSlot
  <2>7. sl.id # NoId /\ new.id = NoId => sl.id = e.id
    BY <2>4
  <2>8. QED
    BY <1>1, <2>1, <2>3, <2>6, <2>7
<1>10. QED
  BY <1>8, <1>9

(* An unsent operation is dropped.                                         *)
LEMMA WeakDrop ==
    ASSUME NEW sl, NEW c, NEW mb, NEW pc, NEW op, NEW q, NEW bk, NEW u,
           Typed(sl, c, mb, op, q, bk), WeakOK(sl, c, mb, pc, op, q, bk, u)
    PROVE  WeakOK(sl, c, NoOp, pc, op, q, bk, u)
<1>1. NoOp.act = "none" /\ NoOp.id <= c
  BY Shapes DEF NoOp, NoId
<1>2. BoundOK(sl, c, NoOp, op, q, bk) /\ FreshOK(NoOp, pc, op, bk) /\ SettlesOK(sl, NoOp, op, q)
  BY <1>1 DEF WeakOK, BoundOK, FreshOK, SettlesOK
<1>3. GoneOK(c, NoOp, pc, op, q, bk, u)
  BY <1>1 DEF WeakOK, GoneOK, Gone
<1>4. QED
  BY <1>2, <1>3 DEF WeakOK

(* mark_pending on the operation collected for the slot.                   *)
LEMMA WeakCollect ==
    ASSUME NEW sl, NEW c, NEW mb, NEW pc, NEW op, NEW q, NEW bk, NEW u,
           Typed(sl, c, mb, op, q, bk), WeakOK(sl, c, mb, pc, op, q, bk, u),
           NEW o \in OpType, NEW d, Emits(sl, c, o, d),
           NEW new \in SlotType, new = MarkPending(sl, o)
    PROVE  /\ WeakOK(new, d, o, pc, op, q, bk, u)
           /\ \A v : \A a \in Nat : HeldOK(sl, op, q, bk, v, a) => HeldOK(new, op, q, bk, v, a)
           /\ new.id = NoId => sl.id = NoId
<1>0. c \in Nat /\ 0 < Grace /\ Grace \in Nat /\ op.id \in Nat
  BY Shapes, Bounds
<1>1. sl \in SlotType /\ c \in Nat /\ 0 < Grace /\ Grace \in Nat /\ op.id \in Nat
  BY <1>0 DEF Typed
<1>2. CASE o = NoOp /\ d = c
  <2>1. new = sl
    BY <1>2 DEF MarkPending, NoOp
  <2>2. QED
    BY <1>2, <2>1, WeakDrop
<1>3. CASE o.act = "create" /\ sl.id = NoId /\ d = c + 1 /\ o.id = d
  <2>1. new.id = d /\ new.age = 0
    BY <1>1, <1>3 DEF MarkPending, Touch, SlotType
  <2>2. d \in Nat /\ c < d /\ d \in Ids
    BY <1>1, <1>3 DEF OpType, Ids, NoId
  <2>3. \A x \in Nat : x <= c => x <= d /\ x # d
    BY <1>1, <2>2
  <2>4. bk[d] = 0
    BY <1>1, <2>2, Shapes DEF WeakOK, BoundOK
  <2>5. op.id <= d /\ op.id # d
    BY <1>1, <2>3 DEF WeakOK, BoundOK
  <2>6. Ids \subseteq Nat
    BY DEF Ids
  <2>7. BoundOK(new, d, o, op, q, bk)
    <3>1. \A i \in 1 .. Len(q) : q[i].kind = "BindLive" => q[i].id <= d
      BY <2>3, <2>6, Shapes DEF WeakOK, BoundOK
    <3>2. \A n \in Ids : bk[n] > 0 => n <= d
      BY <2>3, <2>6 DEF WeakOK, BoundOK
    <3>3. d <= d
      BY <2>2
    <3>4. QED
      BY <1>3, <2>1, <2>5, <3>1, <3>2, <3>3 DEF BoundOK
  <2>8. FreshOK(o, pc, op, bk) /\ SettlesOK(new, o, op, q)
    BY <1>1, <1>3, <2>1, <2>4, <2>5 DEF WeakOK, FreshOK, SettlesOK
  <2>9. \A n \in Ids : Gone(c, mb, pc, op, bk, n) => Gone(d, o, pc, op, bk, n)
    BY <1>3, <2>3, <2>6 DEF Gone
  <2>10. GoneOK(d, o, pc, op, q, bk, u)
    BY <2>9, Shapes DEF WeakOK, GoneOK
  <2>11. \A v : \A a \in Nat : HeldOK(sl, op, q, bk, v, a) => HeldOK(new, op, q, bk, v, a)
    BY <2>1 DEF HeldOK
  <2>12. QED
    BY <2>1, <2>2, <2>7, <2>8, <2>10, <2>11 DEF WeakOK, Ids, NoId
<1>4. CASE o.act \in {"modify", "cancel"} /\ sl.id \in Ids /\ o.id = sl.id /\ d = c
  <2>1. new.id = sl.id /\ new.age = 0
    BY <1>1, <1>4 DEF MarkPending, Touch, SlotType
  <2>2. BoundOK(new, c, o, op, q, bk)
    BY <1>4, <2>1 DEF WeakOK, BoundOK
  <2>3. FreshOK(o, pc, op, bk) /\ SettlesOK(new, o, op, q)
    BY <1>1, <1>4, <2>1 DEF WeakOK, FreshOK, SettlesOK
  <2>4. GoneOK(c, o, pc, op, q, bk, u)
    BY <1>4 DEF WeakOK, GoneOK, Gone
  <2>5. \A v : \A a \in Nat : HeldOK(sl, op, q, bk, v, a) => HeldOK(new, op, q, bk, v, a)
    BY <2>1 DEF HeldOK
  <2>6. QED
    BY <1>4, <2>1, <2>2, <2>3, <2>4, <2>5 DEF WeakOK
<1>5. QED
  BY <1>2, <1>3, <1>4 DEF Emits

(* The sender takes the mailbox.                                           *)
LEMMA WeakTake ==
    ASSUME NEW sl, NEW c, NEW mb, NEW pc, NEW q, NEW bk, NEW u,
           Typed(sl, c, mb, NoOp, q, bk), WeakOK(sl, c, mb, pc, NoOp, q, bk, u)
    PROVE  /\ WeakOK(sl, c, NoOp, "gate", mb, q, bk, u)
           /\ \A v, a : HeldOK(sl, NoOp, q, bk, v, a) => HeldOK(sl, mb, q, bk, v, a)
<1>1. NoOp.act = "none" /\ NoOp.id <= c
  BY Shapes DEF NoOp, NoId
<1>2. BoundOK(sl, c, NoOp, mb, q, bk) /\ FreshOK(NoOp, "gate", mb, bk) /\ SettlesOK(sl, NoOp, mb, q)
  BY <1>1 DEF WeakOK, BoundOK, FreshOK, SettlesOK
<1>3. GoneOK(c, NoOp, "gate", mb, q, bk, u)
  BY <1>1 DEF WeakOK, GoneOK, Gone
<1>4. \A v, a : HeldOK(sl, NoOp, q, bk, v, a) => HeldOK(sl, mb, q, bk, v, a)
  BY <1>1 DEF HeldOK
<1>5. QED
  BY <1>2, <1>3, <1>4 DEF WeakOK

(* An event is appended: its order is gone if it ends one, its operation   *)
(* keeps the slot young if it binds one.                                   *)
LEMMA WeakAppend ==
    ASSUME NEW sl, NEW c, NEW mb, NEW pc, NEW op, NEW q, NEW bk, NEW u,
           Typed(sl, c, mb, op, q, bk), WeakOK(sl, c, mb, pc, op, q, bk, u),
           NEW e \in EventType,
           Ends(e) => Gone(c, mb, pc, op, bk, e.id),
           e.kind = "BindLive" => e.id <= c /\ sl.age < Grace,
           NEW r, r = Append(q, e)
    PROVE  /\ WeakOK(sl, c, mb, pc, op, r, bk, u)
           /\ \A v, a : HeldOK(sl, op, q, bk, v, a) => HeldOK(sl, op, r, bk, v, a)
<1>1. q \in Seq(EventType)
  BY DEF Typed
<1>2. /\ \A i \in 1 .. Len(q) : i \in 1 .. Len(r) /\ r[i] = q[i]
      /\ \A i \in 1 .. Len(r) : i \in 1 .. Len(q) \/ (i = Len(r) /\ r[i] = e)
      /\ \A n : Binds(q, n) => Binds(r, n)
  <2>1. /\ \A i \in 1 .. Len(q) : i \in 1 .. Len(r) /\ r[i] = q[i]
        /\ \A i \in 1 .. Len(r) : i \in 1 .. Len(q) \/ (i = Len(r) /\ r[i] = e)
    BY <1>1, Appended
  <2>2. \A n : Binds(q, n) => Binds(r, n)
    BY <1>1, Appended
  <2>3. QED
    BY <2>1, <2>2
<1>3. BoundOK(sl, c, mb, op, r, bk)
  BY <1>2 DEF WeakOK, BoundOK
<1>4. GoneOK(c, mb, pc, op, r, bk, u)
  BY <1>2 DEF WeakOK, GoneOK
<1>5. SettlesOK(sl, mb, op, r)
  BY <1>2 DEF WeakOK, SettlesOK
<1>6. \A v, a : HeldOK(sl, op, q, bk, v, a) => HeldOK(sl, op, r, bk, v, a)
  BY <1>2 DEF HeldOK
<1>7. QED
  BY <1>3, <1>4, <1>5, <1>6 DEF WeakOK

(* The sender lets go of its operation: a create that landed has been      *)
(* answered, or its order does not rest.                                   *)
LEMMA WeakRelease ==
    ASSUME NEW sl, NEW c, NEW mb, NEW pc, NEW op, NEW q, NEW bk, NEW u,
           Typed(sl, c, mb, op, q, bk), WeakOK(sl, c, mb, pc, op, q, bk, u),
           op.act = "create" => bk[op.id] = 0 \/ Binds(q, op.id)
    PROVE  /\ WeakOK(sl, c, mb, "idle", NoOp, q, bk, u)
           /\ \A v, a : HeldOK(sl, op, q, bk, v, a) => HeldOK(sl, NoOp, q, bk, v, a)
<1>1. NoOp.act = "none" /\ NoOp.id = 0 /\ 0 <= c
  BY Shapes DEF NoOp, NoId
<1>2. mb.act = "create" => mb.id # 0
  BY Shapes DEF Ids
<1>3. BoundOK(sl, c, mb, NoOp, q, bk) /\ FreshOK(mb, "idle", NoOp, bk) /\ SettlesOK(sl, mb, NoOp, q)
  BY <1>1, <1>2 DEF WeakOK, BoundOK, FreshOK, SettlesOK
<1>4. GoneOK(c, mb, "idle", NoOp, q, bk, u)
  BY <1>1 DEF WeakOK, GoneOK, Gone
<1>5. \A v, a : HeldOK(sl, op, q, bk, v, a) => HeldOK(sl, NoOp, q, bk, v, a)
  BY Shapes DEF HeldOK
<1>6. QED
  BY <1>3, <1>4, <1>5 DEF WeakOK

(* The exchange takes the operation.                                       *)
LEMMA WeakAccept ==
    ASSUME NEW sl, NEW c, NEW mb, NEW op, NEW q, NEW bk, NEW u,
           Typed(sl, c, mb, op, q, bk), WeakOK(sl, c, mb, "gate", op, q, bk, u),
           op.act = "modify" => bk[op.id] > 0,
           NEW new, new = IF op.act = "none" THEN bk ELSE [bk EXCEPT ![op.id] = op.size]
    PROVE  /\ WeakOK(sl, c, mb, "landed", op, q, new, u)
           /\ \A v, a : HeldOK(sl, op, q, bk, v, a) => HeldOK(sl, op, q, new, v, a)
<1>1. op.act \in Actions /\ (op.act = "cancel" => op.size = 0)
  BY DEF Typed, OpType, Named
<1>2. CASE op.act = "none"
  <2>1. FreshOK(mb, "landed", op, bk)
    BY <1>2 DEF WeakOK, FreshOK
  <2>2. GoneOK(c, mb, "landed", op, q, bk, u)
    BY <1>2 DEF WeakOK, GoneOK, Gone
  <2>3. QED
    BY <1>2, <2>1, <2>2 DEF WeakOK
<1>3. CASE op.act # "none"
  <2>1. /\ op.id \in Ids /\ op.id <= c
        /\ \A n \in Ids : new[n] = IF n = op.id THEN op.size ELSE bk[n]
    BY <1>3, Shapes DEF Typed, WeakOK, BoundOK
  <2>2. BoundOK(sl, c, mb, op, q, new)
    BY <2>1 DEF WeakOK, BoundOK
  <2>3. mb.act = "create" => mb.id \in Ids /\ mb.id # op.id
    BY Shapes DEF WeakOK, FreshOK
  <2>4. FreshOK(mb, "landed", op, new)
    BY <1>1, <2>1, <2>3 DEF WeakOK, FreshOK
  <2>5. ASSUME NEW n \in Ids, Gone(c, mb, "gate", op, bk, n)
        PROVE  Gone(c, mb, "landed", op, new, n)
    <3>1. n = op.id => op.act = "cancel"
      BY <1>1, <1>3, <2>5 DEF Gone, Actions
    <3>2. new[n] = 0
      BY <1>1, <2>1, <2>5, <3>1 DEF Gone
    <3>3. QED
      BY <2>5, <3>2 DEF Gone
  <2>6. GoneOK(c, mb, "landed", op, q, new, u)
    BY <2>5, Shapes DEF WeakOK, GoneOK
  <2>7. \A v, a : HeldOK(sl, op, q, bk, v, a) => HeldOK(sl, op, q, new, v, a)
    <3>1. \A n \in Ids : new[n] > 0 => bk[n] > 0 \/ (op.act = "create" /\ op.id = n)
      BY <1>1, <1>3, <2>1 DEF Actions
    <3>2. QED
      BY <3>1 DEF HeldOK
  <2>8. QED
    BY <2>2, <2>4, <2>6, <2>7 DEF WeakOK
<1>4. QED
  BY <1>2, <1>3

(* Time passes while nothing but a fill waits past the grace.              *)
LEMMA WeakTick ==
    ASSUME NEW sl, NEW c, NEW mb, NEW pc, NEW op, NEW q, NEW bk, NEW u,
           Typed(sl, c, mb, op, q, bk), WeakOK(sl, c, mb, pc, op, q, bk, u),
           mb # NoOp \/ op # NoOp \/ q # <<>> => sl.age + 1 < Grace,
           NEW new, new = IF sl.id = NoId THEN sl ELSE [sl EXCEPT !.age = Older(@)]
    PROVE  /\ WeakOK(new, c, mb, pc, op, q, bk, u) /\ new.id = sl.id
           /\ \A v : \A a \in Nat : HeldOK(sl, op, q, bk, v, a) /\ a + 1 < Grace
                => HeldOK(new, op, q, bk, v, Older(a))
<1>1. sl.age \in Nat /\ sl.age <= Grace /\ Grace \in Nat /\ Grace > 0
  BY Shapes, Bounds
<1>2. PICK g : g = IF sl.id = NoId THEN sl.age ELSE Older(sl.age)
  OBVIOUS
<1>3. g \in Nat /\ g <= sl.age + 1
  BY <1>1, <1>2 DEF Older
<1>4. new.id = sl.id /\ new.age = g
  BY <1>2 DEF Typed, SlotType
<1>5. q = <<>> => Len(q) = 0
  OBVIOUS
<1>6. SettlesOK(new, mb, op, q)
  <2>1. (\E i \in 1 .. Len(q) : q[i].kind = "BindLive") => q # <<>>
    BY <1>5
  <2>2. mb # NoOp \/ op # NoOp \/ q # <<>> => new.age < Grace
    BY <1>1, <1>3, <1>4
  <2>3. QED
    BY <2>1, <2>2 DEF SettlesOK
<1>7. WeakOK(new, c, mb, pc, op, q, bk, u)
  BY <1>4, <1>6 DEF WeakOK, BoundOK
<1>8. ASSUME NEW v, NEW a \in Nat, HeldOK(sl, op, q, bk, v, a), a + 1 < Grace
      PROVE  HeldOK(new, op, q, bk, v, Older(a))
  <2>1. Older(a) = a + 1 /\ a + 1 < Grace
    BY <1>1, <1>8 DEF Older
  <2>2. sl.age <= a => new.age <= a + 1
    BY <1>1, <1>3, <1>4
  <2>3. QED
    BY <1>4, <1>8, <2>1, <2>2 DEF HeldOK
<1>9. QED
  BY <1>4, <1>7, <1>8

-----------------------------------------------------------------------------
(* WHOLE FILLS: STEPS                                                      *)

(* A step that keeps the slot and takes no new snapshot.                   *)
LEMMA WeakCarried ==
    ASSUME TypeOK, ShapeInv, NEW s \in Slots, WeakInv(s), WeakNow(s)',
           \A v : \A a \in Nat :
               HeldOK(slots[s], sender.batch[s], events[s], book[s], v, a)
                 => HeldOK(slots'[s], sender'.batch[s], events'[s], book'[s], v, a),
           swap' = swap \/ ~swap'.full,
           poller' = poller \/ poller'.pc # "fetched"
    PROVE  WeakInv(s)'
<1>1. swap.age \in Nat /\ poller.age \in Nat
  BY SlotTyped
<1>2. swap'.full =>
        HeldOK(slots'[s], sender'.batch[s], events'[s], book'[s], swap'.view[s], swap'.age)
  BY <1>1 DEF WeakInv
<1>3. poller'.pc = "fetched" =>
        HeldOK(slots'[s], sender'.batch[s], events'[s], book'[s], poller'.snap[s], poller'.age)
  BY <1>1 DEF WeakInv
<1>4. QED
  BY <1>2, <1>3 DEF WeakInv

(* A step that only takes orders off the book, by fills or otherwise.      *)
LEMMA WeakFewer ==
    ASSUME TypeOK, ShapeInv, TypeOK', NEW s \in Slots, WeakInv(s),
           UNCHANGED <<slots, created, mailbox, events, sender, swap>>,
           poller' = poller \/ poller'.pc # "fetched",
           \A n \in Ids : book'[s][n] > 0 => book[s][n] > 0,
           \A n \in Ids : unreported'[s][n] >= BaseSize =>
               unreported[s][n] >= BaseSize \/ (book[s][n] > 0 /\ book'[s][n] = 0)
    PROVE  WeakInv(s)' /\ slots'[s].id = slots[s].id
<1>1. /\ Typed(slots[s], created[s], mailbox[s], sender.batch[s], events[s], book[s])
      /\ WeakOK(slots[s], created[s], mailbox[s], sender.pc, sender.batch[s], events[s],
                 book[s], unreported[s])
  BY SlotTyped DEF WeakInv, WeakNow
<1>2. book'[s] \in [Ids -> Sizes]
  BY DEF TypeOK, View
<1>3. /\ WeakOK(slots[s], created[s], mailbox[s], sender.pc, sender.batch[s], events[s],
                 book'[s], unreported'[s])
      /\ \A v, a : HeldOK(slots[s], sender.batch[s], events[s], book[s], v, a)
                     => HeldOK(slots[s], sender.batch[s], events[s], book'[s], v, a)
  BY <1>1, <1>2, WeakLess
<1>4. WeakNow(s)'
  BY <1>3 DEF WeakNow
<1>5. QED
  BY <1>3, <1>4, WeakCarried

(* The slot the tick starts from; if the snapshot freed it, its order is   *)
(* dead.                                                                   *)
LEMMA WeakReconciled ==
    ASSUME TypeOK, ShapeInv, NEW s \in Slots, WeakInv(s)
    PROVE  /\ Typed(Reconciled[s], created[s], mailbox[s], sender.batch[s], events[s], book[s])
           /\ WeakOK(Reconciled[s], created[s], mailbox[s], sender.pc, sender.batch[s],
                      events[s], book[s], unreported[s])
           /\ \A v : \A a \in Nat :
                HeldOK(slots[s], sender.batch[s], events[s], book[s], v, a)
                  => HeldOK(Reconciled[s], sender.batch[s], events[s], book[s], v, a)
           /\ slots[s].id # NoId /\ Reconciled[s].id = NoId => Dead(s, slots[s].id)
<1>1. /\ Typed(slots[s], created[s], mailbox[s], sender.batch[s], events[s], book[s])
      /\ swap.age \in Nat /\ swap.view[s] \in [Ids -> Sizes]
  BY SlotTyped
<1>2. WeakOK(slots[s], created[s], mailbox[s], sender.pc, sender.batch[s], events[s], book[s],
              unreported[s])
  BY DEF WeakInv, WeakNow
<1>3. Reconciled[s] = IF swap.full THEN ProcessReconcile(slots[s], swap.view[s]) ELSE slots[s]
  BY Ticked
<1>4. CASE swap.full
  <2>1. HeldOK(slots[s], sender.batch[s], events[s], book[s], swap.view[s], swap.age)
    BY <1>4 DEF WeakInv
  <2>2. Reconciled[s] = ProcessReconcile(slots[s], swap.view[s])
    BY <1>3, <1>4
  <2>3. /\ Reconciled[s] \in SlotType
        /\ WeakOK(Reconciled[s], created[s], mailbox[s], sender.pc, sender.batch[s],
                   events[s], book[s], unreported[s])
        /\ \A v : \A a \in Nat :
             HeldOK(slots[s], sender.batch[s], events[s], book[s], v, a)
               => HeldOK(Reconciled[s], sender.batch[s], events[s], book[s], v, a)
        /\ slots[s].id # NoId /\ Reconciled[s].id = NoId =>
             Gone(created[s], mailbox[s], sender.pc, sender.batch[s], book[s], slots[s].id)
    BY <1>1, <1>2, <2>1, <2>2, WeakReconcile
  <2>4. QED
    BY <1>1, <2>3 DEF Typed, Gone, Dead
<1>5. CASE ~swap.full
  BY <1>1, <1>2, <1>3, <1>5
<1>6. QED
  BY <1>4, <1>5

(* The hot task, the only one to free a slot.                              *)
LEMMA WeakHot ==
    ASSUME TypeOK, ShapeInv, TypeOK', NEW s \in Slots, WeakInv(s), HotStep
    PROVE  /\ WeakInv(s)'
           /\ slots[s].id # NoId /\ slots'[s].id = NoId
                => Dead(s, slots[s].id) \/ AppliesPartialFill(s)
<1>1. /\ Typed(slots[s], created[s], mailbox[s], sender.batch[s], events[s], book[s])
      /\ WeakOK(slots[s], created[s], mailbox[s], sender.pc, sender.batch[s], events[s],
                 book[s], unreported[s])
  BY SlotTyped DEF WeakInv, WeakNow
<1>2. ASSUME NEW t \in Slots, HotDrainEvent(t)
      PROVE  /\ WeakInv(s)'
             /\ slots[s].id # NoId /\ slots'[s].id = NoId
                  => Dead(s, slots[s].id) \/ AppliesPartialFill(s)
  <2>1. /\ UNCHANGED <<created, mailbox, sender, swap, poller, book, unreported>>
        /\ slots' = [slots EXCEPT ![t] = ApplyEvent(@, Head(events[t]))]
        /\ events' = [events EXCEPT ![t] = Tail(@)] /\ events[t] # <<>>
    BY <1>2 DEF HotDrainEvent, pollVars, exchVars
  <2>2. slots \in [Slots -> SlotType] /\ events \in [Slots -> Seq(EventType)] /\ slots'[s] \in SlotType
    BY DEF TypeOK, EventQueues
  <2>3. CASE t = s
    <3>1. /\ slots'[s] = ApplyEvent(slots[s], Head(events[s])) /\ events'[s] = Tail(events[s])
          /\ events[s] # <<>>
      BY <2>1, <2>2, <2>3
    <3>2. /\ WeakOK(slots'[s], created[s], mailbox[s], sender.pc, sender.batch[s],
                     events'[s], book[s], unreported[s])
          /\ \A v : \A a \in Nat :
               HeldOK(slots[s], sender.batch[s], events[s], book[s], v, a)
                 => HeldOK(slots'[s], sender.batch[s], events'[s], book[s], v, a)
          /\ slots[s].id # NoId /\ slots'[s].id = NoId =>
               Gone(created[s], mailbox[s], sender.pc, sender.batch[s], book[s], slots[s].id)
                 \/ (Head(events[s]).kind = "Fill" /\ Head(events[s]).size < BaseSize)
      BY <1>1, <2>2, <3>1, WeakDrain
    <3>3. WeakNow(s)'
      BY <2>1, <3>2 DEF WeakNow
    <3>4. WeakInv(s)'
      BY <2>1, <3>2, <3>3, WeakCarried
    <3>5. QED
      BY <3>1, <3>2, <3>4 DEF Dead, Gone, AppliesPartialFill
  <2>4. CASE t # s
    <3>1. slots'[s] = slots[s] /\ events'[s] = events[s]
      BY <2>1, <2>2, <2>4
    <3>2. WeakNow(s)'
      BY <1>1, <2>1, <3>1 DEF WeakNow
    <3>3. WeakInv(s)'
      BY <2>1, <3>1, <3>2, WeakCarried
    <3>4. QED
      BY <3>1, <3>3
  <2>5. QED
    BY <2>3, <2>4
<1>3. CASE HotDrained
  <2>1. UNCHANGED <<slots, created, mailbox, events, sender, swap, poller, book, unreported>>
    BY <1>3 DEF HotDrained, pollVars, exchVars
  <2>2. QED
    BY <2>1, WeakFewer
<1>4. CASE HotTick
  <2>1. UNCHANGED <<events, sender, poller, book, unreported>> /\ ~swap'.full
    BY <1>4, TickEmits DEF TickEnds, NoSnapshot, pollVars, exchVars
  <2>2. PICK ops : Emitted(ops)
    BY <1>4, TickEmits
  <2>3. /\ ops[s] \in OpType /\ slots'[s] = MarkPending(Reconciled[s], ops[s])
        /\ slots'[s] \in SlotType
        /\ Emits(Reconciled[s], created[s], ops[s], created'[s])
        /\ mailbox'[s] = ops[s] \/ (mailbox'[s] = mailbox[s] /\ ops[s] = NoOp)
    BY <2>2, IdleTypes DEF Emitted, Batch
  <2>4. /\ Typed(Reconciled[s], created[s], mailbox[s], sender.batch[s], events[s], book[s])
        /\ WeakOK(Reconciled[s], created[s], mailbox[s], sender.pc, sender.batch[s],
                   events[s], book[s], unreported[s])
        /\ \A v : \A a \in Nat :
             HeldOK(slots[s], sender.batch[s], events[s], book[s], v, a)
               => HeldOK(Reconciled[s], sender.batch[s], events[s], book[s], v, a)
        /\ slots[s].id # NoId /\ Reconciled[s].id = NoId => Dead(s, slots[s].id)
    BY WeakReconciled
  <2>5. /\ WeakOK(slots'[s], created'[s], ops[s], sender.pc, sender.batch[s], events[s],
                   book[s], unreported[s])
        /\ \A v : \A a \in Nat :
             HeldOK(Reconciled[s], sender.batch[s], events[s], book[s], v, a)
               => HeldOK(slots'[s], sender.batch[s], events[s], book[s], v, a)
        /\ slots'[s].id = NoId => Reconciled[s].id = NoId
    BY <2>3, <2>4, WeakCollect
  <2>6. ops[s] = NoOp => slots'[s] = Reconciled[s] /\ created'[s] = created[s]
    BY <2>3 DEF Emits, MarkPending, NoOp
  <2>7. WeakOK(slots'[s], created'[s], mailbox'[s], sender.pc, sender.batch[s], events[s],
                book[s], unreported[s])
    BY <2>3, <2>4, <2>5, <2>6
  <2>8. WeakNow(s)'
    BY <2>1, <2>7 DEF WeakNow
  <2>9. WeakInv(s)'
    BY <2>1, <2>4, <2>5, <2>8, WeakCarried
  <2>10. QED
    BY <2>4, <2>5, <2>9
<1>5. CASE HotRequestResnapshot
  <2>1. /\ UNCHANGED <<slots, created, events, sender, swap, poller, book, unreported>>
        /\ mailbox'[s] = NoOp
    BY <1>5, IdleTypes DEF HotRequestResnapshot, hotVars, pollVars, exchVars
  <2>2. WeakNow(s)'
    BY <1>1, <2>1, WeakDrop DEF WeakNow
  <2>3. WeakInv(s)'
    BY <2>1, <2>2, WeakCarried
  <2>4. QED
    BY <2>1, <2>3
<1>6. QED
  BY <1>2, <1>3, <1>4, <1>5 DEF HotStep

(* One slot when the sender gives a batch up before it was accepted.       *)
LEMMA WeakGaveUp ==
    ASSUME TypeOK, ShapeInv, NEW s \in Slots, WeakInv(s), sender.pc = "gate",
           events' = ClearFailedCreates(events, sender.batch)
    PROVE  /\ WeakOK(slots[s], created[s], mailbox[s], "idle", NoOp, events'[s], book[s],
                      unreported[s])
           /\ \A v, a : HeldOK(slots[s], sender.batch[s], events[s], book[s], v, a)
                          => HeldOK(slots[s], NoOp, events'[s], book[s], v, a)
<1>1. PICK o : o = sender.batch[s]
  OBVIOUS
<1>2. /\ Typed(slots[s], created[s], mailbox[s], o, events[s], book[s])
      /\ WeakOK(slots[s], created[s], mailbox[s], "gate", o, events[s], book[s], unreported[s])
  BY <1>1, SlotTyped DEF WeakInv, WeakNow
<1>3. o \in OpType /\ Named(o)
  BY <1>2 DEF Typed
<1>4. o.act = "create" => book[s][o.id] = 0
  BY <1>2 DEF WeakOK, FreshOK
<1>5. /\ WeakOK(slots[s], created[s], mailbox[s], "idle", NoOp, events[s], book[s], unreported[s])
      /\ \A v, a : HeldOK(slots[s], o, events[s], book[s], v, a)
                     => HeldOK(slots[s], NoOp, events[s], book[s], v, a)
  BY <1>2, <1>4, WeakRelease
<1>6. CASE o.act = "create"
  <2>1. PICK e : e = ClearEvent(o)
    OBVIOUS
  <2>2. e \in EventType /\ e.kind = "ClearLive" /\ e.id = o.id
    BY <1>3, <1>6, <2>1, EventTypes
  <2>3. events'[s] = Append(events[s], e)
    BY <1>1, <1>6, <2>1 DEF ClearFailedCreates
  <2>4. e.id <= created[s] /\ Gone(created[s], mailbox[s], "idle", NoOp, book[s], e.id)
    BY <1>2, <1>4, <1>6, <2>2 DEF WeakOK, BoundOK, FreshOK, Gone
  <2>5. Typed(slots[s], created[s], mailbox[s], NoOp, events[s], book[s])
    BY <1>2, IdleTypes DEF Typed
  <2>6. /\ WeakOK(slots[s], created[s], mailbox[s], "idle", NoOp, events'[s], book[s], unreported[s])
        /\ \A v, a : HeldOK(slots[s], NoOp, events[s], book[s], v, a)
                       => HeldOK(slots[s], NoOp, events'[s], book[s], v, a)
    BY <1>5, <2>2, <2>3, <2>4, <2>5, WeakAppend
  <2>7. QED
    BY <1>1, <1>5, <2>6
<1>7. CASE o.act # "create"
  <2>1. events'[s] = events[s]
    BY <1>1, <1>7 DEF ClearFailedCreates
  <2>2. QED
    BY <1>1, <1>5, <2>1
<1>8. QED
  BY <1>6, <1>7

(* The paced sender.                                                       *)
LEMMA WeakSender ==
    ASSUME TypeOK, ShapeInv, TypeOK', NEW s \in Slots, WeakInv(s), Prompt, SenderStep
    PROVE  WeakInv(s)' /\ slots' = slots
<1>1. /\ Typed(slots[s], created[s], mailbox[s], sender.batch[s], events[s], book[s])
      /\ WeakOK(slots[s], created[s], mailbox[s], sender.pc, sender.batch[s], events[s],
                 book[s], unreported[s])
  BY SlotTyped DEF WeakInv, WeakNow
<1>2. /\ sender.pc = "idle" => sender.batch[s] = NoOp
      /\ IdleSender.pc = "idle" /\ IdleSender.batch[s] = NoOp /\ EmptyBatch[s] = NoOp
  BY IdleTypes DEF ShapeInv, IdleSender, TypeOK
<1>3. CASE SenderRefuse
  <2>1. /\ UNCHANGED <<slots, created, sender, swap, poller, book, unreported>> /\ mailbox'[s] = NoOp
        /\ sender.batch[s] = NoOp /\ sender.pc = "idle"
        /\ events'[s] = IF mailbox[s].act = "create" THEN Append(events[s], ClearEvent(mailbox[s]))
                        ELSE events[s]
    BY <1>2, <1>3 DEF SenderRefuse, ClearFailedCreates, hotVars, pollVars, exchVars
  <2>2. WeakOK(slots[s], created[s], NoOp, "idle", NoOp, events[s], book[s], unreported[s])
    BY <1>1, <2>1, WeakDrop
  <2>3. CASE mailbox[s].act = "create"
    <3>1. PICK e : e = ClearEvent(mailbox[s])
      OBVIOUS
    <3>2. e \in EventType /\ e.kind = "ClearLive" /\ e.id = mailbox[s].id
      BY <1>1, <2>3, <3>1, EventTypes DEF Typed
    <3>3. e.id <= created[s] /\ Gone(created[s], NoOp, "idle", NoOp, book[s], e.id)
      BY <1>1, <2>3, <3>2 DEF WeakOK, BoundOK, FreshOK, Gone, NoOp
    <3>4. /\ Typed(slots[s], created[s], NoOp, NoOp, events[s], book[s])
          /\ events'[s] = Append(events[s], e)
      BY <1>1, <2>1, <2>3, <3>1, IdleTypes DEF Typed
    <3>5. /\ WeakOK(slots[s], created[s], NoOp, "idle", NoOp, events'[s], book[s], unreported[s])
          /\ \A v, a : HeldOK(slots[s], NoOp, events[s], book[s], v, a)
                         => HeldOK(slots[s], NoOp, events'[s], book[s], v, a)
      BY <2>2, <3>2, <3>3, <3>4, WeakAppend
    <3>6. WeakNow(s)'
      BY <2>1, <3>5 DEF WeakNow
    <3>7. QED
      BY <2>1, <3>5, <3>6, WeakCarried
  <2>4. CASE mailbox[s].act # "create"
    <3>1. WeakNow(s)'
      BY <2>1, <2>2, <2>4 DEF WeakNow
    <3>2. QED
      BY <2>1, <2>4, <3>1, WeakCarried
  <2>5. QED
    BY <2>3, <2>4
<1>4. CASE SenderTake
  <2>1. /\ UNCHANGED <<slots, created, events, swap, poller, book, unreported>> /\ mailbox'[s] = NoOp
        /\ sender.batch[s] = NoOp /\ sender'.pc = "gate" /\ sender'.batch[s] = mailbox[s]
    BY <1>2, <1>4 DEF SenderTake, hotVars, pollVars, exchVars
  <2>2. /\ WeakOK(slots[s], created[s], NoOp, "gate", mailbox[s], events[s], book[s], unreported[s])
        /\ \A v, a : HeldOK(slots[s], NoOp, events[s], book[s], v, a)
                       => HeldOK(slots[s], mailbox[s], events[s], book[s], v, a)
    BY <1>1, <2>1, WeakTake
  <2>3. WeakNow(s)'
    BY <2>1, <2>2 DEF WeakNow
  <2>4. QED
    BY <2>1, <2>2, <2>3, WeakCarried
<1>5. CASE SenderAbandon
  <2>1. /\ UNCHANGED <<slots, created, mailbox, swap, poller, book, unreported>>
        /\ sender.pc = "gate" /\ sender'.pc = "idle" /\ sender'.batch[s] = NoOp
        /\ events' = ClearFailedCreates(events, sender.batch)
    BY <1>2, <1>5 DEF SenderAbandon, hotVars, pollVars, exchVars
  <2>2. /\ WeakOK(slots[s], created[s], mailbox[s], "idle", NoOp, events'[s], book[s], unreported[s])
        /\ \A v, a : HeldOK(slots[s], sender.batch[s], events[s], book[s], v, a)
                       => HeldOK(slots[s], NoOp, events'[s], book[s], v, a)
    BY <2>1, WeakGaveUp
  <2>3. WeakNow(s)'
    BY <2>1, <2>2 DEF WeakNow
  <2>4. QED
    BY <2>1, <2>2, <2>3, WeakCarried
<1>6. CASE SenderOk
  <2>1. PICK o : o = sender.batch[s]
    OBVIOUS
  <2>2. /\ UNCHANGED <<slots, created, mailbox, swap, poller, book, unreported>>
        /\ sender.pc = "landed" /\ sender'.pc = "idle" /\ sender'.batch[s] = NoOp
    BY <1>2, <1>6 DEF SenderOk, hotVars, pollVars, exchVars
  <2>3. events'[s] = CASE o.act \in {"create", "modify"} -> Append(events[s], BindEvent(o))
                       [] o.act = "cancel" -> Append(events[s], ClearEvent(o))
                       [] OTHER -> events[s]
    BY <1>6, <2>1 DEF SenderOk
  <2>4. /\ Typed(slots[s], created[s], mailbox[s], o, events[s], book[s])
        /\ WeakOK(slots[s], created[s], mailbox[s], "landed", o, events[s], book[s], unreported[s])
    BY <1>1, <2>1, <2>2
  <2>5. /\ o \in OpType /\ Named(o) /\ o.id <= created[s]
        /\ events'[s] \in Seq(EventType) /\ events[s] \in Seq(EventType)
    BY <2>4 DEF Typed, WeakOK, BoundOK, TypeOK, EventQueues
  <2>6. /\ WeakOK(slots[s], created[s], mailbox[s], "landed", o, events'[s], book[s], unreported[s])
        /\ \A v, a : HeldOK(slots[s], o, events[s], book[s], v, a)
                       => HeldOK(slots[s], o, events'[s], book[s], v, a)
        /\ o.act = "create" => Binds(events'[s], o.id)
    <3>1. CASE o.act \in {"create", "modify"}
      <4>1. PICK e : e = BindEvent(o)
        OBVIOUS
      <4>2. e \in EventType /\ e.kind = "BindLive" /\ e.id = o.id /\ e.id <= created[s]
        BY <2>5, <3>1, <4>1, EventTypes
      <4>3. events'[s] = Append(events[s], e)
        BY <2>3, <3>1, <4>1
      <4>4. slots[s].age < Grace
        BY <2>4, <3>1 DEF WeakOK, SettlesOK, NoOp
      <4>5. Binds(events'[s], e.id)
        BY <2>5, <4>2, <4>3, Appended
      <4>6. /\ WeakOK(slots[s], created[s], mailbox[s], "landed", o, events'[s], book[s],
                       unreported[s])
            /\ \A v, a : HeldOK(slots[s], o, events[s], book[s], v, a)
                           => HeldOK(slots[s], o, events'[s], book[s], v, a)
        <5>1. ~Ends(e)
          BY <4>2 DEF Ends
        <5>2. QED
          BY <2>4, <4>2, <4>3, <4>4, <5>1, WeakAppend
      <4>7. QED
        BY <4>2, <4>5, <4>6
    <3>2. CASE o.act = "cancel"
      <4>1. PICK e : e = ClearEvent(o)
        OBVIOUS
      <4>2. e \in EventType /\ e.kind = "ClearLive" /\ e.id = o.id /\ e.id <= created[s]
        BY <2>5, <3>2, <4>1, EventTypes
      <4>3. events'[s] = Append(events[s], e)
        BY <2>3, <3>2, <4>1
      <4>4. /\ Gone(created[s], mailbox[s], "landed", o, book[s], e.id)
            /\ e.kind # "BindLive"
        BY <2>4, <3>2, <4>2 DEF WeakOK, FreshOK, Gone
      <4>5. QED
        BY <2>4, <3>2, <4>2, <4>3, <4>4, WeakAppend
    <3>3. CASE o.act \notin {"create", "modify", "cancel"}
      <4>1. events'[s] = events[s]
        BY <2>3, <3>3
      <4>2. QED
        BY <2>4, <3>3, <4>1
    <3>4. QED
      BY <3>1, <3>2, <3>3
  <2>7. Typed(slots[s], created[s], mailbox[s], o, events'[s], book[s])
    BY <2>4, <2>5 DEF Typed
  <2>8. /\ WeakOK(slots[s], created[s], mailbox[s], "idle", NoOp, events'[s], book[s], unreported[s])
        /\ \A v, a : HeldOK(slots[s], o, events'[s], book[s], v, a)
                       => HeldOK(slots[s], NoOp, events'[s], book[s], v, a)
    BY <2>6, <2>7, WeakRelease
  <2>9. WeakNow(s)'
    BY <2>2, <2>8 DEF WeakNow
  <2>10. QED
    BY <2>1, <2>2, <2>6, <2>8, <2>9, WeakCarried
<1>7. ASSUME NEW ok \in CancelAllResults, NEW paused, SenderRejected(paused, ok)
      PROVE  WeakInv(s)' /\ slots' = slots
  <2>1. /\ UNCHANGED <<slots, created, mailbox, swap, poller, unreported>>
        /\ sender.pc = "gate" /\ sender'.pc = "idle" /\ sender'.batch[s] = NoOp
        /\ events' = ClearFailedCreates(events, sender.batch)
        /\ book' = IF paused THEN AfterCancelAll(ok) ELSE book
    BY <1>2, <1>7 DEF SenderRejected, hotVars, pollVars
  <2>2. /\ WeakOK(slots[s], created[s], mailbox[s], "idle", NoOp, events'[s], book[s], unreported[s])
        /\ \A v, a : HeldOK(slots[s], sender.batch[s], events[s], book[s], v, a)
                       => HeldOK(slots[s], NoOp, events'[s], book[s], v, a)
    BY <2>1, WeakGaveUp
  <2>3. \A n \in Ids : book'[s][n] > 0 => book[s][n] > 0
    BY <2>1, IdleTypes DEF AfterCancelAll
  <2>4. Typed(slots[s], created[s], mailbox[s], NoOp, events'[s], book[s]) /\ book'[s] \in [Ids -> Sizes]
    BY <1>1, IdleTypes DEF Typed, TypeOK, View, EventQueues
  <2>5. /\ WeakOK(slots[s], created[s], mailbox[s], "idle", NoOp, events'[s], book'[s], unreported[s])
        /\ \A v, a : HeldOK(slots[s], NoOp, events'[s], book[s], v, a)
                       => HeldOK(slots[s], NoOp, events'[s], book'[s], v, a)
    BY <2>2, <2>3, <2>4, WeakLess
  <2>6. WeakNow(s)'
    BY <2>1, <2>5 DEF WeakNow
  <2>7. QED
    BY <2>1, <2>2, <2>5, <2>6, WeakCarried
<1>8. ASSUME NEW ok \in CancelAllResults, SenderUnknown(ok)
      PROVE  WeakInv(s)' /\ slots' = slots
  <2>1. /\ UNCHANGED <<slots, created, mailbox, events, swap, poller, unreported>>
        /\ sender'.pc = "idle" /\ sender'.batch[s] = NoOp /\ book' = NoOrders
    BY <1>2, <1>8 DEF SenderUnknown, AfterCancelAll, CancelAllResults, Prompt, hotVars, pollVars
  <2>2. (\A n \in Ids : book'[s][n] = 0) /\ book'[s] \in [Ids -> Sizes]
    BY <2>1, IdleTypes DEF TypeOK, View
  <2>3. \A n \in Ids : book'[s][n] > 0 => book[s][n] > 0
    BY <2>2
  <2>4. /\ WeakOK(slots[s], created[s], mailbox[s], sender.pc, sender.batch[s], events[s],
                   book'[s], unreported[s])
        /\ \A v, a : HeldOK(slots[s], sender.batch[s], events[s], book[s], v, a)
                       => HeldOK(slots[s], sender.batch[s], events[s], book'[s], v, a)
    BY <1>1, <2>2, <2>3, WeakLess
  <2>5. /\ Typed(slots[s], created[s], mailbox[s], sender.batch[s], events[s], book'[s])
        /\ sender.batch[s].act = "create" => book'[s][sender.batch[s].id] = 0
    BY <1>1, <2>2 DEF Typed, Named
  <2>6. /\ WeakOK(slots[s], created[s], mailbox[s], "idle", NoOp, events[s], book'[s], unreported[s])
        /\ \A v, a : HeldOK(slots[s], sender.batch[s], events[s], book'[s], v, a)
                       => HeldOK(slots[s], NoOp, events[s], book'[s], v, a)
    BY <2>4, <2>5, WeakRelease
  <2>7. WeakNow(s)'
    BY <2>1, <2>6 DEF WeakNow
  <2>8. QED
    BY <2>1, <2>4, <2>6, <2>7, WeakCarried
<1>9. QED
  BY <1>3, <1>4, <1>5, <1>6, <1>7, <1>8 DEF SenderStep

(* The reconcile poller.                                                   *)
LEMMA WeakPoller ==
    ASSUME TypeOK, ShapeInv, TypeOK', NEW s \in Slots, WeakInv(s), Prompt, PollerStep
    PROVE  WeakInv(s)' /\ slots' = slots
<1>1. WeakNow(s)
  BY DEF WeakInv
<1>2. ASSUME NEW seen, PollFetch(seen) PROVE WeakInv(s)' /\ slots' = slots
  <2>1. /\ UNCHANGED <<slots, created, mailbox, events, sender, swap, book, unreported>>
        /\ seen = LiveIn(book)
        /\ poller' = [IdlePoller EXCEPT
                        !.pc = "fetched",
                        !.snap = [t \in Slots |-> [n \in Ids |->
                                    IF <<t, n>> \in seen THEN book[t][n] ELSE 0]]]
    <3>1. ~ (partials < MaxPartial)
      BY EnvAssumption DEF TypeOK, Prompt, EnvAssumption
    <3>2. QED
      BY <1>2, <3>1 DEF PollFetch, hotVars, exchVars
  <2>2. poller'.age = 0 /\ poller'.snap[s] = [n \in Ids |-> IF <<s, n>> \in seen THEN book[s][n] ELSE 0]
    BY <2>1 DEF IdlePoller
  <2>3. \A n \in Ids : book[s][n] > 0 => <<s, n>> \in seen
    BY <2>1 DEF LiveIn, Orders
  <2>4. \A n \in Ids : book[s][n] > 0 => poller'.snap[s][n] # 0
    BY <2>2, <2>3
  <2>5. HeldOK(slots'[s], sender'.batch[s], events'[s], book'[s], poller'.snap[s], poller'.age)
    BY <2>1, <2>2, <2>4, Bounds DEF HeldOK
  <2>6. WeakNow(s)'
    BY <1>1, <2>1 DEF WeakNow
  <2>7. QED
    BY <2>1, <2>5, <2>6 DEF WeakInv
<1>3. ASSUME NEW others, PollRecord(others) PROVE WeakInv(s)' /\ slots' = slots
  <2>1. /\ UNCHANGED <<slots, created, mailbox, events, sender, book, unreported>>
        /\ poller.pc = "fetched" /\ swap'.view = poller.snap /\ swap'.age = poller.age
    BY <1>3 DEF PollRecord, hotVars, exchVars
  <2>2. poller'.pc # "fetched"
    BY <1>3 DEF PollRecord, TypeOK, IdlePoller
  <2>3. HeldOK(slots[s], sender.batch[s], events[s], book[s], poller.snap[s], poller.age)
    BY <2>1 DEF WeakInv
  <2>4. WeakNow(s)'
    BY <1>1, <2>1 DEF WeakNow
  <2>5. QED
    BY <2>1, <2>2, <2>3, <2>4 DEF WeakInv
<1>4. ASSUME NEW ok, PollCancelAll(ok) PROVE WeakInv(s)' /\ slots' = slots
  <2>1. /\ UNCHANGED <<slots, created, mailbox, events, sender, swap, unreported>>
        /\ poller'.pc # "fetched" /\ book' = AfterCancelAll(ok)
    BY <1>4 DEF PollCancelAll, IdlePoller, hotVars
  <2>2. \A n \in Ids : book'[s][n] > 0 => book[s][n] > 0
    BY <2>1, IdleTypes DEF AfterCancelAll
  <2>3. QED
    BY <2>1, <2>2, WeakFewer
<1>5. ASSUME NEW o \in Orders, NEW ok, PollCancelOrphan(o, ok) PROVE WeakInv(s)' /\ slots' = slots
  <2>1. /\ UNCHANGED <<slots, created, mailbox, events, sender, swap, unreported>>
        /\ book' = IF ok THEN [book EXCEPT ![o[1]][o[2]] = 0] ELSE book
    BY <1>5 DEF PollCancelOrphan, hotVars
  <2>2. poller'.pc # "fetched"
    BY <1>5 DEF PollCancelOrphan, TypeOK
  <2>3. PICK t \in Slots, m \in Ids : o[1] = t /\ o[2] = m
    BY DEF Orders
  <2>4. \A n \in Ids : book'[s][n] > 0 => book[s][n] > 0
    BY <2>1, <2>3 DEF TypeOK, View
  <2>5. QED
    BY <2>1, <2>2, <2>4, WeakFewer
<1>6. CASE PollDone
  <2>1. /\ UNCHANGED <<slots, created, mailbox, events, sender, swap, book, unreported>>
        /\ poller'.pc # "fetched"
    BY <1>6 DEF PollDone, IdlePoller, hotVars, exchVars
  <2>2. QED
    BY <2>1, WeakFewer
<1>7. QED
  BY <1>2, <1>3, <1>4, <1>5, <1>6 DEF PollerStep

(* The exchange, the streams and the clock.                                *)
LEMMA WeakEnvironment ==
    ASSUME TypeOK, ShapeInv, TypeOK', NEW s \in Slots, WeakInv(s), Prompt, Environment
    PROVE  WeakInv(s)' /\ slots'[s].id = slots[s].id
<1>1. /\ Typed(slots[s], created[s], mailbox[s], sender.batch[s], events[s], book[s])
      /\ WeakOK(slots[s], created[s], mailbox[s], sender.pc, sender.batch[s], events[s],
                 book[s], unreported[s])
  BY SlotTyped DEF WeakInv, WeakNow
<1>2. CASE ExchangeAccept
  <2>1. PICK o : o = sender.batch[s]
    OBVIOUS
  <2>2. /\ UNCHANGED <<slots, created, mailbox, events, swap, poller, unreported>>
        /\ sender.pc = "gate"
        /\ o.act = "modify" => book[s][o.id] > 0
        /\ book'[s] = IF o.act = "none" THEN book[s] ELSE [book[s] EXCEPT ![o.id] = o.size]
    BY <1>2, <2>1 DEF ExchangeAccept, hotVars, pollVars
  <2>3. sender'.pc = "landed" /\ sender'.batch[s] = o
    BY <1>2, <2>1 DEF ExchangeAccept, TypeOK
  <2>4. /\ Typed(slots[s], created[s], mailbox[s], o, events[s], book[s])
        /\ WeakOK(slots[s], created[s], mailbox[s], "gate", o, events[s], book[s], unreported[s])
    BY <1>1, <2>1, <2>2
  <2>5. /\ WeakOK(slots[s], created[s], mailbox[s], "landed", o, events[s], book'[s], unreported[s])
        /\ \A v, a : HeldOK(slots[s], o, events[s], book[s], v, a)
                       => HeldOK(slots[s], o, events[s], book'[s], v, a)
    BY <2>2, <2>4, WeakAccept
  <2>6. WeakNow(s)'
    BY <2>2, <2>3, <2>5 DEF WeakNow
  <2>7. WeakInv(s)'
    BY <2>1, <2>2, <2>3, <2>5, <2>6, WeakCarried
  <2>8. QED
    BY <2>2, <2>7
<1>3. ASSUME NEW t \in Slots, NEW n \in Ids, NEW q \in FillSizes, ExchangeFill(t, n, q)
      PROVE  WeakInv(s)' /\ slots'[s].id = slots[s].id
  <2>1. UNCHANGED <<slots, created, mailbox, events, sender, swap, poller>>
    BY <1>3 DEF ExchangeFill, hotVars, pollVars
  <2>2. PICK x, y : x = book[t][n] - q /\ y = unreported[t][n] + q
    OBVIOUS
  <2>3. /\ book[t][n] \in Sizes /\ book[t][n] >= q /\ q \in Nat /\ unreported[t][n] = 0
        /\ BaseSize \in Nat \ {0}
    BY <1>3, EnvAssumption, Bounds DEF ExchangeFill, NoOrders, TypeOK, View, EnvAssumption
  <2>4. /\ x > 0 => book[t][n] > 0
        /\ y >= BaseSize => x = 0 /\ book[t][n] > 0
    BY <2>2, <2>3 DEF Sizes
  <2>5. book' = [book EXCEPT ![t][n] = x] /\ unreported' = [unreported EXCEPT ![t][n] = y]
    BY <1>3, <2>2 DEF ExchangeFill
  <2>6. book \in [Slots -> [Ids -> Sizes]] /\ unreported \in [Slots -> [Ids -> Sizes]]
    BY DEF TypeOK, View
  <2>7. \A m \in Ids : book'[s][m] = IF s = t /\ m = n THEN x ELSE book[s][m]
    BY <2>5, <2>6
  <2>8. \A m \in Ids : unreported'[s][m] = IF s = t /\ m = n THEN y ELSE unreported[s][m]
    BY <2>5, <2>6
  <2>9. /\ \A m \in Ids : book'[s][m] > 0 => book[s][m] > 0
        /\ \A m \in Ids : unreported'[s][m] >= BaseSize =>
             unreported[s][m] >= BaseSize \/ (book[s][m] > 0 /\ book'[s][m] = 0)
    BY <2>4, <2>7, <2>8
  <2>10. QED
    BY <2>1, <2>9, WeakFewer
<1>4. ASSUME NEW t \in Slots, NEW n \in Ids, NEW q \in FillSizes, ReportFill(t, n, q)
      PROVE  WeakInv(s)' /\ slots'[s].id = slots[s].id
  <2>1. UNCHANGED <<slots, created, mailbox, sender, swap, poller, book>>
    BY <1>4 DEF ReportFill, hotVars, pollVars
  <2>2. PICK y, e : y = unreported[t][n] - q /\ e = FillEvent(n, q)
    OBVIOUS
  <2>3. /\ unreported[t][n] \in Sizes /\ unreported[t][n] >= q /\ q \in Nat
        /\ BaseSize \in Nat
    BY <1>4, EnvAssumption, Bounds DEF ReportFill, TypeOK, View, EnvAssumption
  <2>4. y >= BaseSize \/ q >= BaseSize => unreported[t][n] >= BaseSize
    BY <2>2, <2>3 DEF Sizes
  <2>5. /\ unreported' = [unreported EXCEPT ![t][n] = y]
        /\ events' = [events EXCEPT ![t] = Append(@, e)]
    BY <1>4, <2>2 DEF ReportFill
  <2>6. unreported \in [Slots -> [Ids -> Sizes]] /\ events \in [Slots -> Seq(EventType)]
    BY DEF TypeOK, View, EventQueues
  <2>7. \A m \in Ids : unreported'[s][m] = IF s = t /\ m = n THEN y ELSE unreported[s][m]
    BY <2>5, <2>6
  <2>8. /\ \A m \in Ids : book[s][m] > 0 => book[s][m] > 0
        /\ \A m \in Ids : unreported'[s][m] >= BaseSize =>
             unreported[s][m] >= BaseSize \/ (book[s][m] > 0 /\ book[s][m] = 0)
    BY <2>4, <2>7
  <2>9. book[s] \in [Ids -> Sizes]
    BY DEF TypeOK, View
  <2>10. WeakOK(slots[s], created[s], mailbox[s], sender.pc, sender.batch[s], events[s],
                 book[s], unreported'[s])
    BY <1>1, <2>8, <2>9, WeakLess
  <2>11. CASE t = s
    <3>1. e \in EventType /\ e.kind = "Fill" /\ e.size = q /\ e.id = n
      BY <2>2, <2>3 DEF FillEvent, EventType
    <3>2. Ends(e) => Gone(created[s], mailbox[s], sender.pc, sender.batch[s], book[s], e.id)
      BY <1>1, <2>4, <2>11, <3>1 DEF WeakOK, GoneOK, Ends
    <3>3. events'[s] = Append(events[s], e)
      BY <2>5, <2>6, <2>11
    <3>4. /\ WeakOK(slots[s], created[s], mailbox[s], sender.pc, sender.batch[s], events'[s],
                     book[s], unreported'[s])
          /\ \A v, a : HeldOK(slots[s], sender.batch[s], events[s], book[s], v, a)
                         => HeldOK(slots[s], sender.batch[s], events'[s], book[s], v, a)
      <4>1. PICK sl, c, mb, p, op, old, bk, w, r :
              /\ sl = slots[s] /\ c = created[s] /\ mb = mailbox[s] /\ p = sender.pc
              /\ op = sender.batch[s] /\ old = events[s] /\ bk = book[s]
              /\ w = unreported'[s] /\ r = events'[s]
        OBVIOUS
      <4>2. /\ Typed(sl, c, mb, op, old, bk)
            /\ WeakOK(sl, c, mb, p, op, old, bk, w)
            /\ e \in EventType
            /\ Ends(e) => Gone(c, mb, p, op, bk, e.id)
            /\ e.kind = "BindLive" => e.id <= c /\ sl.age < Grace
            /\ r = Append(old, e)
        BY <1>1, <2>10, <3>1, <3>2, <3>3, <4>1
      <4>3. /\ WeakOK(sl, c, mb, p, op, r, bk, w)
            /\ \A v, a : HeldOK(sl, op, old, bk, v, a) => HeldOK(sl, op, r, bk, v, a)
        BY <4>2, WeakAppend
      <4>4. QED
        BY <4>1, <4>3
    <3>5. WeakNow(s)'
      BY <2>1, <3>4 DEF WeakNow
    <3>6. WeakInv(s)'
      BY <2>1, <3>4, <3>5, WeakCarried
    <3>7. QED
      BY <2>1, <3>6
  <2>12. CASE t # s
    <3>1. events'[s] = events[s]
      BY <2>5, <2>6, <2>12
    <3>2. WeakNow(s)'
      BY <2>1, <2>10, <3>1 DEF WeakNow
    <3>3. WeakInv(s)'
      BY <2>1, <3>1, <3>2, WeakCarried
    <3>4. QED
      BY <2>1, <3>3
  <2>13. QED
    BY <2>11, <2>12
<1>5. ASSUME NEW t \in Slots, NEW n \in Ids, ExchangeKill(t, n)
      PROVE  WeakInv(s)' /\ slots'[s].id = slots[s].id
  <2>1. UNCHANGED <<slots, created, mailbox, events, sender, swap, poller, unreported>>
    BY <1>5 DEF ExchangeKill, hotVars, pollVars
  <2>2. \A m \in Ids : book'[s][m] > 0 => book[s][m] > 0
    BY <1>5 DEF ExchangeKill, TypeOK, View
  <2>3. QED
    BY <2>1, <2>2, WeakFewer
<1>6. ASSUME NEW t \in Slots, NEW n \in Ids, LoseFill(t, n)
      PROVE  WeakInv(s)' /\ slots'[s].id = slots[s].id
  <2>1. UNCHANGED <<slots, created, mailbox, events, sender, swap, poller, book>>
    BY <1>6 DEF LoseFill, hotVars, pollVars
  <2>2. \A m \in Ids : unreported'[s][m] >= BaseSize => unreported[s][m] >= BaseSize
    BY <1>6, Bounds DEF LoseFill, TypeOK, View
  <2>3. QED
    BY <2>1, <2>2, WeakFewer
<1>7. ASSUME NEW t \in Slots, NEW n \in Ids, ResolveId(t, n)
      PROVE  WeakInv(s)' /\ slots'[s].id = slots[s].id
  <2>1. UNCHANGED <<slots, created, mailbox, events, sender, swap, poller, book, unreported>>
    BY <1>7 DEF ResolveId, pollVars, exchVars
  <2>2. QED
    BY <2>1, WeakFewer
<1>8. CASE Tick
  <2>1. /\ UNCHANGED <<created, mailbox, events, sender, book, unreported>>
        /\ slots'[s] = IF slots[s].id = NoId THEN slots[s] ELSE [slots[s] EXCEPT !.age = Older(@)]
    BY <1>8 DEF Tick, exchVars
  <2>2. /\ mailbox[s] # NoOp \/ sender.batch[s] # NoOp \/ events[s] # <<>> => slots[s].age + 1 < Grace
        /\ poller.pc = "fetched" => poller.age + 1 < Grace
        /\ swap.full => swap.age + 1 < Grace
    BY <1>8 DEF Tick, Prompt, InPipeline
  <2>3. /\ swap'.full = swap.full /\ swap'.view = swap.view /\ (swap.full => swap'.age = Older(swap.age))
        /\ poller'.pc = poller.pc /\ poller'.snap = poller.snap
        /\ poller.pc = "fetched" => poller'.age = Older(poller.age)
    BY <1>8 DEF Tick, TypeOK, Snapshot
  <2>4. /\ WeakOK(slots'[s], created[s], mailbox[s], sender.pc, sender.batch[s], events[s],
                   book[s], unreported[s])
        /\ slots'[s].id = slots[s].id
        /\ \A v : \A a \in Nat :
             HeldOK(slots[s], sender.batch[s], events[s], book[s], v, a) /\ a + 1 < Grace
               => HeldOK(slots'[s], sender.batch[s], events[s], book[s], v, Older(a))
    BY <1>1, <2>1, <2>2, WeakTick
  <2>5. swap.age \in Nat /\ poller.age \in Nat
    BY SlotTyped
  <2>6. WeakNow(s)'
    BY <2>1, <2>4 DEF WeakNow
  <2>7. swap'.full =>
          HeldOK(slots'[s], sender'.batch[s], events'[s], book'[s], swap'.view[s], swap'.age)
    BY <2>1, <2>2, <2>3, <2>4, <2>5 DEF WeakInv
  <2>8. poller'.pc = "fetched" =>
          HeldOK(slots'[s], sender'.batch[s], events'[s], book'[s], poller'.snap[s], poller'.age)
    BY <2>1, <2>2, <2>3, <2>4, <2>5 DEF WeakInv
  <2>9. QED
    BY <2>4, <2>6, <2>7, <2>8 DEF WeakInv
<1>9. QED
  BY <1>2, <1>3, <1>4, <1>5, <1>6, <1>7, <1>8 DEF Environment

(* One step: a slot is freed only of a dead order, or by a partial fill.   *)
LEMMA WeakStep ==
    ASSUME TypeOK, ShapeInv, TypeOK', NEW s \in Slots, WeakInv(s), Prompt, [Next]_vars
    PROVE  /\ WeakInv(s)'
           /\ slots[s].id # NoId /\ slots'[s].id = NoId
                => Dead(s, slots[s].id) \/ AppliesPartialFill(s)
<1>1. CASE HotStep
  BY <1>1, WeakHot
<1>2. CASE SenderStep
  BY <1>2, WeakSender
<1>3. CASE PollerStep
  BY <1>3, WeakPoller
<1>4. CASE Environment
  BY <1>4, WeakEnvironment
<1>5. CASE UNCHANGED vars
  BY <1>5 DEF vars, WeakInv, WeakNow
<1>6. QED
  BY <1>1, <1>2, <1>3, <1>4, <1>5 DEF Next

-----------------------------------------------------------------------------
(* THE THEOREMS                                                            *)

(* One step keeps a slot fine.                                             *)
LEMMA HealthyStep ==
    ASSUME TypeOK, ShapeInv, TypeOK', NEW s \in Slots, Fine(s), Healthy, [Next]_vars
    PROVE  Fine(s)'
<1>1. CASE HotStep
  BY <1>1, HotHealthy
<1>2. CASE SenderStep
  BY <1>2, SenderHealthy
<1>3. CASE PollerStep
  BY <1>3, PollerHealthy
<1>4. CASE Environment
  BY <1>4, EnvironmentHealthy
<1>5. CASE UNCHANGED vars
  BY <1>5 DEF vars, Fine, SlotInv, SwapInv, PollInv
<1>6. QED
  BY <1>1, <1>2, <1>3, <1>4, <1>5 DEF Next

(* The start, after startup verified a flat book.                          *)
LEMMA InitInv ==
    ASSUME Init
    PROVE  LiveInv
<1>1. 0 \in 0 .. MaxId /\ 0 \in 0 .. MaxPartial
  BY Bounds, EnvAssumption DEF EnvAssumption
<1>2. TypeOK
  BY <1>1, IdleTypes DEF Init, TypeOK, SenderType, PollerType
<1>3. ShapeInv
  <2>1. \A s \in Slots : Named(mailbox[s]) /\ Named(sender.batch[s]) /\ Len(events[s]) = 0
    BY IdleTypes DEF Init, IdleSender
  <2>2. QED
    BY <2>1 DEF ShapeInv, Init, IdleSender
<1>4. ASSUME NEW s \in Slots PROVE Fine(s)
  <2>1. /\ slots[s] = IdleSlot /\ mailbox[s] = NoOp /\ sender.batch[s] = NoOp /\ events[s] = <<>>
        /\ (\A n \in Ids : book[s][n] = 0) /\ ~swap.full /\ poller.pc # "fetched"
    BY IdleTypes DEF Init, IdleSender, NoSnapshot, IdlePoller
  <2>2. Typed(IdleSlot, created[s], NoOp, NoOp, <<>>, book[s])
    BY <1>2, <1>3, <2>1, SlotTyped
  <2>3. NoOp.act # "create" /\ NoOp.id <= created[s]
    BY <2>2, Shapes DEF NoOp, NoId
  <2>4. SlotOK(IdleSlot, created[s], NoOp, sender.pc, NoOp, <<>>, book[s])
    BY <2>1, <2>2, <2>3, IdleIsFine
  <2>5. QED
    BY <2>1, <2>4 DEF Fine, SlotInv, SwapInv, PollInv
<1>5. ASSUME NEW s \in Slots PROVE WeakInv(s)
  <2>1. /\ slots[s] = IdleSlot /\ mailbox[s] = NoOp /\ sender.batch[s] = NoOp /\ events[s] = <<>>
        /\ (\A n \in Ids : book[s][n] = 0 /\ unreported[s][n] = 0)
        /\ ~swap.full /\ poller.pc # "fetched" /\ created[s] = 0
    BY IdleTypes DEF Init, IdleSender, NoSnapshot, IdlePoller
  <2>2. /\ IdleSlot.id = 0 /\ IdleSlot.age = 0 /\ NoOp.act = "none" /\ NoOp.id = 0
        /\ 0 < Grace /\ Len(events[s]) = 0 /\ ~(0 >= BaseSize)
    BY <2>1, Bounds DEF IdleSlot, NoOp, NoId
  <2>3. WeakNow(s)
    BY <2>1, <2>2 DEF WeakNow, WeakOK, BoundOK, FreshOK, GoneOK, SettlesOK
  <2>4. QED
    BY <2>1, <2>3 DEF WeakInv
<1>6. QED
  BY <1>2, <1>3, <1>4, <1>5 DEF LiveInv, Fine

(* What a step may do to a slot, from the inductive invariant.             *)
LEMMA FreedOnce ==
    ASSUME LiveInv, Prompt, [Next]_vars, NEW s \in Slots,
           slots[s].id # NoId, slots'[s].id = NoId
    PROVE  Dead(s, slots[s].id) \/ AppliesPartialFill(s)
<1>1. TypeOK'
  BY TypeStep DEF LiveInv
<1>2. QED
  BY <1>1, WeakStep DEF LiveInv

(* The environment is a matter of constants.                               *)
LEMMA EnvironmentStays ==
    /\ Healthy => []Healthy
    /\ Prompt => []Prompt
<1>1. Healthy => Healthy'
  BY DEF Healthy, Prompt
<1>2. Prompt => Prompt'
  BY DEF Prompt
<1>3. QED
  BY <1>1, <1>2, PTL

(* The inductive invariant holds in every behaviour.                       *)
THEOREM LiveInvariantHolds == Spec => []LiveInv
<1>1. Init => LiveInv
  BY InitInv
<1>2. LiveInv /\ [Next]_vars => LiveInv'
  <2> SUFFICES ASSUME LiveInv, [Next]_vars PROVE LiveInv'
    OBVIOUS
  <2>1. TypeOK' /\ ShapeInv'
    BY TypeStep DEF LiveInv
  <2>2. ASSUME Healthy, NEW s \in Slots PROVE Fine(s)'
    BY <2>1, <2>2, HealthyStep DEF LiveInv, Fine
  <2>3. ASSUME Prompt, NEW s \in Slots PROVE WeakInv(s)'
    BY <2>1, <2>3, WeakStep DEF LiveInv
  <2>4. (Healthy' <=> Healthy) /\ (Prompt' <=> Prompt)
    BY DEF Healthy, Prompt
  <2>5. QED
    BY <2>1, <2>2, <2>3, <2>4 DEF LiveInv, Fine
<1>3. QED
  BY <1>1, <1>2, PTL DEF Spec

(* Slot table, channels, sender, poller and book keep their shape, in      *)
(* every environment: fills, slow senders, partial snapshots and failed    *)
(* cancel-alls included.                                                   *)
THEOREM TypeCorrect == Spec => []TypeOK
<1>1. LiveInv => TypeOK
  BY DEF LiveInv
<1>2. QED
  BY <1>1, LiveInvariantHolds, PTL

(* maybe_quote's keystone: mark_pending before the send keeps a slot from  *)
(* ever having two orders resting, for any number of slots, orders and any *)
(* grace, while operations settle and snapshots apply within the grace.    *)
THEOREM Keystone == Healthy /\ Spec => []AtMostOneLive
<1>1. LiveInv /\ Healthy => AtMostOneLive
  BY DEF LiveInv, SlotInv, SlotOK, RestOK, AtMostOneLive
<1>2. QED
  BY <1>1, EnvironmentStays, LiveInvariantHolds, PTL

(* In the same environment the order that rests is the one its slot holds. *)
THEOREM Tracking == Healthy /\ Spec => []LiveIsTracked
<1>1. LiveInv /\ Healthy => LiveIsTracked
  BY DEF LiveInv, SlotInv, SlotOK, RestOK, LiveIsTracked
<1>2. QED
  BY <1>1, EnvironmentStays, LiveInvariantHolds, PTL

(* Fills of any size, reported late, lost or out of order with the answers *)
(* and the snapshots, included: a slot is freed, by ClearLive, by the fill *)
(* of a whole quote or by process_reconcile, only of an order that does    *)
(* not and will not rest; apply_fill on a smaller fill is the exception.   *)
THEOREM FreedIsDead == Prompt /\ Spec => FreedOrderIsDead
<1>1. LiveInv /\ Prompt /\ [Next]_vars =>
        [\A s \in Slots :
           slots[s].id # NoId /\ slots'[s].id = NoId
             => Dead(s, slots[s].id) \/ AppliesPartialFill(s)]_vars
  BY FreedOnce
<1>2. QED
  BY <1>1, EnvironmentStays, LiveInvariantHolds, PTL DEF Spec, FreedOrderIsDead
=============================================================================
