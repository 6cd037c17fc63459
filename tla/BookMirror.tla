----------------------------- MODULE BookMirror -----------------------------
(***************************************************************************)
(* What a local copy of an exchange's order book promises.  The exchange   *)
(* changes one price level per update; the contents of a level are named   *)
(* by the update that set them (0: never set), a removal being an update   *)
(* like any other.  A copy is either not trusted or exactly the book after *)
(* some update, and while it is trusted it only moves forward.             *)
(***************************************************************************)
EXTENDS Integers, Sequences

CONSTANT Levels     \* price levels

VARIABLES
    hist,           \* the level changed by each update of the exchange so far
    view            \* the trusted copy: its last update and its levels, or NoView

NoView == [id |-> -1, levels |-> <<>>]

(* The levels of the book after the first n updates.                       *)
IsBookAt(levels, n) ==
    \A l \in Levels :
        /\ levels[l] \in 0..n
        /\ levels[l] # 0 => hist[levels[l]] = l
        /\ \A i \in levels[l] + 1 .. n : hist[i] # l

Init == hist = <<>> /\ view = NoView

Update(l) == hist' = Append(hist, l) /\ UNCHANGED view

Follow ==
    /\ view' # NoView
    /\ view'.id \in 0..Len(hist) /\ view'.id >= view.id
    /\ IsBookAt(view'.levels, view'.id)
    /\ UNCHANGED hist

Distrust == view' = NoView /\ UNCHANGED hist

Next == (\E l \in Levels : Update(l)) \/ Follow \/ Distrust

Spec == Init /\ [][Next]_<<hist, view>>
=============================================================================
