---------------------------- MODULE MCLiveOrders ----------------------------
(***************************************************************************)
(* LiveOrders for TLC.  The configurations choose the environment: the     *)
(* healthy one the comments of the code assume, and the ones in which the  *)
(* rate gate, the REST snapshots or cancel-all are slow or fail.  Slots    *)
(* meet only in a batch, and a batch can be dropped or rejected whatever   *)
(* it holds, so one slot already sees what another slot can do to it.      *)
(***************************************************************************)
EXTENDS LiveOrders

CONSTANT buy

OneSlot == {buy}
=============================================================================
