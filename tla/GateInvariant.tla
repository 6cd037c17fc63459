---------------------------- MODULE GateInvariant ---------------------------
(***************************************************************************)
(* The inductive invariant behind the safety properties of TradingGate.    *)
(* TLC checks it on an instance here, GateProofs proves it.                *)
(***************************************************************************)
EXTENDS TradingGate

SenderHolds == {"wire", "landed", "settle", "cancelAll"}
MainHolds == {"cancelAll", "exited"}

(* sdk_lock has the owner whose position says so; shutdown aborted the     *)
(* sender before anything else could happen under the lock.                *)
LockInv ==
    /\ lock = "sender" <=> sender.pc \in SenderHolds
    /\ lock = "main" <=> main.pc \in MainHolds
    /\ lock = "main" => sender.pc = "aborted"

(* Only frames of unknown outcome are late, and one that can still land    *)
(* has a nonce the counter is past (and past again while a newer frame is  *)
(* on the wire).                                                           *)
LateInv ==
    /\ late => LateFrames /\ ahead >= 0
    /\ sender.pc = "wire" => ahead >= (IF late THEN 1 ELSE 0)

(* Nothing the program still has under way can undo a verified flat book.  *)
ExitInv == ~LateFrames /\ main.pc = "exited" /\ main.flat => ~resting

(* A trusted counter is off by exactly the frame on the wire.              *)
NonceInv ==
    ~LateFrames /\ ~LostRefresh /\ nonceOk
        => ahead = (IF sender.pc = "wire" THEN 1 ELSE 0)

(* A dirty snapshot under treatment keeps last_reconcile_ok down.          *)
SnapshotInv ==
    poller.pc \in {"overCap", "resync", "orphans"} /\ poller.snap # "clean"
        => ~risk.reconcileOk

(* sdk_lock excludes every other user of the nonce while a frame is on the *)
(* wire, so that at every step the counter is trusted only when it is off  *)
(* by that frame alone, no late frame has a reused nonce, a dirty snapshot *)
(* blocks recovery, and nothing sends after the final cancel-all.          *)
GateInv == TypeOK /\ LockInv /\ LateInv /\ ExitInv /\ NonceInv /\ SnapshotInv
=============================================================================
