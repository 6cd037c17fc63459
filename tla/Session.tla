------------------------------- MODULE Session ------------------------------
(***************************************************************************)
(* The life of a live process on one account (orchestrator.rs              *)
(* spawn_live_cold_tasks and run, exec/instance_lock.rs, lighter/nonce.rs, *)
(* next_client_order_index): lock, nonce, leverage, verified flat book,    *)
(* trading over the transaction websocket, shutdown - and a crash between  *)
(* any two of these steps, with frames of the dead process still under way *)
(* when the next one starts.                                               *)
(*                                                                         *)
(* A frame stands for its batch: one nonce, one new order.  Nonces are     *)
(* kept as distances to the nonce the exchange expects (Used: taken).      *)
(* Pauses and the reconcile that ends them are the business of             *)
(* TradingGate.  Processes are numbered in the order of their start.       *)
(***************************************************************************)
EXTENDS TxWebSocket

CONSTANTS
    MaxIndex,           \* MAX_CLIENT_ORDER_INDEX
    Clock,              \* readings of the wall clock
    MaxUnsent,          \* bound: batches replaced in the mailbox before one is sent
    CancelAttempts,     \* attempts of cancel_all_and_verify
    SetLeverage,        \* set_leverage_on_startup
    RefreshMayFail      \* hard_refresh inside cancel_all_and_verify may fail

ASSUME SessionAssumption ==
    /\ Procs \subseteq Nat \ {0}
    /\ MaxIndex \in Nat \ {0, 1} /\ Clock \subseteq Nat /\ Clock # {}
    /\ CancelAttempts \in Nat \ {0} /\ MaxUnsent \in Nat
    /\ SetLeverage \in BOOLEAN /\ RefreshMayFail \in BOOLEAN

VARIABLES
    proc,       \* per process: where it is, NonceManager, last id, batches
                \* collected and not sent, attempt
    lock,       \* holder of the lock file
    signed,     \* the signed frames: whose, nonce, client id
    resting     \* frames whose order rests on the exchange

sessionVars == <<proc, lock, signed, resting>>
vars == <<wsVars, sessionVars>>

Free == 0
Used == -1
Off == [pc |-> "off", ahead |-> 0, last |-> 0, unsent |-> 0, tries |-> 0, why |-> "start"]

Init ==
    /\ WsInit
    /\ proc = [p \in Procs |-> Off]
    /\ lock = Free
    /\ signed = <<>>
    /\ resting = {}

In(p, pc) == proc[p].pc = pc
Move(p, pc) == proc' = [proc EXCEPT ![p].pc = pc]

(* One nonce is used up: everyone is one step closer to, or further behind,*)
(* the nonce the exchange now expects.                                     *)
Closer(n) == IF n = Used THEN Used ELSE n - 1
Consume(s) == [f \in DOMAIN s |-> [s[f] EXCEPT !.nonce = Closer(@)]]
Behind(pr) == [p \in Procs |-> IF pr[p].pc \in {"off", "dead"} THEN pr[p]
                               ELSE [pr[p] EXCEPT !.ahead = @ - 1]]

(* The process is gone: the system closes its socket and its lock file.    *)
Exit(p) ==
    /\ proc' = [proc EXCEPT ![p] = [Off EXCEPT !.pc = "dead"]]
    /\ lock' = IF lock = p THEN Free ELSE lock
    /\ link' = [link EXCEPT ![p] = NoConn]
    /\ call' = [call EXCEPT ![p] = Idle]
    /\ UNCHANGED <<fate, outcome, strays, signed, resting>>

-----------------------------------------------------------------------------
(* STARTUP                                                                 *)

Due(p) == In(p, "off") /\ \A q \in Procs : q < p => ~In(q, "off")

Acquire_Shared_Fault(p) ==
    /\ Due(p)
    /\ lock' = p /\ Move(p, "nonce")
    /\ UNCHANGED <<wsVars, signed, resting>>

(* flock with LOCK_NB: a second process is refused and exits.              *)
Acquire(p) ==
    /\ Due(p)
    /\ IF lock = Free THEN lock' = p /\ Move(p, "nonce")
                      ELSE UNCHANGED lock /\ Move(p, "dead")
    /\ UNCHANGED <<wsVars, signed, resting>>

InitNonce(p) ==
    /\ In(p, "nonce")
    /\ proc' = [proc EXCEPT ![p].ahead = 0,
                            ![p].pc = IF SetLeverage THEN "leverage" ELSE "connect"]
    /\ UNCHANGED <<wsVars, lock, signed, resting>>

(* A failed REST call or a rejection ends the start.                       *)
Bail(p) ==
    /\ proc[p].pc \in {"nonce", "leverage"}
    /\ Exit(p)

(* Update-leverage is a transaction of its own and uses up a nonce.        *)
UpdateLeverage(p) ==
    /\ In(p, "leverage") /\ proc[p].ahead = 0
    /\ signed' = Consume(signed)
    /\ proc' = [Behind(proc) EXCEPT ![p] = [proc[p] EXCEPT !.pc = "connect"]]
    /\ UNCHANGED <<wsVars, lock, resting>>

(* It reached the exchange, but the answer was lost.                       *)
UpdateLeverageUnanswered(p) ==
    /\ In(p, "leverage") /\ proc[p].ahead = 0
    /\ signed' = Consume(signed)
    /\ proc' = [Behind(proc) EXCEPT ![p] = [Off EXCEPT !.pc = "dead"]]
    /\ lock' = IF lock = p THEN Free ELSE lock
    /\ UNCHANGED <<wsVars, resting>>

(* tx_ws.connect: best effort.                                             *)
Connect(p, ok) ==
    /\ In(p, "connect")
    /\ link' = IF ok THEN [link EXCEPT ![p] = FreshConn] ELSE link
    /\ Move(p, "cancel")
    /\ UNCHANGED <<call, fate, outcome, strays, lock, signed, resting>>

-----------------------------------------------------------------------------
(* CANCEL_ALL_AND_VERIFY                                                   *)

CancelAll(p) ==
    /\ In(p, "cancel") /\ proc[p].ahead = 0
    /\ signed' = Consume(signed) /\ resting' = {}
    /\ proc' = [Behind(proc) EXCEPT ![p] = [proc[p] EXCEPT !.pc = "verify"]]
    /\ UNCHANGED <<wsVars, lock>>

(* The request fails, before or after it took effect, or is rejected; the  *)
(* refresh that follows may fail as well, which leaves the nonce reserved. *)
CancelAllFails(p, reached, refreshed) ==
    LET after == IF reached THEN Behind(proc) ELSE proc
    IN  /\ In(p, "cancel")
        /\ ~refreshed => RefreshMayFail
        /\ reached => proc[p].ahead = 0
        /\ signed' = IF reached THEN Consume(signed) ELSE signed
        /\ resting' = IF reached THEN {} ELSE resting
        /\ proc' = [after EXCEPT ![p].ahead = IF refreshed THEN 0 ELSE @ + 1,
                                 ![p].pc = "verify"]
        /\ UNCHANGED <<wsVars, lock>>

(* No active order: startup goes on to trade, an unknown outcome returns   *)
(* to trading, shutdown exits.                                             *)
VerifiedFlat(p) ==
    /\ In(p, "verify") /\ resting = {}
    /\ IF proc[p].why = "exit" THEN Exit(p)
       ELSE /\ proc' = [proc EXCEPT ![p].pc = "trade", ![p].tries = 0, ![p].why = "unknown"]
            /\ UNCHANGED <<wsVars, lock, signed, resting>>

(* Orders are left, or they could not be read: after the last attempt the  *)
(* start is aborted; the other callers ignore the result.                  *)
NotFlat(p) ==
    /\ In(p, "verify")
    /\ IF proc[p].tries + 1 < CancelAttempts
       THEN /\ proc' = [proc EXCEPT ![p].tries = @ + 1, ![p].pc = "cancel"]
            /\ UNCHANGED <<wsVars, lock, signed, resting>>
       ELSE IF proc[p].why = "unknown"
       THEN /\ proc' = [proc EXCEPT ![p].tries = 0, ![p].pc = "trade"]
            /\ UNCHANGED <<wsVars, lock, signed, resting>>
       ELSE Exit(p)

-----------------------------------------------------------------------------
(* TRADING                                                                 *)

NextClientOrderIndex_NoBump_Fault(last, now) ==
    LET id == now % MaxIndex IN IF id = 0 THEN 1 ELSE id

NextClientOrderIndex_NoWrap_Fault(last, now) ==
    LET id  == now % MaxIndex
        new == IF id <= last THEN last + 1 ELSE id
    IN  IF new = 0 THEN 1 ELSE new

(* Never the last id again, even if the clock stands still, runs backwards *)
(* or wraps; never 0, the wildcard of ClearLive.                           *)
NextClientOrderIndex(last, now) ==
    LET id  == now % MaxIndex
        new == IF id <= last THEN (last + 1) % (MaxIndex + 1) ELSE id
    IN  IF new = 0 THEN 1 ELSE new

(* An id is taken when a batch is collected, also by a batch that is       *)
(* replaced in the mailbox before it is sent.  (Nobody sees the ids taken  *)
(* after the last frame.)                                                  *)
CollectUnsent(p, now) ==
    /\ In(p, "trade") /\ proc[p].unsent < MaxUnsent /\ Len(signed) < MaxFrames
    /\ proc' = [proc EXCEPT ![p].last = NextClientOrderIndex(@, now), ![p].unsent = @ + 1]
    /\ UNCHANGED <<wsVars, lock, signed, resting>>

(* sign_batch and the send, under sdk_lock.  The nonces of a batch are     *)
(* signed, sent and answered together: they count as one, and so do its    *)
(* orders.                                                                 *)
Send(p, now) ==
    LET f  == Len(signed) + 1
        id == NextClientOrderIndex(proc[p].last, now)
    IN  /\ In(p, "trade") /\ f \in Frames
        /\ signed' = Append(signed, [by |-> p, id |-> id,
                                     nonce |-> IF proc[p].ahead < 0 THEN Used ELSE proc[p].ahead])
        /\ proc' = [proc EXCEPT ![p].pc = "sent", ![p].ahead = @ + 1, ![p].last = id,
                                ![p].unsent = 0]
        /\ \/ SendBatch(p, f)
           \/ RestSend(p, f)
        /\ UNCHANGED <<lock, resting>>

(* The outcomes of send_once.  429 and NotSent give the nonce back, the    *)
(* other rejections and Unknown fetch it again, and Unknown pulls the book.*)
Settle(p) ==
    LET f == CHOOSE g \in DOMAIN signed :
                 signed[g].by = p /\ \A h \in DOMAIN signed : signed[h].by = p => h <= g
    IN  /\ In(p, "sent") /\ At(p, "idle")
        /\ proc' = [proc EXCEPT
               ![p].ahead = IF outcome[f] \in {"NotSent", "RateLimit"} THEN @ - 1 ELSE @,
               ![p].pc = CASE outcome[f] = "Unknown"  -> "unknown"
                           [] outcome[f] = "Rejected" -> "resync"
                           [] OTHER                   -> "trade"]
        /\ UNCHANGED <<wsVars, lock, signed, resting>>

(* resync_nonce_or_pause; until a refresh succeeds nothing is sent, so the *)
(* failures before it (TradingGate) are not steps here.                    *)
Resync(p) ==
    /\ proc[p].pc \in {"resync", "unknown"}
    /\ proc' = [proc EXCEPT ![p].ahead = 0,
                            ![p].pc = IF @ = "resync" THEN "trade" ELSE "cancel"]
    /\ UNCHANGED <<wsVars, lock, signed, resting>>

Shutdown(p) ==
    /\ In(p, "trade")
    /\ proc' = [proc EXCEPT ![p].pc = "cancel", ![p].why = "exit"]
    /\ UNCHANGED <<wsVars, lock, signed, resting>>

Crash(p) ==
    /\ proc[p].pc \notin {"off", "dead"}
    /\ Exit(p)

-----------------------------------------------------------------------------
(* THE EXCHANGE                                                            *)

(* A frame counts only with the expected nonce.  A business rejection may  *)
(* or may not consume it, a rate limit does not.  A rejection that changes *)
(* nothing and that nobody can learn of is the same as a lost frame.       *)
Accept(f) ==
    /\ fate[f] = "written" /\ signed[f].nonce = 0
    /\ Answer(f, "Ok")
    /\ signed' = Consume(signed) /\ proc' = Behind(proc)
    /\ resting' = resting \cup {f}
    /\ UNCHANGED lock

Reject(f, consumed) ==
    /\ fate[f] = "written"
    /\ IF consumed THEN signed[f].nonce = 0 ELSE Awaited(f)
    /\ Answer(f, "Rejected")
    /\ signed' = IF consumed THEN Consume(signed) ELSE [signed EXCEPT ![f].nonce = Used]
    /\ proc' = IF consumed THEN Behind(proc) ELSE proc
    /\ UNCHANGED <<lock, resting>>

Limit(f) ==
    /\ Awaited(f) /\ Answer(f, "RateLimit")
    /\ signed' = [signed EXCEPT ![f].nonce = Used]
    /\ UNCHANGED <<proc, lock, resting>>

Drop(f) ==
    /\ Lose(f)
    /\ signed' = [signed EXCEPT ![f].nonce = Used]
    /\ UNCHANGED <<proc, lock, resting>>

-----------------------------------------------------------------------------
Sender(p) == WsStep(p) /\ UNCHANGED sessionVars
Background(p) == WsBackground(p) /\ UNCHANGED sessionVars

Startup(p) ==
    \/ InitNonce(p) \/ Bail(p) \/ UpdateLeverage(p) \/ UpdateLeverageUnanswered(p)
    \/ \E ok \in BOOLEAN : Connect(p, ok)

CancelAllAndVerify(p) ==
    \/ CancelAll(p) \/ VerifiedFlat(p) \/ NotFlat(p)
    \/ \E reached, refreshed \in BOOLEAN : CancelAllFails(p, reached, refreshed)

Exchange ==
    \E f \in DOMAIN signed :
        Accept(f) \/ Limit(f) \/ Drop(f) \/ \E c \in BOOLEAN : Reject(f, c)

Next ==
    \/ \E p \in Procs :
          \/ Acquire(p) \/ Startup(p) \/ CancelAllAndVerify(p)
          \/ \E now \in Clock : CollectUnsent(p, now) \/ Send(p, now)
          \/ Sender(p) \/ Background(p)
          \/ Settle(p) \/ Resync(p) \/ Shutdown(p) \/ Crash(p)
    \/ Exchange

Spec == Init /\ [][Next]_vars

(* A process that runs takes its next step: awaits on the socket and on    *)
(* REST end, by a timeout if need be.  Three awaits of send_batch have no  *)
(* timeout and are assumed to end: connect_async, write.lock and w.send    *)
(* (tx_ws.rs 102, 182, 183).  Nobody has to start, stop or send, and the   *)
(* exchange owes no answer.                                                *)
FairSpec ==
    /\ Spec
    /\ \A p \in Procs :
          WF_vars(Startup(p) \/ CancelAllAndVerify(p) \/ Sender(p) \/ Settle(p) \/ Resync(p))

-----------------------------------------------------------------------------
PCs == {"off", "nonce", "leverage", "connect", "cancel", "verify", "trade", "sent",
        "unknown", "resync", "dead"}

(* The shape of every variable of the model.                               *)
TypeOK ==
    /\ proc \in [Procs -> [pc : PCs, ahead : Int, last : 0 .. MaxIndex, unsent : 0 .. MaxUnsent,
                           tries : 0 .. CancelAttempts - 1, why : {"start", "unknown", "exit"}]]
    /\ lock \in Procs \cup {Free}
    /\ signed \in Seq([by : Procs, nonce : Nat \cup {Used}, id : 1 .. MaxIndex])
    /\ Len(signed) <= MaxFrames /\ resting \subseteq DOMAIN signed
    /\ \A p \in Procs : call[p].frame \in 0 .. MaxFrames

Started(p) == proc[p].why # "start"

(* "clear any pre-existing orders AND verify a flat book before enabling   *)
(* sending", with the lock against a second process: whatever rests while  *)
(* a process trades is its own, although the frames of a crashed           *)
(* predecessor may still arrive.                                           *)
NoGhostOrders ==
    \A p \in Procs : Started(p) => \A f \in resting : signed[f].by = p

(* Client ids: orders that rest together can be told apart, and none has   *)
(* the wildcard id 0 - whatever the clock does, across restarts.           *)
IdsAreUsable ==
    \A f \in resting :
        /\ signed[f].id # 0
        /\ \A g \in resting \ {f} : signed[g].id # signed[f].id

Undecided(p) == proc[p].pc \notin {"off", "dead", "trade"}

(* A start ends with trading or with exit, and a send, whatever becomes of *)
(* frame and answer, returns to trading or exits: no step waits for ever.  *)
SessionSettles == []<>(\A p \in Procs : ~Undecided(p))
=============================================================================
