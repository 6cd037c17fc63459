----------------------------- MODULE TxWebSocket ----------------------------
(***************************************************************************)
(* lighter/tx_ws.rs: the connection on which a process sends its batches,  *)
(* the background reader and pinger, and send_batch, which has to tell the *)
(* sender what became of a frame although answers carry no identifier.     *)
(* The sender's REST path for a single op is here too (paced_send.rs).     *)
(*                                                                         *)
(* Every process has at most one connection; opening a new one drops the   *)
(* old one with everything still on its way to the client.  Application    *)
(* and protocol pings, informational and unreadable messages change        *)
(* nothing; a pong that cannot be written ends the reader.                 *)
(*                                                                         *)
(* Definitions named X_Fault are X with a plausible programming error; no  *)
(* specification uses them.                                                *)
(***************************************************************************)
EXTENDS Integers, Sequences

CONSTANTS
    Procs,          \* processes, each running once
    MaxFrames,      \* bound: frames signed by all processes together
    MaxStray        \* bound: messages that answer no frame

ASSUME ChannelAssumption == MaxFrames \in Nat \ {0} /\ MaxStray \in Nat

VARIABLES
    link,       \* Conn per process: alive, reader, frames written, queues
    call,       \* send_batch per process
    fate,       \* per frame: what happened to it outside
    outcome,    \* per frame: TxSendStatus, with the 429 rejection apart
    strays

wsVars == <<link, call, fate, outcome, strays>>

Frames == 1 .. MaxFrames
Verdicts == {"Ok", "Rejected", "RateLimit"}

Idle == [pc |-> "idle", frame |-> 0]
NoConn == [alive |-> FALSE, reading |-> FALSE, owed |-> {}, wire |-> <<>>, resp |-> <<>>]
FreshConn == [NoConn EXCEPT !.alive = TRUE, !.reading = TRUE]

WsInit ==
    /\ link = [p \in Procs |-> NoConn]
    /\ call = [p \in Procs |-> Idle]
    /\ fate = [f \in Frames |-> "unwritten"]
    /\ outcome = [f \in Frames |-> "none"]
    /\ strays = 0

At(p, pc) == call[p].pc = pc
Goto(p, pc) == call' = [call EXCEPT ![p].pc = pc]

Return(p, o) ==
    /\ outcome' = [outcome EXCEPT ![call[p].frame] = o]
    /\ call' = [call EXCEPT ![p] = Idle]

-----------------------------------------------------------------------------
(* SEND_BATCH                                                              *)

SendBatch(p, f) ==
    /\ At(p, "idle")
    /\ call' = [call EXCEPT ![p] = [pc |-> IF link[p].alive THEN "drain" ELSE "open",
                                    frame |-> f]]
    /\ UNCHANGED <<link, fate, outcome, strays>>

Open(p) ==
    /\ At(p, "open")
    /\ link' = [link EXCEPT ![p] = FreshConn]
    /\ Goto(p, "drain")
    /\ UNCHANGED <<fate, outcome, strays>>

OpenFails(p) ==
    /\ At(p, "open")
    /\ Return(p, "NotSent")
    /\ UNCHANGED <<link, fate, strays>>

Drain(p) ==
    /\ At(p, "drain")
    /\ link' = [link EXCEPT ![p].resp = <<>>]
    /\ Goto(p, "write")
    /\ UNCHANGED <<fate, outcome, strays>>

(* Taking the write lock, which the pinger and the reader also take, and   *)
(* writing the frame have no timeout in the code: while they are awaited   *)
(* the call stays in "write".                                              *)
Write(p) ==
    /\ At(p, "write")
    /\ fate' = [fate EXCEPT ![call[p].frame] = "written"]
    /\ link' = [link EXCEPT ![p].owed = IF link[p].reading THEN @ \cup {call[p].frame} ELSE @]
    /\ Goto(p, "wait")
    /\ UNCHANGED <<outcome, strays>>

(* The socket died during the write; the frame may still have left.        *)
WriteFails(p, left) ==
    /\ At(p, "write")
    /\ fate' = [fate EXCEPT ![call[p].frame] = IF left THEN "written" ELSE "lost"]
    /\ link' = [link EXCEPT ![p].alive = FALSE]
    /\ Return(p, "Unknown")
    /\ UNCHANGED strays

(* code_message: a code 0 or 200, or no code at all, is a success.         *)
TakeAnswer(p) ==
    /\ At(p, "wait") /\ link[p].resp # <<>>
    /\ link' = [link EXCEPT ![p].resp = Tail(@)]
    /\ Return(p, Head(link[p].resp))
    /\ UNCHANGED <<fate, strays>>

Disconnected(p) ==
    /\ At(p, "wait") /\ link[p].resp = <<>> /\ ~link[p].reading
    /\ link' = [link EXCEPT ![p].alive = FALSE]
    /\ Return(p, "Unknown")
    /\ UNCHANGED <<fate, strays>>

TimedOut_KeepsConn_Fault(p) ==
    /\ At(p, "wait") /\ link[p].resp = <<>>
    /\ Return(p, "Unknown")
    /\ UNCHANGED <<link, fate, strays>>

TimedOut_Never_Fault(p) == FALSE /\ UNCHANGED wsVars

(* The connection is given up with the frame, so that a late answer cannot *)
(* be taken for the answer to the next one.                                *)
TimedOut(p) ==
    /\ At(p, "wait") /\ link[p].resp = <<>>
    /\ link' = [link EXCEPT ![p].alive = FALSE]
    /\ Return(p, "Unknown")
    /\ UNCHANGED <<fate, strays>>

-----------------------------------------------------------------------------
(* THE REST PATH: one op while the quota is used up                        *)

RestSend(p, f) ==
    /\ At(p, "idle")
    /\ fate' = [fate EXCEPT ![f] = "written"]
    /\ call' = [call EXCEPT ![p] = [pc |-> "rest", frame |-> f]]
    /\ UNCHANGED <<link, outcome, strays>>

RestAnswer(p) ==
    /\ At(p, "rest") /\ fate[call[p].frame] \in Verdicts
    /\ Return(p, fate[call[p].frame])
    /\ UNCHANGED <<link, fate, strays>>

RestFails(p) ==
    /\ At(p, "rest")
    /\ Return(p, "Unknown")
    /\ UNCHANGED <<link, fate, strays>>

-----------------------------------------------------------------------------
(* READER AND PINGER                                                       *)

Route(p) ==
    /\ link[p].reading /\ link[p].wire # <<>>
    /\ link' = [link EXCEPT ![p].wire = Tail(@), ![p].resp = Append(@, Head(link[p].wire))]
    /\ UNCHANGED <<call, fate, outcome, strays>>

(* Close, socket error or an unsendable pong; what is still on the wire    *)
(* is never read.                                                          *)
RecvEnds(p) ==
    /\ link[p].reading
    /\ link' = [link EXCEPT ![p].reading = FALSE, ![p].alive = FALSE,
                            ![p].owed = {}, ![p].wire = <<>>]
    /\ UNCHANGED <<call, fate, outcome, strays>>

PingFails(p) ==
    /\ link[p].alive
    /\ link' = [link EXCEPT ![p].alive = FALSE]
    /\ UNCHANGED <<call, fate, outcome, strays>>

-----------------------------------------------------------------------------
(* OUTSIDE                                                                 *)

(* The verdict on a frame is returned on the connection it came by, if     *)
(* that is still read.                                                     *)
Answer(f, verdict) ==
    /\ fate[f] = "written"
    /\ fate' = [fate EXCEPT ![f] = verdict]
    /\ link' = [p \in Procs |->
                   IF f \in link[p].owed
                   THEN [link[p] EXCEPT !.owed = @ \ {f}, !.wire = Append(@, verdict)]
                   ELSE link[p]]
    /\ UNCHANGED <<call, outcome, strays>>

(* Somebody can still learn the verdict.                                   *)
Awaited(f) == \E p \in Procs : call[p].frame = f \/ f \in link[p].owed

Lose(f) ==
    /\ fate[f] = "written"
    /\ fate' = [fate EXCEPT ![f] = "lost"]
    /\ link' = [p \in Procs |-> [link[p] EXCEPT !.owed = @ \ {f}]]
    /\ UNCHANGED <<call, outcome, strays>>

(* A message of another kind is routed like an answer, and reads as a      *)
(* success unless it has a code.  It comes between two sends: nothing      *)
(* could tell it from an answer during one.                                *)
Stray(p) ==
    /\ strays < MaxStray
    /\ link[p].reading /\ At(p, "idle")
    /\ strays' = strays + 1
    /\ link' = [link EXCEPT ![p].resp = Append(@, "Ok")]
    /\ UNCHANGED <<call, fate, outcome>>

(* What a process does inside send_batch, and what happens around it.      *)
WsStep(p) ==
    \/ Open(p) \/ OpenFails(p) \/ Drain(p) \/ Write(p)
    \/ \E left \in BOOLEAN : WriteFails(p, left)
    \/ TakeAnswer(p) \/ Disconnected(p) \/ TimedOut(p)
    \/ RestAnswer(p) \/ RestFails(p)

WsBackground(p) == Route(p) \/ RecvEnds(p) \/ PingFails(p) \/ Stray(p)

-----------------------------------------------------------------------------
(* As the caller sees it: frames not executed are open.                    *)
Channel == INSTANCE TxChannel
    WITH fate <- [f \in Frames |-> IF fate[f] \in Verdicts THEN fate[f] ELSE "open"]

(* The outcome reported for a frame is about this very frame: timeouts,    *)
(* reconnects, half-dead sockets and messages left over from earlier sends *)
(* never turn into a verdict, and a frame reported NotSent never lands.    *)
OutcomesAreHonest == Channel!Spec
=============================================================================
