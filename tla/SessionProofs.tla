---------------------------- MODULE SessionProofs ---------------------------
(***************************************************************************)
(* TLAPS proofs about Session and TxWebSocket, for any number of processes *)
(* and frames: types, the honesty of send_batch's outcomes (refinement of  *)
(* TxChannel), the absence of another process's orders, and client ids     *)
(* that tell orders apart.                                                 *)
(***************************************************************************)
EXTENDS Session, SequenceTheorems, TLAPS

Fates == {"unwritten", "written", "lost"} \cup Verdicts
Reports == {"none", "NotSent", "Unknown"} \cup Verdicts
ConnType == [alive : BOOLEAN, reading : BOOLEAN, owed : SUBSET Frames,
             wire : Seq(Verdicts), resp : Seq(Verdicts)]
CallType == [pc : {"idle", "open", "drain", "write", "wait", "rest"}, frame : 0 .. MaxFrames]

WsType ==
    /\ link \in [Procs -> ConnType] /\ call \in [Procs -> CallType]
    /\ fate \in [Frames -> Fates] /\ outcome \in [Frames -> Reports]

(* What was reported is so; what was not signed yet is untouched.          *)
FrameOK(f) ==
    /\ outcome[f] \in Verdicts => fate[f] = outcome[f]
    /\ outcome[f] = "NotSent" => fate[f] = "unwritten"
    /\ f > Len(signed) => fate[f] = "unwritten" /\ outcome[f] = "none"

IsLast(p, f) ==
    /\ f \in DOMAIN signed /\ signed[f].by = p
    /\ \A h \in DOMAIN signed : signed[h].by = p => h <= f

(* send_batch works on the last frame of its own process, of which nothing *)
(* was reported; that frame is out exactly from the write on.              *)
CallOK(p) ==
    /\ call[p].pc = "idle" => call[p].frame = 0
    /\ call[p].pc # "idle" =>
         /\ IsLast(p, call[p].frame) /\ outcome[call[p].frame] = "none"
         /\ proc[p].pc = "sent"
    /\ call[p].pc \in {"open", "drain", "write"} => fate[call[p].frame] = "unwritten"
    /\ call[p].pc \in {"wait", "rest"} => fate[call[p].frame] # "unwritten"

Quiet(c) == c.owed = {} /\ c.wire = <<>>

(* A connection that will be used again owes nothing; while send_batch     *)
(* waits, at most one answer is under way on it, the one to its frame.     *)
ConnOK(p) ==
    /\ \A f \in link[p].owed : fate[f] = "written"
    /\ call[p].pc \in {"idle", "open", "rest"} /\ link[p].alive => Quiet(link[p])
    /\ call[p].pc \in {"drain", "write"} => Quiet(link[p])
    /\ call[p].pc = "write" => link[p].resp = <<>>
    /\ call[p].pc = "wait" =>
         /\ link[p].owed \subseteq {call[p].frame}
         /\ Len(link[p].wire) + Len(link[p].resp) <= 1
         /\ \A i \in 1 .. Len(link[p].wire) : link[p].wire[i] = fate[call[p].frame]
         /\ \A i \in 1 .. Len(link[p].resp) : link[p].resp[i] = fate[call[p].frame]

WsInv == WsType /\ (\A f \in Frames : FrameOK(f)) /\ (\A p \in Procs : CallOK(p) /\ ConnOK(p))

Active(p) == proc[p].pc \notin {"off", "dead"}

(* The lock file: one process at a time.                                   *)
LockInv == \A p \in Procs : Active(p) => lock = p

Cleared == {"cancel", "verify", "trade", "sent", "unknown", "resync"}

Trading == {"trade", "sent", "unknown", "resync"}

(* Sending is enabled by the verified start only.                          *)
StartInv ==
    \A p \in Procs :
        /\ Started(p) => proc[p].pc \in Cleared
        /\ proc[p].pc \in Trading => Started(p)
        /\ proc[p].pc = "off" => proc[p] = Off

Paced == {"nonce", "leverage", "connect", "cancel", "verify", "trade"}

(* Until a sent frame is settled, its process remembers by the counter     *)
(* whether the exchange took it.                                           *)
SentOK(p) ==
    /\ proc[p].ahead <= 1
    /\ \E f \in DOMAIN signed :
         /\ IsLast(p, f)
         /\ fate[f] = "Ok" => proc[p].ahead <= 0
         /\ call[p].pc = "idle" => outcome[f] # "none"

(* With a refresh that does not fail, a process signs only for the nonce   *)
(* the exchange expects, or for one that is gone: the counter is never     *)
(* ahead between two sends.                                                *)
NonceInv ==
    ~RefreshMayFail =>
        /\ \A f \in DOMAIN signed : signed[f].nonce \in {0, Used}
        /\ \A p \in Procs : /\ proc[p].pc \in Paced => proc[p].ahead <= 0
                            /\ proc[p].pc = "sent" => SentOK(p)

(* The leverage transaction uses up the nonce of everything a predecessor  *)
(* left under way.                                                         *)
GhostInv ==
    SetLeverage /\ ~RefreshMayFail =>
        /\ \A p \in Procs : proc[p].pc \in Cleared \cup {"connect"} =>
             \A f \in DOMAIN signed : signed[f].by # p => signed[f].nonce = Used
        /\ NoGhostOrders

SessionInv == TypeOK /\ WsInv /\ LockInv /\ StartInv /\ NonceInv /\ GhostInv

ProcType == [pc : PCs, ahead : Int, last : 0 .. MaxIndex, unsent : 0 .. MaxUnsent,
             tries : 0 .. CancelAttempts - 1, why : {"start", "unknown", "exit"}]
SignedType == [by : Procs, nonce : Nat \cup {Used}, id : 1 .. MaxIndex]

-----------------------------------------------------------------------------
(* LEMMAS ABOUT THE OPERATORS                                              *)

(* next_client_order_index: whatever the clock reads and wherever the last *)
(* id stands, the next one is in range, is not the wildcard 0, and is not  *)
(* the last one again.                                                     *)
LEMMA NextIdFacts ==
    ASSUME NEW last \in 0 .. MaxIndex, NEW now \in Nat
    PROVE  /\ NextClientOrderIndex(last, now) \in 1 .. MaxIndex
           /\ NextClientOrderIndex(last, now) # last
<1> DEFINE id == now % MaxIndex
<1>1. MaxIndex \in Nat /\ MaxIndex >= 2
  BY SessionAssumption DEF SessionAssumption
<1>2. id \in 0 .. MaxIndex - 1
  BY <1>1
<1>3. (last + 1) % (MaxIndex + 1) = IF last = MaxIndex THEN 0 ELSE last + 1
  BY <1>1
<1> HIDE DEF id
<1>4. QED
  BY <1>1, <1>2, <1>3 DEF NextClientOrderIndex, id

(* One nonce used up: frames keep their owner and id, and a frame signed   *)
(* for the expected nonce, or for an older one, is void from then on.      *)
LEMMA ConsumeFacts ==
    ASSUME NEW s \in Seq(SignedType)
    PROVE  /\ Consume(s) \in Seq(SignedType) /\ Len(Consume(s)) = Len(s)
           /\ DOMAIN Consume(s) = DOMAIN s
           /\ \A f \in DOMAIN s : /\ Consume(s)[f].by = s[f].by
                                  /\ s[f].nonce \in {0, Used} => Consume(s)[f].nonce = Used
<1>1. DOMAIN s = 1 .. Len(s) /\ Len(s) \in Nat /\ \A f \in 1 .. Len(s) : s[f] \in SignedType
  OBVIOUS
<1>2. ASSUME NEW f \in 1 .. Len(s)
      PROVE  /\ [s[f] EXCEPT !.nonce = Closer(@)] \in SignedType
             /\ [s[f] EXCEPT !.nonce = Closer(@)].by = s[f].by
             /\ s[f].nonce \in {0, Used} => [s[f] EXCEPT !.nonce = Closer(@)].nonce = Used
  <2>1. s[f] \in SignedType
    BY <1>1
  <2>2. Closer(s[f].nonce) \in Nat \cup {Used}
    BY <2>1 DEF Closer, Used, SignedType
  <2>3. s[f].nonce \in {0, Used} => Closer(s[f].nonce) = Used
    BY DEF Closer, Used
  <2>4. QED
    BY <2>1, <2>2, <2>3 DEF SignedType
<1>3. Consume(s) = [f \in 1 .. Len(s) |-> [s[f] EXCEPT !.nonce = Closer(@)]]
  BY <1>1 DEF Consume
<1>4. Consume(s) \in [1 .. Len(s) -> SignedType]
  BY <1>2, <1>3
<1>5. Consume(s) \in Seq(SignedType) /\ Len(Consume(s)) = Len(s)
  BY <1>1, <1>4
<1>6. QED
  BY <1>1, <1>2, <1>3, <1>5

(* Everybody's counter falls behind by one, and nothing else changes.      *)
LEMMA BehindFacts ==
    ASSUME proc \in [Procs -> ProcType]
    PROVE  /\ Behind(proc) \in [Procs -> ProcType]
           /\ \A q \in Procs :
                /\ Behind(proc)[q].pc = proc[q].pc /\ Behind(proc)[q].why = proc[q].why
                /\ proc[q].pc \in {"off", "dead"} => Behind(proc)[q] = proc[q]
                /\ proc[q].pc \notin {"off", "dead"} =>
                     Behind(proc)[q].ahead = proc[q].ahead - 1
<1>1. ASSUME NEW q \in Procs
      PROVE  /\ [proc[q] EXCEPT !.ahead = @ - 1] \in ProcType
             /\ [proc[q] EXCEPT !.ahead = @ - 1].pc = proc[q].pc
             /\ [proc[q] EXCEPT !.ahead = @ - 1].why = proc[q].why
             /\ [proc[q] EXCEPT !.ahead = @ - 1].ahead = proc[q].ahead - 1
  BY DEF ProcType
<1>2. QED
  BY <1>1 DEF Behind

(* A process has one last frame.                                           *)
LEMMA LastIsUnique ==
    ASSUME signed \in Seq(SignedType), NEW p, NEW f, NEW g, IsLast(p, f), IsLast(p, g)
    PROVE  f = g
BY DEF IsLast

(* Two queues with one element between them, the second not empty.         *)
LEMMA OneAnswer ==
    ASSUME NEW w \in Seq(Verdicts), NEW r \in Seq(Verdicts), r # <<>>, Len(w) + Len(r) <= 1,
           NEW v, \A i \in 1 .. Len(r) : r[i] = v
    PROVE  Head(r) = v /\ v \in Verdicts /\ w = <<>> /\ Tail(r) \in Seq(Verdicts) /\ Len(r) = 1
<1>1. Len(w) \in Nat /\ Len(r) \in Nat \ {0}
  BY EmptySeq, LenProperties
<1>2. Len(w) = 0 /\ Len(r) = 1
  <2> DEFINE m == Len(w)
             n == Len(r)
  <2>1. m \in Nat /\ n \in Nat \ {0} /\ m + n <= 1
    BY <1>1
  <2> HIDE DEF m, n
  <2>2. m = 0 /\ n = 1
    BY <2>1
  <2>3. QED
    BY <2>2 DEF m, n
<1>3. w = <<>>
  BY <1>2, EmptySeq
<1>4. r[1] = v /\ r[1] \in Verdicts /\ Head(r) = r[1]
  BY <1>2, ElementOfSeq
<1>5. Tail(r) \in Seq(Verdicts)
  BY HeadTailProperties
<1>6. QED
  BY <1>2, <1>3, <1>4, <1>5

(* The reader hands the one answer over, or stops.                         *)
LEMMA RoutedAnswer ==
    ASSUME NEW w \in Seq(Verdicts), NEW r \in Seq(Verdicts), Len(w) + Len(r) <= 1,
           NEW v, \A i \in 1 .. Len(w) : w[i] = v
    PROVE  /\ Len(<<>>) + Len(r) <= 1 /\ 1 .. Len(<<>>) = {}
           /\ w # <<>> =>
                /\ Len(Tail(w)) + Len(Append(r, Head(w))) <= 1
                /\ \A i \in 1 .. Len(Tail(w)) : Tail(w)[i] = v
                /\ \A i \in 1 .. Len(Append(r, Head(w))) : Append(r, Head(w))[i] = v
<1> DEFINE m == Len(w)
           n == Len(r)
<1>1. m \in Nat /\ n \in Nat /\ m + n <= 1
  BY LenProperties
<1>2. Len(<<>>) = 0
  OBVIOUS
<1>3. ASSUME w # <<>>
      PROVE  /\ Len(Tail(w)) + Len(Append(r, Head(w))) <= 1
             /\ \A i \in 1 .. Len(Tail(w)) : Tail(w)[i] = v
             /\ \A i \in 1 .. Len(Append(r, Head(w))) : Append(r, Head(w))[i] = v
  <2>1. n + m <= 1
    <3> HIDE DEF m, n
    <3>1. QED
      BY <1>1
  <2>2. Head(w) = v /\ r = <<>> /\ Len(w) = 1
    BY <1>3, <2>1, OneAnswer
  <2>3. Len(Tail(w)) = 0
    BY <1>3, <2>2, HeadTailProperties
  <2>4. Append(r, Head(w)) = <<v>>
    BY <2>2
  <2> DEFINE t == Tail(w)
             a == Append(r, Head(w))
  <2>5. Len(t) = 0 /\ a = <<v>>
    BY <2>3, <2>4
  <2> HIDE DEF t, a
  <2>6. /\ Len(t) + Len(a) <= 1 /\ \A i \in 1 .. Len(t) : t[i] = v
        /\ \A i \in 1 .. Len(a) : a[i] = v
    <3>1. Len(a) = 1 /\ a[1] = v
      BY <2>5
    <3>2. QED
      BY <2>5, <3>1
  <2>7. QED
    BY <2>6 DEF t, a
<1> HIDE DEF m, n
<1>4. 0 + n <= 1 /\ 1 .. 0 = {}
  BY <1>1
<1>5. QED
  BY <1>2, <1>3, <1>4 DEF n

(* An unused connection.                                                   *)
LEMMA NewConnFacts ==
    /\ NoConn \in ConnType /\ Quiet(NoConn) /\ ~NoConn.alive
    /\ FreshConn \in ConnType /\ Quiet(FreshConn)
    /\ \A c \in ConnType : [c EXCEPT !.resp = <<>>] \in ConnType
<1>1. <<>> \in Seq(Verdicts) /\ {} \in SUBSET Frames
  OBVIOUS
<1>2. NoConn \in ConnType /\ Quiet(NoConn) /\ ~NoConn.alive
  BY <1>1 DEF NoConn, ConnType, Quiet
<1>3. ASSUME NEW c \in ConnType, Quiet(c)
      PROVE  /\ [c EXCEPT !.alive = TRUE, !.reading = TRUE] \in ConnType
             /\ Quiet([c EXCEPT !.alive = TRUE, !.reading = TRUE])
  BY <1>3 DEF ConnType, Quiet
<1>4. FreshConn \in ConnType /\ Quiet(FreshConn)
  BY <1>2, <1>3 DEF FreshConn
<1>5. ASSUME NEW c \in ConnType PROVE [c EXCEPT !.resp = <<>>] \in ConnType
  BY <1>1 DEF ConnType
<1>6. QED
  BY <1>2, <1>4, <1>5

(* The types, in the words of this module.                                 *)
LEMMA Shapes ==
    ASSUME SessionInv
    PROVE  /\ proc \in [Procs -> ProcType] /\ signed \in Seq(SignedType)
           /\ Len(signed) \in 0 .. MaxFrames /\ DOMAIN signed = 1 .. Len(signed)
           /\ MaxFrames \in Nat /\ Frames = 1 .. MaxFrames
           /\ link \in [Procs -> ConnType] /\ call \in [Procs -> CallType]
           /\ fate \in [Frames -> Fates] /\ outcome \in [Frames -> Reports]
           /\ \A p \in Procs : CallOK(p) /\ ConnOK(p)
           /\ \A p \in Procs : call[p].frame \in Frames <=> call[p].pc # "idle"
<1>1. proc \in [Procs -> ProcType] /\ signed \in Seq(SignedType) /\ Len(signed) <= MaxFrames
  BY DEF SessionInv, TypeOK, ProcType, SignedType
<1>2. MaxFrames \in Nat /\ Frames = 1 .. MaxFrames
  BY ChannelAssumption DEF ChannelAssumption, Frames
<1>3. WsType /\ \A p \in Procs : CallOK(p) /\ ConnOK(p)
  BY DEF SessionInv, WsInv
<1>4. ASSUME NEW p \in Procs PROVE call[p].frame \in Frames <=> call[p].pc # "idle"
  <2>1. CASE call[p].pc = "idle"
    BY <1>2, <1>3, <2>1 DEF CallOK
  <2>2. CASE call[p].pc # "idle"
    <3>1. call[p].frame \in DOMAIN signed
      BY <1>3, <2>2 DEF CallOK, IsLast
    <3>2. DOMAIN signed = 1 .. Len(signed) /\ Len(signed) \in Nat
      BY <1>1
    <3>3. QED
      BY <1>1, <1>2, <2>2, <3>1, <3>2
  <2>3. QED
    BY <2>1, <2>2
<1>5. QED
  BY <1>1, <1>2, <1>3, <1>4 DEF WsType

-----------------------------------------------------------------------------
(* STEPS OF THE WEBSOCKET                                                  *)

(* A process's own step on its connection touches nobody else's: the frame *)
(* it may write or report is its own.                                      *)
LEMMA OthersKeep ==
    ASSUME SessionInv, NEW p \in Procs, NEW q \in Procs, q # p,
           link'[q] = link[q], call'[q] = call[q], UNCHANGED <<proc, signed>>,
           \A f \in Frames : f # call[p].frame => fate'[f] = fate[f] /\ outcome'[f] = outcome[f],
           call[p].frame \in Frames =>
               \/ fate'[call[p].frame] = fate[call[p].frame]
               \/ fate[call[p].frame] = "unwritten"
    PROVE  CallOK(q)' /\ ConnOK(q)'
<1>1. CallOK(q) /\ ConnOK(q) /\ CallOK(p) /\ link[q] \in ConnType
  BY Shapes
<1>2. ASSUME call[q].pc # "idle" PROVE call[q].frame \in Frames /\ call[q].frame # call[p].frame
  <2>1. call[q].frame \in Frames /\ IsLast(q, call[q].frame)
    BY <1>1, <1>2, Shapes DEF CallOK
  <2>2. CASE call[p].pc = "idle"
    BY <1>1, <2>1, <2>2, Shapes DEF CallOK
  <2>3. CASE call[p].pc # "idle"
    BY <1>1, <2>1, <2>3 DEF CallOK, IsLast
  <2>4. QED
    BY <2>2, <2>3
<1>3. call[q].pc # "idle" =>
        /\ fate'[call[q].frame] = fate[call[q].frame]
        /\ outcome'[call[q].frame] = outcome[call[q].frame]
  BY <1>2
<1>4. CallOK(q)'
  BY <1>1, <1>3 DEF CallOK, IsLast
<1>5. \A f \in link[q].owed : fate'[f] = "written"
  <2>1. \A f \in link[q].owed : f \in Frames /\ fate[f] = "written"
    BY <1>1 DEF ConnType, ConnOK
  <2>2. QED
    BY <2>1
<1>6. ConnOK(q)'
  BY <1>1, <1>3, <1>5 DEF ConnOK
<1>7. QED
  BY <1>4, <1>6

(* What is left to show for a step of p's send_batch, reader or pinger.    *)
LEMMA WsLocal ==
    ASSUME SessionInv, NEW p \in Procs, UNCHANGED sessionVars,
           link' \in [Procs -> ConnType], call' \in [Procs -> CallType],
           fate' \in [Frames -> Fates], outcome' \in [Frames -> Reports],
           \A q \in Procs : q # p => link'[q] = link[q] /\ call'[q] = call[q],
           \A f \in Frames : f # call[p].frame => fate'[f] = fate[f] /\ outcome'[f] = outcome[f],
           \A f \in Frames : f = call[p].frame => FrameOK(f)',
           call[p].frame \in Frames =>
               /\ \/ fate'[call[p].frame] = fate[call[p].frame]
                  \/ fate[call[p].frame] = "unwritten" /\ fate'[call[p].frame] # "Ok"
               /\ call'[p].pc = "idle" => outcome'[call[p].frame] # "none",
           call[p].pc = "idle" => call'[p].pc = "idle",
           CallOK(p)', ConnOK(p)'
    PROVE  SessionInv'
<1>1. UNCHANGED <<proc, lock, signed, resting>>
  BY DEF sessionVars
<1>2. \A q \in Procs : CallOK(q)' /\ ConnOK(q)'
  BY <1>1, OthersKeep
<1>3. ASSUME NEW f \in Frames PROVE FrameOK(f)'
  <2>1. CASE f = call[p].frame
    BY <2>1
  <2>2. CASE f # call[p].frame
    <3>1. FrameOK(f) /\ fate'[f] = fate[f] /\ outcome'[f] = outcome[f]
      BY <2>2 DEF SessionInv, WsInv
    <3>2. QED
      BY <1>1, <3>1 DEF FrameOK
  <2>3. QED
    BY <2>1, <2>2
<1>4. WsInv'
  BY <1>2, <1>3 DEF WsInv, WsType
<1>5. TypeOK' /\ LockInv' /\ StartInv' /\ GhostInv'
  <2>1. \A q \in Procs : call'[q].frame \in 0 .. MaxFrames
    BY DEF CallType
  <2>2. TypeOK'
    BY <1>1, <2>1 DEF SessionInv, TypeOK
  <2>3. LockInv' /\ StartInv'
    BY <1>1 DEF SessionInv, LockInv, Active, StartInv, Started
  <2>4. GhostInv'
    BY <1>1 DEF SessionInv, GhostInv, NoGhostOrders, Started
  <2>5. QED
    BY <2>2, <2>3, <2>4
<1>6. ASSUME ~RefreshMayFail, NEW q \in Procs, proc[q].pc = "sent" PROVE SentOK(q)'
  <2>1. SentOK(q)
    BY <1>6 DEF SessionInv, NonceInv
  <2>2. PICK f \in DOMAIN signed : /\ IsLast(q, f)
                                   /\ fate[f] = "Ok" => proc[q].ahead <= 0
                                   /\ call[q].pc = "idle" => outcome[f] # "none"
    BY <2>1 DEF SentOK
  <2>3. f \in Frames
    BY <2>2, Shapes
  <2>4. fate'[f] = "Ok" => proc[q].ahead <= 0
    BY <2>2, <2>3
  <2>5. call'[q].pc = "idle" => outcome'[f] # "none"
    <3>1. CASE q # p /\ f # call[p].frame
      BY <2>2, <2>3, <3>1
    <3>2. CASE f = call[p].frame
      <4>1. call[p].pc # "idle"
        BY <2>3, <3>2, Shapes
      <4>2. IsLast(p, f)
        BY <3>2, <4>1, Shapes DEF CallOK
      <4>3. q = p
        BY <2>2, <4>2 DEF IsLast
      <4>4. QED
        BY <2>3, <3>2, <4>3
    <3>3. CASE q = p /\ f # call[p].frame
      <4>1. call[p].pc = "idle"
        BY <2>2, <3>3, Shapes, LastIsUnique DEF CallOK
      <4>2. QED
        BY <2>2, <2>3, <3>3, <4>1
    <3>4. QED
      BY <3>1, <3>2, <3>3
  <2>6. QED
    BY <1>1, <2>1, <2>2, <2>4, <2>5 DEF SentOK, IsLast
<1>7. NonceInv'
  BY <1>1, <1>6 DEF SessionInv, NonceInv
<1>8. QED
  BY <1>4, <1>5, <1>7 DEF SessionInv

(* send_batch and the REST path.                                           *)
LEMMA WsStepKeeps ==
    ASSUME SessionInv, NEW p \in Procs, WsStep(p), UNCHANGED sessionVars
    PROVE  SessionInv'
<1> DEFINE fr == call[p].frame
           c == link[p]
<1>1. /\ link \in [Procs -> ConnType] /\ call \in [Procs -> CallType]
      /\ fate \in [Frames -> Fates] /\ outcome \in [Frames -> Reports]
      /\ c \in ConnType /\ CallOK(p) /\ ConnOK(p)
      /\ UNCHANGED <<proc, lock, signed, resting>>
  BY Shapes DEF sessionVars
<1>2. call[p].pc # "idle"
  BY DEF WsStep, At, Open, OpenFails, Drain, Write, WriteFails, TakeAnswer, Disconnected,
         TimedOut, RestAnswer, RestFails
<1>3. /\ fr \in Frames /\ IsLast(p, fr) /\ outcome[fr] = "none" /\ proc[p].pc = "sent"
      /\ FrameOK(fr) /\ fr <= Len(signed)
  BY <1>1, <1>2, Shapes DEF CallOK, IsLast, SessionInv, WsInv
(* The two shapes of a step: it returns an outcome, or goes on.            *)
<1>4. ASSUME NEW o \in Reports \ {"none"}, Return(p, o),
             link' \in [Procs -> ConnType], \A q \in Procs : q # p => link'[q] = link[q],
             fate' \in [Frames -> Fates], \A f \in Frames : f # fr => fate'[f] = fate[f],
             fate'[fr] = fate[fr] \/ (fate[fr] = "unwritten" /\ fate'[fr] \in {"written", "lost"}),
             o \in Verdicts => fate'[fr] = o, o = "NotSent" => fate'[fr] = "unwritten",
             \A f \in link'[p].owed : fate'[f] = "written",
             link'[p].alive => Quiet(link'[p])
      PROVE  SessionInv'
  <2>1. /\ outcome' \in [Frames -> Reports] /\ outcome'[fr] = o
        /\ \A f \in Frames : f # fr => outcome'[f] = outcome[f]
    BY <1>1, <1>3, <1>4 DEF Return
  <2>2. /\ call' \in [Procs -> CallType] /\ call'[p] = Idle
        /\ \A q \in Procs : q # p => call'[q] = call[q]
    <3>1. Idle \in CallType
      BY ChannelAssumption DEF ChannelAssumption, Idle, CallType
    <3>2. QED
      BY <1>1, <1>4, <3>1 DEF Return
  <2>3. CallOK(p)' /\ ConnOK(p)'
    BY <1>4, <2>2 DEF CallOK, ConnOK, Idle
  <2>4. \A f \in Frames : f = fr => FrameOK(f)'
    BY <1>1, <1>3, <1>4, <2>1, ChannelAssumption DEF ChannelAssumption, Frames, FrameOK, Verdicts
  <2>5. QED
    BY <1>2, <1>4, <2>1, <2>2, <2>3, <2>4, WsLocal
<1>5. ASSUME NEW x \in {"drain", "write", "wait"}, Goto(p, x), UNCHANGED outcome,
             link' \in [Procs -> ConnType], \A q \in Procs : q # p => link'[q] = link[q],
             fate' \in [Frames -> Fates], \A f \in Frames : f # fr => fate'[f] = fate[f],
             fate[fr] = "unwritten", fate'[fr] = IF x = "wait" THEN "written" ELSE "unwritten",
             \A f \in link'[p].owed : fate'[f] = "written",
             x \in {"drain", "write"} => Quiet(link'[p]),
             x # "drain" => link'[p].resp = <<>>,
             x = "wait" => link'[p].owed \subseteq {fr} /\ link'[p].wire = <<>>
      PROVE  SessionInv'
  <2>1. /\ call' \in [Procs -> CallType] /\ call'[p].pc = x /\ call'[p].frame = fr
        /\ \A q \in Procs : q # p => call'[q] = call[q]
    BY <1>1, <1>5 DEF Goto, CallType
  <2>2. CallOK(p)'
    BY <1>1, <1>3, <1>5, <2>1 DEF CallOK, IsLast
  <2>3. ConnOK(p)'
    <3>1. CASE x = "wait"
      <4>1. link'[p].wire = <<>> /\ link'[p].resp = <<>> /\ link'[p].owed \subseteq {fr}
        BY <1>5, <3>1
      <4>2. Len(link'[p].wire) = 0 /\ Len(link'[p].resp) = 0
        BY <4>1
      <4>3. /\ Len(link'[p].wire) + Len(link'[p].resp) <= 1
            /\ 1 .. Len(link'[p].wire) = {} /\ 1 .. Len(link'[p].resp) = {}
        BY <4>2
      <4>4. QED
        BY <1>5, <2>1, <3>1, <4>1, <4>3 DEF ConnOK
    <3>2. CASE x # "wait"
      BY <1>5, <2>1, <3>2 DEF ConnOK
    <3>3. QED
      BY <3>1, <3>2
  <2>4. \A f \in Frames : f = fr => FrameOK(f)'
    BY <1>1, <1>3, <1>5, ChannelAssumption DEF ChannelAssumption, Frames, FrameOK, Verdicts
  <2>5. QED
    BY <1>1, <1>2, <1>5, <2>1, <2>2, <2>3, <2>4, WsLocal
<1>6. CASE Open(p)
  <2>1. FreshConn \in ConnType /\ Quiet(FreshConn)
    BY NewConnFacts
  <2>2. Goto(p, "drain") /\ link' = [link EXCEPT ![p] = FreshConn] /\ UNCHANGED <<fate, outcome>>
    BY <1>6 DEF Open
  <2>3. fate[fr] = "unwritten"
    BY <1>1, <1>6 DEF Open, At, CallOK
  <2>4. /\ link'[p] = FreshConn /\ link' \in [Procs -> ConnType]
        /\ \A q \in Procs : q # p => link'[q] = link[q]
    BY <1>1, <2>1, <2>2
  <2>5. QED
    BY <1>1, <1>5, <2>1, <2>2, <2>3, <2>4 DEF Quiet
<1>7. CASE OpenFails(p)
  <2>1. Return(p, "NotSent") /\ UNCHANGED <<link, fate>> /\ call[p].pc = "open"
    BY <1>7 DEF OpenFails, At
  <2>2. fate[fr] = "unwritten"
    BY <1>1, <2>1 DEF CallOK
  <2>3. QED
    BY <1>1, <1>4, <2>1, <2>2 DEF Reports, Verdicts, ConnOK, Quiet
<1>8. CASE Drain(p)
  <2>1. /\ Goto(p, "write") /\ UNCHANGED <<fate, outcome>> /\ call[p].pc = "drain"
        /\ link' = [link EXCEPT ![p].resp = <<>>]
    BY <1>8 DEF Drain, At
  <2>2. fate[fr] = "unwritten" /\ Quiet(c)
    BY <1>1, <2>1 DEF CallOK, ConnOK
  <2>3. [c EXCEPT !.resp = <<>>] \in ConnType
    BY <1>1, NewConnFacts
  <2>4. /\ link' \in [Procs -> ConnType] /\ \A q \in Procs : q # p => link'[q] = link[q]
        /\ link'[p].resp = <<>> /\ Quiet(link'[p])
    BY <1>1, <2>1, <2>2, <2>3 DEF ConnType, Quiet
  <2>5. QED
    BY <1>1, <1>5, <2>1, <2>2, <2>4 DEF Quiet
<1>9. CASE Write(p)
  <2>1. /\ Goto(p, "wait") /\ UNCHANGED outcome /\ call[p].pc = "write"
        /\ fate' = [fate EXCEPT ![fr] = "written"]
        /\ link' = [link EXCEPT ![p].owed = IF link[p].reading THEN @ \cup {fr} ELSE @]
    BY <1>9 DEF Write, At
  <2>2. fate[fr] = "unwritten" /\ Quiet(c) /\ c.resp = <<>>
    BY <1>1, <2>1 DEF CallOK, ConnOK
  <2>3. /\ fate' \in [Frames -> Fates] /\ fate'[fr] = "written"
        /\ \A f \in Frames : f # fr => fate'[f] = fate[f]
    BY <1>1, <1>3, <2>1 DEF Fates
  <2>4. [c EXCEPT !.owed = IF link[p].reading THEN @ \cup {fr} ELSE @] \in ConnType
    BY <1>1, <1>3 DEF ConnType
  <2>5. /\ link' \in [Procs -> ConnType] /\ \A q \in Procs : q # p => link'[q] = link[q]
        /\ link'[p].resp = <<>> /\ link'[p].wire = <<>> /\ link'[p].owed \subseteq {fr}
    BY <1>1, <2>1, <2>2, <2>4 DEF ConnType, Quiet
  <2>6. QED
    BY <1>5, <2>1, <2>2, <2>3, <2>5
<1>10. ASSUME NEW left \in BOOLEAN, WriteFails(p, left) PROVE SessionInv'
  <2>1. /\ Return(p, "Unknown") /\ call[p].pc = "write"
        /\ fate' = [fate EXCEPT ![fr] = IF left THEN "written" ELSE "lost"]
        /\ link' = [link EXCEPT ![p].alive = FALSE]
    BY <1>10 DEF WriteFails, At
  <2>2. fate[fr] = "unwritten" /\ Quiet(c)
    BY <1>1, <2>1 DEF CallOK, ConnOK
  <2>3. /\ fate' \in [Frames -> Fates] /\ fate'[fr] \in {"written", "lost"}
        /\ \A f \in Frames : f # fr => fate'[f] = fate[f]
    BY <1>1, <1>3, <2>1 DEF Fates
  <2>4. /\ link' \in [Procs -> ConnType] /\ \A q \in Procs : q # p => link'[q] = link[q]
        /\ Quiet(link'[p])
    BY <1>1, <2>1, <2>2 DEF ConnType, Quiet
  <2>5. QED
    BY <1>4, <2>1, <2>2, <2>3, <2>4 DEF Reports, Verdicts, Quiet
<1>11. CASE TakeAnswer(p)
  <2>1. /\ Return(p, Head(c.resp)) /\ call[p].pc = "wait" /\ c.resp # <<>>
        /\ fate' = fate /\ link' = [link EXCEPT ![p].resp = Tail(@)]
    BY <1>11 DEF TakeAnswer, At
  <2>2. /\ c.owed \subseteq {fr} /\ Len(c.wire) + Len(c.resp) <= 1
        /\ \A i \in 1 .. Len(c.resp) : c.resp[i] = fate[fr]
        /\ \A f \in c.owed : fate[f] = "written"
    BY <1>1, <2>1 DEF ConnOK
  <2>3. c.wire \in Seq(Verdicts) /\ c.resp \in Seq(Verdicts)
    BY <1>1 DEF ConnType
  <2>4. /\ Head(c.resp) = fate[fr] /\ fate[fr] \in Verdicts /\ c.wire = <<>>
        /\ Tail(c.resp) \in Seq(Verdicts)
    <3> DEFINE v == fate[fr]
    <3>1. c.resp # <<>> /\ Len(c.wire) + Len(c.resp) <= 1
      BY <2>1, <2>2
    <3>2. \A i \in 1 .. Len(c.resp) : c.resp[i] = v
      BY <2>2
    <3> HIDE DEF v, c
    <3>3. Head(c.resp) = v /\ v \in Verdicts /\ c.wire = <<>> /\ Tail(c.resp) \in Seq(Verdicts)
      BY <2>3, <3>1, <3>2, OneAnswer
    <3>4. QED
      BY <3>3 DEF v
  <2>5. c.owed = {}
    BY <2>2, <2>4 DEF Verdicts
  <2>6. [c EXCEPT !.resp = Tail(@)] \in ConnType
    BY <1>1, <2>4 DEF ConnType
  <2>7. /\ link' \in [Procs -> ConnType] /\ \A q \in Procs : q # p => link'[q] = link[q]
        /\ Quiet(link'[p])
    BY <1>1, <2>1, <2>4, <2>5, <2>6 DEF ConnType, Quiet
  <2>8. QED
    BY <1>1, <1>4, <2>1, <2>4, <2>7 DEF Reports, Verdicts, Quiet
<1>12. CASE Disconnected(p) \/ TimedOut(p)
  <2>1. /\ Return(p, "Unknown") /\ fate' = fate /\ link' = [link EXCEPT ![p].alive = FALSE]
    BY <1>12 DEF Disconnected, TimedOut
  <2>2. /\ link' \in [Procs -> ConnType] /\ \A q \in Procs : q # p => link'[q] = link[q]
        /\ link'[p].owed = c.owed /\ link'[p].alive = FALSE
    BY <1>1, <2>1 DEF ConnType
  <2>3. \A f \in c.owed : fate[f] = "written"
    BY <1>1 DEF ConnOK
  <2>4. QED
    BY <1>1, <1>4, <2>1, <2>2, <2>3 DEF Reports, Verdicts
<1>13. CASE RestAnswer(p) \/ RestFails(p)
  <2>1. /\ call[p].pc = "rest" /\ UNCHANGED <<link, fate>>
        /\ Return(p, "Unknown") \/ (fate[fr] \in Verdicts /\ Return(p, fate[fr]))
    BY <1>13 DEF RestAnswer, RestFails, At
  <2>2. /\ \A f \in c.owed : fate[f] = "written"
        /\ c.alive => Quiet(c)
    BY <1>1, <2>1 DEF ConnOK
  <2>3. CASE Return(p, "Unknown")
    BY <1>1, <1>4, <2>1, <2>2, <2>3 DEF Reports, Verdicts
  <2>4. CASE fate[fr] \in Verdicts /\ Return(p, fate[fr])
    BY <1>1, <1>4, <2>1, <2>2, <2>4 DEF Reports, Verdicts
  <2>5. QED
    BY <2>1, <2>3, <2>4
<1>14. QED
  BY <1>6, <1>7, <1>8, <1>9, <1>10, <1>11, <1>12, <1>13 DEF WsStep

(* Reader and pinger change p's connection only.                           *)
LEMMA ConnMoves ==
    ASSUME SessionInv, NEW p \in Procs, NEW c \in ConnType,
           link' = [link EXCEPT ![p] = c], UNCHANGED <<call, fate, outcome, sessionVars>>,
           c.owed \subseteq link[p].owed,
           call[p].pc \in {"idle", "open", "rest"} /\ c.alive => Quiet(c),
           call[p].pc \in {"drain", "write"} => Quiet(c),
           call[p].pc = "write" => c.resp = <<>>,
           call[p].pc = "wait" =>
             /\ Len(c.wire) + Len(c.resp) <= 1
             /\ \A i \in 1 .. Len(c.wire) : c.wire[i] = fate[call[p].frame]
             /\ \A i \in 1 .. Len(c.resp) : c.resp[i] = fate[call[p].frame]
    PROVE  SessionInv'
<1>1. /\ link \in [Procs -> ConnType] /\ call \in [Procs -> CallType]
      /\ fate \in [Frames -> Fates] /\ outcome \in [Frames -> Reports]
      /\ CallOK(p) /\ ConnOK(p) /\ UNCHANGED <<proc, lock, signed, resting>>
      /\ call[p].frame \in Frames <=> call[p].pc # "idle"
  BY Shapes DEF sessionVars
<1>2. /\ link' \in [Procs -> ConnType] /\ link'[p] = c
      /\ \A q \in Procs : q # p => link'[q] = link[q]
  BY <1>1
<1>3. CallOK(p)'
  BY <1>1 DEF CallOK, IsLast
<1>4. ConnOK(p)'
  BY <1>1, <1>2 DEF ConnOK
<1>5. \A f \in Frames : f = call[p].frame => FrameOK(f)'
  BY <1>1 DEF SessionInv, WsInv, FrameOK
<1>6. call'[p].pc = "idle" => call[p].frame \notin Frames
  BY <1>1
<1>7. QED
  BY <1>1, <1>2, <1>3, <1>4, <1>5, <1>6, WsLocal

(* The reader, the pinger and messages that answer nothing.                *)
LEMMA WsBackgroundKeeps ==
    ASSUME SessionInv, NEW p \in Procs, WsBackground(p), UNCHANGED sessionVars
    PROVE  SessionInv'
<1> DEFINE c == link[p]
           fr == call[p].frame
<1>1. /\ link \in [Procs -> ConnType] /\ c \in ConnType /\ ConnOK(p) /\ call[p] \in CallType
  BY Shapes
<1>2. c.wire \in Seq(Verdicts) /\ c.resp \in Seq(Verdicts) /\ c.owed \in SUBSET Frames
  BY <1>1 DEF ConnType
<1>3. CASE Route(p)
  <2> DEFINE w == c.wire
             r == c.resp
             d == [c EXCEPT !.wire = Tail(w), !.resp = Append(r, Head(w))]
  <2>1. /\ c.reading /\ w # <<>> /\ link' = [link EXCEPT ![p] = d]
        /\ UNCHANGED <<call, fate, outcome, strays>>
    BY <1>1, <1>3 DEF Route
  <2>2. Head(w) \in Verdicts /\ Tail(w) \in Seq(Verdicts)
    BY <1>2, <2>1, HeadTailProperties
  <2>3. Append(r, Head(w)) \in Seq(Verdicts)
    BY <1>2, <2>2
  <2>4. /\ d \in ConnType /\ d.owed = c.owed /\ d.alive = c.alive /\ d.wire = Tail(w)
        /\ d.resp = Append(r, Head(w))
    BY <1>1, <2>2, <2>3 DEF ConnType
  <2>5. ~Quiet(c)
    BY <2>1 DEF Quiet
  <2>6. call[p].pc = "wait" \/ (call[p].pc \in {"idle", "open", "rest"} /\ ~c.alive)
    BY <1>1, <2>5 DEF ConnOK, CallType
  <2>7. ASSUME call[p].pc = "wait"
        PROVE  /\ Len(d.wire) + Len(d.resp) <= 1
               /\ \A i \in 1 .. Len(d.wire) : d.wire[i] = fate[fr]
               /\ \A i \in 1 .. Len(d.resp) : d.resp[i] = fate[fr]
    <3> DEFINE v == fate[fr]
    <3>1. Len(w) + Len(r) <= 1 /\ \A i \in 1 .. Len(w) : w[i] = v
      BY <1>1, <2>7 DEF ConnOK
    <3> HIDE DEF v, w, r
    <3>2. r \in Seq(Verdicts) /\ w \in Seq(Verdicts) /\ w # <<>>
      BY <1>2, <2>1 DEF w, r
    <3>3. /\ Len(Tail(w)) + Len(Append(r, Head(w))) <= 1
          /\ \A i \in 1 .. Len(Tail(w)) : Tail(w)[i] = v
          /\ \A i \in 1 .. Len(Append(r, Head(w))) : Append(r, Head(w))[i] = v
      BY <3>1, <3>2, RoutedAnswer
    <3>4. d.wire = Tail(w) /\ d.resp = Append(r, Head(w))
      BY <2>4
    <3> HIDE DEF d
    <3>5. QED
      BY <3>3, <3>4 DEF v
  <2> HIDE DEF d
  <2>8. QED
    BY <2>1, <2>4, <2>6, <2>7, ConnMoves
<1>4. CASE RecvEnds(p)
  <2> DEFINE d == [c EXCEPT !.reading = FALSE, !.alive = FALSE, !.owed = {}, !.wire = <<>>]
  <2>1. link' = [link EXCEPT ![p] = d] /\ UNCHANGED <<call, fate, outcome, strays>>
    BY <1>1, <1>4 DEF RecvEnds
  <2>2. d \in ConnType /\ Quiet(d) /\ d.owed \subseteq c.owed /\ d.resp = c.resp
    <3>1. <<>> \in Seq(Verdicts)
      OBVIOUS
    <3>2. QED
      BY <1>1, <3>1 DEF ConnType, Quiet
  <2> HIDE DEF d
  <2>3. call[p].pc = "write" => d.resp = <<>>
    BY <1>1, <2>2 DEF ConnOK
  <2>4. ASSUME call[p].pc = "wait"
        PROVE  /\ Len(d.wire) + Len(d.resp) <= 1
               /\ \A i \in 1 .. Len(d.wire) : d.wire[i] = fate[fr]
               /\ \A i \in 1 .. Len(d.resp) : d.resp[i] = fate[fr]
    <3> DEFINE v == fate[fr]
               w == c.wire
               r == c.resp
    <3>1. /\ Len(w) + Len(r) <= 1 /\ \A i \in 1 .. Len(w) : w[i] = v
          /\ \A i \in 1 .. Len(r) : r[i] = v
      BY <1>1, <2>4 DEF ConnOK
    <3> HIDE DEF v, w, r
    <3>2. r \in Seq(Verdicts) /\ w \in Seq(Verdicts)
      BY <1>2 DEF w, r
    <3>3. Len(<<>>) + Len(r) <= 1 /\ 1 .. Len(<<>>) = {}
      BY <3>1, <3>2, RoutedAnswer
    <3>4. d.wire = <<>> /\ d.resp = r
      BY <2>2 DEF Quiet, r
    <3>5. QED
      BY <3>1, <3>3, <3>4 DEF v
  <2>5. QED
    BY <2>1, <2>2, <2>3, <2>4, ConnMoves
<1>5. CASE PingFails(p)
  <2> DEFINE d == [c EXCEPT !.alive = FALSE]
  <2>1. link' = [link EXCEPT ![p] = d] /\ UNCHANGED <<call, fate, outcome, strays>>
    BY <1>1, <1>5 DEF PingFails
  <2>2. d \in ConnType /\ ~d.alive /\ d.owed = c.owed /\ d.wire = c.wire /\ d.resp = c.resp
    BY <1>1 DEF ConnType
  <2> HIDE DEF d
  <2>3. QED
    BY <1>1, <2>1, <2>2, ConnMoves DEF ConnOK, Quiet
<1>6. CASE Stray(p)
  <2> DEFINE d == [c EXCEPT !.resp = Append(c.resp, "Ok")]
  <2>1. /\ link' = [link EXCEPT ![p] = d] /\ UNCHANGED <<call, fate, outcome>>
        /\ call[p].pc = "idle"
    BY <1>1, <1>6 DEF Stray, At
  <2>2. Append(c.resp, "Ok") \in Seq(Verdicts)
    BY <1>2 DEF Verdicts
  <2>3. d \in ConnType /\ d.alive = c.alive /\ d.owed = c.owed /\ d.wire = c.wire
    BY <1>1, <2>2 DEF ConnType
  <2> HIDE DEF d
  <2>4. QED
    BY <1>1, <2>1, <2>3, ConnMoves DEF ConnOK, Quiet
<1>7. QED
  BY <1>3, <1>4, <1>5, <1>6 DEF WsBackground

-----------------------------------------------------------------------------
(* STEPS OF THE PROCESSES                                                  *)

(* The parts of the invariant, at their use.                               *)
LEMMA Parts ==
    ASSUME SessionInv, NEW p \in Procs
    PROVE  /\ Active(p) => lock = p /\ \A q \in Procs : q # p => ~Active(q)
           /\ proc[p].pc # "sent" => call[p] = Idle
           /\ Started(p) => proc[p].pc \in Cleared
           /\ proc[p].pc \in Trading => Started(p)
           /\ proc[p].pc = "off" => proc[p] = Off
           /\ ~RefreshMayFail /\ proc[p].pc \in Paced => proc[p].ahead <= 0
           /\ SetLeverage /\ ~RefreshMayFail /\ proc[p].pc \in Cleared \cup {"connect"} =>
                \A f \in DOMAIN signed : signed[f].by # p => signed[f].nonce = Used
           /\ SetLeverage /\ ~RefreshMayFail /\ Started(p) =>
                \A f \in resting : signed[f].by = p
<1>1. call[p] = Idle <=> call[p].pc = "idle"
  <2>1. call[p] \in CallType /\ CallOK(p)
    BY Shapes
  <2>2. QED
    BY <2>1 DEF CallType, CallOK, Idle
<1>2. proc[p].pc # "sent" => call[p] = Idle
  BY <1>1, Shapes DEF CallOK
<1>3. Active(p) => lock = p /\ \A q \in Procs : q # p => ~Active(q)
  BY DEF SessionInv, LockInv
<1>4. QED
  BY <1>2, <1>3 DEF SessionInv, StartInv, NonceInv, GhostInv, NoGhostOrders

(* A step that changes one process only, and perhaps uses up a nonce: what *)
(* it has to respect.  All steps but sending are of this kind.             *)
LEMMA ProcMoves ==
    ASSUME SessionInv, NEW p \in Procs, NEW r, proc' \in [Procs -> ProcType], proc'[p] = r,
           \A q \in Procs : q # p => /\ proc'[q].pc = proc[q].pc /\ proc'[q].why = proc[q].why
                                     /\ proc'[q].ahead <= proc[q].ahead
                                     /\ proc[q].pc = "off" => proc'[q] = proc[q],
           signed' \in Seq(SignedType), Len(signed') = Len(signed),
           \A f \in DOMAIN signed :
               /\ signed'[f].by = signed[f].by
               /\ signed[f].nonce \in {0, Used} => signed'[f].nonce \in {0, Used}
               /\ signed[f].nonce = Used => signed'[f].nonce = Used,
           resting' \subseteq resting, UNCHANGED <<fate, outcome>>,
           link' \in [Procs -> ConnType], call' \in [Procs -> CallType], call'[p] = Idle,
           \A q \in Procs : q # p => link'[q] = link[q] /\ call'[q] = call[q],
           \A f \in link'[p].owed : fate[f] = "written",
           link'[p].alive => Quiet(link'[p]),
           lock' \in Procs \cup {Free},
           \A q \in Procs : q # p /\ Active(q) => lock' = q,
           r.pc \notin {"off", "dead"} => lock' = p,
           r.pc \notin {"off", "sent"},
           r.why # "start" => r.pc \in Cleared,
           r.pc \in Trading => r.why # "start",
           ~RefreshMayFail /\ r.pc \in Paced => r.ahead <= 0,
           SetLeverage /\ ~RefreshMayFail /\ r.pc \in Cleared \cup {"connect"} =>
               \A f \in DOMAIN signed : signed[f].by # p => signed'[f].nonce = Used,
           SetLeverage /\ ~RefreshMayFail /\ r.why # "start" =>
               \A f \in resting' : signed[f].by = p
    PROVE  SessionInv'
<1>1. /\ proc \in [Procs -> ProcType] /\ signed \in Seq(SignedType)
      /\ Len(signed) \in 0 .. MaxFrames /\ DOMAIN signed = 1 .. Len(signed)
      /\ fate \in [Frames -> Fates] /\ outcome \in [Frames -> Reports]
      /\ \A q \in Procs : CallOK(q) /\ ConnOK(q)
  BY Shapes
<1>2. /\ proc' \in [Procs -> ProcType] /\ proc'[p] = r
      /\ \A q \in Procs : q # p => /\ proc'[q].pc = proc[q].pc /\ proc'[q].why = proc[q].why
                                   /\ proc'[q].ahead <= proc[q].ahead
                                   /\ proc[q].pc = "off" => proc'[q] = proc[q]
  OBVIOUS
<1>3. DOMAIN signed' = DOMAIN signed
  BY <1>1
<1>4. TypeOK'
  <2>1. resting' \subseteq DOMAIN signed'
    BY <1>3 DEF SessionInv, TypeOK
  <2>2. \A q \in Procs : call'[q].frame \in 0 .. MaxFrames
    BY DEF CallType
  <2>3. Len(signed') <= MaxFrames
    BY <1>1
  <2>4. QED
    BY <1>2, <2>1, <2>2, <2>3 DEF TypeOK, ProcType, SignedType
<1>5. \A q, f : IsLast(q, f) => IsLast(q, f)'
  BY <1>3 DEF IsLast
<1>6. WsInv'
  <2>1. ASSUME NEW f \in Frames PROVE FrameOK(f)'
    BY DEF SessionInv, WsInv, FrameOK
  <2>2. ASSUME NEW q \in Procs, q # p PROVE CallOK(q)' /\ ConnOK(q)'
    <3>1. CallOK(q) /\ ConnOK(q) /\ proc'[q].pc = proc[q].pc
      BY <1>1, <1>2, <2>2
    <3>2. CallOK(q)'
      BY <1>5, <2>2, <3>1 DEF CallOK, IsLast
    <3>3. ConnOK(q)'
      BY <2>2, <3>1 DEF ConnOK
    <3>4. QED
      BY <3>2, <3>3
  <2>3. CallOK(p)' /\ ConnOK(p)'
    BY DEF CallOK, ConnOK, Idle
  <2>4. WsType'
    BY <1>1 DEF WsType
  <2>5. QED
    BY <2>1, <2>2, <2>3, <2>4 DEF WsInv
<1>7. LockInv'
  BY <1>2 DEF LockInv, Active
<1>8. StartInv'
  BY <1>2 DEF SessionInv, StartInv, Started
<1>9. NonceInv'
  <2> SUFFICES ASSUME ~RefreshMayFail
               PROVE  /\ \A f \in DOMAIN signed' : signed'[f].nonce \in {0, Used}
                      /\ \A q \in Procs : /\ proc'[q].pc \in Paced => proc'[q].ahead <= 0
                                          /\ proc'[q].pc = "sent" => SentOK(q)'
    BY DEF NonceInv
  <2>1. \A f \in DOMAIN signed' : signed'[f].nonce \in {0, Used}
    BY <1>3 DEF SessionInv, NonceInv
  <2>2. ASSUME NEW q \in Procs, q # p, proc'[q].pc \in Paced PROVE proc'[q].ahead <= 0
    <3>1. proc[q].ahead <= 0 /\ proc'[q].ahead <= proc[q].ahead
      BY <1>2, <2>2 DEF SessionInv, NonceInv
    <3>2. proc[q].ahead \in Int /\ proc'[q].ahead \in Int
      BY <1>1, <1>2 DEF ProcType
    <3>3. QED
      BY <3>1, <3>2
  <2>3. ASSUME NEW q \in Procs, q # p, proc'[q].pc = "sent" PROVE SentOK(q)'
    <3>1. SentOK(q) /\ proc'[q].ahead <= proc[q].ahead
      BY <1>2, <2>3 DEF SessionInv, NonceInv
    <3>2. PICK f \in DOMAIN signed : /\ IsLast(q, f)
                                     /\ fate[f] = "Ok" => proc[q].ahead <= 0
                                     /\ call[q].pc = "idle" => outcome[f] # "none"
      BY <3>1 DEF SentOK
    <3>3. proc[q].ahead \in Int /\ proc'[q].ahead \in Int /\ proc[q].ahead <= 1
      BY <1>1, <1>2, <3>1 DEF ProcType, SentOK
    <3>4. proc'[q].ahead <= 1 /\ (fate[f] = "Ok" => proc'[q].ahead <= 0)
      BY <3>1, <3>2, <3>3
    <3>5. IsLast(q, f)'
      BY <1>5, <3>2
    <3>6. QED
      BY <1>3, <2>3, <3>2, <3>4, <3>5 DEF SentOK
  <2>4. QED
    BY <1>2, <2>1, <2>2, <2>3
<1>10. GhostInv'
  <2> SUFFICES ASSUME SetLeverage, ~RefreshMayFail
               PROVE  /\ \A q \in Procs : proc'[q].pc \in Cleared \cup {"connect"} =>
                           \A f \in DOMAIN signed' : signed'[f].by # q => signed'[f].nonce = Used
                      /\ NoGhostOrders'
    BY DEF GhostInv
  <2>1. ASSUME NEW q \in Procs, proc'[q].pc \in Cleared \cup {"connect"},
               NEW f \in DOMAIN signed, signed'[f].by # q
        PROVE  signed'[f].nonce = Used
    <3>1. CASE q = p
      BY <1>2, <2>1, <3>1
    <3>2. CASE q # p
      <4>1. proc[q].pc \in Cleared \cup {"connect"} /\ signed[f].by # q
        BY <1>2, <2>1, <3>2
      <4>2. signed[f].nonce = Used
        BY <4>1, Parts
      <4>3. QED
        BY <4>2
    <3>3. QED
      BY <3>1, <3>2
  <2>2. ASSUME NEW q \in Procs, Started(q)', NEW f \in resting' PROVE signed'[f].by = q
    <3>1. f \in DOMAIN signed /\ signed'[f].by = signed[f].by /\ f \in resting
      BY DEF SessionInv, TypeOK
    <3>2. CASE q = p
      BY <1>2, <2>2, <3>1, <3>2 DEF Started
    <3>3. CASE q # p
      <4>1. Started(q)
        BY <1>2, <2>2, <3>3 DEF Started
      <4>2. QED
        BY <3>1, <4>1, Parts
    <3>4. QED
      BY <3>2, <3>3
  <2>3. QED
    BY <1>3, <2>1, <2>2 DEF NoGhostOrders
<1>11. QED
  BY <1>4, <1>6, <1>7, <1>8, <1>9, <1>10 DEF SessionInv

(* The three forms of it: a local step, a transaction of p's own over      *)
(* REST, and the end of p.                                                 *)
LEMMA LocalStep ==
    ASSUME SessionInv, NEW p \in Procs, NEW r \in ProcType, Active(p), call[p] = Idle,
           proc' = [proc EXCEPT ![p] = r], UNCHANGED <<link, call, fate, outcome>>,
           UNCHANGED <<lock, signed, resting>>,
           r.pc \notin {"off", "sent"},
           r.why # "start" => r.pc \in Cleared, r.pc \in Trading => r.why # "start",
           ~RefreshMayFail /\ r.pc \in Paced => r.ahead <= 0,
           SetLeverage /\ ~RefreshMayFail /\ r.pc \in Cleared \cup {"connect"} =>
               \A f \in DOMAIN signed : signed[f].by # p => signed[f].nonce = Used,
           SetLeverage /\ ~RefreshMayFail /\ r.why # "start" =>
               \A f \in resting : signed[f].by = p
    PROVE  SessionInv'
<1>1. /\ proc \in [Procs -> ProcType] /\ signed \in Seq(SignedType)
      /\ link \in [Procs -> ConnType] /\ call \in [Procs -> CallType] /\ ConnOK(p)
  BY Shapes
<1>2. lock = p /\ \A q \in Procs : q # p => ~Active(q)
  BY Parts
<1>3. (\A f \in link[p].owed : fate[f] = "written") /\ (link[p].alive => Quiet(link[p]))
  BY <1>1 DEF ConnOK, Idle
<1>4. /\ proc' \in [Procs -> ProcType] /\ proc'[p] = r
      /\ \A q \in Procs : q # p => proc'[q] = proc[q] /\ proc[q].ahead <= proc[q].ahead
  BY <1>1 DEF ProcType
<1>5. QED
  BY <1>1, <1>2, <1>3, <1>4, ProcMoves

(* A transaction over REST: all that was signed for this nonce is void.    *)
LEMMA ConsumeStep ==
    ASSUME SessionInv, NEW p \in Procs, NEW r \in ProcType, Active(p), proc[p].pc # "sent",
           proc' = [Behind(proc) EXCEPT ![p] = r], signed' = Consume(signed),
           resting' \subseteq resting, UNCHANGED <<link, call, fate, outcome>>,
           lock' = IF r.pc = "dead" THEN Free ELSE lock,
           r.pc \notin {"off", "sent"},
           r.why # "start" => r.pc \in Cleared, r.pc \in Trading => r.why # "start",
           ~RefreshMayFail /\ r.pc \in Paced => r.ahead <= 0,
           SetLeverage /\ ~RefreshMayFail /\ r.why # "start" =>
               \A f \in resting' : signed[f].by = p
    PROVE  SessionInv'
<1>1. /\ proc \in [Procs -> ProcType] /\ signed \in Seq(SignedType)
      /\ link \in [Procs -> ConnType] /\ call \in [Procs -> CallType] /\ ConnOK(p)
  BY Shapes
<1>2. lock = p /\ call[p] = Idle /\ \A q \in Procs : q # p => ~Active(q)
  BY Parts
<1>3. (\A f \in link[p].owed : fate[f] = "written") /\ (link[p].alive => Quiet(link[p]))
  BY <1>1, <1>2 DEF ConnOK, Idle
<1>4. /\ signed' \in Seq(SignedType) /\ Len(signed') = Len(signed)
      /\ \A f \in DOMAIN signed :
           /\ signed'[f].by = signed[f].by
           /\ signed[f].nonce \in {0, Used} => signed'[f].nonce = Used
  BY <1>1, ConsumeFacts
<1>5. /\ Behind(proc) \in [Procs -> ProcType]
      /\ \A q \in Procs : /\ Behind(proc)[q].pc = proc[q].pc /\ Behind(proc)[q].why = proc[q].why
                          /\ Behind(proc)[q].ahead <= proc[q].ahead
                          /\ proc[q].pc = "off" => Behind(proc)[q] = proc[q]
  <2>1. \A q \in Procs : proc[q].ahead \in Int
    BY <1>1 DEF ProcType
  <2>2. QED
    BY <1>1, <2>1, BehindFacts
<1>6. ~RefreshMayFail => \A f \in DOMAIN signed : signed'[f].nonce = Used
  BY <1>4 DEF SessionInv, NonceInv
<1>7. lock' \in Procs \cup {Free} /\ (r.pc \notin {"off", "dead"} => lock' = p)
  BY <1>2
<1>8. \A f \in DOMAIN signed :
        /\ signed'[f].by = signed[f].by
        /\ signed[f].nonce \in {0, Used} => signed'[f].nonce \in {0, Used}
        /\ signed[f].nonce = Used => signed'[f].nonce = Used
  BY <1>4
<1>9. ASSUME NEW q \in Procs, q # p
      PROVE  /\ proc'[q].pc = proc[q].pc /\ proc'[q].why = proc[q].why
             /\ proc'[q].ahead <= proc[q].ahead
             /\ proc[q].pc = "off" => proc'[q] = proc[q]
  <2>1. proc'[q] = Behind(proc)[q]
    BY <1>5, <1>9
  <2>2. QED
    BY <1>5, <2>1
<1>13. proc' \in [Procs -> ProcType] /\ proc'[p] = r
  BY <1>5
<1>10. /\ link' \in [Procs -> ConnType] /\ call' \in [Procs -> CallType] /\ call'[p] = Idle
       /\ \A q \in Procs : q # p => link'[q] = link[q] /\ call'[q] = call[q]
       /\ (\A f \in link'[p].owed : fate[f] = "written") /\ (link'[p].alive => Quiet(link'[p]))
  BY <1>1, <1>2, <1>3
<1>11. SetLeverage /\ ~RefreshMayFail /\ r.pc \in Cleared \cup {"connect"} =>
         \A f \in DOMAIN signed : signed[f].by # p => signed'[f].nonce = Used
  BY <1>6
<1>12. \A q \in Procs : q # p /\ Active(q) => lock' = q
  BY <1>2
<1>14. QED
  BY <1>4, <1>7, <1>8, <1>9, <1>10, <1>11, <1>12, <1>13, ProcMoves

(* The end of a process frees the lock and closes its connection.          *)
LEMMA ExitKeeps ==
    ASSUME SessionInv, NEW p \in Procs, Active(p), Exit(p)
    PROVE  SessionInv'
<1> DEFINE r == [Off EXCEPT !.pc = "dead"]
<1>1. /\ proc \in [Procs -> ProcType] /\ signed \in Seq(SignedType)
      /\ link \in [Procs -> ConnType] /\ call \in [Procs -> CallType]
  BY Shapes
<1>2. lock = p /\ \A q \in Procs : q # p => ~Active(q)
  BY Parts
<1>3. r \in ProcType /\ r.pc = "dead" /\ r.why = "start"
  BY SessionAssumption DEF SessionAssumption, Off, ProcType, PCs
<1>4. /\ proc' = [proc EXCEPT ![p] = r] /\ lock' = Free
      /\ link' = [link EXCEPT ![p] = NoConn] /\ call' = [call EXCEPT ![p] = Idle]
      /\ UNCHANGED <<fate, outcome, signed, resting>>
  BY <1>2 DEF Exit
<1>5. Idle \in CallType
  BY ChannelAssumption DEF ChannelAssumption, Idle, CallType
<1>6. /\ link' \in [Procs -> ConnType] /\ link'[p] = NoConn
      /\ call' \in [Procs -> CallType] /\ call'[p] = Idle
      /\ \A q \in Procs : q # p => link'[q] = link[q] /\ call'[q] = call[q]
  BY <1>1, <1>4, <1>5, NewConnFacts
<1>7. link'[p].owed = {} /\ ~link'[p].alive
  BY <1>6, NewConnFacts DEF Quiet
<1>8. /\ proc' \in [Procs -> ProcType] /\ proc'[p] = r
      /\ \A q \in Procs : q # p => proc'[q] = proc[q] /\ proc[q].ahead <= proc[q].ahead
  BY <1>1, <1>3, <1>4 DEF ProcType
<1> HIDE DEF r
<1>9. QED
  BY <1>1, <1>2, <1>3, <1>4, <1>6, <1>7, <1>8, ProcMoves DEF Cleared, Trading, Paced

(* From the lock to the connection.                                        *)
LEMMA StartupKeeps ==
    ASSUME SessionInv, NEW p \in Procs, Acquire(p) \/ Startup(p)
    PROVE  SessionInv'
<1>1. /\ proc \in [Procs -> ProcType] /\ proc[p] \in ProcType /\ signed \in Seq(SignedType)
      /\ link \in [Procs -> ConnType] /\ call \in [Procs -> CallType] /\ ConnOK(p)
  BY Shapes
<1>2. ASSUME proc[p].pc \in {"nonce", "leverage", "connect"}
      PROVE  Active(p) /\ call[p] = Idle /\ proc[p].why = "start" /\ lock = p
  BY <1>2, Parts DEF Active, Started, Cleared
<1>3. CASE Acquire(p)
  <2>1. proc[p] = Off /\ UNCHANGED <<link, call, fate, outcome, signed, resting>>
    BY <1>3, Parts DEF Acquire, Due, In, wsVars
  <2>2. PICK x \in {"nonce", "dead"} :
          /\ proc' = [proc EXCEPT ![p].pc = x]
          /\ \/ lock = Free /\ lock' = p
             \/ lock' = lock /\ x = "dead"
    BY <1>3 DEF Acquire, Move
  <2> DEFINE r == [proc[p] EXCEPT !.pc = x]
  <2>3. r \in ProcType /\ r.pc = x /\ r.why = "start" /\ r.ahead = 0
    BY <1>1, <2>1 DEF Off, ProcType, PCs
  <2>4. /\ proc' \in [Procs -> ProcType] /\ proc'[p] = r
        /\ \A q \in Procs : q # p => proc'[q] = proc[q]
    BY <1>1, <2>2, <2>3
  <2>5. \A q \in Procs : proc[q].ahead <= proc[q].ahead
    BY <1>1 DEF ProcType
  <2>6. /\ lock' \in Procs \cup {Free} /\ (x # "dead" => lock' = p)
        /\ \A q \in Procs : q # p /\ Active(q) => lock' = q
    <3>1. lock \in Procs \cup {Free} /\ \A q \in Procs : Active(q) => lock = q
      BY DEF SessionInv, TypeOK, LockInv
    <3>2. Free \notin Procs
      BY SessionAssumption DEF SessionAssumption, Free
    <3>3. QED
      BY <2>2, <3>1, <3>2
  <2>7. call[p] = Idle
    BY <2>1, Parts DEF Off
  <2>8. (\A f \in link[p].owed : fate[f] = "written") /\ (link[p].alive => Quiet(link[p]))
    BY <1>1, <2>7 DEF ConnOK, Idle
  <2> HIDE DEF r
  <2>9. r.pc \notin Cleared \cup {"connect"} \cup Trading
    BY <2>3 DEF Cleared, Trading
  <2>10. QED
    BY <1>1, <2>1, <2>3, <2>4, <2>5, <2>6, <2>7, <2>8, <2>9, ProcMoves
<1>4. CASE InitNonce(p)
  <2> DEFINE z == 0
  <2>0. z \in Int /\ z <= 0
    OBVIOUS
  <2>2. PICK x \in {"leverage", "connect"} :
          /\ proc' = [proc EXCEPT ![p] = [proc[p] EXCEPT !.ahead = z, !.pc = x]]
          /\ SetLeverage => x = "leverage"
    BY <1>1, <1>4 DEF InitNonce
  <2> HIDE DEF z
  <2> DEFINE r == [proc[p] EXCEPT !.ahead = z, !.pc = x]
  <2>1. /\ proc[p].pc = "nonce" /\ proc' = [proc EXCEPT ![p] = r]
        /\ UNCHANGED <<link, call, fate, outcome, lock, signed, resting>>
    BY <1>1, <1>4, <2>2 DEF InitNonce, In, wsVars
  <2>3. r \in ProcType /\ r.pc = x /\ r.why = proc[p].why /\ r.ahead = z
    BY <1>1, <2>0 DEF ProcType, PCs
  <2> HIDE DEF r
  <2>4. /\ r.pc \notin Cleared \cup Trading \cup {"off", "sent"}
        /\ SetLeverage => r.pc \notin Cleared \cup {"connect"}
    BY <2>2, <2>3 DEF Cleared, Trading
  <2>5. Active(p) /\ call[p] = Idle /\ r.why = "start" /\ r.ahead <= 0
    BY <1>2, <2>0, <2>1, <2>3
  <2>6. SetLeverage /\ ~RefreshMayFail /\ r.pc \in Cleared \cup {"connect"} =>
          \A f \in DOMAIN signed : signed[f].by # p => signed[f].nonce = Used
    BY <2>4
  <2>7. QED
    BY <2>1, <2>3, <2>4, <2>5, <2>6, LocalStep
<1>5. CASE Bail(p)
  BY <1>2, <1>5, ExitKeeps DEF Bail
<1>6. CASE UpdateLeverage(p)
  <2> DEFINE r == [proc[p] EXCEPT !.pc = "connect"]
  <2>1. /\ proc[p].pc = "leverage" /\ proc[p].ahead = 0
        /\ proc' = [Behind(proc) EXCEPT ![p] = r] /\ signed' = Consume(signed)
        /\ UNCHANGED <<link, call, fate, outcome, lock, resting>>
    BY <1>6 DEF UpdateLeverage, In, wsVars
  <2>2. r \in ProcType /\ r.pc = "connect" /\ r.why = proc[p].why /\ r.ahead = proc[p].ahead
    BY <1>1 DEF ProcType, PCs
  <2> HIDE DEF r
  <2>3. r.pc \notin Cleared \cup Trading \cup {"off", "sent", "dead"}
    BY <2>2 DEF Cleared, Trading
  <2>4. Active(p) /\ proc[p].pc # "sent" /\ r.why = "start" /\ r.ahead <= 0
    BY <1>2, <2>1, <2>2
  <2>5. QED
    BY <2>1, <2>2, <2>3, <2>4, ConsumeStep
<1>7. CASE UpdateLeverageUnanswered(p)
  <2> DEFINE r == [Off EXCEPT !.pc = "dead"]
  <2>1. /\ proc[p].pc = "leverage" /\ lock' = Free
        /\ proc' = [Behind(proc) EXCEPT ![p] = r] /\ signed' = Consume(signed)
        /\ UNCHANGED <<link, call, fate, outcome, resting>>
    BY <1>2, <1>7 DEF UpdateLeverageUnanswered, In, wsVars
  <2>2. r \in ProcType /\ r.pc = "dead" /\ r.why = "start"
    BY SessionAssumption DEF SessionAssumption, Off, ProcType, PCs
  <2> HIDE DEF r
  <2>3. QED
    BY <1>2, <2>1, <2>2, ConsumeStep DEF Cleared, Trading, Paced
<1>8. ASSUME NEW ok \in BOOLEAN, Connect(p, ok) PROVE SessionInv'
  <2> DEFINE r == [proc[p] EXCEPT !.pc = "cancel"]
  <2>1. /\ proc[p].pc = "connect" /\ proc' = [proc EXCEPT ![p] = r]
        /\ link' = IF ok THEN [link EXCEPT ![p] = FreshConn] ELSE link
        /\ UNCHANGED <<call, fate, outcome, lock, signed, resting>>
    BY <1>1, <1>8 DEF Connect, In, Move
  <2>2. r \in ProcType /\ r.pc = "cancel" /\ r.why = proc[p].why /\ r.ahead = proc[p].ahead
    BY <1>1 DEF ProcType, PCs
  <2>3. /\ proc' \in [Procs -> ProcType] /\ proc'[p] = r
        /\ \A q \in Procs : q # p => proc'[q] = proc[q]
    BY <1>1, <2>1, <2>2
  <2>4. \A q \in Procs : proc[q].ahead <= proc[q].ahead
    BY <1>1 DEF ProcType
  <2>5. lock = p /\ call[p] = Idle /\ r.why = "start" /\ \A q \in Procs : q # p => ~Active(q)
    BY <1>2, <2>1, <2>2, Parts
  <2>6. /\ link' \in [Procs -> ConnType] /\ \A q \in Procs : q # p => link'[q] = link[q]
        /\ (\A f \in link'[p].owed : fate[f] = "written") /\ (link'[p].alive => Quiet(link'[p]))
    <3>1. CASE ok
      BY <1>1, <2>1, <3>1, NewConnFacts DEF Quiet
    <3>2. CASE ~ok
      BY <1>1, <2>1, <2>5, <3>2 DEF ConnOK, Idle
    <3>3. QED
      BY <3>1, <3>2
  <2>7. /\ ~RefreshMayFail => r.ahead <= 0
        /\ SetLeverage /\ ~RefreshMayFail =>
             \A f \in DOMAIN signed : signed[f].by # p => signed[f].nonce = Used
    BY <2>1, <2>2, Parts DEF Paced
  <2> HIDE DEF r
  <2>8. r.pc \in Cleared /\ r.pc \notin Trading
    BY <2>2 DEF Cleared, Trading
  <2>9. QED
    BY <1>1, <2>1, <2>2, <2>3, <2>4, <2>5, <2>6, <2>7, <2>8, ProcMoves
<1>9. QED
  BY <1>3, <1>4, <1>5, <1>6, <1>7, <1>8 DEF Startup

(* cancel_all_and_verify: of what a process inherits it may keep nothing,  *)
(* of its own orders it may keep any.                                      *)
LEMMA CancelKeeps ==
    ASSUME SessionInv, NEW p \in Procs, CancelAllAndVerify(p)
    PROVE  SessionInv'
<1> DEFINE a == proc[p]
           z == 0
<1>1. /\ proc \in [Procs -> ProcType] /\ a \in ProcType /\ signed \in Seq(SignedType)
      /\ a.ahead \in Int /\ a.tries \in 0 .. CancelAttempts - 1
      /\ Behind(proc) \in [Procs -> ProcType]
  BY Shapes, BehindFacts DEF ProcType
<1>2. a.pc \in {"cancel", "verify"}
  BY DEF CancelAllAndVerify, CancelAll, VerifiedFlat, NotFlat, CancelAllFails, In
<1>3. /\ Active(p) /\ call[p] = Idle /\ a.pc # "sent"
      /\ ~RefreshMayFail => a.ahead <= 0
      /\ SetLeverage /\ ~RefreshMayFail =>
           \A f \in DOMAIN signed : signed[f].by # p => signed[f].nonce = Used
      /\ SetLeverage /\ ~RefreshMayFail /\ a.why # "start" => \A f \in resting : signed[f].by = p
  BY <1>2, Parts DEF Active, Paced, Cleared, Started
<1>4. z \in Int /\ z <= 0 /\ z \in 0 .. CancelAttempts - 1
  BY SessionAssumption DEF SessionAssumption
<1>5. /\ {"cancel", "verify", "trade"} \subseteq Cleared /\ "trade" \in Trading
      /\ "cancel" \notin Trading /\ "verify" \notin Trading
      /\ {"cancel", "verify", "trade"} \subseteq PCs
  BY DEF Cleared, Trading, PCs
<1> HIDE DEF z
<1>6. CASE CancelAll(p)
  <2> DEFINE r == [a EXCEPT !.pc = "verify"]
  <2>1. /\ proc' = [Behind(proc) EXCEPT ![p] = r] /\ signed' = Consume(signed) /\ resting' = {}
        /\ UNCHANGED <<link, call, fate, outcome, lock>>
    BY <1>6 DEF CancelAll, wsVars
  <2>2. r \in ProcType /\ r.pc = "verify" /\ r.why = a.why /\ r.ahead = a.ahead
    BY <1>1 DEF ProcType, PCs
  <2> HIDE DEF r
  <2>3. QED
    BY <1>3, <1>5, <2>1, <2>2, ConsumeStep
<1>7. ASSUME NEW refreshed \in BOOLEAN, CancelAllFails(p, FALSE, refreshed) PROVE SessionInv'
  <2> DEFINE n == IF refreshed THEN z ELSE a.ahead + 1
             r == [a EXCEPT !.ahead = n, !.pc = "verify"]
  <2>1. n \in Int /\ (~RefreshMayFail => n <= 0)
    BY <1>1, <1>4, <1>7 DEF CancelAllFails
  <2>2. /\ proc' = [proc EXCEPT ![p] = r]
        /\ UNCHANGED <<link, call, fate, outcome, lock, signed, resting>>
    BY <1>1, <1>7 DEF CancelAllFails, wsVars, z
  <2> HIDE DEF n
  <2>3. r \in ProcType /\ r.pc = "verify" /\ r.why = a.why /\ r.ahead = n
    BY <1>1, <2>1 DEF ProcType, PCs
  <2> HIDE DEF r
  <2>4. QED
    BY <1>3, <1>5, <2>1, <2>2, <2>3, LocalStep
<1>8. ASSUME NEW refreshed \in BOOLEAN, CancelAllFails(p, TRUE, refreshed) PROVE SessionInv'
  <2> DEFINE b == Behind(proc)[p]
             n == IF refreshed THEN z ELSE b.ahead + 1
             r == [b EXCEPT !.ahead = n, !.pc = "verify"]
  <2>1. b \in ProcType /\ b.why = a.why /\ b.ahead \in Int
    BY <1>1, Shapes, BehindFacts DEF ProcType
  <2>2. n \in Int /\ (~RefreshMayFail => n <= 0)
    BY <1>4, <1>8, <2>1 DEF CancelAllFails
  <2>3. /\ proc' = [Behind(proc) EXCEPT ![p] = r] /\ signed' = Consume(signed) /\ resting' = {}
        /\ UNCHANGED <<link, call, fate, outcome, lock>>
    BY <1>1, <1>8 DEF CancelAllFails, wsVars, z
  <2> HIDE DEF n
  <2>4. r \in ProcType /\ r.pc = "verify" /\ r.why = a.why /\ r.ahead = n
    BY <2>1, <2>2 DEF ProcType, PCs
  <2> HIDE DEF r
  <2>5. QED
    BY <1>3, <1>5, <2>2, <2>3, <2>4, ConsumeStep
<1>9. CASE VerifiedFlat(p) /\ a.why # "exit"
  <2> DEFINE r == [a EXCEPT !.pc = "trade", !.tries = z, !.why = "unknown"]
  <2>1. /\ resting = {} /\ proc' = [proc EXCEPT ![p] = r]
        /\ UNCHANGED <<link, call, fate, outcome, lock, signed, resting>>
    BY <1>1, <1>9 DEF VerifiedFlat, wsVars, z
  <2>2. r \in ProcType /\ r.pc = "trade" /\ r.why = "unknown" /\ r.ahead = a.ahead
    BY <1>1, <1>4 DEF ProcType, PCs
  <2> HIDE DEF r
  <2>3. QED
    BY <1>3, <1>5, <2>1, <2>2, LocalStep
<1>10. CASE NotFlat(p) /\ a.tries + 1 < CancelAttempts
  <2> DEFINE k == a.tries + 1
             r == [a EXCEPT !.tries = k, !.pc = "cancel"]
  <2>1. /\ proc' = [proc EXCEPT ![p] = r]
        /\ UNCHANGED <<link, call, fate, outcome, lock, signed, resting>>
    BY <1>1, <1>10 DEF NotFlat, wsVars
  <2>2. k \in 0 .. CancelAttempts - 1
    BY <1>1, <1>10, SessionAssumption DEF SessionAssumption
  <2> HIDE DEF k
  <2>3. r \in ProcType /\ r.pc = "cancel" /\ r.why = a.why /\ r.ahead = a.ahead
    BY <1>1, <2>2 DEF ProcType, PCs
  <2> HIDE DEF r
  <2>4. QED
    BY <1>3, <1>5, <2>1, <2>3, LocalStep
<1>11. CASE NotFlat(p) /\ ~(a.tries + 1 < CancelAttempts) /\ a.why = "unknown"
  <2> DEFINE r == [a EXCEPT !.tries = z, !.pc = "trade"]
  <2>1. /\ proc' = [proc EXCEPT ![p] = r]
        /\ UNCHANGED <<link, call, fate, outcome, lock, signed, resting>>
    BY <1>1, <1>11 DEF NotFlat, wsVars, z
  <2>2. r \in ProcType /\ r.pc = "trade" /\ r.why = a.why /\ r.ahead = a.ahead
    BY <1>1, <1>4 DEF ProcType, PCs
  <2> HIDE DEF r
  <2>3. QED
    BY <1>3, <1>5, <1>11, <2>1, <2>2, LocalStep
<1>12. CASE Exit(p)
  BY <1>3, <1>12, ExitKeeps
<1>13. QED
  BY <1>6, <1>7, <1>8, <1>9, <1>10, <1>11, <1>12 DEF CancelAllAndVerify, VerifiedFlat, NotFlat

(* What a trading process does besides sending.                            *)
LEMMA TradingKeeps ==
    ASSUME SessionInv, NEW p \in Procs,
           \/ \E now \in Clock : CollectUnsent(p, now)
           \/ Settle(p) \/ Resync(p) \/ Shutdown(p) \/ Crash(p)
    PROVE  SessionInv'
<1> DEFINE a == proc[p]
           z == 0
<1>1. /\ proc \in [Procs -> ProcType] /\ a \in ProcType /\ signed \in Seq(SignedType)
      /\ a.ahead \in Int /\ a.last \in 0 .. MaxIndex /\ a.unsent \in 0 .. MaxUnsent
      /\ DOMAIN signed \subseteq Frames
  BY Shapes DEF ProcType
<1>2. z \in Int /\ z <= 0
  OBVIOUS
<1> HIDE DEF z
<1>3. Trading \subseteq Cleared /\ Trading \subseteq PCs /\ "cancel" \in Cleared \cap PCs
  BY DEF Trading, Cleared, PCs
<1>4. ASSUME a.pc \in Trading
      PROVE  /\ Active(p) /\ a.why # "start"
             /\ a.pc # "sent" => call[p] = Idle
             /\ ~RefreshMayFail /\ a.pc = "trade" => a.ahead <= 0
             /\ SetLeverage /\ ~RefreshMayFail =>
                  \A f \in DOMAIN signed : signed[f].by # p => signed[f].nonce = Used
             /\ SetLeverage /\ ~RefreshMayFail => \A f \in resting : signed[f].by = p
  <2>1. Active(p)
    BY <1>4 DEF Active, Trading
  <2>2. QED
    BY <1>3, <1>4, <2>1, Parts DEF Paced, Started
(* From trading to trading, or to a cancel-all.                            *)
<1>5. ASSUME NEW r \in ProcType, a.pc \in Trading, call[p] = Idle,
             proc' = [proc EXCEPT ![p] = r],
             UNCHANGED <<link, call, fate, outcome, lock, signed, resting>>,
             r.pc \in {"trade", "unknown", "resync", "cancel"}, r.why # "start",
             ~RefreshMayFail /\ r.pc \in {"trade", "cancel"} => r.ahead <= 0
      PROVE  SessionInv'
  <2>1. r.pc \in Cleared /\ (r.pc \in Paced => r.pc \in {"trade", "cancel"})
    BY <1>5 DEF Cleared, Paced
  <2>2. QED
    BY <1>4, <1>5, <2>1, LocalStep
<1>6. ASSUME NEW now \in Clock, CollectUnsent(p, now) PROVE SessionInv'
  <2> DEFINE id == NextClientOrderIndex(a.last, now)
             n == a.unsent + 1
             r == [a EXCEPT !.last = id, !.unsent = n]
  <2>1. id \in 0 .. MaxIndex
    <3>1. now \in Nat
      BY SessionAssumption DEF SessionAssumption
    <3>2. id \in 1 .. MaxIndex
      BY <1>1, <3>1, NextIdFacts
    <3>3. QED
      BY <3>2, SessionAssumption DEF SessionAssumption
  <2>2. /\ a.pc = "trade" /\ proc' = [proc EXCEPT ![p] = r]
        /\ UNCHANGED <<link, call, fate, outcome, lock, signed, resting>>
    BY <1>1, <1>6 DEF CollectUnsent, In, wsVars
  <2>3. n \in 0 .. MaxUnsent
    <3>1. MaxUnsent \in Nat /\ a.unsent < MaxUnsent
      BY <1>6, SessionAssumption DEF SessionAssumption, CollectUnsent
    <3>2. QED
      BY <1>1, <3>1
  <2> HIDE DEF id, n
  <2>4. r \in ProcType /\ r.pc = a.pc /\ r.why = a.why /\ r.ahead = a.ahead
    BY <1>1, <2>1, <2>3 DEF ProcType
  <2> HIDE DEF r
  <2>5. QED
    BY <1>4, <1>5, <2>2, <2>4 DEF Trading
<1>7. CASE Settle(p)
  <2> DEFINE f == CHOOSE g \in DOMAIN signed :
                      signed[g].by = p /\ \A h \in DOMAIN signed : signed[h].by = p => h <= g
             n == IF outcome[f] \in {"NotSent", "RateLimit"} THEN a.ahead - 1 ELSE a.ahead
             x == CASE outcome[f] = "Unknown"  -> "unknown"
                    [] outcome[f] = "Rejected" -> "resync"
                    [] OTHER                   -> "trade"
             r == [a EXCEPT !.ahead = n, !.pc = x]
  <2>1. /\ a.pc = "sent" /\ call[p].pc = "idle" /\ proc' = [proc EXCEPT ![p] = r]
        /\ UNCHANGED <<link, call, fate, outcome, lock, signed, resting>>
    BY <1>1, <1>7 DEF Settle, In, At, wsVars
  <2>2. call[p] = Idle
    <3>1. call[p] \in CallType /\ CallOK(p)
      BY Shapes
    <3>2. QED
      BY <2>1, <3>1 DEF CallType, CallOK, Idle
  <2>3. ~RefreshMayFail => /\ f \in Frames /\ a.ahead <= 1 /\ outcome[f] # "none"
                           /\ fate[f] = "Ok" => a.ahead <= 0
    <3> SUFFICES ASSUME ~RefreshMayFail
                 PROVE  /\ f \in Frames /\ a.ahead <= 1 /\ outcome[f] # "none"
                        /\ fate[f] = "Ok" => a.ahead <= 0
      OBVIOUS
    <3>1. SentOK(p)
      BY <2>1 DEF SessionInv, NonceInv
    <3>2. PICK g \in DOMAIN signed : /\ IsLast(p, g) /\ outcome[g] # "none"
                                     /\ fate[g] = "Ok" => a.ahead <= 0
      BY <2>1, <3>1 DEF SentOK
    <3>3. /\ f \in DOMAIN signed /\ signed[f].by = p
          /\ \A h \in DOMAIN signed : signed[h].by = p => h <= f
      BY <3>2 DEF IsLast
    <3> HIDE DEF f
    <3>4. IsLast(p, f)
      BY <3>3 DEF IsLast
    <3>5. f = g
      BY <1>1, <3>2, <3>4, LastIsUnique
    <3>6. QED
      BY <1>1, <3>1, <3>2, <3>3, <3>5 DEF SentOK
  <2> HIDE DEF f
  <2>4. n \in Int /\ x \in {"unknown", "resync", "trade"}
    BY <1>1
  <2>5. ~RefreshMayFail /\ x = "trade" => n <= 0
    <3> SUFFICES ASSUME ~RefreshMayFail, x = "trade" PROVE n <= 0
      OBVIOUS
    <3>1. /\ f \in Frames /\ a.ahead <= 1 /\ outcome[f] # "none"
          /\ fate[f] = "Ok" => a.ahead <= 0
      BY <2>3
    <3>2. FrameOK(f) /\ outcome[f] \in Reports
      BY <3>1, Shapes DEF SessionInv, WsInv
    <3>3. outcome[f] \notin {"Unknown", "Rejected"}
      OBVIOUS
    <3>4. outcome[f] \in {"NotSent", "RateLimit"} \/ outcome[f] = "Ok"
      BY <3>1, <3>2, <3>3 DEF Reports, Verdicts
    <3>5. CASE outcome[f] \in {"NotSent", "RateLimit"}
      BY <1>1, <3>1, <3>5
    <3>6. CASE outcome[f] = "Ok"
      <4>1. fate[f] = "Ok"
        BY <3>2, <3>6 DEF FrameOK, Verdicts
      <4>2. QED
        BY <3>1, <3>6, <4>1
    <3>7. QED
      BY <3>4, <3>5, <3>6
  <2> HIDE DEF n, x
  <2>6. r \in ProcType /\ r.pc = x /\ r.why = a.why /\ r.ahead = n
    BY <1>1, <2>4 DEF ProcType, PCs
  <2> HIDE DEF r
  <2>7. a.pc \in Trading
    BY <2>1 DEF Trading
  <2>8. QED
    BY <1>4, <1>5, <2>1, <2>2, <2>4, <2>5, <2>6, <2>7
<1>8. CASE Resync(p)
  <2>1. PICK x \in {"trade", "cancel"} :
          proc' = [proc EXCEPT ![p] = [a EXCEPT !.ahead = z, !.pc = x]]
    BY <1>1, <1>8 DEF Resync, z
  <2> DEFINE r == [a EXCEPT !.ahead = z, !.pc = x]
  <2>2. /\ a.pc \in Trading /\ a.pc # "sent"
        /\ UNCHANGED <<link, call, fate, outcome, lock, signed, resting>>
    BY <1>8 DEF Resync, wsVars, Trading
  <2>3. r \in ProcType /\ r.pc = x /\ r.why = a.why /\ r.ahead = z
    BY <1>1, <1>2 DEF ProcType, PCs
  <2> HIDE DEF r
  <2>4. proc' = [proc EXCEPT ![p] = r]
    BY <2>1 DEF r
  <2>5. QED
    BY <1>2, <1>4, <1>5, <2>2, <2>3, <2>4
<1>9. CASE Shutdown(p)
  <2> DEFINE r == [a EXCEPT !.pc = "cancel", !.why = "exit"]
  <2>1. /\ a.pc = "trade" /\ proc' = [proc EXCEPT ![p] = r]
        /\ UNCHANGED <<link, call, fate, outcome, lock, signed, resting>>
    BY <1>1, <1>9 DEF Shutdown, In, wsVars
  <2>2. r \in ProcType /\ r.pc = "cancel" /\ r.why = "exit" /\ r.ahead = a.ahead
    BY <1>1 DEF ProcType, PCs
  <2> HIDE DEF r
  <2>3. QED
    BY <1>4, <1>5, <2>1, <2>2 DEF Trading
<1>10. CASE Crash(p)
  BY <1>10, ExitKeeps DEF Crash, Active
<1>11. QED
  BY <1>6, <1>7, <1>8, <1>9, <1>10

(* A new frame.  The lock holds everybody else off, so that nobody else is *)
(* inside send_batch and no frame but the new one is p's last.             *)
LEMMA SendKeeps ==
    ASSUME SessionInv, NEW p \in Procs, NEW now \in Clock, Send(p, now)
    PROVE  SessionInv'
<1> DEFINE a == proc[p]
           id == NextClientOrderIndex(a.last, now)
           nonce == IF a.ahead < 0 THEN Used ELSE a.ahead
           s == [by |-> p, id |-> id, nonce |-> nonce]
           n == a.ahead + 1
           z == 0
           r == [a EXCEPT !.pc = "sent", !.ahead = n, !.last = id, !.unsent = z]
<1>0. PICK f : f = Len(signed) + 1
  OBVIOUS
<1>1. /\ proc \in [Procs -> ProcType] /\ a \in ProcType /\ signed \in Seq(SignedType)
      /\ a.ahead \in Int /\ a.last \in 0 .. MaxIndex
      /\ Len(signed) \in Nat /\ DOMAIN signed = 1 .. Len(signed)
      /\ link \in [Procs -> ConnType] /\ call \in [Procs -> CallType]
      /\ fate \in [Frames -> Fates] /\ outcome \in [Frames -> Reports]
      /\ MaxFrames \in Nat /\ Frames = 1 .. MaxFrames
      /\ \A q \in Procs : CallOK(q) /\ ConnOK(q)
  BY Shapes DEF ProcType
<1>2. /\ a.pc = "trade" /\ f \in Frames /\ signed' = Append(signed, s)
      /\ proc' = [proc EXCEPT ![p] = r] /\ UNCHANGED <<link, outcome, lock, resting>>
      /\ call[p].pc = "idle"
  BY <1>0, <1>1 DEF Send, In, SendBatch, RestSend, At
<1>3. PICK x \in {"drain", "open", "rest"} :
        /\ call' = [call EXCEPT ![p] = [pc |-> x, frame |-> f]]
        /\ x = "drain" => link[p].alive
        /\ x = "open" => ~link[p].alive
        /\ fate' = IF x = "rest" THEN [fate EXCEPT ![f] = "written"] ELSE fate
  <2>1. CASE SendBatch(p, f)
    BY <2>1 DEF SendBatch
  <2>2. CASE RestSend(p, f)
    BY <2>2 DEF RestSend
  <2>3. QED
    BY <1>0, <2>1, <2>2 DEF Send
<1>4. id \in 1 .. MaxIndex /\ MaxIndex \in Nat /\ now \in Nat
  BY <1>1, NextIdFacts, SessionAssumption DEF SessionAssumption
<1>5. nonce \in Nat \cup {Used} /\ (a.ahead <= 0 => nonce \in {0, Used})
  BY <1>1
<1>6. z \in 0 .. MaxUnsent /\ n \in Int /\ (a.ahead <= 0 => n <= 1)
  BY <1>1, SessionAssumption DEF SessionAssumption
<1> HIDE DEF id, nonce, z, n
<1>7. s \in SignedType /\ s.by = p /\ s.nonce = nonce
  BY <1>4, <1>5 DEF SignedType
<1>8. r \in ProcType /\ r.pc = "sent" /\ r.ahead = n /\ r.why = a.why
  <2>1. id \in 0 .. MaxIndex
    BY <1>4
  <2>2. QED
    BY <1>1, <1>6, <2>1 DEF ProcType, PCs
<1> HIDE DEF s, r
<1>9. /\ signed' \in Seq(SignedType) /\ Len(signed') = f /\ DOMAIN signed' = 1 .. f
      /\ signed'[f] = s /\ \A g \in DOMAIN signed : signed'[g] = signed[g]
  BY <1>0, <1>1, <1>2, <1>7
<1>10. /\ f \notin DOMAIN signed /\ DOMAIN signed' = DOMAIN signed \cup {f}
       /\ \A g \in DOMAIN signed : g <= f
  BY <1>0, <1>1, <1>9
<1>11. /\ Active(p) /\ lock = p /\ a.why # "start" /\ \A q \in Procs : q # p => ~Active(q)
       /\ ~RefreshMayFail => a.ahead <= 0
       /\ SetLeverage /\ ~RefreshMayFail => \A g \in resting : signed[g].by = p
  <2>1. Active(p) /\ a.pc \in Trading /\ a.pc \in Paced
    BY <1>2 DEF Active, Trading, Paced
  <2>2. QED
    BY <2>1, Parts DEF Started
<1>12. /\ proc' \in [Procs -> ProcType] /\ proc'[p] = r
       /\ \A q \in Procs : q # p => proc'[q] = proc[q]
  BY <1>1, <1>2, <1>8
<1>13. fate[f] = "unwritten" /\ outcome[f] = "none"
  <2>1. FrameOK(f) /\ f > Len(signed)
    BY <1>0, <1>1, <1>2 DEF SessionInv, WsInv
  <2>2. QED
    BY <2>1 DEF FrameOK
<1>14. /\ fate' \in [Frames -> Fates] /\ fate'[f] = (IF x = "rest" THEN "written" ELSE "unwritten")
       /\ \A g \in Frames : g # f => fate'[g] = fate[g]
  BY <1>1, <1>2, <1>3, <1>13 DEF Fates
<1>15. /\ call' \in [Procs -> CallType] /\ call'[p].pc = x /\ call'[p].frame = f
       /\ \A q \in Procs : q # p => call'[q] = call[q]
  <2>1. [pc |-> x, frame |-> f] \in CallType
    BY <1>1, <1>2 DEF CallType
  <2>2. QED
    BY <1>1, <1>3, <2>1
<1>16. TypeOK'
  <2>1. resting' \subseteq DOMAIN signed' /\ lock' \in Procs \cup {Free}
    BY <1>2, <1>10 DEF SessionInv, TypeOK
  <2>2. \A q \in Procs : call'[q].frame \in 0 .. MaxFrames
    BY <1>15 DEF CallType
  <2>3. Len(signed') <= MaxFrames
    BY <1>1, <1>2, <1>9
  <2>4. QED
    BY <1>9, <1>12, <2>1, <2>2, <2>3 DEF TypeOK, ProcType, SignedType
<1>17. IsLast(p, f)'
  BY <1>7, <1>9, <1>10 DEF IsLast
<1>18. WsInv'
  <2>1. ASSUME NEW g \in Frames PROVE FrameOK(g)'
    <3>1. FrameOK(g)
      BY DEF SessionInv, WsInv
    <3>2. CASE g = f
      <4>1. ~(f > Len(signed'))
        BY <1>1, <1>2, <1>9
      <4>2. QED
        BY <1>2, <1>13, <3>2, <4>1 DEF FrameOK, Verdicts
    <3>3. CASE g # f
      <4>1. g > Len(signed') => g > Len(signed)
        BY <1>0, <1>1, <1>9
      <4>2. QED
        BY <1>2, <1>14, <3>1, <3>3, <4>1 DEF FrameOK
    <3>4. QED
      BY <3>2, <3>3
  <2>2. ASSUME NEW q \in Procs, NEW g \in link[q].owed PROVE fate'[g] = "written"
    <3>1. g \in Frames /\ fate[g] = "written"
      BY <1>1 DEF ConnOK, ConnType
    <3>2. QED
      BY <1>13, <1>14, <3>1
  <2>3. ASSUME NEW q \in Procs, q # p PROVE CallOK(q)' /\ ConnOK(q)'
    <3>1. call'[q] = Idle /\ call[q] = Idle
      BY <1>11, <1>15, <2>3, Parts DEF Active
    <3>2. ConnOK(q)
      BY <1>1
    <3>3. CallOK(q)'
      BY <3>1 DEF CallOK, Idle
    <3>4. ConnOK(q)'
      BY <1>2, <2>2, <3>1, <3>2 DEF ConnOK, Idle
    <3>5. QED
      BY <3>3, <3>4
  <2>4. CallOK(p)'
    <3>1. outcome'[f] = "none" /\ proc'[p].pc = "sent"
      BY <1>2, <1>8, <1>12, <1>13
    <3>2. QED
      BY <1>14, <1>15, <1>17, <3>1 DEF CallOK
  <2>5. ConnOK(p)'
    <3>1. link[p].alive => Quiet(link[p])
      BY <1>1, <1>2 DEF ConnOK
    <3>2. QED
      BY <1>2, <1>3, <1>15, <2>2, <3>1 DEF ConnOK
  <2>6. WsType'
    BY <1>1, <1>2, <1>14, <1>15 DEF WsType
  <2>7. QED
    BY <2>1, <2>3, <2>4, <2>5, <2>6 DEF WsInv
<1>19. LockInv' /\ StartInv'
  <2>1. LockInv'
    BY <1>2, <1>11, <1>12 DEF LockInv, Active
  <2>2. StartInv'
    BY <1>8, <1>11, <1>12 DEF SessionInv, StartInv, Started, Cleared, Trading
  <2>3. QED
    BY <2>1, <2>2
<1>20. NonceInv'
  <2> SUFFICES ASSUME ~RefreshMayFail
               PROVE  /\ \A g \in DOMAIN signed' : signed'[g].nonce \in {0, Used}
                      /\ \A q \in Procs : /\ proc'[q].pc \in Paced => proc'[q].ahead <= 0
                                          /\ proc'[q].pc = "sent" => SentOK(q)'
    BY DEF NonceInv
  <2>1. \A g \in DOMAIN signed' : signed'[g].nonce \in {0, Used}
    BY <1>5, <1>7, <1>9, <1>10, <1>11 DEF SessionInv, NonceInv
  <2>2. SentOK(p)'
    <3>1. proc'[p].ahead <= 1 /\ f \in DOMAIN signed'
      BY <1>6, <1>8, <1>10, <1>11, <1>12
    <3>2. fate'[f] # "Ok" /\ call'[p].pc # "idle"
      BY <1>14, <1>15
    <3>3. QED
      BY <1>17, <3>1, <3>2 DEF SentOK
  <2>3. \A q \in Procs : q # p => proc'[q].pc \notin Paced \cup {"sent"}
    BY <1>11, <1>12 DEF Active, Paced, SessionInv, TypeOK, PCs
  <2>4. proc'[p].pc \notin Paced
    BY <1>8, <1>12 DEF Paced
  <2>5. QED
    BY <2>1, <2>2, <2>3, <2>4
<1>21. GhostInv'
  <2> SUFFICES ASSUME SetLeverage, ~RefreshMayFail
               PROVE  /\ \A q \in Procs : proc'[q].pc \in Cleared \cup {"connect"} =>
                           \A g \in DOMAIN signed' : signed'[g].by # q => signed'[g].nonce = Used
                      /\ NoGhostOrders'
    BY DEF GhostInv
  <2>1. \A q \in Procs : q # p => proc'[q].pc \notin Cleared \cup {"connect"} /\ ~Started(q)'
    <3>1. \A q \in Procs : q # p => proc[q].pc \in {"off", "dead"}
      BY <1>11 DEF Active
    <3>2. \A q \in Procs : q # p => proc[q].pc \notin Cleared \cup {"connect"}
      BY <3>1 DEF Cleared
    <3>3. QED
      BY <1>12, <3>2, Parts DEF Started
  <2>2. \A g \in DOMAIN signed' : signed'[g].by # p => signed'[g].nonce = Used
    <3>1. p \in Procs /\ a.pc \in Cleared
      BY <1>2 DEF Cleared
    <3>2. \A g \in DOMAIN signed : signed[g].by # p => signed[g].nonce = Used
      BY <3>1, Parts
    <3>3. QED
      BY <1>7, <1>9, <1>10, <3>2
  <2>3. \A g \in resting' : signed'[g].by = p
    BY <1>2, <1>9, <1>11 DEF SessionInv, TypeOK
  <2>4. QED
    BY <2>1, <2>2, <2>3 DEF NoGhostOrders
<1>22. QED
  BY <1>16, <1>18, <1>19, <1>20, <1>21 DEF SessionInv

-----------------------------------------------------------------------------
(* STEPS OF THE EXCHANGE                                                   *)

(* As long as a frame has no verdict, no answer to it is under way.        *)
LEMMA NoAnswerYet ==
    ASSUME NEW w \in Seq(Verdicts), \A i \in 1 .. Len(w) : w[i] = "written"
    PROVE  w = <<>>
<1>1. CASE w # <<>>
  <2>1. 1 \in 1 .. Len(w)
    BY <1>1, EmptySeq
  <2>2. w[1] \in Verdicts /\ w[1] = "written"
    BY <2>1, ElementOfSeq
  <2>3. QED
    BY <2>2 DEF Verdicts
<1>2. QED
  BY <1>1

(* One queue is empty, the other holds one answer at most.                 *)
LEMMA AtMostOne ==
    ASSUME NEW w, NEW r, NEW v, Len(r) = 0, Len(w) = 0 \/ (Len(w) = 1 /\ w[1] = v)
    PROVE  /\ Len(w) + Len(r) <= 1
           /\ \A i \in 1 .. Len(w) : w[i] = v
           /\ \A i \in 1 .. Len(r) : r[i] = v
<1>1. CASE Len(w) = 0
  BY <1>1
<1>2. CASE Len(w) = 1 /\ w[1] = v
  BY <1>2
<1>3. QED
  BY <1>1, <1>2

(* A connection of which the verdict v, or the loss, of frame f is heard.  *)
Told(c, d, f, v) ==
    \/ f \notin c.owed /\ d = c
    \/ f \in c.owed /\ v \in Verdicts /\ d = [c EXCEPT !.owed = @ \ {f}, !.wire = Append(@, v)]
    \/ v = "lost" /\ d = [c EXCEPT !.owed = @ \ {f}]

(* What the verdict changes on a connection.                               *)
LEMMA ToldFacts ==
    ASSUME NEW c \in ConnType, NEW f, NEW v, NEW d, Told(c, d, f, v)
    PROVE  /\ d \in ConnType /\ d.owed = c.owed \ {f} /\ d.resp = c.resp /\ d.alive = c.alive
           /\ d.wire = IF f \in c.owed /\ v \in Verdicts THEN Append(c.wire, v) ELSE c.wire
<1>1. CASE f \notin c.owed /\ d = c
  BY <1>1
<1>2. CASE f \in c.owed /\ v \in Verdicts /\ d = [c EXCEPT !.owed = @ \ {f}, !.wire = Append(@, v)]
  <2>1. c.wire \in Seq(Verdicts) /\ c.owed \in SUBSET Frames
    BY DEF ConnType
  <2> DEFINE w == Append(c.wire, v)
             o == c.owed \ {f}
  <2>2. w \in Seq(Verdicts) /\ o \in SUBSET Frames /\ d = [c EXCEPT !.owed = o, !.wire = w]
    BY <1>2, <2>1
  <2> HIDE DEF w, o
  <2>3. d \in ConnType /\ d.owed = o /\ d.wire = w /\ d.resp = c.resp /\ d.alive = c.alive
    BY <2>2 DEF ConnType
  <2>4. QED
    BY <1>2, <2>3 DEF w, o
<1>3. CASE v = "lost" /\ d = [c EXCEPT !.owed = @ \ {f}]
  <2>1. v \notin Verdicts
    BY <1>3 DEF Verdicts
  <2>2. /\ d \in ConnType /\ d.owed = c.owed \ {f} /\ d.resp = c.resp
        /\ d.alive = c.alive /\ d.wire = c.wire
    BY <1>3 DEF ConnType
  <2>3. QED
    BY <2>1, <2>2
<1>4. QED
  BY <1>1, <1>2, <1>3 DEF Told

(* The connections when frame f gets its verdict, or is lost.              *)
LEMMA VerdictKeepsConn ==
    ASSUME SessionInv, NEW q \in Procs, NEW f \in Frames, NEW v \in Verdicts \cup {"lost"},
           fate[f] = "written", fate' = [fate EXCEPT ![f] = v], UNCHANGED call,
           Told(link[q], link'[q], f, v)
    PROVE  ConnOK(q)'
<1> DEFINE c == link[q]
           d == link'[q]
           fr == call[q].frame
<1>1. /\ fate \in [Frames -> Fates] /\ c \in ConnType /\ ConnOK(q)
      /\ call[q].pc # "idle" => fr \in Frames
  BY Shapes
<1>2. /\ d \in ConnType /\ d.owed = c.owed \ {f} /\ d.resp = c.resp /\ d.alive = c.alive
      /\ d.wire = IF f \in c.owed /\ v \in Verdicts THEN Append(c.wire, v) ELSE c.wire
  BY <1>1, ToldFacts
<1>3. fate'[f] = v /\ \A g \in Frames : g # f => fate'[g] = fate[g]
  BY <1>1
<1>4. c.owed \in SUBSET Frames /\ c.wire \in Seq(Verdicts) /\ c.resp \in Seq(Verdicts)
  BY <1>1 DEF ConnType
<1>5. \A g \in d.owed : fate'[g] = "written"
  BY <1>1, <1>2, <1>3, <1>4 DEF ConnOK
<1>6. Quiet(c) => Quiet(d)
  BY <1>2 DEF Quiet
<1>7. ASSUME call[q].pc = "wait"
      PROVE  /\ d.owed \subseteq {fr}
             /\ Len(d.wire) + Len(d.resp) <= 1
             /\ \A i \in 1 .. Len(d.wire) : d.wire[i] = fate'[fr]
             /\ \A i \in 1 .. Len(d.resp) : d.resp[i] = fate'[fr]
  <2>1. /\ fr \in Frames /\ c.owed \subseteq {fr}
        /\ Len(c.wire) + Len(c.resp) <= 1
        /\ \A i \in 1 .. Len(c.wire) : c.wire[i] = fate[fr]
        /\ \A i \in 1 .. Len(c.resp) : c.resp[i] = fate[fr]
    BY <1>1, <1>7 DEF ConnOK
  <2>2. CASE fr # f
    <3>1. d.wire = c.wire /\ d.resp = c.resp /\ fate'[fr] = fate[fr]
      BY <1>2, <1>3, <2>1, <2>2
    <3>2. QED
      BY <1>2, <2>1, <3>1
  <2>3. CASE fr = f
    <3>1. c.wire = <<>> /\ c.resp = <<>>
      <4>1. /\ \A i \in 1 .. Len(c.wire) : c.wire[i] = "written"
            /\ \A i \in 1 .. Len(c.resp) : c.resp[i] = "written"
        BY <2>1, <2>3
      <4> HIDE DEF c
      <4>2. QED
        BY <1>4, <4>1, NoAnswerYet
    <3>2. d.resp = <<>> /\ (d.wire = <<>> \/ d.wire = <<v>>)
      BY <1>2, <3>1
    <3> HIDE DEF d
    <3>3. Len(d.resp) = 0
      BY <3>2
    <3>4. Len(d.wire) = 0 \/ (Len(d.wire) = 1 /\ d.wire[1] = v)
      <4>1. CASE d.wire = <<>>
        BY <4>1
      <4>2. CASE d.wire = <<v>>
        BY <4>2
      <4>3. QED
        BY <3>2, <4>1, <4>2
    <3>5. d.owed \subseteq {fr} /\ fate'[fr] = v
      BY <1>2, <1>3, <2>1, <2>3
    <3> DEFINE w == d.wire
               r == d.resp
    <3> HIDE DEF w, r
    <3>6. /\ Len(w) + Len(r) <= 1
          /\ \A i \in 1 .. Len(w) : w[i] = v
          /\ \A i \in 1 .. Len(r) : r[i] = v
      <4>1. Len(r) = 0 /\ (Len(w) = 0 \/ (Len(w) = 1 /\ w[1] = v))
        BY <3>3, <3>4 DEF w, r
      <4>2. QED
        BY <4>1, AtMostOne
    <3>7. QED
      BY <3>5, <3>6 DEF w, r
  <2>4. QED
    BY <2>2, <2>3
<1>8. QED
  BY <1>1, <1>2, <1>5, <1>6, <1>7 DEF ConnOK

(* Frame f gets its verdict, or is lost.  If it is accepted, its nonce was *)
(* the expected one and everybody falls behind.                            *)
LEMMA VerdictKeeps ==
    ASSUME SessionInv, NEW f \in DOMAIN signed, NEW v \in Verdicts \cup {"lost"},
           fate[f] = "written", fate' = [fate EXCEPT ![f] = v],
           UNCHANGED <<call, outcome, lock>>, link' \in [Procs -> ConnType],
           \A q \in Procs : Told(link[q], link'[q], f, v),
           proc' \in [Procs -> ProcType],
           \A q \in Procs : /\ proc'[q].pc = proc[q].pc /\ proc'[q].why = proc[q].why
                            /\ proc'[q].ahead <= proc[q].ahead
                            /\ proc[q].pc = "off" => proc'[q] = proc[q]
                            /\ v = "Ok" /\ Active(q) => proc'[q].ahead = proc[q].ahead - 1,
           signed' \in Seq(SignedType), Len(signed') = Len(signed),
           \A g \in DOMAIN signed :
               /\ signed'[g].by = signed[g].by
               /\ signed[g].nonce \in {0, Used} => signed'[g].nonce \in {0, Used}
               /\ signed[g].nonce = Used => signed'[g].nonce = Used,
           resting' = resting \/ (resting' = resting \cup {f} /\ signed[f].nonce = 0)
    PROVE  SessionInv'
<1>1. /\ proc \in [Procs -> ProcType] /\ signed \in Seq(SignedType)
      /\ Len(signed) \in 0 .. MaxFrames /\ DOMAIN signed = 1 .. Len(signed)
      /\ call \in [Procs -> CallType] /\ f \in Frames
      /\ fate \in [Frames -> Fates] /\ outcome \in [Frames -> Reports]
      /\ \A q \in Procs : CallOK(q) /\ ConnOK(q)
  BY Shapes
<1>2. DOMAIN signed' = DOMAIN signed
  BY <1>1
<1>3. /\ fate' \in [Frames -> Fates] /\ fate'[f] = v /\ fate'[f] # "unwritten"
      /\ \A g \in Frames : g # f => fate'[g] = fate[g]
  BY <1>1 DEF Fates, Verdicts
<1>4. TypeOK'
  <2>1. resting' \subseteq DOMAIN signed' /\ lock' \in Procs \cup {Free}
    BY <1>2 DEF SessionInv, TypeOK
  <2>2. Len(signed') <= MaxFrames
    BY <1>1
  <2>3. \A q \in Procs : call'[q].frame \in 0 .. MaxFrames
    BY DEF SessionInv, TypeOK
  <2>4. QED
    BY <2>1, <2>2, <2>3 DEF TypeOK, ProcType, SignedType
<1>5. \A q, g : IsLast(q, g) => IsLast(q, g)'
  BY <1>2 DEF IsLast
<1>6. WsInv'
  <2>1. ASSUME NEW g \in Frames PROVE FrameOK(g)'
    <3>1. FrameOK(g)
      BY DEF SessionInv, WsInv
    <3>2. CASE g # f
      BY <1>3, <3>1, <3>2 DEF FrameOK
    <3>3. CASE g = f
      <4>1. ~(f > Len(signed')) /\ outcome[f] \notin Verdicts /\ outcome[f] # "NotSent"
        BY <1>1, <3>1, <3>3 DEF FrameOK, Verdicts
      <4>2. QED
        BY <3>3, <4>1 DEF FrameOK
    <3>4. QED
      BY <3>2, <3>3
  <2>2. ASSUME NEW q \in Procs PROVE CallOK(q)'
    <3>1. CallOK(q) /\ proc'[q].pc = proc[q].pc /\ call'[q] = call[q]
      BY <1>1
    <3>2. \A g : g = call[q].frame /\ g \in Frames =>
            (fate[g] = "unwritten" => fate'[g] = "unwritten") /\
            (fate[g] # "unwritten" => fate'[g] # "unwritten")
      BY <1>3
    <3>3. call[q].pc # "idle" => call[q].frame \in Frames
      BY Shapes
    <3>4. call[q].pc # "idle" => IsLast(q, call[q].frame)'
      <4>1. \A g : g = call[q].frame /\ IsLast(q, g) => IsLast(q, g)'
        BY <1>5
      <4>2. QED
        BY <3>1, <4>1 DEF CallOK, IsLast
    <3>5. QED
      BY <3>1, <3>2, <3>3, <3>4 DEF CallOK
  <2>3. ASSUME NEW q \in Procs PROVE ConnOK(q)'
    BY <1>1, VerdictKeepsConn
  <2>4. WsType'
    BY <1>1, <1>3 DEF WsType
  <2>5. QED
    BY <2>1, <2>2, <2>3, <2>4 DEF WsInv
<1>7. LockInv' /\ StartInv'
  <2>1. LockInv'
    BY DEF SessionInv, LockInv, Active
  <2>2. StartInv'
    BY DEF SessionInv, StartInv, Started
  <2>3. QED
    BY <2>1, <2>2
<1>8. NonceInv'
  <2> SUFFICES ASSUME ~RefreshMayFail
               PROVE  /\ \A g \in DOMAIN signed' : signed'[g].nonce \in {0, Used}
                      /\ \A q \in Procs : /\ proc'[q].pc \in Paced => proc'[q].ahead <= 0
                                          /\ proc'[q].pc = "sent" => SentOK(q)'
    BY DEF NonceInv
  <2>1. \A g \in DOMAIN signed' : signed'[g].nonce \in {0, Used}
    BY <1>2 DEF SessionInv, NonceInv
  <2>2. ASSUME NEW q \in Procs, proc'[q].pc \in Paced PROVE proc'[q].ahead <= 0
    <3>1. proc[q].ahead <= 0 /\ proc'[q].ahead <= proc[q].ahead
      BY <2>2 DEF SessionInv, NonceInv
    <3>2. proc[q].ahead \in Int /\ proc'[q].ahead \in Int
      BY <1>1 DEF ProcType
    <3>3. QED
      BY <3>1, <3>2
  <2>3. ASSUME NEW q \in Procs, proc'[q].pc = "sent" PROVE SentOK(q)'
    <3>1. SentOK(q) /\ proc'[q].ahead <= proc[q].ahead /\ Active(q)
      BY <2>3 DEF SessionInv, NonceInv, Active
    <3>2. PICK g \in DOMAIN signed : /\ IsLast(q, g)
                                     /\ fate[g] = "Ok" => proc[q].ahead <= 0
                                     /\ call[q].pc = "idle" => outcome[g] # "none"
      BY <3>1 DEF SentOK
    <3>3. /\ proc[q].ahead \in Int /\ proc'[q].ahead \in Int /\ proc[q].ahead <= 1
          /\ v = "Ok" => proc'[q].ahead = proc[q].ahead - 1
      BY <1>1, <3>1 DEF ProcType, SentOK
    <3>4. proc'[q].ahead <= 1
      BY <3>1, <3>3
    <3>5. fate'[g] = "Ok" => proc'[q].ahead <= 0
      <4>1. CASE g # f
        <5>1. g \in Frames
          BY Shapes
        <5>2. fate'[g] = fate[g]
          BY <1>3, <4>1, <5>1
        <5>3. QED
          BY <3>1, <3>2, <3>3, <5>2
      <4>2. CASE g = f
        BY <1>3, <3>3, <4>2
      <4>3. QED
        BY <4>1, <4>2
    <3>6. QED
      BY <1>2, <1>5, <3>2, <3>4, <3>5 DEF SentOK
  <2>4. QED
    BY <2>1, <2>2, <2>3
<1>9. GhostInv'
  <2> SUFFICES ASSUME SetLeverage, ~RefreshMayFail
               PROVE  /\ \A q \in Procs : proc'[q].pc \in Cleared \cup {"connect"} =>
                           \A g \in DOMAIN signed' : signed'[g].by # q => signed'[g].nonce = Used
                      /\ NoGhostOrders'
    BY DEF GhostInv
  <2>1. ASSUME NEW q \in Procs, proc'[q].pc \in Cleared \cup {"connect"},
               NEW g \in DOMAIN signed, signed'[g].by # q
        PROVE  signed[g].nonce = Used /\ signed'[g].nonce = Used
    <3>1. proc[q].pc \in Cleared \cup {"connect"} /\ signed[g].by # q
      BY <2>1
    <3>2. QED
      BY <3>1, Parts
  <2>2. ASSUME NEW q \in Procs, Started(q)', NEW g \in resting' PROVE signed'[g].by = q
    <3>1. Started(q) /\ proc[q].pc \in Cleared /\ g \in DOMAIN signed
      <4>1. Started(q)
        BY <2>2 DEF Started
      <4>2. proc[q].pc \in Cleared
        BY <4>1, Parts
      <4>3. resting \subseteq DOMAIN signed
        BY DEF SessionInv, TypeOK
      <4>4. QED
        BY <4>1, <4>2, <4>3
    <3>2. CASE g \in resting
      BY <3>1, <3>2, Parts
    <3>3. CASE g \notin resting
      <4>1. g = f /\ signed[f].nonce = 0
        BY <3>3
      <4>2. 0 # Used
        BY DEF Used
      <4>3. QED
        BY <2>1, <3>1, <4>1, <4>2
    <3>4. QED
      BY <3>2, <3>3
  <2>3. QED
    BY <1>2, <2>1, <2>2 DEF NoGhostOrders
<1>10. QED
  BY <1>4, <1>6, <1>7, <1>8, <1>9 DEF SessionInv

(* The exchange accepts, rejects, limits, or never sees a frame.           *)
LEMMA ExchangeKeeps ==
    ASSUME SessionInv, Exchange
    PROVE  SessionInv'
<1>1. /\ proc \in [Procs -> ProcType] /\ signed \in Seq(SignedType)
      /\ link \in [Procs -> ConnType]
      /\ \A q \in Procs : proc[q].ahead \in Int
  BY Shapes DEF ProcType
<1>2. /\ Consume(signed) \in Seq(SignedType) /\ Len(Consume(signed)) = Len(signed)
      /\ \A g \in DOMAIN signed :
           /\ Consume(signed)[g].by = signed[g].by
           /\ signed[g].nonce \in {0, Used} => Consume(signed)[g].nonce = Used
  BY <1>1, ConsumeFacts
<1>3. /\ Behind(proc) \in [Procs -> ProcType]
      /\ \A q \in Procs :
           /\ Behind(proc)[q].pc = proc[q].pc /\ Behind(proc)[q].why = proc[q].why
           /\ Behind(proc)[q].ahead <= proc[q].ahead
           /\ proc[q].pc = "off" => Behind(proc)[q] = proc[q]
           /\ Active(q) => Behind(proc)[q].ahead = proc[q].ahead - 1
  BY <1>1, BehindFacts DEF Active
<1>4. ASSUME NEW f \in DOMAIN signed
      PROVE  LET s == [signed EXCEPT ![f].nonce = Used]
             IN  /\ s \in Seq(SignedType) /\ Len(s) = Len(signed)
                 /\ \A g \in DOMAIN signed : /\ s[g].by = signed[g].by
                                             /\ s[g].nonce \in {signed[g].nonce, Used}
  <2> DEFINE e == [signed[f] EXCEPT !.nonce = Used]
             s == [signed EXCEPT ![f] = e]
  <2>1. f \in 1 .. Len(signed) /\ signed[f] \in SignedType
    BY <1>1
  <2>2. e \in SignedType /\ e.by = signed[f].by /\ e.nonce = Used
    BY <2>1 DEF SignedType
  <2> HIDE DEF e
  <2>3. /\ s \in Seq(SignedType) /\ Len(s) = Len(signed)
        /\ \A g \in 1 .. Len(signed) : s[g] = IF g = f THEN e ELSE signed[g]
    BY <1>1, <2>1, <2>2, ExceptSeq
  <2>4. DOMAIN signed = 1 .. Len(signed)
    BY <1>1
  <2>5. [signed EXCEPT ![f].nonce = Used] = s
    BY <1>1 DEF e
  <2> HIDE DEF s
  <2>6. QED
    BY <2>2, <2>3, <2>4, <2>5
<1>5. ASSUME NEW f, NEW v \in Verdicts, Answer(f, v)
      PROVE  /\ fate[f] = "written" /\ fate' = [fate EXCEPT ![f] = v]
             /\ UNCHANGED <<call, outcome>> /\ link' \in [Procs -> ConnType]
             /\ \A q \in Procs : Told(link[q], link'[q], f, v)
  <2>1. ASSUME NEW q \in Procs PROVE Told(link[q], link'[q], f, v) /\ link'[q] \in ConnType
    <3>1. Told(link[q], link'[q], f, v)
      BY <1>5 DEF Answer, Told
    <3>2. QED
      BY <1>1, <3>1, ToldFacts
  <2>2. link' = [q \in Procs |-> link'[q]]
    BY <1>5 DEF Answer
  <2>3. QED
    BY <1>5, <2>1, <2>2 DEF Answer
<1>6. ASSUME NEW f, Lose(f)
      PROVE  /\ fate[f] = "written" /\ fate' = [fate EXCEPT ![f] = "lost"]
             /\ UNCHANGED <<call, outcome>> /\ link' \in [Procs -> ConnType]
             /\ \A q \in Procs : Told(link[q], link'[q], f, "lost")
  <2>1. ASSUME NEW q \in Procs PROVE Told(link[q], link'[q], f, "lost") /\ link'[q] \in ConnType
    <3>1. Told(link[q], link'[q], f, "lost")
      BY <1>6 DEF Lose, Told
    <3>2. QED
      BY <1>1, <3>1, ToldFacts
  <2>2. link' = [q \in Procs |-> link'[q]]
    BY <1>6 DEF Lose
  <2>3. QED
    BY <1>6, <2>1, <2>2 DEF Lose
(* The verdict uses up the nonce, or leaves it to the next frame.          *)
<1>7. ASSUME NEW f \in DOMAIN signed, NEW v \in Verdicts \cup {"lost"},
             fate[f] = "written", fate' = [fate EXCEPT ![f] = v],
             UNCHANGED <<call, outcome, lock>>, link' \in [Procs -> ConnType],
             \A q \in Procs : Told(link[q], link'[q], f, v),
             signed' = Consume(signed), proc' = Behind(proc),
             resting' = resting \/ (resting' = resting \cup {f} /\ signed[f].nonce = 0)
      PROVE  SessionInv'
  <2>1. signed' \in Seq(SignedType) /\ Len(signed') = Len(signed)
    BY <1>2, <1>7
  <2>2. proc' \in [Procs -> ProcType]
    BY <1>3, <1>7
  <2>3. ASSUME NEW q \in Procs
        PROVE  /\ proc'[q].pc = proc[q].pc /\ proc'[q].why = proc[q].why
               /\ proc'[q].ahead <= proc[q].ahead
               /\ proc[q].pc = "off" => proc'[q] = proc[q]
               /\ Active(q) => proc'[q].ahead = proc[q].ahead - 1
    BY <1>3, <1>7
  <2>4. ASSUME NEW g \in DOMAIN signed
        PROVE  /\ signed'[g].by = signed[g].by
               /\ signed[g].nonce \in {0, Used} => signed'[g].nonce \in {0, Used}
               /\ signed[g].nonce = Used => signed'[g].nonce = Used
    BY <1>2, <1>7
  <2>5. QED
    BY <1>7, <2>1, <2>2, <2>3, <2>4, VerdictKeeps
<1>8. ASSUME NEW f \in DOMAIN signed, NEW v \in Verdicts \cup {"lost"}, v # "Ok",
             fate[f] = "written", fate' = [fate EXCEPT ![f] = v],
             UNCHANGED <<call, outcome, lock>>, link' \in [Procs -> ConnType],
             \A q \in Procs : Told(link[q], link'[q], f, v),
             signed' = [signed EXCEPT ![f].nonce = Used], UNCHANGED <<proc, resting>>
      PROVE  SessionInv'
  <2>1. /\ signed' \in Seq(SignedType) /\ Len(signed') = Len(signed)
        /\ \A g \in DOMAIN signed : /\ signed'[g].by = signed[g].by
                                    /\ signed'[g].nonce \in {signed[g].nonce, Used}
    BY <1>4, <1>8
  <2>2. \A q \in Procs : proc'[q].ahead <= proc[q].ahead
    BY <1>1, <1>8
  <2>3. QED
    BY <1>1, <1>8, <2>1, <2>2, VerdictKeeps
<1>9. ASSUME NEW f \in DOMAIN signed, Accept(f) PROVE SessionInv'
  <2>1. "Ok" \in Verdicts
    BY DEF Verdicts
  <2>2. QED
    BY <1>5, <1>7, <1>9, <2>1 DEF Accept
<1>10. ASSUME NEW f \in DOMAIN signed, NEW c \in BOOLEAN, Reject(f, c) PROVE SessionInv'
  <2>1. "Rejected" \in Verdicts
    BY DEF Verdicts
  <2>2. CASE c
    BY <1>5, <1>7, <1>10, <2>1, <2>2 DEF Reject
  <2>3. CASE ~c
    BY <1>5, <1>8, <1>10, <2>1, <2>3 DEF Reject
  <2>4. QED
    BY <2>2, <2>3
<1>11. ASSUME NEW f \in DOMAIN signed, Limit(f) PROVE SessionInv'
  <2>1. "RateLimit" \in Verdicts
    BY DEF Verdicts
  <2>2. QED
    BY <1>5, <1>8, <1>11, <2>1 DEF Limit
<1>12. ASSUME NEW f \in DOMAIN signed, Drop(f) PROVE SessionInv'
  BY <1>6, <1>8, <1>12 DEF Drop
<1>13. QED
  BY <1>9, <1>10, <1>11, <1>12 DEF Exchange

-----------------------------------------------------------------------------
(* THE INVARIANT                                                           *)

(* Nobody has started.                                                     *)
LEMMA InitInv ==
    ASSUME Init PROVE SessionInv
<1>1. /\ MaxFrames \in Nat /\ Frames = 1 .. MaxFrames /\ CancelAttempts \in Nat \ {0}
      /\ MaxIndex \in Nat /\ MaxUnsent \in Nat
  BY ChannelAssumption, SessionAssumption DEF ChannelAssumption, SessionAssumption, Frames
<1>2. /\ proc = [p \in Procs |-> Off] /\ lock = Free /\ signed = <<>> /\ resting = {}
      /\ link = [p \in Procs |-> NoConn] /\ call = [p \in Procs |-> Idle]
      /\ fate = [f \in Frames |-> "unwritten"] /\ outcome = [f \in Frames |-> "none"]
  BY DEF Init, WsInit
<1>3. DOMAIN signed = {} /\ Len(signed) = 0 /\ signed \in Seq(SignedType)
  BY <1>2
<1>4. Off \in ProcType /\ Off.pc = "off" /\ Off.why = "start"
  BY <1>1 DEF Off, ProcType, PCs
<1>5. Idle \in CallType /\ Idle.pc = "idle" /\ Idle.frame = 0
  BY <1>1 DEF Idle, CallType
<1>6. TypeOK
  <2>1. proc \in [Procs -> ProcType]
    BY <1>2, <1>4
  <2>2. /\ lock \in Procs \cup {Free} /\ Len(signed) <= MaxFrames /\ resting \subseteq DOMAIN signed
        /\ \A p \in Procs : call[p].frame \in 0 .. MaxFrames
    BY <1>1, <1>2, <1>3, <1>5
  <2>3. QED
    BY <1>3, <2>1, <2>2 DEF TypeOK, ProcType, SignedType
<1>7. WsInv
  <2>1. WsType
    BY <1>2, <1>5, NewConnFacts DEF WsType, Fates, Reports
  <2>2. ASSUME NEW f \in Frames PROVE FrameOK(f)
    BY <1>2 DEF FrameOK, Verdicts
  <2>3. ASSUME NEW p \in Procs PROVE CallOK(p) /\ ConnOK(p)
    <3>1. call[p] = Idle /\ link[p] = NoConn
      BY <1>2
    <3>2. CallOK(p)
      BY <1>5, <3>1 DEF CallOK
    <3>3. ConnOK(p)
      BY <1>5, <3>1, NewConnFacts DEF ConnOK, Quiet
    <3>4. QED
      BY <3>2, <3>3
  <2>4. QED
    BY <2>1, <2>2, <2>3 DEF WsInv
<1>8. \A p \in Procs : proc[p] = Off
  BY <1>2
<1>9. LockInv /\ StartInv
  BY <1>4, <1>8 DEF LockInv, Active, StartInv, Started, Trading
<1>10. NonceInv /\ GhostInv
  BY <1>2, <1>3, <1>4, <1>8 DEF NonceInv, GhostInv, NoGhostOrders, Paced, Cleared
<1>11. QED
  BY <1>6, <1>7, <1>9, <1>10 DEF SessionInv

(* The inductive invariant: no step of any process, reader, pinger or of   *)
(* the exchange, and no crash, leads out of it.                            *)
THEOREM SessionInvariantHolds == Spec => []SessionInv
<1>1. SessionInv /\ [Next]_vars => SessionInv'
  <2> SUFFICES ASSUME SessionInv, [Next]_vars PROVE SessionInv'
    OBVIOUS
  <2>1. ASSUME NEW p \in Procs, Sender(p) PROVE SessionInv'
    BY <2>1, WsStepKeeps DEF Sender
  <2>2. ASSUME NEW p \in Procs, Background(p) PROVE SessionInv'
    BY <2>2, WsBackgroundKeeps DEF Background
  <2>3. CASE Next
    BY <2>1, <2>2, <2>3, StartupKeeps, CancelKeeps, SendKeeps, TradingKeeps, ExchangeKeeps DEF Next
  <2>4. CASE UNCHANGED vars
    <3>1. UNCHANGED <<link, call, fate, outcome, proc, lock, signed, resting>>
      BY <2>4 DEF vars, wsVars, sessionVars
    <3>2. WsInv'
      <4>1. ASSUME NEW f \in Frames, FrameOK(f) PROVE FrameOK(f)'
        BY <3>1, <4>1 DEF FrameOK
      <4>2. ASSUME NEW p \in Procs, CallOK(p), ConnOK(p) PROVE CallOK(p)' /\ ConnOK(p)'
        BY <3>1, <4>2 DEF CallOK, ConnOK, IsLast
      <4>3. QED
        BY <3>1, <4>1, <4>2 DEF SessionInv, WsInv, WsType
    <3>3. TypeOK' /\ LockInv' /\ StartInv'
      BY <3>1 DEF SessionInv, TypeOK, LockInv, Active, StartInv, Started
    <3>4. NonceInv' /\ GhostInv'
      BY <3>1 DEF SessionInv, NonceInv, SentOK, IsLast, GhostInv, NoGhostOrders, Started
    <3>5. QED
      BY <3>2, <3>3, <3>4 DEF SessionInv
  <2>5. QED
    BY <2>3, <2>4
<1>2. QED
  BY <1>1, InitInv, PTL DEF Spec

(* Every variable of the session keeps its type: in particular client ids  *)
(* stay in 1 .. MAX_CLIENT_ORDER_INDEX, whatever the clock reads.          *)
THEOREM TypeCorrect == Spec => []TypeOK
<1>1. SessionInv => TypeOK
  BY DEF SessionInv
<1>2. QED
  BY <1>1, SessionInvariantHolds, PTL

(* With leverage set at startup and refreshes that succeed, whatever rests *)
(* while a process trades is its own, although crashed predecessors may    *)
(* have left frames under way: the verified cancel-all removes what rests, *)
(* the leverage transaction uses up the nonce of what does not rest yet,   *)
(* and the lock keeps everybody else from signing.                         *)
THEOREM NoGhosts ==
    ASSUME SetLeverage, ~RefreshMayFail
    PROVE  Spec => []NoGhostOrders
<1>1. SessionInv => NoGhostOrders
  BY DEF SessionInv, GhostInv
<1>2. QED
  BY <1>1, SessionInvariantHolds, PTL

(* Two processes never run on the account at once, and a process that      *)
(* trades has been through the verified start.                             *)
OneAtATime ==
    /\ \A p, q \in Procs : Active(p) /\ Active(q) => p = q
    /\ \A p \in Procs : proc[p].pc \in Trading => Started(p)

(* The lock file of instance_lock.rs excludes a second live process, and   *)
(* sending is enabled by the verified start only (orchestrator.rs).        *)
THEOREM OneProcessTrades == Spec => []OneAtATime
<1>1. SessionInv => OneAtATime
  BY DEF SessionInv, LockInv, StartInv, OneAtATime
<1>2. QED
  BY <1>1, SessionInvariantHolds, PTL

-----------------------------------------------------------------------------
(* CLIENT IDS                                                              *)

(* The clock is far from MAX_CLIENT_ORDER_INDEX: the ids of a life of the  *)
(* account fit in between.  (The clock counts milliseconds; 2^48 of them   *)
(* are over in the year 10889.)                                            *)
ClockFits == \A now \in Clock : now + MaxFrames * (MaxUnsent + 1) < MaxIndex

(* How many ids may still be taken once n frames are signed.               *)
IdsLeft(n) == (MaxFrames - n) * (MaxUnsent + 1)

(* Ids of a running process are behind it, and its counter stays away from *)
(* the wrap.                                                               *)
TakenInv ==
    \A p \in Procs :
        /\ \A f \in DOMAIN signed : signed[f].by = p =>
             proc[p].pc # "off" /\ (Active(p) => signed[f].id <= proc[p].last)
        /\ proc[p].last + IdsLeft(Len(signed)) < MaxIndex + proc[p].unsent

(* Frames of one process have different ids, and only the frames of the    *)
(* process that signed last can rest, now or later.                        *)
ApartInv ==
    /\ \A f, g \in DOMAIN signed :
         f < g /\ signed[f].by = signed[g].by => signed[f].id < signed[g].id
    /\ \A f \in DOMAIN signed :
         signed[f].by # signed[Len(signed)].by => signed[f].nonce = Used /\ f \notin resting

IdInv == TakenInv /\ ApartInv

(* Every further frame takes at most MaxUnsent + 1 ids.                    *)
LEMMA IdsLeftFacts ==
    ASSUME NEW n \in 0 .. MaxFrames, MaxFrames \in Nat
    PROVE  /\ IdsLeft(n) \in 0 .. MaxFrames * (MaxUnsent + 1) /\ MaxFrames * (MaxUnsent + 1) \in Nat
           /\ n < MaxFrames => /\ IdsLeft(n + 1) = IdsLeft(n) - (MaxUnsent + 1)
                               /\ IdsLeft(n + 1) \in Nat
<1>1. MaxUnsent \in Nat
  BY SessionAssumption DEF SessionAssumption
<1> DEFINE k == MaxUnsent + 1
<1>2. k \in Nat
  BY <1>1
<1> HIDE DEF k
<1>3. /\ n * k \in Nat /\ (MaxFrames - n) * k \in Nat /\ MaxFrames * k \in Nat
      /\ (MaxFrames - n) * k = MaxFrames * k - n * k
  BY <1>2
<1>4. IdsLeft(n) \in 0 .. MaxFrames * k
  <2> DEFINE a == MaxFrames * k
             b == n * k
             c == (MaxFrames - n) * k
  <2>1. a \in Nat /\ b \in Nat /\ c \in Nat /\ c = a - b
    BY <1>3
  <2> HIDE DEF a, b, c
  <2>2. c \in 0 .. a
    BY <2>1
  <2>3. QED
    BY <2>2 DEF IdsLeft, a, c, k
<1>5. ASSUME n < MaxFrames
      PROVE  IdsLeft(n + 1) = IdsLeft(n) - k /\ IdsLeft(n + 1) \in Nat
  <2>1. MaxFrames - n - 1 \in Nat /\ MaxFrames - (n + 1) = MaxFrames - n - 1
    BY <1>5
  <2>2. (MaxFrames - n - 1) * k \in Nat
    BY <1>2, <2>1
  <2>3. (MaxFrames - n - 1) * k = (MaxFrames - n) * k - k
    BY <1>2
  <2>4. QED
    BY <2>1, <2>2, <2>3 DEF IdsLeft, k
<1>6. QED
  BY <1>3, <1>4, <1>5 DEF k

(* Away from the wrap the next id is larger than the last, and it is the   *)
(* clock's or the one after the last.                                      *)
LEMMA NextIdGrows ==
    ASSUME NEW last \in 0 .. MaxIndex - 1, NEW now \in 0 .. MaxIndex - 1
    PROVE  LET id == NextClientOrderIndex(last, now)
           IN  id > last /\ (id = last + 1 \/ id = now)
<1>1. MaxIndex \in Nat /\ MaxIndex >= 2
  BY SessionAssumption DEF SessionAssumption
<1>2. now % MaxIndex = now
  BY <1>1
<1>3. (last + 1) % (MaxIndex + 1) = last + 1
  BY <1>1
<1>4. QED
  BY <1>1, <1>2, <1>3 DEF NextClientOrderIndex

(* What a step that takes no id does: a process keeps its counter or is    *)
(* gone, nobody comes back, frames keep owner and id, a void nonce stays   *)
(* void, and what comes to rest had the expected nonce.                    *)
Steady(q) ==
    /\ proc'[q].last = proc[q].last /\ proc'[q].unsent = proc[q].unsent
    /\ proc[q].pc = "dead" => proc'[q].pc = "dead"
    /\ proc'[q].pc = "off" => proc[q].pc = "off"

Gone(q) == proc'[q] = [Off EXCEPT !.pc = "dead"]

NoIdTaken ==
    /\ Len(signed') = Len(signed)
    /\ \A f \in DOMAIN signed :
         /\ signed'[f].by = signed[f].by /\ signed'[f].id = signed[f].id
         /\ signed[f].nonce = Used => signed'[f].nonce = Used
    /\ resting' \subseteq resting \cup {f \in DOMAIN signed : signed[f].nonce = 0}
    /\ \A q \in Procs : Steady(q) \/ Gone(q)

(* With enough room a new process finds all ids it may need.               *)
LEMMA IdsFit ==
    ASSUME ClockFits, MaxFrames \in Nat, NEW n \in 0 .. MaxFrames
    PROVE  /\ IdsLeft(n) < MaxIndex
           /\ \A now \in Clock : now \in 0 .. MaxIndex - 1 /\ now + IdsLeft(n) < MaxIndex
<1> DEFINE a == MaxFrames * (MaxUnsent + 1)
           b == IdsLeft(n)
<1>1. b \in 0 .. a /\ a \in Nat
  BY IdsLeftFacts
<1>2. MaxIndex \in Nat /\ Clock \subseteq Nat /\ Clock # {}
  BY SessionAssumption DEF SessionAssumption
<1>3. \A now \in Clock : now + a < MaxIndex
  BY DEF ClockFits
<1> HIDE DEF a, b
<1>4. \A now \in Clock : now \in 0 .. MaxIndex - 1 /\ now + b < MaxIndex
  BY <1>1, <1>2, <1>3
<1>5. b < MaxIndex
  <2>1. PICK now \in Clock : TRUE
    BY <1>2
  <2>2. now \in Nat /\ now + b < MaxIndex
    BY <1>4, <1>2
  <2>3. QED
    BY <1>1, <1>2, <2>2
<1>6. QED
  BY <1>4, <1>5 DEF b

(* Nothing is forgotten by a step that takes no id.                        *)
LEMMA IdsKept ==
    ASSUME ClockFits, SessionInv, SessionInv', IdInv, NoIdTaken
    PROVE  IdInv'
<1>1. /\ proc \in [Procs -> ProcType] /\ signed \in Seq(SignedType)
      /\ signed' \in Seq(SignedType)
      /\ Len(signed) \in 0 .. MaxFrames /\ MaxFrames \in Nat /\ DOMAIN signed = 1 .. Len(signed)
  <2>1. signed' \in Seq(SignedType)
    BY DEF SessionInv, TypeOK, SignedType
  <2>2. QED
    BY <2>1, Shapes
<1>2. /\ DOMAIN signed' = DOMAIN signed /\ Len(signed') = Len(signed)
      /\ \A f \in DOMAIN signed : signed'[f].by = signed[f].by /\ signed'[f].id = signed[f].id
  <2>1. Len(signed') = Len(signed)
    BY DEF NoIdTaken
  <2>2. DOMAIN signed' = 1 .. Len(signed')
    BY <1>1
  <2>3. QED
    BY <1>1, <2>1, <2>2 DEF NoIdTaken
<1>3. ASSUME NEW q \in Procs, NEW f \in DOMAIN signed, signed[f].by = q
      PROVE  proc'[q].pc # "off" /\ (Active(q)' => signed[f].id <= proc'[q].last)
  <2>1. proc[q].pc # "off" /\ (Active(q) => signed[f].id <= proc[q].last)
    BY <1>3 DEF IdInv, TakenInv
  <2>2. CASE Gone(q)
    BY <2>2 DEF Gone, Off, Active
  <2>3. CASE Steady(q)
    BY <2>1, <2>3 DEF Steady, Active
  <2>4. QED
    BY <2>2, <2>3 DEF NoIdTaken
<1>4. ASSUME NEW q \in Procs
      PROVE  proc'[q].last + IdsLeft(Len(signed)) < MaxIndex + proc'[q].unsent
  <2>1. /\ proc[q].last + IdsLeft(Len(signed)) < MaxIndex + proc[q].unsent
        /\ proc[q].last \in 0 .. MaxIndex /\ proc[q].unsent \in 0 .. MaxUnsent
    BY <1>1 DEF IdInv, TakenInv, ProcType
  <2>2. CASE Steady(q)
    BY <2>1, <2>2 DEF Steady
  <2>3. CASE Gone(q)
    <3>1. proc'[q].last = 0 /\ proc'[q].unsent = 0
      BY <2>3 DEF Gone, Off
    <3>2. IdsLeft(Len(signed)) < MaxIndex
      BY <1>1, IdsFit
    <3>3. IdsLeft(Len(signed)) \in Nat /\ MaxIndex \in Nat
      BY <1>1, IdsLeftFacts, SessionAssumption DEF SessionAssumption
    <3>4. QED
      BY <3>1, <3>2, <3>3
  <2>4. QED
    BY <2>2, <2>3 DEF NoIdTaken
<1>5. ASSUME NEW f \in DOMAIN signed, signed[f].by # signed[Len(signed)].by
      PROVE  signed'[f].nonce = Used /\ f \notin resting'
  <2>1. signed[f].nonce = Used /\ f \notin resting
    BY <1>5 DEF IdInv, ApartInv
  <2>2. signed'[f].nonce = Used
    BY <2>1 DEF NoIdTaken
  <2>3. f \notin resting'
    BY <2>1 DEF NoIdTaken, Used
  <2>4. QED
    BY <2>2, <2>3
<1>6. TakenInv'
  <2>1. ASSUME NEW q \in Procs, NEW f \in DOMAIN signed', signed'[f].by = q
        PROVE  proc'[q].pc # "off" /\ (Active(q)' => signed'[f].id <= proc'[q].last)
    BY <1>2, <1>3, <2>1
  <2>2. \A q \in Procs : proc'[q].last + IdsLeft(Len(signed')) < MaxIndex + proc'[q].unsent
    BY <1>2, <1>4
  <2>3. QED
    BY <2>1, <2>2 DEF TakenInv, IdsLeft
<1>7. ApartInv'
  <2>1. \A f, g \in DOMAIN signed' :
          f < g /\ signed'[f].by = signed'[g].by => signed'[f].id < signed'[g].id
    BY <1>2 DEF IdInv, ApartInv
  <2>2. ASSUME NEW f \in DOMAIN signed', signed'[f].by # signed'[Len(signed')].by
        PROVE  signed'[f].nonce = Used /\ f \notin resting'
    <3>1. Len(signed) \in DOMAIN signed
      BY <1>1, <1>2
    <3>2. QED
      BY <1>2, <1>5, <2>2, <3>1
  <2>3. QED
    BY <2>1, <2>2 DEF ApartInv
<1>8. QED
  BY <1>6, <1>7 DEF IdInv

(* A batch is collected: the process takes an id beyond all of its own.    *)
LEMMA CollectTakes ==
    ASSUME ClockFits, SessionInv, SessionInv', IdInv,
           NEW p \in Procs, NEW now \in Clock, CollectUnsent(p, now)
    PROVE  IdInv'
<1> DEFINE old == proc[p].last
           id == NextClientOrderIndex(old, now)
           u == proc[p].unsent
           n == Len(signed)
<1>1. /\ proc \in [Procs -> ProcType] /\ signed \in Seq(SignedType)
      /\ n \in 0 .. MaxFrames /\ MaxFrames \in Nat /\ DOMAIN signed = 1 .. n
      /\ n < MaxFrames /\ u \in 0 .. MaxUnsent /\ u < MaxUnsent /\ old \in 0 .. MaxIndex
  BY Shapes DEF ProcType, CollectUnsent
<1>2. /\ proc' = [proc EXCEPT ![p].last = id, ![p].unsent = u + 1]
      /\ UNCHANGED <<signed, resting>>
  BY DEF CollectUnsent
<1>3. /\ proc'[p].last = id /\ proc'[p].unsent = u + 1 /\ proc'[p].pc = proc[p].pc
      /\ \A q \in Procs : q # p => proc'[q] = proc[q]
  BY <1>1, <1>2 DEF ProcType
<1>4. /\ MaxIndex \in Nat /\ MaxUnsent \in Nat /\ IdsLeft(n) \in Nat
      /\ IdsLeft(n) >= MaxUnsent + 1 /\ now \in 0 .. MaxIndex - 1
      /\ now + IdsLeft(n) < MaxIndex
  <2>1. MaxIndex \in Nat /\ MaxUnsent \in Nat
    BY SessionAssumption DEF SessionAssumption
  <2>2. IdsLeft(n) \in Nat /\ IdsLeft(n + 1) = IdsLeft(n) - (MaxUnsent + 1) /\ IdsLeft(n + 1) \in Nat
    BY <1>1, IdsLeftFacts
  <2>3. now \in 0 .. MaxIndex - 1 /\ now + IdsLeft(n) < MaxIndex
    BY <1>1, IdsFit
  <2> HIDE DEF n
  <2>4. QED
    BY <2>1, <2>2, <2>3
<1>5. old + IdsLeft(n) < MaxIndex + u
  BY DEF IdInv, TakenInv
<1> HIDE DEF n, u, old
<1>6. old \in 0 .. MaxIndex - 1
  BY <1>1, <1>4, <1>5
<1>7. id > old /\ (id = old + 1 \/ id = now) /\ id \in Nat
  BY <1>4, <1>6, NextIdGrows
<1> HIDE DEF id
<1>8. id + IdsLeft(n) < MaxIndex + (u + 1)
  BY <1>1, <1>4, <1>5, <1>7
<1>9. TakenInv'
  <2>1. ASSUME NEW q \in Procs, NEW f \in DOMAIN signed, signed[f].by = q
        PROVE  proc'[q].pc # "off" /\ (Active(q)' => signed[f].id <= proc'[q].last)
    <3>1. /\ signed[f].id \in Nat /\ proc[q].pc # "off"
          /\ Active(q) => signed[f].id <= proc[q].last
      <4>1. signed[f] \in SignedType
        BY <1>1 DEF n
      <4>2. QED
        BY <2>1, <4>1 DEF IdInv, TakenInv, SignedType
    <3>2. CASE q # p
      BY <1>3, <3>1, <3>2 DEF Active
    <3>3. CASE q = p
      <4>1. Active(p)' => signed[f].id <= old
        BY <1>3, <3>1, <3>3 DEF Active, old
      <4>2. Active(p)' => signed[f].id <= id
        BY <1>6, <1>7, <3>1, <4>1
      <4>3. QED
        BY <1>3, <3>1, <3>3, <4>2
    <3>4. QED
      BY <3>2, <3>3
  <2>2. ASSUME NEW q \in Procs
        PROVE  proc'[q].last + IdsLeft(Len(signed)) < MaxIndex + proc'[q].unsent
    BY <1>3, <1>8 DEF IdInv, TakenInv, n
  <2>3. QED
    BY <1>2, <2>1, <2>2 DEF TakenInv, IdsLeft
<1>10. ApartInv'
  BY <1>2 DEF IdInv, ApartInv
<1>11. QED
  BY <1>9, <1>10 DEF IdInv

(* A frame is signed: its id is beyond all ids of its process, and what    *)
(* other processes signed neither rests nor can come to rest, since this   *)
(* process has used up a nonce and verified a flat book before it trades.  *)
LEMMA SendTakes ==
    ASSUME SetLeverage, ~RefreshMayFail, ClockFits, SessionInv, SessionInv', IdInv,
           NEW p \in Procs, NEW now \in Clock, Send(p, now)
    PROVE  IdInv'
<1> DEFINE old == proc[p].last
           id == NextClientOrderIndex(old, now)
           u == proc[p].unsent
           n == Len(signed)
           m == IF proc[p].ahead < 0 THEN Used ELSE proc[p].ahead
           new == [by |-> p, id |-> id, nonce |-> m]
<1>1. /\ proc \in [Procs -> ProcType] /\ signed \in Seq(SignedType)
      /\ n \in 0 .. MaxFrames /\ MaxFrames \in Nat /\ DOMAIN signed = 1 .. n
      /\ n < MaxFrames /\ u \in 0 .. MaxUnsent /\ old \in 0 .. MaxIndex
  BY Shapes DEF ProcType, Send
<1>2. /\ signed' = Append(signed, new) /\ resting' = resting /\ proc[p].pc = "trade"
      /\ proc' = [proc EXCEPT ![p].pc = "sent", ![p].ahead = @ + 1, ![p].last = id,
                              ![p].unsent = 0]
  BY DEF Send, In
<1>3. /\ proc'[p].last = id /\ proc'[p].unsent = 0 /\ proc'[p].pc = "sent"
      /\ \A q \in Procs : q # p => proc'[q] = proc[q]
  BY <1>1, <1>2 DEF ProcType
<1>4. /\ MaxIndex \in Nat /\ MaxUnsent \in Nat /\ IdsLeft(n) \in Nat /\ IdsLeft(n + 1) \in Nat
      /\ IdsLeft(n + 1) = IdsLeft(n) - (MaxUnsent + 1)
      /\ now \in 0 .. MaxIndex - 1 /\ now + IdsLeft(n) < MaxIndex
  <2>1. MaxIndex \in Nat /\ MaxUnsent \in Nat
    BY SessionAssumption DEF SessionAssumption
  <2>2. IdsLeft(n) \in Nat /\ IdsLeft(n + 1) = IdsLeft(n) - (MaxUnsent + 1) /\ IdsLeft(n + 1) \in Nat
    BY <1>1, IdsLeftFacts
  <2>3. now \in 0 .. MaxIndex - 1 /\ now + IdsLeft(n) < MaxIndex
    BY <1>1, IdsFit
  <2>4. QED
    BY <2>1, <2>2, <2>3
<1>5. old + IdsLeft(n) < MaxIndex + u
  BY DEF IdInv, TakenInv
<1>6. /\ Len(signed') = n + 1 /\ DOMAIN signed' = 1 .. n + 1 /\ signed'[n + 1] = new
      /\ \A f \in 1 .. n : signed'[f] = signed[f]
  <2> HIDE DEF new
  <2>1. QED
    BY <1>1, <1>2, AppendProperties
<1>7. /\ \A f \in 1 .. n : signed[f].by # p => signed[f].nonce = Used
      /\ \A f \in resting : signed[f].by = p
  <2>1. Started(p) /\ proc[p].pc \in Cleared
    BY <1>2 DEF SessionInv, StartInv, Trading, Cleared
  <2>2. QED
    BY <1>1, <2>1, Parts
<1>8. new.by = p /\ new.id = id
  OBVIOUS
<1> HIDE DEF n, u, old, new
<1>9. old \in 0 .. MaxIndex - 1
  BY <1>1, <1>4, <1>5
<1>10. id > old /\ (id = old + 1 \/ id = now) /\ id \in Nat
  BY <1>4, <1>9, NextIdGrows
<1> HIDE DEF id
<1>11. id + IdsLeft(n + 1) < MaxIndex + 0
  BY <1>1, <1>4, <1>5, <1>10
<1>12. ASSUME NEW q \in Procs, NEW f \in 1 .. n, signed[f].by = q
       PROVE  /\ proc[q].pc # "off" /\ (Active(q) => signed[f].id <= proc[q].last)
              /\ signed[f].id \in Nat /\ (q = p => signed[f].id < id)
  <2>1. /\ signed[f].id \in Nat /\ proc[q].pc # "off"
        /\ Active(q) => signed[f].id <= proc[q].last
    <3>1. signed[f] \in SignedType /\ f \in DOMAIN signed
      BY <1>1 DEF n
    <3>2. QED
      BY <1>12, <3>1 DEF IdInv, TakenInv, SignedType
  <2>2. ASSUME q = p PROVE signed[f].id <= old
    BY <1>2, <2>1, <2>2 DEF Active, old
  <2>3. q = p => signed[f].id < id
    BY <1>9, <1>10, <2>1, <2>2
  <2>4. QED
    BY <2>1, <2>3
<1>13. TakenInv'
  <2>1. ASSUME NEW q \in Procs, NEW f \in 1 .. n + 1, signed'[f].by = q
        PROVE  proc'[q].pc # "off" /\ (Active(q)' => signed'[f].id <= proc'[q].last)
    <3>1. CASE f = n + 1
      BY <1>3, <1>6, <1>8, <1>10, <2>1, <3>1
    <3>2. CASE f # n + 1
      <4>1. f \in 1 .. n /\ signed'[f] = signed[f] /\ signed[f].by = q
        BY <1>1, <1>6, <2>1, <3>2
      <4>2. CASE q = p
        BY <1>3, <1>10, <1>12, <4>1, <4>2
      <4>3. CASE q # p
        BY <1>3, <1>12, <4>1, <4>3 DEF Active
      <4>4. QED
        BY <4>2, <4>3
    <3>3. QED
      BY <3>1, <3>2
  <2>2. ASSUME NEW q \in Procs
        PROVE  proc'[q].last + IdsLeft(n + 1) < MaxIndex + proc'[q].unsent
    <3>1. CASE q = p
      BY <1>3, <1>11, <3>1
    <3>2. CASE q # p
      <4>1. /\ proc[q].last + IdsLeft(n) < MaxIndex + proc[q].unsent
            /\ proc[q].last \in Nat /\ proc[q].unsent \in Nat
        BY <1>1 DEF IdInv, TakenInv, ProcType, n
      <4>2. proc[q].last + IdsLeft(n + 1) < MaxIndex + proc[q].unsent
        BY <1>4, <4>1
      <4>3. QED
        BY <1>3, <3>2, <4>2
    <3>3. QED
      BY <3>1, <3>2
  <2>3. QED
    BY <1>6, <2>1, <2>2 DEF TakenInv, IdsLeft
<1>14. ApartInv'
  <2>1. ASSUME NEW f \in 1 .. n + 1, NEW g \in 1 .. n + 1, f < g,
               signed'[f].by = signed'[g].by
        PROVE  signed'[f].id < signed'[g].id
    <3>1. f \in 1 .. n /\ signed'[f] = signed[f]
      BY <1>1, <1>6, <2>1
    <3>2. CASE g = n + 1
      BY <1>6, <1>8, <1>12, <2>1, <3>1, <3>2
    <3>3. CASE g # n + 1
      <4>1. g \in 1 .. n /\ signed'[g] = signed[g]
        BY <1>1, <1>6, <3>3
      <4>2. QED
        BY <1>1, <2>1, <3>1, <4>1 DEF IdInv, ApartInv
    <3>4. QED
      BY <3>2, <3>3
  <2>2. ASSUME NEW f \in 1 .. n + 1, signed'[f].by # signed'[n + 1].by
        PROVE  signed'[f].nonce = Used /\ f \notin resting'
    <3>1. f \in 1 .. n /\ signed'[f] = signed[f] /\ signed[f].by # p
      BY <1>1, <1>6, <1>8, <2>2
    <3>2. QED
      BY <1>2, <1>7, <3>1
  <2>3. QED
    BY <1>6, <2>1, <2>2 DEF ApartInv
<1>15. QED
  BY <1>13, <1>14 DEF IdInv

(* A nonce used up or a frame made void changes no owner and no id.        *)
LEMMA FramesKeepIds ==
    ASSUME signed \in Seq(SignedType),
           \/ signed' = signed
           \/ signed' = Consume(signed)
           \/ \E f \in DOMAIN signed : signed' = [signed EXCEPT ![f].nonce = Used]
    PROVE  /\ Len(signed') = Len(signed)
           /\ \A f \in DOMAIN signed :
                /\ signed'[f].by = signed[f].by /\ signed'[f].id = signed[f].id
                /\ signed[f].nonce = Used => signed'[f].nonce = Used
<1>1. DOMAIN signed = 1 .. Len(signed) /\ \A f \in 1 .. Len(signed) : signed[f] \in SignedType
  OBVIOUS
<1>2. CASE signed' = signed
  BY <1>2
<1>3. CASE signed' = Consume(signed)
  <2>1. Len(signed') = Len(signed)
    BY <1>3, ConsumeFacts
  <2>2. ASSUME NEW f \in DOMAIN signed
        PROVE  /\ signed'[f].by = signed[f].by /\ signed'[f].id = signed[f].id
               /\ signed[f].nonce = Used => signed'[f].nonce = Used
    <3>1. signed'[f] = [signed[f] EXCEPT !.nonce = Closer(@)] /\ signed[f] \in SignedType
      BY <1>1, <1>3 DEF Consume
    <3>2. QED
      BY <3>1 DEF SignedType, Closer
  <2>3. QED
    BY <2>1, <2>2
<1>4. ASSUME NEW f \in DOMAIN signed, signed' = [signed EXCEPT ![f].nonce = Used]
      PROVE  /\ Len(signed') = Len(signed)
             /\ \A g \in DOMAIN signed :
                  /\ signed'[g].by = signed[g].by /\ signed'[g].id = signed[g].id
                  /\ signed[g].nonce = Used => signed'[g].nonce = Used
  <2> DEFINE e == [signed[f] EXCEPT !.nonce = Used]
  <2>1. f \in 1 .. Len(signed) /\ signed[f] \in SignedType
    BY <1>1
  <2>2. /\ e \in SignedType /\ e.by = signed[f].by /\ e.id = signed[f].id /\ e.nonce = Used
    BY <2>1 DEF SignedType
  <2>3. signed' = [signed EXCEPT ![f] = e]
    BY <1>4
  <2> HIDE DEF e
  <2>4. /\ Len(signed') = Len(signed)
        /\ \A g \in 1 .. Len(signed) : signed'[g] = IF g = f THEN e ELSE signed[g]
    BY <2>1, <2>2, <2>3, ExceptSeq
  <2>5. QED
    BY <1>1, <2>2, <2>4
<1>5. QED
  BY <1>2, <1>3, <1>4

(* One process moves or is gone; the others at most fall behind.           *)
LEMMA OthersSteady ==
    ASSUME proc \in [Procs -> ProcType], NEW p \in Procs, Steady(p) \/ Gone(p),
           \A q \in Procs : q # p => proc'[q] = proc[q] \/ proc'[q] = Behind(proc)[q]
    PROVE  \A q \in Procs : Steady(q) \/ Gone(q)
<1>1. ASSUME NEW q \in Procs, proc'[q] = proc[q] PROVE Steady(q)
  BY <1>1 DEF Steady
<1>2. ASSUME NEW q \in Procs, proc'[q] = Behind(proc)[q] PROVE Steady(q)
  <2>1. proc'[q] = IF proc[q].pc \in {"off", "dead"} THEN proc[q]
                   ELSE [proc[q] EXCEPT !.ahead = @ - 1]
    BY <1>2 DEF Behind
  <2>2. proc[q] \in ProcType
    OBVIOUS
  <2>3. QED
    BY <2>1, <2>2 DEF Steady, ProcType
<1>3. QED
  BY <1>1, <1>2

(* The end of a process leaves frames and book alone.                      *)
LEMMA ExitTakesNone ==
    ASSUME SessionInv, NEW p \in Procs, Exit(p)
    PROVE  NoIdTaken
<1>1. proc \in [Procs -> ProcType] /\ signed \in Seq(SignedType) /\ signed' = signed
  BY Shapes DEF Exit
<1>2. Gone(p) /\ \A q \in Procs : q # p => proc'[q] = proc[q]
  BY <1>1 DEF Exit, Gone
<1>3. \A q \in Procs : Steady(q) \/ Gone(q)
  BY <1>1, <1>2, OthersSteady
<1>4. QED
  BY <1>1, <1>3, FramesKeepIds DEF NoIdTaken, Exit

(* A step of one process between two places.                               *)
LEMMA MoveTakesNone ==
    ASSUME SessionInv, NEW p \in Procs, proc[p].pc # "dead", proc'[p].pc # "off",
           proc'[p].last = proc[p].last, proc'[p].unsent = proc[p].unsent,
           \A q \in Procs : q # p => proc'[q] = proc[q] \/ proc'[q] = Behind(proc)[q],
           signed' = signed \/ signed' = Consume(signed),
           resting' = resting \/ resting' = {}
    PROVE  NoIdTaken
<1>1. proc \in [Procs -> ProcType] /\ signed \in Seq(SignedType)
  BY Shapes
<1>2. Steady(p)
  BY DEF Steady
<1>3. \A q \in Procs : Steady(q) \/ Gone(q)
  BY <1>1, <1>2, OthersSteady
<1>4. QED
  BY <1>1, <1>3, FramesKeepIds DEF NoIdTaken

(* Lock, nonce, leverage, connection.                                      *)
LEMMA StartupTakesNone ==
    ASSUME SessionInv, NEW p \in Procs, Acquire(p) \/ Startup(p)
    PROVE  NoIdTaken
<1>1. /\ proc \in [Procs -> ProcType] /\ signed \in Seq(SignedType)
      /\ proc[p] \in ProcType
  BY Shapes
<1>2. CASE Acquire(p)
  <2>1. PICK pc \in {"nonce", "dead"} : proc' = [proc EXCEPT ![p].pc = pc]
    BY <1>2 DEF Acquire, Move
  <2>2. /\ proc'[p].pc # "off" /\ proc'[p].last = proc[p].last /\ proc'[p].unsent = proc[p].unsent
        /\ \A q \in Procs : q # p => proc'[q] = proc[q]
    BY <1>1, <2>1 DEF ProcType
  <2>3. proc[p].pc # "dead" /\ UNCHANGED <<signed, resting>>
    BY <1>2 DEF Acquire, Due, In
  <2>4. QED
    BY <2>2, <2>3, MoveTakesNone
<1>3. CASE InitNonce(p)
  <2>1. PICK pc \in {"leverage", "connect"} : proc' = [proc EXCEPT ![p].ahead = 0, ![p].pc = pc]
    BY <1>3 DEF InitNonce
  <2>2. /\ proc'[p].pc # "off" /\ proc'[p].last = proc[p].last /\ proc'[p].unsent = proc[p].unsent
        /\ \A q \in Procs : q # p => proc'[q] = proc[q]
    BY <1>1, <2>1 DEF ProcType
  <2>3. proc[p].pc # "dead" /\ UNCHANGED <<signed, resting>>
    BY <1>3 DEF InitNonce, In
  <2>4. QED
    BY <2>2, <2>3, MoveTakesNone
<1>4. CASE Bail(p)
  BY <1>4, ExitTakesNone DEF Bail
<1>5. CASE UpdateLeverage(p)
  <2>1. /\ proc' = [Behind(proc) EXCEPT ![p] = [proc[p] EXCEPT !.pc = "connect"]]
        /\ proc[p].pc # "dead" /\ signed' = Consume(signed) /\ UNCHANGED resting
    BY <1>5 DEF UpdateLeverage, In
  <2>2. DOMAIN Behind(proc) = Procs
    BY DEF Behind
  <2>3. /\ proc'[p] = [proc[p] EXCEPT !.pc = "connect"]
        /\ \A q \in Procs : q # p => proc'[q] = Behind(proc)[q]
    BY <2>1, <2>2
  <2>4. proc'[p].pc # "off" /\ proc'[p].last = proc[p].last /\ proc'[p].unsent = proc[p].unsent
    BY <1>1, <2>3 DEF ProcType
  <2>5. QED
    BY <2>1, <2>3, <2>4, MoveTakesNone
<1>6. CASE UpdateLeverageUnanswered(p)
  <2>1. /\ proc' = [Behind(proc) EXCEPT ![p] = [Off EXCEPT !.pc = "dead"]]
        /\ signed' = Consume(signed) /\ UNCHANGED resting
    BY <1>6 DEF UpdateLeverageUnanswered
  <2>2. DOMAIN Behind(proc) = Procs
    BY DEF Behind
  <2>3. Gone(p) /\ \A q \in Procs : q # p => proc'[q] = Behind(proc)[q]
    BY <2>1, <2>2 DEF Gone
  <2>4. \A q \in Procs : Steady(q) \/ Gone(q)
    BY <1>1, <2>3, OthersSteady
  <2>5. QED
    BY <1>1, <2>1, <2>4, FramesKeepIds DEF NoIdTaken
<1>7. ASSUME NEW ok \in BOOLEAN, Connect(p, ok) PROVE NoIdTaken
  <2>1. /\ proc' = [proc EXCEPT ![p].pc = "cancel"] /\ proc[p].pc # "dead"
        /\ UNCHANGED <<signed, resting>>
    BY <1>7 DEF Connect, Move, In
  <2>2. /\ proc'[p].pc # "off" /\ proc'[p].last = proc[p].last /\ proc'[p].unsent = proc[p].unsent
        /\ \A q \in Procs : q # p => proc'[q] = proc[q]
    BY <1>1, <2>1 DEF ProcType
  <2>3. QED
    BY <2>1, <2>2, MoveTakesNone
<1>8. QED
  BY <1>2, <1>3, <1>4, <1>5, <1>6, <1>7 DEF Startup

(* The cancel-all and its verification.                                    *)
LEMMA CancelTakesNone ==
    ASSUME SessionInv, NEW p \in Procs, CancelAllAndVerify(p)
    PROVE  NoIdTaken
<1>1. /\ proc \in [Procs -> ProcType] /\ signed \in Seq(SignedType)
      /\ proc[p] \in ProcType
  BY Shapes
<1>2. CASE CancelAll(p)
  <2>1. /\ proc' = [Behind(proc) EXCEPT ![p] = [proc[p] EXCEPT !.pc = "verify"]]
        /\ proc[p].pc # "dead" /\ signed' = Consume(signed) /\ resting' = {}
    BY <1>2 DEF CancelAll, In
  <2>2. DOMAIN Behind(proc) = Procs
    BY DEF Behind
  <2>3. /\ proc'[p] = [proc[p] EXCEPT !.pc = "verify"]
        /\ \A q \in Procs : q # p => proc'[q] = Behind(proc)[q]
    BY <2>1, <2>2
  <2>4. proc'[p].pc # "off" /\ proc'[p].last = proc[p].last /\ proc'[p].unsent = proc[p].unsent
    BY <1>1, <2>3 DEF ProcType
  <2>5. QED
    BY <2>1, <2>3, <2>4, MoveTakesNone
<1>3. ASSUME NEW reached \in BOOLEAN, NEW refreshed \in BOOLEAN,
             CancelAllFails(p, reached, refreshed)
      PROVE  NoIdTaken
  <2> DEFINE after == IF reached THEN Behind(proc) ELSE proc
             n == IF refreshed THEN 0 ELSE after[p].ahead + 1
  <2>1. /\ after \in [Procs -> ProcType]
        /\ after[p].last = proc[p].last /\ after[p].unsent = proc[p].unsent
    <3>1. Behind(proc)[p].last = proc[p].last /\ Behind(proc)[p].unsent = proc[p].unsent
      BY <1>1 DEF Behind, ProcType
    <3>2. QED
      BY <1>1, <3>1, BehindFacts
  <2>2. /\ proc' = [after EXCEPT ![p].ahead = n, ![p].pc = "verify"]
        /\ proc[p].pc # "dead" /\ (signed' = signed \/ signed' = Consume(signed))
        /\ (resting' = resting \/ resting' = {})
    BY <1>3 DEF CancelAllFails, In
  <2>3. \A q \in Procs : after[q] = proc[q] \/ after[q] = Behind(proc)[q]
    OBVIOUS
  <2> HIDE DEF n, after
  <2>4. /\ proc'[p].pc = "verify" /\ proc'[p].last = after[p].last
        /\ proc'[p].unsent = after[p].unsent
        /\ \A q \in Procs : q # p => proc'[q] = after[q]
    BY <2>1, <2>2 DEF ProcType
  <2>5. proc'[p].pc # "off" /\ \A q \in Procs : q # p => proc'[q] = proc[q] \/ proc'[q] = Behind(proc)[q]
    BY <2>3, <2>4
  <2>6. QED
    BY <2>1, <2>2, <2>4, <2>5, MoveTakesNone
<1>4. ASSUME VerifiedFlat(p) \/ NotFlat(p), ~Exit(p) PROVE NoIdTaken
  <2>1. /\ proc[p].pc # "dead" /\ UNCHANGED <<signed, resting>>
        /\ \/ proc' = [proc EXCEPT ![p].pc = "trade", ![p].tries = 0, ![p].why = "unknown"]
           \/ proc' = [proc EXCEPT ![p].tries = @ + 1, ![p].pc = "cancel"]
           \/ proc' = [proc EXCEPT ![p].tries = 0, ![p].pc = "trade"]
    BY <1>4 DEF VerifiedFlat, NotFlat, In
  <2>2. /\ proc'[p].pc # "off" /\ proc'[p].last = proc[p].last /\ proc'[p].unsent = proc[p].unsent
        /\ \A q \in Procs : q # p => proc'[q] = proc[q]
    BY <1>1, <2>1 DEF ProcType
  <2>3. QED
    BY <2>1, <2>2, MoveTakesNone
<1>5. QED
  BY <1>2, <1>3, <1>4, ExitTakesNone DEF CancelAllAndVerify

(* The rest of the trading loop, and the crash.                            *)
LEMMA TradingTakesNone ==
    ASSUME SessionInv, NEW p \in Procs, Settle(p) \/ Resync(p) \/ Shutdown(p) \/ Crash(p)
    PROVE  NoIdTaken
<1>1. /\ proc \in [Procs -> ProcType] /\ signed \in Seq(SignedType)
      /\ proc[p] \in ProcType
  BY Shapes
<1>2. CASE Crash(p)
  BY <1>2, ExitTakesNone DEF Crash
<1>3. CASE Settle(p) \/ Resync(p)
  <2>1. PICK pc \in {"unknown", "resync", "trade", "cancel"} : \E n :
          proc' = [proc EXCEPT ![p].ahead = n, ![p].pc = pc]
    BY <1>3 DEF Settle, Resync
  <2>2. /\ proc'[p].pc # "off" /\ proc'[p].last = proc[p].last /\ proc'[p].unsent = proc[p].unsent
        /\ \A q \in Procs : q # p => proc'[q] = proc[q]
    BY <1>1, <2>1 DEF ProcType
  <2>3. proc[p].pc # "dead" /\ UNCHANGED <<signed, resting>>
    BY <1>3 DEF Settle, Resync, In
  <2>4. QED
    BY <2>2, <2>3, MoveTakesNone
<1>4. CASE Shutdown(p)
  <2>1. proc' = [proc EXCEPT ![p].pc = "cancel", ![p].why = "exit"]
    BY <1>4 DEF Shutdown
  <2>2. /\ proc'[p].pc # "off" /\ proc'[p].last = proc[p].last /\ proc'[p].unsent = proc[p].unsent
        /\ \A q \in Procs : q # p => proc'[q] = proc[q]
    BY <1>1, <2>1 DEF ProcType
  <2>3. proc[p].pc # "dead" /\ UNCHANGED <<signed, resting>>
    BY <1>4 DEF Shutdown, In
  <2>4. QED
    BY <2>2, <2>3, MoveTakesNone
<1>5. QED
  BY <1>2, <1>3, <1>4

(* The exchange: what comes to rest had the expected nonce.                *)
LEMMA ExchangeTakesNone ==
    ASSUME SessionInv, Exchange
    PROVE  NoIdTaken
<1>1. proc \in [Procs -> ProcType] /\ signed \in Seq(SignedType)
  BY Shapes
<1>2. PICK f \in DOMAIN signed :
        Accept(f) \/ Limit(f) \/ Drop(f) \/ \E c \in BOOLEAN : Reject(f, c)
  BY DEF Exchange
<1>3. /\ \/ signed' = signed
         \/ signed' = Consume(signed)
         \/ signed' = [signed EXCEPT ![f].nonce = Used]
      /\ proc' = proc \/ proc' = Behind(proc)
      /\ resting' = resting \/ (resting' = resting \cup {f} /\ signed[f].nonce = 0)
  BY <1>2 DEF Accept, Limit, Drop, Reject
<1>4. \A q \in Procs : Steady(q) \/ Gone(q)
  <2>1. ASSUME NEW q \in Procs PROVE Steady(q)
    <3>1. CASE proc' = proc
      BY <3>1 DEF Steady
    <3>2. CASE proc' = Behind(proc)
      <4>1. proc'[q] = IF proc[q].pc \in {"off", "dead"} THEN proc[q]
                       ELSE [proc[q] EXCEPT !.ahead = @ - 1]
        BY <3>2 DEF Behind
      <4>2. proc[q] \in ProcType
        BY <1>1
      <4>3. QED
        BY <4>1, <4>2 DEF Steady, ProcType
    <3>3. QED
      BY <1>3, <3>1, <3>2
  <2>2. QED
    BY <2>1
<1>5. /\ Len(signed') = Len(signed)
      /\ \A g \in DOMAIN signed :
           /\ signed'[g].by = signed[g].by /\ signed'[g].id = signed[g].id
           /\ signed[g].nonce = Used => signed'[g].nonce = Used
  BY <1>1, <1>3, FramesKeepIds
<1>6. resting' \subseteq resting \cup {g \in DOMAIN signed : signed[g].nonce = 0}
  BY <1>3
<1>7. QED
  BY <1>4, <1>5, <1>6 DEF NoIdTaken

(* Every step keeps the ids apart.                                         *)
LEMMA IdStep ==
    ASSUME SetLeverage, ~RefreshMayFail, ClockFits, SessionInv, SessionInv', IdInv, [Next]_vars
    PROVE  IdInv'
<1>1. ASSUME UNCHANGED sessionVars PROVE IdInv'
  <2>1. UNCHANGED <<proc, signed, resting>>
    BY <1>1 DEF sessionVars
  <2>2. QED
    BY <2>1 DEF IdInv, TakenInv, ApartInv, Active, IdsLeft
<1>2. CASE UNCHANGED vars
  BY <1>1, <1>2 DEF vars
<1>3. ASSUME NEW p \in Procs, Sender(p) \/ Background(p) PROVE IdInv'
  BY <1>1, <1>3 DEF Sender, Background
<1>4. ASSUME NEW p \in Procs, NEW now \in Clock, CollectUnsent(p, now) \/ Send(p, now) PROVE IdInv'
  BY <1>4, CollectTakes, SendTakes
<1>5. ASSUME NEW p \in Procs,
             \/ Acquire(p) \/ Startup(p) \/ CancelAllAndVerify(p)
             \/ Settle(p) \/ Resync(p) \/ Shutdown(p) \/ Crash(p)
      PROVE  IdInv'
  BY <1>5, IdsKept, StartupTakesNone, CancelTakesNone, TradingTakesNone
<1>6. CASE Exchange
  BY <1>6, IdsKept, ExchangeTakesNone
<1>7. QED
  BY <1>2, <1>3, <1>4, <1>5, <1>6 DEF Next

(* No id is taken yet.                                                     *)
LEMMA InitIds ==
    ASSUME ClockFits, Init PROVE IdInv
<1>1. proc = [p \in Procs |-> Off] /\ signed = <<>> /\ MaxFrames \in Nat /\ MaxIndex \in Nat
  BY ChannelAssumption, SessionAssumption DEF Init, ChannelAssumption, SessionAssumption
<1>2. DOMAIN signed = {} /\ Len(signed) = 0
  BY <1>1
<1>3. IdsLeft(0) < MaxIndex /\ IdsLeft(0) \in Nat
  <2>1. 0 \in 0 .. MaxFrames
    BY <1>1
  <2>2. QED
    BY <1>1, <2>1, IdsFit, IdsLeftFacts
<1>4. \A p \in Procs : proc[p].last = 0 /\ proc[p].unsent = 0
  BY <1>1 DEF Off
<1>5. ASSUME NEW p \in Procs
      PROVE  proc[p].last + IdsLeft(Len(signed)) < MaxIndex + proc[p].unsent
  <2>1. IdsLeft(Len(signed)) < MaxIndex /\ IdsLeft(Len(signed)) \in Nat
    BY <1>2, <1>3
  <2>2. proc[p].last = 0 /\ proc[p].unsent = 0
    BY <1>4
  <2>3. QED
    BY <1>1, <2>1, <2>2
<1>6. QED
  BY <1>2, <1>5 DEF IdInv, TakenInv, ApartInv

(* next_client_order_index: orders that rest together have different ids,  *)
(* none of them the wildcard 0, whether the clock stands still or runs     *)
(* backwards, and with frames of crashed processes under way - as long as  *)
(* it is not about to reach MAX_CLIENT_ORDER_INDEX.                        *)
THEOREM IdsStayApart ==
    ASSUME SetLeverage, ~RefreshMayFail, ClockFits
    PROVE  Spec => []IdsAreUsable
<1>1. SessionInv /\ IdInv => IdsAreUsable
  <2> SUFFICES ASSUME SessionInv, IdInv, NEW f \in resting
               PROVE  /\ signed[f].id # 0
                      /\ \A g \in resting \ {f} : signed[g].id # signed[f].id
    BY DEF IdsAreUsable
  <2>1. /\ signed \in Seq(SignedType) /\ DOMAIN signed = 1 .. Len(signed)
        /\ resting \subseteq DOMAIN signed
    BY Shapes DEF SessionInv, TypeOK
  <2>2. \A g \in resting : g \in 1 .. Len(signed) /\ signed[g].id \in 1 .. MaxIndex
    <3>1. \A g \in DOMAIN signed : signed[g] \in SignedType
      BY <2>1
    <3>2. QED
      BY <2>1, <3>1 DEF SignedType
  <2>3. \A g \in resting : signed[g].by = signed[Len(signed)].by
    BY <2>1 DEF IdInv, ApartInv
  <2>4. ASSUME NEW g \in resting, g # f PROVE signed[g].id # signed[f].id
    <3>1. f \in DOMAIN signed /\ g \in DOMAIN signed /\ signed[f].by = signed[g].by
      BY <2>1, <2>3
    <3>2. f < g \/ g < f
      BY <2>2, <2>4
    <3>3. signed[f].id < signed[g].id \/ signed[g].id < signed[f].id
      BY <3>1, <3>2 DEF IdInv, ApartInv
    <3>4. MaxIndex \in Nat
      BY SessionAssumption DEF SessionAssumption
    <3>5. QED
      BY <2>2, <3>3, <3>4
  <2>5. signed[f].id # 0
    BY <2>2
  <2>6. QED
    BY <2>4, <2>5
<1>2. Init => SessionInv /\ IdInv
  BY InitInv, InitIds
<1>3. SessionInv /\ SessionInv' /\ IdInv /\ [Next]_vars => IdInv'
  BY IdStep
<1>4. QED
  BY <1>1, <1>2, <1>3, SessionInvariantHolds, PTL DEF Spec

-----------------------------------------------------------------------------
(* THE REFINEMENT                                                          *)

(* The fate of the frames as the caller of send_batch can know it.         *)
Executed == [f \in Frames |-> IF fate[f] \in Verdicts THEN fate[f] ELSE "open"]

(* A step that executes no frame shows the caller nothing.                 *)
LEMMA NothingExecuted ==
    ASSUME SessionInv, NEW g,
           fate' = fate \/ (/\ fate[g] \notin Verdicts
                           /\ \E v : v \notin Verdicts /\ fate' = [fate EXCEPT ![g] = v])
    PROVE  UNCHANGED Executed
<1>1. fate \in [Frames -> Fates]
  BY Shapes
<1>2. ASSUME NEW f \in Frames
      PROVE  fate'[f] = fate[f] \/ (fate[f] \notin Verdicts /\ fate'[f] \notin Verdicts)
  BY <1>1
<1>3. QED
  BY <1>2 DEF Executed

(* send_batch returns: the report is about the caller's own frame.         *)
LEMMA ReturnRefines ==
    ASSUME SessionInv, SessionInv', NEW p \in Procs, call[p].pc # "idle",
           NEW o \in Reports \ {"none"}, Return(p, o), UNCHANGED Executed
    PROVE  Channel!Next
<1> DEFINE f == call[p].frame
<1>1. f \in Frames /\ outcome[f] = "none" /\ outcome \in [Frames -> Reports]
  BY Shapes DEF CallOK
<1>2. outcome' = [outcome EXCEPT ![f] = o] /\ outcome'[f] = o
  BY <1>1 DEF Return
<1>3. /\ o \in Verdicts => fate'[f] = o
      /\ o = "NotSent" => fate'[f] = "unwritten"
  <2>1. \A g \in Frames : FrameOK(g)'
    BY DEF SessionInv, WsInv
  <2>2. QED
    BY <1>1, <1>2, <2>1 DEF FrameOK
<1>4. /\ o \in Verdicts => o = Executed[f]
      /\ o = "NotSent" => Executed[f] = "open"
  <2>1. Executed'[f] = IF fate'[f] \in Verdicts THEN fate'[f] ELSE "open"
    BY <1>1 DEF Executed
  <2>2. QED
    BY <1>3, <2>1 DEF Verdicts
<1>5. Channel!Report(f, o)
  BY <1>1, <1>2, <1>4 DEF Channel!Report, Channel!Verdicts, Verdicts, Executed
<1>6. o \in Channel!Outcomes
  BY DEF Reports, Verdicts, Channel!Outcomes, Channel!Verdicts
<1>7. QED
  BY <1>1, <1>5, <1>6 DEF Channel!Next

(* send_batch and the REST path.                                           *)
LEMMA WsStepRefines ==
    ASSUME SessionInv, SessionInv', NEW p \in Procs, WsStep(p)
    PROVE  Channel!Next \/ UNCHANGED <<Executed, outcome>>
<1> DEFINE f == call[p].frame
<1>1. call[p].pc # "idle"
  BY DEF WsStep, At, Open, OpenFails, Drain, Write, WriteFails, TakeAnswer, Disconnected,
         TimedOut, RestAnswer, RestFails
<1>2. /\ link[p] \in ConnType /\ CallOK(p) /\ outcome \in [Frames -> Reports]
      /\ fate \in [Frames -> Fates] /\ f \in Frames
  BY <1>1, Shapes
<1>3. {"NotSent", "Unknown"} \cup Verdicts \subseteq Reports \ {"none"}
  BY DEF Reports, Verdicts
<1>4. CASE Open(p) \/ Drain(p)
  BY <1>4, NothingExecuted DEF Open, Drain
<1>5. CASE Write(p)
  <2>1. fate[f] = "unwritten" /\ fate' = [fate EXCEPT ![f] = "written"] /\ UNCHANGED outcome
    BY <1>2, <1>5 DEF Write, At, CallOK
  <2>2. QED
    BY <2>1, NothingExecuted DEF Verdicts
<1>6. ASSUME NEW left \in BOOLEAN, WriteFails(p, left)
      PROVE  Channel!Next
  <2>1. /\ fate[f] = "unwritten" /\ Return(p, "Unknown")
        /\ fate' = [fate EXCEPT ![f] = IF left THEN "written" ELSE "lost"]
    BY <1>2, <1>6 DEF WriteFails, At, CallOK
  <2>2. UNCHANGED Executed
    <3>1. (IF left THEN "written" ELSE "lost") \notin Verdicts /\ fate[f] \notin Verdicts
      BY <2>1 DEF Verdicts
    <3>2. QED
      BY <2>1, <3>1, NothingExecuted
  <2>3. QED
    BY <1>1, <1>3, <2>1, <2>2, ReturnRefines
<1>7. CASE TakeAnswer(p)
  <2>1. Return(p, Head(link[p].resp)) /\ fate' = fate /\ link[p].resp # <<>>
    BY <1>7 DEF TakeAnswer
  <2>2. link[p].resp \in Seq(Verdicts)
    BY <1>2 DEF ConnType
  <2>3. Head(link[p].resp) \in Verdicts
    BY <2>1, <2>2, HeadTailProperties
  <2>4. QED
    BY <1>1, <1>3, <2>1, <2>3, NothingExecuted, ReturnRefines
<1>8. CASE OpenFails(p)
  <2>1. Return(p, "NotSent") /\ fate' = fate
    BY <1>8 DEF OpenFails
  <2>2. QED
    BY <1>1, <1>3, <2>1, NothingExecuted, ReturnRefines
<1>9. CASE Disconnected(p) \/ TimedOut(p) \/ RestFails(p)
  <2>1. Return(p, "Unknown") /\ fate' = fate
    BY <1>9 DEF Disconnected, TimedOut, RestFails
  <2>2. QED
    BY <1>1, <1>3, <2>1, NothingExecuted, ReturnRefines
<1>10. CASE RestAnswer(p)
  <2>1. Return(p, fate[f]) /\ fate' = fate /\ fate[f] \in Verdicts
    BY <1>10 DEF RestAnswer
  <2>2. QED
    BY <1>1, <1>3, <2>1, NothingExecuted, ReturnRefines
<1>11. QED
  BY <1>4, <1>5, <1>6, <1>7, <1>8, <1>9, <1>10 DEF WsStep

(* The exchange executes a frame nobody has reported as not sent.          *)
LEMMA AnswerRefines ==
    ASSUME SessionInv, NEW f \in DOMAIN signed, NEW v \in Verdicts, Answer(f, v)
    PROVE  Channel!Next
<1>1. /\ f \in Frames /\ fate \in [Frames -> Fates] /\ outcome[f] \in Reports /\ FrameOK(f)
      /\ fate[f] = "written" /\ fate' = [fate EXCEPT ![f] = v] /\ UNCHANGED outcome
  <2>1. f \in Frames /\ fate \in [Frames -> Fates] /\ outcome \in [Frames -> Reports]
    BY Shapes
  <2>2. FrameOK(f)
    BY <2>1 DEF SessionInv, WsInv
  <2>3. QED
    BY <2>1, <2>2 DEF Answer
<1>2. outcome[f] \in {"none", "Unknown"}
  BY <1>1 DEF FrameOK, Reports, Verdicts
<1>3. Executed[f] = "open"
  BY <1>1 DEF Executed, Verdicts
<1>4. Executed' = [Executed EXCEPT ![f] = v]
  BY <1>1 DEF Executed
<1>5. Channel!Execute(f, v)
  BY <1>1, <1>2, <1>3, <1>4 DEF Channel!Execute, Executed
<1>6. QED
  BY <1>1, <1>5 DEF Channel!Next, Channel!Verdicts, Verdicts

(* Every step is a step of TxChannel or changes nothing a caller sees.     *)
LEMMA StepRefines ==
    ASSUME SessionInv, SessionInv', [Next]_vars
    PROVE  [Channel!Next]_<<Executed, outcome>>
<1>1. CASE UNCHANGED <<fate, outcome>>
  BY <1>1, NothingExecuted
<1>2. ASSUME NEW p \in Procs, Sender(p) PROVE [Channel!Next]_<<Executed, outcome>>
  BY <1>2, WsStepRefines DEF Sender
<1>3. ASSUME NEW p \in Procs, NEW now \in Clock, Send(p, now)
      PROVE  [Channel!Next]_<<Executed, outcome>>
  <2> DEFINE f == Len(signed) + 1
  <2>1. f \in Frames /\ (SendBatch(p, f) \/ RestSend(p, f))
    BY <1>3 DEF Send
  <2>2. fate[f] = "unwritten"
    <3>1. FrameOK(f) /\ f > Len(signed)
      BY <2>1, Shapes DEF SessionInv, WsInv
    <3>2. QED
      BY <3>1 DEF FrameOK
  <2>3. UNCHANGED outcome /\ (fate' = fate \/ fate' = [fate EXCEPT ![f] = "written"])
    BY <2>1 DEF SendBatch, RestSend
  <2> HIDE DEF f
  <2>4. QED
    BY <2>2, <2>3, NothingExecuted DEF Verdicts
<1>4. CASE Exchange
  <2>1. PICK f \in DOMAIN signed :
          Accept(f) \/ Limit(f) \/ Drop(f) \/ \E c \in BOOLEAN : Reject(f, c)
    BY <1>4 DEF Exchange
  <2>2. CASE Drop(f)
    <3>1. fate[f] = "written" /\ fate' = [fate EXCEPT ![f] = "lost"] /\ UNCHANGED outcome
      BY <2>2 DEF Drop, Lose
    <3>2. QED
      BY <3>1, NothingExecuted DEF Verdicts
  <2>3. CASE ~Drop(f)
    <3>1. PICK v \in Verdicts : Answer(f, v)
      BY <2>1, <2>3 DEF Accept, Limit, Reject, Verdicts
    <3>2. QED
      BY <3>1, AnswerRefines
  <2>4. QED
    BY <2>2, <2>3
<1>5. ASSUME NEW p \in Procs, Acquire(p) \/ Startup(p) \/ CancelAllAndVerify(p) \/ Background(p)
      PROVE  UNCHANGED <<fate, outcome>>
  BY <1>5 DEF Acquire, Startup, InitNonce, Bail, UpdateLeverage, UpdateLeverageUnanswered, Connect,
     CancelAllAndVerify, CancelAll, VerifiedFlat, NotFlat, CancelAllFails, Exit, wsVars,
     Background, WsBackground, Route, RecvEnds, PingFails, Stray
<1>6. ASSUME NEW p \in Procs,
             \/ Settle(p) \/ Resync(p) \/ Shutdown(p) \/ Crash(p)
             \/ \E now \in Clock : CollectUnsent(p, now)
      PROVE  UNCHANGED <<fate, outcome>>
  BY <1>6 DEF Settle, Resync, Shutdown, Crash, Exit, CollectUnsent, wsVars
<1>7. CASE UNCHANGED vars
  BY <1>1, <1>7 DEF vars, wsVars
<1>8. QED
  BY <1>1, <1>2, <1>3, <1>4, <1>5, <1>6, <1>7 DEF Next

(* send_batch keeps its promise to the sender whatever timeouts,           *)
(* reconnects, half-dead sockets, left-over messages and crashes do: a     *)
(* definite outcome is the exchange's verdict on this very frame, and a    *)
(* frame reported NotSent never lands.                                     *)
THEOREM HonestOutcomes == Spec => OutcomesAreHonest
<1>1. Init => Channel!Init
  BY DEF Init, WsInit, Channel!Init, Verdicts
<1>2. SessionInv /\ SessionInv' /\ [Next]_vars => [Channel!Next]_<<Executed, outcome>>
  BY StepRefines
<1>3. QED
  BY <1>1, <1>2, SessionInvariantHolds, PTL
  DEF Spec, OutcomesAreHonest, Channel!Spec, Channel!vars, Executed
=============================================================================
