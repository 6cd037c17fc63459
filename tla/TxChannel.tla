------------------------------ MODULE TxChannel -----------------------------
(***************************************************************************)
(* What send_batch promises its caller, in the words of tx_ws.rs: NotSent  *)
(* means no frame was written and a retry is safe, Unknown means a frame   *)
(* may have reached the exchange, the other outcomes are definite.         *)
(***************************************************************************)
CONSTANT Frames

VARIABLES
    fate,       \* what the exchange has done with a frame
    outcome     \* what the sender was told

Verdicts == {"Ok", "Rejected", "RateLimit"}
Outcomes == Verdicts \cup {"NotSent", "Unknown"}

vars == <<fate, outcome>>

Init ==
    /\ fate = [f \in Frames |-> "open"]
    /\ outcome = [f \in Frames |-> "none"]

(* A frame whose outcome is NotSent will not be executed any more; one     *)
(* whose outcome is Unknown may be.                                        *)
Execute(f, verdict) ==
    /\ fate[f] = "open" /\ outcome[f] \in {"none", "Unknown"}
    /\ fate' = [fate EXCEPT ![f] = verdict]
    /\ UNCHANGED outcome

(* A definite outcome is the verdict of the exchange on this very frame.   *)
Report(f, o) ==
    /\ outcome[f] = "none"
    /\ o \in Verdicts => o = fate[f]
    /\ o = "NotSent" => fate[f] = "open"
    /\ outcome' = [outcome EXCEPT ![f] = o]
    /\ UNCHANGED fate

Next ==
    \E f \in Frames :
        \/ \E v \in Verdicts : Execute(f, v)
        \/ \E o \in Outcomes : Report(f, o)

Spec == Init /\ [][Next]_vars
=============================================================================
