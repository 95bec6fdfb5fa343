--------------------------- MODULE CommandContract ---------------------------
(***************************************************************************)
(* What an acknowledged equipment command promises its caller, whatever    *)
(* the queues, deadlines, cancellations and lost replies in between:       *)
(*                                                                         *)
(*   - "refused" means that the command never reached the equipment, and   *)
(*     never will;                                                         *)
(*   - "ok" means that it reached it exactly as acknowledged;              *)
(*   - "unknown" promises nothing: the command may have been applied, may  *)
(*     be applied later, or may never be.                                  *)
(*                                                                         *)
(* A caller that gives up first ("dropped") never learns an outcome.       *)
(***************************************************************************)
CONSTANT Commands

VARIABLES outcome,   \* what the caller has been told
          applied    \* the commands handed to the equipment

vars == <<outcome, applied>>

Init == /\ outcome = [c \in Commands |-> "none"]
        /\ applied = {}

(* The command goes to the equipment: never after a refusal, never twice.  *)
Apply(c) == /\ c \notin applied
            /\ outcome[c] \in {"none", "unknown", "dropped"}
            /\ applied' = applied \cup {c}
            /\ UNCHANGED outcome

Tell(c, o) == /\ outcome[c] = "none"
              /\ outcome' = [outcome EXCEPT ![c] = o]
              /\ UNCHANGED applied

Refuse(c)  == c \notin applied /\ Tell(c, "refused")
Confirm(c) == c \in applied /\ Tell(c, "ok")
Lose(c)    == Tell(c, "unknown")
GiveUp(c)  == Tell(c, "dropped")

Next == \E c \in Commands :
           Apply(c) \/ Refuse(c) \/ Confirm(c) \/ Lose(c) \/ GiveUp(c)

Spec == Init /\ [][Next]_vars
=============================================================================
