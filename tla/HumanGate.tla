------------------------------ MODULE HumanGate ------------------------------
(***************************************************************************)
(* What the orchestrator promises a human, with no process, checkpoint or  *)
(* file in sight: nothing is built before a person approved that very      *)
(* plan, one approval builds at most once, and a run is reported completed *)
(* (or rejected) only if a person approved (rejected) something of it.     *)
(***************************************************************************)
CONSTANTS
    Approval,    \* the approvals a run can ask for
    Buildable,   \* [Approval -> BOOLEAN]: plan approvals
    Verdict      \* the statuses a run can be reported in

VARIABLES said, built, verdict

gateVars == <<said, built, verdict>>

Kind == {"approve", "edit", "reject", "feedback"}

Said(a, kinds) == \E kind \in kinds : [approvalId |-> a, kind |-> kind] \in said

GateInit ==
    /\ said = {}
    /\ built = {}
    /\ verdict = "none"

\* A person answers an approval.
Say ==
    /\ \E a \in Approval, kind \in Kind : said' = said \cup {[approvalId |-> a, kind |-> kind]}
    /\ UNCHANGED <<built, verdict>>

\* An agent is let loose on the repository, once per approved plan.
Build ==
    /\ \E a \in Approval :
         /\ Buildable[a]
         /\ a \notin built
         /\ Said(a, {"approve", "edit"})
         /\ built' = built \cup {a}
    /\ UNCHANGED <<said, verdict>>

\* The run is reported in some status.
Report ==
    /\ verdict' \in Verdict
    /\ verdict' = "completed" => \E a \in Approval : ~ Buildable[a] /\ Said(a, {"approve"})
    /\ verdict' = "rejected" => \E a \in Approval : Said(a, {"reject"})
    /\ UNCHANGED <<said, built>>

GateNext == Say \/ Build \/ Report

GateSpec == GateInit /\ [][GateNext]_gateVars
=============================================================================
