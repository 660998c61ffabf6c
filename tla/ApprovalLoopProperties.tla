----------------------- MODULE ApprovalLoopProperties -----------------------
(***************************************************************************)
(* What should be true of the approval-gated loop.                         *)
(***************************************************************************)
EXTENDS ApprovalLoop, FiniteSets

\* Every variable holds a value of its type.
TypeOK ==
    /\ record \in Records \cup {None}
    /\ checkpoint \in Channels \cup {None}
    /\ drive \in [Proc -> Drives]
    /\ grants \in [GrantKeys -> Grants \cup {None}]
    /\ claims \subseteq GrantKeys
    /\ lock \in 1 .. MaxDrives \cup {None}
    /\ spoken \subseteq Decisions
    /\ attempts \in [GrantKeys -> Nat]
    /\ drives \in 0 .. MaxDrives

PlanKey(k) == [gate |-> "plan", iteration |-> k[1], revision |-> k[2]]

Spoke(a, kinds) == \E kind \in kinds : [approvalId |-> a, kind |-> kind] \in spoken

\* An approved plan is attempted at most once, whatever crashes, replays or
\* races: the claim marker outlives them all.
AtMostOneAttempt == \A k \in GrantKeys : attempts[k] <= 1

\* Two agents never work on the project at the same time.
OneAgentAtATime ==
    \A p, q \in Proc : drive[p].pc = "implementing" /\ drive[q].pc = "implementing" => p = q

\* The run record and the checkpoint are written apart.  Seen from a single
\* driving process that may be killed anywhere, the record never runs ahead:
\* the approval it waits for is the gate the graph is suspended at, or one the
\* graph has already passed.
RecordNeverAhead ==
    record # None /\ record.status = "awaiting_approval" =>
        \/ checkpoint.decided[record.pending] # None
        \/ /\ checkpoint.next \in DOMAIN GateOf
           /\ record.pending = approvalIdFor(GateOf[checkpoint.next], checkpoint)

\* A completed run ended on an iteration whose review a human approved and in
\* which no safety condition was observed.
CompletedIsApprovedAndSafe ==
    record # None /\ record.status = "completed" =>
        /\ ~ checkpoint.unsafe
        /\ Spoke(approvalIdFor("review", checkpoint), {"approve"})
        /\ record.iteration = checkpoint.iteration

\* A status no machine step leaves: once reported, the run stays in it.
Final == {"completed", "rejected", "incomplete", "failed"}
FinalIsFinal == [][record # None /\ record.status \in Final => record' = record]_vars

\* A drive always comes back: it stops at a gate, at the end or in an error.
DriveSettles == \A p \in Proc : drive[p].pc # "idle" ~> drive[p].pc = "idle"

\* What the orchestrator promises (HumanGate), read off its files.
Gate == INSTANCE HumanGate WITH
    Approval <- Approvals,
    Buildable <- [a \in Approvals |-> a.gate = "plan"],
    Verdict <- Statuses,
    said <- spoken,
    built <- {PlanKey(k) : k \in claims},
    verdict <- IF record = None THEN "none" ELSE record.status
GateKept == Gate!GateSpec

-----------------------------------------------------------------------------
(* Statements of the documentation that the code does not keep. *)

\* "plan rejected -> nothing implemented": no agent is started for a plan after
\* resume() accepted a human's rejection of it.
RejectedPlanIsNotBuilt ==
    [][\A k \in GrantKeys : attempts'[k] > attempts[k] => ~ Spoke(PlanKey(k), {"reject"})]_vars

\* "a run resumes in any process that shares the checkpoint and the run file":
\* a run killed anywhere and answered at the gate it names does not fail.
KilledRunResumes == record # None => record.status # "failed"
=============================================================================
