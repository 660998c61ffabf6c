----------------------------- MODULE ApprovalLoop -----------------------------
(***************************************************************************)
(* One workflow run: the approval-gated development loop of src/graph, the *)
(* two stores that carry it across processes, and the processes that drive *)
(* it.                                                                     *)
(*                                                                         *)
(*   record      the WorkflowRun JSON of the project store                 *)
(*   checkpoint  the graph state in the SQLite checkpointer                *)
(*   drive[p]    what process p holds in memory while it drives the graph  *)
(*   grants      the stored grant of each (iteration, revision)            *)
(*   claims      the claim markers: grants an attempt has consumed         *)
(*   lock        the project's implementation lock                         *)
(*   spoken      history: the human decisions that resume() accepted       *)
(*   attempts    history: how often an agent was started under a grant     *)
(*                                                                         *)
(* A node of the graph is one action, except `implement`, which awaits an  *)
(* agent for minutes and is split at that await.  LangGraph itself is      *)
(* external: it writes a checkpoint after each node, an interrupted node   *)
(* is re-executed from its top by the next resume, and the resume value is *)
(* seen by the first node the resumed drive executes and by no other.      *)
(***************************************************************************)
EXTENDS Integers

CONSTANTS
    Proc,            \* operating-system processes that may drive the run
    None,            \* "no value"
    IterationLimit,  \* the run's configured iteration limit
    MaxRevisions,    \* bound: plan revisions the human asks for per iteration
    MaxDrives,       \* bound: start() and resume() calls
    MayCrash         \* whether a process may be killed between two steps

ASSUME LimitAssumption == IterationLimit \in Nat \ {0}
ASSUME BoundAssumption == MaxRevisions \in Nat /\ MaxDrives \in Nat
ASSUME CrashAssumption == MayCrash \in BOOLEAN

VARIABLES record, checkpoint, drive, grants, claims, lock, spoken, attempts, drives

vars == <<record, checkpoint, drive, grants, claims, lock, spoken, attempts, drives>>

-----------------------------------------------------------------------------
(* Data. *)

Nodes == {"understand", "inspect", "plan", "approve_plan", "implement", "verify",
          "review", "approve_review", "learn", "next_iteration", "update_state"}

Kinds == {"approve", "edit", "reject", "feedback"}

Iterations == 1 .. IterationLimit
Revisions == 0 .. MaxRevisions

\* The code's `apr_<run>_i<iteration>_<gate>_<revision>`, for the one run.
Approvals == [gate : {"plan", "review"}, iteration : Iterations, revision : Revisions]

approvalIdFor(gate, c) == [gate |-> gate, iteration |-> c.iteration, revision |-> c.revisions]

\* A stored grant.  `issue` stands for what one issue writes into the
\* fingerprint (scope, approver, approvedAt): it names the drive that minted it.
GrantKeys == Iterations \X Revisions
Grants == [approval : Approvals, issue : 1 .. MaxDrives]

grantIdFor(c) == <<c.iteration, c.revisions>>
KeyOf(g) == <<g.approval.iteration, g.approval.revision>>

Decisions == [approvalId : Approvals, kind : Kinds]

ImplStatus == {"completed", "failed", "cancelled"}

Outcomes == {"rejected_at_plan", "rejected_at_review", "approved", "changes_requested",
             "incomplete:safety_stop", "incomplete:iteration_limit_reached"}

Statuses == {"running", "awaiting_approval", "completed", "rejected", "incomplete", "failed"}

\* The channels of the graph that steer it, and `next`, the node due to run.
\* Plan text, evidence and reports are left out: no edge depends on them.
\* `unsafe` says that detectSafetyConditions(verification, drift) is not empty;
\* decided[a] is what decisionFor finds in the append-only `decisions` channel.
Channels == [next : Nodes \cup {"end"}, iteration : Iterations, revisions : Revisions,
             grant : Grants \cup {None}, impl : ImplStatus \cup {None}, unsafe : BOOLEAN,
             decided : [Approvals -> Kinds \cup {None}], outcome : Outcomes \cup {None}]

FirstChannels ==
    [next |-> "understand", iteration |-> 1, revisions |-> 0, grant |-> None,
     impl |-> None, unsafe |-> FALSE, decided |-> [a \in Approvals |-> None],
     outcome |-> None]

NoBase == [pending |-> None, iteration |-> 1]

\* A process: idle, executing nodes, between storing a grant and returning it
\* ("minted"), awaiting the agent, or about to write the run record
\* ("suspending" at a gate, "failing" after a throw).  `base` is what start()
\* or resume() read of the run record, `id` numbers the call.
PCs == {"idle", "driving", "minted", "implementing", "suspending", "failing"}

Drives == [pc : PCs, id : 0 .. MaxDrives, chan : Channels, resume : Decisions \cup {None},
           base : [pending : Approvals \cup {None}, iteration : Iterations]]

Idle == [pc |-> "idle", id |-> 0, chan |-> FirstChannels, resume |-> None, base |-> NoBase]

Records == [status : Statuses, pending : Approvals \cup {None},
            iteration : Iterations, outcome : Outcomes \cup {None}]

\* `null` is none of the values the code tells apart from it.
ASSUME NoneAssumption ==
    /\ None \notin Records /\ None \notin Channels /\ None \notin Grants
    /\ None \notin Approvals /\ None \notin Decisions
    /\ None \notin 0 .. MaxDrives /\ None \notin Kinds /\ None \notin ImplStatus /\ None \notin Outcomes

Init ==
    /\ record = None
    /\ checkpoint = None
    /\ drive = [p \in Proc |-> Idle]
    /\ grants = [k \in GrantKeys |-> None]
    /\ claims = {}
    /\ lock = None
    /\ spoken = {}
    /\ attempts = [k \in GrantKeys |-> 0]
    /\ drives = 0

-----------------------------------------------------------------------------
(* WorkflowRunner: start, resume, and the three ways drive() ends. *)

\* start(): a new run is recorded as `running`, then its graph is driven.
Start(p) ==
    /\ record = None
    /\ drive[p].pc = "idle"
    /\ drives < MaxDrives
    /\ drives' = drives + 1
    /\ record' = [status |-> "running", pending |-> None, iteration |-> 1, outcome |-> None]
    /\ checkpoint' = FirstChannels
    /\ drive' = [drive EXCEPT ![p] =
                    [Idle EXCEPT !.pc = "driving", !.id = drives']]
    /\ UNCHANGED <<grants, claims, lock, spoken, attempts>>

\* resume(): accepted only while the record awaits an approval, and only for
\* the approval it names.  The record is NOT changed until the drive ends, so a
\* second resume of the same approval is accepted while the first one runs.
\* The drive continues from whatever checkpoint is the latest.
Resume(p, kind) ==
    /\ record # None
    /\ record.status = "awaiting_approval"
    /\ drive[p].pc = "idle"
    /\ drives < MaxDrives
    /\ kind = "feedback" /\ record.pending.gate = "plan" => record.pending.revision < MaxRevisions
    /\ drives' = drives + 1
    /\ spoken' = spoken \cup {[approvalId |-> record.pending, kind |-> kind]}
    /\ drive' = [drive EXCEPT ![p] =
                    [pc |-> "driving", id |-> drives', chan |-> checkpoint,
                     resume |-> [approvalId |-> record.pending, kind |-> kind],
                     base |-> [pending |-> record.pending, iteration |-> record.iteration]]]
    /\ UNCHANGED <<record, checkpoint, grants, claims, lock, attempts>>

\* Control returns to the caller; the process is free again.
Settle(p, r) ==
    /\ record' = r
    /\ drive' = [drive EXCEPT ![p] = Idle]
    /\ UNCHANGED <<checkpoint, grants, claims, lock, spoken, attempts, drives>>

\* Mutant: the two gates are mixed up.
SaveAwaitingOtherGate(p) ==
    /\ drive[p].pc = "suspending"
    /\ LET c == drive[p].chan
           gate == IF c.next = "approve_plan" THEN "review" ELSE "plan"
       IN  Settle(p, [status |-> "awaiting_approval", pending |-> approvalIdFor(gate, c),
                      iteration |-> c.iteration, outcome |-> None])

\* drive(): the graph interrupted at a gate; the run awaits that approval.
SaveAwaiting(p) ==
    /\ drive[p].pc = "suspending"
    /\ LET c == drive[p].chan
           gate == IF c.next = "approve_plan" THEN "plan" ELSE "review"
       IN  Settle(p, [status |-> "awaiting_approval", pending |-> approvalIdFor(gate, c),
                      iteration |-> c.iteration, outcome |-> None])

\* Mutant: the graph is entered once more after a throw.
SaveFailedAndRetry(p) ==
    /\ drive[p].pc = "failing"
    /\ record' = [status |-> "failed", pending |-> drive[p].base.pending,
                  iteration |-> drive[p].base.iteration, outcome |-> None]
    /\ drive' = [drive EXCEPT ![p] = [@ EXCEPT !.pc = "driving", !.resume = None]]
    /\ UNCHANGED <<checkpoint, grants, claims, lock, spoken, attempts, drives>>

\* drive(): a node threw.  The record is the one resume() read, marked failed.
SaveFailed(p) ==
    /\ drive[p].pc = "failing"
    /\ Settle(p, [status |-> "failed", pending |-> drive[p].base.pending,
                  iteration |-> drive[p].base.iteration, outcome |-> None])

StatusOf(outcome) ==
    CASE outcome \in {"rejected_at_plan", "rejected_at_review"} -> "rejected"
      [] outcome \in {"incomplete:safety_stop", "incomplete:iteration_limit_reached"} -> "incomplete"
      [] OTHER -> "completed"

\* drive(): the graph ran to its end.
SaveFinished(p) ==
    /\ drive[p].pc = "driving"
    /\ drive[p].chan.next = "end"
    /\ LET c == drive[p].chan
       IN  Settle(p, [status |-> StatusOf(c.outcome), pending |-> None,
                      iteration |-> c.iteration, outcome |-> c.outcome])

-----------------------------------------------------------------------------
(* The nodes. *)

At(p, node) == drive[p].pc = "driving" /\ drive[p].chan.next = node

\* A node returns: its update is merged into the channels, the checkpoint is
\* written, and the resume value (if any) is spent.
Commit(p, c) ==
    /\ drive' = [drive EXCEPT ![p] = [@ EXCEPT !.pc = "driving", !.chan = c, !.resume = None]]
    /\ checkpoint' = c

Goto(p, node) == Commit(p, [drive[p].chan EXCEPT !.next = node])

Understand(p) ==
    /\ At(p, "understand")
    /\ Goto(p, "inspect")
    /\ UNCHANGED <<record, grants, claims, lock, spoken, attempts, drives>>

\* Every outcome of the inspection, failure included, leads to the plan node.
Inspect(p) ==
    /\ At(p, "inspect")
    /\ Goto(p, "plan")
    /\ UNCHANGED <<record, grants, claims, lock, spoken, attempts, drives>>

\* Mutant: planning goes back for another look at the repository.
PlanReinspects(p) ==
    /\ At(p, "plan")
    /\ \E node \in {"inspect", "approve_plan"} : Goto(p, node)
    /\ UNCHANGED <<record, grants, claims, lock, spoken, attempts, drives>>

\* A model's proposal or the zero-scope fallback: both go to the plan gate.
Plan(p) ==
    /\ At(p, "plan")
    /\ Goto(p, "approve_plan")
    /\ UNCHANGED <<record, grants, claims, lock, spoken, attempts, drives>>

GateOf == [approve_plan |-> "plan", approve_review |-> "review"]

\* interrupt() with no resume value: the graph unwinds to drive().
Interrupt(p) ==
    /\ drive[p].pc = "driving"
    /\ drive[p].chan.next \in DOMAIN GateOf
    /\ drive[p].resume = None
    /\ drive' = [drive EXCEPT ![p].pc = "suspending"]
    /\ UNCHANGED <<record, checkpoint, grants, claims, lock, spoken, attempts, drives>>

\* interrupt() returned a decision that answers another approval: the node throws.
RefuseDecision(p) ==
    /\ drive[p].pc = "driving"
    /\ drive[p].chan.next \in DOMAIN GateOf
    /\ drive[p].resume # None
    /\ drive[p].resume.approvalId # approvalIdFor(GateOf[drive[p].chan.next], drive[p].chan)
    /\ drive' = [drive EXCEPT ![p].pc = "failing"]
    /\ UNCHANGED <<record, checkpoint, grants, claims, lock, spoken, attempts, drives>>

\* The decision at this gate, recorded in the channels.
Answered(p, gate, kind) ==
    /\ drive[p].resume # None
    /\ drive[p].resume = [approvalId |-> approvalIdFor(gate, drive[p].chan), kind |-> kind]

Record(c, gate, kind) == [c EXCEPT !.decided[approvalIdFor(gate, c)] = kind]

PlanRejected(p) ==
    /\ At(p, "approve_plan")
    /\ Answered(p, "plan", "reject")
    /\ Commit(p, [Record(drive[p].chan, "plan", "reject") EXCEPT
                    !.next = "update_state", !.outcome = "rejected_at_plan"])
    /\ UNCHANGED <<record, grants, claims, lock, spoken, attempts, drives>>

PlanFeedback(p) ==
    /\ At(p, "approve_plan")
    /\ Answered(p, "plan", "feedback")
    /\ Commit(p, [Record(drive[p].chan, "plan", "feedback") EXCEPT
                    !.next = "plan", !.revisions = @ + 1])
    /\ UNCHANGED <<record, grants, claims, lock, spoken, attempts, drives>>

\* Mutant: whatever is not a rejection mints the grant.
PlanNotRejected(p) ==
    /\ At(p, "approve_plan")
    /\ \E kind \in Kinds \ {"reject"} :
         /\ Answered(p, "plan", kind)
         /\ LET c == drive[p].chan
                g == [approval |-> approvalIdFor("plan", c), issue |-> drive[p].id]
            IN  /\ grants' = [grants EXCEPT ![grantIdFor(c)] = g]
                /\ drive' = [drive EXCEPT ![p] = [@ EXCEPT !.pc = "minted",
                        !.chan = [Record(c, "plan", kind) EXCEPT !.next = "implement", !.grant = g]]]
    /\ UNCHANGED <<record, checkpoint, claims, lock, spoken, attempts, drives>>

\* Approval mints the grant.  saveGrant overwrites a grant stored under the
\* same id, which a second execution of this node for the same gate does.
PlanApproved(p) ==
    /\ At(p, "approve_plan")
    /\ \E kind \in {"approve", "edit"} :
         /\ Answered(p, "plan", kind)
         /\ LET c == drive[p].chan
                g == [approval |-> approvalIdFor("plan", c), issue |-> drive[p].id]
            IN  /\ grants' = [grants EXCEPT ![grantIdFor(c)] = g]
                /\ drive' = [drive EXCEPT ![p] = [@ EXCEPT !.pc = "minted",
                        !.chan = [Record(c, "plan", kind) EXCEPT !.next = "implement", !.grant = g]]]
    /\ UNCHANGED <<record, checkpoint, claims, lock, spoken, attempts, drives>>

\* The node returns the grant: it reaches the checkpoint after the store.
ReturnGrant(p) ==
    /\ drive[p].pc = "minted"
    /\ Commit(p, drive[p].chan)
    /\ UNCHANGED <<record, grants, claims, lock, spoken, attempts, drives>>

\* The grant descends from the current iteration's plan approval.
GrantIsCurrent(c) == c.grant # None /\ c.grant.approval = approvalIdFor("plan", c)

\* implement, nothing attempted: no grant, a grant of another approval, no
\* agent configured, or ControlledImplementationRunner.run refused (the stored
\* grant differs, is claimed or has expired; the project lock is held).  The
\* node catches the refusal; a foreign grant is dropped.
ImplementNothing(p) ==
    /\ At(p, "implement")
    /\ LET c == drive[p].chan
       IN  Commit(p, [c EXCEPT !.next = "verify", !.impl = None,
                               !.grant = IF GrantIsCurrent(c) THEN @ ELSE None])
    /\ UNCHANGED <<record, grants, claims, lock, spoken, attempts, drives>>

\* Mutant: the claim marker is written, never looked at.
BeginImplementAgain(p) ==
    /\ At(p, "implement")
    /\ LET g == drive[p].chan.grant
       IN  /\ GrantIsCurrent(drive[p].chan)
           /\ grants[KeyOf(g)] = g
           /\ lock = None
           /\ lock' = drive[p].id
           /\ claims' = claims \cup {KeyOf(g)}
           /\ attempts' = [attempts EXCEPT ![KeyOf(g)] = @ + 1]
    /\ drive' = [drive EXCEPT ![p].pc = "implementing"]
    /\ UNCHANGED <<record, checkpoint, grants, spoken, drives>>

\* implement: the lock is acquired, the grant claimed, the agent started.
BeginImplement(p) ==
    /\ At(p, "implement")
    /\ LET g == drive[p].chan.grant
       IN  /\ GrantIsCurrent(drive[p].chan)
           /\ grants[KeyOf(g)] = g
           /\ KeyOf(g) \notin claims
           /\ lock = None
           /\ lock' = drive[p].id
           /\ claims' = claims \cup {KeyOf(g)}
           /\ attempts' = [attempts EXCEPT ![KeyOf(g)] = @ + 1]
    /\ drive' = [drive EXCEPT ![p].pc = "implementing"]
    /\ UNCHANGED <<record, checkpoint, grants, spoken, drives>>

\* implement: the agent returned or threw; the lock is released in finally.
EndImplement(p) ==
    /\ drive[p].pc = "implementing"
    /\ \E s \in ImplStatus :
         Commit(p, [drive[p].chan EXCEPT !.next = "verify", !.impl = s])
    /\ lock' = None
    /\ UNCHANGED <<record, grants, claims, spoken, attempts, drives>>

\* The safety conditions found by verification ...
Verify(p) ==
    /\ At(p, "verify")
    /\ \E found \in BOOLEAN :
         Commit(p, [drive[p].chan EXCEPT !.next = "review", !.unsafe = found])
    /\ UNCHANGED <<record, grants, claims, lock, spoken, attempts, drives>>

\* ... and the scope drift found by the review, which adds to them.
Review(p) ==
    /\ At(p, "review")
    /\ \E drift \in BOOLEAN :
         Commit(p, [drive[p].chan EXCEPT !.next = "approve_review", !.unsafe = @ \/ drift])
    /\ UNCHANGED <<record, grants, claims, lock, spoken, attempts, drives>>

ReviewOutcome(kind) ==
    CASE kind = "approve" -> "approved"
      [] kind = "reject" -> "rejected_at_review"
      [] OTHER -> "changes_requested"

ReviewAnswered(p) ==
    /\ At(p, "approve_review")
    /\ \E kind \in Kinds :
         /\ Answered(p, "review", kind)
         /\ Commit(p, [Record(drive[p].chan, "review", kind) EXCEPT
                         !.next = "learn", !.outcome = ReviewOutcome(kind)])
    /\ UNCHANGED <<record, grants, claims, lock, spoken, attempts, drives>>

\* The experience record is memory: nothing it does changes the route.
Learn(p) ==
    /\ At(p, "learn")
    /\ Goto(p, "next_iteration")
    /\ UNCHANGED <<record, grants, claims, lock, spoken, attempts, drives>>

\* Mutant: the human's decision before the safety conditions.
LoopOutcomeHumanFirst(c) ==
    LET decision == c.decided[approvalIdFor("review", c)]
    IN  IF decision = "approve" THEN "approved"
        ELSE IF decision = "reject" THEN "rejected_at_review"
        ELSE IF c.unsafe \/ decision = None THEN "incomplete:safety_stop"
        ELSE IF c.iteration < IterationLimit THEN "continue"
        ELSE "incomplete:iteration_limit_reached"

\* decideNextIteration: safety first, then the human, then the bound.
LoopOutcome(c) ==
    LET decision == c.decided[approvalIdFor("review", c)]
    IN  IF c.unsafe \/ decision = None THEN "incomplete:safety_stop"
        ELSE IF decision = "approve" THEN "approved"
        ELSE IF decision = "reject" THEN "rejected_at_review"
        ELSE IF c.iteration < IterationLimit THEN "continue"
        ELSE "incomplete:iteration_limit_reached"

StopLoop(p) ==
    /\ At(p, "next_iteration")
    /\ LoopOutcome(drive[p].chan) # "continue"
    /\ Commit(p, [drive[p].chan EXCEPT !.next = "update_state", !.outcome = LoopOutcome(drive[p].chan)])
    /\ UNCHANGED <<record, grants, claims, lock, spoken, attempts, drives>>

\* Iteration N+1 opens with every per-iteration channel cleared.
NextIteration(p) ==
    /\ At(p, "next_iteration")
    /\ LoopOutcome(drive[p].chan) = "continue"
    /\ Commit(p, [FirstChannels EXCEPT !.next = "inspect", !.iteration = drive[p].chan.iteration + 1,
                                       !.decided = drive[p].chan.decided])
    /\ UNCHANGED <<record, grants, claims, lock, spoken, attempts, drives>>

UpdateState(p) ==
    /\ At(p, "update_state")
    /\ Goto(p, "end")
    /\ UNCHANGED <<record, grants, claims, lock, spoken, attempts, drives>>

-----------------------------------------------------------------------------
(* What happens around the drives. *)

\* The process is killed: its memory is gone, everything on disk stays.
Crash(p) ==
    /\ MayCrash
    /\ drive[p].pc # "idle"
    /\ drive' = [drive EXCEPT ![p] = Idle]
    /\ UNCHANGED <<record, checkpoint, grants, claims, lock, spoken, attempts, drives>>

\* Mutant: the lock is cleared whoever holds it.
UnlockAnyway ==
    /\ lock # None
    /\ lock' = None
    /\ UNCHANGED <<record, checkpoint, drive, grants, claims, spoken, attempts, drives>>

\* implementation:unlock, the human's command: refused while the holder lives.
Unlock ==
    /\ lock # None
    /\ ~ \E p \in Proc : drive[p].pc = "implementing" /\ drive[p].id = lock
    /\ lock' = None
    /\ UNCHANGED <<record, checkpoint, drive, grants, claims, spoken, attempts, drives>>

Step(p) ==
    \/ Understand(p) \/ Inspect(p) \/ Plan(p)
    \/ Interrupt(p) \/ RefuseDecision(p)
    \/ PlanRejected(p) \/ PlanFeedback(p) \/ PlanApproved(p) \/ ReturnGrant(p)
    \/ ImplementNothing(p) \/ BeginImplement(p) \/ EndImplement(p)
    \/ Verify(p) \/ Review(p) \/ ReviewAnswered(p)
    \/ Learn(p) \/ StopLoop(p) \/ NextIteration(p) \/ UpdateState(p)
    \/ SaveAwaiting(p) \/ SaveFailed(p) \/ SaveFinished(p)

Next ==
    \/ \E p \in Proc : Start(p) \/ Step(p) \/ Crash(p)
    \/ \E p \in Proc, kind \in Kinds : Resume(p, kind)
    \/ Unlock

Spec == Init /\ [][Next]_vars

\* A process that drives the graph keeps running it; the human, who starts,
\* resumes and unlocks, is under no obligation.
FairSpec == Spec /\ \A p \in Proc : WF_vars(Step(p))
=============================================================================
