------------------------- MODULE ApprovalLoop_proofs -------------------------
(***************************************************************************)
(* Proofs about the approval loop, for any number of driving processes,    *)
(* any iteration limit and any number of crashes and resumes.              *)
(***************************************************************************)
EXTENDS ApprovalLoopProperties, TLAPS

-----------------------------------------------------------------------------
(* Types. *)

\* What resume() relies on and establishes: an awaiting record names an
\* approval, a live drive has a checkpoint behind it, and the decision a drive
\* carries was accepted by resume().
FilesInv ==
    /\ record # None => checkpoint # None
    /\ record # None /\ record.status = "awaiting_approval" => record.pending # None
    /\ \A p \in Proc : drive[p].pc # "idle" => checkpoint # None /\ drive[p].id \in 1 .. drives

ResumeInv ==
    \A p \in Proc : drive[p].resume # None =>
        /\ drive[p].resume \in spoken
        /\ drive[p].resume.kind = "feedback" /\ drive[p].resume.approvalId.gate = "plan"
              => drive[p].resume.approvalId.revision < MaxRevisions

TypeInv == TypeOK /\ FilesInv /\ ResumeInv

LEMMA FirstChannelsType == FirstChannels \in Channels
  BY LimitAssumption, BoundAssumption
  DEF FirstChannels, Channels, Iterations, Revisions, Nodes

LEMMA IdleType == Idle \in Drives
  BY FirstChannelsType, LimitAssumption, BoundAssumption
  DEF Idle, NoBase, Drives, PCs, Iterations

LEMMA ApprovalIdType ==
  ASSUME NEW c \in Channels, NEW gate \in {"plan", "review"}
  PROVE  approvalIdFor(gate, c) \in Approvals
  BY DEF approvalIdFor, Channels, Approvals

\* A node that returns well-typed channels keeps every file well-typed.
LEMMA CommitType ==
  ASSUME TypeInv, NEW p \in Proc, drive[p].pc # "idle", NEW c \in Channels, Commit(p, c),
         UNCHANGED <<record, grants, claims, spoken, attempts, drives>>,
         lock' \in 1 .. MaxDrives \cup {None}
  PROVE  TypeInv'
<1>1. drive' \in [Proc -> Drives]
  <2>1. [drive[p] EXCEPT !.pc = "driving", !.chan = c, !.resume = None] \in Drives
    BY DEF TypeInv, TypeOK, Drives, PCs
  <2> QED
    BY <2>1 DEF TypeInv, TypeOK, Commit
<1>2. c # None
  BY NoneAssumption
<1> QED
  BY <1>1, <1>2 DEF TypeInv, TypeOK, FilesInv, ResumeInv, Commit, Drives

\* A node that only moves to another place in memory.
LEMMA MoveType ==
  ASSUME TypeInv, NEW p \in Proc, NEW d \in Drives,
         d.pc # "idle" => drive[p].pc # "idle" /\ d.id = drive[p].id,
         d.resume = drive[p].resume \/ d.resume = None,
         drive' = [drive EXCEPT ![p] = d],
         UNCHANGED <<record, checkpoint, spoken, drives>>,
         grants' \in [GrantKeys -> Grants \cup {None}], claims' \subseteq GrantKeys,
         attempts' \in [GrantKeys -> Nat], lock' \in 1 .. MaxDrives \cup {None}
  PROVE  TypeInv'
<1>1. drive' \in [Proc -> Drives]
  BY DEF TypeInv, TypeOK
<1>2. \A q \in Proc : drive'[q] = IF q = p THEN d ELSE drive[q]
  BY DEF TypeInv, TypeOK
<1>3. TypeOK'
  BY <1>1 DEF TypeInv, TypeOK
<1>4. FilesInv'
  BY <1>2 DEF TypeInv, FilesInv
<1>5. ResumeInv'
  BY <1>2 DEF TypeInv, ResumeInv
<1> QED
  BY <1>3, <1>4, <1>5 DEF TypeInv

\* drive() writes the run record and returns.
LEMMA SettleType ==
  ASSUME TypeInv, NEW p \in Proc, NEW r \in Records, Settle(p, r), checkpoint # None,
         r.status = "awaiting_approval" => r.pending # None
  PROVE  TypeInv'
<1>1. drive' \in [Proc -> Drives]
  BY IdleType DEF TypeInv, TypeOK, Settle
<1>2. \A q \in Proc : drive'[q] = IF q = p THEN Idle ELSE drive[q]
  BY DEF TypeInv, TypeOK, Settle
<1>3. TypeOK'
  BY <1>1 DEF TypeInv, TypeOK, Settle
<1>4. FilesInv'
  BY <1>2 DEF TypeInv, FilesInv, Settle, Idle
<1>5. ResumeInv'
  BY <1>2 DEF TypeInv, ResumeInv, Settle, Idle
<1> QED
  BY <1>3, <1>4, <1>5 DEF TypeInv

\* A decision consumed at a gate leaves well-typed channels.
LEMMA RecordType ==
  ASSUME NEW c \in Channels, NEW gate \in {"plan", "review"}, NEW kind \in Kinds
  PROVE  /\ Record(c, gate, kind) \in Channels
         /\ \A f \in {"revisions", "iteration", "grant", "outcome", "impl", "unsafe", "next"} :
               Record(c, gate, kind)[f] = c[f]
         /\ Record(c, gate, kind).decided = [c.decided EXCEPT ![approvalIdFor(gate, c)] = kind]
<1>1. c.decided \in [Approvals -> Kinds \cup {None}]
  BY DEF Channels
<1>2. [c.decided EXCEPT ![approvalIdFor(gate, c)] = kind] \in [Approvals -> Kinds \cup {None}]
  BY <1>1
<1>3. Record(c, gate, kind) = [c EXCEPT !.decided = [@ EXCEPT ![approvalIdFor(gate, c)] = kind]]
  BY DEF Record
<1> QED
  BY <1>2, <1>3 DEF Channels

\* Verification, review and the loop decision keep the channels well-typed.
LEMMA LoopOutcomeType ==
  ASSUME NEW c \in Channels
  PROVE  /\ LoopOutcome(c) \in Outcomes \cup {"continue"}
         /\ LoopOutcome(c) = "continue" => c.iteration < IterationLimit
         /\ LoopOutcome(c) = "approved" => c.decided[approvalIdFor("review", c)] = "approve"
         /\ LoopOutcome(c) = "rejected_at_review" => c.decided[approvalIdFor("review", c)] = "reject"
         /\ LoopOutcome(c) \notin {"changes_requested", "rejected_at_plan"}
  BY DEF LoopOutcome, Outcomes

THEOREM TypeInductive == TypeInv /\ [Next]_vars => TypeInv'
<1> SUFFICES ASSUME TypeInv, [Next]_vars
             PROVE  TypeInv'
  OBVIOUS
<1>c. ASSUME NEW p \in Proc
      PROVE  drive[p] \in Drives /\ drive[p].chan \in Channels
  BY DEF TypeInv, TypeOK, Drives
<1>1. ASSUME NEW p \in Proc, Start(p)
      PROVE  TypeInv'
  <2>0. drives' \in 1 .. MaxDrives
    BY <1>1, BoundAssumption DEF Start, TypeInv, TypeOK
  <2>1. [Idle EXCEPT !.pc = "driving", !.id = drives'] \in Drives
    <3>1. drives' \in 0 .. MaxDrives
      BY <2>0
    <3> QED BY <3>1, IdleType DEF Drives, PCs
  <2>2. drive' \in [Proc -> Drives]
    BY <1>1, <2>1 DEF Start, TypeInv, TypeOK
  <2>3. FirstChannels # None /\ record' \in Records
    BY <1>1, FirstChannelsType, NoneAssumption, LimitAssumption
    DEF Start, Records, Statuses, Iterations
  <2>4. TypeOK'
    BY <1>1, <2>0, <2>2, <2>3, FirstChannelsType DEF Start, TypeInv, TypeOK
  <2>5. FilesInv'
    BY <1>1, <2>0, <2>3, IdleType DEF Start, TypeInv, TypeOK, FilesInv, Drives
  <2>6. ResumeInv'
    BY <1>1 DEF Start, TypeInv, TypeOK, ResumeInv, Idle
  <2> QED
    BY <2>4, <2>5, <2>6 DEF TypeInv
<1>2. ASSUME NEW p \in Proc, NEW kind \in Kinds, Resume(p, kind)
      PROVE  TypeInv'
  <2> DEFINE a == [approvalId |-> record.pending, kind |-> kind]
             d == [pc |-> "driving", id |-> drives', chan |-> checkpoint, resume |-> a,
                   base |-> [pending |-> record.pending, iteration |-> record.iteration]]
  <2>1. /\ checkpoint \in Channels
        /\ record \in Records /\ record.pending \in Approvals /\ record.iteration \in Iterations
    BY <1>2 DEF Resume, TypeInv, TypeOK, FilesInv, Records
  <2>2. a \in Decisions /\ drives' \in 0 .. MaxDrives
    BY <1>2, <2>1, BoundAssumption DEF Resume, Decisions, TypeInv, TypeOK
  <2>3. d \in Drives
    BY <2>1, <2>2 DEF Drives, PCs
  <2>4. drive' = [drive EXCEPT ![p] = d] /\ spoken' = spoken \cup {a}
    BY <1>2 DEF Resume
  <2>5. \A q \in Proc : drive'[q] = IF q = p THEN d ELSE drive[q]
    BY <2>4 DEF TypeInv, TypeOK
  <2>6. TypeOK'
    BY <1>2, <2>2, <2>3, <2>4 DEF Resume, TypeInv, TypeOK
  <2>7. FilesInv'
    <3>1. \A q \in Proc : drive[q].pc # "idle" => drive[q].id \in 1 .. drives'
      BY <1>2 DEF Resume, TypeInv, TypeOK, FilesInv, Drives
    <3>2. drives' \in 1 .. drives'
      BY <1>2 DEF Resume, TypeInv, TypeOK
    <3>3. \A q \in Proc : drive'[q].pc # "idle" => drive'[q].id \in 1 .. drives'
      BY <2>5, <3>1, <3>2
    <3> QED
      BY <1>2, <2>1, <3>3, NoneAssumption DEF Resume, TypeInv, FilesInv
  <2>8. ResumeInv'
    BY <1>2, <2>4, <2>5 DEF Resume, TypeInv, ResumeInv
  <2> QED
    BY <2>6, <2>7, <2>8 DEF TypeInv
<1>3. ASSUME NEW p \in Proc, Crash(p)
      PROVE  TypeInv'
  BY <1>3, IdleType, MoveType DEF Crash, Idle, TypeInv, TypeOK
<1>4. CASE Unlock
  BY <1>4 DEF Unlock, TypeInv, TypeOK, FilesInv, ResumeInv
<1>5. ASSUME NEW p \in Proc, Understand(p) \/ Inspect(p) \/ Plan(p) \/ Learn(p) \/ UpdateState(p)
      PROVE  TypeInv'
  <2>1. \A node \in Nodes \cup {"end"} : [drive[p].chan EXCEPT !.next = node] \in Channels
    BY <1>c DEF Channels
  <2>2. lock \in 1 .. MaxDrives \cup {None}
    BY DEF TypeInv, TypeOK
  <2> QED
    BY <1>5, <2>1, <2>2, CommitType
    DEF Understand, Inspect, Plan, Learn, UpdateState, At, Goto, Nodes
<1>6. ASSUME NEW p \in Proc, Interrupt(p) \/ RefuseDecision(p)
      PROVE  TypeInv'
  <2> DEFINE d(pc) == [drive[p] EXCEPT !.pc = pc]
  <2>1. d("suspending") \in Drives /\ d("failing") \in Drives
    BY <1>c DEF Drives, PCs
  <2>2. drive[p].pc # "idle"
    BY <1>6 DEF Interrupt, RefuseDecision
  <2>3. \A pc \in PCs : d(pc).resume = drive[p].resume /\ d(pc).id = drive[p].id
    BY <1>c DEF Drives
  <2>4. drive' = [drive EXCEPT ![p] = d("suspending")] \/ drive' = [drive EXCEPT ![p] = d("failing")]
    BY <1>6 DEF Interrupt, RefuseDecision
  <2> HIDE DEF d
  <2> QED
    BY <1>6, <2>1, <2>2, <2>3, <2>4, MoveType DEF Interrupt, RefuseDecision, TypeInv, TypeOK, PCs
<1>7. ASSUME NEW p \in Proc, PlanRejected(p)
      PROVE  TypeInv'
  <2> DEFINE r == Record(drive[p].chan, "plan", "reject")
  <2>1. r \in Channels
    BY <1>c, RecordType DEF Kinds
  <2>2. [r EXCEPT !.next = "update_state", !.outcome = "rejected_at_plan"] \in Channels
    <3> HIDE DEF r
    <3> QED BY <2>1 DEF Channels, Nodes, Outcomes
  <2> QED
    BY <1>7, <2>2, CommitType DEF PlanRejected, At, TypeInv, TypeOK
<1>8. ASSUME NEW p \in Proc, PlanFeedback(p)
      PROVE  TypeInv'
  <2>1. drive[p].chan.revisions < MaxRevisions
    BY <1>8, <1>c, NoneAssumption DEF PlanFeedback, Answered, TypeInv, ResumeInv, approvalIdFor
  <2>2. drive[p].chan.revisions + 1 \in Revisions
    BY <2>1, <1>c, BoundAssumption DEF Channels, Revisions
  <2> DEFINE r == Record(drive[p].chan, "plan", "feedback")
  <2>3. r \in Channels /\ r.revisions + 1 \in Revisions
    BY <2>2, <1>c, RecordType DEF Kinds
  <2>4. [r EXCEPT !.next = "plan", !.revisions = @ + 1] \in Channels
    <3> HIDE DEF r
    <3> QED BY <2>3 DEF Channels, Nodes
  <2> QED
    BY <1>8, <2>4, CommitType DEF PlanFeedback, At, TypeInv, TypeOK
<1>9. ASSUME NEW p \in Proc, PlanApproved(p)
      PROVE  TypeInv'
  <2>1. PICK kind \in {"approve", "edit"} :
           LET c == drive[p].chan
               g == [approval |-> approvalIdFor("plan", c), issue |-> drive[p].id]
           IN  /\ Answered(p, "plan", kind)
               /\ grants' = [grants EXCEPT ![grantIdFor(c)] = g]
               /\ drive' = [drive EXCEPT ![p] = [@ EXCEPT !.pc = "minted",
                       !.chan = [Record(c, "plan", kind) EXCEPT !.next = "implement", !.grant = g]]]
    BY <1>9 DEF PlanApproved
  <2> DEFINE c == drive[p].chan
             g == [approval |-> approvalIdFor("plan", c), issue |-> drive[p].id]
             r == Record(c, "plan", kind)
             n == [r EXCEPT !.next = "implement", !.grant = g]
             d == [drive[p] EXCEPT !.pc = "minted", !.chan = n]
  <2>2. drive[p].id \in 1 .. MaxDrives
    BY <1>9, <1>c, BoundAssumption DEF PlanApproved, At, TypeInv, TypeOK, FilesInv
  <2>3. g \in Grants
    BY <2>2, <1>c, ApprovalIdType DEF Grants
  <2>4. n \in Channels
    <3>1. r \in Channels
      BY <1>c, RecordType DEF Kinds
    <3> HIDE DEF r, g
    <3> QED BY <2>3, <3>1 DEF Channels, Nodes
  <2>5. d \in Drives /\ d.resume = drive[p].resume /\ d.id = drive[p].id
    <3> HIDE DEF n
    <3> QED BY <2>4, <1>c DEF Drives, PCs
  <2>6. drive' = [drive EXCEPT ![p] = d]
    BY <2>1
  <2>7. grants' \in [GrantKeys -> Grants \cup {None}]
    BY <2>1, <2>3, <1>c DEF TypeInv, TypeOK
  <2>8. drive[p].pc # "idle"
    BY <1>9 DEF PlanApproved, At
  <2> HIDE DEF d
  <2> QED
    BY <1>9, <2>5, <2>6, <2>7, <2>8, MoveType DEF PlanApproved, TypeInv, TypeOK
<1>10. ASSUME NEW p \in Proc, ReturnGrant(p)
       PROVE  TypeInv'
  BY <1>10, <1>c, CommitType DEF ReturnGrant, TypeInv, TypeOK
<1>11. ASSUME NEW p \in Proc, ImplementNothing(p)
       PROVE  TypeInv'
  <2> DEFINE c == drive[p].chan
             n == [c EXCEPT !.next = "verify", !.impl = None,
                            !.grant = IF GrantIsCurrent(c) THEN @ ELSE None]
  <2>1. n \in Channels
    BY <1>c DEF Channels, Nodes
  <2> HIDE DEF n
  <2>2. Commit(p, n)
    BY <1>11 DEF ImplementNothing, n
  <2> QED
    BY <1>11, <2>1, <2>2, CommitType DEF ImplementNothing, At, TypeInv, TypeOK
<1>12. ASSUME NEW p \in Proc, BeginImplement(p)
       PROVE  TypeInv'
  <2> DEFINE d == [drive[p] EXCEPT !.pc = "implementing"]
             g == drive[p].chan.grant
  <2>1. d \in Drives /\ d.resume = drive[p].resume /\ d.id = drive[p].id
    BY <1>c DEF Drives, PCs
  <2>2. drive[p].pc # "idle" /\ drive[p].id \in 1 .. MaxDrives
    BY <1>12, <1>c, BoundAssumption DEF BeginImplement, At, TypeInv, TypeOK, FilesInv
  <2>3. g \in Grants
    BY <1>12, <1>c DEF BeginImplement, GrantIsCurrent, Channels
  <2>4. KeyOf(g) \in GrantKeys
    BY <2>3 DEF KeyOf, GrantKeys, Grants, Approvals
  <2>5. drive' = [drive EXCEPT ![p] = d]
    BY <1>12 DEF BeginImplement
  <2>6. claims' \subseteq GrantKeys /\ attempts' \in [GrantKeys -> Nat]
    BY <1>12, <2>4 DEF BeginImplement, TypeInv, TypeOK
  <2> HIDE DEF d
  <2> QED
    BY <1>12, <2>1, <2>2, <2>5, <2>6, MoveType DEF BeginImplement, TypeInv, TypeOK
<1>13. ASSUME NEW p \in Proc, EndImplement(p)
       PROVE  TypeInv'
  <2>1. PICK s \in ImplStatus : Commit(p, [drive[p].chan EXCEPT !.next = "verify", !.impl = s])
    BY <1>13 DEF EndImplement
  <2>2. [drive[p].chan EXCEPT !.next = "verify", !.impl = s] \in Channels
    BY <1>c DEF Channels, Nodes
  <2> QED
    BY <1>13, <2>1, <2>2, CommitType DEF EndImplement, TypeInv, TypeOK
<1>14. ASSUME NEW p \in Proc, Verify(p)
       PROVE  TypeInv'
  <2>1. PICK found \in BOOLEAN :
           Commit(p, [drive[p].chan EXCEPT !.next = "review", !.unsafe = found])
    BY <1>14 DEF Verify
  <2>2. [drive[p].chan EXCEPT !.next = "review", !.unsafe = found] \in Channels
    BY <1>c DEF Channels, Nodes
  <2> QED
    BY <1>14, <2>1, <2>2, CommitType DEF Verify, At, TypeInv, TypeOK
<1>15. ASSUME NEW p \in Proc, Review(p)
       PROVE  TypeInv'
  <2>1. PICK drift \in BOOLEAN :
           Commit(p, [drive[p].chan EXCEPT !.next = "approve_review", !.unsafe = @ \/ drift])
    BY <1>15 DEF Review
  <2>2. [drive[p].chan EXCEPT !.next = "approve_review", !.unsafe = @ \/ drift] \in Channels
    BY <1>c DEF Channels, Nodes
  <2> QED
    BY <1>15, <2>1, <2>2, CommitType DEF Review, At, TypeInv, TypeOK
<1>16. ASSUME NEW p \in Proc, ReviewAnswered(p)
       PROVE  TypeInv'
  <2>1. PICK kind \in Kinds :
           Commit(p, [Record(drive[p].chan, "review", kind) EXCEPT
                         !.next = "learn", !.outcome = ReviewOutcome(kind)])
    BY <1>16 DEF ReviewAnswered
  <2> DEFINE r == Record(drive[p].chan, "review", kind)
  <2>2. r \in Channels
    BY <1>c, RecordType
  <2>3. [r EXCEPT !.next = "learn", !.outcome = ReviewOutcome(kind)] \in Channels
    <3> HIDE DEF r
    <3> QED BY <2>2 DEF Channels, Nodes, Outcomes, ReviewOutcome
  <2> QED
    BY <1>16, <2>1, <2>3, CommitType DEF ReviewAnswered, At, TypeInv, TypeOK
<1>17. ASSUME NEW p \in Proc, StopLoop(p)
       PROVE  TypeInv'
  <2> DEFINE o == LoopOutcome(drive[p].chan)
  <2>1. o \in Outcomes
    BY <1>17, <1>c, LoopOutcomeType DEF StopLoop
  <2>2. [drive[p].chan EXCEPT !.next = "update_state", !.outcome = o] \in Channels
    <3> HIDE DEF o
    <3> QED BY <2>1, <1>c DEF Channels, Nodes
  <2> QED
    BY <1>17, <2>2, CommitType DEF StopLoop, At, TypeInv, TypeOK
<1>18. ASSUME NEW p \in Proc, NextIteration(p)
       PROVE  TypeInv'
  <2> DEFINE c == drive[p].chan
             n == [FirstChannels EXCEPT !.next = "inspect", !.iteration = c.iteration + 1,
                                        !.decided = c.decided]
  <2>1. c.iteration < IterationLimit
    BY <1>18, <1>c, LoopOutcomeType DEF NextIteration
  <2>2. c.iteration + 1 \in Iterations
    BY <2>1, <1>c, LimitAssumption DEF Channels, Iterations
  <2>3. n \in Channels
    BY <2>2, <1>c, FirstChannelsType DEF Channels, Nodes
  <2> QED
    BY <1>18, <2>3, CommitType DEF NextIteration, At, TypeInv, TypeOK
<1>19. ASSUME NEW p \in Proc, SaveAwaiting(p)
       PROVE  TypeInv'
  <2> DEFINE c == drive[p].chan
             gate == IF c.next = "approve_plan" THEN "plan" ELSE "review"
             r == [status |-> "awaiting_approval", pending |-> approvalIdFor(gate, c),
                   iteration |-> c.iteration, outcome |-> None]
  <2>1. approvalIdFor(gate, c) \in Approvals
    BY <1>c, ApprovalIdType
  <2>2. r \in Records /\ r.pending # None
    BY <2>1, <1>c, NoneAssumption DEF Records, Statuses, Channels
  <2> QED
    BY <1>19, <2>2, SettleType DEF SaveAwaiting, TypeInv, FilesInv
<1>20. ASSUME NEW p \in Proc, SaveFailed(p)
       PROVE  TypeInv'
  <2> DEFINE r == [status |-> "failed", pending |-> drive[p].base.pending,
                   iteration |-> drive[p].base.iteration, outcome |-> None]
  <2>1. r \in Records /\ r.status # "awaiting_approval"
    BY <1>c DEF Drives, Records, Statuses
  <2> QED
    BY <1>20, <2>1, SettleType DEF SaveFailed, TypeInv, FilesInv
<1>21. ASSUME NEW p \in Proc, SaveFinished(p)
       PROVE  TypeInv'
  <2> DEFINE c == drive[p].chan
             r == [status |-> StatusOf(c.outcome), pending |-> None,
                   iteration |-> c.iteration, outcome |-> c.outcome]
  <2>1. r \in Records /\ r.status # "awaiting_approval"
    BY <1>c DEF Channels, Records, Statuses, StatusOf
  <2> QED
    BY <1>21, <2>1, SettleType DEF SaveFinished, TypeInv, FilesInv
<1>22. CASE UNCHANGED vars
  BY <1>22 DEF vars, TypeInv, TypeOK, FilesInv, ResumeInv
<1> QED
  BY <1>1, <1>2, <1>3, <1>4, <1>5, <1>6, <1>7, <1>8, <1>9, <1>10, <1>11, <1>12, <1>13, <1>14,
     <1>15, <1>16, <1>17, <1>18, <1>19, <1>20, <1>21, <1>22 DEF Next, Step

LEMMA TypeInit == Init => TypeInv
  BY IdleType, BoundAssumption
  DEF Init, TypeInv, TypeOK, FilesInv, ResumeInv, Idle

LEMMA TypeAlways == Spec => []TypeInv
  BY TypeInit, TypeInductive, PTL DEF Spec

\* Every variable keeps its type, whatever the limits, the number of processes
\* and the interleaving of nodes, kills and resumes.
THEOREM TypeCorrect == Spec => []TypeOK
<1>1. TypeInv => TypeOK
  BY DEF TypeInv
<1> QED
  BY <1>1, TypeAlways, PTL

-----------------------------------------------------------------------------
(* One attempt per approval. *)

AttemptsInv == \A k \in GrantKeys : attempts[k] = IF k \in claims THEN 1 ELSE 0

\* Only the start of an implementation claims a grant.
LEMMA ClaimFrame ==
  ASSUME [Next]_vars
  PROVE  UNCHANGED <<claims, attempts>> \/ \E p \in Proc : BeginImplement(p)
  BY DEF Next, Step, vars, Start, Resume, Crash, Unlock, Understand, Inspect, Plan, Interrupt,
         RefuseDecision, PlanRejected, PlanFeedback, PlanApproved, ReturnGrant, ImplementNothing,
         EndImplement, Verify, Review, ReviewAnswered, Learn, StopLoop, NextIteration,
         UpdateState, SaveAwaiting, SaveFailed, SaveFinished, Settle

\* The grant an implementation starts under is a stored, typed grant.
LEMMA BegunGrant ==
  ASSUME TypeInv, NEW p \in Proc, BeginImplement(p)
  PROVE  /\ drive[p].chan \in Channels
         /\ drive[p].chan.grant \in Grants
         /\ KeyOf(drive[p].chan.grant) \in GrantKeys \ claims
         /\ PlanKey(KeyOf(drive[p].chan.grant)) = drive[p].chan.grant.approval
<1>1. drive[p].chan \in Channels
  BY DEF TypeInv, TypeOK, Drives
<1>2. drive[p].chan.grant \in Grants
  BY <1>1 DEF BeginImplement, GrantIsCurrent, Channels
<1>3. drive[p].chan.grant.approval = approvalIdFor("plan", drive[p].chan)
  BY DEF BeginImplement, GrantIsCurrent
<1>4. KeyOf(drive[p].chan.grant) \in GrantKeys
  BY <1>2 DEF KeyOf, GrantKeys, Grants, Approvals
<1> QED
  BY <1>1, <1>2, <1>3, <1>4 DEF BeginImplement, PlanKey, KeyOf, approvalIdFor

\* An approved plan is attempted at most once: no crash, replay or concurrent
\* resume starts a second agent under the same grant.
THEOREM OneAttempt == Spec => []AtMostOneAttempt
<1>1. Init => AttemptsInv
  BY DEF Init, AttemptsInv
<1>2. TypeInv /\ AttemptsInv /\ [Next]_vars => AttemptsInv'
  <2> SUFFICES ASSUME TypeInv, AttemptsInv, [Next]_vars
               PROVE  AttemptsInv'
    OBVIOUS
  <2>1. CASE UNCHANGED <<claims, attempts>>
    BY <2>1 DEF AttemptsInv
  <2>2. ASSUME NEW p \in Proc, BeginImplement(p)
        PROVE  AttemptsInv'
    <3> DEFINE k == KeyOf(drive[p].chan.grant)
    <3>1. k \in GrantKeys /\ k \notin claims
      BY <2>2, BegunGrant
    <3>2. attempts' = [attempts EXCEPT ![k] = @ + 1] /\ claims' = claims \cup {k}
      BY <2>2 DEF BeginImplement
    <3> HIDE DEF k
    <3> QED
      BY <3>1, <3>2 DEF AttemptsInv, TypeInv, TypeOK
  <2> QED
    BY <2>1, <2>2, ClaimFrame
<1>3. AttemptsInv => AtMostOneAttempt
  BY DEF AttemptsInv, AtMostOneAttempt
<1> QED
  BY <1>1, <1>2, <1>3, TypeAlways, PTL DEF Spec

-----------------------------------------------------------------------------
(* One agent at a time. *)

\* The lock names the drive whose agent works; drives are numbered apart.
AgentInv ==
    /\ \A p \in Proc : drive[p].pc = "implementing" => lock = drive[p].id
    /\ \A p, q \in Proc : drive[p].pc # "idle" /\ drive[q].pc # "idle" /\ drive[p].id = drive[q].id
          => p = q

\* A step moves one process; a process gets a new number only from start() or
\* resume(), which hand out the next one.
LEMMA DriveFrame ==
  ASSUME TypeInv, [Next]_vars
  PROVE  \/ UNCHANGED drive
         \/ \E p \in Proc :
              /\ \A q \in Proc : q # p => drive'[q] = drive[q]
              /\ \/ drive'[p].pc = "idle"
                 \/ drive[p].pc # "idle" /\ drive'[p].id = drive[p].id
                 \/ drive'[p].id = drives + 1
<1> DEFINE Moved(p) ==
             /\ \A q \in Proc : q # p => drive'[q] = drive[q]
             /\ \/ drive'[p].pc = "idle"
                \/ drive[p].pc # "idle" /\ drive'[p].id = drive[p].id
                \/ drive'[p].id = drives + 1
<1>0. drive \in [Proc -> Drives]
  BY DEF TypeInv, TypeOK
<1>1. ASSUME NEW p \in Proc, NEW c, Commit(p, c), drive[p].pc # "idle"
      PROVE  Moved(p)
  BY <1>0, <1>1 DEF Commit, Drives
<1>2. ASSUME NEW p \in Proc, Start(p)
      PROVE  Moved(p)
  BY <1>0, <1>2 DEF Start, Idle
<1>3. ASSUME NEW p \in Proc, NEW kind \in Kinds, Resume(p, kind)
      PROVE  Moved(p)
  BY <1>0, <1>3 DEF Resume
<1>4. ASSUME NEW p \in Proc,
             Interrupt(p) \/ RefuseDecision(p) \/ PlanApproved(p) \/ BeginImplement(p)
      PROVE  Moved(p)
  BY <1>0, <1>4 DEF Interrupt, RefuseDecision, PlanApproved, BeginImplement, At, Drives
<1>5. ASSUME NEW p \in Proc, Crash(p) \/ SaveAwaiting(p) \/ SaveFailed(p) \/ SaveFinished(p)
      PROVE  Moved(p)
  BY <1>0, <1>5 DEF Crash, SaveAwaiting, SaveFailed, SaveFinished, Settle, Idle
<1>6. ASSUME NEW p \in Proc,
             \/ Understand(p) \/ Inspect(p) \/ Plan(p) \/ PlanRejected(p) \/ PlanFeedback(p)
             \/ ReturnGrant(p) \/ ImplementNothing(p) \/ EndImplement(p) \/ Verify(p) \/ Review(p)
             \/ ReviewAnswered(p) \/ Learn(p) \/ StopLoop(p) \/ NextIteration(p) \/ UpdateState(p)
      PROVE  Moved(p)
  <2>1. drive[p].pc # "idle" /\ \E c : Commit(p, c)
    BY <1>6 DEF Understand, Inspect, Plan, PlanRejected, PlanFeedback, ReturnGrant, ImplementNothing,
                EndImplement, Verify, Review, ReviewAnswered, Learn, StopLoop, NextIteration,
                UpdateState, At, Goto
  <2> QED
    BY <2>1, <1>1
<1> HIDE DEF Moved
<1>7. UNCHANGED drive \/ \E p \in Proc : Moved(p)
  BY <1>2, <1>3, <1>4, <1>5, <1>6 DEF Next, Step, vars, Unlock
<1> QED
  BY <1>7 DEF Moved

\* Outside `implement` and the unlock command the lock is untouched, and no
\* process enters the state in which its agent works.
LEMMA LockFrame ==
  ASSUME TypeInv, [Next]_vars
  PROVE  \/ /\ UNCHANGED lock
            /\ \A q \in Proc : drive'[q].pc = "implementing" =>
                  drive[q].pc = "implementing" /\ drive'[q].id = drive[q].id
         \/ \E p \in Proc : BeginImplement(p) \/ EndImplement(p)
         \/ Unlock
<1> DEFINE Quiet ==
             /\ UNCHANGED lock
             /\ \A q \in Proc : drive'[q].pc = "implementing" =>
                   drive[q].pc = "implementing" /\ drive'[q].id = drive[q].id
<1>0. drive \in [Proc -> Drives]
  BY DEF TypeInv, TypeOK
<1>9. ASSUME NEW p \in Proc, UNCHANGED lock,
             \A q \in Proc : q # p => drive'[q] = drive[q],
             drive'[p].pc # "implementing"
      PROVE  Quiet
  BY <1>9
<1>1. ASSUME NEW p \in Proc, NEW c, Commit(p, c), UNCHANGED lock
      PROVE  Quiet
  <2>1. drive'[p].pc = "driving" /\ \A q \in Proc : q # p => drive'[q] = drive[q]
    BY <1>0, <1>1 DEF Commit, Drives
  <2> HIDE DEF Quiet
  <2> QED
    BY <1>1, <1>9, <2>1
<1>2. ASSUME NEW p \in Proc, Start(p) \/ (\E kind \in Kinds : Resume(p, kind))
      PROVE  Quiet
  <2>1. CASE Start(p)
    BY <1>0, <2>1, <1>9 DEF Start, Idle
  <2>2. ASSUME NEW kind \in Kinds, Resume(p, kind)
        PROVE  Quiet
    BY <1>0, <2>2, <1>9 DEF Resume
  <2> QED
    BY <1>2, <2>1, <2>2
<1>3. ASSUME NEW p \in Proc, Interrupt(p) \/ RefuseDecision(p) \/ PlanApproved(p)
      PROVE  Quiet
  <2>1. CASE Interrupt(p)
    BY <1>0, <2>1, <1>9 DEF Interrupt, Drives
  <2>2. CASE RefuseDecision(p)
    BY <1>0, <2>2, <1>9 DEF RefuseDecision, Drives
  <2>3. CASE PlanApproved(p)
    BY <1>0, <2>3, <1>9 DEF PlanApproved, Drives
  <2> QED
    BY <1>3, <2>1, <2>2, <2>3
<1>4. ASSUME NEW p \in Proc, Crash(p) \/ SaveAwaiting(p) \/ SaveFailed(p) \/ SaveFinished(p)
      PROVE  Quiet
  BY <1>0, <1>4 DEF Crash, SaveAwaiting, SaveFailed, SaveFinished, Settle, Idle
<1>5. ASSUME NEW p \in Proc,
             \/ Understand(p) \/ Inspect(p) \/ Plan(p) \/ PlanRejected(p) \/ PlanFeedback(p)
             \/ ReturnGrant(p) \/ ImplementNothing(p) \/ Verify(p) \/ Review(p)
             \/ ReviewAnswered(p) \/ Learn(p) \/ StopLoop(p) \/ NextIteration(p) \/ UpdateState(p)
      PROVE  Quiet
  <2>1. UNCHANGED lock /\ \E c : Commit(p, c)
    BY <1>5 DEF Understand, Inspect, Plan, PlanRejected, PlanFeedback, ReturnGrant, ImplementNothing,
                Verify, Review, ReviewAnswered, Learn, StopLoop, NextIteration, UpdateState, Goto
  <2> QED
    BY <2>1, <1>1
<1>6. CASE UNCHANGED vars
  BY <1>6 DEF vars
<1> HIDE DEF Quiet
<1>7. ASSUME NEW p \in Proc, Step(p)
      PROVE  Quiet \/ BeginImplement(p) \/ EndImplement(p)
  BY <1>3, <1>4, <1>5, <1>7 DEF Step
<1>8. ASSUME Next
      PROVE  Quiet \/ (\E p \in Proc : BeginImplement(p) \/ EndImplement(p)) \/ Unlock
  <2>1. ASSUME NEW p \in Proc, Start(p) \/ Step(p) \/ Crash(p)
        PROVE  Quiet \/ BeginImplement(p) \/ EndImplement(p)
    BY <1>2, <1>4, <1>7, <2>1
  <2>2. ASSUME NEW p \in Proc, NEW kind \in Kinds, Resume(p, kind)
        PROVE  Quiet
    BY <1>2, <2>2
  <2> QED
    BY <1>8, <2>1, <2>2 DEF Next
<1> QED
  BY <1>6, <1>8 DEF Quiet

\* The project lock keeps the agents of concurrent resumes apart, stale locks
\* and the human's unlock command included.
THEOREM ExclusiveAgents == Spec => []OneAgentAtATime
<1>1. Init => AgentInv
  BY DEF Init, AgentInv, Idle
<1>2. TypeInv /\ AgentInv /\ [Next]_vars => AgentInv'
  <2> SUFFICES ASSUME TypeInv, AgentInv, [Next]_vars
               PROVE  AgentInv'
    OBVIOUS
  <2>0. /\ drive \in [Proc -> Drives] /\ drives \in 0 .. MaxDrives
        /\ \A p \in Proc : drive[p].pc # "idle" => drive[p].id \in 1 .. drives
    BY DEF TypeInv, TypeOK, FilesInv
  <2>1. \A p, q \in Proc :
           drive'[p].pc # "idle" /\ drive'[q].pc # "idle" /\ drive'[p].id = drive'[q].id => p = q
    <3>1. CASE UNCHANGED drive
      BY <3>1 DEF AgentInv
    <3>2. ASSUME NEW r \in Proc,
                 \A q \in Proc : q # r => drive'[q] = drive[q],
                 \/ drive'[r].pc = "idle"
                 \/ drive[r].pc # "idle" /\ drive'[r].id = drive[r].id
                 \/ drive'[r].id = drives + 1
          PROVE  \A p, q \in Proc :
                    drive'[p].pc # "idle" /\ drive'[q].pc # "idle" /\ drive'[p].id = drive'[q].id
                       => p = q
      BY <2>0, <3>2, BoundAssumption DEF AgentInv
    <3> QED
      BY <3>1, <3>2, DriveFrame
  <2>2. \A p \in Proc : drive'[p].pc = "implementing" => lock' = drive'[p].id
    <3>1. CASE /\ UNCHANGED lock
               /\ \A q \in Proc : drive'[q].pc = "implementing" =>
                     drive[q].pc = "implementing" /\ drive'[q].id = drive[q].id
      BY <3>1 DEF AgentInv
    <3>2. ASSUME NEW r \in Proc, BeginImplement(r)
          PROVE  \A p \in Proc : drive'[p].pc = "implementing" => lock' = drive'[p].id
      <4>1. \A p \in Proc : drive[p].pc # "implementing"
        BY <3>2, <2>0, BoundAssumption, NoneAssumption DEF BeginImplement, AgentInv, Drives
      <4> QED
        BY <3>2, <4>1, <2>0 DEF BeginImplement, Drives
    <3>3. ASSUME NEW r \in Proc, EndImplement(r)
          PROVE  \A p \in Proc : drive'[p].pc = "implementing" => lock' = drive'[p].id
      <4>1. \A p \in Proc : drive[p].pc = "implementing" => p = r
        BY <3>3 DEF EndImplement, AgentInv
      <4>2. \A p \in Proc : drive'[p].pc # "implementing"
        BY <3>3, <4>1, <2>0 DEF EndImplement, Commit, Drives
      <4> QED
        BY <4>2
    <3>4. CASE Unlock
      BY <3>4 DEF Unlock, AgentInv
    <3> QED
      BY <3>1, <3>2, <3>3, <3>4, LockFrame
  <2> QED
    BY <2>1, <2>2 DEF AgentInv
<1>3. AgentInv => OneAgentAtATime
  BY DEF AgentInv, OneAgentAtATime
<1> QED
  BY <1>1, <1>2, <1>3, TypeAlways, PTL DEF Spec
-----------------------------------------------------------------------------
(* Everything the channels claim about a human, the human has said. *)

Heard(said, a, kinds) == \E kind \in kinds : [approvalId |-> a, kind |-> kind] \in said

\* In channels c every decision, the grant and the outcome descend from
\* decisions in `said`, and no run ends without an outcome.
Grounded(said, c) ==
    /\ \A a \in Approvals : c.decided[a] # None =>
          [approvalId |-> a, kind |-> c.decided[a]] \in said
    /\ c.grant # None => c.grant.approval.gate = "plan"
                            /\ Heard(said, c.grant.approval, {"approve", "edit"})
    /\ c.outcome = "approved" =>
          \E a \in Approvals : a.gate = "review" /\ Heard(said, a, {"approve"})
    /\ c.outcome \in {"rejected_at_plan", "rejected_at_review"} =>
          \E a \in Approvals : Heard(said, a, {"reject"})
    /\ c.next \in {"update_state", "end"} => c.outcome \notin {None, "changes_requested"}

\* It holds of the checkpoint and of what every driving process carries.
GroundInv ==
    /\ checkpoint # None => Grounded(spoken, checkpoint)
    /\ \A p \in Proc : drive[p].pc # "idle" => Grounded(spoken, drive[p].chan)

\* A person saying more takes nothing back.
LEMMA GroundedMonotone ==
  ASSUME NEW said, NEW more, said \subseteq more, NEW c, Grounded(said, c)
  PROVE  Grounded(more, c)
  BY DEF Grounded, Heard

\* Channels that keep the decisions, and keep or drop the grant and the outcome.
LEMMA GroundedKept ==
  ASSUME NEW said, NEW c, Grounded(said, c), NEW d,
         d.decided = c.decided,
         d.grant = c.grant \/ d.grant = None,
         \/ d.outcome = c.outcome /\ (d.next \in {"update_state", "end"} => c.next = "update_state")
         \/ d.outcome = None /\ d.next \notin {"update_state", "end"}
  PROVE  Grounded(said, d)
  BY NoneAssumption DEF Grounded, Outcomes

\* Recording a decision the human took.
LEMMA RecordedDecision ==
  ASSUME NEW said, NEW c \in Channels, Grounded(said, c), NEW gate \in {"plan", "review"},
         NEW kind \in Kinds, [approvalId |-> approvalIdFor(gate, c), kind |-> kind] \in said
  PROVE  /\ Heard(said, approvalIdFor(gate, c), {kind})
         /\ \A a \in Approvals : Record(c, gate, kind).decided[a] # None =>
              [approvalId |-> a, kind |-> Record(c, gate, kind).decided[a]] \in said
         /\ Record(c, gate, kind) = [c EXCEPT !.decided = Record(c, gate, kind).decided]
<1>1. approvalIdFor(gate, c) \in Approvals
  BY ApprovalIdType
<1>2. Record(c, gate, kind).decided = [c.decided EXCEPT ![approvalIdFor(gate, c)] = kind]
  BY DEF Record, Channels
<1>3. c.decided \in [Approvals -> Kinds \cup {None}]
  BY DEF Channels
<1>4. ASSUME NEW a \in Approvals, Record(c, gate, kind).decided[a] # None
      PROVE  [approvalId |-> a, kind |-> Record(c, gate, kind).decided[a]] \in said
  <2>1. CASE a = approvalIdFor(gate, c)
    BY <1>2, <1>3, <2>1
  <2>2. CASE a # approvalIdFor(gate, c)
    BY <1>2, <1>3, <1>4, <2>2 DEF Grounded
  <2> QED
    BY <2>1, <2>2
<1>5. Record(c, gate, kind) = [c EXCEPT !.decided = Record(c, gate, kind).decided]
  BY DEF Record, Channels
<1> QED
  BY <1>4, <1>5 DEF Heard

\* A node that returns grounded channels.
LEMMA GroundedCommit ==
  ASSUME TypeInv, GroundInv, NEW p \in Proc, NEW c, Commit(p, c), Grounded(spoken, c),
         UNCHANGED spoken
  PROVE  GroundInv'
<1>1. drive \in [Proc -> Drives]
  BY DEF TypeInv, TypeOK
<1>2. drive'[p].chan = c /\ \A q \in Proc : q # p => drive'[q] = drive[q]
  BY <1>1 DEF Commit, Drives
<1> QED
  BY <1>2 DEF GroundInv, Commit

\* Nothing said, and every process idle or as it was.
LEMMA GroundedMove ==
  ASSUME TypeInv, GroundInv, NEW p \in Proc, UNCHANGED <<spoken, checkpoint>>,
         \A q \in Proc : q # p => drive'[q] = drive[q],
         drive'[p].pc # "idle" => Grounded(spoken, drive'[p].chan)
  PROVE  GroundInv'
  BY DEF GroundInv

LEMMA GroundInductive == TypeInv /\ GroundInv /\ [Next]_vars => GroundInv'
<1> SUFFICES ASSUME TypeInv, GroundInv, [Next]_vars
             PROVE  GroundInv'
  OBVIOUS
<1>d. drive \in [Proc -> Drives]
  BY DEF TypeInv, TypeOK
<1>c. ASSUME NEW p \in Proc, drive[p].pc # "idle"
      PROVE  drive[p].chan \in Channels /\ Grounded(spoken, drive[p].chan)
  BY <1>c, <1>d DEF GroundInv, Drives
<1>r. ASSUME NEW p \in Proc, NEW gate \in {"plan", "review"}, NEW kind \in Kinds,
             Answered(p, gate, kind)
      PROVE  [approvalId |-> approvalIdFor(gate, drive[p].chan), kind |-> kind] \in spoken
  BY <1>r DEF Answered, TypeInv, ResumeInv
<1>1. ASSUME NEW p \in Proc, Start(p)
      PROVE  GroundInv'
  <2>1. Grounded(spoken, FirstChannels)
    BY NoneAssumption DEF Grounded, FirstChannels, Outcomes
  <2>2. drive'[p].chan = FirstChannels /\ \A q \in Proc : q # p => drive'[q] = drive[q]
    BY <1>1, <1>d DEF Start, Idle
  <2> QED
    BY <1>1, <2>1, <2>2 DEF Start, GroundInv
<1>2. ASSUME NEW p \in Proc, NEW kind \in Kinds, Resume(p, kind)
      PROVE  GroundInv'
  <2>1. spoken \subseteq spoken' /\ checkpoint' = checkpoint /\ checkpoint # None
    BY <1>2 DEF Resume, TypeInv, FilesInv
  <2>2. Grounded(spoken', checkpoint)
    BY <2>1, GroundedMonotone DEF GroundInv
  <2>3. drive'[p].chan = checkpoint /\ \A q \in Proc : q # p => drive'[q] = drive[q]
    BY <1>2, <1>d DEF Resume
  <2>4. \A q \in Proc : drive[q].pc # "idle" => Grounded(spoken', drive[q].chan)
    BY <2>1, GroundedMonotone DEF GroundInv
  <2> QED
    BY <2>1, <2>2, <2>3, <2>4 DEF GroundInv
<1>3. ASSUME NEW p \in Proc,
             \/ Understand(p) \/ Inspect(p) \/ Plan(p) \/ Learn(p) \/ UpdateState(p)
             \/ ImplementNothing(p) \/ EndImplement(p) \/ Verify(p) \/ Review(p)
      PROVE  GroundInv'
  <2>1. drive[p].pc # "idle" /\ UNCHANGED spoken
    BY <1>3 DEF Understand, Inspect, Plan, Learn, UpdateState, ImplementNothing, EndImplement,
                Verify, Review, At
  <2>2. PICK d \in Channels :
           /\ Commit(p, d)
           /\ d.decided = drive[p].chan.decided
           /\ d.grant = drive[p].chan.grant \/ d.grant = None
           /\ d.outcome = drive[p].chan.outcome
           /\ d.next \in {"update_state", "end"} => drive[p].chan.next = "update_state"
    <3> DEFINE Kept(d) ==
                 /\ Commit(p, d)
                 /\ d.decided = drive[p].chan.decided
                 /\ d.grant = drive[p].chan.grant \/ d.grant = None
                 /\ d.outcome = drive[p].chan.outcome
                 /\ d.next \in {"update_state", "end"} => drive[p].chan.next = "update_state"
    <3>c. drive[p].chan \in Channels
      BY <2>1, <1>c
    <3>1. ASSUME NEW n \in Nodes \cup {"end"}, Goto(p, n),
                 n \in {"update_state", "end"} => drive[p].chan.next = "update_state"
          PROVE  \E d \in Channels : Kept(d)
      <4>1. [drive[p].chan EXCEPT !.next = n] \in Channels
        BY <3>c DEF Channels
      <4> QED
        BY <3>1, <3>c, <4>1 DEF Goto, Channels
    <3>2. CASE Understand(p) \/ Inspect(p) \/ Plan(p) \/ Learn(p) \/ UpdateState(p)
      BY <3>1, <3>2 DEF Understand, Inspect, Plan, Learn, UpdateState, At, Nodes
    <3>3. ASSUME NEW grant \in {drive[p].chan.grant, None}, NEW impl \in ImplStatus \cup {None},
                 Commit(p, [drive[p].chan EXCEPT !.next = "verify", !.impl = impl, !.grant = grant])
          PROVE  \E d \in Channels : Kept(d)
      <4>1. [drive[p].chan EXCEPT !.next = "verify", !.impl = impl, !.grant = grant] \in Channels
        BY <3>c DEF Channels, Nodes
      <4> QED
        BY <3>3, <3>c, <4>1 DEF Channels
    <3>4. CASE ImplementNothing(p)
      BY <3>3, <3>4, <3>c DEF ImplementNothing, Channels
    <3>5. CASE EndImplement(p)
      <4>1. PICK s \in ImplStatus :
               Commit(p, [drive[p].chan EXCEPT !.next = "verify", !.impl = s])
        BY <3>5 DEF EndImplement
      <4>2. [drive[p].chan EXCEPT !.next = "verify", !.impl = s] =
            [drive[p].chan EXCEPT !.next = "verify", !.impl = s, !.grant = drive[p].chan.grant]
        BY <3>c DEF Channels
      <4> QED
        BY <4>1, <4>2, <3>3
    <3>6. ASSUME NEW n \in {"review", "approve_review"}, NEW u \in BOOLEAN,
                 Commit(p, [drive[p].chan EXCEPT !.next = n, !.unsafe = u])
          PROVE  \E d \in Channels : Kept(d)
      <4>1. [drive[p].chan EXCEPT !.next = n, !.unsafe = u] \in Channels
        BY <3>c DEF Channels, Nodes
      <4> QED
        BY <3>6, <3>c, <4>1 DEF Channels
    <3>7. CASE Verify(p)
      BY <3>6, <3>7 DEF Verify
    <3>8. CASE Review(p)
      BY <3>6, <3>8, <3>c DEF Review, Channels
    <3> QED
      BY <1>3, <3>2, <3>4, <3>5, <3>7, <3>8
  <2>3. Grounded(spoken, d)
    BY <1>c, <2>1, <2>2, GroundedKept
  <2> QED
    BY <2>1, <2>2, <2>3, GroundedCommit
<1>4. ASSUME NEW p \in Proc,
             \/ Interrupt(p) \/ RefuseDecision(p) \/ BeginImplement(p) \/ Crash(p)
             \/ SaveAwaiting(p) \/ SaveFailed(p) \/ SaveFinished(p)
      PROVE  GroundInv'
  <2>1. /\ UNCHANGED <<spoken, checkpoint>>
        /\ \A q \in Proc : q # p => drive'[q] = drive[q]
        /\ drive'[p].pc # "idle" => drive[p].pc # "idle" /\ drive'[p].chan = drive[p].chan
    <3>1. CASE Crash(p) \/ SaveAwaiting(p) \/ SaveFailed(p) \/ SaveFinished(p)
      BY <1>d, <3>1 DEF Crash, SaveAwaiting, SaveFailed, SaveFinished, Settle, Idle
    <3>2. CASE Interrupt(p) \/ RefuseDecision(p) \/ BeginImplement(p)
      BY <1>d, <3>2 DEF Interrupt, RefuseDecision, BeginImplement, At, Drives
    <3> QED
      BY <1>4, <3>1, <3>2
  <2> QED
    BY <2>1, <1>c, GroundedMove
<1>5. ASSUME NEW p \in Proc, PlanRejected(p) \/ PlanFeedback(p) \/ ReviewAnswered(p)
      PROVE  GroundInv'
  <2>1. drive[p].pc # "idle" /\ UNCHANGED spoken
    BY <1>5 DEF PlanRejected, PlanFeedback, ReviewAnswered, At
  <2> DEFINE c == drive[p].chan
  <2>2. c \in Channels /\ Grounded(spoken, c)
    BY <2>1, <1>c
  <2>3. CASE PlanRejected(p)
    <3> DEFINE d == [Record(c, "plan", "reject") EXCEPT
                       !.next = "update_state", !.outcome = "rejected_at_plan"]
    <3>1. Answered(p, "plan", "reject") /\ Commit(p, d)
      BY <2>3 DEF PlanRejected
    <3>2. /\ Heard(spoken, approvalIdFor("plan", c), {"reject"})
          /\ \A a \in Approvals : Record(c, "plan", "reject").decided[a] # None =>
               [approvalId |-> a, kind |-> Record(c, "plan", "reject").decided[a]] \in spoken
      BY <3>1, <1>r, <2>2, RecordedDecision DEF Kinds
    <3>3. /\ Record(c, "plan", "reject") \in Channels
          /\ Record(c, "plan", "reject").grant = c.grant
      BY <2>2, RecordType DEF Kinds
    <3>4. d.decided = Record(c, "plan", "reject").decided /\ d.grant = c.grant
          /\ d.outcome = "rejected_at_plan" /\ d.next = "update_state"
      BY <3>3 DEF Channels
    <3>5. approvalIdFor("plan", c) \in Approvals
      BY <2>2, ApprovalIdType
    <3> HIDE DEF c, d
    <3>6. Grounded(spoken, d)
      BY <2>2, <3>2, <3>4, <3>5, NoneAssumption DEF Grounded, Outcomes
    <3> QED
      BY <3>1, <3>6, <2>1, GroundedCommit
  <2>4. CASE PlanFeedback(p)
    <3> DEFINE d == [Record(c, "plan", "feedback") EXCEPT !.next = "plan", !.revisions = @ + 1]
    <3>1. Answered(p, "plan", "feedback") /\ Commit(p, d)
      BY <2>4 DEF PlanFeedback
    <3>2. \A a \in Approvals : Record(c, "plan", "feedback").decided[a] # None =>
             [approvalId |-> a, kind |-> Record(c, "plan", "feedback").decided[a]] \in spoken
      BY <3>1, <1>r, <2>2, RecordedDecision DEF Kinds
    <3>3. /\ Record(c, "plan", "feedback") \in Channels
          /\ Record(c, "plan", "feedback").grant = c.grant
          /\ Record(c, "plan", "feedback").outcome = c.outcome
      BY <2>2, RecordType DEF Kinds
    <3>4. d.decided = Record(c, "plan", "feedback").decided /\ d.grant = c.grant
          /\ d.outcome = c.outcome /\ d.next = "plan"
      BY <3>3 DEF Channels
    <3> HIDE DEF c, d
    <3>6. Grounded(spoken, d)
      BY <2>2, <3>2, <3>4 DEF Grounded
    <3> QED
      BY <3>1, <3>6, <2>1, GroundedCommit
  <2>5. ASSUME NEW kind \in Kinds, Answered(p, "review", kind),
               Commit(p, [Record(c, "review", kind) EXCEPT
                            !.next = "learn", !.outcome = ReviewOutcome(kind)])
        PROVE  GroundInv'
    <3> DEFINE d == [Record(c, "review", kind) EXCEPT
                       !.next = "learn", !.outcome = ReviewOutcome(kind)]
    <3>1. Commit(p, d)
      BY <2>5
    <3>s. [approvalId |-> approvalIdFor("review", c), kind |-> kind] \in spoken
      BY <2>5, <1>r
    <3> HIDE DEF c
    <3>2. /\ Heard(spoken, approvalIdFor("review", c), {kind})
          /\ \A a \in Approvals : Record(c, "review", kind).decided[a] # None =>
               [approvalId |-> a, kind |-> Record(c, "review", kind).decided[a]] \in spoken
      BY <3>s, <2>2, RecordedDecision
    <3>3. /\ Record(c, "review", kind) \in Channels
          /\ Record(c, "review", kind).grant = c.grant
      BY <2>2, RecordType
    <3>4. d.decided = Record(c, "review", kind).decided /\ d.grant = c.grant
          /\ d.outcome = ReviewOutcome(kind) /\ d.next = "learn"
      BY <3>3 DEF Channels
    <3>5. approvalIdFor("review", c) \in Approvals /\ approvalIdFor("review", c).gate = "review"
      BY <2>2, ApprovalIdType DEF approvalIdFor
    <3>7. /\ ReviewOutcome(kind) = "approved" => kind = "approve"
          /\ ReviewOutcome(kind) \in {"rejected_at_plan", "rejected_at_review"} => kind = "reject"
      BY DEF ReviewOutcome
    <3> HIDE DEF d
    <3>6. Grounded(spoken, d)
      BY <2>2, <3>2, <3>4, <3>5, <3>7 DEF Grounded
    <3> QED
      BY <3>1, <3>6, <2>1, GroundedCommit
  <2> QED
    BY <1>5, <2>3, <2>4, <2>5 DEF ReviewAnswered
<1>6. ASSUME NEW p \in Proc, PlanApproved(p)
      PROVE  GroundInv'
  <2>1. drive[p].pc # "idle" /\ UNCHANGED <<spoken, checkpoint>>
    BY <1>6 DEF PlanApproved, At
  <2> DEFINE c == drive[p].chan
             g == [approval |-> approvalIdFor("plan", c), issue |-> drive[p].id]
             d(kind) == [Record(c, "plan", kind) EXCEPT !.next = "implement", !.grant = g]
  <2>2. c \in Channels /\ Grounded(spoken, c)
    BY <2>1, <1>c
  <2>3. PICK kind \in {"approve", "edit"} :
           Answered(p, "plan", kind)
           /\ drive' = [drive EXCEPT ![p] = [@ EXCEPT !.pc = "minted", !.chan = d(kind)]]
    BY <1>6 DEF PlanApproved
  <2>k. kind \in Kinds
    BY DEF Kinds
  <2>s. [approvalId |-> approvalIdFor("plan", c), kind |-> kind] \in spoken
    BY <2>3, <2>k, <1>r
  <2>7. g.approval = approvalIdFor("plan", c) /\ g.approval.gate = "plan"
    BY DEF approvalIdFor
  <2> HIDE DEF c
  <2>4. /\ Heard(spoken, approvalIdFor("plan", c), {kind})
        /\ \A a \in Approvals : Record(c, "plan", kind).decided[a] # None =>
             [approvalId |-> a, kind |-> Record(c, "plan", kind).decided[a]] \in spoken
    BY <2>2, <2>k, <2>s, RecordedDecision
  <2>5. Record(c, "plan", kind) \in Channels /\ Record(c, "plan", kind).outcome = c.outcome
    BY <2>2, <2>k, RecordType
  <2>6. d(kind).decided = Record(c, "plan", kind).decided /\ d(kind).grant = g
        /\ d(kind).outcome = c.outcome /\ d(kind).next = "implement"
    BY <2>5 DEF Channels
  <2> HIDE DEF g, d
  <2>8. drive'[p].chan = d(kind) /\ \A q \in Proc : q # p => drive'[q] = drive[q]
    BY <2>3, <1>d DEF Drives
  <2>9. Grounded(spoken, d(kind))
    BY <2>2, <2>4, <2>6, <2>7 DEF Grounded, Heard
  <2> QED
    BY <2>1, <2>8, <2>9, GroundedMove
<1>7. ASSUME NEW p \in Proc, ReturnGrant(p)
      PROVE  GroundInv'
  BY <1>7, <1>c, GroundedCommit DEF ReturnGrant
<1>8. ASSUME NEW p \in Proc, StopLoop(p)
      PROVE  GroundInv'
  <2>1. drive[p].pc # "idle" /\ UNCHANGED spoken
    BY <1>8 DEF StopLoop, At
  <2> DEFINE c == drive[p].chan
             o == LoopOutcome(c)
             d == [c EXCEPT !.next = "update_state", !.outcome = o]
  <2>2. c \in Channels /\ Grounded(spoken, c)
    BY <2>1, <1>c
  <2>3. Commit(p, d) /\ o # "continue"
    BY <1>8 DEF StopLoop
  <2>4. d.decided = c.decided /\ d.grant = c.grant /\ d.outcome = o /\ d.next = "update_state"
    BY <2>2 DEF Channels
  <2>5. /\ o \in Outcomes
        /\ o = "approved" => c.decided[approvalIdFor("review", c)] = "approve"
        /\ o = "rejected_at_review" => c.decided[approvalIdFor("review", c)] = "reject"
        /\ o \notin {"changes_requested", "rejected_at_plan"}
    BY <2>2, <2>3, LoopOutcomeType
  <2>6. approvalIdFor("review", c) \in Approvals /\ approvalIdFor("review", c).gate = "review"
    BY <2>2, ApprovalIdType DEF approvalIdFor
  <2> HIDE DEF c, o, d
  <2>7. Grounded(spoken, d)
    <3>0. \A a \in Approvals, kind \in Kinds : c.decided[a] = kind => Heard(spoken, a, {kind})
      BY <2>2, NoneAssumption DEF Grounded, Heard
    <3>1. o = "approved" => Heard(spoken, approvalIdFor("review", c), {"approve"})
      BY <2>5, <2>6, <3>0 DEF Kinds
    <3>2. o = "rejected_at_review" => Heard(spoken, approvalIdFor("review", c), {"reject"})
      BY <2>5, <2>6, <3>0 DEF Kinds
    <3> QED
      BY <2>2, <2>4, <2>5, <2>6, <3>1, <3>2, NoneAssumption DEF Grounded
  <2> QED
    BY <2>1, <2>3, <2>7, GroundedCommit
<1>9. ASSUME NEW p \in Proc, NextIteration(p)
      PROVE  GroundInv'
  <2>1. drive[p].pc # "idle" /\ UNCHANGED spoken
    BY <1>9 DEF NextIteration, At
  <2> DEFINE c == drive[p].chan
             d == [FirstChannels EXCEPT !.next = "inspect", !.iteration = c.iteration + 1,
                                        !.decided = c.decided]
  <2>2. Grounded(spoken, c) /\ Commit(p, d)
    BY <2>1, <1>c, <1>9 DEF NextIteration
  <2>3. d.decided = c.decided /\ d.grant = None /\ d.outcome = None /\ d.next = "inspect"
    BY DEF FirstChannels
  <2> HIDE DEF c, d
  <2> QED
    BY <2>1, <2>2, <2>3, GroundedKept, GroundedCommit
<1>10. CASE Unlock \/ UNCHANGED vars
  BY <1>10 DEF Unlock, vars, GroundInv
<1>11. ASSUME NEW p \in Proc, Step(p)
       PROVE  GroundInv'
  BY <1>3, <1>4, <1>5, <1>6, <1>7, <1>8, <1>9, <1>11 DEF Step
<1> QED
  BY <1>1, <1>2, <1>4, <1>10, <1>11 DEF Next

\* The record, the claims and the decisions move only where HumanGate moves.
LEMMA GateFrame ==
  ASSUME [Next]_vars
  PROVE  \/ UNCHANGED <<record, claims, spoken>>
         \/ \E p \in Proc : \/ Start(p) \/ BeginImplement(p)
                            \/ SaveAwaiting(p) \/ SaveFailed(p) \/ SaveFinished(p)
         \/ \E p \in Proc, kind \in Kinds : Resume(p, kind)
  BY DEF Next, Step, vars, Crash, Unlock, Understand, Inspect, Plan, Interrupt, RefuseDecision,
         PlanRejected, PlanFeedback, PlanApproved, ReturnGrant, ImplementNothing, EndImplement,
         Verify, Review, ReviewAnswered, Learn, StopLoop, NextIteration, UpdateState

LEMMA PlanKeyInjective ==
  ASSUME NEW i \in GrantKeys, NEW j \in GrantKeys, PlanKey(i) = PlanKey(j)
  PROVE  i = j
<1>1. i[1] = j[1] /\ i[2] = j[2]
  BY DEF PlanKey
<1> QED
  BY <1>1 DEF GrantKeys

\* The approval loop implements what is promised to the human: no agent without
\* that plan's approval, one agent per approval, no verdict nobody spoke.
THEOREM GateRefined == Spec => GateKept
<1> USE DEF Gate!gateVars
<1>1. Init => Gate!GateInit
  BY DEF Init, Gate!GateInit
<1>2. TypeInv /\ GroundInv /\ [Next]_vars => [Gate!GateNext]_(Gate!gateVars)
  <2> SUFFICES ASSUME TypeInv, GroundInv, [Next]_vars
               PROVE  [Gate!GateNext]_(Gate!gateVars)
    OBVIOUS
  <2>d. drive \in [Proc -> Drives] /\ record \in Records \cup {None}
    BY DEF TypeInv, TypeOK
  <2>1. CASE UNCHANGED <<record, claims, spoken>>
    BY <2>1
  <2>2. ASSUME NEW p \in Proc, NEW kind \in Kinds, Resume(p, kind)
        PROVE  Gate!GateNext
    <3>1. record.pending \in Approvals
      BY <2>2, <2>d DEF Resume, TypeInv, FilesInv, Records
    <3>2. Gate!Say
      BY <2>2, <3>1 DEF Resume, Gate!Say, Kinds, Gate!Kind
    <3> QED
      BY <3>2 DEF Gate!GateNext
  <2>3. ASSUME NEW p \in Proc, BeginImplement(p)
        PROVE  Gate!GateNext
    <3> DEFINE g == drive[p].chan.grant
               k == KeyOf(g)
    <3>1. g \in Grants /\ k \in GrantKeys \ claims /\ PlanKey(k) = g.approval
      BY <2>3, BegunGrant
    <3>2. g.approval \in Approvals /\ g.approval.gate = "plan"
      BY <3>1 DEF Grants, PlanKey
    <3>3. Gate!Said(g.approval, {"approve", "edit"})
      <4>1. drive[p].pc # "idle" /\ g # None
        BY <2>3 DEF BeginImplement, At, GrantIsCurrent
      <4> QED
        BY <4>1 DEF GroundInv, Grounded, Heard, Gate!Said
    <3>4. claims \subseteq GrantKeys
      BY DEF TypeInv, TypeOK
    <3> HIDE DEF g, k
    <3>5. PlanKey(k) \notin {PlanKey(j) : j \in claims}
      BY <3>1, <3>4, PlanKeyInjective
    <3>6. UNCHANGED <<record, spoken>> /\ claims' = claims \cup {k}
      BY <2>3 DEF BeginImplement, g, k
    <3>7. {PlanKey(j) : j \in claims}' = {PlanKey(j) : j \in claims} \cup {PlanKey(k)}
      BY <3>6
    <3>8. Gate!Build
      BY <3>1, <3>2, <3>3, <3>5, <3>6, <3>7 DEF Gate!Build
    <3> QED
      BY <3>8 DEF Gate!GateNext
  <2>4. ASSUME NEW r \in Records, record' = r, UNCHANGED <<claims, spoken>>,
               r.status = "completed" =>
                 \E a \in Approvals : a.gate = "review" /\ Heard(spoken, a, {"approve"}),
               r.status = "rejected" => \E a \in Approvals : Heard(spoken, a, {"reject"})
        PROVE  Gate!GateNext
    <3>1. r # None /\ r.status \in Statuses
      BY NoneAssumption DEF Records
    <3>2. Gate!Report
      BY <2>4, <3>1 DEF Gate!Report, Gate!Said, Heard
    <3> QED
      BY <3>2 DEF Gate!GateNext
  <2>5. ASSUME NEW p \in Proc, Start(p) \/ SaveAwaiting(p) \/ SaveFailed(p)
        PROVE  Gate!GateNext
    <3>1. /\ UNCHANGED <<claims, spoken>>
          /\ record'.status \in {"running", "awaiting_approval", "failed"}
      BY <2>5 DEF Start, SaveAwaiting, SaveFailed, Settle
    <3>2. record' \in Records
      <4>1. CASE Start(p)
        BY <4>1, LimitAssumption DEF Start, Records, Statuses, Iterations
      <4>2. CASE SaveAwaiting(p)
        <5>1. drive[p].chan \in Channels
          BY <2>d DEF Drives
        <5>2. drive[p].chan.iteration \in Iterations
          BY <5>1 DEF Channels
        <5> QED
          BY <4>2, <5>1, <5>2, ApprovalIdType DEF SaveAwaiting, Settle, Records, Statuses
      <4>3. CASE SaveFailed(p)
        <5>1. drive[p].base.pending \in Approvals \cup {None} /\ drive[p].base.iteration \in Iterations
          BY <2>d DEF Drives
        <5> QED
          BY <4>3, <5>1 DEF SaveFailed, Settle, Records, Statuses
      <4> QED
        BY <2>5, <4>1, <4>2, <4>3
    <3> QED
      BY <2>4, <3>1, <3>2
  <2>6. ASSUME NEW p \in Proc, SaveFinished(p)
        PROVE  Gate!GateNext
    <3> DEFINE c == drive[p].chan
    <3>1. /\ UNCHANGED <<claims, spoken>>
          /\ record' = [status |-> StatusOf(c.outcome), pending |-> None,
                        iteration |-> c.iteration, outcome |-> c.outcome]
          /\ drive[p].pc = "driving" /\ c.next = "end"
      BY <2>6 DEF SaveFinished, Settle
    <3>2. Grounded(spoken, c) /\ c \in Channels
      BY <3>1, <2>d DEF GroundInv, Drives
    <3>3. c.outcome \in Outcomes /\ c.outcome # "changes_requested"
      BY <3>1, <3>2 DEF Grounded, Channels
    <3>4. StatusOf(c.outcome) = "completed" => c.outcome = "approved"
      BY <3>3 DEF StatusOf, Outcomes
    <3>5. StatusOf(c.outcome) = "rejected" => c.outcome \in {"rejected_at_plan", "rejected_at_review"}
      BY <3>3 DEF StatusOf, Outcomes
    <3>6. c.iteration \in Iterations /\ StatusOf(c.outcome) \in Statuses
      BY <3>2 DEF Channels, StatusOf, Statuses
    <3> DEFINE r == [status |-> StatusOf(c.outcome), pending |-> None,
                     iteration |-> c.iteration, outcome |-> c.outcome]
    <3>7. r \in Records
      BY <3>3, <3>6 DEF Records
    <3>8. /\ r.status = "completed" =>
                \E a \in Approvals : a.gate = "review" /\ Heard(spoken, a, {"approve"})
          /\ r.status = "rejected" => \E a \in Approvals : Heard(spoken, a, {"reject"})
      BY <3>2, <3>4, <3>5 DEF Grounded
    <3>9. record' = r
      BY <3>1
    <3> HIDE DEF c, r
    <3> QED
      BY <2>4, <3>1, <3>7, <3>8, <3>9
  <2> QED
    BY <2>1, <2>2, <2>3, <2>5, <2>6, GateFrame
<1>3. Init => GroundInv
  BY DEF Init, GroundInv, Idle
<1> QED
  BY <1>1, <1>2, <1>3, TypeAlways, GroundInductive, PTL DEF Spec, GateKept, Gate!GateSpec

-----------------------------------------------------------------------------
(* One process, killed and resumed. *)

\* Channels a node may return: no decision is taken back, and a gate is left
\* only with its decision.
Follows(c, d) ==
    /\ \A a \in Approvals : c.decided[a] # None => d.decided[a] # None
    /\ c.next \in DOMAIN GateOf => d.decided[approvalIdFor(GateOf[c.next], c)] # None

\* A loop that ended approved ended without a safety condition, on the review of
\* its last iteration.
Closed(c) ==
    c.next \in {"update_state", "end"} /\ c.outcome = "approved" =>
        ~ c.unsafe /\ c.decided[approvalIdFor("review", c)] = "approve"

\* A live drive works on an open run and holds the checkpoint, or the one that
\* follows it while a grant is on its way there.
DriveInv == \A p \in Proc : drive[p].pc # "idle" =>
    /\ record # None /\ record.status \in {"running", "awaiting_approval"}
    /\ drive[p].pc # "minted" => drive[p].chan = checkpoint
    /\ drive[p].pc = "minted" => Follows(checkpoint, drive[p].chan) /\ drive[p].chan.next = "implement"
    /\ drive[p].pc = "suspending" => drive[p].chan.next \in DOMAIN GateOf
    /\ drive[p].pc = "implementing" => drive[p].chan.next = "implement"

SoloInv ==
    /\ DriveInv
    /\ checkpoint # None => Closed(checkpoint)
    /\ RecordNeverAhead
    /\ CompletedIsApprovedAndSafe

\* One process drives the run; another only after it died.
Alone == \A p, q \in Proc : p = q

\* The only process returns channels that follow those it read.
LEMMA SoloCommit ==
  ASSUME TypeInv, SoloInv, Alone, NEW p \in Proc, drive[p].pc # "idle", NEW c, Commit(p, c),
         Follows(checkpoint, c), Closed(c), UNCHANGED record
  PROVE  SoloInv'
<1>1. /\ drive'[p].pc = "driving" /\ drive'[p].chan = c /\ checkpoint' = c
      /\ \A q \in Proc : q = p
  BY DEF Commit, TypeInv, TypeOK, Drives, Alone
<1>2. record # None /\ record.status \in {"running", "awaiting_approval"}
  BY DEF SoloInv, DriveInv
<1>3. DriveInv'
  BY <1>1, <1>2 DEF DriveInv
<1>4. RecordNeverAhead'
  <2> SUFFICES ASSUME record.status = "awaiting_approval"
               PROVE  c.decided[record.pending] # None
    BY <1>1 DEF RecordNeverAhead
  <2>1. record.pending \in Approvals
    BY <1>2 DEF TypeInv, TypeOK, FilesInv, Records
  <2> QED
    BY <1>2, <2>1 DEF SoloInv, RecordNeverAhead, Follows
<1>5. CompletedIsApprovedAndSafe'
  BY <1>2 DEF CompletedIsApprovedAndSafe
<1> QED
  BY <1>1, <1>3, <1>4, <1>5 DEF SoloInv

\* The only process changes what it holds, and neither store.
LEMMA SoloMove ==
  ASSUME TypeInv, SoloInv, Alone, NEW p \in Proc, UNCHANGED <<record, checkpoint, spoken>>,
         drive[p].pc # "idle", drive[p].pc # "minted",
         drive'[p].pc # "idle" =>
             /\ drive'[p].pc # "minted" => drive'[p].chan = drive[p].chan
             /\ drive'[p].pc = "minted" =>
                   Follows(drive[p].chan, drive'[p].chan) /\ drive'[p].chan.next = "implement"
             /\ drive'[p].pc = "suspending" => drive'[p].chan.next \in DOMAIN GateOf
             /\ drive'[p].pc = "implementing" => drive'[p].chan.next = "implement"
  PROVE  SoloInv'
<1>1. DriveInv'
  BY DEF SoloInv, DriveInv, Alone
<1> QED
  BY <1>1 DEF SoloInv, RecordNeverAhead, CompletedIsApprovedAndSafe, Spoke

\* Channels that keep the decisions of a node that is no gate.
LEMMA FollowsKept ==
  ASSUME NEW c, NEW d, c.next \notin DOMAIN GateOf, d.decided = c.decided
  PROVE  Follows(c, d)
  BY DEF Follows

\* Channels in which a gate's decision was recorded.
LEMMA FollowsDecided ==
  ASSUME NEW c \in Channels, NEW d, NEW gate \in {"plan", "review"}, NEW kind \in Kinds,
         c.next \in DOMAIN GateOf, gate = GateOf[c.next],
         d.decided = Record(c, gate, kind).decided
  PROVE  Follows(c, d)
<1>1. approvalIdFor(gate, c) \in Approvals /\ c.decided \in [Approvals -> Kinds \cup {None}]
  BY ApprovalIdType DEF Channels
<1>2. d.decided = [c.decided EXCEPT ![approvalIdFor(gate, c)] = kind]
  BY DEF Record, Channels
<1>3. kind # None
  BY NoneAssumption
<1> QED
  BY <1>1, <1>2, <1>3 DEF Follows

LEMMA SoloInductive ==
  ASSUME TypeInv, GroundInv, SoloInv, Alone, [Next]_vars
  PROVE  SoloInv'
<1>d. drive \in [Proc -> Drives]
  BY DEF TypeInv, TypeOK
<1>c. ASSUME NEW p \in Proc, drive[p].pc \in {"driving", "implementing"}
      PROVE  /\ drive[p].pc # "idle" /\ drive[p].pc # "minted"
             /\ drive[p].chan \in Channels /\ drive[p].chan = checkpoint /\ Closed(checkpoint)
             /\ DOMAIN GateOf = {"approve_plan", "approve_review"}
             /\ GateOf["approve_plan"] = "plan" /\ GateOf["approve_review"] = "review"
  BY <1>c, <1>d, NoneAssumption DEF SoloInv, DriveInv, Drives, GateOf, TypeInv, FilesInv
<1>1. ASSUME NEW p \in Proc, Start(p)
      PROVE  SoloInv'
  <2>1. /\ drive'[p].pc = "driving" /\ drive'[p].chan = FirstChannels /\ checkpoint' = FirstChannels
        /\ record' = [status |-> "running", pending |-> None, iteration |-> 1, outcome |-> None]
    BY <1>1, <1>d DEF Start, Idle
  <2>0. record' \in Records /\ record'.status = "running"
    BY <2>1, LimitAssumption DEF Records, Statuses, Iterations
  <2>2. DriveInv'
    BY <2>0, <2>1, NoneAssumption DEF DriveInv, Alone
  <2>3. Closed(FirstChannels)
    BY DEF Closed, FirstChannels
  <2> QED
    BY <2>0, <2>1, <2>2, <2>3 DEF SoloInv, RecordNeverAhead, CompletedIsApprovedAndSafe
<1>2. ASSUME NEW p \in Proc, NEW kind \in Kinds, Resume(p, kind)
      PROVE  SoloInv'
  <2>1. /\ drive'[p].pc = "driving" /\ drive'[p].chan = checkpoint
        /\ UNCHANGED <<record, checkpoint>> /\ record # None /\ record.status = "awaiting_approval"
    BY <1>2, <1>d DEF Resume
  <2>2. DriveInv'
    BY <2>1 DEF DriveInv, Alone
  <2> QED
    BY <2>1, <2>2 DEF SoloInv, RecordNeverAhead, CompletedIsApprovedAndSafe
<1>3. ASSUME NEW p \in Proc, SaveAwaiting(p)
      PROVE  SoloInv'
  <2>1. /\ drive[p].pc = "suspending" /\ drive'[p].pc = "idle" /\ checkpoint' = checkpoint
        /\ record'.status = "awaiting_approval"
        /\ record'.pending = approvalIdFor(IF drive[p].chan.next = "approve_plan" THEN "plan" ELSE "review",
                                           drive[p].chan)
    BY <1>3, <1>d DEF SaveAwaiting, Settle, Idle
  <2>2. drive[p].chan = checkpoint /\ checkpoint.next \in {"approve_plan", "approve_review"}
    BY <2>1 DEF SoloInv, DriveInv, GateOf
  <2>3. RecordNeverAhead'
    BY <2>1, <2>2 DEF RecordNeverAhead, GateOf
  <2>4. DriveInv'
    BY <2>1 DEF DriveInv, Alone
  <2> QED
    BY <2>1, <2>3, <2>4 DEF SoloInv, CompletedIsApprovedAndSafe
<1>4. ASSUME NEW p \in Proc, SaveFailed(p)
      PROVE  SoloInv'
  <2>1. drive'[p].pc = "idle" /\ checkpoint' = checkpoint /\ record'.status = "failed"
    BY <1>4, <1>d DEF SaveFailed, Settle, Idle
  <2>2. DriveInv'
    BY <2>1 DEF DriveInv, Alone
  <2> QED
    BY <2>1, <2>2 DEF SoloInv, RecordNeverAhead, CompletedIsApprovedAndSafe
<1>5. ASSUME NEW p \in Proc, SaveFinished(p)
      PROVE  SoloInv'
  <2>1. /\ drive[p].pc = "driving" /\ drive[p].chan.next = "end"
        /\ drive'[p].pc = "idle" /\ UNCHANGED <<checkpoint, spoken>>
        /\ record'.status = StatusOf(drive[p].chan.outcome)
        /\ record'.iteration = drive[p].chan.iteration
    BY <1>5, <1>d DEF SaveFinished, Settle, Idle
  <2>2. /\ drive[p].chan = checkpoint /\ checkpoint \in Channels /\ Closed(checkpoint)
        /\ Grounded(spoken, checkpoint)
    BY <2>1, <1>c DEF GroundInv
  <2>3. checkpoint.outcome \in Outcomes /\ checkpoint.outcome # "changes_requested"
    BY <2>1, <2>2 DEF Grounded, Channels
  <2>4. /\ record'.status \in {"rejected", "incomplete", "completed"}
        /\ record'.status = "completed" => checkpoint.outcome = "approved"
    BY <2>1, <2>2, <2>3 DEF StatusOf, Outcomes
  <2>5. CompletedIsApprovedAndSafe'
    <3>1. ASSUME checkpoint.outcome = "approved"
          PROVE  /\ ~ checkpoint.unsafe
                 /\ [approvalId |-> approvalIdFor("review", checkpoint), kind |-> "approve"] \in spoken
      <4>1. ~ checkpoint.unsafe /\ checkpoint.decided[approvalIdFor("review", checkpoint)] = "approve"
        BY <2>1, <2>2, <3>1 DEF Closed
      <4>2. approvalIdFor("review", checkpoint) \in Approvals
        BY <2>2, ApprovalIdType
      <4>3. "approve" # None
        BY NoneAssumption DEF Kinds
      <4> QED
        BY <2>2, <4>1, <4>2, <4>3 DEF Grounded
    <3> QED
      BY <2>1, <2>2, <2>4, <3>1 DEF CompletedIsApprovedAndSafe, Spoke
  <2>6. DriveInv'
    BY <2>1 DEF DriveInv, Alone
  <2>7. RecordNeverAhead'
    BY <2>4 DEF RecordNeverAhead
  <2> QED
    BY <2>1, <2>2, <2>5, <2>6, <2>7 DEF SoloInv
<1>6. ASSUME NEW p \in Proc,
             \/ Understand(p) \/ Inspect(p) \/ Plan(p) \/ Learn(p) \/ UpdateState(p)
             \/ ImplementNothing(p) \/ EndImplement(p) \/ Verify(p) \/ Review(p)
      PROVE  SoloInv'
  <2>1. /\ drive[p].pc \in {"driving", "implementing"} /\ UNCHANGED record
        /\ drive[p].chan.next \notin DOMAIN GateOf
    <3>1. CASE EndImplement(p)
      BY <3>1 DEF EndImplement, SoloInv, DriveInv, GateOf
    <3>2. CASE Understand(p) \/ Inspect(p) \/ Plan(p) \/ Learn(p) \/ UpdateState(p)
      BY <3>2 DEF Understand, Inspect, Plan, Learn, UpdateState, At, GateOf
    <3>3. CASE ImplementNothing(p) \/ Verify(p) \/ Review(p)
      BY <3>3 DEF ImplementNothing, Verify, Review, At, GateOf
    <3> QED
      BY <1>6, <3>1, <3>2, <3>3
  <2> DEFINE Kept(d) ==
               /\ Commit(p, d)
               /\ d.decided = drive[p].chan.decided
               /\ \/ d.next \notin {"update_state", "end"}
                  \/ /\ drive[p].chan.next = "update_state"
                     /\ d.outcome = drive[p].chan.outcome /\ d.unsafe = drive[p].chan.unsafe
                     /\ d.iteration = drive[p].chan.iteration /\ d.revisions = drive[p].chan.revisions
  <2>c. drive[p].chan \in Channels
    BY <2>1, <1>c
  <2>2. \E d : Kept(d)
    <3>1. CASE Understand(p) \/ Inspect(p) \/ Plan(p) \/ Learn(p)
      <4>1. PICK n \in {"inspect", "plan", "approve_plan", "next_iteration"} : Goto(p, n)
        BY <3>1 DEF Understand, Inspect, Plan, Learn
      <4> QED
        BY <2>c, <4>1 DEF Goto, Channels
    <3>2. CASE UpdateState(p)
      BY <2>c, <3>2 DEF UpdateState, At, Goto, Channels
    <3>e. ASSUME NEW d, Commit(p, d), d.decided = drive[p].chan.decided, d.next \in {"verify", "review", "approve_review"}
          PROVE  \E e : Kept(e)
      BY <3>e
    <3>3. CASE ImplementNothing(p)
      <4>1. PICK d : d = [drive[p].chan EXCEPT !.next = "verify", !.impl = None,
                            !.grant = IF GrantIsCurrent(drive[p].chan) THEN @ ELSE None]
        OBVIOUS
      <4>2. Commit(p, d) /\ d.decided = drive[p].chan.decided /\ d.next = "verify"
        BY <2>c, <3>3, <4>1 DEF ImplementNothing, Channels
      <4> HIDE DEF Kept
      <4> QED
        BY <3>e, <4>2
    <3>4. CASE EndImplement(p)
      <4>1. PICK s \in ImplStatus : Commit(p, [drive[p].chan EXCEPT !.next = "verify", !.impl = s])
        BY <3>4 DEF EndImplement
      <4>2. PICK d : d = [drive[p].chan EXCEPT !.next = "verify", !.impl = s]
        OBVIOUS
      <4>3. Commit(p, d) /\ d.decided = drive[p].chan.decided /\ d.next = "verify"
        BY <2>c, <4>1, <4>2 DEF Channels
      <4> HIDE DEF Kept
      <4> QED
        BY <3>e, <4>3
    <3>5. CASE Verify(p)
      <4>1. PICK found \in BOOLEAN : Commit(p, [drive[p].chan EXCEPT !.next = "review", !.unsafe = found])
        BY <3>5 DEF Verify
      <4>2. PICK d : d = [drive[p].chan EXCEPT !.next = "review", !.unsafe = found]
        OBVIOUS
      <4>3. Commit(p, d) /\ d.decided = drive[p].chan.decided /\ d.next = "review"
        BY <2>c, <4>1, <4>2 DEF Channels
      <4> HIDE DEF Kept
      <4> QED
        BY <3>e, <4>3
    <3>6. CASE Review(p)
      <4>1. PICK drift \in BOOLEAN :
               Commit(p, [drive[p].chan EXCEPT !.next = "approve_review", !.unsafe = @ \/ drift])
        BY <3>6 DEF Review
      <4>2. PICK d : d = [drive[p].chan EXCEPT !.next = "approve_review", !.unsafe = @ \/ drift]
        OBVIOUS
      <4>3. Commit(p, d) /\ d.decided = drive[p].chan.decided /\ d.next = "approve_review"
        BY <2>c, <4>1, <4>2 DEF Channels
      <4> HIDE DEF Kept
      <4> QED
        BY <3>e, <4>3
    <3> QED
      BY <1>6, <3>1, <3>2, <3>3, <3>4, <3>5, <3>6
  <2>3. PICK d : Kept(d)
    BY <2>2
  <2>4. Follows(checkpoint, d)
    BY <1>c, <2>1, <2>3, FollowsKept
  <2>5. Closed(d)
    BY <1>c, <2>1, <2>3 DEF Closed, approvalIdFor
  <2> QED
    BY <1>c, <2>1, <2>3, <2>4, <2>5, SoloCommit
<1>7. ASSUME NEW p \in Proc, PlanRejected(p) \/ PlanFeedback(p) \/ ReviewAnswered(p)
      PROVE  SoloInv'
  <2>1. drive[p].pc = "driving" /\ UNCHANGED record /\ drive[p].chan \in Channels
    <3>1. drive[p].pc = "driving" /\ UNCHANGED record
      BY <1>7 DEF PlanRejected, PlanFeedback, ReviewAnswered, At
    <3> QED
      BY <3>1, <1>c
  <2>2. PICK gate, kind, d :
           /\ gate \in {"plan", "review"} /\ kind \in Kinds
           /\ Commit(p, d) /\ drive[p].chan.next \in DOMAIN GateOf /\ gate = GateOf[drive[p].chan.next]
           /\ d.decided = Record(drive[p].chan, gate, kind).decided
           /\ d.next \in {"plan", "learn"} \/ d.outcome = "rejected_at_plan"
    <3>1. ASSUME NEW gate \in {"plan", "review"}, NEW kind \in Kinds
          PROVE  Record(drive[p].chan, gate, kind) \in Channels
      BY <2>1, RecordType
    <3>2. CASE PlanRejected(p)
      <4>1. Record(drive[p].chan, "plan", "reject") \in Channels
        BY <3>1 DEF Kinds
      <4>2. PICK d : d = [Record(drive[p].chan, "plan", "reject") EXCEPT
                            !.next = "update_state", !.outcome = "rejected_at_plan"]
        OBVIOUS
      <4>3. d.decided = Record(drive[p].chan, "plan", "reject").decided /\ d.outcome = "rejected_at_plan"
        BY <4>1, <4>2 DEF Channels
      <4>4. Commit(p, d) /\ drive[p].chan.next = "approve_plan"
        BY <3>2, <4>2 DEF PlanRejected, At
      <4> QED
        BY <4>3, <4>4 DEF GateOf, Kinds
    <3>3. CASE PlanFeedback(p)
      <4>1. Record(drive[p].chan, "plan", "feedback") \in Channels
        BY <3>1 DEF Kinds
      <4>2. PICK d : d = [Record(drive[p].chan, "plan", "feedback") EXCEPT
                            !.next = "plan", !.revisions = @ + 1]
        OBVIOUS
      <4>3. d.decided = Record(drive[p].chan, "plan", "feedback").decided /\ d.next = "plan"
        BY <4>1, <4>2 DEF Channels
      <4>4. Commit(p, d) /\ drive[p].chan.next = "approve_plan"
        BY <3>3, <4>2 DEF PlanFeedback, At
      <4> QED
        BY <4>3, <4>4 DEF GateOf, Kinds
    <3>4. CASE ReviewAnswered(p)
      <4>1. PICK kind \in Kinds :
               Commit(p, [Record(drive[p].chan, "review", kind) EXCEPT
                             !.next = "learn", !.outcome = ReviewOutcome(kind)])
        BY <3>4 DEF ReviewAnswered
      <4>2. PICK d : d = [Record(drive[p].chan, "review", kind) EXCEPT
                            !.next = "learn", !.outcome = ReviewOutcome(kind)]
        OBVIOUS
      <4>3. d.decided = Record(drive[p].chan, "review", kind).decided /\ d.next = "learn"
        BY <3>1, <4>2 DEF Channels
      <4>4. Commit(p, d) /\ drive[p].chan.next = "approve_review"
        BY <3>4, <4>1, <4>2 DEF ReviewAnswered, At
      <4> QED
        BY <4>3, <4>4 DEF GateOf
    <3> QED
      BY <1>7, <3>2, <3>3, <3>4
  <2>3. Follows(drive[p].chan, d)
    BY <2>1, <2>2, FollowsDecided
  <2>4. Closed(d)
    BY <2>2 DEF Closed
  <2>5. drive[p].pc # "idle" /\ Follows(checkpoint, d)
    BY <1>c, <2>1, <2>3
  <2> QED
    BY <2>1, <2>2, <2>4, <2>5, SoloCommit
<1>8. ASSUME NEW p \in Proc, PlanApproved(p)
      PROVE  SoloInv'
  <2>1. PICK kind \in {"approve", "edit"} :
           LET c == drive[p].chan
               g == [approval |-> approvalIdFor("plan", c), issue |-> drive[p].id]
           IN  drive' = [drive EXCEPT ![p] = [@ EXCEPT !.pc = "minted",
                  !.chan = [Record(c, "plan", kind) EXCEPT !.next = "implement", !.grant = g]]]
    BY <1>8 DEF PlanApproved
  <2>2. /\ drive[p].pc = "driving" /\ drive[p].chan.next = "approve_plan"
        /\ UNCHANGED <<record, checkpoint, spoken>>
    BY <1>8 DEF PlanApproved, At
  <2>3. drive[p].chan \in Channels /\ kind \in Kinds
    BY <1>c, <2>2 DEF Kinds
  <2>4. PICK d : d = [Record(drive[p].chan, "plan", kind) EXCEPT !.next = "implement",
                        !.grant = [approval |-> approvalIdFor("plan", drive[p].chan), issue |-> drive[p].id]]
    OBVIOUS
  <2>5. Record(drive[p].chan, "plan", kind) \in Channels
    BY <2>3, RecordType
  <2>6. d.decided = Record(drive[p].chan, "plan", kind).decided /\ d.next = "implement"
    BY <2>4, <2>5 DEF Channels
  <2>7. Follows(drive[p].chan, d)
    BY <2>2, <2>3, <2>6, FollowsDecided DEF GateOf
  <2>8. drive'[p].pc = "minted" /\ drive'[p].chan = d
    BY <1>d, <2>1, <2>4 DEF Drives
  <2> QED
    BY <2>2, <2>6, <2>7, <2>8, SoloMove
<1>9. ASSUME NEW p \in Proc, ReturnGrant(p)
      PROVE  SoloInv'
  <2>1. drive[p].pc = "minted" /\ Commit(p, drive[p].chan) /\ UNCHANGED record
    BY <1>9 DEF ReturnGrant
  <2>2. Follows(checkpoint, drive[p].chan) /\ drive[p].chan.next = "implement"
    BY <2>1 DEF SoloInv, DriveInv
  <2>3. Closed(drive[p].chan)
    BY <2>2 DEF Closed
  <2> QED
    BY <2>1, <2>2, <2>3, SoloCommit
<1>10. ASSUME NEW p \in Proc, StopLoop(p)
       PROVE  SoloInv'
  <2>1. /\ drive[p].pc = "driving" /\ drive[p].chan.next = "next_iteration" /\ UNCHANGED record
        /\ LoopOutcome(drive[p].chan) # "continue"
    BY <1>10 DEF StopLoop, At
  <2>2. drive[p].chan \in Channels
    BY <1>c, <2>1
  <2>3. PICK d : d = [drive[p].chan EXCEPT !.next = "update_state", !.outcome = LoopOutcome(drive[p].chan)]
    OBVIOUS
  <2>4. /\ Commit(p, d)
        /\ d.decided = drive[p].chan.decided /\ d.unsafe = drive[p].chan.unsafe
        /\ d.iteration = drive[p].chan.iteration /\ d.revisions = drive[p].chan.revisions
        /\ d.outcome = LoopOutcome(drive[p].chan)
    BY <1>10, <2>2, <2>3 DEF StopLoop, Channels
  <2>5. LoopOutcome(drive[p].chan) = "approved" =>
           /\ ~ drive[p].chan.unsafe
           /\ drive[p].chan.decided[approvalIdFor("review", drive[p].chan)] = "approve"
    BY DEF LoopOutcome
  <2>6. Closed(d)
    BY <2>4, <2>5 DEF Closed, approvalIdFor
  <2>7. Follows(drive[p].chan, d)
    BY <2>1, <2>4, FollowsKept DEF GateOf
  <2> QED
    BY <1>c, <2>1, <2>4, <2>6, <2>7, SoloCommit
<1>11. ASSUME NEW p \in Proc, NextIteration(p)
       PROVE  SoloInv'
  <2>1. drive[p].pc = "driving" /\ drive[p].chan.next = "next_iteration" /\ UNCHANGED record
    BY <1>11 DEF NextIteration, At
  <2>2. PICK d : d = [FirstChannels EXCEPT !.next = "inspect", !.iteration = drive[p].chan.iteration + 1,
                                           !.decided = drive[p].chan.decided]
    OBVIOUS
  <2>3. Commit(p, d) /\ d.decided = drive[p].chan.decided /\ d.next = "inspect"
    BY <1>11, <2>2 DEF NextIteration, FirstChannels
  <2>4. Follows(drive[p].chan, d)
    BY <2>1, <2>3, FollowsKept DEF GateOf
  <2>5. Closed(d)
    BY <2>3 DEF Closed
  <2> QED
    BY <1>c, <2>1, <2>3, <2>4, <2>5, SoloCommit
<1>12. ASSUME NEW p \in Proc, Interrupt(p) \/ RefuseDecision(p) \/ BeginImplement(p)
       PROVE  SoloInv'
  <2>1. drive[p].pc = "driving" /\ UNCHANGED <<record, checkpoint, spoken>>
    BY <1>12 DEF Interrupt, RefuseDecision, BeginImplement, At
  <2>2. /\ drive'[p].chan = drive[p].chan
        /\ \/ drive'[p].pc = "suspending" /\ drive[p].chan.next \in DOMAIN GateOf
           \/ drive'[p].pc = "failing"
           \/ drive'[p].pc = "implementing" /\ drive[p].chan.next = "implement"
    BY <1>12, <1>d DEF Interrupt, RefuseDecision, BeginImplement, At, Drives
  <2> QED
    BY <2>1, <2>2, SoloMove
<1>13. ASSUME NEW p \in Proc, Crash(p)
       PROVE  SoloInv'
  <2>1. drive'[p].pc = "idle" /\ UNCHANGED <<record, checkpoint, spoken>>
    BY <1>13, <1>d DEF Crash, Idle
  <2>2. DriveInv'
    BY <2>1 DEF DriveInv, Alone
  <2> QED
    BY <2>1, <2>2 DEF SoloInv, RecordNeverAhead, CompletedIsApprovedAndSafe, Spoke
<1>14. CASE Unlock \/ UNCHANGED vars
  <2>1. UNCHANGED <<record, checkpoint, drive, spoken>>
    BY <1>14 DEF Unlock, vars
  <2> QED
    BY <2>1 DEF SoloInv, DriveInv, RecordNeverAhead, CompletedIsApprovedAndSafe, Spoke
<1>15. ASSUME NEW p \in Proc, Step(p)
       PROVE  SoloInv'
  BY <1>3, <1>4, <1>5, <1>6, <1>7, <1>8, <1>9, <1>10, <1>11, <1>12, <1>15 DEF Step
<1> QED
  BY <1>1, <1>2, <1>13, <1>14, <1>15 DEF Next

LEMMA SoloInit == Init => SoloInv
BY DEF Init, SoloInv, DriveInv, RecordNeverAhead, CompletedIsApprovedAndSafe, Idle

LEMMA GroundInit == Init => GroundInv
BY DEF Init, GroundInv, Idle

\* One process at a time, killed wherever it may be: what it holds is what the
\* checkpoint holds, but for a grant on its way there.
THEOREM SoloInvariant ==
  ASSUME Alone
  PROVE  Spec => [](TypeInv /\ GroundInv /\ SoloInv)
<1>1. TypeInv /\ GroundInv /\ SoloInv /\ [Next]_vars => (GroundInv /\ SoloInv)'
  BY SoloInductive, GroundInductive
<1> QED
  BY <1>1, SoloInit, GroundInit, TypeInit, TypeInductive, PTL DEF Spec

\* The record waits for the gate the checkpoint stands at, or for one it has
\* passed: whenever the process dies, no answer is asked for that the graph has
\* not got to (drive, runner.ts).
THEOREM RecordBehind ==
  ASSUME Alone
  PROVE  Spec => []RecordNeverAhead
<1>1. SoloInv => RecordNeverAhead
  BY DEF SoloInv
<1> QED
  BY <1>1, SoloInvariant, PTL

\* A run is reported completed only on an approved review of its last iteration
\* in which no safety condition was seen (decideNextIteration, iteration.ts).
THEOREM CompletedIsEarned ==
  ASSUME Alone
  PROVE  Spec => []CompletedIsApprovedAndSafe
<1>1. SoloInv => CompletedIsApprovedAndSafe
  BY DEF SoloInv
<1> QED
  BY <1>1, SoloInvariant, PTL

\* A run reported completed, rejected, incomplete or failed stays so.
THEOREM FinalStays ==
  ASSUME Alone
  PROVE  Spec => FinalIsFinal
<1>1. ASSUME TypeInv, SoloInv, [Next]_vars, record # None, record.status \in Final
      PROVE  record' = record
  <2>1. \A p \in Proc : drive[p].pc = "idle"
    BY <1>1 DEF SoloInv, DriveInv, Final
  <2>2. \A p \in Proc : ~ SaveAwaiting(p) /\ ~ SaveFailed(p) /\ ~ SaveFinished(p)
    BY <2>1 DEF SaveAwaiting, SaveFailed, SaveFinished
  <2>3. \A p \in Proc : ~ Start(p)
    BY <1>1 DEF Start
  <2> QED
    BY <1>1, <2>2, <2>3, GateFrame DEF Resume, BeginImplement
<1> QED
  BY <1>1, SoloInvariant, PTL DEF FinalIsFinal, Spec
=============================================================================
