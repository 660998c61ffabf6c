------------------------ MODULE ImplementationAttempt ------------------------
(***************************************************************************)
(* One implementation attempt, file operation by file operation:           *)
(* ControlledImplementationRunner.run, the grant store with its claim      *)
(* marker, the project's implementation lock, and the session through      *)
(* which the agent writes.  ApprovalLoop takes all of this as one step to  *)
(* start an agent and one to stop it; here several processes interleave    *)
(* between any two file operations, and any of them may die there.         *)
(*                                                                         *)
(*   grants[g]  the grant JSON: its status, and which issue of the grant   *)
(*              (a second approval of the same gate issues it again)       *)
(*   expired    the issues of grants whose expiresAt has passed            *)
(*   claim[g]   the claim marker: who created it, or Unreadable while      *)
(*              empty                                                      *)
(*   lock       the lock file: [run, pid], or Unreadable while empty       *)
(*   impl[r]    the ImplementationRun record of run r                      *)
(*   att[p]     where process p is in run(), and what it holds in memory   *)
(*   operator   what `implementation:unlock` found before it removes       *)
(*   sessions, withdrawn, stray  history, see below                        *)
(***************************************************************************)
EXTENDS Integers

CONSTANTS
    Proc,       \* processes; one that died is never seen again
    Run,        \* workflow runs of one project
    Grant,      \* grant ids
    RunOf,      \* [Grant -> Run]
    Mutating,   \* the grants that carry a writing capability
    MaxWrites,  \* maxWrites of every grant
    MaxIssues,  \* bound: times a grant is issued
    None,       \* "no value"
    Unreadable, \* an empty lock or claim file
    MayCrash,     \* processes may be killed
    MayWithdraw,  \* a person may revoke or delete a stored grant
    MayThrow      \* FsBoundary.create may throw (the working directory is gone)

ASSUME ConstantAssumption ==
    /\ RunOf \in [Grant -> Run]
    /\ Mutating \subseteq Grant
    /\ MaxWrites \in Nat
    /\ MaxIssues \in Nat \ {0}
    /\ MayCrash \in BOOLEAN /\ MayWithdraw \in BOOLEAN /\ MayThrow \in BOOLEAN

VARIABLES grants, expired, claim, lock, impl, att, operator,
          sessions,   \* history: sessions opened under each grant
          withdrawn,  \* history: whether a person withdrew the grant since its last
                      \* issue, "early" or "late" (while its session was open)
          stray       \* history: mutations that landed since

vars == <<grants, expired, claim, lock, impl, att, operator, sessions, withdrawn, stray>>

-----------------------------------------------------------------------------
Issues == 1 .. MaxIssues
GrantStatus == {"active", "consumed", "revoked", "deleted"}
Stored == [status : GrantStatus, issue : Issues]

ImplementationStatus == {"not_started", "running", "cancelled", "failed", "interrupted", "completed"}
Records == [status : ImplementationStatus, pid : Proc, partial : BOOLEAN]

Locks == [run : Run, pid : Proc]

ASSUME TokenAssumption ==
    /\ None \notin Proc /\ None \notin Grant /\ None \notin Locks
    /\ None \notin Records /\ None \notin Stored
    /\ Unreadable \notin Proc /\ Unreadable \notin Locks /\ Unreadable # None

\* The statements of run(), by the file operation each is about to perform.
PCs == {"idle", "ready", "validated", "recorded", "lock_open", "locked", "claim_open", "claimed",
        "consuming", "consumed", "built", "agent", "authorised", "returned", "released",
        "denied", "dead"}

\* `read` is the stored grant as claimGrant read it; `wrote` says that this
\* attempt has changed the working tree.
Attempts == [pc : PCs, grant : Grant \cup {None}, issue : Issues, read : Stored \cup {None},
             holds : BOOLEAN, done : Nat, wrote : BOOLEAN,
             outcome : {"completed", "failed", "cancelled"} \cup {None}]

Idle == [pc |-> "idle", grant |-> None, issue |-> 1, read |-> None, holds |-> FALSE,
         done |-> 0, wrote |-> FALSE, outcome |-> None]

Init ==
    /\ grants = [g \in Grant |-> [status |-> "active", issue |-> 1]]
    /\ expired = {}
    /\ claim = [g \in Grant |-> None]
    /\ lock = None
    /\ impl = [r \in Run |-> None]
    /\ att = [p \in Proc |-> Idle]
    /\ operator = FALSE
    /\ sessions = [g \in Grant |-> 0]
    /\ withdrawn = [g \in Grant |-> "no"]
    /\ stray = [g \in Grant |-> 0]

history == <<sessions, withdrawn, stray>>

At(p, pc) == att[p].pc = pc
Goto(p, pc) == att' = [att EXCEPT ![p].pc = pc]
GrantOf(p) == att[p].grant
RunFor(p) == RunOf[att[p].grant]
Working(p) == att[p].pc \in {"agent", "authorised"}

\* getGrant: the marker decides over the JSON.
getGrantStatus(g) ==
    IF grants[g].status = "active" /\ claim[g] # None THEN "consumed" ELSE grants[g].status

\* lock.release(runId): only a readable lock of that very run is removed.
Released(r) == IF lock \in Locks /\ lock.run = r THEN None ELSE lock

\* saveImplementation
SaveRecord(p, status, partial) ==
    impl' = [impl EXCEPT ![RunFor(p)] = [status |-> status, pid |-> p, partial |-> partial]]

-----------------------------------------------------------------------------
(* run() up to the agent. *)

\* implement node: records left `running` by dead processes become interrupted.
Reconcile(p) ==
    /\ At(p, "idle")
    /\ Goto(p, "ready")
    /\ impl' = [r \in Run |->
                  IF impl[r] # None /\ impl[r].status = "running" /\ At(impl[r].pid, "dead")
                  THEN [impl[r] EXCEPT !.status = "interrupted", !.partial = TRUE]
                  ELSE impl[r]]
    /\ UNCHANGED <<grants, expired, claim, lock, operator, history>>

\* The grant its caller was issued: the stored one must be that issue, active,
\* unclaimed and unexpired.  Anything else is refused with nothing changed.
Present(p, g, issue) ==
    /\ At(p, "ready")
    /\ issue <= grants[g].issue
    /\ att' = [att EXCEPT ![p] =
                 IF /\ grants[g].issue = issue
                    /\ getGrantStatus(g) = "active"
                    /\ <<g, issue>> \notin expired
                 THEN [Idle EXCEPT !.pc = "validated", !.grant = g, !.issue = issue]
                 ELSE Idle]
    /\ UNCHANGED <<grants, expired, claim, lock, impl, operator, history>>

RecordNotStarted(p) ==
    /\ At(p, "validated")
    /\ SaveRecord(p, "not_started", FALSE)
    /\ Goto(p, "recorded")
    /\ UNCHANGED <<grants, expired, claim, lock, operator, history>>

\* acquire(): created exclusively, then filled in.  Never waits, never steals.
OpenLock(p) ==
    /\ At(p, "recorded")
    /\ GrantOf(p) \in Mutating
    /\ lock = None
    /\ lock' = Unreadable
    /\ Goto(p, "lock_open")
    /\ UNCHANGED <<grants, expired, claim, impl, operator, history>>

WriteLock(p) ==
    /\ At(p, "lock_open")
    /\ lock' = [run |-> RunFor(p), pid |-> p]
    /\ att' = [att EXCEPT ![p].pc = "locked", ![p].holds = TRUE]
    /\ UNCHANGED <<grants, expired, claim, impl, operator, history>>

LockDenied(p) ==
    /\ At(p, "recorded")
    /\ GrantOf(p) \in Mutating
    /\ lock # None
    /\ Goto(p, "denied")
    /\ UNCHANGED <<grants, expired, claim, lock, impl, operator, history>>

NoLockNeeded(p) ==
    /\ At(p, "recorded")
    /\ GrantOf(p) \notin Mutating
    /\ Goto(p, "locked")
    /\ UNCHANGED <<grants, expired, claim, lock, impl, operator, history>>

\* Mutant: the marker is not created exclusively.
OpenClaimAgain(p) ==
    /\ At(p, "locked")
    /\ claim' = [claim EXCEPT ![GrantOf(p)] = Unreadable]
    /\ Goto(p, "claim_open")
    /\ UNCHANGED <<grants, expired, lock, impl, operator, history>>

\* Mutant: the grant is claimed first.
OpenClaimBeforeLock(p) ==
    /\ At(p, "recorded") \/ At(p, "locked")
    /\ claim[GrantOf(p)] = None
    /\ claim' = [claim EXCEPT ![GrantOf(p)] = Unreadable]
    /\ Goto(p, "claim_open")
    /\ UNCHANGED <<grants, expired, lock, impl, operator, history>>

\* claimGrant: the marker is created exclusively ...
OpenClaim(p) ==
    /\ At(p, "locked")
    /\ claim[GrantOf(p)] = None
    /\ claim' = [claim EXCEPT ![GrantOf(p)] = Unreadable]
    /\ Goto(p, "claim_open")
    /\ UNCHANGED <<grants, expired, lock, impl, operator, history>>

\* ... or was there already.
ClaimLost(p) ==
    /\ At(p, "locked")
    /\ claim[GrantOf(p)] # None
    /\ lock' = IF att[p].holds THEN Released(RunFor(p)) ELSE lock
    /\ Goto(p, "denied")
    /\ UNCHANGED <<grants, expired, claim, impl, operator, history>>

WriteClaim(p) ==
    /\ At(p, "claim_open")
    /\ claim' = [claim EXCEPT ![GrantOf(p)] = p]
    /\ Goto(p, "claimed")
    /\ UNCHANGED <<grants, expired, lock, impl, operator, history>>

\* claimGrant reads the grant again; a grant deleted meanwhile counts as lost.
ReadGrant(p) ==
    /\ At(p, "claimed")
    /\ IF grants[GrantOf(p)].status = "deleted"
       THEN /\ Goto(p, "denied")
            /\ lock' = IF att[p].holds THEN Released(RunFor(p)) ELSE lock
       ELSE /\ att' = [att EXCEPT ![p].pc = "consuming", ![p].read = grants[GrantOf(p)]]
            /\ UNCHANGED lock
    /\ UNCHANGED <<grants, expired, claim, impl, operator, history>>

\* ... and writes back what it read, with status consumed.
SaveConsumed(p) ==
    /\ At(p, "consuming")
    /\ grants' = [grants EXCEPT ![GrantOf(p)] = [att[p].read EXCEPT !.status = "consumed"]]
    /\ Goto(p, "consumed")
    /\ UNCHANGED <<expired, claim, lock, impl, operator, history>>

BuildSession(p) ==
    /\ At(p, "consumed")
    /\ Goto(p, "built")
    /\ UNCHANGED <<grants, expired, claim, lock, impl, operator, history>>

\* FsBoundary.create throws: run() is left before its try/finally begins.
BuildThrows(p) ==
    /\ MayThrow
    /\ At(p, "consumed")
    /\ att' = [att EXCEPT ![p] = Idle]
    /\ UNCHANGED <<grants, expired, claim, lock, impl, operator, history>>

\* Mutant: the flag is left for the terminal record.
RecordRunningUnflagged(p) ==
    /\ At(p, "built")
    /\ SaveRecord(p, "running", FALSE)
    /\ Goto(p, "agent")
    /\ sessions' = [sessions EXCEPT ![GrantOf(p)] = @ + 1]
    /\ UNCHANGED <<grants, expired, claim, lock, operator, withdrawn, stray>>

\* The record says `running` before the agent is called.
RecordRunning(p) ==
    /\ At(p, "built")
    /\ SaveRecord(p, "running", TRUE)
    /\ Goto(p, "agent")
    /\ sessions' = [sessions EXCEPT ![GrantOf(p)] = @ + 1]
    /\ UNCHANGED <<grants, expired, claim, lock, operator, withdrawn, stray>>

-----------------------------------------------------------------------------
(* The agent at work, and the way out. *)

\* Mutant: the session trusts the grant it was given.
InForceInMemory(p) ==
    LET g == GrantOf(p)
    IN  /\ <<g, att[p].issue>> \notin expired
        /\ claim[g] = p

\* requireCapability and revalidate: the session's own issue has not expired and
\* the stored grant is still that issue, not withdrawn, under this very claim.
InForce(p) ==
    LET g == GrantOf(p)
    IN  /\ <<g, att[p].issue>> \notin expired
        /\ grants[g].status \notin {"revoked", "deleted"}
        /\ grants[g].issue = att[p].issue
        /\ claim[g] = p

\* A mutation is authorised; a refused one changes nothing but a counter.
Authorise(p) ==
    /\ At(p, "agent")
    /\ GrantOf(p) \in Mutating
    /\ InForce(p)
    /\ att[p].done < MaxWrites
    /\ Goto(p, "authorised")
    /\ UNCHANGED <<grants, expired, claim, lock, impl, operator, history>>

\* The mutation lands, and the orchestrator counts it.
Land(p) ==
    /\ At(p, "authorised")
    /\ att' = [att EXCEPT ![p].pc = "agent", ![p].done = @ + 1, ![p].wrote = TRUE]
    /\ stray' = [stray EXCEPT ![GrantOf(p)] = IF withdrawn[GrantOf(p)] # "no" THEN @ + 1 ELSE @]
    /\ UNCHANGED <<grants, expired, claim, lock, impl, operator, sessions, withdrawn>>

\* The write boundary refuses the path.
Refuse(p) ==
    /\ At(p, "authorised")
    /\ Goto(p, "agent")
    /\ UNCHANGED <<grants, expired, claim, lock, impl, operator, history>>

\* The agent returns, throws, or reports that it was cancelled.
AgentStops(p) ==
    /\ At(p, "agent")
    /\ \E outcome \in {"completed", "failed", "cancelled"} :
         att' = [att EXCEPT ![p].pc = "returned", ![p].outcome = outcome]
    /\ UNCHANGED <<grants, expired, claim, lock, impl, operator, history>>

\* Mutant: the lock is released on the way out of a completed attempt only.
ReleaseLockOnSuccess(p) ==
    /\ At(p, "returned")
    /\ lock' = IF att[p].holds /\ att[p].outcome = "completed" THEN Released(RunFor(p)) ELSE lock
    /\ Goto(p, "released")
    /\ UNCHANGED <<grants, expired, claim, impl, operator, history>>

ReleaseLock(p) ==
    /\ At(p, "returned")
    /\ lock' = IF att[p].holds THEN Released(RunFor(p)) ELSE lock
    /\ Goto(p, "released")
    /\ UNCHANGED <<grants, expired, claim, impl, operator, history>>

RecordTerminal(p) ==
    /\ At(p, "released")
    /\ SaveRecord(p, att[p].outcome, att[p].outcome # "completed")
    /\ att' = [att EXCEPT ![p] = Idle]
    /\ UNCHANGED <<grants, expired, claim, lock, operator, history>>

\* Mutant: a refused attempt tries again.
RecordDeniedAndRetry(p) ==
    /\ At(p, "denied")
    /\ SaveRecord(p, "failed", FALSE)
    /\ att' = [att EXCEPT ![p].pc = "recorded", ![p].holds = FALSE]
    /\ UNCHANGED <<grants, expired, claim, lock, operator, history>>

\* A refused attempt leaves its reason in the record, then throws.
RecordDenied(p) ==
    /\ At(p, "denied")
    /\ SaveRecord(p, "failed", FALSE)
    /\ att' = [att EXCEPT ![p] = Idle]
    /\ UNCHANGED <<grants, expired, claim, lock, operator, history>>

-----------------------------------------------------------------------------
(* The world around the attempts. *)

\* The process dies where it is; its files and its changes stay.
Crash(p) ==
    /\ MayCrash
    /\ ~ At(p, "dead")
    /\ Goto(p, "dead")
    /\ UNCHANGED <<grants, expired, claim, lock, impl, operator, history>>

\* saveGrant on a second approval of the same gate overwrites the stored grant.
Reissue(g) ==
    /\ grants[g].issue < MaxIssues
    /\ grants' = [grants EXCEPT ![g] = [status |-> "active", issue |-> @.issue + 1]]
    /\ withdrawn' = [withdrawn EXCEPT ![g] = "no"]
    /\ stray' = [stray EXCEPT ![g] = 0]
    /\ UNCHANGED <<expired, claim, lock, impl, att, operator, sessions>>

\* A person revokes the stored grant or deletes it.
Withdraw(g, status) ==
    /\ MayWithdraw
    /\ status \in {"revoked", "deleted"}
    /\ grants[g].status \notin {"revoked", "deleted"}
    /\ grants' = [grants EXCEPT ![g].status = status]
    /\ withdrawn' = [withdrawn EXCEPT ![g] = IF \E p \in Proc : Working(p) /\ GrantOf(p) = g
                                              THEN "late" ELSE "early"]
    /\ stray' = [stray EXCEPT ![g] = 0]
    /\ UNCHANGED <<expired, claim, lock, impl, att, operator, sessions>>

Expire(g) ==
    /\ <<g, grants[g].issue>> \notin expired
    /\ expired' = expired \cup {<<g, grants[g].issue>>}
    /\ UNCHANGED <<grants, claim, lock, impl, att, operator, history>>

\* Mutant: the command does not ask whether the holder is alive.
UnlockLooksAway ==
    /\ ~ operator
    /\ lock \in Locks
    /\ operator' = TRUE
    /\ UNCHANGED <<grants, expired, claim, lock, impl, att, history>>

\* implementation:unlock looks at the lock: it clears nothing it cannot read and
\* refuses while the holder's process is alive ...
UnlockLooks ==
    /\ ~ operator
    /\ lock \in Locks
    /\ At(lock.pid, "dead")
    /\ operator' = TRUE
    /\ UNCHANGED <<grants, expired, claim, lock, impl, att, history>>

\* ... and then removes the lock file, whatever it holds by then.
UnlockRemoves ==
    /\ operator
    /\ operator' = FALSE
    /\ lock' = None
    /\ UNCHANGED <<grants, expired, claim, impl, att, history>>

\* What run() does once it was called.
Step(p) ==
    \/ RecordNotStarted(p) \/ OpenLock(p) \/ WriteLock(p) \/ LockDenied(p) \/ NoLockNeeded(p)
    \/ OpenClaim(p) \/ ClaimLost(p) \/ WriteClaim(p) \/ ReadGrant(p) \/ SaveConsumed(p)
    \/ BuildSession(p) \/ BuildThrows(p) \/ RecordRunning(p)
    \/ Land(p) \/ Refuse(p) \/ AgentStops(p)
    \/ ReleaseLock(p) \/ RecordTerminal(p) \/ RecordDenied(p)

Next ==
    \/ \E p \in Proc : Reconcile(p) \/ Step(p) \/ Authorise(p) \/ Crash(p)
    \/ \E p \in Proc, g \in Grant, issue \in Issues : Present(p, g, issue)
    \/ \E g \in Grant : Reissue(g) \/ Expire(g)
    \/ \E g \in Grant, status \in {"revoked", "deleted"} : Withdraw(g, status)
    \/ UnlockLooks \/ UnlockRemoves

Spec == Init /\ [][Next]_vars

\* run() is straight-line code around an agent.  The process boundary's timeout
\* ends an agent that goes on asking for mutations; the operator clears a lock
\* that blocks the project.
FairSpec ==
    /\ Spec
    /\ \A p \in Proc : WF_vars(Step(p)) /\ SF_vars(AgentStops(p))
    /\ WF_vars(UnlockLooks) /\ WF_vars(UnlockRemoves)
=============================================================================
