--------------------- MODULE ImplementationAttempt_proofs ---------------------
(***************************************************************************)
(* Proofs about implementation attempts, for any processes, runs and       *)
(* grants, any write budget and number of issues, and whether or not       *)
(* processes are killed, grants withdrawn and sessions fail to build.      *)
(***************************************************************************)
EXTENDS ImplementationAttemptProperties, TLAPS

-----------------------------------------------------------------------------
(* The inductive invariant *)

Outside == {"idle", "ready"}

\* Between acquire() and release().
Held == {"locked", "claim_open", "claimed", "consuming", "consumed", "built",
         "agent", "authorised", "returned"}

\* Between the creation of the claim marker and the session.
Claiming == {"claim_open", "claimed", "consuming", "consumed", "built"}

\* From the `running` record to the terminal one.
Recorded == {"agent", "authorised", "returned", "released"}

Outcomes == {"completed", "failed", "cancelled"}

\* What an attempt holds in memory fits the statement it is at.
MemoryInv == \A p \in Proc :
    /\ att[p].pc \notin Outside \cup {"dead"} => GrantOf(p) \in Grant
    /\ att[p].pc = "consuming" => att[p].read \in Stored
    /\ att[p].pc \in {"returned", "released"} => att[p].outcome \in Outcomes
    /\ att[p].pc \in {"validated", "recorded", "lock_open"} => ~ att[p].holds
    /\ att[p].wrote => att[p].pc \in Recorded \cup {"dead"} /\ GrantOf(p) \in Grant

\* The marker outlives whoever made it, and one process is past it with a grant.
ClaimInv ==
    /\ \A p \in Proc : att[p].pc \in Claiming \cup {"agent", "authorised"} => claim[GrantOf(p)] # None
    /\ \A p, q \in Proc :
          /\ att[p].pc \in Claiming \cup {"agent", "authorised"}
          /\ att[q].pc \in Claiming \cup {"agent", "authorised"}
          /\ GrantOf(p) = GrantOf(q)
          => p = q

\* A grant's session was opened by whoever made its marker, and nobody is about
\* to open another.
SessionInv ==
    /\ \A p \in Proc : att[p].pc \in Claiming => sessions[GrantOf(p)] = 0
    /\ \A p \in Proc : Working(p) => sessions[GrantOf(p)] = 1
    /\ \A g \in Grant : sessions[g] = 0 \/ (sessions[g] = 1 /\ claim[g] # None)

\* The lock file names the one attempt that may mutate, as long as that attempt
\* lives; an empty one has one writer; the operator removes a dead one's only.
LockInv ==
    /\ \A p \in Proc : At(p, "lock_open") => lock = Unreadable
    /\ \A p, q \in Proc : At(p, "lock_open") /\ At(q, "lock_open") => p = q
    /\ \A p \in Proc : att[p].pc \in Held =>
          /\ GrantOf(p) \in Mutating => att[p].holds
          /\ att[p].holds => lock = [run |-> RunFor(p), pid |-> p]
    /\ operator => lock \in Locks /\ At(lock.pid, "dead")

\* The record of a run is flagged before its attempt can write, and stays so
\* until that attempt writes it again.
FlagInv == \A p \in Proc, r \in Run :
    /\ impl[r] # None /\ impl[r].pid = p
    /\ GrantOf(p) \in Grant /\ RunFor(p) = r
    /\ att[p].pc \in Recorded \/ att[p].wrote
    => impl[r].partial

\* A session under a grant that was withdrawn has at most one mutation left.
WithdrawnInv == \A g \in Grant : withdrawn[g] = "late" =>
    /\ grants[g].status \in {"revoked", "deleted"}
    /\ sessions[g] = 1
    /\ \/ stray[g] = 0
       \/ stray[g] = 1 /\ \A p \in Proc : GrantOf(p) = g => ~ At(p, "authorised")

AttemptInv ==
    TypeOK /\ MemoryInv /\ ClaimInv /\ SessionInv /\ LockInv /\ FlagInv /\ WithdrawnInv

-----------------------------------------------------------------------------
(* What the updates of the model leave behind, read field by field *)

\* Moving on changes the statement the process is at and nothing else.
LEMMA GotoEffect ==
    ASSUME TypeOK, NEW p \in Proc, NEW pc \in PCs, Goto(p, pc)
    PROVE  /\ att' \in [Proc -> Attempts]
           /\ att'[p].pc = pc
           /\ att'[p].grant = att[p].grant /\ att'[p].issue = att[p].issue
           /\ att'[p].read = att[p].read /\ att'[p].holds = att[p].holds
           /\ att'[p].done = att[p].done /\ att'[p].wrote = att[p].wrote
           /\ att'[p].outcome = att[p].outcome
           /\ \A q \in Proc : q # p => att'[q] = att[q]
<1>1. att \in [Proc -> Attempts] /\ att[p] \in Attempts
  BY DEF TypeOK
<1>2. att' = [att EXCEPT ![p] = [att[p] EXCEPT !.pc = pc]]
  BY DEF Goto
<1>3. [att[p] EXCEPT !.pc = pc] \in Attempts
  BY <1>1 DEF Attempts
<1>. QED
  BY <1>1, <1>2, <1>3 DEF Attempts

\* Out of run(), nothing of the attempt stays in memory.
LEMMA IdleEffect ==
    ASSUME TypeOK, NEW p \in Proc, att' = [att EXCEPT ![p] = Idle]
    PROVE  /\ att' \in [Proc -> Attempts]
           /\ att'[p] = Idle
           /\ \A q \in Proc : q # p => att'[q] = att[q]
<1>1. Idle \in Attempts
  BY ConstantAssumption, TokenAssumption DEF Idle, Attempts, PCs, Issues
<1>. QED
  BY <1>1 DEF TypeOK

\* saveImplementation replaces one run's record.
LEMMA SaveRecordEffect ==
    ASSUME TypeOK, NEW p \in Proc, GrantOf(p) \in Grant,
           NEW status \in ImplementationStatus, NEW partial \in BOOLEAN,
           SaveRecord(p, status, partial)
    PROVE  /\ impl' \in [Run -> Records \cup {None}]
           /\ RunFor(p) \in Run
           /\ impl'[RunFor(p)] = [status |-> status, pid |-> p, partial |-> partial]
           /\ \A r \in Run : r # RunFor(p) => impl'[r] = impl[r]
<1>1. RunFor(p) \in Run
  BY ConstantAssumption DEF RunFor, GrantOf
<1>. QED
  BY <1>1 DEF SaveRecord, TypeOK, Records

\* What is released stays a lock file or becomes none.
LEMMA ReleasedEffect ==
    ASSUME NEW r
    PROVE  Released(r) \in {lock, None}
BY DEF Released

\* Every step keeps the types.
LEMMA TypeStep ==
    ASSUME AttemptInv, [Next]_vars
    PROVE  TypeOK'
<1>. USE DEF AttemptInv, TypeOK, MemoryInv, PCs, At, Outside, Outcomes, history, Working
<1>1. ASSUME NEW p \in Proc, Reconcile(p) PROVE TypeOK'
  <2>1. impl' \in [Run -> Records \cup {None}]
    <3>1. ASSUME NEW r \in Run
          PROVE  impl'[r] \in Records \cup {None}
      <4>1. CASE impl[r] # None /\ impl[r].status = "running" /\ At(impl[r].pid, "dead")
        <5>1. impl[r] \in Records /\ impl'[r] = [impl[r] EXCEPT !.status = "interrupted", !.partial = TRUE]
          BY <1>1, <4>1 DEF Reconcile
        <5>. QED
          BY <5>1 DEF Records, ImplementationStatus
      <4>2. CASE ~ (impl[r] # None /\ impl[r].status = "running" /\ At(impl[r].pid, "dead"))
        BY <1>1, <4>2 DEF Reconcile
      <4>. QED
        BY <4>1, <4>2
    <3>. QED
      BY <1>1, <3>1 DEF Reconcile
  <2>. QED
    BY <1>1, <2>1, GotoEffect DEF Reconcile
<1>2. ASSUME NEW p \in Proc, RecordNotStarted(p) PROVE TypeOK'
  BY <1>2, GotoEffect, SaveRecordEffect DEF RecordNotStarted, ImplementationStatus
<1>3. ASSUME NEW p \in Proc, OpenLock(p) PROVE TypeOK'
  BY <1>3, GotoEffect DEF OpenLock
<1>4. ASSUME NEW p \in Proc, WriteLock(p) PROVE TypeOK'
  BY <1>4, ConstantAssumption, TokenAssumption DEF WriteLock, GrantOf, RunFor, Locks, Attempts
<1>5. ASSUME NEW p \in Proc, LockDenied(p) PROVE TypeOK'
  BY <1>5, GotoEffect DEF LockDenied
<1>6. ASSUME NEW p \in Proc, NoLockNeeded(p) PROVE TypeOK'
  BY <1>6, GotoEffect DEF NoLockNeeded
<1>7. ASSUME NEW p \in Proc, OpenClaim(p) PROVE TypeOK'
  BY <1>7, GotoEffect DEF OpenClaim, GrantOf
<1>8. ASSUME NEW p \in Proc, ClaimLost(p) PROVE TypeOK'
  BY <1>8, GotoEffect, ReleasedEffect DEF ClaimLost, GrantOf
<1>9. ASSUME NEW p \in Proc, WriteClaim(p) PROVE TypeOK'
  BY <1>9, GotoEffect DEF WriteClaim, GrantOf
<1>10. ASSUME NEW p \in Proc, ReadGrant(p) PROVE TypeOK'
  BY <1>10, ReleasedEffect, GotoEffect DEF ReadGrant, GrantOf, Attempts
<1>11. ASSUME NEW p \in Proc, SaveConsumed(p) PROVE TypeOK'
  BY <1>11, GotoEffect DEF SaveConsumed, GrantOf, Stored, GrantStatus
<1>12. ASSUME NEW p \in Proc, BuildSession(p) PROVE TypeOK'
  BY <1>12, GotoEffect DEF BuildSession
<1>13. ASSUME NEW p \in Proc, BuildThrows(p) PROVE TypeOK'
  BY <1>13, IdleEffect DEF BuildThrows
<1>14. ASSUME NEW p \in Proc, RecordRunning(p) PROVE TypeOK'
  <2>1. GrantOf(p) \in Grant
    BY <1>14 DEF RecordRunning
  <2>2. impl' \in [Run -> Records \cup {None}] /\ att' \in [Proc -> Attempts]
    BY <1>14, <2>1, GotoEffect, SaveRecordEffect DEF RecordRunning, ImplementationStatus
  <2>3. sessions' \in [Grant -> Nat]
    BY <1>14, <2>1 DEF RecordRunning
  <2>. QED
    BY <1>14, <2>2, <2>3 DEF RecordRunning
<1>15. ASSUME NEW p \in Proc, Land(p) PROVE TypeOK'
  BY <1>15 DEF Land, Attempts, GrantOf
<1>16. ASSUME NEW p \in Proc, Refuse(p) PROVE TypeOK'
  BY <1>16, GotoEffect DEF Refuse
<1>17. ASSUME NEW p \in Proc, AgentStops(p) PROVE TypeOK'
  <2>1. PICK outcome \in Outcomes :
               att' = [att EXCEPT ![p] = [att[p] EXCEPT !.pc = "returned", !.outcome = outcome]]
    BY <1>17 DEF AgentStops
  <2>2. att[p] \in Attempts
    OBVIOUS
  <2>3. [att[p] EXCEPT !.pc = "returned", !.outcome = outcome] \in Attempts
    BY <2>2 DEF Attempts
  <2>. QED
    BY <1>17, <2>1, <2>3 DEF AgentStops
<1>18. ASSUME NEW p \in Proc, ReleaseLock(p) PROVE TypeOK'
  BY <1>18, GotoEffect, ReleasedEffect DEF ReleaseLock
<1>19. ASSUME NEW p \in Proc, RecordTerminal(p) PROVE TypeOK'
  BY <1>19, SaveRecordEffect, IdleEffect DEF RecordTerminal, ImplementationStatus
<1>20. ASSUME NEW p \in Proc, RecordDenied(p) PROVE TypeOK'
  BY <1>20, SaveRecordEffect, IdleEffect DEF RecordDenied, ImplementationStatus
<1>21. ASSUME NEW p \in Proc, Authorise(p) PROVE TypeOK'
  BY <1>21, GotoEffect DEF Authorise
<1>22. ASSUME NEW p \in Proc, Crash(p) PROVE TypeOK'
  BY <1>22, GotoEffect DEF Crash
<1>23. ASSUME NEW p \in Proc, NEW g \in Grant, NEW issue \in Issues, Present(p, g, issue) PROVE TypeOK'
  BY <1>23, IdleEffect, TokenAssumption, ConstantAssumption DEF Present, Attempts, Idle, Issues
<1>24. ASSUME NEW g \in Grant, Reissue(g) PROVE TypeOK'
  BY <1>24, ConstantAssumption DEF Reissue, Stored, GrantStatus, Issues
<1>25. ASSUME NEW g \in Grant, Expire(g) PROVE TypeOK'
  BY <1>25 DEF Expire, Stored
<1>26. ASSUME NEW g \in Grant, NEW status \in {"revoked", "deleted"}, Withdraw(g, status) PROVE TypeOK'
  BY <1>26 DEF Withdraw, Stored, GrantStatus
<1>27. ASSUME UnlockLooks PROVE TypeOK'
  BY <1>27 DEF UnlockLooks, Locks
<1>28. ASSUME UnlockRemoves PROVE TypeOK'
  BY <1>28 DEF UnlockRemoves
<1>29. ASSUME UNCHANGED vars PROVE TypeOK'
  BY <1>29 DEF vars
<1>. QED
  BY <1>1, <1>2, <1>3, <1>4, <1>5, <1>6, <1>7, <1>8, <1>9, <1>10, <1>11, <1>12, <1>13, <1>14, <1>15, <1>16, <1>17, <1>18, <1>19, <1>20, <1>21, <1>22, <1>23, <1>24, <1>25, <1>26, <1>27, <1>28, <1>29 DEF Next, Step

\* What an attempt holds in memory goes on fitting the statement it is at.
LEMMA MemoryStep ==
    ASSUME AttemptInv, [Next]_vars
    PROVE  MemoryInv'
<1>. USE DEF AttemptInv, TypeOK, MemoryInv, PCs, At, GrantOf, Outside, Recorded, Outcomes
<1>1. ASSUME NEW p \in Proc, Reconcile(p) PROVE MemoryInv'
  <2>1. At(p, "idle") /\ Goto(p, "ready") /\ UNCHANGED <<grants>>
    BY <1>1 DEF Reconcile, history
  <2>. QED
    BY <2>1, GotoEffect
<1>2. ASSUME NEW p \in Proc, RecordNotStarted(p) PROVE MemoryInv'
  BY <1>2, GotoEffect DEF RecordNotStarted
<1>3. ASSUME NEW p \in Proc, OpenLock(p) PROVE MemoryInv'
  BY <1>3, GotoEffect DEF OpenLock
<1>4. ASSUME NEW p \in Proc, WriteLock(p) PROVE MemoryInv'
  BY <1>4 DEF WriteLock, Attempts
<1>5. ASSUME NEW p \in Proc, LockDenied(p) PROVE MemoryInv'
  BY <1>5, GotoEffect DEF LockDenied
<1>6. ASSUME NEW p \in Proc, NoLockNeeded(p) PROVE MemoryInv'
  BY <1>6, GotoEffect DEF NoLockNeeded
<1>7. ASSUME NEW p \in Proc, OpenClaim(p) PROVE MemoryInv'
  BY <1>7, GotoEffect DEF OpenClaim
<1>8. ASSUME NEW p \in Proc, ClaimLost(p) PROVE MemoryInv'
  BY <1>8, GotoEffect DEF ClaimLost
<1>9. ASSUME NEW p \in Proc, WriteClaim(p) PROVE MemoryInv'
  BY <1>9, GotoEffect DEF WriteClaim
<1>10. ASSUME NEW p \in Proc, ReadGrant(p) PROVE MemoryInv'
  BY <1>10, GotoEffect DEF ReadGrant, Attempts
<1>11. ASSUME NEW p \in Proc, SaveConsumed(p) PROVE MemoryInv'
  BY <1>11, GotoEffect DEF SaveConsumed
<1>12. ASSUME NEW p \in Proc, BuildSession(p) PROVE MemoryInv'
  BY <1>12, GotoEffect DEF BuildSession
<1>13. ASSUME NEW p \in Proc, BuildThrows(p) PROVE MemoryInv'
  BY <1>13, IdleEffect DEF BuildThrows, Idle
<1>14. ASSUME NEW p \in Proc, RecordRunning(p) PROVE MemoryInv'
  BY <1>14, GotoEffect DEF RecordRunning
<1>15. ASSUME NEW p \in Proc, Land(p) PROVE MemoryInv'
  BY <1>15 DEF Land, Attempts
<1>16. ASSUME NEW p \in Proc, Refuse(p) PROVE MemoryInv'
  BY <1>16, GotoEffect DEF Refuse
<1>17. ASSUME NEW p \in Proc, AgentStops(p) PROVE MemoryInv'
  BY <1>17 DEF AgentStops, Attempts
<1>18. ASSUME NEW p \in Proc, ReleaseLock(p) PROVE MemoryInv'
  BY <1>18, GotoEffect DEF ReleaseLock
<1>19. ASSUME NEW p \in Proc, RecordTerminal(p) PROVE MemoryInv'
  BY <1>19, IdleEffect DEF RecordTerminal, Idle
<1>20. ASSUME NEW p \in Proc, RecordDenied(p) PROVE MemoryInv'
  BY <1>20, IdleEffect DEF RecordDenied, Idle
<1>21. ASSUME NEW p \in Proc, Authorise(p) PROVE MemoryInv'
  BY <1>21, GotoEffect DEF Authorise
<1>22. ASSUME NEW p \in Proc, Crash(p) PROVE MemoryInv'
  BY <1>22, GotoEffect DEF Crash
<1>23. ASSUME NEW p \in Proc, NEW g \in Grant, NEW issue \in Issues, Present(p, g, issue) PROVE MemoryInv'
  BY <1>23 DEF Present, Idle, Attempts
<1>24. ASSUME NEW g \in Grant, Reissue(g) PROVE MemoryInv'
  BY <1>24 DEF Reissue
<1>25. ASSUME NEW g \in Grant, Expire(g) PROVE MemoryInv'
  BY <1>25 DEF Expire
<1>26. ASSUME NEW g \in Grant, NEW status \in {"revoked", "deleted"}, Withdraw(g, status) PROVE MemoryInv'
  BY <1>26 DEF Withdraw
<1>27. ASSUME UnlockLooks PROVE MemoryInv'
  BY <1>27 DEF UnlockLooks
<1>28. ASSUME UnlockRemoves PROVE MemoryInv'
  BY <1>28 DEF UnlockRemoves
<1>29. ASSUME UNCHANGED vars PROVE MemoryInv'
  BY <1>29 DEF vars
<1>. QED
  BY <1>1, <1>2, <1>3, <1>4, <1>5, <1>6, <1>7, <1>8, <1>9, <1>10, <1>11, <1>12, <1>13, <1>14, <1>15, <1>16, <1>17, <1>18, <1>19, <1>20, <1>21, <1>22, <1>23, <1>24, <1>25, <1>26, <1>27, <1>28, <1>29 DEF Next, Step

\* The claim marker goes on admitting one process.
LEMMA ClaimStep ==
    ASSUME AttemptInv, [Next]_vars
    PROVE  ClaimInv'
<1>. USE DEF AttemptInv, TypeOK, MemoryInv, ClaimInv, PCs, At, GrantOf, Outside, Claiming
<1>1. ASSUME NEW p \in Proc, Reconcile(p) PROVE ClaimInv'
  <2>1. At(p, "idle") /\ Goto(p, "ready") /\ UNCHANGED <<claim>>
    BY <1>1 DEF Reconcile, history
  <2>. QED
    BY <2>1, GotoEffect
<1>2. ASSUME NEW p \in Proc, RecordNotStarted(p) PROVE ClaimInv'
  BY <1>2, GotoEffect DEF RecordNotStarted
<1>3. ASSUME NEW p \in Proc, OpenLock(p) PROVE ClaimInv'
  BY <1>3, GotoEffect DEF OpenLock
<1>4. ASSUME NEW p \in Proc, WriteLock(p) PROVE ClaimInv'
  BY <1>4 DEF WriteLock, Attempts
<1>5. ASSUME NEW p \in Proc, LockDenied(p) PROVE ClaimInv'
  BY <1>5, GotoEffect DEF LockDenied
<1>6. ASSUME NEW p \in Proc, NoLockNeeded(p) PROVE ClaimInv'
  BY <1>6, GotoEffect DEF NoLockNeeded
<1>7. ASSUME NEW p \in Proc, OpenClaim(p) PROVE ClaimInv'
  BY <1>7, GotoEffect, TokenAssumption DEF OpenClaim
<1>8. ASSUME NEW p \in Proc, ClaimLost(p) PROVE ClaimInv'
  BY <1>8, GotoEffect DEF ClaimLost
<1>9. ASSUME NEW p \in Proc, WriteClaim(p) PROVE ClaimInv'
  BY <1>9, GotoEffect, TokenAssumption DEF WriteClaim
<1>10. ASSUME NEW p \in Proc, ReadGrant(p) PROVE ClaimInv'
  BY <1>10, GotoEffect DEF ReadGrant, Attempts
<1>11. ASSUME NEW p \in Proc, SaveConsumed(p) PROVE ClaimInv'
  BY <1>11, GotoEffect DEF SaveConsumed
<1>12. ASSUME NEW p \in Proc, BuildSession(p) PROVE ClaimInv'
  BY <1>12, GotoEffect DEF BuildSession
<1>13. ASSUME NEW p \in Proc, BuildThrows(p) PROVE ClaimInv'
  BY <1>13, IdleEffect DEF BuildThrows, Idle
<1>14. ASSUME NEW p \in Proc, RecordRunning(p) PROVE ClaimInv'
  BY <1>14, GotoEffect DEF RecordRunning
<1>15. ASSUME NEW p \in Proc, Land(p) PROVE ClaimInv'
  BY <1>15 DEF Land, Attempts
<1>16. ASSUME NEW p \in Proc, Refuse(p) PROVE ClaimInv'
  BY <1>16, GotoEffect DEF Refuse
<1>17. ASSUME NEW p \in Proc, AgentStops(p) PROVE ClaimInv'
  BY <1>17 DEF AgentStops, Attempts
<1>18. ASSUME NEW p \in Proc, ReleaseLock(p) PROVE ClaimInv'
  BY <1>18, GotoEffect DEF ReleaseLock
<1>19. ASSUME NEW p \in Proc, RecordTerminal(p) PROVE ClaimInv'
  BY <1>19, IdleEffect DEF RecordTerminal, Idle
<1>20. ASSUME NEW p \in Proc, RecordDenied(p) PROVE ClaimInv'
  BY <1>20, IdleEffect DEF RecordDenied, Idle
<1>21. ASSUME NEW p \in Proc, Authorise(p) PROVE ClaimInv'
  BY <1>21, GotoEffect DEF Authorise
<1>22. ASSUME NEW p \in Proc, Crash(p) PROVE ClaimInv'
  BY <1>22, GotoEffect DEF Crash
<1>23. ASSUME NEW p \in Proc, NEW g \in Grant, NEW issue \in Issues, Present(p, g, issue) PROVE ClaimInv'
  BY <1>23 DEF Present, Idle, Attempts
<1>24. ASSUME NEW g \in Grant, Reissue(g) PROVE ClaimInv'
  BY <1>24 DEF Reissue
<1>25. ASSUME NEW g \in Grant, Expire(g) PROVE ClaimInv'
  BY <1>25 DEF Expire
<1>26. ASSUME NEW g \in Grant, NEW status \in {"revoked", "deleted"}, Withdraw(g, status) PROVE ClaimInv'
  BY <1>26 DEF Withdraw
<1>27. ASSUME UnlockLooks PROVE ClaimInv'
  BY <1>27 DEF UnlockLooks
<1>28. ASSUME UnlockRemoves PROVE ClaimInv'
  BY <1>28 DEF UnlockRemoves
<1>29. ASSUME UNCHANGED vars PROVE ClaimInv'
  BY <1>29 DEF vars
<1>. QED
  BY <1>1, <1>2, <1>3, <1>4, <1>5, <1>6, <1>7, <1>8, <1>9, <1>10, <1>11, <1>12, <1>13, <1>14, <1>15, <1>16, <1>17, <1>18, <1>19, <1>20, <1>21, <1>22, <1>23, <1>24, <1>25, <1>26, <1>27, <1>28, <1>29 DEF Next, Step

\* A grant goes on having one session.
LEMMA SessionStep ==
    ASSUME AttemptInv, [Next]_vars
    PROVE  SessionInv'
<1>. USE DEF AttemptInv, TypeOK, MemoryInv, ClaimInv, SessionInv, PCs, At, GrantOf, Outside, Claiming, Working, history
<1>1. ASSUME NEW p \in Proc, Reconcile(p) PROVE SessionInv'
  <2>1. At(p, "idle") /\ Goto(p, "ready") /\ UNCHANGED <<claim, sessions>>
    BY <1>1 DEF Reconcile, history
  <2>. QED
    BY <2>1, GotoEffect
<1>2. ASSUME NEW p \in Proc, RecordNotStarted(p) PROVE SessionInv'
  BY <1>2, GotoEffect DEF RecordNotStarted
<1>3. ASSUME NEW p \in Proc, OpenLock(p) PROVE SessionInv'
  BY <1>3, GotoEffect DEF OpenLock
<1>4. ASSUME NEW p \in Proc, WriteLock(p) PROVE SessionInv'
  BY <1>4 DEF WriteLock, Attempts
<1>5. ASSUME NEW p \in Proc, LockDenied(p) PROVE SessionInv'
  BY <1>5, GotoEffect DEF LockDenied
<1>6. ASSUME NEW p \in Proc, NoLockNeeded(p) PROVE SessionInv'
  BY <1>6, GotoEffect DEF NoLockNeeded
<1>7. ASSUME NEW p \in Proc, OpenClaim(p) PROVE SessionInv'
  BY <1>7, GotoEffect, TokenAssumption DEF OpenClaim
<1>8. ASSUME NEW p \in Proc, ClaimLost(p) PROVE SessionInv'
  BY <1>8, GotoEffect DEF ClaimLost
<1>9. ASSUME NEW p \in Proc, WriteClaim(p) PROVE SessionInv'
  BY <1>9, GotoEffect, TokenAssumption DEF WriteClaim
<1>10. ASSUME NEW p \in Proc, ReadGrant(p) PROVE SessionInv'
  BY <1>10, GotoEffect DEF ReadGrant, Attempts
<1>11. ASSUME NEW p \in Proc, SaveConsumed(p) PROVE SessionInv'
  BY <1>11, GotoEffect DEF SaveConsumed
<1>12. ASSUME NEW p \in Proc, BuildSession(p) PROVE SessionInv'
  BY <1>12, GotoEffect DEF BuildSession
<1>13. ASSUME NEW p \in Proc, BuildThrows(p) PROVE SessionInv'
  BY <1>13, IdleEffect DEF BuildThrows, Idle
<1>14. ASSUME NEW p \in Proc, RecordRunning(p) PROVE SessionInv'
  BY <1>14, GotoEffect DEF RecordRunning
<1>15. ASSUME NEW p \in Proc, Land(p) PROVE SessionInv'
  BY <1>15 DEF Land, Attempts
<1>16. ASSUME NEW p \in Proc, Refuse(p) PROVE SessionInv'
  BY <1>16, GotoEffect DEF Refuse
<1>17. ASSUME NEW p \in Proc, AgentStops(p) PROVE SessionInv'
  BY <1>17 DEF AgentStops, Attempts
<1>18. ASSUME NEW p \in Proc, ReleaseLock(p) PROVE SessionInv'
  BY <1>18, GotoEffect DEF ReleaseLock
<1>19. ASSUME NEW p \in Proc, RecordTerminal(p) PROVE SessionInv'
  BY <1>19, IdleEffect DEF RecordTerminal, Idle
<1>20. ASSUME NEW p \in Proc, RecordDenied(p) PROVE SessionInv'
  BY <1>20, IdleEffect DEF RecordDenied, Idle
<1>21. ASSUME NEW p \in Proc, Authorise(p) PROVE SessionInv'
  BY <1>21, GotoEffect DEF Authorise
<1>22. ASSUME NEW p \in Proc, Crash(p) PROVE SessionInv'
  BY <1>22, GotoEffect DEF Crash
<1>23. ASSUME NEW p \in Proc, NEW g \in Grant, NEW issue \in Issues, Present(p, g, issue) PROVE SessionInv'
  BY <1>23 DEF Present, Idle, Attempts
<1>24. ASSUME NEW g \in Grant, Reissue(g) PROVE SessionInv'
  BY <1>24 DEF Reissue
<1>25. ASSUME NEW g \in Grant, Expire(g) PROVE SessionInv'
  BY <1>25 DEF Expire
<1>26. ASSUME NEW g \in Grant, NEW status \in {"revoked", "deleted"}, Withdraw(g, status) PROVE SessionInv'
  BY <1>26 DEF Withdraw
<1>27. ASSUME UnlockLooks PROVE SessionInv'
  BY <1>27 DEF UnlockLooks
<1>28. ASSUME UnlockRemoves PROVE SessionInv'
  BY <1>28 DEF UnlockRemoves
<1>29. ASSUME UNCHANGED vars PROVE SessionInv'
  BY <1>29 DEF vars
<1>. QED
  BY <1>1, <1>2, <1>3, <1>4, <1>5, <1>6, <1>7, <1>8, <1>9, <1>10, <1>11, <1>12, <1>13, <1>14, <1>15, <1>16, <1>17, <1>18, <1>19, <1>20, <1>21, <1>22, <1>23, <1>24, <1>25, <1>26, <1>27, <1>28, <1>29 DEF Next, Step

\* An attempt that goes on with the lock it has, or without one, disturbs nobody's.
LEMMA LockKept ==
    ASSUME TypeOK, LockInv, NEW p \in Proc, ~ At(p, "dead"), UNCHANGED <<lock, operator>>,
           \A q \in Proc : q # p => att'[q] = att[q],
           att'[p].pc # "lock_open",
           att'[p].pc \in Held =>
               /\ att[p].pc \in Held \/ (att[p].grant \notin Mutating /\ ~ att[p].holds)
               /\ att'[p].grant = att[p].grant /\ att'[p].holds = att[p].holds
    PROVE  LockInv'
<1>1. \A q \in Proc : At(q, "lock_open")' => q # p /\ At(q, "lock_open")
  BY DEF At
<1>2. ASSUME NEW q \in Proc, att'[q].pc \in Held
      PROVE  /\ (GrantOf(q) \in Mutating => att[q].holds)'
             /\ (att[q].holds => lock = [run |-> RunFor(q), pid |-> q])'
  <2>1. CASE q = p
    BY <1>2, <2>1 DEF LockInv, GrantOf, RunFor
  <2>2. CASE q # p
    BY <1>2, <2>2 DEF LockInv, GrantOf, RunFor
  <2>. QED
    BY <2>1, <2>2
<1>3. ASSUME operator'
      PROVE  (lock \in Locks /\ At(lock.pid, "dead"))'
  <2>1. lock \in Locks /\ At(lock.pid, "dead") /\ lock.pid \in Proc /\ lock.pid # p
    BY <1>3 DEF LockInv, At, Locks
  <2>. QED
    BY <2>1 DEF At
<1>. QED
  BY <1>1, <1>2, <1>3 DEF LockInv

\* An attempt that lets go of the lock lets go of its own.
LEMMA LockGone ==
    ASSUME TypeOK, LockInv, NEW p \in Proc, att[p].pc \in Held,
           lock' = IF att[p].holds THEN Released(RunFor(p)) ELSE lock,
           UNCHANGED operator,
           \A q \in Proc : q # p => att'[q] = att[q],
           att'[p].pc \notin Held \cup {"lock_open"}
    PROVE  LockInv'
<1>1. ~ At(p, "dead")
  BY DEF Held, At
<1>2. CASE lock' = lock
  BY <1>1, <1>2, LockKept
<1>3. CASE lock' # lock
  <2>1. lock = [run |-> RunFor(p), pid |-> p] /\ lock \in Locks /\ lock' = None
    BY <1>3 DEF LockInv, Released
  <2>2. \A q \in Proc : ~ At(q, "lock_open") /\ (att[q].pc \in Held /\ att[q].holds => q = p)
    BY <2>1, TokenAssumption DEF LockInv, At
  <2>3. ~ operator
    BY <1>1, <2>1 DEF LockInv
  <2>4. ASSUME NEW q \in Proc
        PROVE  /\ ~ At(q, "lock_open")'
               /\ att'[q].pc \in Held => q # p /\ ~ att'[q].holds /\ GrantOf(q)' \notin Mutating
    BY <2>2 DEF At, GrantOf, LockInv
  <2>. QED
    BY <2>3, <2>4 DEF LockInv
<1>. QED
  BY <1>2, <1>3

\* Writing a run's record keeps it flagged if it leaves a flag, or if the
\* attempt that writes it has nothing to show.
LEMMA FlagSaved ==
    ASSUME TypeOK, FlagInv, NEW p \in Proc, GrantOf(p) \in Grant,
           NEW status \in ImplementationStatus, NEW partial \in BOOLEAN,
           SaveRecord(p, status, partial),
           \A q \in Proc : q # p => att'[q] = att[q],
           att'[p].grant \in {att[p].grant, None},
           partial \/ ~ (att'[p].pc \in Recorded \/ att'[p].wrote)
    PROVE  FlagInv'
<1>1. SUFFICES ASSUME NEW q \in Proc, NEW r \in Run,
                      impl'[r] # None, impl'[r].pid = q,
                      att'[q].grant \in Grant, RunOf[att'[q].grant] = r,
                      att'[q].pc \in Recorded \/ att'[q].wrote
               PROVE  impl'[r].partial
  BY DEF FlagInv, GrantOf, RunFor
<1>2. CASE r = RunFor(p)
  <2>1. impl'[r] = [status |-> status, pid |-> p, partial |-> partial]
    BY <1>2, SaveRecordEffect
  <2>. QED
    BY <1>1, <2>1
<1>3. CASE r # RunFor(p)
  <2>1. impl'[r] = impl[r]
    BY <1>3, SaveRecordEffect
  <2>2. q # p
    BY <1>1, <1>3, TokenAssumption DEF RunFor
  <2>. QED
    BY <1>1, <2>1, <2>2 DEF FlagInv, GrantOf, RunFor
<1>. QED
  BY <1>2, <1>3

\* The lock file goes on naming the attempt that may mutate.
LEMMA LockStep ==
    ASSUME AttemptInv, [Next]_vars
    PROVE  LockInv'
<1>. USE DEF AttemptInv, TypeOK, MemoryInv, PCs, At, Outside, Held, history
<1>1. ASSUME NEW p \in Proc, Reconcile(p) PROVE LockInv'
  <2>1. At(p, "idle") /\ Goto(p, "ready") /\ UNCHANGED <<lock, operator>>
    BY <1>1 DEF Reconcile, history
  <2>. QED
    BY <2>1, GotoEffect, LockKept
<1>2. ASSUME NEW p \in Proc, RecordNotStarted(p) PROVE LockInv'
  BY <1>2, GotoEffect, LockKept DEF RecordNotStarted
<1>3. ASSUME NEW p \in Proc, OpenLock(p) PROVE LockInv'
  <2>1. ASSUME NEW q \in Proc, att[q].pc \in Held
        PROVE  ~ att[q].holds /\ GrantOf(q) \notin Mutating
    <3>1. GrantOf(q) \in Grant /\ q # p
      BY <1>3, <2>1 DEF OpenLock
    <3>2. [run |-> RunFor(q), pid |-> q] \in Locks
      BY <3>1, ConstantAssumption DEF RunFor, GrantOf, Locks
    <3>. QED
      BY <1>3, <2>1, <3>2, TokenAssumption DEF OpenLock, LockInv
  <2>2. lock' = Unreadable /\ ~ operator' /\ \A q \in Proc : ~ At(q, "lock_open")
    BY <1>3, TokenAssumption DEF OpenLock, LockInv
  <2>3. \A q \in Proc : q # p => att'[q] = att[q]
    BY <1>3, GotoEffect DEF OpenLock
  <2>4. att'[p].pc = "lock_open"
    BY <1>3, GotoEffect DEF OpenLock
  <2>. QED
    BY <2>1, <2>2, <2>3, <2>4 DEF LockInv, GrantOf
<1>4. ASSUME NEW p \in Proc, WriteLock(p) PROVE LockInv'
  BY <1>4, ConstantAssumption, TokenAssumption DEF WriteLock, LockInv, GrantOf, RunFor, Attempts, Locks
<1>5. ASSUME NEW p \in Proc, LockDenied(p) PROVE LockInv'
  BY <1>5, GotoEffect, LockKept DEF LockDenied
<1>6. ASSUME NEW p \in Proc, NoLockNeeded(p) PROVE LockInv'
  BY <1>6, GotoEffect, LockKept DEF NoLockNeeded, GrantOf
<1>7. ASSUME NEW p \in Proc, OpenClaim(p) PROVE LockInv'
  BY <1>7, GotoEffect, LockKept DEF OpenClaim
<1>8. ASSUME NEW p \in Proc, ClaimLost(p) PROVE LockInv'
  BY <1>8, GotoEffect, LockGone, LockKept DEF ClaimLost
<1>9. ASSUME NEW p \in Proc, WriteClaim(p) PROVE LockInv'
  BY <1>9, GotoEffect, LockKept DEF WriteClaim
<1>10. ASSUME NEW p \in Proc, ReadGrant(p) PROVE LockInv'
  BY <1>10, LockGone, LockKept, GotoEffect DEF ReadGrant, Attempts
<1>11. ASSUME NEW p \in Proc, SaveConsumed(p) PROVE LockInv'
  BY <1>11, GotoEffect, LockKept DEF SaveConsumed
<1>12. ASSUME NEW p \in Proc, BuildSession(p) PROVE LockInv'
  BY <1>12, GotoEffect, LockKept DEF BuildSession
<1>13. ASSUME NEW p \in Proc, BuildThrows(p) PROVE LockInv'
  BY <1>13, IdleEffect, LockKept DEF BuildThrows, Idle
<1>14. ASSUME NEW p \in Proc, RecordRunning(p) PROVE LockInv'
  BY <1>14, GotoEffect, LockKept DEF RecordRunning
<1>15. ASSUME NEW p \in Proc, Land(p) PROVE LockInv'
  BY <1>15, LockKept DEF Land, Attempts
<1>16. ASSUME NEW p \in Proc, Refuse(p) PROVE LockInv'
  BY <1>16, GotoEffect, LockKept DEF Refuse
<1>17. ASSUME NEW p \in Proc, AgentStops(p) PROVE LockInv'
  BY <1>17, LockKept DEF AgentStops, Attempts
<1>18. ASSUME NEW p \in Proc, ReleaseLock(p) PROVE LockInv'
  BY <1>18, GotoEffect, LockGone, LockKept DEF ReleaseLock
<1>19. ASSUME NEW p \in Proc, RecordTerminal(p) PROVE LockInv'
  BY <1>19, IdleEffect, LockKept DEF RecordTerminal, Idle
<1>20. ASSUME NEW p \in Proc, RecordDenied(p) PROVE LockInv'
  BY <1>20, IdleEffect, LockKept DEF RecordDenied, Idle
<1>21. ASSUME NEW p \in Proc, Authorise(p) PROVE LockInv'
  BY <1>21, GotoEffect, LockKept DEF Authorise
<1>22. ASSUME NEW p \in Proc, Crash(p) PROVE LockInv'
  BY <1>22, GotoEffect, LockKept DEF Crash
<1>23. ASSUME NEW p \in Proc, NEW g \in Grant, NEW issue \in Issues, Present(p, g, issue) PROVE LockInv'
  BY <1>23 DEF Present, Idle, Attempts, LockInv, GrantOf, RunFor
<1>24. ASSUME NEW g \in Grant, Reissue(g) PROVE LockInv'
  BY <1>24 DEF Reissue, LockInv, GrantOf, RunFor
<1>25. ASSUME NEW g \in Grant, Expire(g) PROVE LockInv'
  BY <1>25 DEF Expire, LockInv, GrantOf, RunFor
<1>26. ASSUME NEW g \in Grant, NEW status \in {"revoked", "deleted"}, Withdraw(g, status) PROVE LockInv'
  BY <1>26 DEF Withdraw, LockInv, GrantOf, RunFor
<1>27. ASSUME UnlockLooks PROVE LockInv'
  BY <1>27, TokenAssumption DEF UnlockLooks, LockInv, Locks, GrantOf, RunFor
<1>28. ASSUME UnlockRemoves PROVE LockInv'
  <2>1. lock \in Locks /\ At(lock.pid, "dead") /\ lock' = None /\ ~ operator' /\ att' = att
    BY <1>28 DEF UnlockRemoves, LockInv
  <2>2. \A q \in Proc : ~ At(q, "lock_open") /\ (att[q].pc \in Held => ~ att[q].holds)
    BY <2>1, TokenAssumption DEF LockInv
  <2>. QED
    BY <2>1, <2>2 DEF LockInv, GrantOf
<1>29. ASSUME UNCHANGED vars PROVE LockInv'
  BY <1>29 DEF vars, LockInv, GrantOf, RunFor
<1>. QED
  BY <1>1, <1>2, <1>3, <1>4, <1>5, <1>6, <1>7, <1>8, <1>9, <1>10, <1>11, <1>12, <1>13, <1>14, <1>15, <1>16, <1>17, <1>18, <1>19, <1>20, <1>21, <1>22, <1>23, <1>24, <1>25, <1>26, <1>27, <1>28, <1>29 DEF Next, Step

\* A withdrawn grant goes on leaving its session one mutation at most.
LEMMA WithdrawnStep ==
    ASSUME AttemptInv, [Next]_vars
    PROVE  WithdrawnInv'
<1>. USE DEF AttemptInv, TypeOK, MemoryInv, ClaimInv, SessionInv, WithdrawnInv, PCs, At, GrantOf, Outside, Claiming, Working, history
<1>1. ASSUME NEW p \in Proc, Reconcile(p) PROVE WithdrawnInv'
  <2>1. At(p, "idle") /\ Goto(p, "ready") /\ UNCHANGED <<grants, sessions, withdrawn, stray>>
    BY <1>1 DEF Reconcile, history
  <2>. QED
    BY <2>1, GotoEffect
<1>2. ASSUME NEW p \in Proc, RecordNotStarted(p) PROVE WithdrawnInv'
  BY <1>2, GotoEffect DEF RecordNotStarted
<1>3. ASSUME NEW p \in Proc, OpenLock(p) PROVE WithdrawnInv'
  BY <1>3, GotoEffect DEF OpenLock
<1>4. ASSUME NEW p \in Proc, WriteLock(p) PROVE WithdrawnInv'
  BY <1>4 DEF WriteLock, Attempts
<1>5. ASSUME NEW p \in Proc, LockDenied(p) PROVE WithdrawnInv'
  BY <1>5, GotoEffect DEF LockDenied
<1>6. ASSUME NEW p \in Proc, NoLockNeeded(p) PROVE WithdrawnInv'
  BY <1>6, GotoEffect DEF NoLockNeeded
<1>7. ASSUME NEW p \in Proc, OpenClaim(p) PROVE WithdrawnInv'
  BY <1>7, GotoEffect, TokenAssumption DEF OpenClaim
<1>8. ASSUME NEW p \in Proc, ClaimLost(p) PROVE WithdrawnInv'
  BY <1>8, GotoEffect DEF ClaimLost
<1>9. ASSUME NEW p \in Proc, WriteClaim(p) PROVE WithdrawnInv'
  BY <1>9, GotoEffect, TokenAssumption DEF WriteClaim
<1>10. ASSUME NEW p \in Proc, ReadGrant(p) PROVE WithdrawnInv'
  BY <1>10, GotoEffect DEF ReadGrant, Attempts
<1>11. ASSUME NEW p \in Proc, SaveConsumed(p) PROVE WithdrawnInv'
  BY <1>11, GotoEffect DEF SaveConsumed
<1>12. ASSUME NEW p \in Proc, BuildSession(p) PROVE WithdrawnInv'
  BY <1>12, GotoEffect DEF BuildSession
<1>13. ASSUME NEW p \in Proc, BuildThrows(p) PROVE WithdrawnInv'
  BY <1>13, IdleEffect DEF BuildThrows, Idle
<1>14. ASSUME NEW p \in Proc, RecordRunning(p) PROVE WithdrawnInv'
  BY <1>14, GotoEffect DEF RecordRunning
<1>15. ASSUME NEW p \in Proc, Land(p) PROVE WithdrawnInv'
  BY <1>15 DEF Land, Attempts
<1>16. ASSUME NEW p \in Proc, Refuse(p) PROVE WithdrawnInv'
  BY <1>16, GotoEffect DEF Refuse
<1>17. ASSUME NEW p \in Proc, AgentStops(p) PROVE WithdrawnInv'
  BY <1>17 DEF AgentStops, Attempts
<1>18. ASSUME NEW p \in Proc, ReleaseLock(p) PROVE WithdrawnInv'
  BY <1>18, GotoEffect DEF ReleaseLock
<1>19. ASSUME NEW p \in Proc, RecordTerminal(p) PROVE WithdrawnInv'
  BY <1>19, IdleEffect DEF RecordTerminal, Idle
<1>20. ASSUME NEW p \in Proc, RecordDenied(p) PROVE WithdrawnInv'
  BY <1>20, IdleEffect DEF RecordDenied, Idle
<1>21. ASSUME NEW p \in Proc, Authorise(p) PROVE WithdrawnInv'
  BY <1>21, GotoEffect DEF Authorise, InForce
<1>22. ASSUME NEW p \in Proc, Crash(p) PROVE WithdrawnInv'
  BY <1>22, GotoEffect DEF Crash
<1>23. ASSUME NEW p \in Proc, NEW g \in Grant, NEW issue \in Issues, Present(p, g, issue) PROVE WithdrawnInv'
  BY <1>23 DEF Present, Idle, Attempts
<1>24. ASSUME NEW g \in Grant, Reissue(g) PROVE WithdrawnInv'
  BY <1>24 DEF Reissue
<1>25. ASSUME NEW g \in Grant, Expire(g) PROVE WithdrawnInv'
  BY <1>25 DEF Expire
<1>26. ASSUME NEW g \in Grant, NEW status \in {"revoked", "deleted"}, Withdraw(g, status) PROVE WithdrawnInv'
  BY <1>26 DEF Withdraw
<1>27. ASSUME UnlockLooks PROVE WithdrawnInv'
  BY <1>27 DEF UnlockLooks
<1>28. ASSUME UnlockRemoves PROVE WithdrawnInv'
  BY <1>28 DEF UnlockRemoves
<1>29. ASSUME UNCHANGED vars PROVE WithdrawnInv'
  BY <1>29 DEF vars
<1>. QED
  BY <1>1, <1>2, <1>3, <1>4, <1>5, <1>6, <1>7, <1>8, <1>9, <1>10, <1>11, <1>12, <1>13, <1>14, <1>15, <1>16, <1>17, <1>18, <1>19, <1>20, <1>21, <1>22, <1>23, <1>24, <1>25, <1>26, <1>27, <1>28, <1>29 DEF Next, Step

\* The record of a run that may have been changed goes on being flagged.
LEMMA FlagStep ==
    ASSUME AttemptInv, [Next]_vars
    PROVE  FlagInv'
<1>. USE DEF AttemptInv, TypeOK, MemoryInv, FlagInv, PCs, At, GrantOf, RunFor, Outside, Recorded
<1>1. ASSUME NEW p \in Proc, Reconcile(p) PROVE FlagInv'
  <2>1. At(p, "idle") /\ Goto(p, "ready")
    BY <1>1 DEF Reconcile
  <2>2. ASSUME NEW r \in Run, impl'[r] # None
        PROVE  impl[r] # None /\ impl'[r].pid = impl[r].pid /\ (impl[r].partial => impl'[r].partial)
    <3>1. CASE impl[r] # None /\ impl[r].status = "running" /\ At(impl[r].pid, "dead")
      <4>1. impl[r] \in Records /\ impl'[r] = [impl[r] EXCEPT !.status = "interrupted", !.partial = TRUE]
        BY <1>1, <3>1 DEF Reconcile
      <4>. QED
        BY <3>1, <4>1 DEF Records
    <3>2. CASE ~ (impl[r] # None /\ impl[r].status = "running" /\ At(impl[r].pid, "dead"))
      <4>1. impl'[r] = impl[r]
        BY <1>1, <3>2 DEF Reconcile
      <4>. QED
        BY <2>2, <4>1
    <3>. QED
      BY <3>1, <3>2
  <2>. QED
    BY <2>1, <2>2, GotoEffect
<1>2. ASSUME NEW p \in Proc, RecordNotStarted(p) PROVE FlagInv'
  <2>1. GrantOf(p) \in Grant /\ ~ att[p].wrote
    BY <1>2 DEF RecordNotStarted
  <2>2. Goto(p, "recorded") /\ SaveRecord(p, "not_started", FALSE)
    BY <1>2 DEF RecordNotStarted
  <2>3. /\ \A q \in Proc : q # p => att'[q] = att[q]
        /\ att'[p].grant = att[p].grant /\ att'[p].pc = "recorded" /\ ~ att'[p].wrote
    BY <2>1, <2>2, GotoEffect
  <2>. QED
    BY <2>1, <2>2, <2>3, FlagSaved DEF ImplementationStatus
<1>3. ASSUME NEW p \in Proc, OpenLock(p) PROVE FlagInv'
  BY <1>3, GotoEffect DEF OpenLock
<1>4. ASSUME NEW p \in Proc, WriteLock(p) PROVE FlagInv'
  BY <1>4 DEF WriteLock, Attempts
<1>5. ASSUME NEW p \in Proc, LockDenied(p) PROVE FlagInv'
  BY <1>5, GotoEffect DEF LockDenied
<1>6. ASSUME NEW p \in Proc, NoLockNeeded(p) PROVE FlagInv'
  BY <1>6, GotoEffect DEF NoLockNeeded
<1>7. ASSUME NEW p \in Proc, OpenClaim(p) PROVE FlagInv'
  BY <1>7, GotoEffect, TokenAssumption DEF OpenClaim
<1>8. ASSUME NEW p \in Proc, ClaimLost(p) PROVE FlagInv'
  BY <1>8, GotoEffect DEF ClaimLost
<1>9. ASSUME NEW p \in Proc, WriteClaim(p) PROVE FlagInv'
  BY <1>9, GotoEffect, TokenAssumption DEF WriteClaim
<1>10. ASSUME NEW p \in Proc, ReadGrant(p) PROVE FlagInv'
  BY <1>10, GotoEffect DEF ReadGrant, Attempts
<1>11. ASSUME NEW p \in Proc, SaveConsumed(p) PROVE FlagInv'
  BY <1>11, GotoEffect DEF SaveConsumed
<1>12. ASSUME NEW p \in Proc, BuildSession(p) PROVE FlagInv'
  BY <1>12, GotoEffect DEF BuildSession
<1>13. ASSUME NEW p \in Proc, BuildThrows(p) PROVE FlagInv'
  BY <1>13, IdleEffect DEF BuildThrows, Idle
<1>14. ASSUME NEW p \in Proc, RecordRunning(p) PROVE FlagInv'
  BY <1>14, GotoEffect, FlagSaved DEF RecordRunning, ImplementationStatus, Outcomes
<1>15. ASSUME NEW p \in Proc, Land(p) PROVE FlagInv'
  BY <1>15 DEF Land, Attempts
<1>16. ASSUME NEW p \in Proc, Refuse(p) PROVE FlagInv'
  BY <1>16, GotoEffect DEF Refuse
<1>17. ASSUME NEW p \in Proc, AgentStops(p) PROVE FlagInv'
  BY <1>17 DEF AgentStops, Attempts
<1>18. ASSUME NEW p \in Proc, ReleaseLock(p) PROVE FlagInv'
  BY <1>18, GotoEffect DEF ReleaseLock
<1>19. ASSUME NEW p \in Proc, RecordTerminal(p) PROVE FlagInv'
  <2>1. GrantOf(p) \in Grant /\ att[p].outcome \in ImplementationStatus
    BY <1>19 DEF RecordTerminal, ImplementationStatus, Outcomes
  <2>2. SaveRecord(p, att[p].outcome, att[p].outcome # "completed")
    BY <1>19 DEF RecordTerminal
  <2>3. /\ \A q \in Proc : q # p => att'[q] = att[q]
        /\ att'[p].grant = None /\ att'[p].pc = "idle" /\ ~ att'[p].wrote
    BY <1>19, IdleEffect DEF RecordTerminal, Idle
  <2>4. (att[p].outcome # "completed") \in BOOLEAN
    OBVIOUS
  <2>. QED
    BY <2>1, <2>2, <2>3, <2>4, FlagSaved
<1>20. ASSUME NEW p \in Proc, RecordDenied(p) PROVE FlagInv'
  BY <1>20, IdleEffect, FlagSaved DEF RecordDenied, Idle, ImplementationStatus, Outcomes
<1>21. ASSUME NEW p \in Proc, Authorise(p) PROVE FlagInv'
  BY <1>21, GotoEffect DEF Authorise
<1>22. ASSUME NEW p \in Proc, Crash(p) PROVE FlagInv'
  BY <1>22, GotoEffect DEF Crash
<1>23. ASSUME NEW p \in Proc, NEW g \in Grant, NEW issue \in Issues, Present(p, g, issue) PROVE FlagInv'
  BY <1>23 DEF Present, Idle, Attempts
<1>24. ASSUME NEW g \in Grant, Reissue(g) PROVE FlagInv'
  BY <1>24 DEF Reissue
<1>25. ASSUME NEW g \in Grant, Expire(g) PROVE FlagInv'
  BY <1>25 DEF Expire
<1>26. ASSUME NEW g \in Grant, NEW status \in {"revoked", "deleted"}, Withdraw(g, status) PROVE FlagInv'
  BY <1>26 DEF Withdraw
<1>27. ASSUME UnlockLooks PROVE FlagInv'
  BY <1>27 DEF UnlockLooks
<1>28. ASSUME UnlockRemoves PROVE FlagInv'
  BY <1>28 DEF UnlockRemoves
<1>29. ASSUME UNCHANGED vars PROVE FlagInv'
  BY <1>29 DEF vars
<1>. QED
  BY <1>1, <1>2, <1>3, <1>4, <1>5, <1>6, <1>7, <1>8, <1>9, <1>10, <1>11, <1>12, <1>13, <1>14, <1>15, <1>16, <1>17, <1>18, <1>19, <1>20, <1>21, <1>22, <1>23, <1>24, <1>25, <1>26, <1>27, <1>28, <1>29 DEF Next, Step

-----------------------------------------------------------------------------
(* The invariant, and what follows from it *)

LEMMA InitInv == Init => AttemptInv
<1>. SUFFICES ASSUME Init PROVE AttemptInv
  OBVIOUS
<1>. USE DEF Init
<1>1. TypeOK
  <2>1. Idle \in Attempts
    BY ConstantAssumption, TokenAssumption DEF Idle, Attempts, PCs, Issues
  <2>2. [status |-> "active", issue |-> 1] \in Stored
    BY ConstantAssumption DEF Stored, GrantStatus, Issues
  <2>. QED
    BY <2>1, <2>2 DEF TypeOK
<1>2. \A p \in Proc : att[p] = Idle /\ GrantOf(p) = None
  BY DEF Idle, GrantOf
<1>3. MemoryInv
  BY <1>2 DEF MemoryInv, Idle, Outside
<1>4. ClaimInv /\ SessionInv
  BY <1>2 DEF ClaimInv, SessionInv, Idle, Claiming, Working
<1>5. LockInv
  BY <1>2 DEF LockInv, Idle, Held, At
<1>6. FlagInv /\ WithdrawnInv
  BY DEF FlagInv, WithdrawnInv
<1>. QED
  BY <1>1, <1>3, <1>4, <1>5, <1>6 DEF AttemptInv

LEMMA InvStep == AttemptInv /\ [Next]_vars => AttemptInv'
BY TypeStep, MemoryStep, ClaimStep, SessionStep, LockStep, FlagStep, WithdrawnStep DEF AttemptInv

\* Wherever the processes are and whoever is killed, AttemptInv holds of the
\* files and of what each attempt has in memory.
THEOREM AttemptInvariant == Spec => []AttemptInv
<1>. QED
  BY InitInv, InvStep, PTL DEF Spec

\* The grant, claim, lock and record files and the attempts keep their types.
THEOREM TypeCorrect == Spec => []TypeOK
<1>1. AttemptInv => TypeOK
  BY DEF AttemptInv
<1>. QED
  BY <1>1, AttemptInvariant, PTL

\* One grant, one session: claimGrant's exclusive marker outlives crashes and
\* second issues, and only one process is ever past it.
THEOREM OneSession == Spec => []OneSessionPerGrant
<1>1. AttemptInv => OneSessionPerGrant
  BY DEF AttemptInv, SessionInv, OneSessionPerGrant
<1>. QED
  BY <1>1, AttemptInvariant, PTL

\* The implementation lock keeps two agents from changing the working tree at
\* once, whatever the operator clears and whichever lock a crash left behind.
THEOREM MutationIsExclusive == Spec => []ExclusiveMutation
<1>1. ASSUME AttemptInv, NEW p \in Proc, NEW q \in Proc, Working(p), Working(q),
             {GrantOf(p), GrantOf(q)} \subseteq Mutating
      PROVE  p = q
  <2>1. lock = [run |-> RunFor(p), pid |-> p] /\ lock = [run |-> RunFor(q), pid |-> q]
    BY <1>1 DEF AttemptInv, LockInv, Held, Working
  <2>. QED
    BY <2>1
<1>2. AttemptInv => ExclusiveMutation
  BY <1>1 DEF ExclusiveMutation
<1>. QED
  BY <1>2, AttemptInvariant, PTL

\* A run whose attempt died after changing the working tree has a record that
\* says so: the flag is on file before the agent is called.
THEOREM UnfinishedFlagged == Spec => []UnfinishedIsFlagged
<1>1. ASSUME AttemptInv, NEW r \in Run, impl[r] # None, att[impl[r].pid].wrote,
             RunOf[att[impl[r].pid].grant] = r
      PROVE  impl[r].partial
  <2>1. impl[r].pid \in Proc
    BY <1>1 DEF AttemptInv, TypeOK, Records
  <2>2. GrantOf(impl[r].pid) \in Grant
    BY <1>1, <2>1 DEF AttemptInv, MemoryInv
  <2>. QED
    BY <1>1, <2>1, <2>2 DEF AttemptInv, FlagInv, GrantOf, RunFor
<1>2. AttemptInv => UnfinishedIsFlagged
  BY <1>1 DEF UnfinishedIsFlagged
<1>. QED
  BY <1>2, AttemptInvariant, PTL

\* Revoking or deleting a grant stops the session under it: one mutation, the
\* one requireCapability had already let through, may still land.
THEOREM LateWithdrawalStops == Spec => []LateWithdrawalStopsSession
<1>1. AttemptInv => LateWithdrawalStopsSession
  BY DEF AttemptInv, WithdrawnInv, LateWithdrawalStopsSession
<1>. QED
  BY <1>1, AttemptInvariant, PTL

\* Lock contention does not burn a grant: a marker appears for a mutating grant
\* only while the attempt that makes it has the lock of the grant's run.
THEOREM ContentionKeeps == Spec => ContentionKeepsGrant
<1>1. ASSUME AttemptInv, [Next]_vars, NEW g \in Mutating, claim[g] = None, claim'[g] # None
      PROVE  lock \in Locks /\ att[lock.pid].grant = g /\ lock.run = RunOf[g]
  <2>1. g \in Grant
    BY ConstantAssumption
  <2>2. claim' # claim
    BY <1>1
  <2>3. PICK p \in Proc : OpenClaim(p) \/ WriteClaim(p)
    BY <1>1, <2>2 DEF Next, Step, vars, Reconcile, RecordNotStarted, OpenLock, WriteLock,
          LockDenied, NoLockNeeded, ClaimLost, ReadGrant, SaveConsumed, BuildSession, BuildThrows,
          RecordRunning, Land, Refuse, AgentStops, ReleaseLock, RecordTerminal, RecordDenied,
          Authorise, Crash, Present, Reissue, Expire, Withdraw, UnlockLooks, UnlockRemoves
  <2>4. GrantOf(p) = g
    BY <1>1, <2>1, <2>3 DEF OpenClaim, WriteClaim, AttemptInv, TypeOK
  <2>5. OpenClaim(p)
    BY <1>1, <2>3, <2>4 DEF WriteClaim, At, AttemptInv, ClaimInv, Claiming
  <2>6. lock = [run |-> RunFor(p), pid |-> p]
    BY <1>1, <2>4, <2>5 DEF OpenClaim, At, AttemptInv, LockInv, Held
  <2>7. RunFor(p) \in Run
    BY <2>1, <2>4, ConstantAssumption DEF RunFor, GrantOf
  <2>. QED
    BY <2>4, <2>6, <2>7 DEF Locks, GrantOf, RunFor
<1>2. AttemptInv /\ [Next]_vars =>
        \A g \in Mutating : claim[g] = None /\ claim'[g] # None =>
          lock \in Locks /\ att[lock.pid].grant = g /\ lock.run = RunOf[g]
  BY <1>1
<1>. QED
  BY <1>2, AttemptInvariant, PTL DEF Spec, ContentionKeepsGrant
=============================================================================
