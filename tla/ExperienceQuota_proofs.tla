------------------------ MODULE ExperienceQuota_proofs ------------------------
(***************************************************************************)
(* Proofs about the project lock and the quota under it, for any writers,  *)
(* nonces, records and bounds, whoever is killed or paused.                *)
(*                                                                         *)
(* The lock excludes as long as nobody removes a gate under a live writer. *)
(* #clearAbandonedGate decides that from an age it read before, so it is a *)
(* condition here and not a lemma: ClearsOnlyAbandoned.  It is met where   *)
(* nobody is killed or paused, where one process at a time clears a gate,  *)
(* and where there are two processes.                                      *)
(***************************************************************************)
EXTENDS ExperienceQuota, FiniteSetTheorems, TLAPS

-----------------------------------------------------------------------------
(* The project lock *)

\* Whoever removes an abandoned gate finds none, or one whose maker is dead.
ClearsOnlyAbandoned == \A p \in Proc : ClearGate(p) => gate = None \/ At(gate.by, "dead")

\* Between mkdir(_gate) and the rename that makes the gate a lock.
AtGate == {"gated", "writing", "renaming", "aborting"}

\* Between that rename and release().
Owning == {"checking", "yielding", "holding"}

\* The gate belongs to the process that made it, which writes its own metadata.
GateInv == \A p \in Proc :
    /\ writer[p].pc \in AtGate => gate # None /\ gate.by = p
    /\ At(p, "renaming") => gate.meta = [nonce |-> writer[p].nonce, pid |-> p]
    /\ writer[p].pc \in {"writing", "renaming"} \cup Owning => writer[p].nonce \in Nonces

\* One owner at most, none while a gate is about to become one, and the owner
\* directory a live process counts on is its own.
OwnerInv ==
    /\ \A m, n \in Owners : m = n
    /\ \A p \in Proc :
          /\ writer[p].pc \in {"writing", "renaming"} => Owners = {}
          /\ writer[p].pc \in Owning =>
                owners[writer[p].nonce] = [nonce |-> writer[p].nonce, pid |-> p]

LockInv == TypeOK /\ GateInv /\ OwnerInv

\* Moving on changes the statement the writer is at and nothing else.
LEMMA WriterMoves ==
    ASSUME TypeOK, NEW p \in Proc, NEW pc \in PCs, Goto(p, pc)
    PROVE  /\ writer' \in [Proc -> [pc : PCs, nonce : Nonces \cup {None}]]
           /\ writer'[p].pc = pc /\ writer'[p].nonce = writer[p].nonce
           /\ \A q \in Proc : q # p => writer'[q] = writer[q]
BY DEF TypeOK, Goto

\* An attempt that gives up has no nonce any more.
LEMMA WriterGivesUp ==
    ASSUME TypeOK, NEW p \in Proc, GiveUp(p)
    PROVE  /\ writer' \in [Proc -> [pc : PCs, nonce : Nonces \cup {None}]]
           /\ writer'[p].pc = "idle" /\ writer'[p].nonce = None
           /\ \A q \in Proc : q # p => writer'[q] = writer[q]
BY DEF TypeOK, GiveUp, PCs

\* Removing directories leaves the others as they are.
LEMMA WithoutRemoves ==
    ASSUME TypeOK, NEW ns, owners' = Without(ns)
    PROVE  /\ owners' \in [Nonces -> Metadata \cup {None, Absent}]
           /\ Owners' \subseteq Owners
           /\ \A n \in Nonces : n \notin ns => owners'[n] = owners[n]
BY DEF TypeOK, Without, Owners

\* A writer's own metadata is metadata.
LEMMA OwnMetadata ==
    ASSUME NEW n \in Nonces, NEW p \in Proc
    PROVE  [nonce |-> n, pid |-> p] \notin {None, Absent}
BY NoMetadata DEF Metadata

\* A process past the rename has its directory.
LEMMA HasOwner ==
    ASSUME TypeOK, GateInv, OwnerInv, NEW p \in Proc, writer[p].pc \in Owning
    PROVE  writer[p].nonce \in Owners
<1>1. /\ writer[p].nonce \in Nonces
      /\ owners[writer[p].nonce] = [nonce |-> writer[p].nonce, pid |-> p]
  BY DEF GateInv, OwnerInv
<1>. QED
  BY <1>1, OwnMetadata DEF Owners

\* Under the gate an attempt finds an owner and backs out, or takes a nonce.
LEMMA RecheckEffect ==
    ASSUME TypeOK, NEW p \in Proc, Recheck(p)
    PROVE  /\ writer' \in [Proc -> [pc : PCs, nonce : Nonces \cup {None}]]
           /\ \/ writer'[p].pc = "aborting"
              \/ writer'[p].pc = "writing" /\ writer'[p].nonce \in Nonces /\ Owners = {}
           /\ \A q \in Proc : q # p => writer'[q] = writer[q]
<1>1. CASE Owners # {}
  BY <1>1, WriterMoves DEF Recheck, PCs
<1>2. CASE Owners = {}
  BY <1>2 DEF Recheck, TypeOK, PCs
<1>. QED
  BY <1>1, <1>2

\* Where owners only go, and a live process's own does not, one owner at most
\* is left and nobody loses the lock.
LEMMA OwnersOnlyGo ==
    ASSUME TypeOK, OwnerInv, NEW p \in Proc, Owners' \subseteq Owners,
           \A q \in Proc : q # p => writer'[q] = writer[q],
           writer'[p].pc \in {"writing", "renaming"} => writer[p].pc \in {"writing", "renaming"},
           writer'[p].pc \in Owning =>
               writer[p].pc \in Owning /\ writer'[p].nonce = writer[p].nonce,
           \A q \in Proc : writer'[q].pc \in Owning =>
               owners'[writer[q].nonce] = owners[writer[q].nonce]
    PROVE  OwnerInv'
<1>1. \A m, n \in Owners' : m = n
  BY DEF OwnerInv
<1>2. ASSUME NEW q \in Proc, writer'[q].pc \in {"writing", "renaming"}
      PROVE  Owners' = {}
  BY <1>2 DEF OwnerInv
<1>3. ASSUME NEW q \in Proc, writer'[q].pc \in Owning
      PROVE  owners'[writer'[q].nonce] = [nonce |-> writer'[q].nonce, pid |-> q]
  BY <1>3 DEF OwnerInv
<1>. QED
  BY <1>1, <1>2, <1>3 DEF OwnerInv

LEMMA LockInitInv == Init => LockInv
<1>. SUFFICES ASSUME Init PROVE LockInv
  OBVIOUS
<1>1. TypeOK
  BY DEF Init, TypeOK, PCs
<1>2. GateInv /\ OwnerInv
  BY DEF Init, GateInv, OwnerInv, Owners, AtGate, Owning, At
<1>. QED
  BY <1>1, <1>2 DEF LockInv

\* Every step keeps the types of the lock.
LEMMA LockTypeStep ==
    ASSUME LockInv, [Next]_vars, [ClearsOnlyAbandoned]_vars
    PROVE  TypeOK'
<1>. USE NoMetadata DEF LockInv, TypeOK, PCs, At
<1>1. ASSUME NEW p \in Proc, NEW aged, aged = {} \/ aged = Unreadable, Sweep(p, aged)
      PROVE  TypeOK'
  <2>1. owners' = Without(Reclaimable \cup aged) /\ Goto(p, "looking") /\ gate' = gate /\ At(p, "idle")
    BY <1>1 DEF Sweep
  <2>. QED
    BY <2>1, WriterMoves, WithoutRemoves
<1>2. ASSUME NEW p \in Proc, Look(p) PROVE TypeOK'
  BY <1>2, WriterMoves, WriterGivesUp DEF Look
<1>3. ASSUME NEW p \in Proc, TakeGate(p) PROVE TypeOK'
  <2>1. [meta |-> None, old |-> FALSE, by |-> p] \in Gates
    BY DEF Gates
  <2>2. gate' \in Gates \cup {None}
    BY <1>3, <2>1 DEF TakeGate
  <2>. QED
    BY <1>3, <2>2, WriterMoves, WriterGivesUp DEF TakeGate
<1>4. ASSUME NEW p \in Proc, ClearGate(p) PROVE TypeOK'
  BY <1>4, WriterGivesUp DEF ClearGate
<1>5. ASSUME NEW p \in Proc, Recheck(p) PROVE TypeOK'
  BY <1>5, WriterMoves, RecheckEffect DEF Recheck
<1>6. ASSUME NEW p \in Proc, WriteOwner(p) PROVE TypeOK'
  <2>1. writer[p].nonce \in Nonces
    BY <1>6 DEF WriteOwner, GateInv
  <2>2. CASE gate = None
    BY <1>6, <2>2, WriterMoves DEF WriteOwner
  <2>3. CASE gate # None
    <3>1. gate \in Gates /\ [nonce |-> writer[p].nonce, pid |-> p] \in Metadata
      BY <2>1, <2>3 DEF Metadata
    <3>2. [gate EXCEPT !.meta = [nonce |-> writer[p].nonce, pid |-> p], !.old = FALSE] \in Gates
      BY <3>1 DEF Gates
    <3>. QED
      BY <1>6, <2>3, <3>2, WriterMoves DEF WriteOwner
  <2>. QED
    BY <2>2, <2>3
<1>7. ASSUME NEW p \in Proc, Rename(p) PROVE TypeOK'
  BY <1>7, WriterMoves DEF Rename, Gates, GateInv
<1>8. ASSUME NEW p \in Proc, Abort(p) PROVE TypeOK'
  BY <1>8, WriterGivesUp DEF Abort
<1>9. ASSUME NEW p \in Proc, Check(p) PROVE TypeOK'
  BY <1>9, WriterMoves DEF Check
<1>10. ASSUME NEW p \in Proc, Release(p) PROVE TypeOK'
  BY <1>10, WriterGivesUp, WithoutRemoves DEF Release
<1>11. ASSUME NEW p \in Proc, Crash(p) PROVE TypeOK'
  BY <1>11 DEF Crash
<1>12. ASSUME GateAges PROVE TypeOK'
  BY <1>12 DEF GateAges, Gates
<1>13. ASSUME UNCHANGED vars PROVE TypeOK'
  BY <1>13 DEF vars
<1>. QED
  BY <1>1, <1>2, <1>3, <1>4, <1>5, <1>6, <1>7, <1>8, <1>9, <1>10, <1>11, <1>12, <1>13
     DEF Next, Step, Reclaim

\* Every step leaves the gate to the process that made it.
LEMMA GateStep ==
    ASSUME LockInv, [Next]_vars, [ClearsOnlyAbandoned]_vars
    PROVE  GateInv'
<1>. USE NoMetadata DEF LockInv, TypeOK, GateInv, AtGate, Owning, PCs, At
<1>1. ASSUME NEW p \in Proc, NEW aged, aged = {} \/ aged = Unreadable, Sweep(p, aged)
      PROVE  GateInv'
  <2>1. owners' = Without(Reclaimable \cup aged) /\ Goto(p, "looking") /\ gate' = gate /\ At(p, "idle")
    BY <1>1 DEF Sweep
  <2>. QED
    BY <2>1, WriterMoves
<1>2. ASSUME NEW p \in Proc, Look(p) PROVE GateInv'
  BY <1>2, WriterMoves, WriterGivesUp DEF Look
<1>3. ASSUME NEW p \in Proc, TakeGate(p) PROVE GateInv'
  <2>1. CASE gate = None
    <3>1. gate' = [meta |-> None, old |-> FALSE, by |-> p] /\ Goto(p, "gated")
      BY <1>3, <2>1 DEF TakeGate
    <3>2. gate' \in Gates
      BY <3>1 DEF Gates
    <3>3. \A q \in Proc : q # p => writer[q].pc \notin AtGate
      BY <2>1
    <3>. QED
      BY <3>1, <3>2, <3>3, WriterMoves
  <2>2. CASE gate # None
    BY <1>3, <2>2, WriterMoves, WriterGivesUp DEF TakeGate
  <2>. QED
    BY <2>1, <2>2
<1>4. ASSUME NEW p \in Proc, ClearGate(p) PROVE GateInv'
  BY <1>4, WriterGivesUp DEF ClearGate, ClearsOnlyAbandoned, vars
<1>5. ASSUME NEW p \in Proc, Recheck(p) PROVE GateInv'
  <2>1. gate' = gate /\ At(p, "gated") /\ gate # None /\ gate.by = p
    BY <1>5 DEF Recheck
  <2>2. /\ writer'[p].pc = "aborting" \/ (writer'[p].pc = "writing" /\ writer'[p].nonce \in Nonces)
        /\ \A q \in Proc : q # p => writer'[q] = writer[q]
    BY <1>5, RecheckEffect
  <2>. QED
    BY <2>1, <2>2
<1>6. ASSUME NEW p \in Proc, WriteOwner(p) PROVE GateInv'
  <2>1. gate # None /\ gate.by = p /\ At(p, "writing") /\ writer[p].nonce \in Nonces
    BY <1>6 DEF WriteOwner
  <2>2. /\ gate' = [gate EXCEPT !.meta = [nonce |-> writer[p].nonce, pid |-> p], !.old = FALSE]
        /\ Goto(p, "renaming")
    BY <1>6, <2>1 DEF WriteOwner
  <2>3. /\ gate' \in Gates /\ gate'.by = p
        /\ gate'.meta = [nonce |-> writer[p].nonce, pid |-> p]
    BY <2>1, <2>2 DEF Gates, Metadata
  <2>4. \A q \in Proc : q # p => writer[q].pc \notin AtGate
    BY <2>1
  <2>. QED
    BY <2>1, <2>2, <2>3, <2>4, WriterMoves
<1>7. ASSUME NEW p \in Proc, Rename(p) PROVE GateInv'
  <2>1. gate # None /\ gate.by = p /\ At(p, "renaming") /\ writer[p].nonce \in Nonces
    BY <1>7 DEF Rename
  <2>2. Goto(p, "checking")
    BY <1>7, <2>1 DEF Rename
  <2>3. \A q \in Proc : q # p => writer[q].pc \notin AtGate
    BY <2>1
  <2>. QED
    BY <2>1, <2>2, <2>3, WriterMoves
<1>8. ASSUME NEW p \in Proc, Abort(p) PROVE GateInv'
  <2>1. gate # None /\ gate.by = p /\ GiveUp(p)
    BY <1>8 DEF Abort
  <2>2. \A q \in Proc : q # p => writer[q].pc \notin AtGate
    BY <2>1
  <2>. QED
    BY <2>1, <2>2, WriterGivesUp
<1>9. ASSUME NEW p \in Proc, Check(p) PROVE GateInv'
  BY <1>9, WriterMoves DEF Check
<1>10. ASSUME NEW p \in Proc, Release(p) PROVE GateInv'
  BY <1>10, WriterGivesUp DEF Release
<1>11. ASSUME NEW p \in Proc, Crash(p) PROVE GateInv'
  BY <1>11 DEF Crash
<1>12. ASSUME GateAges PROVE GateInv'
  <2>1. gate # None /\ gate' = [gate EXCEPT !.old = TRUE] /\ UNCHANGED writer
    BY <1>12 DEF GateAges
  <2>2. gate' \in Gates /\ gate'.by = gate.by /\ gate'.meta = gate.meta
    BY <2>1 DEF Gates
  <2>. QED
    BY <2>1, <2>2
<1>13. ASSUME UNCHANGED vars PROVE GateInv'
  BY <1>13 DEF vars
<1>. QED
  BY <1>1, <1>2, <1>3, <1>4, <1>5, <1>6, <1>7, <1>8, <1>9, <1>10, <1>11, <1>12, <1>13
     DEF Next, Step, Reclaim

\* Every step leaves one owner at most.
LEMMA OwnerStep ==
    ASSUME LockInv, [Next]_vars, [ClearsOnlyAbandoned]_vars
    PROVE  OwnerInv'
<1>. USE NoMetadata DEF LockInv, PCs, At, Owning, AtGate
<1>1. ASSUME NEW p \in Proc, NEW aged, aged = {} \/ aged = Unreadable, Sweep(p, aged)
      PROVE  OwnerInv'
  <2>1. owners' = Without(Reclaimable \cup aged) /\ Goto(p, "looking") /\ At(p, "idle")
    BY <1>1 DEF Sweep
  <2>2. ASSUME NEW q \in Proc, writer[q].pc \in Owning
        PROVE  writer[q].nonce \in Nonces /\ writer[q].nonce \notin Reclaimable \cup aged
    <3>1. /\ writer[q].nonce \in Nonces
          /\ owners[writer[q].nonce] = [nonce |-> writer[q].nonce, pid |-> q]
      BY <2>2 DEF GateInv, OwnerInv
    <3>2. owners[writer[q].nonce] # None
      BY <3>1, OwnMetadata
    <3>. QED
      BY <1>1, <2>2, <3>1, <3>2 DEF Reclaimable, Unreadable
  <2>. QED
    BY <2>1, <2>2, WriterMoves, WithoutRemoves, OwnersOnlyGo
<1>2. ASSUME NEW p \in Proc, Look(p) PROVE OwnerInv'
  BY <1>2, WriterMoves, WriterGivesUp, OwnersOnlyGo DEF Look, Owners
<1>3. ASSUME NEW p \in Proc, TakeGate(p) PROVE OwnerInv'
  BY <1>3, WriterMoves, WriterGivesUp, OwnersOnlyGo DEF TakeGate, Owners
<1>4. ASSUME NEW p \in Proc, ClearGate(p) PROVE OwnerInv'
  BY <1>4, WriterGivesUp, OwnersOnlyGo DEF ClearGate, Owners
<1>5. ASSUME NEW p \in Proc, Recheck(p) PROVE OwnerInv'
  <2>1. /\ owners' = owners /\ Owners' = Owners
        /\ writer'[p].pc = "aborting" \/ (writer'[p].pc = "writing" /\ Owners = {})
        /\ \A q \in Proc : q # p => writer'[q] = writer[q]
    BY <1>5, RecheckEffect DEF Recheck, Owners
  <2>. QED
    BY <2>1 DEF OwnerInv
<1>6. ASSUME NEW p \in Proc, WriteOwner(p) PROVE OwnerInv'
  BY <1>6, WriterMoves, OwnersOnlyGo DEF WriteOwner, Owners, OwnerInv
<1>7. ASSUME NEW p \in Proc, Rename(p) PROVE OwnerInv'
  <2>1. gate # None /\ gate.by = p /\ At(p, "renaming") /\ writer[p].nonce \in Nonces /\ Owners = {}
    BY <1>7 DEF Rename, GateInv, OwnerInv
  <2>2. /\ Goto(p, "checking")
        /\ owners' = [owners EXCEPT ![writer[p].nonce] = [nonce |-> writer[p].nonce, pid |-> p]]
    BY <1>7, <2>1 DEF Rename, GateInv
  <2>3. Owners' \subseteq {writer[p].nonce}
    BY <2>1, <2>2 DEF TypeOK, Owners
  <2>4. owners'[writer[p].nonce] = [nonce |-> writer[p].nonce, pid |-> p]
    BY <2>1, <2>2 DEF TypeOK
  <2>5. /\ writer'[p].pc = "checking" /\ writer'[p].nonce = writer[p].nonce
        /\ \A q \in Proc : q # p => writer'[q] = writer[q]
    BY <2>2, WriterMoves
  <2>6. \A q \in Proc : q # p => writer[q].pc \notin {"writing", "renaming"} \cup Owning
    <3>1. \A q \in Proc : writer[q].pc \in {"writing", "renaming"} => q = p
      BY <2>1 DEF GateInv
    <3>2. \A q \in Proc : writer[q].pc \notin Owning
      BY <2>1, HasOwner
    <3>. QED
      BY <3>1, <3>2
  <2>. QED
    BY <2>3, <2>4, <2>5, <2>6 DEF OwnerInv
<1>8. ASSUME NEW p \in Proc, Abort(p) PROVE OwnerInv'
  BY <1>8, WriterGivesUp, OwnersOnlyGo DEF Abort, Owners
<1>9. ASSUME NEW p \in Proc, Check(p) PROVE OwnerInv'
  BY <1>9, WriterMoves, OwnersOnlyGo DEF Check, Owners
<1>10. ASSUME NEW p \in Proc, Release(p) PROVE OwnerInv'
  <2>1. owners' = Without({writer[p].nonce}) /\ GiveUp(p) /\ writer[p].pc \in Owning
    BY <1>10 DEF Release
  <2>2. ASSUME NEW q \in Proc, q # p, writer[q].pc \in Owning
        PROVE  writer[q].nonce \in Nonces /\ writer[q].nonce # writer[p].nonce
    <3>1. /\ owners[writer[q].nonce] = [nonce |-> writer[q].nonce, pid |-> q]
          /\ owners[writer[p].nonce] = [nonce |-> writer[p].nonce, pid |-> p]
      BY <2>1, <2>2 DEF OwnerInv
    <3>. QED
      BY <2>1, <2>2, <3>1 DEF GateInv
  <2>3. /\ writer'[p].pc = "idle" /\ \A q \in Proc : q # p => writer'[q] = writer[q]
        /\ Owners' \subseteq Owners
        /\ \A n \in Nonces : n # writer[p].nonce => owners'[n] = owners[n]
    BY <2>1, WriterGivesUp, WithoutRemoves
  <2>. QED
    BY <2>2, <2>3, OwnersOnlyGo
<1>11. ASSUME NEW p \in Proc, Crash(p) PROVE OwnerInv'
  BY <1>11, OwnersOnlyGo DEF Crash, Owners
<1>12. ASSUME GateAges PROVE OwnerInv'
  BY <1>12 DEF GateAges, Owners, OwnerInv
<1>13. ASSUME UNCHANGED vars PROVE OwnerInv'
  BY <1>13 DEF vars, Owners, OwnerInv
<1>. QED
  BY <1>1, <1>2, <1>3, <1>4, <1>5, <1>6, <1>7, <1>8, <1>9, <1>10, <1>11, <1>12, <1>13
     DEF Next, Step, Reclaim

LEMMA LockInvStep ==
    ASSUME LockInv, [Next]_vars, [ClearsOnlyAbandoned]_vars
    PROVE  LockInv'
BY LockTypeStep, GateStep, OwnerStep DEF LockInv

LEMMA LockInvExcludes == LockInv => MutualExclusion
<1>. SUFFICES ASSUME LockInv, NEW p \in Proc, NEW q \in Proc, At(p, "holding"), At(q, "holding")
              PROVE  p = q
  BY DEF MutualExclusion
<1>1. writer[p].nonce \in Owners /\ writer[q].nonce \in Owners
  BY HasOwner DEF LockInv, Owning, At
<1>2. writer[p].nonce = writer[q].nonce
  BY <1>1 DEF LockInv, OwnerInv
<1>3. [nonce |-> writer[p].nonce, pid |-> p] = [nonce |-> writer[q].nonce, pid |-> q]
  BY <1>2 DEF LockInv, OwnerInv, Owning, At
<1>. QED
  BY <1>3

\* One writer at a time holds the lock of an experience directory, whoever is
\* killed and however long a process is paused, as long as no gate is cleared
\* while its maker lives.
THEOREM LockExcludes == Spec /\ [][ClearsOnlyAbandoned]_vars => []MutualExclusion
<1>1. LockInv /\ [Next]_vars /\ [ClearsOnlyAbandoned]_vars => LockInv'
  BY LockInvStep
<1>. QED
  BY LockInitInv, <1>1, LockInvExcludes, PTL DEF Spec

\* Where nobody is killed or paused, no gate grows old and nobody clears one.
Calm ==
    /\ gate # None => ~ gate.old
    /\ \A p \in Proc : writer[p].pc \notin {"dead", "clearing"}

LEMMA CalmStep ==
    ASSUME ~ MayCrash, ~ MayStall, LockInv, Calm, [Next]_vars
    PROVE  Calm' /\ [ClearsOnlyAbandoned]_vars
<1>. USE NoMetadata DEF LockInv, PCs, At, Calm
<1>1. ASSUME NEW p \in Proc, ~ At(p, "clearing"),
             /\ \A q \in Proc : q # p => writer'[q] = writer[q]
             /\ writer'[p].pc \notin {"dead", "clearing"},
             gate' \in {gate, None} \/ (gate' # None /\ ~ gate'.old)
      PROVE  Calm'
  BY <1>1
<1>2. ASSUME NEW p \in Proc, Reclaim(p) PROVE Calm'
  BY <1>1, <1>2, WriterMoves DEF Reclaim, Sweep
<1>3. ASSUME NEW p \in Proc, Look(p) PROVE Calm'
  BY <1>1, <1>3, WriterMoves, WriterGivesUp DEF Look
<1>4. ASSUME NEW p \in Proc, TakeGate(p) PROVE Calm'
  <2>1. gate' \in {gate, None} \/ (gate' # None /\ ~ gate'.old)
    BY <1>4 DEF TakeGate
  <2>2. ~ At(p, "clearing") /\ (Goto(p, "gated") \/ GiveUp(p))
    BY <1>4 DEF TakeGate
  <2>. QED
    BY <1>1, <2>1, <2>2, WriterMoves, WriterGivesUp
<1>5. ASSUME NEW p \in Proc, Recheck(p) PROVE Calm'
  BY <1>1, <1>5, RecheckEffect DEF Recheck
<1>6. ASSUME NEW p \in Proc, WriteOwner(p) PROVE Calm'
  <2>1. gate' \in {gate, None} \/ (gate' # None /\ ~ gate'.old)
    <3>1. CASE gate = None
      BY <1>6, <3>1 DEF WriteOwner
    <3>2. CASE gate # None
      <4>1. gate \in Gates /\ writer[p].nonce \in Nonces
        BY <1>6, <3>2 DEF WriteOwner, TypeOK, GateInv
      <4>2. [gate EXCEPT !.meta = [nonce |-> writer[p].nonce, pid |-> p], !.old = FALSE] \in Gates
        BY <4>1 DEF Gates, Metadata
      <4>. QED
        BY <1>6, <3>2, <4>1, <4>2 DEF WriteOwner, Gates
    <3>. QED
      BY <3>1, <3>2
  <2>2. ~ At(p, "clearing") /\ (Goto(p, "renaming") \/ Goto(p, "aborting"))
    BY <1>6 DEF WriteOwner
  <2>. QED
    BY <1>1, <2>1, <2>2, WriterMoves
<1>7. ASSUME NEW p \in Proc, Rename(p) PROVE Calm'
  BY <1>1, <1>7, WriterMoves DEF Rename
<1>8. ASSUME NEW p \in Proc, Abort(p) PROVE Calm'
  BY <1>1, <1>8, WriterGivesUp DEF Abort
<1>9. ASSUME NEW p \in Proc, Check(p) PROVE Calm'
  BY <1>1, <1>9, WriterMoves DEF Check
<1>10. ASSUME NEW p \in Proc, Release(p) PROVE Calm'
  BY <1>1, <1>10, WriterGivesUp DEF Release
<1>11. ~ GateAges /\ \A p \in Proc : ~ Crash(p) /\ ~ ClearGate(p)
  BY DEF GateAges, Crash, ClearGate, TypeOK, Gates
<1>12. ASSUME UNCHANGED vars PROVE Calm'
  BY <1>12 DEF vars
<1>13. Calm'
  BY <1>2, <1>3, <1>4, <1>5, <1>6, <1>7, <1>8, <1>9, <1>10, <1>11, <1>12 DEF Next, Step
<1>14. [ClearsOnlyAbandoned]_vars
  BY <1>11 DEF ClearsOnlyAbandoned
<1>. QED
  BY <1>13, <1>14

\* Writers that nobody kills or pauses exclude each other, with no condition
\* left: the gate, the re-check under it and the nonce are enough.
THEOREM LockExcludesAlive ==
    ASSUME ~ MayCrash, ~ MayStall
    PROVE  Spec => []MutualExclusion
<1>1. Init => Calm
  BY DEF Init, Calm
<1>2. LockInv /\ Calm /\ [Next]_vars => LockInv' /\ Calm'
  BY CalmStep, LockInvStep
<1>. QED
  BY LockInitInv, <1>1, <1>2, LockInvExcludes, PTL DEF Spec

-----------------------------------------------------------------------------
(* What the condition comes to where nobody is paused *)

\* One process at a time is between the age it read and the removal.
OneSweeper == \A p, q \in Proc : At(p, "clearing") /\ At(q, "clearing") => p = q

\* A gate that is old, or about to be cleared, is a dead process's.
SweepInv ==
    /\ gate # None /\ gate.old => At(gate.by, "dead")
    /\ \A p \in Proc : At(p, "clearing") => gate # None /\ At(gate.by, "dead")

\* A step that leaves the gate alone, kills nobody back to life, and makes no
\* new sweeper.
LEMMA SweepKept ==
    ASSUME SweepInv, UNCHANGED gate,
           \A q \in Proc : At(q, "dead") => At(q, "dead")',
           \A q \in Proc : At(q, "clearing")' => At(q, "clearing"),
           gate = None \/ gate \in Gates
    PROVE  SweepInv'
BY NoMetadata DEF SweepInv, Gates

\* Whoever is at its gate is alive, so that nobody is sweeping, and leaves none
\* or a new one.
LEMMA SweepAtGate ==
    ASSUME LockInv, SweepInv, NEW p \in Proc, writer[p].pc \in AtGate,
           \A q \in Proc : q # p => writer'[q] = writer[q],
           writer'[p].pc # "clearing", gate' = None \/ ~ gate'.old
    PROVE  SweepInv'
<1>1. gate # None /\ gate.by = p /\ ~ At(p, "dead")
  BY DEF LockInv, GateInv, AtGate, At
<1>2. \A q \in Proc : ~ At(q, "clearing")
  BY <1>1 DEF SweepInv
<1>3. \A q \in Proc : ~ At(q, "clearing")'
  BY <1>2 DEF At
<1>. QED
  BY <1>3 DEF SweepInv

LEMMA SweepStep ==
    ASSUME ~ MayStall, LockInv, SweepInv, OneSweeper, [Next]_vars
    PROVE  SweepInv' /\ [ClearsOnlyAbandoned]_vars
<1>. USE DEF At, PCs
<1>0. TypeOK /\ (gate = None \/ gate \in Gates)
  BY DEF LockInv, TypeOK
<1>1. ASSUME NEW p \in Proc, UNCHANGED gate, ~ At(p, "dead"),
             \A q \in Proc : q # p => writer'[q] = writer[q],
             writer'[p].pc # "clearing"
      PROVE  SweepInv'
  BY <1>0, <1>1, SweepKept
<1>2. ASSUME NEW p \in Proc, Reclaim(p) PROVE SweepInv'
  BY <1>0, <1>1, <1>2, WriterMoves DEF Reclaim, Sweep
<1>3. ASSUME NEW p \in Proc, Look(p) PROVE SweepInv'
  BY <1>0, <1>1, <1>3, WriterMoves, WriterGivesUp DEF Look
<1>4. ASSUME NEW p \in Proc, TakeGate(p) PROVE SweepInv'
  <2>0. At(p, "queued") /\ \A q \in Proc : q # p => writer'[q] = writer[q]
    BY <1>0, <1>4, WriterMoves, WriterGivesUp DEF TakeGate
  <2>1. CASE gate = None
    <3>1. gate' = [meta |-> None, old |-> FALSE, by |-> p] /\ writer'[p].pc = "gated"
      BY <1>0, <1>4, <2>1, WriterMoves DEF TakeGate
    <3>2. \A q \in Proc : ~ At(q, "clearing")'
      BY <2>0, <2>1, <3>1 DEF SweepInv
    <3>. QED
      BY <3>1, <3>2 DEF SweepInv
  <2>2. CASE gate # None /\ gate.old
    <3>1. gate' = gate /\ writer'[p].pc = "clearing"
      BY <1>0, <1>4, <2>2, WriterMoves DEF TakeGate
    <3>2. gate.by \in Proc /\ At(gate.by, "dead") /\ gate.by # p
      BY <1>0, <2>0, <2>2, NoMetadata DEF SweepInv, Gates
    <3>. QED
      BY <2>0, <2>2, <3>1, <3>2 DEF SweepInv
  <2>3. CASE gate # None /\ ~ gate.old
    BY <1>0, <1>1, <1>4, <2>0, <2>3, WriterGivesUp DEF TakeGate
  <2>. QED
    BY <2>1, <2>2, <2>3
<1>5. ASSUME NEW p \in Proc, ClearGate(p) PROVE SweepInv'
  <2>1. gate' = None /\ At(p, "clearing") /\ writer'[p].pc = "idle"
        /\ \A q \in Proc : q # p => writer'[q] = writer[q]
    BY <1>0, <1>5, WriterGivesUp DEF ClearGate
  <2>2. \A q \in Proc : ~ At(q, "clearing")'
    BY <2>1 DEF OneSweeper
  <2>. QED
    BY <2>1, <2>2 DEF SweepInv
<1>6. ASSUME NEW p \in Proc, Recheck(p) PROVE SweepInv'
  BY <1>0, <1>1, <1>6, RecheckEffect DEF Recheck
<1>7. ASSUME NEW p \in Proc, WriteOwner(p) PROVE SweepInv'
  <2>1. At(p, "writing") /\ writer'[p].pc \in {"renaming", "aborting"}
        /\ \A q \in Proc : q # p => writer'[q] = writer[q]
    BY <1>0, <1>7, WriterMoves DEF WriteOwner
  <2>2. gate' = None \/ ~ gate'.old
    BY <1>0, <1>7 DEF WriteOwner, Gates
  <2>. QED
    BY <2>1, <2>2, SweepAtGate DEF AtGate
<1>8. ASSUME NEW p \in Proc, Rename(p) PROVE SweepInv'
  <2>1. At(p, "renaming") /\ writer'[p].pc \in {"checking", "aborting"} /\ gate' = None
        /\ \A q \in Proc : q # p => writer'[q] = writer[q]
    BY <1>0, <1>8, WriterMoves DEF Rename
  <2>. QED
    BY <2>1, SweepAtGate DEF AtGate
<1>9. ASSUME NEW p \in Proc, Abort(p) PROVE SweepInv'
  <2>1. At(p, "aborting") /\ writer'[p].pc = "idle" /\ gate' = None
        /\ \A q \in Proc : q # p => writer'[q] = writer[q]
    BY <1>0, <1>9, WriterGivesUp DEF Abort
  <2>. QED
    BY <2>1, SweepAtGate DEF AtGate
<1>10. ASSUME NEW p \in Proc, Check(p) PROVE SweepInv'
  BY <1>0, <1>1, <1>10, WriterMoves DEF Check
<1>11. ASSUME NEW p \in Proc, Release(p) PROVE SweepInv'
  BY <1>0, <1>1, <1>11, WriterGivesUp DEF Release
<1>12. ASSUME NEW p \in Proc, Crash(p) PROVE SweepInv'
  <2>1. UNCHANGED gate /\ ~ At(p, "dead") /\ writer'[p].pc # "clearing"
        /\ \A q \in Proc : q # p => writer'[q] = writer[q]
    BY <1>0, <1>12 DEF Crash, TypeOK
  <2>. QED
    BY <1>1, <2>1
<1>13. ASSUME GateAges PROVE SweepInv'
  <2>1. gate # None /\ At(gate.by, "dead") /\ writer' = writer
        /\ gate' = [gate EXCEPT !.old = TRUE]
    BY <1>13 DEF GateAges
  <2>2. gate' # None /\ gate'.by = gate.by
    BY <1>0, <2>1, NoMetadata DEF Gates
  <2>. QED
    BY <2>1, <2>2 DEF SweepInv
<1>14. ASSUME UNCHANGED vars PROVE SweepInv'
  BY <1>14 DEF vars, SweepInv
<1>15. SweepInv'
  BY <1>2, <1>3, <1>4, <1>5, <1>6, <1>7, <1>8, <1>9, <1>10, <1>11, <1>12, <1>13, <1>14
     DEF Next, Step
<1>16. ClearsOnlyAbandoned
  BY DEF ClearsOnlyAbandoned, ClearGate, SweepInv
<1>. QED
  BY <1>15, <1>16

LEMMA SweepInit == Init => SweepInv
BY DEF Init, SweepInv, At

\* Two processes are never both sweeping: each would find the other's gate.
LEMMA PairSweeps ==
    ASSUME LockInv, SweepInv, \A p, q, r \in Proc : p = q \/ q = r \/ r = p
    PROVE  OneSweeper
<1>. SUFFICES ASSUME NEW p \in Proc, NEW q \in Proc, At(p, "clearing"), At(q, "clearing"), p # q
              PROVE  FALSE
  BY DEF OneSweeper
<1>1. gate # None /\ At(gate.by, "dead") /\ gate.by \in Proc
  BY DEF SweepInv, LockInv, TypeOK, Gates
<1>2. gate.by # p /\ gate.by # q
  BY <1>1 DEF At
<1>. QED
  BY <1>1, <1>2

\* All the lock lacks is that clearing an abandoned gate is itself exclusive: with
\* that it admits one owner at a time, whoever is killed.
THEOREM LockExcludesSwept ==
    ASSUME ~ MayStall
    PROVE  Spec /\ []OneSweeper => []MutualExclusion
<1>1. LockInv /\ SweepInv /\ OneSweeper /\ [Next]_vars => LockInv' /\ SweepInv'
  BY SweepStep, LockInvStep
<1>. QED
  BY LockInitInv, SweepInit, <1>1, LockInvExcludes, PTL DEF Spec

\* Two processes exclude each other, whenever either is killed.
THEOREM PairExcludes ==
    ASSUME ~ MayStall, \A p, q, r \in Proc : p = q \/ q = r \/ r = p
    PROVE  Spec => []MutualExclusion
<1>1. LockInv /\ SweepInv /\ [Next]_vars => LockInv' /\ SweepInv'
  BY PairSweeps, SweepStep, LockInvStep
<1>. QED
  BY LockInitInv, SweepInit, <1>1, LockInvExcludes, PTL DEF Spec

-----------------------------------------------------------------------------
(* The quota under the lock *)

\* Between the decision and the release.
Inside == {"writing", "publishing", "verifying", "cleaning", "answering"}

\* What a write knows of the project's records while it is inside the lock.
TxnOK(p) ==
    /\ txn[p].step \in Inside => At(p, "holding")
    /\ txn[p].step \notin {"idle", "dead"} => txn[p].name \in Names
    /\ txn[p].step \in {"writing", "publishing"} =>
          IF txn[p].isNew THEN txn[p].name \notin records /\ Cardinality(records) < MaxRecords
                          ELSE txn[p].name \in records
    /\ txn[p].step \in {"verifying", "cleaning"} => txn[p].name \in records
    /\ txn[p].step = "answering" /\ txn[p].answer = "stored" => txn[p].name \in records
    /\ txn[p].step = "answering" /\ txn[p].answer = "quota_exceeded" => txn[p].name \notin records

CountInv ==
    /\ IsFiniteSet(records)
    /\ Cardinality(records) <= MaxRecords
    /\ stored \subseteq records

QuotaInv ==
    /\ LockInv
    /\ QuotaTypeOK
    /\ \A p \in Proc : TxnOK(p)
    /\ CountInv

\* The write path uses the lock's directory through the lock's operations only.
LEMMA QuotaStepIsLockStep == [QuotaNext]_quotaVars => [Next]_vars
BY DEF QuotaNext, quotaVars, vars, Next, Step, WriteStep, Acquire, Decide, ScanFails, WriteTemporary,
   Publish, PublishFails, VerifyCeiling, CleanTemporaries, Return, Busy, WriterDies, Ask,
   TemporaryAges, Intrude, GateAges

\* A step that moves one write and leaves the records moves no other write.
LEMMA OthersKeep ==
    ASSUME \A q \in Proc : TxnOK(q), NEW p \in Proc, records' = records,
           \A q \in Proc : q # p => txn'[q] = txn[q] /\ writer'[q] = writer[q],
           TxnOK(p)'
    PROVE  \A q \in Proc : TxnOK(q)'
<1>1. ASSUME NEW q \in Proc, q # p PROVE TxnOK(q)'
  BY <1>1 DEF TxnOK, At
<1>. QED
  BY <1>1

\* Moving on, a write keeps its record and what it knows.
LEMMA TxnMoves ==
    ASSUME txn \in [Proc -> Txns], NEW p \in Proc, NEW step \in Steps, Advance(p, step)
    PROVE  /\ txn' \in [Proc -> Txns]
           /\ txn'[p].step = step /\ txn'[p].name = txn[p].name
           /\ txn'[p].isNew = txn[p].isNew /\ txn'[p].answer = txn[p].answer
           /\ \A q \in Proc : q # p => txn'[q] = txn[q]
<1>1. txn' = [txn EXCEPT ![p] = [txn[p] EXCEPT !.step = step]]
  BY DEF Advance
<1>2. txn[p] \in Txns
  OBVIOUS
<1>3. [txn[p] EXCEPT !.step = step] \in Txns
  BY <1>2 DEF Txns
<1>. QED
  BY <1>1, <1>2, <1>3 DEF Txns

LEMMA TxnAnswers ==
    ASSUME txn \in [Proc -> Txns], NEW p \in Proc, NEW answer \in Answers, Answer(p, answer)
    PROVE  /\ txn' \in [Proc -> Txns]
           /\ txn'[p].step = "answering" /\ txn'[p].name = txn[p].name
           /\ txn'[p].answer = answer
           /\ \A q \in Proc : q # p => txn'[q] = txn[q]
<1>1. txn' = [txn EXCEPT ![p] = [txn[p] EXCEPT !.step = "answering", !.answer = answer]]
  BY DEF Answer
<1>2. txn[p] \in Txns
  OBVIOUS
<1>3. [txn[p] EXCEPT !.step = "answering", !.answer = answer] \in Txns
  BY <1>2 DEF Txns, Steps
<1>. QED
  BY <1>1, <1>2, <1>3 DEF Txns

LEMMA TxnEnds ==
    ASSUME txn \in [Proc -> Txns], NEW p \in Proc, txn' = [txn EXCEPT ![p] = NoTxn]
    PROVE  /\ txn' \in [Proc -> Txns]
           /\ txn'[p].step = "idle"
           /\ \A q \in Proc : q # p => txn'[q] = txn[q]
<1>1. NoTxn \in Txns /\ NoTxn.step = "idle"
  BY DEF NoTxn, Txns, Steps
<1>. QED
  BY <1>1

\* An attempt to acquire touches its own writer only.
LEMMA AcquireEffect ==
    ASSUME LockInv, NEW p \in Proc, Acquire(p)
    PROVE  /\ \A q \in Proc : q # p => writer'[q] = writer[q]
           /\ Advance(p, "trying") /\ txn[p].step \in {"asking", "trying"}
           /\ UNCHANGED <<records, stored>>
<1>1. /\ Advance(p, "trying") /\ txn[p].step \in {"asking", "trying"}
      /\ UNCHANGED <<records, stored>>
  BY DEF Acquire, In, files
<1>2. \/ \E pc \in PCs : Goto(p, pc)
      \/ GiveUp(p)
      \/ Recheck(p)
  BY DEF Acquire, Reclaim, Sweep, Look, TakeGate, ClearGate, WriteOwner, Rename, Abort, Check,
         Release, PCs
<1>3. \A q \in Proc : q # p => writer'[q] = writer[q]
  BY <1>2, WriterMoves, WriterGivesUp, RecheckEffect DEF LockInv
<1>. QED
  BY <1>1, <1>3

LEMMA QuotaInitInv == QuotaInit => QuotaInv
<1>. SUFFICES ASSUME QuotaInit PROVE QuotaInv
  OBVIOUS
<1>1. NoTxn \in Txns /\ NoTxn.step = "idle"
  BY DEF NoTxn, Txns, Steps
<1>2. LockInv
  BY LockInitInv DEF QuotaInit
<1>3. CountInv
  BY FS_EmptySet, QuotaAssumption DEF QuotaInit, CountInv
<1>4. QuotaTypeOK
  BY <1>1, <1>2, QuotaAssumption DEF QuotaInit, QuotaTypeOK, LockInv
<1>5. \A p \in Proc : TxnOK(p)
  BY <1>1 DEF QuotaInit, TxnOK, Inside
<1>. QED
  BY <1>2, <1>3, <1>4, <1>5 DEF QuotaInv

\* The decision is one of three.
LEMMA DecideEffect ==
    ASSUME QuotaTypeOK, NEW p \in Proc, Decide(p)
    PROVE  /\ In(p, "trying") /\ At(p, "holding") /\ UNCHANGED <<vars, files, stored>>
           /\ txn' \in [Proc -> Txns]
           /\ txn'[p].name = txn[p].name
           /\ \A q \in Proc : q # p => txn'[q] = txn[q]
           /\ \/ txn'[p].step = "answering" /\ txn'[p].answer = "indeterminate"
              \/ /\ txn'[p].step = "answering" /\ txn'[p].answer = "quota_exceeded"
                 /\ txn[p].name \notin records
              \/ /\ txn'[p].step = "writing" /\ txn'[p].isNew = (txn[p].name \notin records)
                 /\ txn'[p].isNew => ~ (Cardinality(records) >= MaxRecords)
<1>. DEFINE isNew == txn[p].name \notin records
<1>1. In(p, "trying") /\ At(p, "holding") /\ UNCHANGED <<vars, files, stored>>
  BY DEF Decide
<1>2. CASE ~ ScanIsComplete
  <2>1. Answer(p, "indeterminate")
    BY <1>2 DEF Decide
  <2>. QED
    BY <1>1, <2>1, TxnAnswers DEF QuotaTypeOK, Answers
<1>3. CASE ScanIsComplete /\ isNew /\ Cardinality(records) >= MaxRecords
  <2>1. Answer(p, "quota_exceeded")
    BY <1>3 DEF Decide
  <2>. QED
    BY <1>1, <1>3, <2>1, TxnAnswers DEF QuotaTypeOK, Answers
<1>4. CASE ScanIsComplete /\ ~ (isNew /\ Cardinality(records) >= MaxRecords)
  <2>1. txn' = [txn EXCEPT ![p] = [txn[p] EXCEPT !.step = "writing", !.isNew = isNew, !.seen = temps]]
    BY <1>4 DEF Decide
  <2>2. isNew \in BOOLEAN /\ txn[p] \in Txns /\ temps \subseteq Temps
    BY DEF QuotaTypeOK
  <2>3. [txn[p] EXCEPT !.step = "writing", !.isNew = isNew, !.seen = temps] \in Txns
    BY <2>2 DEF Txns, Steps
  <2>4. /\ txn'[p].step = "writing" /\ txn'[p].isNew = isNew /\ txn'[p].name = txn[p].name
    BY <2>1, <2>2 DEF QuotaTypeOK, Txns
  <2>. QED
    BY <1>1, <1>4, <2>1, <2>3, <2>4 DEF QuotaTypeOK
<1>. QED
  BY <1>2, <1>3, <1>4

\* With the ceiling kept, the re-count never removes the record just written.
LEMMA VerifyEffect ==
    ASSUME QuotaTypeOK, CountInv, NEW p \in Proc, VerifyCeiling(p)
    PROVE  In(p, "verifying") /\ Advance(p, "cleaning") /\ UNCHANGED <<vars, files, stored>>
<1>1. Cardinality(records) \in Nat /\ MaxRecords \in Nat
  BY FS_CardinalityType, QuotaAssumption DEF CountInv
<1>2. ~ (Cardinality(records) > MaxRecords)
  BY <1>1 DEF CountInv
<1>. QED
  BY <1>2 DEF VerifyCeiling, files

LEMMA QuotaTypeStep ==
    ASSUME QuotaInv, TypeOK', [QuotaNext]_quotaVars
    PROVE  QuotaTypeOK'
<1>. USE DEF QuotaTypeOK, QuotaInv, files
<1>1. ASSUME NEW p \in Proc, NEW n \in Names, Ask(p, n) PROVE QuotaTypeOK'
  <2>1. [NoTxn EXCEPT !.step = "asking", !.name = n] \in Txns
    BY DEF NoTxn, Txns, Steps
  <2>. QED
    BY <1>1, <2>1 DEF Ask
<1>2. ASSUME NEW p \in Proc, Acquire(p) PROVE QuotaTypeOK'
  BY <1>2, TxnMoves DEF Acquire, Steps
<1>3. ASSUME NEW p \in Proc, Busy(p) PROVE QuotaTypeOK'
  BY <1>3, TxnEnds DEF Busy
<1>4. ASSUME NEW p \in Proc, Decide(p) PROVE QuotaTypeOK'
  BY <1>4, DecideEffect
<1>5. ASSUME NEW p \in Proc, ScanFails(p) PROVE QuotaTypeOK'
  BY <1>5, TxnAnswers DEF ScanFails, Answers
<1>6. ASSUME NEW p \in Proc, WriteTemporary(p) PROVE QuotaTypeOK'
  <2>1. [by |-> p, old |-> FALSE] \in Temps
    BY DEF Temps
  <2>2. temps' \subseteq Temps
    BY <1>6, <2>1 DEF WriteTemporary
  <2>. QED
    BY <1>6, <2>2, TxnMoves DEF WriteTemporary, Steps
<1>7. ASSUME NEW p \in Proc, Publish(p) PROVE QuotaTypeOK'
  <2>1. txn[p].name \in Names
    BY <1>7 DEF Publish, In, TxnOK
  <2>2. Advance(p, "verifying") \/ Advance(p, "cleaning")
    BY <1>7 DEF Publish
  <2>. QED
    BY <1>7, <2>1, <2>2, TxnMoves DEF Publish, Steps
<1>8. ASSUME NEW p \in Proc, PublishFails(p) PROVE QuotaTypeOK'
  BY <1>8, TxnAnswers DEF PublishFails, Answers
<1>9. ASSUME NEW p \in Proc, VerifyCeiling(p) PROVE QuotaTypeOK'
  BY <1>9, VerifyEffect, TxnMoves DEF Steps
<1>10. ASSUME NEW p \in Proc, CleanTemporaries(p) PROVE QuotaTypeOK'
  BY <1>10, TxnAnswers DEF CleanTemporaries, Answers
<1>11. ASSUME NEW p \in Proc, Return(p) PROVE QuotaTypeOK'
  <2>1. txn[p].name \in Names
    BY <1>11 DEF Return, In, TxnOK
  <2>. QED
    BY <1>11, <2>1, TxnEnds DEF Return
<1>12. ASSUME NEW p \in Proc, WriterDies(p) PROVE QuotaTypeOK'
  BY <1>12, TxnMoves DEF WriterDies, Steps
<1>13. ASSUME NEW t \in temps, TemporaryAges(t) PROVE QuotaTypeOK'
  <2>1. t \in Temps /\ [t EXCEPT !.old = TRUE] \in Temps
    BY DEF Temps
  <2>. QED
    BY <1>13, <2>1 DEF TemporaryAges
<1>14. ASSUME Intrude PROVE QuotaTypeOK'
  BY <1>14, QuotaAssumption DEF Intrude
<1>15. ASSUME UNCHANGED <<files, txn, stored>> PROVE QuotaTypeOK'
  BY <1>15
<1>. QED
  BY <1>1, <1>2, <1>3, <1>4, <1>5, <1>6, <1>7, <1>8, <1>9, <1>10, <1>11, <1>12, <1>13, <1>14, <1>15
     DEF QuotaNext, WriteStep, quotaVars

LEMMA QuotaStep ==
    ASSUME QuotaInv, LockInv', QuotaTypeOK', [QuotaNext]_quotaVars
    PROVE  (\A p \in Proc : TxnOK(p))' /\ CountInv'
<1>. USE DEF QuotaInv, Inside, In, files, vars
<1>. DEFINE Rest == (\A p \in Proc : TxnOK(p)) /\ CountInv
<1>0. txn \in [Proc -> Txns]
  BY DEF QuotaTypeOK
<1>1. ASSUME NEW p \in Proc, NEW n \in Names, Ask(p, n) PROVE Rest'
  <2>1. txn' = [txn EXCEPT ![p] = [NoTxn EXCEPT !.step = "asking", !.name = n]]
    BY <1>1 DEF Ask
  <2>2. txn'[p].step = "asking" /\ txn'[p].name = n /\ \A q \in Proc : q # p => txn'[q] = txn[q]
    BY <1>0, <2>1 DEF NoTxn
  <2>3. TxnOK(p)'
    BY <2>2 DEF TxnOK
  <2>4. writer' = writer /\ records' = records /\ stored' = stored
    BY <1>1 DEF Ask
  <2>. QED
    BY <2>2, <2>3, <2>4, OthersKeep DEF CountInv
<1>2. ASSUME NEW p \in Proc, Acquire(p) PROVE Rest'
  <2>1. /\ txn'[p].step = "trying" /\ txn'[p].name = txn[p].name
        /\ \A q \in Proc : q # p => txn'[q] = txn[q]
    BY <1>0, <1>2, AcquireEffect, TxnMoves DEF Steps
  <2>2. TxnOK(p) /\ txn[p].step \in {"asking", "trying"}
    BY <1>2, AcquireEffect
  <2>3. TxnOK(p)'
    BY <2>1, <2>2 DEF TxnOK
  <2>. QED
    BY <1>2, <2>1, <2>3, AcquireEffect, OthersKeep DEF CountInv
<1>3. ASSUME NEW p \in Proc, Busy(p) PROVE Rest'
  <2>1. TxnOK(p)'
    BY <1>0, <1>3, TxnEnds DEF Busy, TxnOK
  <2>. QED
    BY <1>0, <1>3, <2>1, TxnEnds, OthersKeep DEF Busy, CountInv
<1>4. ASSUME NEW p \in Proc, Decide(p) PROVE Rest'
  <2>1. Cardinality(records) \in Nat /\ MaxRecords \in Nat
    BY FS_CardinalityType, QuotaAssumption DEF CountInv
  <2>2. TxnOK(p)'
    <3>1. /\ At(p, "holding") /\ txn[p].name \in Names
          /\ writer' = writer /\ records' = records /\ txn'[p].name = txn[p].name
      BY <1>4, DecideEffect DEF TxnOK
    <3>2. CASE txn'[p].step = "answering" /\ txn'[p].answer = "indeterminate"
      BY <3>1, <3>2 DEF TxnOK, At
    <3>3. CASE /\ txn'[p].step = "answering" /\ txn'[p].answer = "quota_exceeded"
               /\ txn[p].name \notin records
      BY <3>1, <3>3 DEF TxnOK, At
    <3>4. CASE /\ txn'[p].step = "writing" /\ txn'[p].isNew = (txn[p].name \notin records)
               /\ txn'[p].isNew => ~ (Cardinality(records) >= MaxRecords)
      <4>1. CASE txn[p].name \in records
        BY <3>1, <3>4, <4>1 DEF TxnOK, At
      <4>2. CASE txn[p].name \notin records
        <5>1. txn'[p].isNew
          BY <3>4, <4>2
        <5>2. Cardinality(records) < MaxRecords
          BY <2>1, <3>4, <5>1
        <5>. QED
          BY <3>1, <3>4, <4>2, <5>1, <5>2 DEF TxnOK, At
      <4>. QED
        BY <4>1, <4>2
    <3>. QED
      BY <1>4, <3>2, <3>3, <3>4, DecideEffect
  <2>. QED
    BY <1>4, <2>2, DecideEffect, OthersKeep DEF CountInv
<1>5. ASSUME NEW p \in Proc, ScanFails(p) PROVE Rest'
  <2>1. TxnOK(p)'
    BY <1>0, <1>5, TxnAnswers DEF ScanFails, TxnOK, At, Answers
  <2>. QED
    BY <1>0, <1>5, <2>1, TxnAnswers, OthersKeep DEF ScanFails, CountInv, Answers
<1>6. ASSUME NEW p \in Proc, WriteTemporary(p) PROVE Rest'
  <2>1. TxnOK(p)'
    BY <1>0, <1>6, TxnMoves DEF WriteTemporary, TxnOK, At, Steps
  <2>. QED
    BY <1>0, <1>6, <2>1, TxnMoves, OthersKeep DEF WriteTemporary, CountInv, Steps
<1>7. ASSUME NEW p \in Proc, Publish(p) PROVE Rest'
  <2>1. /\ TxnOK(p) /\ txn[p].step = "publishing" /\ At(p, "holding")
        /\ records' = records \cup {txn[p].name}
        /\ writer' = writer /\ stored' = stored
    BY <1>7 DEF Publish, TxnOK
  <2>2. CountInv'
    <3>1. CASE txn[p].name \in records
      <4>1. records' = records
        BY <2>1, <3>1
      <4>. QED
        BY <2>1, <4>1 DEF CountInv
    <3>2. CASE txn[p].name \notin records
      <4>1. Cardinality(records) < MaxRecords
        BY <2>1, <3>2 DEF TxnOK
      <4>2. IsFiniteSet(records') /\ Cardinality(records') = Cardinality(records) + 1
        BY <2>1, <3>2, FS_AddElement DEF CountInv
      <4>3. Cardinality(records) \in Nat /\ MaxRecords \in Nat
        BY FS_CardinalityType, QuotaAssumption DEF CountInv
      <4>4. stored' \subseteq records'
        BY <2>1 DEF CountInv
      <4>. QED
        BY <4>1, <4>2, <4>3, <4>4 DEF CountInv
    <3>. QED
      BY <3>1, <3>2
  <2>3. /\ txn'[p].step \in {"verifying", "cleaning"} /\ txn'[p].name = txn[p].name
        /\ \A q \in Proc : q # p => txn'[q] = txn[q]
    <3>1. Advance(p, "verifying") \/ Advance(p, "cleaning")
      BY <1>7 DEF Publish
    <3>. QED
      BY <1>0, <3>1, TxnMoves DEF Steps
  <2>4. TxnOK(p)'
    BY <2>1, <2>3 DEF TxnOK, At
  <2>5. ASSUME NEW q \in Proc, q # p PROVE TxnOK(q)'
    <3>1. txn'[q] = txn[q] /\ TxnOK(q)
      BY <2>3, <2>5
    <3>2. txn[q].step \notin Inside
      BY <2>1, <2>5, LockInvExcludes DEF TxnOK, MutualExclusion
    <3>. QED
      BY <3>1, <3>2 DEF TxnOK
  <2>. QED
    BY <2>2, <2>4, <2>5
<1>8. ASSUME NEW p \in Proc, PublishFails(p) PROVE Rest'
  <2>1. TxnOK(p)'
    BY <1>0, <1>8, TxnAnswers DEF PublishFails, TxnOK, At, Answers
  <2>. QED
    BY <1>0, <1>8, <2>1, TxnAnswers, OthersKeep DEF PublishFails, CountInv, Answers
<1>9. ASSUME NEW p \in Proc, VerifyCeiling(p) PROVE Rest'
  <2>1. In(p, "verifying") /\ Advance(p, "cleaning") /\ UNCHANGED <<vars, files, stored>>
    BY <1>9, VerifyEffect
  <2>2. TxnOK(p)'
    BY <1>0, <2>1, TxnMoves DEF TxnOK, At, Steps
  <2>. QED
    BY <1>0, <2>1, <2>2, TxnMoves, OthersKeep DEF CountInv, Steps
<1>10. ASSUME NEW p \in Proc, CleanTemporaries(p) PROVE Rest'
  <2>1. TxnOK(p)'
    BY <1>0, <1>10, TxnAnswers DEF CleanTemporaries, TxnOK, At, Answers
  <2>. QED
    BY <1>0, <1>10, <2>1, TxnAnswers, OthersKeep DEF CleanTemporaries, CountInv, Answers
<1>11. ASSUME NEW p \in Proc, Return(p) PROVE Rest'
  <2>1. /\ TxnOK(p) /\ txn[p].step = "answering" /\ records' = records
        /\ stored' = IF txn[p].answer = "stored" THEN stored \cup {txn[p].name} ELSE stored
    BY <1>11 DEF Return
  <2>2. CountInv'
    BY <2>1 DEF CountInv, TxnOK
  <2>3. txn'[p].step = "idle" /\ \A q \in Proc : q # p => txn'[q] = txn[q]
    BY <1>0, <1>11, TxnEnds DEF Return
  <2>4. TxnOK(p)'
    BY <2>3 DEF TxnOK
  <2>5. \A q \in Proc : q # p => writer'[q] = writer[q]
    BY <1>11, WriterGivesUp DEF Return, Release, LockInv
  <2>. QED
    BY <2>1, <2>2, <2>3, <2>4, <2>5, OthersKeep
<1>12. ASSUME NEW p \in Proc, WriterDies(p) PROVE Rest'
  <2>1. TxnOK(p)'
    BY <1>0, <1>12, TxnMoves DEF WriterDies, TxnOK, Steps
  <2>2. \A q \in Proc : q # p => writer'[q] = writer[q]
    BY <1>12 DEF WriterDies, Crash, LockInv, TypeOK
  <2>. QED
    BY <1>0, <1>12, <2>1, <2>2, TxnMoves, OthersKeep DEF WriterDies, CountInv, Steps
<1>13. ASSUME UNCHANGED <<writer, records, txn, stored>> PROVE Rest'
  BY <1>13 DEF TxnOK, At, CountInv
<1>14. ASSUME NEW t \in temps, TemporaryAges(t) PROVE Rest'
  BY <1>13, <1>14 DEF TemporaryAges
<1>15. ASSUME Intrude \/ (GateAges /\ UNCHANGED <<files, txn, stored>>) \/ UNCHANGED quotaVars
       PROVE  Rest'
  BY <1>13, <1>15 DEF Intrude, GateAges, quotaVars
<1>. QED
  BY <1>1, <1>2, <1>3, <1>4, <1>5, <1>6, <1>7, <1>8, <1>9, <1>10, <1>11, <1>12, <1>14, <1>15
     DEF QuotaNext, WriteStep

\* Under the lock, QuotaInv holds of the project's directory and of every write.
THEOREM QuotaInvariant == QuotaSpec /\ [][ClearsOnlyAbandoned]_vars => []QuotaInv
<1>1. QuotaInv /\ [QuotaNext]_quotaVars /\ [ClearsOnlyAbandoned]_vars => QuotaInv'
  BY QuotaStepIsLockStep, LockInvStep, QuotaTypeStep, QuotaStep DEF QuotaInv, LockInv
<1>. QED
  BY QuotaInitInv, <1>1, PTL DEF QuotaSpec

\* The write path keeps the lock's promises to itself: what ProjectLock allows
\* is all it ever does to the lock's directory.
THEOREM QuotaUsesLock == QuotaSpec => Spec
<1>1. QuotaInit => Init
  BY DEF QuotaInit
<1>. QED
  BY <1>1, QuotaStepIsLockStep, PTL DEF QuotaSpec, Spec

\* A project never has more records than maxRecordsPerProject, not even between
\* a publication and its re-count.
THEOREM CeilingIsHard == QuotaSpec /\ [][ClearsOnlyAbandoned]_vars => []CeilingHolds
<1>1. QuotaInv => CeilingHolds
  BY DEF QuotaInv, CountInv, CeilingHolds
<1>. QED
  BY <1>1, QuotaInvariant, PTL

\* What write() reported stored is there ever after: nobody's failure, undo or
\* death takes it away.
THEOREM StoredIsKept == QuotaSpec /\ [][ClearsOnlyAbandoned]_vars => []StoredStays
<1>1. QuotaInv => StoredStays
  BY DEF QuotaInv, CountInv, StoredStays
<1>. QED
  BY <1>1, QuotaInvariant, PTL

\* A full project refuses only a record it does not have.
THEOREM RefusalIsForNew == QuotaSpec /\ [][ClearsOnlyAbandoned]_vars => []OnlyNewIsRefused
<1>1. QuotaInv => OnlyNewIsRefused
  BY DEF QuotaInv, TxnOK, OnlyNewIsRefused, In
<1>. QED
  BY <1>1, QuotaInvariant, PTL

\* Writers that nobody kills or pauses keep the ceiling and what they stored,
\* with no condition on gates left.
THEOREM AliveQuota ==
    ASSUME ~ MayCrash, ~ MayStall
    PROVE  QuotaSpec => [](CeilingHolds /\ StoredStays /\ OnlyNewIsRefused)
<1>1. QuotaInit => Calm
  BY DEF QuotaInit, Init, Calm
<1>2. QuotaInv /\ Calm /\ [QuotaNext]_quotaVars => QuotaInv' /\ Calm'
  BY QuotaStepIsLockStep, CalmStep, LockInvStep, QuotaTypeStep, QuotaStep DEF QuotaInv, LockInv
<1>3. QuotaInv => CeilingHolds /\ StoredStays /\ OnlyNewIsRefused
  BY DEF QuotaInv, CountInv, TxnOK, CeilingHolds, StoredStays, OnlyNewIsRefused, In
<1>. QED
  BY QuotaInitInv, <1>1, <1>2, <1>3, PTL DEF QuotaSpec

\* The ceiling is hard and what was stored stays, whoever is killed, if one
\* process at a time clears an abandoned gate.
THEOREM QuotaSwept ==
    ASSUME ~ MayStall
    PROVE  QuotaSpec /\ []OneSweeper => [](CeilingHolds /\ StoredStays /\ OnlyNewIsRefused)
<1>1. QuotaInit => SweepInv
  BY SweepInit DEF QuotaInit
<1>2. QuotaInv /\ SweepInv /\ OneSweeper /\ [QuotaNext]_quotaVars => QuotaInv' /\ SweepInv'
  BY QuotaStepIsLockStep, SweepStep, LockInvStep, QuotaTypeStep, QuotaStep DEF QuotaInv, LockInv
<1>3. QuotaInv => CeilingHolds /\ StoredStays /\ OnlyNewIsRefused
  BY DEF QuotaInv, CountInv, TxnOK, CeilingHolds, StoredStays, OnlyNewIsRefused, In
<1>. QED
  BY QuotaInitInv, <1>1, <1>2, <1>3, PTL DEF QuotaSpec

\* Two processes keep the ceiling and what they stored, whenever either is killed.
THEOREM PairQuota ==
    ASSUME ~ MayStall, \A p, q, r \in Proc : p = q \/ q = r \/ r = p
    PROVE  QuotaSpec => [](CeilingHolds /\ StoredStays /\ OnlyNewIsRefused)
<1>1. QuotaInit => SweepInv
  BY SweepInit DEF QuotaInit
<1>2. QuotaInv /\ SweepInv /\ [QuotaNext]_quotaVars => QuotaInv' /\ SweepInv'
  BY QuotaStepIsLockStep, PairSweeps, SweepStep, LockInvStep, QuotaTypeStep, QuotaStep
     DEF QuotaInv, LockInv
<1>3. QuotaInv => CeilingHolds /\ StoredStays /\ OnlyNewIsRefused
  BY DEF QuotaInv, CountInv, TxnOK, CeilingHolds, StoredStays, OnlyNewIsRefused, In
<1>. QED
  BY QuotaInitInv, <1>1, <1>2, <1>3, PTL DEF QuotaSpec
=============================================================================
