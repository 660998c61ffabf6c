----------------------------- MODULE ProjectLock -----------------------------
(***************************************************************************)
(* The write lock of an experience directory (experience/projectQuota.ts): *)
(* separate processes, one directory, and nothing but mkdir, writeFile,    *)
(* rename and rm.                                                          *)
(*                                                                         *)
(*   gate       <project>/_locks/_gate: the metadata in its owner.json, if *)
(*              any, whether gateAbandonMs have passed since it changed,   *)
(*              and (history) the process whose mkdir made it              *)
(*   owners     <project>/_locks/<nonce>: the metadata each one holds; the *)
(*              NAME of the directory is the lock's identity               *)
(*   writer[p]  where process p is in acquire(), and its nonce             *)
(*                                                                         *)
(* Each file-system step of #attempt is one action.  A nonce is fresh: one *)
(* nobody refers to.  MayStall is about time: without it a live process    *)
(* spends less than gateAbandonMs on any gate and less than lockAbandonMs  *)
(* on any lock, so only what a dead process left behind grows old.         *)
(***************************************************************************)
EXTENDS Integers, FiniteSets

CONSTANTS
    Proc,      \* processes that write to the project's directory
    Nonces,    \* a set of integers: the UUIDs in their sorting order
    None,      \* no metadata
    Absent,    \* no such directory
    MayCrash,  \* processes (all but one) may be killed
    MayStall   \* a live process may be paused for longer than gateAbandonMs and lockAbandonMs

ASSUME NonceAssumption == Nonces \subseteq Int /\ None \notin Nonces /\ Absent # None
ASSUME SwitchAssumption == MayCrash \in BOOLEAN /\ MayStall \in BOOLEAN

VARIABLES gate, owners, writer

vars == <<gate, owners, writer>>

-----------------------------------------------------------------------------
\* owner.json: the nonce and the process that wrote it.
Metadata == [nonce : Nonces, pid : Proc]
Gates == [meta : Metadata \cup {None}, old : BOOLEAN, by : Proc]

ASSUME NoMetadata == None \notin Metadata \cup Gates /\ Absent \notin Metadata

PCs == {"idle", "looking", "queued", "gated", "clearing", "writing", "renaming", "aborting",
        "checking", "yielding", "holding", "dead"}

Init ==
    /\ gate = None
    /\ owners = [n \in Nonces |-> Absent]
    /\ writer = [p \in Proc |-> [pc |-> "idle", nonce |-> None]]

At(p, pc) == writer[p].pc = pc
Goto(p, pc) == writer' = [writer EXCEPT ![p].pc = pc]

\* Back to the caller, which retries or reports `storage_busy`.
GiveUp(p) == writer' = [writer EXCEPT ![p] = [pc |-> "idle", nonce |-> None]]

Owners == {n \in Nonces : owners[n] # Absent}

Without(ns) == [n \in Nonces |-> IF n \in ns THEN Absent ELSE owners[n]]

-----------------------------------------------------------------------------
Orphan(n) == n \in Owners /\ \A p \in Proc : writer[p].nonce # n

\* Mutant: owners are never reclaimed.
NothingReclaimable == {}

\* #reclaimDeadOwners: metadata that names this very directory and a process that is gone.
Reclaimable ==
    {n \in Owners : owners[n] # None /\ owners[n].nonce = n /\ At(owners[n].pid, "dead")}

\* What cannot be read goes once lockAbandonMs have passed.
Unreadable == {n \in Owners : owners[n] = None /\ (MayStall \/ Orphan(n))}

Sweep(p, aged) ==
    /\ At(p, "idle")
    /\ owners' = Without(Reclaimable \cup aged)
    /\ Goto(p, "looking")
    /\ UNCHANGED gate

Reclaim(p) == Sweep(p, {}) \/ Sweep(p, Unreadable)

\* An owner, alive as far as reclaiming could tell, is never disturbed.
Look(p) ==
    /\ At(p, "looking")
    /\ IF Owners = {} THEN Goto(p, "queued") ELSE GiveUp(p)
    /\ UNCHANGED <<gate, owners>>

\* Mutant: a gate that was left behind stays.
TakeGateOnly(p) ==
    /\ At(p, "queued")
    /\ IF gate = None
       THEN /\ gate' = [meta |-> None, old |-> FALSE, by |-> p]
            /\ Goto(p, "gated")
       ELSE GiveUp(p) /\ UNCHANGED gate
    /\ UNCHANGED owners

\* mkdir(_gate)
TakeGate(p) ==
    /\ At(p, "queued")
    /\ IF gate = None
       THEN /\ gate' = [meta |-> None, old |-> FALSE, by |-> p]
            /\ Goto(p, "gated")
       ELSE /\ IF gate.old THEN Goto(p, "clearing") ELSE GiveUp(p)
            /\ UNCHANGED gate
    /\ UNCHANGED owners

\* #clearAbandonedGate: the gate was old when looked at; whatever is there now goes.
ClearGate(p) ==
    /\ At(p, "clearing")
    /\ gate' = None
    /\ GiveUp(p)
    /\ UNCHANGED owners

Fresh(n) ==
    /\ n \notin Owners
    /\ \A q \in Proc : writer[q].nonce # n
    /\ gate # None /\ gate.meta # None => gate.meta.nonce # n
    /\ \A m \in Owners : owners[m] # None => owners[m].nonce # n

\* Mutant: the gate is taken for the lock.
RecheckNothing(p) ==
    /\ At(p, "gated")
    /\ \E n \in Nonces :
         Fresh(n) /\ writer' = [writer EXCEPT ![p] = [pc |-> "writing", nonce |-> n]]
    /\ UNCHANGED <<gate, owners>>

\* The re-check under the gate.
Recheck(p) ==
    /\ At(p, "gated")
    /\ IF Owners # {}
       THEN Goto(p, "aborting")
       ELSE \E n \in Nonces :
                Fresh(n) /\ writer' = [writer EXCEPT ![p] = [pc |-> "writing", nonce |-> n]]
    /\ UNCHANGED <<gate, owners>>

\* writeFile(_gate/owner.json): into whichever gate is there.
WriteOwner(p) ==
    /\ At(p, "writing")
    /\ IF gate # None
       THEN /\ gate' = [gate EXCEPT !.meta = [nonce |-> writer[p].nonce, pid |-> p], !.old = FALSE]
            /\ Goto(p, "renaming")
       ELSE /\ Goto(p, "aborting")
            /\ UNCHANGED gate
    /\ UNCHANGED owners

\* rename(_gate, <nonce>): whichever gate is there becomes the lock.
Rename(p) ==
    /\ At(p, "renaming")
    /\ IF gate # None
       THEN /\ owners' = [owners EXCEPT ![writer[p].nonce] = gate.meta]
            /\ gate' = None
            /\ Goto(p, "checking")
       ELSE /\ Goto(p, "aborting")
            /\ UNCHANGED <<gate, owners>>

\* Whichever gate is there is removed: after an owner was found, or in the catch.
Abort(p) ==
    /\ At(p, "aborting")
    /\ gate' = None
    /\ GiveUp(p)
    /\ UNCHANGED owners

\* The post-check: of several owners the lowest nonce keeps the lock.
Lowest(n) == n \in Owners /\ \A m \in Owners : n <= m

Check(p) ==
    /\ At(p, "checking")
    /\ IF Cardinality(Owners) > 1 /\ ~ Lowest(writer[p].nonce)
       THEN Goto(p, "yielding")
       ELSE Goto(p, "holding")
    /\ UNCHANGED <<gate, owners>>

\* release(), by a holder or by one that yields: names its own nonce and nothing else.
Release(p) ==
    /\ At(p, "holding") \/ At(p, "yielding")
    /\ owners' = Without({writer[p].nonce})
    /\ GiveUp(p)
    /\ UNCHANGED gate

-----------------------------------------------------------------------------
\* gateAbandonMs pass.  A live process gets from mkdir to rename in far less
\* unless it is paused.
GateAges ==
    /\ gate # None
    /\ ~ gate.old
    /\ MayStall \/ At(gate.by, "dead")
    /\ gate' = [gate EXCEPT !.old = TRUE]
    /\ UNCHANGED <<owners, writer>>

Crash(p) ==
    /\ MayCrash
    /\ ~ At(p, "dead")
    /\ \E q \in Proc \ {p} : ~ At(q, "dead")
    /\ writer' = [writer EXCEPT ![p] = [pc |-> "dead", nonce |-> None]]
    /\ UNCHANGED <<gate, owners>>

Step(p) ==
    \/ Reclaim(p) \/ Look(p) \/ TakeGate(p) \/ ClearGate(p) \/ Recheck(p) \/ WriteOwner(p)
    \/ Rename(p) \/ Abort(p) \/ Check(p) \/ Release(p)

Next == GateAges \/ \E p \in Proc : Step(p) \/ Crash(p)

Spec == Init /\ [][Next]_vars

-----------------------------------------------------------------------------
(* What should be true of the lock. *)

\* Every variable holds a value of its type.
TypeOK ==
    /\ gate \in Gates \cup {None}
    /\ owners \in [Nonces -> Metadata \cup {None, Absent}]
    /\ writer \in [Proc -> [pc : PCs, nonce : Nonces \cup {None}]]

\* One writer at a time is inside the critical section.
MutualExclusion == \A p, q \in Proc : At(p, "holding") /\ At(q, "holding") => p = q

\* Whenever a process died, its lock and its gate included, writers get in again.
WritersGetIn == []<>(\E p \in Proc : At(p, "holding"))

\* A dead owner is recovered from: no lock stays that no live process holds.
DeadOwnerIsReclaimed == \A n \in Nonces : Orphan(n) ~> ~ Orphan(n)
=============================================================================
