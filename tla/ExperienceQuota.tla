--------------------------- MODULE ExperienceQuota ---------------------------
(***************************************************************************)
(* Writing an experience record under the project's ceiling                *)
(* (ProjectQuota.reserveAndPublish and ExperienceStore.write): the steps   *)
(* inside the lock of ProjectLock, by processes that may be killed at any  *)
(* of them.                                                                *)
(*                                                                         *)
(*   records   the record files of the project, by name: the name is       *)
(*             derived from the content, so the same experience written    *)
(*             twice is one name                                           *)
(*   temps     the temporary files: whose, and whether temporaryAbandonMs  *)
(*             have passed                                                 *)
(*   foreign   how many other entries somebody put into the directory      *)
(*   txn[p]    where process p is in write(), for which record, what its   *)
(*             scan saw, and the answer it will return                     *)
(*   stored    history: the records some write() reported stored           *)
(***************************************************************************)
EXTENDS ProjectLock

CONSTANTS
    Names,      \* the records somebody may write
    MaxRecords, \* maxRecordsPerProject
    MaxEntries, \* maxDirectoryEntries
    MaxForeign  \* bound: entries the store did not create

ASSUME QuotaAssumption == {MaxRecords, MaxEntries, MaxForeign} \subseteq Nat /\ None \notin Names

VARIABLES records, temps, foreign, txn, stored

files == <<records, temps, foreign>>
quotaVars == <<vars, files, txn, stored>>

-----------------------------------------------------------------------------
Steps == {"idle", "asking", "trying", "writing", "publishing", "verifying", "cleaning",
          "answering", "dead"}
Answers == {"stored", "quota_exceeded", "indeterminate", "failed"}
Temps == [by : Proc, old : BOOLEAN]

Txns == [step : Steps, name : Names \cup {None}, isNew : BOOLEAN, seen : SUBSET Temps,
         answer : Answers \cup {None}]

NoTxn == [step |-> "idle", name |-> None, isNew |-> FALSE, seen |-> {}, answer |-> None]

QuotaInit ==
    /\ Init
    /\ records = {}
    /\ temps = {}
    /\ foreign = 0
    /\ txn = [p \in Proc |-> NoTxn]
    /\ stored = {}

In(p, step) == txn[p].step = step
Advance(p, step) == txn' = [txn EXCEPT ![p].step = step]
Answer(p, answer) == txn' = [txn EXCEPT ![p].step = "answering", ![p].answer = answer]

\* scanDirectoryBounded: names beyond the bound are not read.  The lock
\* directory is an entry as well.
ScanIsComplete == Cardinality(records) + Cardinality(temps) + foreign + 1 <= MaxEntries

-----------------------------------------------------------------------------
(* ExperienceStore.write up to the lock. *)

\* A record that validates, with its name; nothing on disk yet.
Ask(p, n) ==
    /\ In(p, "idle")
    /\ txn' = [txn EXCEPT ![p] = [NoTxn EXCEPT !.step = "asking", !.name = n]]
    /\ UNCHANGED <<vars, files, stored>>

\* acquire(): the attempts of ProjectLock, one after the other.
Acquire(p) ==
    /\ In(p, "asking") \/ In(p, "trying")
    /\ Reclaim(p) \/ Look(p) \/ TakeGate(p) \/ ClearGate(p) \/ Recheck(p) \/ WriteOwner(p)
       \/ Rename(p) \/ Abort(p) \/ Check(p) \/ (At(p, "yielding") /\ Release(p))
    /\ Advance(p, "trying")
    /\ UNCHANGED <<files, stored>>

\* Mutant: acquire() waits without a deadline.
BusyNever(p) ==
    /\ In(p, "trying")
    /\ At(p, "holding")
    /\ UNCHANGED quotaVars

\* storage_busy: the deadline has passed when an attempt comes back.
Busy(p) ==
    /\ In(p, "trying")
    /\ At(p, "idle")
    /\ txn' = [txn EXCEPT ![p] = NoTxn]
    /\ UNCHANGED <<vars, files, stored>>

-----------------------------------------------------------------------------
(* reserveAndPublish: inside the lock. *)

\* Mutant: a record that is there already needs a slot of its own.
DecideByCount(p) ==
    /\ In(p, "trying")
    /\ At(p, "holding")
    /\ LET isNew == txn[p].name \notin records
       IN  IF ~ ScanIsComplete THEN Answer(p, "indeterminate")
           ELSE IF Cardinality(records) >= MaxRecords THEN Answer(p, "quota_exceeded")
           ELSE txn' = [txn EXCEPT ![p].step = "writing", ![p].isNew = isNew, ![p].seen = temps]
    /\ UNCHANGED <<vars, files, stored>>

\* Mutant: the ceiling is one record too high, and so is the re-count.
DecideOneMore(p) ==
    /\ In(p, "trying")
    /\ At(p, "holding")
    /\ LET isNew == txn[p].name \notin records
       IN  IF ~ ScanIsComplete THEN Answer(p, "indeterminate")
           ELSE IF isNew /\ Cardinality(records) > MaxRecords THEN Answer(p, "quota_exceeded")
           ELSE txn' = [txn EXCEPT ![p].step = "writing", ![p].isNew = isNew, ![p].seen = temps]
    /\ UNCHANGED <<vars, files, stored>>

\* One scan decides: refuse what cannot be counted, refuse a new record when
\* the project is full, never refuse to write one again.
Decide(p) ==
    /\ In(p, "trying")
    /\ At(p, "holding")
    /\ LET isNew == txn[p].name \notin records
       IN  IF ~ ScanIsComplete THEN Answer(p, "indeterminate")
           ELSE IF isNew /\ Cardinality(records) >= MaxRecords THEN Answer(p, "quota_exceeded")
           ELSE txn' = [txn EXCEPT ![p].step = "writing", ![p].isNew = isNew, ![p].seen = temps]
    /\ UNCHANGED <<vars, files, stored>>

\* The directory cannot be read at all.
ScanFails(p) ==
    /\ In(p, "trying")
    /\ At(p, "holding")
    /\ Answer(p, "failed")
    /\ UNCHANGED <<vars, files, stored>>

\* #writeAtomic: the record goes to a temporary file of its own first ...
WriteTemporary(p) ==
    /\ In(p, "writing")
    /\ temps' = temps \cup {[by |-> p, old |-> FALSE]}
    /\ Advance(p, "publishing")
    /\ UNCHANGED <<vars, records, foreign, stored>>

\* ... which is renamed to its name.
Publish(p) ==
    /\ In(p, "publishing")
    /\ records' = records \cup {txn[p].name}
    /\ temps' = {t \in temps : t.by # p}
    /\ Advance(p, IF txn[p].isNew THEN "verifying" ELSE "cleaning")
    /\ UNCHANGED <<vars, foreign, stored>>

\* Mutant: what fails takes the record's name with it.
PublishFailsForBoth(p) ==
    /\ In(p, "publishing")
    /\ temps' = {t \in temps : t.by # p}
    /\ records' = records \ {txn[p].name}
    /\ Answer(p, "failed")
    /\ UNCHANGED <<vars, foreign, stored>>

\* A write, flush or rename throws: the temporary file goes, the record that was
\* there before stays.
PublishFails(p) ==
    /\ In(p, "publishing")
    /\ temps' = {t \in temps : t.by # p}
    /\ Answer(p, "failed")
    /\ UNCHANGED <<vars, records, foreign, stored>>

\* #verifyCeiling re-counts; what cannot be counted counts as fine.  Over the
\* ceiling the record is removed again, best effort.
VerifyCeiling(p) ==
    /\ In(p, "verifying")
    /\ IF ScanIsComplete /\ Cardinality(records) > MaxRecords
       THEN records' \in {records, records \ {txn[p].name}} /\ Answer(p, "quota_exceeded")
       ELSE Advance(p, "cleaning") /\ UNCHANGED records
    /\ UNCHANGED <<vars, temps, foreign, stored>>

\* #cleanTemporaries: of the temporaries its scan saw, those that are old by now.
CleanTemporaries(p) ==
    /\ In(p, "cleaning")
    /\ temps' = {t \in temps : ~ (t.old /\ \E s \in txn[p].seen : s.by = t.by)}
    /\ Answer(p, "stored")
    /\ UNCHANGED <<vars, records, foreign, stored>>

\* The finally releases the lock, and write() returns its answer.
Return(p) ==
    /\ In(p, "answering")
    /\ Release(p)
    /\ stored' = IF txn[p].answer = "stored" THEN stored \cup {txn[p].name} ELSE stored
    /\ txn' = [txn EXCEPT ![p] = NoTxn]
    /\ UNCHANGED files

-----------------------------------------------------------------------------
(* Around the writers. *)

\* The process dies: its lock and its temporary file stay.
WriterDies(p) ==
    /\ Crash(p)
    /\ Advance(p, "dead")
    /\ UNCHANGED <<files, stored>>

\* temporaryAbandonMs pass; a live writer renames its file long before, unless
\* it is paused.
TemporaryAges(t) ==
    /\ t \in temps
    /\ ~ t.old
    /\ MayStall \/ At(t.by, "dead")
    /\ temps' = (temps \ {t}) \cup {[t EXCEPT !.old = TRUE]}
    /\ UNCHANGED <<vars, records, foreign, txn, stored>>

\* Somebody else puts a file into the directory.
Intrude ==
    /\ foreign < MaxForeign
    /\ foreign' = foreign + 1
    /\ UNCHANGED <<vars, records, temps, txn, stored>>

WriteStep(p) ==
    \/ Acquire(p) \/ Decide(p) \/ ScanFails(p) \/ WriteTemporary(p) \/ Publish(p)
    \/ PublishFails(p) \/ VerifyCeiling(p) \/ CleanTemporaries(p) \/ Return(p)

QuotaNext ==
    \/ \E p \in Proc : WriteStep(p) \/ Busy(p) \/ WriterDies(p)
    \/ \E p \in Proc, n \in Names : Ask(p, n)
    \/ \E t \in temps : TemporaryAges(t)
    \/ GateAges /\ UNCHANGED <<files, txn, stored>>
    \/ Intrude

QuotaSpec == QuotaInit /\ [][QuotaNext]_quotaVars

\* Writers come again and again, a write that was called goes on, its deadline
\* passes, and time passes for what dead processes left.
QuotaFairSpec ==
    /\ QuotaSpec
    /\ WF_quotaVars(GateAges /\ UNCHANGED <<files, txn, stored>>)
    /\ \A p \in Proc :
         /\ WF_quotaVars(\E n \in Names : Ask(p, n))
         /\ WF_quotaVars(WriteStep(p))
         /\ SF_quotaVars(Busy(p))
         /\ SF_quotaVars(Sweep(p, Unreadable) /\ Acquire(p))

-----------------------------------------------------------------------------
(* What should be true of the quota. *)

\* Every variable holds a value of its type.
QuotaTypeOK ==
    /\ TypeOK
    /\ records \subseteq Names
    /\ temps \subseteq Temps
    /\ foreign \in 0 .. MaxForeign
    /\ txn \in [Proc -> Txns]
    /\ stored \subseteq Names

\* The ceiling is a hard bound, not only after a write has undone itself.
CeilingHolds == Cardinality(records) <= MaxRecords

\* What write() reported stored stays: no failed, undone or killed write of the
\* same or another record takes it away.
StoredStays == stored \subseteq records

\* A full project can still write a record it has: only what is not there is refused.
OnlyNewIsRefused ==
    \A p \in Proc : In(p, "answering") /\ txn[p].answer = "quota_exceeded"
                        => txn[p].name \notin records

\* A write that was called returns, unless its process dies.
WriteReturns == \A p \in Proc : In(p, "asking") ~> In(p, "idle") \/ In(p, "dead")
=============================================================================
