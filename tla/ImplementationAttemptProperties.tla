-------------------- MODULE ImplementationAttemptProperties --------------------
(***************************************************************************)
(* What should be true of implementation attempts.                         *)
(***************************************************************************)
EXTENDS ImplementationAttempt, FiniteSets

\* Every variable holds a value of its type.
TypeOK ==
    /\ grants \in [Grant -> Stored]
    /\ expired \subseteq Grant \X Issues
    /\ claim \in [Grant -> Proc \cup {None, Unreadable}]
    /\ lock \in Locks \cup {None, Unreadable}
    /\ impl \in [Run -> Records \cup {None}]
    /\ att \in [Proc -> Attempts]
    /\ operator \in BOOLEAN
    /\ sessions \in [Grant -> Nat]
    /\ withdrawn \in [Grant -> {"no", "early", "late"}]
    /\ stray \in [Grant -> Nat]

\* One grant, one session: neither a crash, nor a second issue of the grant,
\* nor a race between two presenters opens another.
OneSessionPerGrant == \A g \in Grant : sessions[g] <= 1

\* Two agents never change the working tree at the same time, stale locks and
\* the operator's unlock command included.
ExclusiveMutation ==
    \A p, q \in Proc :
        Working(p) /\ Working(q) /\ {GrantOf(p), GrantOf(q)} \subseteq Mutating => p = q

\* "Ordinary lock contention does not burn a grant": while another attempt has
\* the lock, an attempt that may mutate does not touch its claim marker.
ContentionKeepsGrant ==
    [][\A g \in Mutating : claim[g] = None /\ claim'[g] # None =>
          lock \in Locks /\ att[lock.pid].grant = g /\ lock.run = RunOf[g]]_vars

\* Half-finished work is on record: if the attempt that last wrote a run's
\* record died after changing the working tree, the record flags it.
UnfinishedIsFlagged ==
    \A r \in Run : impl[r] # None =>
        LET a == att[impl[r].pid]
        IN  a.pc = "dead" /\ a.wrote /\ RunOf[a.grant] = r => impl[r].partial

\* Withdrawing a grant stops the session that works under it: nothing lands any
\* more but the one mutation already authorised.
LateWithdrawalStopsSession == \A g \in Grant : withdrawn[g] = "late" => stray[g] <= 1

\* An attempt that entered run() leaves it.
AttemptEnds == \A p \in Proc : att[p].pc = "validated" ~> att[p].pc = "idle"

\* A project does not stay locked.
LockIsFreed == lock # None ~> lock = None

-----------------------------------------------------------------------------
(* Statements of the comments and documents that the code does not keep. *)

\* "Always releases a lock it acquired, on every path": a live process that is
\* outside run() does not hold the lock.
LockReleasedOnEveryPath == lock \in Locks => att[lock.pid].pc # "idle"
=============================================================================
