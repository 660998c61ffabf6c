-------------------------- MODULE MCExperienceQuota --------------------------
(***************************************************************************)
(* Small instances of the quota for TLC: writers nobody kills, or one less *)
(* that may be killed anywhere (one died before anything happened).        *)
(***************************************************************************)
EXTENDS ExperienceQuota, TLC

TeamInit ==
    /\ gate = None
    /\ owners = [n \in Nonces |-> Absent]
    /\ records = {}
    /\ temps = {}
    /\ foreign = 0
    /\ stored = {}
    /\ \E absent \in SUBSET Proc :
         /\ Cardinality(absent) <= 1
         /\ writer = [p \in Proc |-> [pc |-> IF p \in absent THEN "dead" ELSE "idle",
                                     nonce |-> None]]
         /\ txn = [p \in Proc |-> IF p \in absent THEN [NoTxn EXCEPT !.step = "dead"] ELSE NoTxn]

TeamSpec == TeamInit /\ [][QuotaNext]_quotaVars

\* Nobody of a full team is killed.
FullTeamLives == (\A p \in Proc : ~ At(p, "dead")) => \A p \in Proc : writer'[p].pc # "dead"

Symmetric == Permutations(Proc) \cup Permutations(Names)
=============================================================================
