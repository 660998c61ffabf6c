---------------------------- MODULE Verification ----------------------------
(***************************************************************************)
(* One iteration as the verify node sees it: the snapshot before the work, *)
(* the agent, the look at what it left, the project's checks, two more     *)
(* looks, and what all of it amounts to.                                   *)
(*                                                                         *)
(* The agent, the checks and whatever a timed-out check leaves behind can  *)
(* do anything to the repository and to the files checks are made of. Each *)
(* look may fail. Time is counted in units of the check timeouts; a timer  *)
(* fires when it is due.                                                   *)
(***************************************************************************)
EXTENDS Attribution

CONSTANTS
    Repos,          \* the working copies a run may start from
    Configs,        \* the check definitions a project may declare
    MaxChecks,      \* checks one run executes
    Budget,         \* time for all checks together
    Steps           \* bound: commands of the agent and of the checks

Check == DOMAIN (CHOOSE conf \in Configs : TRUE)

Definition == [valid : BOOLEAN, enabled : BOOLEAN, timeout : Nat]

ASSUME ConfigsAreLists ==
    \A conf \in Configs :
        /\ DOMAIN conf = Check /\ Cardinality(Check) \in Nat /\ Check = 1 .. Cardinality(Check)
        /\ \A c \in Check : conf[c] \in Definition \cup {None}
ASSUME ReposAreRepos == Repos \subseteq Repo
\* Files that differ were not written within one tick before the run: of a
\* sensitive file only metadata is kept, which would not tell them apart.
ASSUME FilesAreOlder ==
    \A r \in Repos : \A p \in Path :
        /\ r.stamp[p] <= 0
        /\ \A q \in Path : r.stamp[p] = r.stamp[q] =>
              r.work[p] = r.work[q] \/ Absent \in {r.work[p], r.work[q]}
ASSUME BoundsAreNat == {MaxChecks, Budget, Steps} \subseteq Nat

VARIABLES
    repo,           \* the working copy
    config,         \* the project record's check definitions, as they stand
    program,        \* the file each check would execute
    linked,         \* checks whose working directory now leaves the project
    inspector,      \* whether a repository inspector is configured
    authorised,     \* whether the grant carries verification.execute
    pc,
    policy,         \* captured before the agent exists
    baseline,       \* evidence of the look before, None without one
    pre,            \* the look at what the agent left, None when it failed
    post,           \* the look after the checks, None when it failed
    byChecks,       \* what the third look attributes to the checks
    run,            \* the record of the check phase
    child,          \* the check that runs, with its time, or None
    spent,          \* time since the phase started
    strays,         \* timed-out checks, for all anyone knows still alive
    launched,       \* the file each check was started from
    steps,          \* commands so far
    truth           \* the working copy as it was at each look

vars == <<repo, config, program, linked, inspector, authorised, pc, policy, baseline, pre,
          post, byChecks, run, child, spent, strays, launched, steps, truth>>

world == <<repo, config, program, linked, steps>>
looks == <<baseline, pre, post, byChecks, truth>>
phase == <<run, child, spent, strays, launched>>
given == <<inspector, authorised, policy>>

-----------------------------------------------------------------------------
(* The policy *)

Declared(conf) == {c \in DOMAIN conf : conf[c] # None}
Valid(conf) == {c \in Declared(conf) : conf[c].valid}
Accepted(conf) == {c \in Valid(conf) : Cardinality({d \in Valid(conf) : d < c}) < MaxChecks}

\* An executable that cannot be read has no identity.
Identity(file) == IF file = "gone" THEN None ELSE file

CapturePolicy(conf, files) ==
    LET accepted == Accepted(conf)
    IN  [checks |-> [c \in accepted |-> conf[c]],
         rejected |-> Declared(conf) \ accepted,
         identity |-> [c \in accepted |-> Identity(files[c])]]

\* The fingerprint covers the accepted definitions only.
PolicyMoved == CapturePolicy(config, program).checks # policy.checks

-----------------------------------------------------------------------------
(* One check *)

Runnable == DOMAIN policy.checks
Undone == Runnable \ DOMAIN run.results
Current == CHOOSE c \in Undone : \A d \in Undone : c <= d
Remaining == Budget - spent

\* Why the runner does not start check c, in the order it asks; "none" if it does.
BlockedReason(c) ==
    IF ~policy.checks[c].enabled THEN "check_disabled"
    ELSE IF c \in linked THEN "working_directory_escape"
    ELSE IF policy.identity[c] = None THEN "executable_identity_unavailable"
    ELSE IF Identity(program[c]) = None THEN "executable_missing"
    ELSE IF program[c] # policy.identity[c] THEN "executable_integrity_changed"
    ELSE IF Remaining <= 0 THEN "run_budget_exhausted"
    ELSE "none"

\* Mutant: a check has its own timeout only.
OwnTimeout(c) == policy.checks[c].timeout

Deadline(c) == IF policy.checks[c].timeout < Remaining THEN policy.checks[c].timeout ELSE Remaining

Record(c, status) == [run EXCEPT !.results =
    [d \in DOMAIN run.results \cup {c} |-> IF d = c THEN status ELSE run.results[d]]]

Unattempted(changed) ==
    [attempted |-> FALSE, policyChanged |-> changed,
     results |-> [c \in policy.rejected |-> "refused"]]

-----------------------------------------------------------------------------
(* Before and during the work *)

Init ==
    /\ repo \in Repos
    /\ config \in Configs
    /\ program \in {[c \in Check |-> "trusted"]} \cup
                   {[c \in Check |-> IF c = 1 THEN "gone" ELSE "trusted"]}
    /\ linked = {}
    /\ inspector \in BOOLEAN /\ authorised \in BOOLEAN
    /\ pc = "inspect"
    /\ policy = None /\ baseline = None /\ pre = None /\ post = None
    /\ byChecks = {}
    /\ run = None /\ child = None /\ spent = 0 /\ strays = {}
    /\ launched = [c \in Check |-> None]
    /\ steps = 0
    /\ truth = [start |-> None, left |-> None, end |-> None, last |-> None]

Inspect(ok) ==
    /\ pc = "inspect"
    /\ policy' = CapturePolicy(config, program)
    /\ baseline' = IF inspector /\ ok THEN Evidence(repo) ELSE None
    /\ truth' = [truth EXCEPT !.start = repo]
    /\ pc' = "implement"
    /\ UNCHANGED <<world, phase, inspector, authorised, pre, post, byChecks>>

\* Without a grant there is no agent.
Agent == pc = "implement" /\ authorised /\ steps < Steps

AgentStep ==
    /\ Agent
    /\ steps' = steps + 1
    /\ UNCHANGED <<looks, phase, given, pc>>

AgentChangesRepo ==
    /\ AgentStep
    /\ repo' \in Commands(repo, steps + 1) \ {repo}
    /\ UNCHANGED <<config, program, linked>>

AgentReplacesProgram ==
    /\ AgentStep
    /\ \E c \in Declared(config), file \in {"swapped", "gone"} : program' = [program EXCEPT ![c] = file]
    /\ UNCHANGED <<repo, config, linked>>

AgentLinksDirectory ==
    /\ AgentStep
    /\ \E c \in Declared(config) : linked' = linked \cup {c}
    /\ UNCHANGED <<repo, config, program>>

AgentRedefinesChecks ==
    /\ AgentStep
    /\ config' \in Configs \ {config}
    /\ UNCHANGED <<repo, program, linked>>

AgentDone ==
    /\ pc = "implement"
    /\ pc' = IF inspector THEN "verify" ELSE "judge"
    /\ run' = IF inspector THEN None
              ELSE [attempted |-> FALSE, policyChanged |-> FALSE, results |-> <<>>]
    /\ UNCHANGED <<world, looks, given, child, spent, strays, launched>>

-----------------------------------------------------------------------------
(* The verify node *)

PreCheck(ok) ==
    /\ pc = "verify"
    /\ pre' = IF ok THEN Verify(baseline, repo) ELSE None
    /\ truth' = [truth EXCEPT !.left = repo]
    /\ pc' = "phase"
    /\ UNCHANGED <<world, phase, given, baseline, post, byChecks>>

\* The phase runs whether or not the look before it succeeded.
BeginChecks ==
    /\ pc = "phase"
    /\ IF ~authorised \/ PolicyMoved \/ Runnable = {}
       THEN run' = Unattempted(authorised /\ PolicyMoved) /\ pc' = "judge"
       ELSE run' = [attempted |-> TRUE, policyChanged |-> FALSE, results |-> <<>>]
            /\ pc' = "checks"
    /\ UNCHANGED <<world, looks, given, child, spent, strays, launched>>

Running == pc = "checks" /\ child # None
Between == pc = "checks" /\ child = None

Block ==
    /\ Between /\ Undone # {}
    /\ BlockedReason(Current) # "none"
    /\ run' = Record(Current, BlockedReason(Current))
    /\ UNCHANGED <<world, looks, given, pc, child, spent, strays, launched>>

Spawn ==
    /\ Between /\ Undone # {}
    /\ BlockedReason(Current) = "none"
    /\ child' = [check |-> Current, elapsed |-> 0, deadline |-> Deadline(Current)]
    /\ launched' = [launched EXCEPT ![Current] = program[Current]]
    /\ UNCHANGED <<world, looks, given, pc, run, spent, strays>>

\* The operating system refuses to start it.
SpawnFails ==
    /\ Between /\ Undone # {}
    /\ BlockedReason(Current) = "none"
    /\ run' = Record(Current, "error")
    /\ UNCHANGED <<world, looks, given, pc, child, spent, strays, launched>>

Exit(code) ==
    /\ Running
    /\ run' = Record(child.check, IF code = 0 THEN "passed" ELSE "failed")
    /\ child' = None
    /\ UNCHANGED <<world, looks, given, pc, spent, strays, launched>>

Tick ==
    /\ Running /\ child.elapsed < child.deadline
    /\ child' = [child EXCEPT !.elapsed = @ + 1]
    /\ spent' = spent + 1
    /\ UNCHANGED <<world, looks, given, pc, run, strays, launched>>

\* The result is there before the process is gone; one that dies at once is one
\* that does nothing more.
Timeout ==
    /\ Running /\ child.elapsed = child.deadline
    /\ run' = Record(child.check, "timed_out")
    /\ child' = None
    /\ strays' = strays \cup {child.check}
    /\ UNCHANGED <<world, looks, given, pc, spent, launched>>

CheckStep ==
    /\ child # None \/ strays # {}
    /\ pc # "judged"
    /\ steps < Steps
    /\ steps' = steps + 1
    /\ UNCHANGED <<looks, phase, given, pc, config, linked>>

CheckChangesRepo ==
    /\ CheckStep
    /\ repo' \in Commands(repo, steps + 1) \ {repo}
    /\ UNCHANGED program

CheckReplacesProgram ==
    /\ CheckStep
    /\ \E c \in Undone : program' = [program EXCEPT ![c] = "swapped"]
    /\ UNCHANGED repo

EndChecks ==
    /\ Between /\ Undone = {}
    /\ run' = [run EXCEPT !.results =
                  [c \in DOMAIN @ \cup policy.rejected |-> IF c \in DOMAIN @ THEN @[c] ELSE "refused"]]
    /\ pc' = "recheck"
    /\ UNCHANGED <<world, looks, given, child, spent, strays, launched>>

\* Against the baseline: the agent and the checks together.
Recheck(ok) ==
    /\ pc = "recheck"
    /\ post' = IF ok THEN Verify(baseline, repo) ELSE None
    /\ truth' = [truth EXCEPT !.end = repo]
    /\ pc' = IF pre # None THEN "attribute" ELSE "judge"
    /\ UNCHANGED <<world, phase, given, baseline, pre, byChecks>>

\* Mutant: the third look compares with the first instead of the second.
AttributeEverything(ok) ==
    /\ pc = "attribute"
    /\ byChecks' = IF ok THEN Verify(baseline, repo).attributable ELSE {}
    /\ truth' = [truth EXCEPT !.last = IF ok THEN repo ELSE None]
    /\ pc' = "judge"
    /\ UNCHANGED <<world, phase, given, baseline, pre, post>>

\* Against what the agent left: the checks alone. A failed look finds nothing.
AttributeChecks(ok) ==
    /\ pc = "attribute"
    /\ byChecks' = IF ok THEN Verify(pre.after, repo).attributable ELSE {}
    /\ truth' = [truth EXCEPT !.last = IF ok THEN repo ELSE None]
    /\ pc' = "judge"
    /\ UNCHANGED <<world, phase, given, baseline, pre, post>>

-----------------------------------------------------------------------------
(* What it amounts to *)

Result == IF run.attempted THEN post ELSE pre
Inspected == inspector /\ Result # None

Verdict ==
    IF ~Inspected THEN "blocked"
    ELSE IF Result.sensitive # {} THEN "sensitive_change"
    ELSE IF Result.gitMoved THEN "git_mutation"
    ELSE IF Result.drift # {} THEN "scope_drift"
    ELSE "verified"

\* Mutant: a check that did not run did not fail.
NoneFailed == \A c \in DOMAIN run.results : run.results[c] \notin {"failed", "timed_out", "error"}

AllPassed == run.results # <<>> /\ \A c \in DOMAIN run.results : run.results[c] = "passed"

Safety ==
    {s \in {"inspection_unavailable"} : ~Inspected}
      \cup {s \in {"unauthorised_git_mutation"} : Inspected /\ Result.gitMoved}
      \cup {s \in {"check_policy_changed"} : run.policyChanged}
      \cup {s \in {"check_integrity_blocked"} : \E c \in DOMAIN run.results :
              run.results[c] \in {"executable_integrity_changed", "executable_identity_unavailable"}}
      \cup {s \in {"checks_changed_repository"} : byChecks # {}}
      \cup {s \in {"scope_drift"} : Inspected /\ Result.drift # {}}

\* What the agent may say for itself: files, and whether it succeeded.
Claims == [files : SUBSET Path, success : BOOLEAN]

\* The two accounts differ.
Disagreement(claim) ==
    \/ Inspected /\ claim.files # Result.observed
    \/ claim.success /\ Inspected /\ Result.attributable = {}
    \/ byChecks # {}
    \/ run.attempted /\ claim.success # AllPassed
    \/ Inspected /\ Result.gitMoved

ReviewVerdict(claim) ==
    IF Verdict # "verified" \/ Disagreement(claim) \/ (run.attempted /\ ~AllPassed)
    THEN "changes_requested" ELSE "pass"

ReviewBlocks(claim) ==
    \/ Inspected /\ (Result.drift # {} \/ Result.gitMoved)
    \/ run.policyChanged
    \/ \E c \in DOMAIN run.results : run.results[c] \in
         {"failed", "timed_out", "executable_integrity_changed", "executable_identity_unavailable"}
    \/ byChecks # {}
    \/ claim.success /\ Verdict # "verified"

ConsistentWithCompletion(claim) ==
    /\ Verdict = "verified"
    /\ run.attempted => AllPassed
    /\ ReviewVerdict(claim) = "pass" /\ ~ReviewBlocks(claim)
    /\ Safety = {}

Judge ==
    /\ pc = "judge"
    /\ pc' = "judged"
    /\ UNCHANGED <<world, looks, phase, given>>

-----------------------------------------------------------------------------

Next ==
    \/ \E ok \in BOOLEAN : Inspect(ok) \/ PreCheck(ok) \/ Recheck(ok) \/ AttributeChecks(ok)
    \/ AgentChangesRepo \/ AgentReplacesProgram \/ AgentLinksDirectory
    \/ AgentRedefinesChecks \/ AgentDone
    \/ BeginChecks \/ Block \/ Spawn \/ SpawnFails \/ Tick \/ Timeout \/ EndChecks
    \/ \E code \in {0, 1} : Exit(code)
    \/ CheckChangesRepo \/ CheckReplacesProgram
    \/ Judge

Spec == Init /\ [][Next]_vars
=============================================================================
