----------------------- MODULE VerificationProperties -----------------------
(***************************************************************************)
(* What one verified iteration promises. `truth` holds the working copy as *)
(* it was at each look, which the program never has.                       *)
(***************************************************************************)
EXTENDS Verification

Judged == pc = "judged"

\* The working copy the judgement is about.
Seen == IF run.attempted THEN truth.end ELSE truth.left

Changed(one, other) == {p \in Path : one.work[p] # other.work[p]}

Untouched(one, other) ==
    {p \in Path : /\ one.work[p] = other.work[p]
                  /\ one.index[p] = other.index[p]
                  /\ one.stamp[p] = other.stamp[p]}

\* Git lists a staged rename under its new name only, so what becomes of the
\* old one may show in one look and not in the other.
Renaming(one, other) == Renames(one) \cup Renames(other)
OldNames(one, other) == {z[1] : z \in Renaming(one, other)}
NewNames(one, other) == {z[2] : z \in Renaming(one, other)}

\* Without a snapshot every look back finds HEAD moved, unless there is no HEAD.
Blind == baseline = None /\ truth.start.hist = <<>>

SameHistory(one, other) == one.hist = other.hist /\ one.branch = other.branch

-----------------------------------------------------------------------------

\* A run that was looked at before and after cannot make a lasting change that
\* the report does not show: as the run's, as the old name of something that
\* or as a use of git (verifier.ts verify, attribution.ts).
NothingHidden ==
    Judged /\ Inspected /\ baseline # None =>
        \/ Result.gitMoved
        \/ Changed(truth.start, Seen) \subseteq Result.attributable \cup OldNames(truth.start, Seen)

\* What the developer had left dirty and nobody touched since is the
\* developer's, never the run's (attribution.ts 209-444). Excepted is a staged
\* deletion that git folds into a rename with a file the run staged.
OthersWorkIsNotOurs ==
    Judged /\ Inspected /\ baseline # None /\ SameHistory(truth.start, Seen) =>
        DOMAIN baseline.prints \cap Untouched(truth.start, Seen) \cap Result.attributable
            \subseteq OldNames(truth.start, Seen) \cup NewNames(truth.start, Seen)

\* An iteration that ends without a safety condition used git for nothing,
\* changed nothing outside the approved scope but the old name of a staged
\* rename, and started no check that is not byte for byte the one captured
\* before the agent existed (iteration.ts detectSafetyConditions).
SafeMeansConfined ==
    Judged /\ Safety = {} /\ ~Blind =>
        /\ SameHistory(truth.start, Seen)
        /\ \A p \in Changed(truth.start, Seen) : InScope(p) \/ p \in OldNames(truth.start, Seen)
        /\ \A c \in Check : launched[c] # None => launched[c] = policy.identity[c]
        /\ run.attempted => CapturePolicy(config, program).checks = policy.checks

\* Whatever the agent claims, evidence consistent with completion leaves no
\* sensitive file changed, and if checks were attempted, every check the project
\* had declared when the policy was captured was started from its captured file
\* and exited 0 (iteration.ts assessCompletion, outcome.ts).
CompletionIsEarned ==
    Judged /\ ~Blind /\ (\E claim \in Claims : ConsistentWithCompletion(claim)) =>
        /\ Sensitive \cap Changed(truth.start, Seen) = {}
        /\ run.attempted =>
              \A c \in DOMAIN policy.checks \cup policy.rejected :
                 /\ launched[c] # None /\ launched[c] = policy.identity[c]
                 /\ run.results[c] = "passed"

\* With all looks made, the checks answer for exactly what is different from
\* what the agent left: nothing of theirs is missed, and nothing the agent or
\* the developer left and no check touched is put on them (index.ts 895-917).
ChecksAnswerForTheirOwn ==
    Judged /\ pre # None /\ truth.last # None =>
        /\ \/ ~SameHistory(truth.left, truth.last)
           \/ Changed(truth.left, truth.last) \subseteq byChecks \cup OldNames(truth.left, truth.last)
        /\ SameHistory(truth.left, truth.last) =>
              byChecks \cap Untouched(truth.left, truth.last)
                  \subseteq OldNames(truth.left, truth.last) \cup NewNames(truth.left, truth.last)

\* Checks only run when what they do can be seen: a look before them succeeded.
ChecksAreObserved == run # None /\ run.attempted => pre # None

\* All the checks together take no longer than the run's budget, and none runs
\* past its own timeout, whatever the others left of it (checkRunner.ts).
ChecksKeepTheirTime ==
    /\ spent <= Budget
    /\ child # None => child.elapsed <= policy.checks[child.check].timeout
=============================================================================
