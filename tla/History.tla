-------------------------------- MODULE History --------------------------------
(***************************************************************************)
(* What the orchestrator makes of earlier iterations, as values: the       *)
(* record the learn node writes of one, how well a record matches a        *)
(* request, how far the others bear a record's approach out, and the       *)
(* posture a set of such findings comes to. Approaches, task types and     *)
(* terms are normalised values: two spellings that normalise alike are one.*)
(***************************************************************************)
EXTENDS Integers, FiniteSets, FiniteSetsExt

CONSTANTS
    Approaches,     \* the steps a plan may have
    Terms,          \* the words a request or a record may hold
    TaskTypes,
    None            \* a report, a decision or a reason that is not there

ASSUME NoneIsNoTask == None \notin TaskTypes

VolumeSaturation == 3
BoundedCoverageWeight == 60
SupportedAtOrAbove == 70
ContradictedAtOrBelow == 30
MaxTermHits == 10

-----------------------------------------------------------------------------
(* The record of an iteration *)

INDEPENDENT_SOURCES ==
    {"REPOSITORY_OBSERVATION", "VERIFICATION_RESULT", "REVIEW_FINDING", "HUMAN_DECISION"}
OutcomeSource == INDEPENDENT_SOURCES \cup {"AGENT_CLAIM", "PROCESS_OBSERVATION"}

Verification == [blocking : BOOLEAN, independent : BOOLEAN, process : BOOLEAN,
                 attempted : BOOLEAN, allPassed : BOOLEAN]

\* What the learn node hands over; text counts the words the record will hold.
Iteration ==
    [taskType : TaskTypes, steps : SUBSET Approaches, text : [Terms -> Nat],
     verification : Verification \cup {None},
     review : {"pass", "changes_requested", "fail", None},
     decision : {"approve", "edit", "reject", "feedback", None}]

SourcesOf(iteration) ==
    LET v == iteration.verification IN
    {s \in INDEPENDENT_SOURCES \cup {"PROCESS_OBSERVATION"} :
        CASE s = "REVIEW_FINDING" -> iteration.review # None
          [] s = "HUMAN_DECISION" -> iteration.decision # None
          [] v = None -> FALSE
          [] s = "REPOSITORY_OBSERVATION" -> v.independent
          [] s = "VERIFICATION_RESULT" -> v.attempted
          [] s = "PROCESS_OBSERVATION" -> v.process}

\* Trusted code found something wrong, or found nothing out.
Withheld(iteration) ==
    LET v == iteration.verification IN
    \/ v = None
    \/ v.blocking
    \/ v.attempted /\ ~v.allPassed
    \/ iteration.review # "pass"

Learned(iteration) ==
    LET succeeded == iteration.decision = "approve" /\ ~Withheld(iteration)
        failed == iteration.decision = "reject" \/ Withheld(iteration)
    IN  [taskType |-> iteration.taskType,
         successfulPatterns |-> IF succeeded THEN iteration.steps ELSE {},
         failedPatterns |-> IF failed THEN iteration.steps ELSE {},
         sources |-> SourcesOf(iteration),
         text |-> iteration.text]

-----------------------------------------------------------------------------
(* Relevance *)

\* A record that holds more of the request's terms wins, however often it repeats one.
Score(record, query) ==
    LET matched == {t \in query : record.text[t] > 0}
        Hits(t) == IF record.text[t] < MaxTermHits THEN record.text[t] ELSE MaxTermHits
    IN  1000 * Cardinality(matched) + MapThenSumSet(Hits, matched)

-----------------------------------------------------------------------------
(* Evaluation *)

ApproachesOf(record) == record.successfulPatterns \cup record.failedPatterns

RecurrenceKey(record) == <<record.taskType, ApproachesOf(record)>>

Comparable(record, subject) == record.taskType = subject.taskType

Admissible(record) == record.sources \cap INDEPENDENT_SOURCES # {}

\* Failure is looked for first; only then who says so.
Relate(record, approaches) ==
    LET outcome == IF record.failedPatterns \cap approaches # {} THEN "contradicting"
                   ELSE IF record.successfulPatterns \cap approaches # {} THEN "supporting"
                   ELSE "neutral"
    IN  IF outcome = "neutral" \/ Admissible(record) THEN outcome ELSE "inadmissible"

\* The score, or None when nobody voted.
Assess(supporting, contradicting, complete) ==
    LET n == supporting + contradicting
        consistency == (100 * supporting) \div n
        volume == (100 * (IF n < VolumeSaturation THEN n ELSE VolumeSaturation))
                    \div VolumeSaturation
        raw == (consistency * volume) \div 100
    IN  IF n = 0 THEN None
        ELSE IF complete THEN raw ELSE (raw * BoundedCoverageWeight) \div 100

StatusFor(confidence) ==
    IF confidence = None THEN "insufficient_evidence"
    ELSE IF confidence >= SupportedAtOrAbove THEN "supported"
    ELSE IF confidence <= ContradictedAtOrBelow THEN "contradicted"
    ELSE "uncertain"

-----------------------------------------------------------------------------
(* The signal and the strategy drawn from it *)

Unavailable(reason) == [kind |-> "unavailable", reason |-> reason]
Nothing(bounded) == [kind |-> "none", retrievalBounded |-> bounded]

CAPPING_OMISSIONS == {"presentation_limit", "size_limit", "evaluation_limit"}
OmissionReason ==
    CAPPING_OMISSIONS \cup {"insufficient_evidence", "evaluation_failed", "duplicate"}

\* The item as it is rendered: everything but which record it came from.
Rendered(item) == [f \in DOMAIN item \ {"experienceId"} |-> item[f]]

PostureOf(statuses) ==
    IF "contradicted" \in statuses
    THEN IF "supported" \in statuses THEN "contested" ELSE "cautionary"
    ELSE IF "supported" \in statuses THEN "established" ELSE "inconclusive"

\* Mutant: only a scan that stopped early makes the look a partial one.
BoundsOfScans(signal) ==
    {r \in {"retrieval_scan", "evaluation_scan"} :
        IF r = "retrieval_scan" THEN signal.retrievalBounded
        ELSE \E item \in signal.items : item.evaluationBounded}

BoundsOf(signal) ==
    {r \in {"retrieval_scan"} : signal.retrievalBounded}
      \cup {r \in {"evaluation_scan"} : \E item \in signal.items : item.evaluationBounded}
      \cup {r \in CAPPING_OMISSIONS : signal.omitted[r] > 0}

DeriveStrategy(signal) ==
    CASE signal.kind = "unavailable" -> signal
      [] signal.kind = "none" -> signal
      [] signal.kind = "present" /\ signal.items = {} ->
            [kind |-> "insufficient", unassessed |-> signal.retrieved,
             retrievalBounded |-> signal.retrievalBounded]
      [] OTHER ->
            [kind |-> "proposal",
             posture |-> PostureOf({item.status : item \in signal.items}),
             patterns |-> signal.items,
             bounded |-> BoundsOf(signal) # {},
             boundedBy |-> BoundsOf(signal),
             refused |-> signal.omitted["evaluation_failed"]]
================================================================================
