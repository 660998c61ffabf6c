-------------------------------- MODULE Desk --------------------------------
(***************************************************************************)
(* The front desk: sentences a person says, translated by a model, guarded *)
(* by the person's own words and carried out on the project's runs. The    *)
(* desk answers any number of sentences at once; the command line works on *)
(* the same runs. A run is what its record and its checkpoint show of it:  *)
(* what a drive comes to is a choice (ApprovalLoop has the graph).         *)
(***************************************************************************)
EXTENDS Naturals

CONSTANTS
    Sayings,        \* the sentences said to the desk, each once
    MaxRuns,        \* runs are numbered in the order they start
    MaxApprovals,   \* bound: approvals one run asks for
    MaxCli,         \* bound: commands on the command line
    Utterances,     \* what a sentence may contain, see Utterance
    None

ASSUME CountsAreNat == {MaxRuns, MaxApprovals, MaxCli} \subseteq Nat
ASSUME NoneIsNew == None \notin Sayings \cup {"plan", "review", "approve", "edit", "reject", "feedback"}

Runs == 1 .. MaxRuns

\* The words a sentence contains; bare: it is nothing but the first of them.
Words == {"yes", "no", "no problem", "change", "status"}
Utterance == [words : SUBSET Words, bare : BOOLEAN]

ASSUME UtterancesAreSaid == Utterances \subseteq Utterance

\* An intent as the schema admits it, as far as the desk looks at it: whether an
\* approval names a usable path, whether feedback says what to change.
Intent ==
    [kind : {"status", "unclear", "start"}]
      \cup [kind : {"decide"}, decision : {"approve"}, scope : BOOLEAN]
      \cup [kind : {"decide"}, decision : {"reject"}]
      \cup [kind : {"decide"}, decision : {"feedback"}, comment : BOOLEAN]

VARIABLES
    record,         \* the run record in the store
    thread,         \* the gate the graph is suspended at, and the last decision it read
    stage,          \* how far the desk is with a sentence
    heard,          \* the sentence, and the first gate that was waiting when it came
    intent,         \* what the model made of it
    drive,          \* the run a sentence drives: from which gate, by which decision
    cli,            \* commands so far
    decisions       \* history: the decisions resume() accepted

vars == <<record, thread, stage, heard, intent, drive, cli, decisions>>

-----------------------------------------------------------------------------
(* Runs *)

NoRun == [status |-> "none", gate |-> None, approval |-> 0]
Suspended(gate, approval) == [status |-> "awaiting", gate |-> gate, approval |-> approval]

\* A record keeps its pending approval when the drive fails.
Finished(from, status) ==
    IF status = "failed" THEN [from EXCEPT !.status = status]
    ELSE [status |-> status, gate |-> None, approval |-> 0]

Waiting == {r \in Runs : record[r].status = "awaiting"}

\* The list starts with the newest run that waits; nothing looks further.
FirstWaiting ==
    IF Waiting = {} THEN None
    ELSE LET r == CHOOSE x \in Waiting : \A y \in Waiting : y <= x
         IN  [run |-> r, approval |-> record[r].approval]

\* What a drive from a record can come to, given the decision the graph reads.
Outcomes(from, decision) ==
    {Finished(from, "failed")} \cup
    (CASE from.gate = None -> {Suspended("plan", 1)}
       [] from.gate = "plan" /\ decision \in {"approve", "edit"} -> {Suspended("review", from.approval + 1)}
       [] from.gate = "plan" /\ decision = "feedback" -> {Suspended("plan", from.approval + 1)}
       [] decision = "reject" -> {Finished(from, "rejected")}
       [] from.gate = "review" /\ decision = "feedback" ->
            {Suspended("plan", from.approval + 1), Finished(from, "incomplete")}
       [] from.gate = "review" /\ decision \in {"approve", "edit"} ->
            {Finished(from, "completed"), Finished(from, "incomplete")})

Bounded(outcomes) == {o \in outcomes : o.approval <= MaxApprovals}

-----------------------------------------------------------------------------
(* Understanding *)

\* Yes and no mean something only while something waits.
InterpretLocally(said) ==
    IF ~said.bare THEN None
    ELSE IF said.words = {"status"} THEN [kind |-> "status"]
    ELSE IF said.first = None THEN None
    ELSE IF said.words = {"yes"}
         THEN [kind |-> "decide", decision |-> "approve", scope |-> FALSE]
    ELSE IF said.words = {"no"}
         THEN [kind |-> "decide", decision |-> "reject"]
    ELSE None

\* Mutant: one word for it is enough.
GuardByOneWord(words, wish) ==
    CASE wish.decision = "approve" -> "yes" \in words
      [] wish.decision = "reject" -> "no" \in words
      [] wish.decision = "feedback" -> wish.comment

GuardDecision(words, wish) ==
    CASE wish.decision = "approve" -> "yes" \in words /\ ("no" \notin words \/ "no problem" \in words)
      [] wish.decision = "reject" -> "no" \in words
      [] wish.decision = "feedback" -> ("change" \in words \/ "no" \in words) /\ wish.comment

\* Named paths narrow a plan; at any other gate they are dropped.
DecisionKind(wish, run) ==
    IF wish.decision = "approve" /\ wish.scope /\ run.gate = "plan" THEN "edit" ELSE wish.decision

-----------------------------------------------------------------------------

Init ==
    /\ record = [r \in Runs |-> NoRun]
    /\ thread = [r \in Runs |-> [at |-> 0, read |-> None]]
    /\ stage = [s \in Sayings |-> "unsaid"]
    /\ heard = [s \in Sayings |-> None]
    /\ intent = [s \in Sayings |-> None]
    /\ drive = [s \in Sayings |-> None]
    /\ cli = 0
    /\ decisions = {}

\* The desk notes what is waiting and asks the translator.
Say(s) ==
    /\ stage[s] = "unsaid"
    /\ \E u \in Utterances :
         heard' = [heard EXCEPT ![s] = [words |-> u.words, bare |-> u.bare, first |-> FirstWaiting]]
    /\ stage' = [stage EXCEPT ![s] = "translating"]
    /\ UNCHANGED <<record, thread, intent, drive, cli, decisions>>

\* The model answers anything the schema admits; when it cannot be reached or
\* makes no sense the intent is `unclear`.
Translate(s) ==
    /\ stage[s] = "translating"
    /\ LET local == InterpretLocally(heard[s])
       IN  \E wish \in (IF local = None THEN Intent ELSE {local}) :
             intent' = [intent EXCEPT ![s] = wish]
    /\ stage' = [stage EXCEPT ![s] = "acting"]
    /\ UNCHANGED <<record, thread, heard, drive, cli, decisions>>

Acting(s, kinds) == stage[s] = "acting" /\ intent[s].kind \in kinds

Reply(s) ==
    /\ stage' = [stage EXCEPT ![s] = "answered"]
    /\ intent' = [intent EXCEPT ![s] = None]
    /\ UNCHANGED <<record, thread, heard, drive, cli, decisions>>

Answer(s) == Acting(s, {"status", "unclear"}) /\ Reply(s)

\* Something was waiting when the sentence came, or start() throws.
DeclineStart(s) == Acting(s, {"start"}) /\ Reply(s)

Start(s) ==
    /\ Acting(s, {"start"})
    /\ heard[s].first = None
    /\ \E r \in Runs :
         /\ record[r] = NoRun
         /\ \A q \in Runs : record[q] = NoRun => r <= q
         /\ record' = [record EXCEPT ![r].status = "running"]
         /\ drive' = [drive EXCEPT ![s] = [run |-> r, from |-> record'[r], decision |-> None]]
    /\ stage' = [stage EXCEPT ![s] = "driving"]
    /\ intent' = [intent EXCEPT ![s] = None]
    /\ UNCHANGED <<thread, heard, cli, decisions>>

\* Mutant: the run a decision is for is looked up when the model is done.
NewestNow(s) == IF FirstWaiting = None THEN None ELSE FirstWaiting.run

\* The run a decision is for: the first that was waiting when it was said.
Target(s) == IF heard[s].first = None THEN None ELSE heard[s].first.run

Decidable(s) ==
    /\ GuardDecision(heard[s].words, intent[s])
    /\ Target(s) # None
    /\ record[Target(s)].status = "awaiting"

DeclineDecision(s) == Acting(s, {"decide"}) /\ ~Decidable(s) /\ Reply(s)

\* resume() hands the decision to the graph, which reads it only at a gate; a
\* graph that another drive took past the gate goes on from where it is.
Decide(s) ==
    /\ Acting(s, {"decide"})
    /\ Decidable(s)
    /\ LET r == Target(s)
           kind == DecisionKind(intent[s], record[r])
           reads == thread[r].at = record[r].approval
       IN  /\ decisions' = decisions \cup
                 {[by |-> s, run |-> r, gate |-> record[r].gate, approval |-> record[r].approval, kind |-> kind]}
           /\ thread' = [thread EXCEPT ![r] = [at |-> 0, read |-> IF reads THEN kind ELSE @.read]]
           /\ drive' = [drive EXCEPT ![s] = [run |-> r, from |-> record[r], decision |-> thread'[r].read]]
    /\ stage' = [stage EXCEPT ![s] = "driving"]
    /\ intent' = [intent EXCEPT ![s] = None]
    /\ UNCHANGED <<record, heard, cli>>

\* The graph suspends or ends, and the run record is written from the copy the
\* drive began with.
DriveEnds(s) ==
    /\ stage[s] = "driving"
    /\ \E outcome \in Bounded(Outcomes(drive[s].from, drive[s].decision)) :
         /\ record' = [record EXCEPT ![drive[s].run] = outcome]
         /\ thread' = [thread EXCEPT ![drive[s].run].at =
                          IF outcome.status = "awaiting" THEN outcome.approval ELSE @]
    /\ stage' = [stage EXCEPT ![s] = "answered"]
    /\ drive' = [drive EXCEPT ![s] = None]
    /\ UNCHANGED <<heard, intent, cli, decisions>>

\* Another process starts a run, up to its first gate.
CliStarts ==
    /\ cli < MaxCli /\ cli' = cli + 1
    /\ \E r \in Runs :
         /\ record[r] = NoRun
         /\ \A q \in Runs : record[q] = NoRun => r <= q
         /\ record' = [record EXCEPT ![r] = Suspended("plan", 1)]
         /\ thread' = [thread EXCEPT ![r].at = 1]
    /\ UNCHANGED <<stage, heard, intent, drive, decisions>>

\* Another process answers a waiting run, up to its next gate.
CliAnswers ==
    /\ cli < MaxCli /\ cli' = cli + 1
    /\ \E r \in Waiting, kind \in {"approve", "reject", "feedback"} :
         /\ thread[r].at = record[r].approval
         /\ decisions' = decisions \cup
               {[by |-> None, run |-> r, gate |-> record[r].gate, approval |-> record[r].approval, kind |-> kind]}
         /\ \E outcome \in Bounded(Outcomes(record[r], kind)) :
              /\ record' = [record EXCEPT ![r] = outcome]
              /\ thread' = [thread EXCEPT ![r] =
                    [at |-> IF outcome.status = "awaiting" THEN outcome.approval ELSE 0, read |-> kind]]
    /\ UNCHANGED <<stage, heard, intent, drive>>

Serve(s) ==
    Translate(s) \/ Answer(s) \/ DeclineStart(s) \/ Start(s) \/ DeclineDecision(s) \/ Decide(s) \/ DriveEnds(s)

Next == CliStarts \/ CliAnswers \/ (\E s \in Sayings : Say(s) \/ Serve(s))

Spec == Init /\ [][Next]_vars

-----------------------------------------------------------------------------
(* What a person may rely on *)

Approves(words) == "yes" \in words /\ ("no" \in words => "no problem" \in words)

\* Whatever the model makes of a sentence, a run is decided by what a person
\* said: it is built and completed on a plain yes, rejected on a no
\* (interpret.ts guardDecision, server.ts act).
DecisionsAreSpoken ==
    /\ \A d \in decisions : d.by # None =>
          /\ d.kind \in {"approve", "edit"} => Approves(heard[d.by].words)
          /\ d.kind = "reject" => "no" \in heard[d.by].words
          /\ d.kind = "feedback" => heard[d.by].words \cap {"change", "no"} # {}
    /\ \A r \in Runs :
          /\ record[r].status = "completed" =>
                \E d \in decisions : d.run = r /\ d.gate = "review" /\ d.kind = "approve"
          /\ record[r].gate = "review" =>
                \E d \in decisions : d.run = r /\ d.gate = "plan" /\ d.kind \in {"approve", "edit"}
          /\ record[r].status = "rejected" => \E d \in decisions : d.run = r /\ d.kind = "reject"

\* Two answers to one gate of a run: the second came while the first was driven.
AnsweredTwice(r) ==
    \E d, e \in decisions : d # e /\ d.run = r /\ e.run = r /\ d.approval = e.approval

\* A decision reaches no run but the newest that waited when it was said,
\* whatever starts or stops waiting while the model is thinking; and it never
\* answers a gate the run had left behind by then, unless two answers to one
\* gate of it overlapped (server.ts say and act, runner.ts resume).
AnswersTheRunInView ==
    \A d \in decisions : d.by # None =>
        /\ heard[d.by].first # None
        /\ d.run = heard[d.by].first.run
        /\ AnsweredTwice(d.run) \/ d.approval >= heard[d.by].first.approval

\* A yes answers the very gate that was read out when it was said
\* (describe.ts).
AnswersWhatWasHeard ==
    \A d \in decisions : d.by # None => d.approval = heard[d.by].first.approval
=============================================================================
