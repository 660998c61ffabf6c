----------------------------- MODULE Desk_proofs -----------------------------
(***************************************************************************)
(* A run is decided by what was said to the desk: for any sentences, any   *)
(* number of them at once, any command line and any runs.                  *)
(***************************************************************************)
EXTENDS Desk, WellFoundedInduction, TLAPS

-----------------------------------------------------------------------------
(* The inductive invariant *)

Gates == {"plan", "review"}
Kinds == {"approve", "edit", "reject", "feedback"}
Statuses == {"none", "running", "awaiting", "failed", "rejected", "incomplete", "completed"}

Records == [status : Statuses, gate : Gates \cup {None}, approval : Nat]
Threads == [at : Nat, read : Kinds \cup {None}]
Drives == [run : Nat, from : Records, decision : Kinds \cup {None}]

DeskTypes ==
    /\ record \in [Runs -> Records]
    /\ thread \in [Runs -> Threads]
    /\ DOMAIN stage = Sayings
    /\ DOMAIN heard = Sayings
    /\ DOMAIN intent = Sayings
    /\ DOMAIN drive = Sayings

\* What a decision about to be carried out may be.
Wishes == \A s \in Sayings :
    stage[s] = "acting" /\ intent[s].kind = "decide"
        => intent[s].decision \in {"approve", "reject", "feedback"}

Spoken(d) ==
    /\ d.kind \in {"approve", "edit"} => Approves(heard[d.by].words)
    /\ d.kind = "reject" => "no" \in heard[d.by].words
    /\ d.kind = "feedback" => heard[d.by].words \cap {"change", "no"} # {}

\* A sentence that decided is spoken, and its words stay what they were.
Voices == \A d \in decisions :
    /\ d.kind \in Kinds
    /\ d.gate = "review" => d.kind # "edit"
    /\ d.by # None => d.by \in Sayings /\ stage[d.by] \in {"driving", "answered"} /\ Spoken(d)

Decided(r, gate, kinds) == \E d \in decisions : d.run = r /\ d.gate = gate /\ d.kind \in kinds

\* A record shows the review only of a plan that was approved.
Behind(r, gate) == gate = "review" => Decided(r, "plan", {"approve", "edit"})

Shown == \A r \in Runs :
    /\ record[r].status = "awaiting" => record[r].gate \in Gates
    /\ record[r].status = "completed" => Decided(r, "review", {"approve"})
    /\ record[r].status = "rejected" => \E gate \in Gates : Decided(r, gate, {"reject"})
    /\ Behind(r, record[r].gate)

\* A graph that is past the gate its record shows read a decision for that gate.
Past == \A r \in Runs :
    record[r].status = "awaiting" =>
        thread[r].at = record[r].approval \/ Decided(r, record[r].gate, {thread[r].read})

\* A drive starts a run, or carries out a decision for the gate it comes from.
Carries(one) ==
    \/ one.from.gate = None /\ one.decision = None
    \/ /\ one.from.gate \in Gates /\ one.decision \in Kinds
       /\ Decided(one.run, one.from.gate, {one.decision})
       /\ Behind(one.run, one.from.gate)

Driving == \A s \in Sayings :
    stage[s] = "driving" /\ drive[s].run \in Runs =>
        drive[s].from \in Records /\ Carries(drive[s])

DeskInv == DeskTypes /\ Wishes /\ Voices /\ Shown /\ Past /\ Driving

-----------------------------------------------------------------------------
(* What the operators guarantee *)

\* What a drive comes to is a record, and shows no more than its decision allows.
LEMMA OutcomeOf ==
  ASSUME NEW from \in Records, NEW decision,
         \/ from.gate = None /\ decision = None
         \/ from.gate \in Gates /\ decision \in Kinds,
         ~(from.gate = "review" /\ decision = "edit"),
         NEW outcome \in Bounded(Outcomes(from, decision))
  PROVE  /\ outcome \in Records
         /\ outcome.status = "awaiting" => outcome.gate \in Gates
         /\ outcome.status = "completed" => from.gate = "review" /\ decision = "approve"
         /\ outcome.status = "rejected" => from.gate \in Gates /\ decision = "reject"
         /\ outcome.gate = "review" =>
               \/ from.gate = "review"
               \/ from.gate = "plan" /\ decision \in {"approve", "edit"}
<1>1. outcome \in Outcomes(from, decision)
  BY DEF Bounded
<1>2. CASE outcome = Finished(from, "failed")
  BY <1>2 DEF Finished, Records, Statuses
<1>3. CASE from.gate = None /\ outcome # Finished(from, "failed")
  <2>1. outcome = Suspended("plan", 1)
    BY <1>1, <1>3, NoneIsNew DEF Outcomes, Gates, Kinds
  <2> QED  BY <2>1, NoneIsNew DEF Suspended, Records, Statuses, Gates
<1>4. CASE from.gate = "plan" /\ outcome # Finished(from, "failed")
  <2>1. \/ outcome = Suspended("review", from.approval + 1) /\ decision \in {"approve", "edit"}
        \/ outcome = Suspended("plan", from.approval + 1)
        \/ outcome = Finished(from, "rejected") /\ decision = "reject"
    BY <1>1, <1>4, NoneIsNew DEF Outcomes, Gates, Kinds
  <2> QED  BY <2>1, <1>4, NoneIsNew DEF Suspended, Finished, Records, Statuses, Gates
<1>5. CASE from.gate = "review" /\ outcome # Finished(from, "failed")
  <2>1. \/ outcome = Suspended("plan", from.approval + 1)
        \/ outcome = Finished(from, "rejected") /\ decision = "reject"
        \/ outcome = Finished(from, "incomplete")
        \/ outcome = Finished(from, "completed") /\ decision = "approve"
    BY <1>1, <1>5, NoneIsNew DEF Outcomes, Gates, Kinds
  <2> QED  BY <2>1, <1>5, NoneIsNew DEF Suspended, Finished, Records, Statuses, Gates
<1> QED  BY <1>2, <1>3, <1>4, <1>5 DEF Gates

\* A guarded decision is one the words contain.
LEMMA GuardedIsSpoken ==
  ASSUME NEW words, NEW wish, wish.decision \in {"approve", "reject", "feedback"},
         GuardDecision(words, wish)
  PROVE  /\ wish.decision = "approve" => Approves(words)
         /\ wish.decision = "reject" => "no" \in words
         /\ wish.decision = "feedback" => words \cap {"change", "no"} # {}
BY DEF GuardDecision, Approves

-----------------------------------------------------------------------------
(* What every kind of step preserves *)

\* A step that decides nothing and leaves all runs alone.
LEMMA RunsAlone ==
  ASSUME DeskInv, UNCHANGED <<record, thread, decisions>>
  PROVE  Shown' /\ Past'
BY DEF DeskInv, Shown, Past, Decided, Behind

\* A sentence's words are settled before it decides anything.
LEMMA VoicesStay ==
  ASSUME DeskInv, UNCHANGED decisions,
         \A s \in Sayings : stage[s] \in {"driving", "answered"} =>
             stage'[s] \in {"driving", "answered"} /\ heard'[s] = heard[s]
  PROVE  Voices'
BY DEF DeskInv, Voices, Spoken

\* Drives that go on are those of before, for decisions are never taken back.
LEMMA DrivingStays ==
  ASSUME DeskInv, decisions \subseteq decisions',
         \A s \in Sayings : stage'[s] = "driving" => stage[s] = "driving" /\ drive'[s] = drive[s]
  PROVE  Driving'
<1> SUFFICES ASSUME NEW s \in Sayings, stage'[s] = "driving", drive[s].run \in Runs
             PROVE  drive[s].from \in Records /\ Carries(drive[s])'
  BY DEF Driving, Carries, Decided, Behind
<1>1. drive[s].from \in Records /\ Carries(drive[s]) /\ drive'[s] = drive[s]
  BY DEF DeskInv, Driving
<1>2. \A r, gate, kinds : Decided(r, gate, kinds) => Decided(r, gate, kinds)'
  BY DEF Decided
<1> QED  BY <1>1, <1>2 DEF Carries, Behind

-----------------------------------------------------------------------------
(* Initially *)

LEMMA InitInv == Init => DeskInv
<1> SUFFICES ASSUME Init PROVE DeskInv
  OBVIOUS
<1>1. DeskTypes
  BY DEF Init, DeskTypes, NoRun, Records, Threads, Statuses
<1>2. Shown /\ Past
  BY NoneIsNew DEF Init, Shown, Past, Behind, NoRun
<1>3. Wishes /\ Voices /\ Driving
  BY DEF Init, Wishes, Voices, Driving
<1> QED  BY <1>1, <1>2, <1>3 DEF DeskInv

-----------------------------------------------------------------------------
(* Steps that decide nothing *)

LEMMA SayInv ==
  ASSUME DeskInv, NEW s \in Sayings, Say(s)
  PROVE  DeskInv'
<1>1. DeskTypes'
  BY DEF DeskInv, DeskTypes, Say
<1>2. Wishes'
  BY DEF DeskInv, DeskTypes, Wishes, Say
<1>3. Voices'
  BY VoicesStay DEF DeskInv, DeskTypes, Say
<1>4. Shown' /\ Past'
  BY RunsAlone DEF Say
<1>5. Driving'
  BY DrivingStays DEF DeskInv, DeskTypes, Say
<1> QED  BY <1>1, <1>2, <1>3, <1>4, <1>5 DEF DeskInv

\* The desk's own reading of a sentence decides one of two things.
LEMMA LocalWish ==
  ASSUME NEW said, InterpretLocally(said) # None, InterpretLocally(said).kind = "decide"
  PROVE  InterpretLocally(said).decision \in {"approve", "reject", "feedback"}
BY DEF InterpretLocally

LEMMA TranslateInv ==
  ASSUME DeskInv, NEW s \in Sayings, Translate(s)
  PROVE  DeskInv'
<1>1. DeskTypes'
  BY DEF DeskInv, DeskTypes, Translate
<1>2. Wishes'
  <2>1. PICK wish \in IF InterpretLocally(heard[s]) = None THEN Intent ELSE {InterpretLocally(heard[s])} :
          intent' = [intent EXCEPT ![s] = wish]
    BY DEF Translate
  <2>2. wish.kind = "decide" => wish.decision \in {"approve", "reject", "feedback"}
    <3>1. CASE InterpretLocally(heard[s]) = None
      BY <2>1, <3>1 DEF Intent
    <3>2. CASE InterpretLocally(heard[s]) # None
      BY <2>1, <3>2, LocalWish
    <3> QED  BY <3>1, <3>2
  <2> QED  BY <2>1, <2>2 DEF DeskInv, DeskTypes, Wishes, Translate
<1>3. Voices'
  BY VoicesStay DEF DeskInv, DeskTypes, Translate
<1>4. Shown' /\ Past'
  BY RunsAlone DEF Translate
<1>5. Driving'
  BY DrivingStays DEF DeskInv, DeskTypes, Translate
<1> QED  BY <1>1, <1>2, <1>3, <1>4, <1>5 DEF DeskInv

LEMMA ReplyInv ==
  ASSUME DeskInv, NEW s \in Sayings, stage[s] = "acting", Reply(s)
  PROVE  DeskInv'
<1>1. DeskTypes'
  BY DEF DeskInv, DeskTypes, Reply
<1>2. Wishes'
  BY DEF DeskInv, DeskTypes, Wishes, Reply
<1>3. Voices'
  BY VoicesStay DEF DeskInv, DeskTypes, Reply
<1>4. Shown' /\ Past'
  BY RunsAlone DEF Reply
<1>5. Driving'
  BY DrivingStays DEF DeskInv, DeskTypes, Reply
<1> QED  BY <1>1, <1>2, <1>3, <1>4, <1>5 DEF DeskInv

-----------------------------------------------------------------------------
(* Runs start *)

LEMMA StartInv ==
  ASSUME DeskInv, NEW s \in Sayings, Start(s)
  PROVE  DeskInv'
<1>1. PICK r \in Runs :
        /\ record[r] = NoRun
        /\ record' = [record EXCEPT ![r].status = "running"]
        /\ drive' = [drive EXCEPT ![s] = [run |-> r, from |-> record'[r], decision |-> None]]
  BY DEF Start
<1>2. /\ record'[r] \in Records /\ record'[r].status = "running" /\ record'[r].gate = None
      /\ \A q \in Runs : q # r => record'[q] = record[q]
  BY <1>1, NoneIsNew DEF DeskInv, DeskTypes, NoRun, Records, Statuses
<1>3. UNCHANGED <<thread, heard, decisions>>
  BY DEF Start
<1>4. DeskTypes'
  BY <1>1, <1>2, <1>3 DEF DeskInv, DeskTypes, Start
<1>5. Wishes'
  BY DEF DeskInv, DeskTypes, Wishes, Start
<1>6. Voices'
  BY VoicesStay DEF DeskInv, DeskTypes, Start, Acting
<1>7. Shown'
  BY <1>2, <1>3, NoneIsNew DEF DeskInv, Shown, Decided, Behind
<1>8. Past'
  BY <1>2, <1>3 DEF DeskInv, Past, Decided
<1>9. Driving'
  <2>1. drive'[s].from \in Records /\ drive'[s].from.gate = None /\ drive'[s].decision = None
    BY <1>1, <1>2 DEF DeskInv, DeskTypes
  <2>2. \A q \in Sayings : q # s => drive'[q] = drive[q] /\ stage'[q] = stage[q]
    BY <1>1 DEF DeskInv, DeskTypes, Start
  <2> QED  BY <1>3, <2>1, <2>2 DEF DeskInv, Driving, Carries, Decided, Behind
<1> QED  BY <1>4, <1>5, <1>6, <1>7, <1>8, <1>9 DEF DeskInv

LEMMA CliStartsInv ==
  ASSUME DeskInv, CliStarts
  PROVE  DeskInv'
<1>1. PICK r \in Runs :
        /\ record' = [record EXCEPT ![r] = Suspended("plan", 1)]
        /\ thread' = [thread EXCEPT ![r].at = 1]
  BY DEF CliStarts
<1>2. UNCHANGED <<stage, heard, intent, drive, decisions>>
  BY DEF CliStarts
<1>3. DeskTypes'
  BY <1>1, <1>2 DEF DeskInv, DeskTypes, Suspended, Records, Threads, Statuses, Gates
<1>4. Wishes' /\ Voices'
  BY <1>2 DEF DeskInv, Wishes, Voices, Spoken
<1>5. Shown'
  BY <1>1, <1>2 DEF DeskInv, DeskTypes, Shown, Suspended, Decided, Behind, Gates
<1>6. Past'
  BY <1>1, <1>2 DEF DeskInv, DeskTypes, Past, Suspended, Decided, Threads
<1>7. Driving'
  BY <1>2, DrivingStays DEF DeskInv
<1> QED  BY <1>3, <1>4, <1>5, <1>6, <1>7 DEF DeskInv
-----------------------------------------------------------------------------
(* Runs are decided *)

\* A new record that an outcome of a drive left keeps what records show.
LEMMA ShownAfter ==
  ASSUME DeskInv, NEW r \in Runs, NEW from \in Records, NEW decision, NEW outcome,
         \/ from.gate = None /\ decision = None
         \/ /\ from.gate \in Gates /\ decision \in Kinds
            /\ Decided(r, from.gate, {decision})'
            /\ Behind(r, from.gate)',
         ~(from.gate = "review" /\ decision = "edit"),
         outcome \in Bounded(Outcomes(from, decision)),
         record' = [record EXCEPT ![r] = outcome],
         decisions \subseteq decisions'
  PROVE  record' \in [Runs -> Records] /\ Shown'
<1>1. /\ outcome \in Records
      /\ outcome.status = "awaiting" => outcome.gate \in Gates
      /\ outcome.status = "completed" => from.gate = "review" /\ decision = "approve"
      /\ outcome.status = "rejected" => from.gate \in Gates /\ decision = "reject"
      /\ outcome.gate = "review" =>
            \/ from.gate = "review"
            \/ from.gate = "plan" /\ decision \in {"approve", "edit"}
  BY OutcomeOf
<1>2. record' \in [Runs -> Records] /\ record'[r] = outcome
  BY <1>1 DEF DeskInv, DeskTypes
<1>3. /\ outcome.status = "completed" => Decided(r, "review", {"approve"})'
      /\ outcome.status = "rejected" => \E gate \in Gates : Decided(r, gate, {"reject"})'
      /\ Behind(r, outcome.gate)'
  <2>1. CASE from.gate = None /\ decision = None
    BY <1>1, <2>1, NoneIsNew DEF Behind, Gates
  <2>2. CASE /\ from.gate \in Gates /\ decision \in Kinds
             /\ Decided(r, from.gate, {decision})'
             /\ Behind(r, from.gate)'
    BY <1>1, <2>2 DEF Behind, Decided, Gates
  <2> QED  BY <2>1, <2>2
<1>4. ASSUME NEW q \in Runs, q # r
      PROVE  /\ record'[q] = record[q]
             /\ record'[q].status = "awaiting" => record'[q].gate \in Gates
             /\ record'[q].status = "completed" => Decided(q, "review", {"approve"})'
             /\ record'[q].status = "rejected" => \E gate \in Gates : Decided(q, gate, {"reject"})'
             /\ Behind(q, record[q].gate)'
  BY <1>4 DEF DeskInv, DeskTypes, Shown, Decided, Behind
<1> QED  BY <1>1, <1>2, <1>3, <1>4 DEF Shown, Behind

LEMMA DriveEndsInv ==
  ASSUME DeskInv, NEW s \in Sayings, DriveEnds(s)
  PROVE  DeskInv'
<1> DEFINE r == drive[s].run
<1>1. PICK outcome \in Bounded(Outcomes(drive[s].from, drive[s].decision)) :
        /\ record' = [record EXCEPT ![r] = outcome]
        /\ thread' = [thread EXCEPT ![r].at =
                         IF outcome.status = "awaiting" THEN outcome.approval ELSE @]
  BY DEF DriveEnds
<1>2. /\ stage[s] = "driving"
      /\ stage' = [stage EXCEPT ![s] = "answered"]
      /\ drive' = [drive EXCEPT ![s] = None]
      /\ UNCHANGED <<heard, intent, decisions>>
  BY DEF DriveEnds
<1>3. Wishes'
  BY <1>2 DEF DeskInv, DeskTypes, Wishes
<1>4. Voices'
  BY <1>2, VoicesStay DEF DeskInv, DeskTypes
<1>5. Driving'
  BY <1>2, DrivingStays DEF DeskInv, DeskTypes
<1>6. CASE r \in Runs
  <2>1. /\ drive[s].from \in Records
        /\ Carries(drive[s])
    BY <1>2, <1>6 DEF DeskInv, Driving
  <2>2. ~(drive[s].from.gate = "review" /\ drive[s].decision = "edit")
    BY <2>1, NoneIsNew DEF DeskInv, Voices, Carries, Decided
  <2>3. \/ drive[s].from.gate = None /\ drive[s].decision = None
        \/ /\ drive[s].from.gate \in Gates /\ drive[s].decision \in Kinds
           /\ \E d \in decisions' : d.run = r /\ d.gate = drive[s].from.gate /\ d.kind \in {drive[s].decision}
           /\ drive[s].from.gate = "review" =>
                 \E d \in decisions' : d.run = r /\ d.gate = "plan" /\ d.kind \in {"approve", "edit"}
    BY <1>2, <2>1 DEF Carries, Decided, Behind
  <2>4. record' \in [Runs -> Records] /\ Shown'
    <3>1. PICK from, decision, q : from = drive[s].from /\ decision = drive[s].decision /\ q = r
      OBVIOUS
    <3> HIDE DEF r
    <3>2. /\ q \in Runs /\ from \in Records
          /\ \/ from.gate = None /\ decision = None
             \/ /\ from.gate \in Gates /\ decision \in Kinds
                /\ Decided(q, from.gate, {decision})'
                /\ Behind(q, from.gate)'
          /\ ~(from.gate = "review" /\ decision = "edit")
          /\ outcome \in Bounded(Outcomes(from, decision))
          /\ record' = [record EXCEPT ![q] = outcome]
          /\ decisions \subseteq decisions'
      BY <1>1, <1>2, <1>6, <2>1, <2>2, <2>3, <3>1 DEF Decided, Behind, r
    <3> QED  BY <3>2, ShownAfter
  <2>5. DeskTypes'
    <3>1. outcome \in Records
      BY <1>1, <1>6, <2>4 DEF DeskInv, DeskTypes
    <3>2. thread' \in [Runs -> Threads]
      BY <1>1, <1>6, <3>1 DEF DeskInv, DeskTypes, Threads, Records
    <3> QED  BY <1>2, <2>4, <3>2 DEF DeskInv, DeskTypes
  <2>6. Past'
    BY <1>1, <1>2, <1>6 DEF DeskInv, DeskTypes, Past, Threads, Decided
  <2> QED  BY <1>3, <1>4, <1>5, <2>4, <2>5, <2>6 DEF DeskInv
<1>7. CASE r \notin Runs
  <2>1. UNCHANGED <<record, thread>>
    BY <1>1, <1>7 DEF DeskInv, DeskTypes
  <2>2. Shown' /\ Past'
    BY <1>2, <2>1, RunsAlone
  <2>3. DeskTypes'
    BY <1>2, <2>1 DEF DeskInv, DeskTypes
  <2> QED  BY <1>3, <1>4, <1>5, <2>2, <2>3 DEF DeskInv
<1> QED  BY <1>6, <1>7

LEMMA DecideInv ==
  ASSUME DeskInv, NEW s \in Sayings, Decide(s)
  PROVE  DeskInv'
<1>1. PICK r, kind, gate, approval :
        /\ r = Target(s) /\ kind = DecisionKind(intent[s], record[r])
        /\ gate = record[r].gate /\ approval = record[r].approval
  OBVIOUS
<1>2. /\ stage[s] = "acting" /\ intent[s].kind = "decide"
      /\ GuardDecision(heard[s].words, intent[s])
      /\ record[r].status = "awaiting"
      /\ decisions' = decisions \cup
            {[by |-> s, run |-> r, gate |-> gate, approval |-> approval, kind |-> kind]}
      /\ thread' = [thread EXCEPT ![r] =
            [at |-> 0, read |-> IF thread[r].at = approval THEN kind ELSE @.read]]
      /\ drive' = [drive EXCEPT ![s] = [run |-> r, from |-> record[r], decision |-> thread'[r].read]]
      /\ stage' = [stage EXCEPT ![s] = "driving"]
      /\ intent' = [intent EXCEPT ![s] = None]
      /\ UNCHANGED <<record, heard, cli>>
  BY <1>1 DEF Decide, Acting, Decidable
<1>3. intent[s].decision \in {"approve", "reject", "feedback"}
  BY <1>2 DEF DeskInv, Wishes
<1>4. /\ kind \in Kinds
      /\ gate = "review" => kind # "edit"
      /\ kind = "edit" => intent[s].decision = "approve"
      /\ kind # "edit" => kind = intent[s].decision
  BY <1>1, <1>3 DEF DecisionKind, Kinds
<1>5. DeskTypes'
  BY <1>2, <1>4 DEF DeskInv, DeskTypes, Threads
<1>6. Wishes'
  BY <1>2 DEF DeskInv, DeskTypes, Wishes
<1>7. Voices'
  <2>1. ASSUME NEW d \in decisions
        PROVE  /\ d.kind \in Kinds
               /\ d.gate = "review" => d.kind # "edit"
               /\ d.by # None => d.by \in Sayings /\ stage'[d.by] \in {"driving", "answered"} /\ Spoken(d)'
    BY <1>2 DEF DeskInv, DeskTypes, Voices, Spoken
  <2>2. /\ kind \in {"approve", "edit"} => Approves(heard[s].words)
        /\ kind = "reject" => "no" \in heard[s].words
        /\ kind = "feedback" => heard[s].words \cap {"change", "no"} # {}
    <3>1. PICK words, wish : words = heard[s].words /\ wish = intent[s]
      OBVIOUS
    <3>2. /\ wish.decision = "approve" => Approves(words)
          /\ wish.decision = "reject" => "no" \in words
          /\ wish.decision = "feedback" => words \cap {"change", "no"} # {}
      BY <1>2, <1>3, <3>1, GuardedIsSpoken
    <3> QED  BY <1>3, <1>4, <3>1, <3>2 DEF Approves
  <2>3. stage'[s] = "driving"
    BY <1>2 DEF DeskInv, DeskTypes
  <2> QED  BY <1>2, <1>4, <2>1, <2>2, <2>3 DEF Voices, Spoken
<1>8. Shown'
  BY <1>2 DEF DeskInv, Shown, Decided, Behind
<1>9. ASSUME r \in Runs
      PROVE  /\ thread'[r].read \in Kinds
             /\ Decided(r, gate, {thread[r].read})'
  <2>1. CASE thread[r].at = approval
    <3>1. thread'[r].read = kind
      BY <1>2, <1>9, <2>1 DEF DeskInv, DeskTypes
    <3>2. [by |-> s, run |-> r, gate |-> gate, approval |-> approval, kind |-> kind] \in decisions'
      BY <1>2
    <3> QED  BY <1>4, <3>1, <3>2 DEF Decided
  <2>2. CASE thread[r].at # approval
    <3>1. thread'[r].read = thread[r].read
      BY <1>2, <1>9, <2>2 DEF DeskInv, DeskTypes
    <3>2. Decided(r, gate, {thread[r].read})
      BY <1>1, <1>2, <1>9, <2>2 DEF DeskInv, Past
    <3> QED  BY <1>2, <3>1, <3>2 DEF DeskInv, Voices, Decided
  <2> QED  BY <2>1, <2>2
<1>10. Past'
  <2> SUFFICES ASSUME NEW q \in Runs, record[q].status = "awaiting"
               PROVE  \/ thread'[q].at = record[q].approval
                      \/ Decided(q, record[q].gate, {thread[q].read})'
    BY <1>2 DEF Past, Decided
  <2>1. CASE q = r
    BY <1>1, <1>2, <1>9, <2>1 DEF Decided
  <2>2. CASE q # r
    BY <1>2, <2>2 DEF DeskInv, DeskTypes, Past, Decided
  <2> QED  BY <2>1, <2>2
<1>11. Driving'
  <2>1. ASSUME r \in Runs
        PROVE  drive'[s].from \in Records /\ Carries(drive[s])'
    <3>1. /\ drive'[s].run = r /\ drive'[s].from = record[r]
          /\ drive'[s].decision = thread'[r].read
      BY <1>2 DEF DeskInv, DeskTypes
    <3>2. gate \in Gates /\ record[r] \in Records /\ Behind(r, gate)
      BY <1>1, <1>2, <2>1 DEF DeskInv, DeskTypes, Shown
    <3> QED  BY <1>1, <1>2, <1>9, <2>1, <3>1, <3>2 DEF Carries, Decided, Behind
  <2>2. drive'[s].run = r
    BY <1>2 DEF DeskInv, DeskTypes
  <2>3. \A q \in Sayings : q # s => drive'[q] = drive[q] /\ stage'[q] = stage[q]
    BY <1>2 DEF DeskInv, DeskTypes
  <2> QED  BY <1>2, <2>1, <2>2, <2>3 DEF DeskInv, Driving, Carries, Decided, Behind
<1> QED  BY <1>5, <1>6, <1>7, <1>8, <1>10, <1>11 DEF DeskInv

LEMMA CliAnswersInv ==
  ASSUME DeskInv, CliAnswers
  PROVE  DeskInv'
<1>1. PICK r, kind, outcome :
        /\ r \in Waiting /\ kind \in {"approve", "reject", "feedback"}
        /\ outcome \in Bounded(Outcomes(record[r], kind))
        /\ decisions' = decisions \cup
              {[by |-> None, run |-> r, gate |-> record[r].gate, approval |-> record[r].approval, kind |-> kind]}
        /\ record' = [record EXCEPT ![r] = outcome]
        /\ thread' = [thread EXCEPT ![r] =
              [at |-> IF outcome.status = "awaiting" THEN outcome.approval ELSE 0, read |-> kind]]
  BY DEF CliAnswers
<1>2. UNCHANGED <<stage, heard, intent, drive>>
  BY DEF CliAnswers
<1>3. PICK from : from = record[r]
  OBVIOUS
<1>4. /\ r \in Runs /\ from \in Records /\ from.gate \in Gates
      /\ Behind(r, from.gate)
  BY <1>1, <1>3 DEF DeskInv, DeskTypes, Shown, Waiting
<1>5. Wishes' /\ Voices' /\ Driving'
  <2>1. Wishes'
    BY <1>2 DEF DeskInv, Wishes
  <2>2. Voices'
    <3>1. \A d \in decisions' \ decisions : d.by = None /\ d.kind = kind
      BY <1>1
    <3>2. kind \in Kinds /\ kind # "edit"
      BY <1>1 DEF Kinds
    <3>3. decisions \subseteq decisions'
      BY <1>1
    <3>4. ASSUME NEW d \in decisions
          PROVE  /\ d.kind \in Kinds
                 /\ d.gate = "review" => d.kind # "edit"
                 /\ d.by # None =>
                       d.by \in Sayings /\ stage'[d.by] \in {"driving", "answered"} /\ Spoken(d)'
      BY <1>2 DEF DeskInv, Voices, Spoken
    <3>5. ASSUME NEW d \in decisions'
          PROVE  /\ d.kind \in Kinds
                 /\ d.gate = "review" => d.kind # "edit"
                 /\ d.by # None =>
                       d.by \in Sayings /\ stage'[d.by] \in {"driving", "answered"} /\ Spoken(d)'
      <4>1. CASE d \in decisions
        BY <3>4, <4>1
      <4>2. CASE d \notin decisions
        BY <3>1, <3>2, <4>2
      <4> QED  BY <4>1, <4>2
    <3> QED  BY <3>5 DEF Voices, Spoken
  <2>3. Driving'
    BY <1>1, <1>2, DrivingStays DEF DeskInv
  <2> QED  BY <2>1, <2>2, <2>3
<1>6. record' \in [Runs -> Records] /\ Shown'
  <2>1. Decided(r, from.gate, {kind})' /\ Behind(r, from.gate)'
    <3>1. /\ decisions \subseteq decisions'
          /\ [by |-> None, run |-> r, gate |-> from.gate, approval |-> from.approval, kind |-> kind] \in decisions'
      BY <1>1, <1>3
    <3>2. Decided(r, from.gate, {kind})'
      BY <3>1 DEF Decided
    <3> QED  BY <1>4, <3>1, <3>2 DEF Decided, Behind
  <2>2. decisions \subseteq decisions' /\ outcome \in Bounded(Outcomes(from, kind)) /\ kind \in Kinds
    BY <1>1, <1>3 DEF Kinds
  <2> QED  BY <1>1, <1>4, <2>1, <2>2, ShownAfter
<1>7. DeskTypes'
  <2>1. outcome \in Records
    BY <1>1, <1>4, <1>6 DEF DeskInv, DeskTypes
  <2> QED  BY <1>1, <1>2, <1>4, <1>6, <2>1 DEF DeskInv, DeskTypes, Threads, Records, Kinds
<1>8. Past'
  BY <1>1, <1>2, <1>4 DEF DeskInv, DeskTypes, Past, Decided
<1> QED  BY <1>5, <1>6, <1>7, <1>8 DEF DeskInv

-----------------------------------------------------------------------------
(* The theorem *)

LEMMA NextInv ==
  ASSUME DeskInv, [Next]_vars
  PROVE  DeskInv'
<1>1. CASE UNCHANGED vars
  <2>1. DeskTypes' /\ Wishes' /\ Voices'
    BY <1>1 DEF vars, DeskInv, DeskTypes, Wishes, Voices, Spoken
  <2>2. Shown' /\ Past'
    BY <1>1, RunsAlone DEF vars
  <2>3. Driving'
    BY <1>1, DrivingStays DEF vars, DeskInv
  <2> QED  BY <2>1, <2>2, <2>3 DEF DeskInv
<1>2. CASE CliStarts
  BY <1>2, CliStartsInv
<1>3. CASE CliAnswers
  BY <1>3, CliAnswersInv
<1>4. ASSUME NEW s \in Sayings, Say(s) \/ Serve(s)
      PROVE  DeskInv'
  <2>1. CASE Say(s)
    BY <2>1, SayInv
  <2>2. CASE Translate(s)
    BY <2>2, TranslateInv
  <2>3. CASE Answer(s) \/ DeclineStart(s) \/ DeclineDecision(s)
    BY <2>3, ReplyInv DEF Answer, DeclineStart, DeclineDecision, Acting
  <2>4. CASE Start(s)
    BY <2>4, StartInv
  <2>5. CASE Decide(s)
    BY <2>5, DecideInv
  <2>6. CASE DriveEnds(s)
    BY <2>6, DriveEndsInv
  <2> QED  BY <1>4, <2>1, <2>2, <2>3, <2>4, <2>5, <2>6 DEF Serve
<1> QED  BY <1>1, <1>2, <1>3, <1>4 DEF Next

LEMMA InvIsSpoken == DeskInv => DecisionsAreSpoken
BY DEF DeskInv, Voices, Spoken, Shown, Behind, Decided, DecisionsAreSpoken

\* A run is decided by what a person said, whatever the model makes of it: for any
\* sentences, however many at once, beside any use of the command line.
THEOREM SpokenDecisions == Spec => []DecisionsAreSpoken
<1>1. Init => DeskInv
  BY InitInv
<1>2. DeskInv /\ [Next]_vars => DeskInv'
  BY NextInv
<1>3. DeskInv => DecisionsAreSpoken
  BY InvIsSpoken
<1> QED  BY <1>1, <1>2, <1>3, PTL DEF Spec

-----------------------------------------------------------------------------
(* The run in view *)

DrivesRun(s, r) == stage[s] = "driving" /\ drive[s].run = r
HeardOf(s, r) == stage[s] # "unsaid" /\ heard[s].first # None /\ heard[s].first.run = r

\* A run none of whose gates was answered twice: whoever drives it does so alone
\* and from what its record still shows, for the one answer to that gate; and what
\* was read out of it is no later than what it waits at.
Steady(r) ==
    /\ \A s \in Sayings : DrivesRun(s, r) =>
          /\ drive[s].from = record[r]
          /\ record[r].status \in {"running", "awaiting"}
          /\ record[r].status = "awaiting" =>
                \E d \in decisions : d.by = s /\ d.run = r /\ d.approval = record[r].approval
    /\ \A s, t \in Sayings : DrivesRun(s, r) /\ DrivesRun(t, r) => s = t
    /\ \A s \in Sayings : HeardOf(s, r) =>
          /\ record[r].status \notin {"none", "running"}
          /\ record[r].status = "awaiting" => heard[s].first.approval <= record[r].approval

SteadyOrTwice == \A r \in Runs : AnsweredTwice(r) \/ Steady(r)

\* What was read out is a run and an approval of it.
ReadOut == \A s \in Sayings :
    stage[s] # "unsaid" /\ heard[s].first # None
        => heard[s].first.run \in Runs /\ heard[s].first.approval \in Nat

InView(d) ==
    /\ heard[d.by].first # None
    /\ d.run = heard[d.by].first.run
    /\ AnsweredTwice(d.run) \/ d.approval >= heard[d.by].first.approval

ViewInv == ReadOut /\ SteadyOrTwice /\ AnswersTheRunInView

\* An answer given twice stays given twice.
LEMMA TwiceStays ==
  ASSUME decisions \subseteq decisions', NEW r, AnsweredTwice(r)
  PROVE  AnsweredTwice(r)'
BY DEF AnsweredTwice

\* A run that a step leaves alone stays as steady as it was.
LEMMA SteadyStays ==
  ASSUME NEW r \in Runs, AnsweredTwice(r) \/ Steady(r),
         record'[r] = record[r], decisions \subseteq decisions',
         \A s \in Sayings : DrivesRun(s, r)' => DrivesRun(s, r) /\ drive'[s] = drive[s],
         \A s \in Sayings : HeardOf(s, r)' => HeardOf(s, r) /\ heard'[s] = heard[s]
  PROVE  AnsweredTwice(r)' \/ Steady(r)'
<1>1. CASE AnsweredTwice(r)
  BY <1>1, TwiceStays
<1>2. CASE Steady(r)
  <2>1. ASSUME NEW s \in Sayings, DrivesRun(s, r)'
        PROVE  /\ drive'[s].from = record'[r]
               /\ record'[r].status \in {"running", "awaiting"}
               /\ record'[r].status = "awaiting" =>
                     \E d \in decisions' : d.by = s /\ d.run = r /\ d.approval = record'[r].approval
    BY <1>2, <2>1 DEF Steady
  <2>2. \A s, t \in Sayings : DrivesRun(s, r)' /\ DrivesRun(t, r)' => s = t
    BY <1>2 DEF Steady
  <2>3. ASSUME NEW s \in Sayings, HeardOf(s, r)'
        PROVE  /\ record'[r].status \notin {"none", "running"}
               /\ record'[r].status = "awaiting" => heard'[s].first.approval <= record'[r].approval
    BY <1>2, <2>3 DEF Steady
  <2> QED  BY <2>1, <2>2, <2>3 DEF Steady
<1> QED  BY <1>1, <1>2

\* Decisions already taken stay in view: their sentences were heard before.
LEMMA InViewStays ==
  ASSUME DeskInv, AnswersTheRunInView, decisions \subseteq decisions',
         \A s \in Sayings : stage[s] \in {"driving", "answered"} => heard'[s] = heard[s],
         \A d \in decisions' \ decisions : d.by # None => InView(d)'
  PROVE  AnswersTheRunInView'
<1> SUFFICES ASSUME NEW d \in decisions', d.by # None
             PROVE  InView(d)'
  BY DEF AnswersTheRunInView, InView
<1>1. CASE d \in decisions
  <2>1. heard'[d.by] = heard[d.by]
    BY <1>1 DEF DeskInv, Voices
  <2>2. InView(d)
    BY <1>1 DEF AnswersTheRunInView, InView
  <2>3. AnsweredTwice(d.run) => AnsweredTwice(d.run)'
    BY TwiceStays
  <2> QED  BY <2>1, <2>2, <2>3 DEF InView
<1>2. CASE d \notin decisions
  BY <1>2
<1> QED  BY <1>1, <1>2

\* The list starts with a run that waits.
LEMMA FirstWaits ==
  ASSUME DeskTypes, FirstWaiting # None
  PROVE  /\ FirstWaiting.run \in Runs
         /\ record[FirstWaiting.run].status = "awaiting"
         /\ FirstWaiting.approval = record[FirstWaiting.run].approval
         /\ FirstWaiting.approval \in Nat
<1>1. Waiting # {} /\ Waiting \subseteq Runs
  BY DEF FirstWaiting, Waiting
<1>2. \E x \in Waiting : \A y \in Waiting : y <= x
  <2>1. MaxRuns \in Nat
    BY CountsAreNat
  <2> DEFINE T == {MaxRuns - x : x \in Waiting}
  <2>0. \A x \in Waiting : x \in Nat /\ MaxRuns - x \in Nat
    BY <1>1, <2>1 DEF Runs
  <2>2. T \subseteq Nat /\ T # {}
    BY <1>1, <2>0
  <2>3. PICK n \in T : \A m \in T : <<m, n>> \notin OpToRel(<, Nat)
    <3> HIDE DEF T
    <3> QED  BY <2>2, NatLessThanWellFounded, WFMin
  <2>4. PICK x \in Waiting : n = MaxRuns - x
    BY <2>3
  <2>5. ASSUME NEW y \in Waiting
        PROVE  y <= x
    <3>1. MaxRuns - y \in Nat /\ n \in Nat /\ x \in Nat /\ y \in Nat
      BY <2>0, <2>4
    <3>2. ~ (MaxRuns - y < n)
      BY <2>2, <2>3, <3>1 DEF OpToRel
    <3> QED  BY <2>1, <2>4, <3>1, <3>2
  <2> QED  BY <2>4, <2>5
<1>3. PICK x \in Waiting : FirstWaiting = [run |-> x, approval |-> record[x].approval]
  BY <1>1, <1>2 DEF FirstWaiting
<1> QED  BY <1>1, <1>3 DEF Waiting, DeskTypes, Records

LEMMA ViewInit == Init => ViewInv
<1> SUFFICES ASSUME Init PROVE ViewInv
  OBVIOUS
<1>1. \A s \in Sayings : stage[s] = "unsaid"
  BY DEF Init
<1>2. ReadOut
  BY <1>1 DEF ReadOut
<1>3. SteadyOrTwice
  BY <1>1 DEF SteadyOrTwice, Steady, DrivesRun, HeardOf
<1>4. AnswersTheRunInView
  BY DEF Init, AnswersTheRunInView
<1> QED  BY <1>2, <1>3, <1>4 DEF ViewInv

\* A sentence is said: what is read out waits now.
LEMMA SayView ==
  ASSUME DeskInv, ViewInv, NEW s \in Sayings, Say(s)
  PROVE  ViewInv'
<1>1. /\ stage[s] = "unsaid" /\ stage'[s] = "translating"
      /\ heard'[s].first = FirstWaiting
      /\ \A t \in Sayings : t # s => stage'[t] = stage[t] /\ heard'[t] = heard[t]
      /\ UNCHANGED <<record, drive, decisions>>
  BY DEF Say, DeskInv, DeskTypes
<1>2. ReadOut'
  <2>1. FirstWaiting # None => FirstWaiting.run \in Runs /\ FirstWaiting.approval \in Nat
    BY FirstWaits DEF DeskInv
  <2> QED  BY <1>1, <2>1 DEF ViewInv, ReadOut
<1>3. ASSUME NEW r \in Runs
      PROVE  AnsweredTwice(r)' \/ Steady(r)'
  <2>1. CASE AnsweredTwice(r)
    BY <1>1, <2>1, TwiceStays
  <2>2. CASE Steady(r)
    <3>1. \A t \in Sayings : DrivesRun(t, r)' => DrivesRun(t, r) /\ drive'[t] = drive[t]
      BY <1>1 DEF DrivesRun
    <3>2. ASSUME NEW t \in Sayings, HeardOf(t, r)'
          PROVE  /\ record'[r].status \notin {"none", "running"}
                 /\ record'[r].status = "awaiting" => heard'[t].first.approval <= record'[r].approval
      <4>1. CASE t = s
        <5>1. FirstWaiting # None /\ FirstWaiting.run = r
          BY <1>1, <3>2, <4>1 DEF HeardOf
        <5>2. /\ record[r].status = "awaiting" /\ FirstWaiting.approval = record[r].approval
              /\ FirstWaiting.approval \in Nat
          BY <5>1, FirstWaits DEF DeskInv
        <5> QED  BY <1>1, <4>1, <5>2
      <4>2. CASE t # s
        BY <1>1, <2>2, <3>2, <4>2 DEF Steady, HeardOf
      <4> QED  BY <4>1, <4>2
    <3>3. \A t \in Sayings : DrivesRun(t, r)' =>
            /\ drive'[t].from = record'[r]
            /\ record'[r].status \in {"running", "awaiting"}
            /\ record'[r].status = "awaiting" =>
                  \E d \in decisions' : d.by = t /\ d.run = r /\ d.approval = record'[r].approval
      BY <1>1, <2>2, <3>1 DEF Steady
    <3>4. \A t, u \in Sayings : DrivesRun(t, r)' /\ DrivesRun(u, r)' => t = u
      BY <2>2, <3>1 DEF Steady
    <3> QED  BY <3>2, <3>3, <3>4 DEF Steady
  <2> QED  BY <2>1, <2>2, <1>3 DEF ViewInv, SteadyOrTwice
<1>4. AnswersTheRunInView'
  BY <1>1, InViewStays DEF ViewInv
<1> QED  BY <1>2, <1>3, <1>4 DEF ViewInv, SteadyOrTwice

\* A step that neither drives nor decides nor hears anything.
LEMMA AloneView ==
  ASSUME DeskInv, ViewInv, UNCHANGED <<record, heard, decisions>>,
         \A s \in Sayings : stage'[s] = "driving" => stage[s] = "driving" /\ drive'[s] = drive[s],
         \A s \in Sayings : stage[s] = "unsaid" => stage'[s] = "unsaid"
  PROVE  ViewInv'
<1>1. ASSUME NEW r \in Runs
      PROVE  AnsweredTwice(r)' \/ Steady(r)'
  <2>1. \A s \in Sayings : DrivesRun(s, r)' => DrivesRun(s, r) /\ drive'[s] = drive[s]
    BY DEF DrivesRun
  <2>2. \A s \in Sayings : HeardOf(s, r)' => HeardOf(s, r) /\ heard'[s] = heard[s]
    BY DEF HeardOf
  <2> QED  BY <1>1, <2>1, <2>2, SteadyStays DEF ViewInv, SteadyOrTwice
<1>2. ReadOut'
  BY DEF ViewInv, ReadOut
<1>3. AnswersTheRunInView'
  BY InViewStays DEF ViewInv
<1> QED  BY <1>1, <1>2, <1>3 DEF ViewInv, SteadyOrTwice

\* A run begins: nothing drives it and nobody has heard of it.
LEMMA StartView ==
  ASSUME DeskInv, ViewInv, NEW s \in Sayings, Start(s)
  PROVE  ViewInv'
<1>1. PICK r \in Runs :
        /\ record[r] = NoRun
        /\ record' = [record EXCEPT ![r].status = "running"]
        /\ drive' = [drive EXCEPT ![s] = [run |-> r, from |-> record'[r], decision |-> None]]
  BY DEF Start
<1>2. /\ stage[s] = "acting" /\ stage'[s] = "driving"
      /\ drive'[s].run = r /\ drive'[s].from = record'[r]
      /\ \A t \in Sayings : t # s => stage'[t] = stage[t] /\ drive'[t] = drive[t]
      /\ UNCHANGED <<heard, decisions>>
  BY <1>1 DEF Start, Acting, DeskInv, DeskTypes
<1>3. /\ record[r].status = "none" /\ record'[r].status = "running"
      /\ \A q \in Runs : q # r => record'[q] = record[q]
  BY <1>1 DEF NoRun, DeskInv, DeskTypes
<1>4. \A t \in Sayings : stage'[t] # "unsaid" <=> stage[t] # "unsaid"
  BY <1>2
<1>5. ASSUME NEW q \in Runs
      PROVE  AnsweredTwice(q)' \/ Steady(q)'
  <2>1. CASE AnsweredTwice(q)
    BY <1>2, <2>1, TwiceStays
  <2>2. CASE Steady(q) /\ q # r
    <3>1. \A t \in Sayings : DrivesRun(t, q)' => DrivesRun(t, q) /\ drive'[t] = drive[t]
      BY <1>2, <2>2 DEF DrivesRun
    <3>2. \A t \in Sayings : HeardOf(t, q)' => HeardOf(t, q) /\ heard'[t] = heard[t]
      BY <1>2, <1>4 DEF HeardOf
    <3>3. record'[q] = record[q]
      BY <1>3, <2>2
    <3> QED  BY <1>2, <2>2, <3>1, <3>2, <3>3, SteadyStays
  <2>3. CASE Steady(q) /\ q = r
    <3>1. \A t \in Sayings : ~ DrivesRun(t, r) /\ ~ HeardOf(t, r)
      BY <1>3, <2>3 DEF Steady
    <3>2. \A t \in Sayings : DrivesRun(t, r)' => t = s
      BY <1>2, <3>1 DEF DrivesRun
    <3>3. \A t \in Sayings : ~ HeardOf(t, r)'
      BY <1>2, <1>4, <3>1 DEF HeardOf
    <3> QED  BY <1>2, <1>3, <2>3, <3>2, <3>3 DEF Steady
  <2> QED  BY <2>1, <2>2, <2>3 DEF ViewInv, SteadyOrTwice
<1>6. ReadOut'
  BY <1>2, <1>4 DEF ViewInv, ReadOut
<1>7. AnswersTheRunInView'
  BY <1>2, InViewStays DEF ViewInv
<1> QED  BY <1>5, <1>6, <1>7 DEF ViewInv, SteadyOrTwice

LEMMA CliStartsView ==
  ASSUME DeskInv, ViewInv, CliStarts
  PROVE  ViewInv'
<1>1. PICK r \in Runs :
        /\ record[r] = NoRun
        /\ record' = [record EXCEPT ![r] = Suspended("plan", 1)]
  BY DEF CliStarts
<1>2. UNCHANGED <<stage, heard, drive, decisions>>
  BY DEF CliStarts
<1>3. /\ record[r].status = "none"
      /\ \A q \in Runs : q # r => record'[q] = record[q]
  BY <1>1 DEF NoRun, DeskInv, DeskTypes
<1>4. ASSUME NEW q \in Runs
      PROVE  AnsweredTwice(q)' \/ Steady(q)'
  <2>1. CASE AnsweredTwice(q)
    BY <1>2, <2>1, TwiceStays
  <2>2. \A t \in Sayings : DrivesRun(t, q)' => DrivesRun(t, q) /\ drive'[t] = drive[t]
    BY <1>2 DEF DrivesRun
  <2>3. \A t \in Sayings : HeardOf(t, q)' => HeardOf(t, q) /\ heard'[t] = heard[t]
    BY <1>2 DEF HeardOf
  <2>4. CASE Steady(q) /\ q # r
    <3>1. record'[q] = record[q]
      BY <1>3, <2>4
    <3> QED  BY <1>2, <2>2, <2>3, <2>4, <3>1, SteadyStays
  <2>5. CASE Steady(q) /\ q = r
    <3>1. \A t \in Sayings : ~ DrivesRun(t, q)' /\ ~ HeardOf(t, q)'
      BY <1>3, <2>2, <2>3, <2>5 DEF Steady
    <3> QED  BY <3>1 DEF Steady
  <2> QED  BY <2>1, <2>4, <2>5 DEF ViewInv, SteadyOrTwice
<1>5. ReadOut'
  BY <1>2 DEF ViewInv, ReadOut
<1>6. AnswersTheRunInView'
  BY <1>2, InViewStays DEF ViewInv
<1> QED  BY <1>4, <1>5, <1>6 DEF ViewInv, SteadyOrTwice

\* Two who answered a gate of a run answered it twice.
LEMMA TwoAnswers ==
  ASSUME NEW d \in decisions', NEW e \in decisions', d # e, d.run = e.run, d.approval = e.approval
  PROVE  AnsweredTwice(d.run)'
BY DEF AnsweredTwice

\* A run's answer is looked up where it was read out: it is an answer to what was
\* read out or to something later, and whoever drives the run already makes it
\* one of two.
LEMMA DecideView ==
  ASSUME DeskInv, ViewInv, NEW s \in Sayings, Decide(s)
  PROVE  ViewInv'
<1>1. PICK r, kind, gate, approval :
        /\ r = Target(s) /\ kind = DecisionKind(intent[s], record[r])
        /\ gate = record[r].gate /\ approval = record[r].approval
  OBVIOUS
<1>2. /\ stage[s] = "acting" /\ stage'[s] = "driving"
      /\ Target(s) # None
      /\ record[r].status = "awaiting"
      /\ decisions' = decisions \cup
            {[by |-> s, run |-> r, gate |-> gate, approval |-> approval, kind |-> kind]}
      /\ drive'[s].run = r /\ drive'[s].from = record[r]
      /\ \A t \in Sayings : t # s => stage'[t] = stage[t] /\ drive'[t] = drive[t]
      /\ UNCHANGED <<record, heard>>
  BY <1>1 DEF Decide, Acting, Decidable, DeskInv, DeskTypes
<1>3. PICK new \in decisions' : new = [by |-> s, run |-> r, gate |-> gate, approval |-> approval, kind |-> kind]
  BY <1>2
<1>4. new.by = s /\ new.run = r /\ new.approval = approval
  BY <1>3
<1>5. /\ heard[s].first # None /\ r = heard[s].first.run
      /\ r \in Runs /\ heard[s].first.approval \in Nat /\ approval \in Nat
  <2>1. heard[s].first # None /\ r = heard[s].first.run
    BY <1>1, <1>2 DEF Target
  <2>2. r \in Runs /\ heard[s].first.approval \in Nat
    BY <1>2, <2>1 DEF ViewInv, ReadOut
  <2> QED  BY <1>1, <2>1, <2>2 DEF DeskInv, DeskTypes, Records
<1>6. decisions \subseteq decisions' /\ decisions' \ decisions \subseteq {new}
  BY <1>2, <1>3
<1>7. \A t \in Sayings : stage'[t] # "unsaid" <=> stage[t] # "unsaid"
  BY <1>2
<1>8. \A q \in Runs, t \in Sayings : HeardOf(t, q)' => HeardOf(t, q) /\ heard'[t] = heard[t]
  BY <1>2, <1>7 DEF HeardOf
<1> HIDE DEF Target
<1>9. ASSUME NEW q \in Runs
      PROVE  AnsweredTwice(q)' \/ Steady(q)'
  <2>1. CASE AnsweredTwice(q)
    BY <1>6, <2>1, TwiceStays
  <2>2. CASE Steady(q) /\ q # r
    <3>1. \A t \in Sayings : DrivesRun(t, q)' => DrivesRun(t, q) /\ drive'[t] = drive[t]
      BY <1>2, <2>2 DEF DrivesRun
    <3>2. record'[q] = record[q]
      BY <1>2
    <3> QED  BY <1>6, <1>8, <2>2, <3>1, <3>2, SteadyStays
  <2>3. CASE Steady(q) /\ q = r
    <3>1. CASE \E t \in Sayings : DrivesRun(t, r)
      <4>1. PICK t \in Sayings : DrivesRun(t, r)
        BY <3>1
      <4>2. PICK d \in decisions : d.by = t /\ d.run = r /\ d.approval = record[r].approval
        BY <1>2, <2>3, <4>1 DEF Steady
      <4>3. t # s
        BY <1>2, <4>1 DEF DrivesRun
      <4>4. d \in decisions' /\ d # new /\ d.run = new.run /\ d.approval = new.approval
        BY <1>1, <1>4, <1>6, <4>2, <4>3
      <4>5. AnsweredTwice(new.run)'
        BY <4>4, TwoAnswers
      <4> QED  BY <1>4, <2>3, <4>5
    <3>2. CASE \A t \in Sayings : ~ DrivesRun(t, r)
      <4>1. \A t \in Sayings : DrivesRun(t, r)' => t = s
        BY <1>2, <3>2 DEF DrivesRun
      <4>2. \A t \in Sayings : HeardOf(t, r)' =>
              /\ record'[r].status \notin {"none", "running"}
              /\ heard'[t].first.approval <= record'[r].approval
        BY <1>2, <1>8, <2>3 DEF Steady
      <4>3. /\ drive'[s].from = record'[r] /\ record'[r].status = "awaiting"
            /\ new.by = s /\ new.run = r /\ new.approval = record'[r].approval
        BY <1>1, <1>2, <1>4
      <4> QED  BY <2>3, <4>1, <4>2, <4>3 DEF Steady
    <3> QED  BY <3>1, <3>2
  <2> QED  BY <2>1, <2>2, <2>3 DEF ViewInv, SteadyOrTwice
<1>10. ReadOut'
  BY <1>2, <1>7 DEF ViewInv, ReadOut
<1>11. InView(new)'
  <2>1. CASE AnsweredTwice(r)
    <3>1. AnsweredTwice(r)'
      BY <1>6, <2>1, TwiceStays
    <3> QED  BY <1>2, <1>4, <1>5, <3>1 DEF InView
  <2>2. CASE Steady(r)
    <3>1. HeardOf(s, r)
      BY <1>2, <1>5 DEF HeardOf
    <3>2. heard[s].first.approval <= record[r].approval
      BY <1>2, <2>2, <3>1 DEF Steady
    <3>3. new.approval >= heard'[s].first.approval
      BY <1>1, <1>2, <1>4, <1>5, <3>2
    <3> QED  BY <1>2, <1>4, <1>5, <3>3 DEF InView
  <2> QED  BY <1>5, <2>1, <2>2 DEF ViewInv, SteadyOrTwice
<1>12. AnswersTheRunInView'
  <2>1. \A t \in Sayings : heard'[t] = heard[t]
    BY <1>2
  <2>2. \A d \in decisions' \ decisions : d = new
    BY <1>6
  <2>3. \A d \in decisions' \ decisions : d.by # None => InView(d)'
    BY <1>11, <2>2
  <2> QED  BY <1>6, <2>1, <2>3, InViewStays DEF ViewInv
<1> QED  BY <1>9, <1>10, <1>12 DEF ViewInv, SteadyOrTwice

\* From a gate the graph goes on to a later one, if it waits again.
LEMMA OutcomeIsLater ==
  ASSUME NEW from \in Records, NEW decision,
         \/ from.gate = None /\ decision = None
         \/ from.gate \in Gates /\ decision \in Kinds,
         ~(from.gate = "review" /\ decision = "edit"),
         NEW outcome \in Bounded(Outcomes(from, decision))
  PROVE  /\ outcome.status \notin {"none", "running"}
         /\ outcome.status = "awaiting" /\ from.gate \in Gates => outcome.approval = from.approval + 1
<1>1. outcome \in Outcomes(from, decision)
  BY DEF Bounded
<1>2. CASE outcome = Finished(from, "failed")
  BY <1>2 DEF Finished, Records
<1>3. CASE from.gate = None /\ outcome # Finished(from, "failed")
  <2>1. outcome = Suspended("plan", 1)
    BY <1>1, <1>3, NoneIsNew DEF Outcomes, Gates, Kinds
  <2> QED  BY <2>1, <1>3, NoneIsNew DEF Suspended, Gates
<1>4. CASE from.gate = "plan" /\ outcome # Finished(from, "failed")
  <2>1. \/ outcome = Suspended("review", from.approval + 1)
        \/ outcome = Suspended("plan", from.approval + 1)
        \/ outcome = Finished(from, "rejected")
    BY <1>1, <1>4, NoneIsNew DEF Outcomes, Gates, Kinds
  <2> QED  BY <2>1 DEF Suspended, Finished
<1>5. CASE from.gate = "review" /\ outcome # Finished(from, "failed")
  <2>1. \/ outcome = Suspended("plan", from.approval + 1)
        \/ outcome = Finished(from, "rejected")
        \/ outcome = Finished(from, "incomplete")
        \/ outcome = Finished(from, "completed")
    BY <1>1, <1>5, NoneIsNew DEF Outcomes, Gates, Kinds
  <2> QED  BY <2>1 DEF Suspended, Finished
<1> QED  BY <1>2, <1>3, <1>4, <1>5 DEF Gates

\* Where nobody drives a run any more, and it waits for something later than it
\* did, it is steady.
LEMMA SteadyAfter ==
  ASSUME DeskInv, NEW r \in Runs, NEW outcome \in Records, NEW from \in Records, Steady(r),
         from = record[r], from.status \in {"running", "awaiting"},
         record'[r] = outcome, outcome.status \notin {"none", "running"},
         outcome.status = "awaiting" /\ from.gate \in Gates => outcome.approval = from.approval + 1,
         \A s \in Sayings : ~ DrivesRun(s, r)',
         \A s \in Sayings : HeardOf(s, r)' =>
             HeardOf(s, r) /\ heard'[s] = heard[s] /\ heard[s].first.approval \in Nat
  PROVE  Steady(r)'
<1>1. from.status = "awaiting" => from.gate \in Gates
  BY DEF DeskInv, Shown
<1>2. ASSUME NEW s \in Sayings, HeardOf(s, r)'
      PROVE  /\ record'[r].status \notin {"none", "running"}
             /\ record'[r].status = "awaiting" => heard'[s].first.approval <= record'[r].approval
  <2>1. HeardOf(s, r) /\ heard'[s] = heard[s] /\ heard[s].first.approval \in Nat
    BY <1>2
  <2>2. from.status = "awaiting" /\ heard[s].first.approval <= from.approval
    BY <2>1 DEF Steady
  <2>3. from.approval \in Nat
    BY DEF Records
  <2> QED  BY <1>1, <2>1, <2>2, <2>3
<1> QED  BY <1>2 DEF Steady

\* The drive that ends was the only one, and its record moves on.
LEMMA DriveEndsView ==
  ASSUME DeskInv, ViewInv, NEW s \in Sayings, DriveEnds(s)
  PROVE  ViewInv'
<1>1. PICK r, from, decision : r = drive[s].run /\ from = drive[s].from /\ decision = drive[s].decision
  OBVIOUS
<1>2. PICK outcome \in Bounded(Outcomes(from, decision)) : record' = [record EXCEPT ![r] = outcome]
  BY <1>1 DEF DriveEnds
<1>3. /\ stage[s] = "driving" /\ stage'[s] = "answered"
      /\ \A t \in Sayings : t # s => stage'[t] = stage[t] /\ drive'[t] = drive[t]
      /\ UNCHANGED <<heard, decisions>>
  BY DEF DriveEnds, DeskInv, DeskTypes
<1>4. \A q \in Runs : q # r => record'[q] = record[q]
  BY <1>2 DEF DeskInv, DeskTypes
<1>5. \A t \in Sayings : stage'[t] # "unsaid" <=> stage[t] # "unsaid"
  BY <1>3
<1>6. \A q \in Runs, t \in Sayings : HeardOf(t, q)' => HeardOf(t, q) /\ heard'[t] = heard[t]
  BY <1>3, <1>5 DEF HeardOf
<1>7. \A q \in Runs, t \in Sayings : DrivesRun(t, q)' => DrivesRun(t, q) /\ drive'[t] = drive[t] /\ t # s
  BY <1>3 DEF DrivesRun
<1>8. ASSUME NEW q \in Runs
      PROVE  AnsweredTwice(q)' \/ Steady(q)'
  <2>1. CASE AnsweredTwice(q)
    BY <1>3, <2>1, TwiceStays
  <2>2. CASE Steady(q) /\ q # r
    BY <1>3, <1>4, <1>6, <1>7, <2>2, SteadyStays
  <2>3. CASE Steady(q) /\ q = r
    <3>1. DrivesRun(s, r)
      BY <1>1, <1>3 DEF DrivesRun
    <3>2. from = record[r] /\ from.status \in {"running", "awaiting"}
      BY <1>1, <2>3, <3>1 DEF Steady
    <3>3. /\ from \in Records /\ Carries(drive[s])
      BY <1>1, <1>3, <1>8, <2>3 DEF DeskInv, Driving
    <3>4. /\ \/ from.gate = None /\ decision = None
             \/ from.gate \in Gates /\ decision \in Kinds
          /\ ~(from.gate = "review" /\ decision = "edit")
      BY <1>1, <3>3, NoneIsNew DEF DeskInv, Voices, Carries, Decided
    <3>5. /\ outcome \in Records /\ outcome.status \notin {"none", "running"}
          /\ outcome.status = "awaiting" /\ from.gate \in Gates => outcome.approval = from.approval + 1
      BY <3>3, <3>4, OutcomeOf, OutcomeIsLater
    <3>6. record'[r] = outcome
      BY <1>2, <1>8, <2>3 DEF DeskInv, DeskTypes
    <3>7. \A t \in Sayings : ~ DrivesRun(t, r)'
      BY <1>7, <1>8, <2>3, <3>1 DEF Steady
    <3>8. \A t \in Sayings : HeardOf(t, r)' =>
             HeardOf(t, r) /\ heard'[t] = heard[t] /\ heard[t].first.approval \in Nat
      BY <1>6, <1>8, <2>3 DEF ViewInv, ReadOut, HeardOf
    <3>9. Steady(r)'
      BY <1>8, <2>3, <3>2, <3>3, <3>5, <3>6, <3>7, <3>8, SteadyAfter
    <3> QED  BY <2>3, <3>9
  <2> QED  BY <2>1, <2>2, <2>3 DEF ViewInv, SteadyOrTwice
<1>9. ReadOut'
  BY <1>3, <1>5 DEF ViewInv, ReadOut
<1>10. AnswersTheRunInView'
  BY <1>3, InViewStays DEF ViewInv
<1> QED  BY <1>8, <1>9, <1>10 DEF ViewInv, SteadyOrTwice

\* An answer on the command line takes the run on; if the desk drives it, that
\* makes two.
LEMMA CliAnswersView ==
  ASSUME DeskInv, ViewInv, CliAnswers
  PROVE  ViewInv'
<1>1. PICK r, kind, outcome, from :
        /\ r \in Waiting /\ kind \in {"approve", "reject", "feedback"}
        /\ from = record[r]
        /\ outcome \in Bounded(Outcomes(from, kind))
        /\ decisions' = decisions \cup
              {[by |-> None, run |-> r, gate |-> from.gate, approval |-> from.approval, kind |-> kind]}
        /\ record' = [record EXCEPT ![r] = outcome]
  BY DEF CliAnswers
<1>2. UNCHANGED <<stage, heard, drive>>
  BY DEF CliAnswers
<1>3. /\ r \in Runs /\ from \in Records /\ from.status = "awaiting" /\ from.gate \in Gates
  BY <1>1 DEF DeskInv, DeskTypes, Shown, Waiting
<1>4. PICK new \in decisions' :
        new = [by |-> None, run |-> r, gate |-> from.gate, approval |-> from.approval, kind |-> kind]
  BY <1>1
<1>5. new.by = None /\ new.run = r /\ new.approval = from.approval
  BY <1>4
<1>6. decisions \subseteq decisions' /\ decisions' \ decisions \subseteq {new}
  BY <1>1, <1>4
<1>7. /\ record'[r] = outcome
      /\ \A q \in Runs : q # r => record'[q] = record[q]
  BY <1>1, <1>3 DEF DeskInv, DeskTypes
<1>8. /\ outcome \in Records /\ outcome.status \notin {"none", "running"}
      /\ outcome.status = "awaiting" /\ from.gate \in Gates => outcome.approval = from.approval + 1
  <2>1. kind \in Kinds /\ kind # "edit"
    BY <1>1 DEF Kinds
  <2> QED  BY <1>1, <1>3, <2>1, OutcomeOf, OutcomeIsLater
<1>9. \A q \in Runs, t \in Sayings : HeardOf(t, q)' => HeardOf(t, q) /\ heard'[t] = heard[t]
  BY <1>2 DEF HeardOf
<1>10. \A q \in Runs, t \in Sayings : DrivesRun(t, q)' => DrivesRun(t, q) /\ drive'[t] = drive[t]
  BY <1>2 DEF DrivesRun
<1>11. ASSUME NEW q \in Runs
       PROVE  AnsweredTwice(q)' \/ Steady(q)'
  <2>1. CASE AnsweredTwice(q)
    BY <1>6, <2>1, TwiceStays
  <2>2. CASE Steady(q) /\ q # r
    BY <1>6, <1>7, <1>9, <1>10, <2>2, SteadyStays
  <2>3. CASE Steady(q) /\ q = r
    <3>1. CASE \E t \in Sayings : DrivesRun(t, r)
      <4>1. PICK t \in Sayings : DrivesRun(t, r)
        BY <3>1
      <4>2. PICK d \in decisions : d.by = t /\ d.run = r /\ d.approval = from.approval
        BY <1>1, <1>3, <2>3, <4>1 DEF Steady
      <4>3. t # None
        BY NoneIsNew
      <4>4. d \in decisions' /\ d # new /\ d.run = new.run /\ d.approval = new.approval
        BY <1>5, <1>6, <4>2, <4>3
      <4>5. AnsweredTwice(new.run)'
        BY <4>4, TwoAnswers
      <4> QED  BY <1>5, <2>3, <4>5
    <3>2. CASE \A t \in Sayings : ~ DrivesRun(t, r)
      <4>1. \A t \in Sayings : ~ DrivesRun(t, r)'
        BY <1>3, <1>10, <3>2
      <4>2. \A t \in Sayings : HeardOf(t, r)' =>
               HeardOf(t, r) /\ heard'[t] = heard[t] /\ heard[t].first.approval \in Nat
        BY <1>3, <1>9 DEF ViewInv, ReadOut, HeardOf
      <4>3. Steady(r)'
        BY <1>1, <1>3, <1>7, <1>8, <2>3, <4>1, <4>2, SteadyAfter
      <4> QED  BY <2>3, <4>3
    <3> QED  BY <3>1, <3>2
  <2> QED  BY <2>1, <2>2, <2>3 DEF ViewInv, SteadyOrTwice
<1>12. ReadOut'
  BY <1>2 DEF ViewInv, ReadOut
<1>13. AnswersTheRunInView'
  <2>1. \A t \in Sayings : heard'[t] = heard[t]
    BY <1>2
  <2>2. \A d \in decisions' \ decisions : d = new
    BY <1>6
  <2>3. \A d \in decisions' \ decisions : d.by = None
    BY <1>5, <2>2
  <2> QED  BY <1>6, <2>1, <2>3, InViewStays DEF ViewInv
<1> QED  BY <1>11, <1>12, <1>13 DEF ViewInv, SteadyOrTwice

LEMMA NextView ==
  ASSUME DeskInv, ViewInv, [Next]_vars
  PROVE  ViewInv'
<1>1. CASE UNCHANGED vars
  BY <1>1, AloneView DEF vars
<1>2. CASE CliStarts
  BY <1>2, CliStartsView
<1>3. CASE CliAnswers
  BY <1>3, CliAnswersView
<1>4. ASSUME NEW s \in Sayings, Say(s) \/ Serve(s)
      PROVE  ViewInv'
  <2>1. CASE Say(s)
    BY <2>1, SayView
  <2>2. CASE Translate(s)
    BY <2>2, AloneView DEF Translate, DeskInv, DeskTypes
  <2>3. CASE Answer(s) \/ DeclineStart(s) \/ DeclineDecision(s)
    BY <2>3, AloneView DEF Answer, DeclineStart, DeclineDecision, Acting, Reply, DeskInv, DeskTypes
  <2>4. CASE Start(s)
    BY <2>4, StartView
  <2>5. CASE Decide(s)
    BY <2>5, DecideView
  <2>6. CASE DriveEnds(s)
    BY <2>6, DriveEndsView
  <2> QED  BY <1>4, <2>1, <2>2, <2>3, <2>4, <2>5, <2>6 DEF Serve
<1> QED  BY <1>1, <1>2, <1>3, <1>4 DEF Next

\* A decision reaches the run that was read out, and no gate it had left behind,
\* however many sentences, runs and commands there are: until two answers to one
\* gate overlap, one drive at a time works on a run, from what its record shows.
THEOREM TheRunInView == Spec => []AnswersTheRunInView
<1>1. Init => DeskInv /\ ViewInv
  BY InitInv, ViewInit
<1>2. DeskInv /\ ViewInv /\ [Next]_vars => (DeskInv /\ ViewInv)'
  BY NextInv, NextView
<1>3. ViewInv => AnswersTheRunInView
  BY DEF ViewInv
<1> QED  BY <1>1, <1>2, <1>3, PTL DEF Spec
=============================================================================
