-------------------------------- MODULE Advice --------------------------------
(***************************************************************************)
(* The plan node asks what the project's earlier iterations say about a    *)
(* request: it pages through the record store for what matches, evaluates  *)
(* each match against the whole store again, page by page, and draws a     *)
(* posture from what came of it. Meanwhile the learn nodes of other runs   *)
(* file their records, files go bad, and the folder may refuse to be read. *)
(***************************************************************************)
EXTENDS History, Sequences

CONSTANTS
    Files,              \* record file names: a stamp and an id
    Corpora,            \* what the files may hold: [Files -> [run, iteration]]
    Query,              \* the terms of the request
    PageSize, MaxPages, MaxCandidates,              \* of one look at the store
    MaxRetrieved, MaxPresented, MaxTotalChars,      \* of one signal
    Filed,              \* the files there may be when the node starts
    MaxUnread,          \* bound: records a scan that stops early leaves out
    MaxEvents           \* bound: what the others do meanwhile

ASSUME FilesAreNamed ==
    /\ Files \subseteq [stamp : Nat, id : Nat] /\ None \notin Files
    /\ IsFiniteSet(Files)
    /\ \A f, g \in Files : f.id = g.id => f = g
ASSUME NoneIsNoReason == None \notin {"candidate_limit", "scan_incomplete", "page_limit"}
ASSUME CorporaAreLearned == Corpora \subseteq [Files -> [run : Nat, iteration : Iteration]]
ASSUME FiledAreFiles == Filed \subseteq SUBSET Files
ASSUME QueryIsTerms == Query \subseteq Terms
ASSUME LimitsAreCounts ==
    {PageSize, MaxPages, MaxCandidates, MaxRetrieved} \subseteq Nat \ {0}
ASSUME RoomIsCounted == {MaxPresented, MaxTotalChars, MaxUnread, MaxEvents} \subseteq Nat

VARIABLES
    corpus,         \* the record each file holds once it is there, and the run it is of
    disk,           \* each file: absent, good or damaged
    folder,         \* whether it can be opened, whether it holds more than a scan reads
    events,         \* what the others did so far
    phase,          \* of the builder: retrieve, read, collect, done
    look,           \* the walk through the pages it is on
    found,          \* candidates that matched
    results,        \* those retrieval returns, best first; the head is the subject
    tally,          \* votes on the subject
    items,          \* what will be presented
    omitted,        \* how many candidates were not, by reason
    coverage,       \* what retrieval says of itself: how many it returns, whether it stopped early
    signal,
    seenBefore,     \* history: files good since the walk began
    missed,         \* history: files a walk said it had seen and had not
    blind,          \* history: the folder refused to be read
    judged          \* history: the candidates that were evaluated and what was found

store == <<corpus, disk, folder, events>>
vars == <<store, phase, look, found, results, tally, items, omitted, coverage, signal,
          seenBefore, missed, blind, judged>>

Rec(f) == corpus[f].record

Good == {f \in Files : disk[f] = "good"}

-----------------------------------------------------------------------------
(* The store *)

\* Newest first, then by id.
Before(f, g) == f.stamp > g.stamp \/ (f.stamp = g.stamp /\ f.id < g.id)

First(n, S) == {f \in S : Cardinality({g \in S : Before(g, f)}) < n}

\* A folder with more entries than a scan reads shows any of them.
Scans ==
    LET there == {f \in Files : disk[f] # "absent"}
    IN  IF folder.crowded
        THEN {names \in SUBSET there : Cardinality(there \ names) <= MaxUnread}
        ELSE {there}

\* Mutant: the cursor compares stamps only.
PastStamp(cursor, names) == {f \in names : cursor = None \/ cursor.stamp > f.stamp}

\* Mutant: the cursor's own file is past the cursor.
PastOrAt(cursor, names) == {f \in names : cursor = None \/ ~Before(f, cursor)}

Past(cursor, names) == {f \in names : cursor = None \/ Before(cursor, f)}

\* Opened one by one until size good ones are in; a bad one never ends the page. The
\* byte ceiling, which may end it sooner, is found at the good one that is too many.
Page(cursor, names, size) ==
    LET ordered == Past(cursor, names)
        GoodBefore(f) == Cardinality({g \in ordered \cap Good : Before(g, f)})
        consumed == {f \in ordered :
                        \/ GoodBefore(f) < size
                        \/ size < PageSize /\ f \notin Good /\ GoodBefore(f) = size}
        last == {f \in consumed : \A g \in consumed : ~Before(f, g)}
    IN  [records |-> consumed \cap Good,
         bounded |-> folder.crowded,
         nextCursor |-> IF consumed = ordered THEN None ELSE CHOOSE f \in last : TRUE]

NoPage == [records |-> {}, bounded |-> FALSE, nextCursor |-> None]

\* A folder that cannot be opened lists as an empty one.
Pages(cursor) ==
    IF folder.opens
    THEN {Page(cursor, names, size) : names \in Scans, size \in 1 .. PageSize}
    ELSE {NoPage}

-----------------------------------------------------------------------------
(* A walk through the pages, as retrieval and evaluation both take it *)

NoLook == [cursor |-> None, pages |-> 0, examined |-> 0, seen |-> {}, over |-> FALSE,
           stopped |-> None]

Taken(page) == First(MaxCandidates - look.examined, page.records)

Turn(page) ==
    LET stopped == IF Cardinality(page.records) > MaxCandidates - look.examined
                   THEN "candidate_limit"
                   ELSE IF page.bounded THEN "scan_incomplete"
                   ELSE IF page.nextCursor = None THEN None
                   ELSE IF look.pages + 1 = MaxPages THEN "page_limit" ELSE None
    IN  [cursor |-> page.nextCursor, pages |-> look.pages + 1,
         examined |-> look.examined + Cardinality(Taken(page)),
         seen |-> look.seen \cup Taken(page),
         over |-> stopped # None \/ page.nextCursor = None,
         stopped |-> stopped]

\* What history keeps of a page.
Witnessed(turned) ==
    /\ blind' = (blind \/ ~folder.opens)
    /\ missed' = IF turned.over /\ turned.stopped = None
                 THEN missed \cup (seenBefore \ turned.seen) ELSE missed

-----------------------------------------------------------------------------
(* Retrieval *)

Matches(records) ==
    {c \in {[file |-> f, score |-> Score(Rec(f), Query)] : f \in records} : c.score > 0}

Better(c, d) == c.score > d.score \/ (c.score = d.score /\ Before(c.file, d.file))

\* The best of them in their order, as many as were asked for.
Ranked(candidates) ==
    LET n == Cardinality(candidates)
        ByPlace == [i \in 1 .. n |->
            (CHOOSE c \in candidates :
                Cardinality({d \in candidates : Better(d, c)}) = i - 1).file]
    IN  SubSeq(ByPlace, 1, IF n < MaxRetrieved THEN n ELSE MaxRetrieved)

RetrievePage ==
    /\ phase = "retrieve"
    /\ \E page \in Pages(look.cursor) :
         LET turned == Turn(page)
             matches == found \cup Matches(Taken(page))
         IN  /\ found' = matches
             /\ Witnessed(turned)
             /\ IF ~turned.over
                THEN /\ look' = turned
                     /\ UNCHANGED <<phase, results, coverage, signal, seenBefore>>
                ELSE /\ look' = NoLook
                     /\ results' = Ranked(matches)
                     /\ phase' = IF matches = {} THEN "done" ELSE "read"
                     /\ signal' = IF matches = {} THEN Nothing(turned.stopped # None)
                                  ELSE signal
                     /\ coverage' = [retrieved |-> Len(Ranked(matches)),
                                     bounded |-> turned.stopped # None]
                     /\ seenBefore' = {}
    /\ UNCHANGED <<store, tally, items, omitted, judged>>

-----------------------------------------------------------------------------
(* Evaluation of the candidates, one after another *)

subject == Head(results)

NoVotes == [supporting |-> 0, contradicting |-> 0, neutral |-> 0, inadmissible |-> 0]

Omit(reason) == [omitted EXCEPT ![reason] = @ + 1]

Present(itemsNow, omittedNow) ==
    [kind |-> "present", items |-> itemsNow, retrieved |-> coverage.retrieved,
     omitted |-> omittedNow, retrievalBounded |-> coverage.bounded]

\* On to the next candidate, or the signal is built. As many are evaluated as were
\* retrieved: the two limits are one number.
OnWith(itemsNow, omittedNow) ==
    /\ items' = itemsNow
    /\ omitted' = omittedNow
    /\ results' = Tail(results)
    /\ look' = NoLook
    /\ tally' = NoVotes
    /\ seenBefore' = {}
    /\ IF Tail(results) = <<>>
       THEN /\ phase' = "done"
            /\ signal' = Present(itemsNow, omittedNow)
       ELSE /\ phase' = "read"
            /\ UNCHANGED signal

\* A folder that cannot be opened makes a defect of the subject like a damaged file.
SubjectIsRefused ==
    /\ phase = "read"
    /\ ~folder.opens \/ subject \notin Good
    /\ OnWith(items, Omit("evaluation_failed"))
    /\ blind' = (blind \/ ~folder.opens)
    /\ UNCHANGED <<store, found, coverage, missed, judged>>

\* A scan that stopped early did not come across it: that much is admitted.
SubjectIsNotFound ==
    /\ phase = "read"
    /\ folder.opens
    /\ \E names \in Scans : subject \notin names
    /\ phase' = "done"
    /\ signal' = Unavailable("storage_failed")
    /\ results' = <<>>
    /\ UNCHANGED <<store, look, found, tally, items, omitted, coverage,
                   seenBefore, missed, blind, judged>>

ReadSubject ==
    /\ phase = "read"
    /\ folder.opens /\ subject \in Good
    /\ phase' = "collect"
    /\ seenBefore' = Good
    /\ UNCHANGED <<store, look, found, results, tally, items, omitted, coverage, signal,
                   missed, blind, judged>>

\* Mutant: the subject counts for itself.
CohortWithSubject(page) == {f \in Taken(page) : Comparable(Rec(f), Rec(subject))}

\* The records of a page that are about the same kind of task, and not the subject.
Cohort(page) == {f \in Taken(page) \ {subject} : Comparable(Rec(f), Rec(subject))}

Votes(page) ==
    [r \in DOMAIN NoVotes |->
        tally[r] + Cardinality({f \in Cohort(page) :
                                    Relate(Rec(f), ApproachesOf(Rec(subject))) = r})]

Item(votes, complete) ==
    LET confidence == Assess(votes.supporting, votes.contradicting, complete)
    IN  [experienceId |-> subject, patternKey |-> RecurrenceKey(Rec(subject)),
         status |-> StatusFor(confidence), confidence |-> confidence,
         supporting |-> votes.supporting, contradicting |-> votes.contradicting,
         inadmissible |-> votes.inadmissible, evaluationBounded |-> ~complete]

\* The length of an item, in units of its optional sentences.
Chars(item) ==
    4 + (IF item.inadmissible > 0 THEN 1 ELSE 0) + (IF item.evaluationBounded THEN 1 ELSE 0)

CharsOf(S) == MapThenSumSet(Chars, S)

\* Why an evaluated candidate is not presented, or None.
WhyNot(item) ==
    IF item.confidence = None THEN "insufficient_evidence"
    ELSE IF Cardinality(items) >= MaxPresented THEN "presentation_limit"
    ELSE IF CharsOf(items) + Chars(item) > MaxTotalChars THEN "size_limit"
    ELSE IF \E other \in items : Rendered(other) = Rendered(item) THEN "duplicate"
    ELSE None

CollectPage ==
    /\ phase = "collect"
    /\ \E page \in Pages(look.cursor) :
         LET turned == Turn(page)
             votes == Votes(page)
             item == Item(votes, turned.stopped = None)
             why == WhyNot(item)
         IN  /\ Witnessed(turned)
             /\ IF ~turned.over
                THEN /\ look' = turned
                     /\ tally' = votes
                     /\ UNCHANGED <<phase, results, items, omitted, signal, seenBefore,
                                    judged>>
                ELSE /\ judged' = judged \cup {item}
                     /\ IF why = None
                        THEN OnWith(items \cup {item}, omitted)
                        ELSE OnWith(items, Omit(why))
    /\ UNCHANGED <<store, found, coverage>>

-----------------------------------------------------------------------------
(* The others *)

\* The learn node of another run, or of the same iteration once more: a process
\* killed before its checkpoint writes again when it is resumed, under a later stamp.
Learn(f) ==
    /\ disk[f] = "absent"
    /\ folder.opens
    /\ disk' = [disk EXCEPT ![f] = "good"]
    /\ events' = events + 1
    /\ UNCHANGED <<corpus, folder, seenBefore>>

Damage(f) ==
    /\ disk[f] = "good"
    /\ disk' = [disk EXCEPT ![f] = "damaged"]
    /\ seenBefore' = seenBefore \ {f}
    /\ events' = events + 1
    /\ UNCHANGED <<corpus, folder>>

Shut ==
    /\ folder' = [folder EXCEPT !.opens = ~@]
    /\ events' = events + 1
    /\ UNCHANGED <<corpus, disk, seenBefore>>

Others ==
    /\ phase # "done"
    /\ events < MaxEvents
    /\ (\E f \in Files : Learn(f) \/ Damage(f)) \/ Shut
    /\ UNCHANGED <<phase, look, found, results, tally, items, omitted, coverage, signal,
                   missed, blind, judged>>

Init ==
    /\ \E c \in Corpora : corpus = [f \in Files |-> [run |-> c[f].run, record |-> Learned(c[f].iteration)]]
    /\ \E there \in Filed : disk = [f \in Files |-> IF f \in there THEN "good" ELSE "absent"]
    /\ folder \in [opens : {TRUE}, crowded : BOOLEAN]
    /\ events = 0
    /\ phase = "retrieve"
    /\ look = NoLook
    /\ found = {}
    /\ results = <<>>
    /\ tally = NoVotes
    /\ items = {}
    /\ omitted = [r \in OmissionReason |-> 0]
    /\ coverage = [retrieved |-> 0, bounded |-> FALSE]
    /\ signal = None
    /\ seenBefore = Good
    /\ missed = {}
    /\ blind = FALSE
    /\ judged = {}

Builder ==
    \/ RetrievePage
    \/ SubjectIsRefused
    \/ SubjectIsNotFound
    \/ ReadSubject
    \/ CollectPage

Next == Builder \/ Others

Spec == Init /\ [][Next]_vars

-----------------------------------------------------------------------------
(* Properties *)

\* Paging neither skips nor stops short unawares: a walk that says it saw the
\* whole history saw every record that was there, undamaged, from its start to its
\* end - whatever was filed or went bad between two pages - unless the folder
\* could not be opened (list, experienceStore.ts; the walks of retrieve, evaluate).
CompleteLooksSawEverything == ~blind => missed = {}

\* No record is examined, and so none counted, twice in a walk (the cursor of list).
NothingIsReadTwice == look.examined = Cardinality(look.seen)

\* An approach is presented as supported only if at least three other records of
\* the same kind of task, each backed by something other than the agent's word,
\* reported it worked, and every page was looked at: neither repetition of claims
\* nor the record itself nor a partial look carries it over the threshold.
Backers(item) ==
    LET r == Rec(item.experienceId)
    IN  {f \in Files \ {item.experienceId} :
            /\ disk[f] # "absent"
            /\ Rec(f).taskType = r.taskType
            /\ Rec(f).successfulPatterns \cap ApproachesOf(r) # {}
            /\ Rec(f).sources \cap INDEPENDENT_SOURCES # {}}

SupportedIsEarned ==
    \A item \in judged :
        item.status = "supported" => Cardinality(Backers(item)) >= 3 /\ ~item.evaluationBounded

\* A posture without a contradiction in it, and not said to be a partial look, hides
\* none: no candidate that was evaluated came out contradicted (boundsOf, strategy.ts).
Strategy == DeriveStrategy(signal)

PostureHidesNoContradiction ==
    phase = "done" =>
        (Strategy.kind = "proposal" /\ Strategy.posture = "established" /\ ~Strategy.bounded
            => \A item \in judged : item.status # "contradicted")

\* What a posture counts as support are runs: however often a learn node was
\* resumed after it had written, an iteration is one vote (outcomeRecorder.ts: "one
\* record per iteration").
VotesAreIterations ==
    \A item \in judged :
        item.status = "supported" => Cardinality({corpus[f].run : f \in Backers(item)}) >= 3

\* A proposal that is not said to be partial weighed every record that matched.
EveryMatchIsWeighed ==
    phase = "done" =>
        (Strategy.kind = "proposal" /\ ~Strategy.bounded
            => signal.retrieved = Cardinality(found))

\* History that could not be looked at is reported as that (build, historicalSignal.ts).
BlindIsUnavailable == phase = "done" /\ blind => signal.kind = "unavailable"
================================================================================
