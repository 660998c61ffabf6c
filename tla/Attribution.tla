---------------------------- MODULE Attribution ----------------------------
(***************************************************************************)
(* What changed between two snapshots of a repository and whose it is, and *)
(* what that makes of a run: the pure part of verification.                *)
(***************************************************************************)
EXTENDS Repository

CONSTANT Scope      \* the approved scope: patterns, each a sequence of segments

-----------------------------------------------------------------------------
(* Scope *)

Traverses(segments) == \E i \in DOMAIN segments : segments[i] = ".."

SegmentMatches(pattern, segment) == pattern \in {"*", segment}

\* A pattern authorises the path it spells and everything beneath it; "**"
\* stands for any number of segments.
Authorises(pattern, path) ==
    LET match[i \in 1 .. Len(pattern) + 1, j \in 1 .. Len(path) + 1] ==
          IF i > Len(pattern) THEN TRUE
          ELSE IF pattern[i] = "**"
               THEN IF i = Len(pattern) THEN i = 1 \/ j <= Len(path)
                    ELSE \E k \in j .. Len(path) + 1 : match[i + 1, k]
          ELSE /\ j <= Len(path)
               /\ SegmentMatches(pattern[i], path[j])
               /\ match[i + 1, j + 1]
    IN  match[1, 1]

InScope(path) ==
    /\ ~Traverses(path)
    /\ \E pattern \in Scope : ~Traverses(pattern) /\ Authorises(pattern, path)

ScopeDrift(paths) == {p \in paths : ~InScope(p)}

-----------------------------------------------------------------------------
(* Attribution *)

\* By content when both sides were hashed, by modification time otherwise.
Differs(before, now) ==
    IF before.hash # None /\ now.hash # None
    THEN before.hash # now.hash
    ELSE before.mtime # now.mtime

\* A path without a fingerprint in the baseline was clean then.
KindOfClean(now, committed) ==
    IF ~now.present THEN "removed"
    ELSE IF now.code = <<"?", "?">> THEN "introduced"
    ELSE IF now.code # None /\ now.code[1] = "A" THEN "introduced"
    ELSE IF now.code # None \/ committed THEN "modified_during_run"
    ELSE "none"

\* Mutant: everything that is dirty was changed by the run.
KindByStatus(before, now, committed) == KindOfClean(now, committed)

KindOfDirty(before, now, committed) ==
    IF before.present /\ ~now.present THEN "removed"
    ELSE IF ~before.present /\ now.present THEN "introduced"
    ELSE IF committed THEN "modified_during_run"
    ELSE IF before.code # None /\ now.code = None THEN "restored"
    ELSE IF Differs(before, now) \/ before.code # now.code THEN "modified_during_run"
    ELSE IF before.code # None THEN "pre_existing"
    ELSE "none"

\* before and now are fingerprints by path; now covers what before does.
Kinds(before, now, committed) ==
    [p \in DOMAIN now |->
        IF p \in DOMAIN before
        THEN KindOfDirty(before[p], now[p], p \in committed)
        ELSE KindOfClean(now[p], p \in committed)]

\* A vanished file and a new one are one file that moved when git says so or
\* when the new one has the bytes the old one had.
Moves(before, now, kinds) ==
    LET Of(kind) == {p \in DOMAIN kinds : kinds[p] = kind}
        Had(p) == {IF p \in DOMAIN before THEN before[p].hash ELSE None}
                    \cup {IF now[p].headBlob # None \/ p \notin DOMAIN before
                          THEN now[p].headBlob ELSE before[p].hash}
        found == Matching({z \in Of("removed") \X Of("introduced") :
                             now[z[2]].hash \in Had(z[1]) \ {None}})
    IN  found \cup {<<now[q].renamedFrom, q>> :
                      q \in {p \in DOMAIN now : /\ now[p].renamedFrom # None
                                                /\ \A z \in found : z[2] # p}}

\* What the run answers for, and which of it moved.
Attribute(baseline, now, committed) ==
    IF baseline = None
    THEN [attributable |-> {p \in DOMAIN now : now[p].present \/ now[p].code # None},
          moves |-> {}]
    ELSE LET kinds == Kinds(baseline.prints, now, committed)
         IN  [attributable |-> {p \in DOMAIN now : kinds[p] \notin {"pre_existing", "none"}},
              moves |-> Moves(baseline.prints, now, kinds)]

-----------------------------------------------------------------------------
(* The verifier, looking at repo with the evidence of an earlier look *)

HeadOf(baseline) == IF baseline = None THEN None ELSE baseline.head

Committed(baseline, repo) ==
    IF HeadOf(baseline) # None /\ repo.hist # <<>>
    THEN ChangedFilesSince(repo, HeadOf(baseline)) ELSE {}

\* Mutant: the checked-out branch is not compared.
HeadMoved(baseline, after, repo) == HeadOf(baseline) # after.head

GitMoved(baseline, after, repo) ==
    \/ HeadOf(baseline) # after.head
    \/ baseline # None /\ baseline.branch # after.branch
    \/ /\ HeadOf(baseline) # None /\ after.head # None
       /\ CommitsSince(repo, HeadOf(baseline)) > 0

\* Everything dirty now, and what was dirty before or was committed since,
\* wherever it went.
Prints(baseline, after, repo) ==
    LET known == Committed(baseline, repo) \cup
                   (IF baseline = None THEN {} ELSE DOMAIN baseline.prints)
        missing == FingerprintPaths(repo, known \ DOMAIN after.prints)
    IN  [p \in DOMAIN after.prints \cup DOMAIN missing |->
            IF p \in DOMAIN missing THEN missing[p] ELSE after.prints[p]]

\* A sensitive name is enough, wherever it turns up.
SensitiveTouched(dirty, found, committed) ==
    Sensitive \cap (dirty \cup found.attributable \cup committed
                     \cup UNION {{z[1], z[2]} : z \in found.moves})

Verify(baseline, repo) ==
    LET after == Evidence(repo)
        committed == Committed(baseline, repo)
        found == Attribute(baseline, Prints(baseline, after, repo), committed)
    IN  [attributable |-> found.attributable,
         moves |-> found.moves,
         observed |-> DOMAIN after.prints,
         drift |-> ScopeDrift(found.attributable),
         sensitive |-> SensitiveTouched(DOMAIN after.prints, found, committed),
         gitMoved |-> GitMoved(baseline, after, repo),
         after |-> after]
=============================================================================
