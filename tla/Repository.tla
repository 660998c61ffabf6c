----------------------------- MODULE Repository -----------------------------
(***************************************************************************)
(* A git working copy and what LocalGitRepositoryInspector reads from it.  *)
(* A path is a sequence of segments; contents are compared, never looked   *)
(* into. `stamp` is the modification time of a file: the command of the    *)
(* run that wrote it last, 0 and below before the run. No two writes share *)
(* a millisecond and nobody sets a time back. An inspection is one step:   *)
(* that a writer may come between two of its git commands is left out.     *)
(***************************************************************************)
EXTENDS Integers, Sequences, FiniteSets

CONSTANTS Path, Sensitive, Content, Absent, None

ASSUME SensitiveIsPath == Sensitive \subseteq Path /\ IsFiniteSet(Path)
ASSUME AbsentIsNoContent == Absent \notin Content

\* The two columns of a porcelain record.
Codes == {" ", "?", "A", "D", "M", "R"} \X {" ", "?", "D", "M"}

ASSUME NoneIsNew == None \notin Content \cup Int \cup Codes \cup Path

Tree == [Path -> Content \cup {Absent}]
EmptyTree == [p \in Path |-> Absent]

\* hist: the commits HEAD descends from, oldest first; none when it is unborn.
Repo == [hist : Seq(Tree), branch : {"main", "side"}, index : Tree, work : Tree,
         stamp : [Path -> Int]]

TreeAt(repo, commit) == IF commit = 0 THEN EmptyTree ELSE repo.hist[commit]
HeadTree(repo) == TreeAt(repo, Len(repo.hist))

-----------------------------------------------------------------------------
(* What an agent, a check or a developer can do to it. *)

Write(repo, p, c, time) ==
    [repo EXCEPT !.work[p] = c, !.stamp[p] = IF c = Absent THEN 0 ELSE time]

Stage(repo, p) == [repo EXCEPT !.index[p] = repo.work[p]]

\* git checkout HEAD -- p
Restore(repo, p, time) == Write([repo EXCEPT !.index[p] = HeadTree(repo)[p]], p, HeadTree(repo)[p], time)

\* git mv p q: the file keeps its modification time.
Move(repo, p, q) ==
    [repo EXCEPT !.index[q] = repo.index[p], !.index[p] = Absent,
                 !.work[q] = repo.work[p], !.work[p] = Absent,
                 !.stamp[q] = repo.stamp[p], !.stamp[p] = 0]

Commit(repo) == [repo EXCEPT !.hist = Append(@, repo.index)]

Switch(repo) == [repo EXCEPT !.branch = IF @ = "main" THEN "side" ELSE "main"]

\* Everything the command at `time` can make of the repository.
Commands(repo, time) ==
    {Write(repo, p, c, time) : p \in Path, c \in Content \cup {Absent}}
      \cup {Stage(repo, p) : p \in Path}
      \cup {Restore(repo, p, time) : p \in {q \in Path : HeadTree(repo)[q] # Absent}}
      \cup {Move(repo, p, q) :
              p \in {s \in Path : repo.index[s] # Absent /\ repo.work[s] # Absent},
              q \in {t \in Path : repo.index[t] = Absent /\ repo.work[t] = Absent}}
      \cup (IF repo.index = HeadTree(repo) THEN {} ELSE {Commit(repo)})
      \cup {Switch(repo)}

-----------------------------------------------------------------------------
(* git status *)

\* Pairs every source with at most one target and every target with at most one
\* source, and leaves no pair of a free source and a free target out.
Matching(pairs) ==
    LET Injective(m) == \A x, y \in m : (x[1] = y[1]) <=> (x[2] = y[2])
    IN  CHOOSE m \in SUBSET pairs :
          /\ Injective(m)
          /\ \A z \in pairs \ m : ~Injective(m \cup {z})

StagedAway(repo) == {p \in Path : HeadTree(repo)[p] # Absent /\ repo.index[p] = Absent}
StagedNew(repo) == {p \in Path : HeadTree(repo)[p] = Absent /\ repo.index[p] # Absent}

\* A staged deletion and a staged addition of the same content are a rename.
Renames(repo) ==
    Matching({z \in StagedAway(repo) \X StagedNew(repo) : HeadTree(repo)[z[1]] = repo.index[z[2]]})

IndexColumn(repo, p) ==
    IF \E z \in Renames(repo) : z[2] = p THEN "R"
    ELSE IF p \in StagedNew(repo) THEN "A"
    ELSE IF p \in StagedAway(repo) /\ (\A z \in Renames(repo) : z[1] # p) THEN "D"
    ELSE IF p \notin StagedAway(repo) /\ HeadTree(repo)[p] # repo.index[p] THEN "M"
    ELSE " "

WorktreeColumn(repo, p) ==
    IF repo.index[p] \in {Absent, repo.work[p]} THEN " "
    ELSE IF repo.work[p] = Absent THEN "D" ELSE "M"

\* The porcelain code of p, None when p is not listed. A path that is listed
\* twice, deleted in the index and untracked, goes by its second record.
Code(repo, p) ==
    LET code == <<IndexColumn(repo, p), WorktreeColumn(repo, p)>>
    IN  IF repo.index[p] = Absent /\ repo.work[p] # Absent THEN <<"?", "?">>
        ELSE IF code = <<" ", " ">> THEN None
        ELSE code

Dirty(repo) == {p \in Path : Code(repo, p) # None}

-----------------------------------------------------------------------------
(* The inspector *)

\* The object HEAD has under the name of a file that is gone.
HeadBlob(repo, p) ==
    IF repo.work[p] = Absent /\ HeadTree(repo)[p] # Absent THEN HeadTree(repo)[p] ELSE None

\* A sensitive file's bytes are never hashed.
Fingerprint(repo, p) ==
    LET present == repo.work[p] # Absent
    IN  [present |-> present,
         hash |-> IF present /\ p \notin Sensitive THEN repo.work[p] ELSE None,
         mtime |-> repo.stamp[p]]

\* With what git has to say of each path, given its status code.
Fingerprints(repo, codes) ==
    [p \in DOMAIN codes |->
        LET print == Fingerprint(repo, p)
        IN  [present |-> print.present, hash |-> print.hash, mtime |-> print.mtime,
             headBlob |-> HeadBlob(repo, p),
             code |-> codes[p],
             renamedFrom |-> IF codes[p] # None /\ (\E z \in Renames(repo) : z[2] = p)
                             THEN (CHOOSE z \in Renames(repo) : z[2] = p)[1] ELSE None]]

Evidence(repo) ==
    [head |-> IF repo.hist = <<>> THEN None ELSE Len(repo.hist),
     branch |-> repo.branch,
     prints |-> Fingerprints(repo, [p \in Dirty(repo) |-> Code(repo, p)])]

\* Mutant: what left the status listing is of no interest.
FingerprintNoPaths(repo, paths) == Fingerprints(repo, [p \in {} |-> None])

\* Paths that left the status listing have no status code.
FingerprintPaths(repo, paths) == Fingerprints(repo, [p \in paths |-> None])

\* What a look returns.
FilePrints == [present : BOOLEAN, hash : Content \cup {None}, mtime : Int,
               headBlob : Content \cup {None}, code : Codes \cup {None},
               renamedFrom : Path \cup {None}]
Looks == [head : Nat \cup {None}, branch : {"main", "side"},
          prints : UNION {[S -> FilePrints] : S \in SUBSET Path}]

ASSUME NoneIsNoLook == None \notin Looks

CommitsSince(repo, base) == Len(repo.hist) - base

ChangedFilesSince(repo, base) == {p \in Path : TreeAt(repo, base)[p] # HeadTree(repo)[p]}
=============================================================================
