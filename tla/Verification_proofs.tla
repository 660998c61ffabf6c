-------------------------- MODULE Verification_proofs --------------------------
(***************************************************************************)
(* Proofs about one verified iteration, for any working copies, scopes,    *)
(* check definitions and budgets, and any number of commands of the agent  *)
(* and of the checks.                                                      *)
(***************************************************************************)
EXTENDS VerificationProperties, FiniteSetTheorems, WellFoundedInduction, TLAPS

-----------------------------------------------------------------------------
(* What git status says of a path. *)

\* A matching pairs what it was given, one to one.
LEMMA MatchingPairs ==
  ASSUME NEW pairs, IsFiniteSet(pairs)
  PROVE  /\ Matching(pairs) \subseteq pairs
         /\ \A x, y \in Matching(pairs) : (x[1] = y[1]) <=> (x[2] = y[2])
<1> DEFINE Injective(m) == \A x, y \in m : (x[1] = y[1]) <=> (x[2] = y[2])
           Good(m) == /\ Injective(m)
                      /\ \A z \in pairs \ m : ~ Injective(m \cup {z})
           T == {pairs \ m : m \in {k \in SUBSET pairs : Injective(k)}}
<1>1. FiniteSubsetsOf(pairs) = SUBSET pairs
  BY FS_FiniteSubsetsOfFinite
<1>2. T \subseteq SUBSET pairs /\ T # {}
  <2>1. {} \in {k \in SUBSET pairs : Injective(k)}
    OBVIOUS
  <2> QED
    BY <2>1
<1>3. PICK U \in T : \A V \in T : <<V, U>> \notin StrictSubsetOrdering(pairs)
  <2> HIDE DEF T
  <2>1. IsWellFoundedOn(StrictSubsetOrdering(pairs), SUBSET pairs)
    BY <1>1, FS_StrictSubsetOrderingWellFounded
  <2> QED
    BY <1>2, <2>1, WFMin
<1>4. PICK m \in SUBSET pairs : Injective(m) /\ U = pairs \ m
  BY <1>3
<1>5. ASSUME NEW z \in pairs \ m, Injective(m \cup {z})
      PROVE  FALSE
  <2> DEFINE V == pairs \ (m \cup {z})
  <2>1. V \in T
    <3>1. m \cup {z} \in {k \in SUBSET pairs : Injective(k)}
      BY <1>5
    <3> QED
      BY <3>1
  <2>2. <<V, U>> \in StrictSubsetOrdering(pairs)
    <3>1. V \subseteq U /\ V # U /\ V \in SUBSET pairs /\ U \in SUBSET pairs
      BY <1>4, <1>5
    <3> QED
      BY <3>1 DEF StrictSubsetOrdering
  <2> QED
    BY <1>3, <2>1, <2>2
<1>6. \E k \in SUBSET pairs : Good(k)
  BY <1>4, <1>5
<1>7. Matching(pairs) = CHOOSE k \in SUBSET pairs : Good(k)
  BY DEF Matching
<1>8. Matching(pairs) \in SUBSET pairs /\ Good(Matching(pairs))
  <2> HIDE DEF Good
  <2> QED
    BY <1>6, <1>7
<1> QED
  BY <1>8

\* Git pairs what was staged away with what was staged new.
LEMMA RenamesPair ==
  ASSUME NEW r
  PROVE  /\ Renames(r) \subseteq StagedAway(r) \X StagedNew(r)
         /\ \A x, y \in Renames(r) : (x[1] = y[1]) <=> (x[2] = y[2])
<1> DEFINE pairs == {z \in StagedAway(r) \X StagedNew(r) :
                       HeadTree(r)[z[1]] = r.index[z[2]]}
<1>1. IsFiniteSet(StagedAway(r)) /\ IsFiniteSet(StagedNew(r))
  BY SensitiveIsPath, FS_Subset DEF StagedAway, StagedNew
<1>2. IsFiniteSet(pairs)
  BY <1>1, FS_Product, FS_Subset
<1>3. Renames(r) = Matching(pairs)
  BY DEF Renames
<1> HIDE DEF pairs
<1>4. /\ Renames(r) \subseteq pairs
      /\ \A x, y \in Renames(r) : (x[1] = y[1]) <=> (x[2] = y[2])
  BY <1>2, <1>3, MatchingPairs
<1> QED
  BY <1>4 DEF pairs

\* Two looks at a path nobody touched get the same code, renames apart.
LEMMA SameCode ==
  ASSUME NEW one, NEW other, NEW p \in Path, HeadTree(one) = HeadTree(other),
         one.work[p] = other.work[p], one.index[p] = other.index[p],
         p \notin OldNames(one, other) \cup NewNames(one, other)
  PROVE  Code(one, p) = Code(other, p)
<1>1. \A z \in Renames(one) \cup Renames(other) : z[1] # p /\ z[2] # p
  BY DEF OldNames, NewNames, Renaming
<1>2. IndexColumn(one, p) = IndexColumn(other, p)
  BY <1>1 DEF IndexColumn, StagedNew, StagedAway
<1>3. WorktreeColumn(one, p) = WorktreeColumn(other, p)
  BY DEF WorktreeColumn
<1> QED
  BY <1>2, <1>3 DEF Code

\* A path that is not listed, and was not renamed away, is as HEAD has it.
LEMMA UnlistedIsHead ==
  ASSUME NEW r, NEW p \in Path, Code(r, p) = None, \A z \in Renames(r) : z[1] # p
  PROVE  r.work[p] = HeadTree(r)[p]
<1>1. /\ IndexColumn(r, p) \in {" ", "A", "D", "M", "R"}
      /\ WorktreeColumn(r, p) \in {" ", "D", "M"}
  BY DEF IndexColumn, WorktreeColumn
<1>2. <<IndexColumn(r, p), WorktreeColumn(r, p)>> # None /\ <<"?", "?">> # None
  <2>1. <<IndexColumn(r, p), WorktreeColumn(r, p)>> \in Codes /\ <<"?", "?">> \in Codes
    BY <1>1 DEF Codes
  <2> QED
    BY <2>1, NoneIsNew
<1>3. /\ ~ (r.index[p] = Absent /\ r.work[p] # Absent)
      /\ <<IndexColumn(r, p), WorktreeColumn(r, p)>> = <<" ", " ">>
  BY <1>2 DEF Code
<1>4. IndexColumn(r, p) = " " /\ WorktreeColumn(r, p) = " "
  BY <1>3
<1>5. HeadTree(r)[p] = r.index[p]
  BY <1>4 DEF IndexColumn, StagedNew, StagedAway
<1>6. r.index[p] \in {Absent, r.work[p]}
  BY <1>4 DEF WorktreeColumn
<1> QED
  BY <1>3, <1>5, <1>6

-----------------------------------------------------------------------------
(* What a look finds, given an earlier one and the same history. *)

Kind(one, other, p) == Kinds(Evidence(one).prints, Prints(Evidence(one), Evidence(other), other), {})[p]

\* Without a commit nothing was committed.
LEMMA NothingCommitted ==
  ASSUME NEW one \in Repo, NEW other \in Repo, one.hist = other.hist, Evidence(one) # None
  PROVE  Committed(Evidence(one), other) = {}
<1>1. HeadOf(Evidence(one)) = IF one.hist = <<>> THEN None ELSE Len(one.hist)
  BY DEF HeadOf, Evidence
<1>2. CASE other.hist = <<>>
  BY <1>2 DEF Committed
<1>3. CASE other.hist # <<>>
  <2>1. HeadOf(Evidence(one)) = Len(other.hist)
    BY <1>1, <1>3
  <2>2. ChangedFilesSince(other, Len(other.hist)) = {}
    BY DEF ChangedFilesSince, HeadTree
  <2> QED
    BY <2>1, <2>2 DEF Committed
<1> QED
  BY <1>2, <1>3

\* The later look has a fingerprint of every path either look lists.
LEMMA PrintsCover ==
  ASSUME NEW one \in Repo, NEW other \in Repo, one.hist = other.hist, Evidence(one) # None
  PROVE  LET now == Prints(Evidence(one), Evidence(other), other)
         IN  /\ DOMAIN now = Dirty(one) \cup Dirty(other)
             /\ \A p \in DOMAIN now :
                  /\ now[p].present = (other.work[p] # Absent)
                  /\ now[p].hash = IF other.work[p] # Absent /\ p \notin Sensitive
                                   THEN other.work[p] ELSE None
                  /\ now[p].mtime = other.stamp[p]
                  /\ now[p].code = Code(other, p)
                  /\ now[p].renamedFrom =
                       IF Code(other, p) # None /\ (\E z \in Renames(other) : z[2] = p)
                       THEN (CHOOSE z \in Renames(other) : z[2] = p)[1] ELSE None
<1> DEFINE after == Evidence(other)
           known == Dirty(one)
           missing == FingerprintPaths(other, known \ DOMAIN after.prints)
           now == Prints(Evidence(one), after, other)
           F(p, code) == [present |-> Fingerprint(other, p).present,
                          hash |-> Fingerprint(other, p).hash,
                          mtime |-> Fingerprint(other, p).mtime,
                          headBlob |-> HeadBlob(other, p), code |-> code,
                          renamedFrom |-> IF code # None /\ (\E z \in Renames(other) : z[2] = p)
                                          THEN (CHOOSE z \in Renames(other) : z[2] = p)[1] ELSE None]
<1>1. /\ DOMAIN after.prints = Dirty(other)
      /\ \A p \in Dirty(other) : after.prints[p] = F(p, Code(other, p))
  BY DEF Evidence, Fingerprints
<1>2. /\ DOMAIN missing = Dirty(one) \ Dirty(other)
      /\ \A p \in DOMAIN missing : missing[p] = F(p, None)
  BY <1>1 DEF FingerprintPaths, Fingerprints
<1>3. DOMAIN Evidence(one).prints = Dirty(one)
  BY DEF Evidence, Fingerprints
<1>4. now = [p \in DOMAIN after.prints \cup DOMAIN missing |->
               IF p \in DOMAIN missing THEN missing[p] ELSE after.prints[p]]
  BY <1>3, NothingCommitted DEF Prints
<1>5. DOMAIN now = Dirty(one) \cup Dirty(other)
  BY <1>1, <1>2, <1>4
<1>6. ASSUME NEW p \in DOMAIN now
      PROVE  now[p] = F(p, Code(other, p))
  <2>1. CASE p \in DOMAIN missing
    <3>1. Code(other, p) = None
      BY <1>2, <2>1 DEF Dirty
    <3> QED
      BY <1>2, <1>4, <1>6, <2>1, <3>1
  <2>2. CASE p \notin DOMAIN missing
    <3>1. p \in Dirty(other)
      BY <1>2, <1>5, <2>2
    <3> QED
      BY <1>1, <1>4, <1>6, <2>2, <3>1
  <2> QED
    BY <2>1, <2>2
<1>7. ASSUME NEW p \in DOMAIN now
      PROVE  /\ now[p].present = (other.work[p] # Absent)
             /\ now[p].hash = IF other.work[p] # Absent /\ p \notin Sensitive
                              THEN other.work[p] ELSE None
             /\ now[p].mtime = other.stamp[p]
             /\ now[p].code = Code(other, p)
             /\ now[p].renamedFrom =
                  IF Code(other, p) # None /\ (\E z \in Renames(other) : z[2] = p)
                  THEN (CHOOSE z \in Renames(other) : z[2] = p)[1] ELSE None
  <2>1. PICK from : from = IF Code(other, p) # None /\ (\E z \in Renames(other) : z[2] = p)
                           THEN (CHOOSE z \in Renames(other) : z[2] = p)[1] ELSE None
    OBVIOUS
  <2>2. now[p] = [present |-> Fingerprint(other, p).present,
                  hash |-> Fingerprint(other, p).hash,
                  mtime |-> Fingerprint(other, p).mtime,
                  headBlob |-> HeadBlob(other, p), code |-> Code(other, p),
                  renamedFrom |-> from]
    BY <1>6, <1>7, <2>1
  <2>3. /\ now[p].present = Fingerprint(other, p).present
        /\ now[p].hash = Fingerprint(other, p).hash
        /\ now[p].mtime = Fingerprint(other, p).mtime
        /\ now[p].code = Code(other, p)
        /\ now[p].renamedFrom = from
    <3> HIDE DEF now
    <3> QED
      BY <2>2
  <2>4. /\ Fingerprint(other, p).present = (other.work[p] # Absent)
        /\ Fingerprint(other, p).hash = IF other.work[p] # Absent /\ p \notin Sensitive
                                        THEN other.work[p] ELSE None
        /\ Fingerprint(other, p).mtime = other.stamp[p]
    BY DEF Fingerprint
  <2> HIDE DEF now
  <2> QED
    BY <2>1, <2>3, <2>4
<1> QED
  <2> HIDE DEF now
  <2>1. now = Prints(Evidence(one), Evidence(other), other)
    BY DEF now
  <2> QED
    BY <1>5, <1>7, <2>1

\* A look is something.
LEMMA LookIsSome == \A r \in Repo : Evidence(r) # None
<1> SUFFICES ASSUME NEW r \in Repo
             PROVE  Evidence(r) \in Looks
  BY NoneIsNoLook
<1>1. HeadTree(r) \in Tree
  BY AbsentIsNoContent DEF HeadTree, TreeAt, EmptyTree, Tree, Repo
<1>2. ASSUME NEW p \in Dirty(r)
      PROVE  Evidence(r).prints[p] \in FilePrints
  <2>1. p \in Path /\ Code(r, p) \in Codes
    <3>1. <<IndexColumn(r, p), WorktreeColumn(r, p)>> \in Codes /\ <<"?", "?">> \in Codes
      BY DEF IndexColumn, WorktreeColumn, Codes
    <3> QED
      BY <1>2, <3>1 DEF Dirty, Code
  <2>2. HeadBlob(r, p) \in Content \cup {None}
    BY <1>1, <2>1 DEF HeadBlob, Tree
  <2>3. PICK print : print = Fingerprint(r, p)
    OBVIOUS
  <2>4. print.present \in BOOLEAN /\ print.hash \in Content \cup {None} /\ print.mtime \in Int
    BY <2>1, <2>3 DEF Fingerprint, Repo, Tree
  <2>5. PICK from : from = IF Code(r, p) # None /\ (\E z \in Renames(r) : z[2] = p)
                           THEN (CHOOSE z \in Renames(r) : z[2] = p)[1] ELSE None
    OBVIOUS
  <2>6. from \in Path \cup {None}
    <3>1. \A z \in Renames(r) : z[1] \in Path
      BY RenamesPair DEF StagedAway
    <3> QED
      BY <2>5, <3>1
  <2>7. Evidence(r).prints[p] =
          [present |-> print.present, hash |-> print.hash, mtime |-> print.mtime,
           headBlob |-> HeadBlob(r, p), code |-> Code(r, p), renamedFrom |-> from]
    BY <2>3, <2>5 DEF Evidence, Fingerprints
  <2> QED
    BY <2>1, <2>2, <2>4, <2>6, <2>7 DEF FilePrints
<1>3. Evidence(r).prints \in [Dirty(r) -> FilePrints]
  BY <1>2 DEF Evidence, Fingerprints
<1>4. Dirty(r) \in SUBSET Path
  BY DEF Dirty
<1>5. Len(r.hist) \in Nat /\ r.branch \in {"main", "side"}
  BY DEF Repo
<1> HIDE DEF Dirty
<1> QED
  BY <1>3, <1>4, <1>5 DEF Evidence, Looks

\* The earlier look has a fingerprint of every path it lists.
LEMMA EvidencePrints ==
  ASSUME NEW r
  PROVE  /\ DOMAIN Evidence(r).prints = Dirty(r)
         /\ \A p \in Dirty(r) :
              /\ Evidence(r).prints[p].present = (r.work[p] # Absent)
              /\ Evidence(r).prints[p].hash = IF r.work[p] # Absent /\ p \notin Sensitive
                                              THEN r.work[p] ELSE None
              /\ Evidence(r).prints[p].mtime = r.stamp[p]
              /\ Evidence(r).prints[p].code = Code(r, p)
  BY DEF Evidence, Fingerprints, Fingerprint

\* Of one path.
LEMMA PrintOf ==
  ASSUME NEW one \in Repo, NEW other \in Repo, one.hist = other.hist,
         NEW p \in Dirty(one) \cup Dirty(other)
  PROVE  LET now == Prints(Evidence(one), Evidence(other), other)[p]
         IN  /\ now.present = (other.work[p] # Absent)
             /\ now.hash = IF other.work[p] # Absent /\ p \notin Sensitive
                           THEN other.work[p] ELSE None
             /\ now.mtime = other.stamp[p]
             /\ now.code = Code(other, p)
<1> DEFINE now == Prints(Evidence(one), Evidence(other), other)
<1>1. p \in DOMAIN now
  BY LookIsSome, PrintsCover
<1> QED
  BY <1>1, LookIsSome, PrintsCover

\* What the run answers for, path by path.
LEMMA AttributableIs ==
  ASSUME NEW one \in Repo, NEW other \in Repo, one.hist = other.hist
  PROVE  LET before == Evidence(one).prints
             now == Prints(Evidence(one), Evidence(other), other)
         IN  Verify(Evidence(one), other).attributable =
               {p \in Dirty(one) \cup Dirty(other) :
                  (IF p \in Dirty(one) THEN KindOfDirty(before[p], now[p], FALSE)
                   ELSE KindOfClean(now[p], FALSE)) \notin {"pre_existing", "none"}}
<1> DEFINE before == Evidence(one).prints
           now == Prints(Evidence(one), Evidence(other), other)
<1>1. Evidence(one) # None
  BY LookIsSome
<1>2. DOMAIN now = Dirty(one) \cup Dirty(other) /\ DOMAIN before = Dirty(one)
  BY <1>1, PrintsCover, EvidencePrints
<1>3. Verify(Evidence(one), other).attributable = Attribute(Evidence(one), now, {}).attributable
  BY <1>1, NothingCommitted DEF Verify
<1>4. Attribute(Evidence(one), now, {}).attributable =
        {p \in DOMAIN now : Kinds(before, now, {})[p] \notin {"pre_existing", "none"}}
  BY <1>1 DEF Attribute
<1> HIDE DEF before, now
<1>5. \A p \in DOMAIN now : Kinds(before, now, {})[p] =
        IF p \in Dirty(one) THEN KindOfDirty(before[p], now[p], FALSE)
        ELSE KindOfClean(now[p], FALSE)
  <2> SUFFICES ASSUME NEW p \in DOMAIN now
               PROVE  Kinds(before, now, {})[p] =
                        IF p \in Dirty(one) THEN KindOfDirty(before[p], now[p], FALSE)
                        ELSE KindOfClean(now[p], FALSE)
    OBVIOUS
  <2>1. Kinds(before, now, {})[p] =
          IF p \in DOMAIN before THEN KindOfDirty(before[p], now[p], p \in {})
          ELSE KindOfClean(now[p], p \in {})
    BY DEF Kinds
  <2>2. /\ KindOfDirty(before[p], now[p], p \in {}) = KindOfDirty(before[p], now[p], FALSE)
        /\ KindOfClean(now[p], p \in {}) = KindOfClean(now[p], FALSE)
    BY DEF KindOfDirty, KindOfClean
  <2> QED
    BY <1>2, <2>1, <2>2
<1>6. Verify(Evidence(one), other).attributable =
        {p \in Dirty(one) \cup Dirty(other) :
           (IF p \in Dirty(one) THEN KindOfDirty(before[p], now[p], FALSE)
            ELSE KindOfClean(now[p], FALSE)) \notin {"pre_existing", "none"}}
  BY <1>2, <1>3, <1>4, <1>5
<1> QED
  BY <1>6 DEF before, now

\* Where a modification time is the same, the content is.
Agree(one, other) ==
    \A p, q \in Path : one.stamp[p] = other.stamp[q] =>
        one.work[p] = other.work[q] \/ Absent \in {one.work[p], other.work[q]}

\* A change shows: by git's word, by its bytes, or by its time.
LEMMA ChangeShows ==
  ASSUME NEW one \in Repo, NEW other \in Repo, one.hist = other.hist, Agree(one, other),
         NEW p \in Changed(one, other), p \notin OldNames(one, other)
  PROVE  p \in Verify(Evidence(one), other).attributable
<1> DEFINE before == Evidence(one).prints
           now == Prints(Evidence(one), Evidence(other), other)
<1>1. p \in Path /\ one.work[p] # other.work[p]
  BY DEF Changed
<1>2. HeadTree(one) = HeadTree(other)
  BY DEF HeadTree, TreeAt
<1>3. p \in Dirty(one) \cup Dirty(other)
  <2>1. \A z \in Renames(one) \cup Renames(other) : z[1] # p
    BY DEF OldNames, Renaming
  <2> QED
    BY <1>1, <1>2, <2>1, UnlistedIsHead DEF Dirty
<1>4. /\ now[p].present = (other.work[p] # Absent)
      /\ now[p].hash = IF other.work[p] # Absent /\ p \notin Sensitive
                       THEN other.work[p] ELSE None
      /\ now[p].mtime = other.stamp[p]
      /\ now[p].code = Code(other, p)
  <2>1. p \in DOMAIN now
    BY <1>3, LookIsSome, PrintsCover
  <2> QED
    BY <2>1, LookIsSome, PrintsCover
<1>5. p \in Dirty(one) =>
         /\ before[p].present = (one.work[p] # Absent)
         /\ before[p].hash = IF one.work[p] # Absent /\ p \notin Sensitive
                             THEN one.work[p] ELSE None
         /\ before[p].mtime = one.stamp[p]
         /\ before[p].code = Code(one, p)
  BY EvidencePrints
<1>6. Verify(Evidence(one), other).attributable =
        {q \in Dirty(one) \cup Dirty(other) :
           (IF q \in Dirty(one) THEN KindOfDirty(before[q], now[q], FALSE)
            ELSE KindOfClean(now[q], FALSE)) \notin {"pre_existing", "none"}}
  BY AttributableIs
<1> HIDE DEF before, now
<1>7. ASSUME p \in Dirty(one)
      PROVE  KindOfDirty(before[p], now[p], FALSE) \notin {"pre_existing", "none"}
  <2>1. before[p].code # None
    BY <1>5, <1>7 DEF Dirty
  <2>2. CASE ~ (before[p].present /\ now[p].present)
    BY <1>1, <1>4, <1>5, <1>7, <2>2 DEF KindOfDirty
  <2>3. CASE before[p].present /\ now[p].present
    <3>1. one.work[p] # Absent /\ other.work[p] # Absent
      BY <1>4, <1>5, <1>7, <2>3
    <3>2. one.stamp[p] # other.stamp[p]
      BY <1>1, <3>1 DEF Agree
    <3>3. Differs(before[p], now[p])
      <4>1. one.work[p] \in Content /\ other.work[p] \in Content
        BY <1>1, <3>1 DEF Repo, Tree
      <4> QED
        BY <1>1, <1>4, <1>5, <1>7, <3>1, <3>2, <4>1, NoneIsNew DEF Differs
    <3> QED
      BY <2>1, <2>3, <3>3 DEF KindOfDirty
  <2> QED
    BY <2>2, <2>3
<1>8. ASSUME p \notin Dirty(one)
      PROVE  KindOfClean(now[p], FALSE) \notin {"pre_existing", "none"}
  <2>1. now[p].code # None
    BY <1>1, <1>3, <1>4, <1>8 DEF Dirty
  <2> QED
    BY <2>1 DEF KindOfClean
<1> QED
  BY <1>3, <1>6, <1>7, <1>8

\* What nobody touched is put on nobody.
LEMMA RestIsLeft ==
  ASSUME NEW one \in Repo, NEW other \in Repo, SameHistory(one, other),
         NEW p \in Untouched(one, other),
         p \notin OldNames(one, other) \cup NewNames(one, other)
  PROVE  p \notin Verify(Evidence(one), other).attributable
<1> DEFINE before == Evidence(one).prints
           now == Prints(Evidence(one), Evidence(other), other)
<1>1. /\ p \in Path /\ one.work[p] = other.work[p] /\ one.index[p] = other.index[p]
      /\ one.stamp[p] = other.stamp[p] /\ one.hist = other.hist
  BY DEF Untouched, SameHistory
<1>2. HeadTree(one) = HeadTree(other)
  BY <1>1 DEF HeadTree, TreeAt
<1>3. Code(one, p) = Code(other, p)
  BY <1>1, <1>2, SameCode
<1> SUFFICES ASSUME p \in Dirty(one) \cup Dirty(other)
             PROVE  /\ p \in Dirty(one)
                    /\ KindOfDirty(before[p], now[p], FALSE) = "pre_existing"
  <2>1. Verify(Evidence(one), other).attributable =
          {q \in Dirty(one) \cup Dirty(other) :
             (IF q \in Dirty(one) THEN KindOfDirty(before[q], now[q], FALSE)
              ELSE KindOfClean(now[q], FALSE)) \notin {"pre_existing", "none"}}
    BY <1>1, AttributableIs
  <2> HIDE DEF before, now
  <2> QED
    BY <2>1
<1>4. p \in Dirty(one) /\ Code(one, p) # None
  BY <1>1, <1>3 DEF Dirty
<1>5. /\ now[p].present = (other.work[p] # Absent)
      /\ now[p].hash = IF other.work[p] # Absent /\ p \notin Sensitive
                       THEN other.work[p] ELSE None
      /\ now[p].mtime = other.stamp[p]
      /\ now[p].code = Code(other, p)
  BY <1>1, <1>4, PrintOf
<1>6. /\ before[p].present = (one.work[p] # Absent)
      /\ before[p].hash = IF one.work[p] # Absent /\ p \notin Sensitive
                          THEN one.work[p] ELSE None
      /\ before[p].mtime = one.stamp[p]
      /\ before[p].code = Code(one, p)
  BY <1>4, EvidencePrints
<1> HIDE DEF before, now
<1>7. /\ before[p].present = now[p].present /\ before[p].hash = now[p].hash
      /\ before[p].mtime = now[p].mtime /\ before[p].code = now[p].code /\ now[p].code # None
  BY <1>1, <1>3, <1>4, <1>5, <1>6
<1>8. ~ Differs(before[p], now[p])
  BY <1>7 DEF Differs
<1> QED
  BY <1>4, <1>5, <1>6, <1>7, <1>8, <1>1 DEF KindOfDirty

-----------------------------------------------------------------------------
(* Sensitive files. *)

\* What git says moved is among the moves, unless the content says otherwise.
LEMMA GitsMoves ==
  ASSUME NEW before, NEW now, NEW kinds, DOMAIN kinds = DOMAIN now, DOMAIN now \subseteq Path,
         NEW q \in DOMAIN now, kinds[q] # "introduced", now[q].renamedFrom # None
  PROVE  <<now[q].renamedFrom, q>> \in Moves(before, now, kinds)
<1> DEFINE Of(kind) == {p \in DOMAIN kinds : kinds[p] = kind}
           Had(p) == {IF p \in DOMAIN before THEN before[p].hash ELSE None}
                       \cup {IF now[p].headBlob # None \/ p \notin DOMAIN before
                             THEN now[p].headBlob ELSE before[p].hash}
           pairs == {z \in Of("removed") \X Of("introduced") :
                       now[z[2]].hash \in Had(z[1]) \ {None}}
           found == Matching(pairs)
<1>1. IsFiniteSet(Of("removed")) /\ IsFiniteSet(Of("introduced"))
  BY SensitiveIsPath, FS_Subset
<1>2. IsFiniteSet(pairs) /\ pairs \subseteq Of("removed") \X Of("introduced")
  <2> HIDE DEF Of, Had
  <2> QED
    BY <1>1, FS_Product, FS_Subset
<1>3. found \subseteq Of("removed") \X Of("introduced")
  <2> HIDE DEF pairs, Of
  <2> QED
    BY <1>2, MatchingPairs
<1>4. \A z \in found : z[2] # q
  <2> HIDE DEF found
  <2> QED
    BY <1>3
<1>5. Moves(before, now, kinds) =
        found \cup {<<now[p].renamedFrom, p>> :
                      p \in {d \in DOMAIN now : /\ now[d].renamedFrom # None
                                                /\ \A z \in found : z[2] # d}}
  BY DEF Moves
<1> HIDE DEF found
<1> QED
  BY <1>4, <1>5

\* Nothing renamed in the index, and nothing staged that is gone from the disk.
Plain(r) ==
    /\ Renames(r) = {}
    /\ \A p \in Path : HeadTree(r)[p] = Absent /\ r.index[p] # Absent => r.work[p] # Absent

\* After a plain start no sensitive file changes unseen: not under a new name.
LEMMA SensitiveShows ==
  ASSUME NEW one \in Repo, NEW other \in Repo, one.hist = other.hist, Agree(one, other),
         Plain(one), NEW p \in Sensitive \cap Changed(one, other)
  PROVE  Verify(Evidence(one), other).sensitive # {}
<1> DEFINE before == Evidence(one).prints
           now == Prints(Evidence(one), Evidence(other), other)
           kinds == Kinds(before, now, {})
           verify == Verify(Evidence(one), other)
<1>0. Evidence(one) # None /\ p \in Path
  BY LookIsSome, SensitiveIsPath
<1>1. /\ verify.attributable \subseteq Dirty(one) \cup Dirty(other)
      /\ verify.moves = Moves(before, now, kinds)
      /\ verify.sensitive = Sensitive \cap
           (DOMAIN Evidence(other).prints \cup verify.attributable \cup {}
              \cup UNION {{z[1], z[2]} : z \in verify.moves})
  <2>1. verify.attributable \subseteq Dirty(one) \cup Dirty(other)
    BY AttributableIs
  <2>2. verify.moves = Moves(before, now, kinds)
    BY <1>0, NothingCommitted DEF Verify, Attribute
  <2>3. verify.sensitive = SensitiveTouched(DOMAIN Evidence(other).prints,
                                            Attribute(Evidence(one), now, {}), {})
    BY <1>0, NothingCommitted DEF Verify
  <2>4. /\ verify.attributable = Attribute(Evidence(one), now, {}).attributable
        /\ verify.moves = Attribute(Evidence(one), now, {}).moves
    BY <1>0, NothingCommitted DEF Verify
  <2> HIDE DEF verify, now, before, kinds
  <2> QED
    BY <2>1, <2>2, <2>3, <2>4 DEF SensitiveTouched
<1>2. CASE p \notin OldNames(one, other)
  <2>1. p \in verify.attributable
    BY <1>2, ChangeShows
  <2>2. verify.sensitive # {}
    <3> HIDE DEF verify, now, kinds, before
    <3> QED
      BY <1>1, <2>1
  <2> QED
    BY <2>2 DEF verify
<1>3. CASE p \in OldNames(one, other)
  <2>1. PICK z \in Renames(other) : z[1] = p
    BY <1>3 DEF OldNames, Renaming, Plain
  <2> DEFINE q == z[2]
  <2>2. q \in Path /\ HeadTree(other)[q] = Absent /\ other.index[q] # Absent
    BY <2>1, RenamesPair DEF StagedNew
  <2>3. (CHOOSE y \in Renames(other) : y[2] = q)[1] = p
    <3> HIDE DEF q
    <3>1. q = z[2]
      BY DEF q
    <3>2. PICK y : y = CHOOSE x \in Renames(other) : x[2] = q
      OBVIOUS
    <3>3. y \in Renames(other) /\ y[2] = q
      BY <2>1, <3>1, <3>2
    <3> QED
      BY <2>1, <3>1, <3>2, <3>3, RenamesPair
  <2> HIDE DEF q
  <2>4. Code(other, q) = <<"R", WorktreeColumn(other, q)>> /\ q \in Dirty(other)
    <3>1. IndexColumn(other, q) = "R"
      BY <2>1 DEF IndexColumn, q
    <3>2. Code(other, q) = <<"R", WorktreeColumn(other, q)>>
      BY <2>2, <3>1 DEF Code
    <3>3. WorktreeColumn(other, q) \in {" ", "D", "M"}
      BY DEF WorktreeColumn
    <3>4. <<"R", WorktreeColumn(other, q)>> \in Codes
      BY <3>3 DEF Codes
    <3>5. Code(other, q) # None
      BY <3>2, <3>4, NoneIsNew
    <3> QED
      BY <2>2, <3>2, <3>5 DEF Dirty
  <2>5. /\ now[q].present = (other.work[q] # Absent)
        /\ now[q].code = Code(other, q)
    BY <2>4, PrintOf
  <2>6. now[q].renamedFrom = p
    <3>1. q \in DOMAIN now /\ Code(other, q) # None
      BY <1>0, <2>4, PrintsCover DEF Dirty
    <3>2. now[q].renamedFrom = IF Code(other, q) # None /\ (\E x \in Renames(other) : x[2] = q)
                               THEN (CHOOSE x \in Renames(other) : x[2] = q)[1] ELSE None
      BY <1>0, <3>1, PrintsCover
    <3> HIDE DEF now
    <3>3. \E x \in Renames(other) : x[2] = q
      BY <2>1 DEF q
    <3> QED
      BY <2>3, <3>1, <3>2, <3>3
  <2>7. /\ DOMAIN kinds = DOMAIN now /\ DOMAIN now \subseteq Path /\ q \in DOMAIN now
        /\ kinds[q] = IF q \in Dirty(one) THEN KindOfDirty(before[q], now[q], q \in {})
                      ELSE KindOfClean(now[q], q \in {})
    <3>1. DOMAIN now = Dirty(one) \cup Dirty(other) /\ DOMAIN before = Dirty(one)
      BY <1>0, PrintsCover, EvidencePrints
    <3> HIDE DEF now, before
    <3> QED
      BY <2>4, <3>1 DEF Kinds, Dirty
  <2>8. kinds[q] # "introduced"
    <3>1. CASE q \in Dirty(one)
      <4>1. one.work[q] # Absent
        <5> SUFFICES ASSUME one.work[q] = Absent
                     PROVE  FALSE
          OBVIOUS
        <5>1. HeadTree(one)[q] = Absent
          BY <2>2 DEF HeadTree, TreeAt
        <5>2. one.index[q] = Absent
          BY <2>2, <5>1 DEF Plain
        <5>3. IndexColumn(one, q) = " " /\ WorktreeColumn(one, q) = " "
          BY <5>1, <5>2 DEF IndexColumn, WorktreeColumn, Plain, StagedNew, StagedAway
        <5>4. Code(one, q) = None
          BY <5>3 DEF Code
        <5> QED
          BY <3>1, <5>4 DEF Dirty
      <4>2. before[q].present
        BY <3>1, <4>1, EvidencePrints
      <4> HIDE DEF before, now, kinds
      <4> QED
        BY <2>7, <3>1, <4>2 DEF KindOfDirty
    <3>2. CASE q \notin Dirty(one)
      <4>1. now[q].code # <<"?", "?">> /\ now[q].code[1] = "R"
        <5> HIDE DEF now
        <5> QED
          BY <2>4, <2>5
      <4> HIDE DEF before, now, kinds
      <4> QED
        BY <2>7, <3>2, <4>1 DEF KindOfClean
    <3> QED
      BY <3>1, <3>2
  <2>9. p # None
    BY <1>0, NoneIsNew
  <2> HIDE DEF before, now, kinds, verify
  <2>10. <<p, q>> \in verify.moves
    BY <1>1, <2>6, <2>7, <2>8, <2>9, GitsMoves
  <2>11. p \in UNION {{y[1], y[2]} : y \in verify.moves}
    BY <2>10
  <2>12. verify.sensitive # {}
    BY <1>1, <2>11
  <2> QED
    BY <2>12 DEF verify
<1> QED
  BY <1>2, <1>3

-----------------------------------------------------------------------------
(* What a command does to the working copy. *)

Older(r, time) == \A p \in Path : r.stamp[p] <= time

Extends(one, other) ==
    /\ Len(one.hist) <= Len(other.hist)
    /\ \A i \in 1 .. Len(one.hist) : one.hist[i] = other.hist[i]

\* A file is one that was there, wherever it was, or the one written now.
Stems(r, s, time) ==
    \E c : \A p \in Path :
        \/ s.work[p] = Absent
        \/ s.stamp[p] = time /\ s.work[p] = c
        \/ \E q \in Path : s.stamp[p] = r.stamp[q] /\ s.work[p] = r.work[q]

Follows(r, s, time) ==
    /\ s \in Repo /\ Extends(r, s) /\ Stems(r, s, time)
    /\ \A p \in Path : s.stamp[p] \in {0, time} \cup {r.stamp[q] : q \in Path}

LEMMA WriteFollows ==
  ASSUME NEW r \in Repo, NEW p \in Path, NEW c \in Content \cup {Absent}, NEW time \in Nat
  PROVE  Follows(r, Write(r, p, c, time), time)
<1>1. PICK t : t = IF c = Absent THEN 0 ELSE time
  OBVIOUS
<1>2. PICK s : s = Write(r, p, c, time)
  OBVIOUS
<1>3. /\ s.hist = r.hist /\ s.branch = r.branch /\ s.index = r.index
      /\ s.work = [r.work EXCEPT ![p] = c] /\ s.stamp = [r.stamp EXCEPT ![p] = t]
      /\ s = [hist |-> s.hist, branch |-> s.branch, index |-> s.index, work |-> s.work,
              stamp |-> s.stamp]
  BY <1>1, <1>2 DEF Write, Repo
<1>4. t \in Int /\ t \in {0, time} /\ (c # Absent => t = time)
  BY <1>1
<1>5. s \in Repo
  BY <1>3, <1>4 DEF Repo, Tree
<1>6. Stems(r, s, time)
  <2>1. \A q \in Path : \/ s.work[q] = Absent
                        \/ s.stamp[q] = time /\ s.work[q] = c
                        \/ s.stamp[q] = r.stamp[q] /\ s.work[q] = r.work[q]
    BY <1>3, <1>4 DEF Repo, Tree
  <2> QED
    BY <2>1 DEF Stems
<1>7. \A q \in Path : s.stamp[q] \in {0, time} \cup {r.stamp[d] : d \in Path}
  BY <1>3, <1>4 DEF Repo, Tree
<1>8. Extends(r, s)
  BY <1>3 DEF Extends, Repo
<1> QED
  BY <1>2, <1>5, <1>6, <1>7, <1>8 DEF Follows

\* Staging and committing leave the files alone.
LEMMA QuietFollows ==
  ASSUME NEW r \in Repo, NEW s \in Repo, NEW time \in Nat,
         s.work = r.work, s.stamp = r.stamp, Extends(r, s)
  PROVE  Follows(r, s, time)
  BY DEF Follows, Stems

LEMMA IndexFollows ==
  ASSUME NEW r \in Repo, NEW p \in Path, NEW c \in Content \cup {Absent}
  PROVE  /\ [r EXCEPT !.index[p] = c] \in Repo
         /\ [r EXCEPT !.index[p] = c].work = r.work
         /\ [r EXCEPT !.index[p] = c].stamp = r.stamp
         /\ [r EXCEPT !.index[p] = c].hist = r.hist
  BY DEF Repo, Tree

LEMMA StageFollows ==
  ASSUME NEW r \in Repo, NEW p \in Path, NEW time \in Nat
  PROVE  Follows(r, Stage(r, p), time)
<1>1. PICK c : c = r.work[p]
  OBVIOUS
<1>2. c \in Content \cup {Absent} /\ Stage(r, p) = [r EXCEPT !.index[p] = c]
  BY <1>1 DEF Stage, Repo, Tree
<1>3. /\ Stage(r, p) \in Repo /\ Stage(r, p).work = r.work /\ Stage(r, p).stamp = r.stamp
      /\ Stage(r, p).hist = r.hist
  BY <1>2, IndexFollows
<1>4. Extends(r, Stage(r, p))
  BY <1>3 DEF Extends, Repo
<1> QED
  BY <1>3, <1>4, QuietFollows

LEMMA HeadIsTree == \A r \in Repo : HeadTree(r) \in Tree
  BY AbsentIsNoContent DEF HeadTree, TreeAt, EmptyTree, Tree, Repo

LEMMA RestoreFollows ==
  ASSUME NEW r \in Repo, NEW p \in Path, NEW time \in Nat
  PROVE  Follows(r, Restore(r, p, time), time)
<1>1. PICK c : c = HeadTree(r)[p]
  OBVIOUS
<1>2. c \in Content \cup {Absent}
  BY <1>1, HeadIsTree DEF Tree
<1>3. PICK s : s = [r EXCEPT !.index[p] = c]
  OBVIOUS
<1>4. s \in Repo /\ s.work = r.work /\ s.stamp = r.stamp /\ s.hist = r.hist
  BY <1>2, <1>3, IndexFollows
<1>5. Restore(r, p, time) = Write(s, p, c, time)
  BY <1>1, <1>3 DEF Restore
<1>6. PICK w : w = Write(s, p, c, time)
  OBVIOUS
<1>7. Follows(s, w, time)
  BY <1>2, <1>4, <1>6, WriteFollows
<1>8. Stems(r, w, time)
  <2>1. PICK x : \A d \in Path :
           \/ w.work[d] = Absent
           \/ w.stamp[d] = time /\ w.work[d] = x
           \/ \E q \in Path : w.stamp[d] = s.stamp[q] /\ w.work[d] = s.work[q]
    BY <1>7 DEF Follows, Stems
  <2> QED
    BY <1>4, <2>1 DEF Stems
<1>9. w \in Repo /\ Extends(r, w)
  BY <1>4, <1>7 DEF Follows, Extends
<1>10. \A d \in Path : w.stamp[d] \in {0, time} \cup {r.stamp[q] : q \in Path}
  BY <1>4, <1>7 DEF Follows
<1> QED
  BY <1>5, <1>6, <1>8, <1>9, <1>10 DEF Follows

LEMMA MoveFollows ==
  ASSUME NEW r \in Repo, NEW p \in Path, NEW q \in Path, NEW time \in Nat, p # q
  PROVE  Follows(r, Move(r, p, q), time)
<1>1. PICK s : s = Move(r, p, q)
  OBVIOUS
<1>2. /\ s.hist = r.hist /\ s.branch = r.branch
      /\ s.index = [[r.index EXCEPT ![q] = r.index[p]] EXCEPT ![p] = Absent]
      /\ s.work = [[r.work EXCEPT ![q] = r.work[p]] EXCEPT ![p] = Absent]
      /\ s.stamp = [[r.stamp EXCEPT ![q] = r.stamp[p]] EXCEPT ![p] = 0]
      /\ s = [hist |-> s.hist, branch |-> s.branch, index |-> s.index, work |-> s.work,
              stamp |-> s.stamp]
  BY <1>1 DEF Move, Repo
<1>3. s \in Repo
  <2>1. /\ r.index \in Tree /\ r.work \in Tree /\ r.stamp \in [Path -> Int]
        /\ r.hist \in Seq(Tree) /\ r.branch \in {"main", "side"}
    BY DEF Repo
  <2>2. \A f \in Tree : [[f EXCEPT ![q] = f[p]] EXCEPT ![p] = Absent] \in Tree
    BY DEF Tree
  <2>3. s.index \in Tree /\ s.work \in Tree
    BY <1>2, <2>1, <2>2
  <2>4. s.stamp \in [Path -> Int]
    BY <1>2, <2>1
  <2> QED
    BY <1>2, <2>1, <2>3, <2>4 DEF Repo
<1>4. \A d \in Path : \/ s.work[d] = Absent
                      \/ s.stamp[d] = r.stamp[d] /\ s.work[d] = r.work[d]
                      \/ s.stamp[d] = r.stamp[p] /\ s.work[d] = r.work[p]
  BY <1>2 DEF Repo, Tree
<1>5. Stems(r, s, time)
  BY <1>4 DEF Stems
<1>6. \A d \in Path : s.stamp[d] \in {0, time} \cup {r.stamp[e] : e \in Path}
  BY <1>2 DEF Repo, Tree
<1>7. Extends(r, s)
  BY <1>2 DEF Extends, Repo
<1> QED
  BY <1>1, <1>3, <1>5, <1>6, <1>7 DEF Follows

LEMMA CommitFollows ==
  ASSUME NEW r \in Repo, NEW time \in Nat
  PROVE  Follows(r, Commit(r), time)
<1>1. PICK s : s = Commit(r)
  OBVIOUS
<1>2. /\ s.hist = Append(r.hist, r.index) /\ s.work = r.work /\ s.stamp = r.stamp /\ s \in Repo
  <2>1. r.hist \in Seq(Tree) /\ r.index \in Tree
    BY DEF Repo
  <2>2. PICK h : h = Append(r.hist, r.index)
    OBVIOUS
  <2>3. h \in Seq(Tree)
    BY <2>1, <2>2
  <2>4. s = [r EXCEPT !.hist = h]
    BY <1>1, <2>2 DEF Commit
  <2> QED
    BY <2>2, <2>3, <2>4 DEF Repo
<1>3. Extends(r, s)
  BY <1>2 DEF Extends, Repo
<1> QED
  BY <1>1, <1>2, <1>3, QuietFollows

LEMMA SwitchFollows ==
  ASSUME NEW r \in Repo, NEW time \in Nat
  PROVE  Follows(r, Switch(r), time)
<1>1. PICK s : s = Switch(r)
  OBVIOUS
<1>2. s.hist = r.hist /\ s.work = r.work /\ s.stamp = r.stamp /\ s \in Repo
  BY <1>1 DEF Switch, Repo
<1>3. Extends(r, s)
  BY <1>2 DEF Extends, Repo
<1> QED
  BY <1>1, <1>2, <1>3, QuietFollows

LEMMA CommandsFollow ==
  ASSUME NEW r \in Repo, NEW time \in Nat, NEW s \in Commands(r, time)
  PROVE  Follows(r, s, time)
<1>1. CASE s \in {Write(r, p, c, time) : p \in Path, c \in Content \cup {Absent}}
  BY <1>1, WriteFollows
<1>2. CASE s \in {Stage(r, p) : p \in Path}
  BY <1>2, StageFollows
<1>3. CASE s \in {Restore(r, p, time) : p \in {q \in Path : HeadTree(r)[q] # Absent}}
  BY <1>3, RestoreFollows
<1>4. CASE s \in {Move(r, p, q) : p \in {d \in Path : r.index[d] # Absent /\ r.work[d] # Absent},
                                  q \in {t \in Path : r.index[t] = Absent /\ r.work[t] = Absent}}
  BY <1>4, MoveFollows
<1>5. CASE s = Commit(r)
  BY <1>5, CommitFollows
<1>6. CASE s = Switch(r)
  BY <1>6, SwitchFollows
<1> QED
  BY <1>1, <1>2, <1>3, <1>4, <1>5, <1>6 DEF Commands

Since(one, other) == one \in Repo /\ other \in Repo /\ Extends(one, other) /\ Agree(one, other)

\* What was seen before a command still explains what is there after it.
LEMMA SinceKept ==
  ASSUME NEW r \in Repo, NEW time \in Nat, Older(r, time), Agree(r, r),
         NEW s \in Commands(r, time + 1)
  PROVE  /\ s \in Repo /\ Older(s, time + 1) /\ Agree(s, s)
         /\ \A one : Since(one, r) /\ Older(one, time) => Since(one, s)
<1>1. Follows(r, s, time + 1)
  BY CommandsFollow
<1>2. /\ s \in Repo /\ Extends(r, s) /\ \A p \in Path : s.stamp[p] \in Int /\ r.stamp[p] \in Int
      /\ \A p \in Path : s.stamp[p] \in {0, time + 1} \cup {r.stamp[q] : q \in Path}
  BY <1>1 DEF Follows, Repo
<1>3. Older(s, time + 1)
  <2> SUFFICES ASSUME NEW p \in Path
               PROVE  s.stamp[p] <= time + 1
    BY DEF Older
  <2>1. CASE s.stamp[p] \in {0, time + 1}
    BY <2>1
  <2>2. CASE \E q \in Path : s.stamp[p] = r.stamp[q]
    BY <1>2, <2>2 DEF Older
  <2> QED
    BY <1>2, <2>1, <2>2
<1>4. PICK c : \A p \in Path :
         \/ s.work[p] = Absent
         \/ s.stamp[p] = time + 1 /\ s.work[p] = c
         \/ \E q \in Path : s.stamp[p] = r.stamp[q] /\ s.work[p] = r.work[q]
  BY <1>1 DEF Follows, Stems
<1>5. ASSUME NEW one, Since(one, r), Older(one, time)
      PROVE  Since(one, s)
  <2>1. Extends(one, s)
    BY <1>2, <1>5 DEF Extends, Since, Repo
  <2>2. ASSUME NEW p \in Path, NEW q \in Path, one.stamp[p] = s.stamp[q], s.work[q] # Absent
        PROVE  one.work[p] = s.work[q] \/ one.work[p] = Absent
    <3>1. s.stamp[q] # time + 1
      BY <1>2, <1>5, <2>2 DEF Older
    <3>2. PICK d \in Path : s.stamp[q] = r.stamp[d] /\ s.work[q] = r.work[d]
      BY <1>4, <2>2, <3>1
    <3> QED
      BY <1>5, <2>2, <3>2 DEF Since, Agree
  <2>3. Agree(one, s)
    BY <2>2 DEF Agree
  <2> QED
    BY <1>2, <1>5, <2>1, <2>3 DEF Since
<1>6. ASSUME NEW p \in Path, NEW q \in Path, s.stamp[p] = s.stamp[q],
             s.work[p] # Absent, s.work[q] # Absent
      PROVE  s.work[p] = s.work[q]
  <2>1. CASE s.stamp[p] = time + 1
    <3>1. \A d \in Path : r.stamp[d] # time + 1
      BY <1>2 DEF Older
    <3> QED
      BY <1>4, <1>6, <2>1, <3>1
  <2>2. CASE s.stamp[p] # time + 1
    <3>1. PICK d \in Path : s.stamp[p] = r.stamp[d] /\ s.work[p] = r.work[d]
      BY <1>4, <1>6, <2>2
    <3>2. PICK e \in Path : s.stamp[q] = r.stamp[e] /\ s.work[q] = r.work[e]
      BY <1>4, <1>6, <2>2
    <3> QED
      BY <1>6, <3>1, <3>2 DEF Agree
  <2> QED
    BY <2>1, <2>2
<1>7. Agree(s, s)
  BY <1>6 DEF Agree
<1> QED
  BY <1>2, <1>3, <1>5, <1>7

-----------------------------------------------------------------------------
(* The looks: what the records of a run say they are. *)

Working == repo \in Repo /\ steps \in Nat /\ Older(repo, steps) /\ Agree(repo, repo)

Past(seen) == Since(seen, repo) /\ Older(seen, steps)

\* The look at what the agent left was made, or tried.
Looked ==
    \/ pc \in {"phase", "checks", "recheck", "attribute"}
    \/ pc \in {"judge", "judged"} /\ inspector

\* The look after the checks was.
Relooked ==
    \/ pc = "attribute"
    \/ pc \in {"judge", "judged"} /\ run.attempted

TruthInv == truth = [start |-> truth.start, left |-> truth.left, end |-> truth.end,
                     last |-> truth.last]

StartInv ==
    IF pc = "inspect" THEN baseline = None
    ELSE Past(truth.start) /\ (baseline # None => baseline = Evidence(truth.start))

LeftInv ==
    IF Looked
    THEN /\ Past(truth.left) /\ Since(truth.start, truth.left)
         /\ pre # None => pre = Verify(baseline, truth.left)
    ELSE pre = None

EndInv ==
    /\ pc \in {"checks", "recheck", "attribute"} => run.attempted = TRUE
    /\ pc \in {"judge", "judged"} /\ run.attempted => inspector
    /\ Relooked => Since(truth.start, truth.end) /\ (post # None => post = Verify(baseline, truth.end))

LastInv ==
    /\ pc = "attribute" => pre # None
    /\ pc \notin {"judge", "judged"} => truth.last = None
    /\ truth.last # None =>
         /\ Since(truth.left, truth.last)
         /\ byChecks = Verify(pre.after, truth.last).attributable

RunShape == pc \in {"phase", "checks", "recheck", "attribute", "judge", "judged"} =>
    \/ pc = "phase"
    \/ run = [attempted |-> run.attempted, policyChanged |-> run.policyChanged,
              results |-> run.results]

LookInv ==
    /\ Working /\ TruthInv /\ StartInv /\ LeftInv /\ EndInv /\ LastInv /\ RunShape
    /\ pc \in {"inspect", "implement", "verify", "phase", "checks", "recheck", "attribute",
               "judge", "judged"}
    /\ pc \in {"verify", "phase", "checks", "recheck", "attribute"} => inspector

LEMMA LooksStart == Init => LookInv
<1> SUFFICES ASSUME Init
             PROVE  LookInv
  OBVIOUS
<1>1. repo \in Repo /\ steps = 0 /\ repo \in Repos
  BY ReposAreRepos DEF Init
<1>2. Older(repo, 0) /\ Agree(repo, repo)
  BY <1>1, FilesAreOlder DEF Older, Agree
<1>3. Working
  BY <1>1, <1>2 DEF Working
<1>4. truth.last = None /\ TruthInv
  BY DEF Init, TruthInv
<1> QED
  BY <1>3, <1>4 DEF Init, LookInv, StartInv, LeftInv, EndInv, LastInv, RunShape, Looked, Relooked

\* A command changes the working copy, and nothing that was seen of it.
LEMMA CommandLooks ==
  ASSUME LookInv, steps' = steps + 1, repo' \in Commands(repo, steps + 1) \/ repo' = repo,
         UNCHANGED <<looks, run, inspector, pc>>
  PROVE  LookInv'
<1>1. Working /\ steps \in Nat /\ steps + 1 \in Nat
  BY DEF LookInv, Working
<1>2. /\ repo' \in Repo /\ Older(repo', steps + 1) /\ Agree(repo', repo')
      /\ \A one : Since(one, repo) /\ Older(one, steps) => Since(one, repo')
  <2>1. CASE repo' \in Commands(repo, steps + 1)
    BY <1>1, <2>1, SinceKept DEF Working
  <2>2. CASE repo' = repo
    <3>1. Older(repo, steps + 1)
      BY <1>1 DEF Working, Older, Repo
    <3> QED
      BY <1>1, <2>2, <3>1 DEF Working
  <2> QED
    BY <2>1, <2>2
<1>3. Working'
  BY <1>1, <1>2 DEF Working, Older, Agree
<1>4. ASSUME NEW one, Past(one)
      PROVE  Since(one, repo') /\ Older(one, steps')
  <2>1. Older(one, steps + 1)
    BY <1>1, <1>4 DEF Past, Older, Since, Repo
  <2> QED
    BY <1>2, <1>4, <2>1 DEF Past
<1>5. /\ truth' = truth /\ baseline' = baseline /\ pre' = pre /\ post' = post
      /\ byChecks' = byChecks
  BY DEF looks
<1>6. Past(truth.start) => Past(truth.start)'
  BY <1>4, <1>5 DEF Past
<1>7. Past(truth.left) => Past(truth.left)'
  BY <1>4, <1>5 DEF Past
<1>8. StartInv'
  BY <1>5, <1>6 DEF LookInv, StartInv
<1>9. LeftInv'
  BY <1>5, <1>7 DEF LookInv, LeftInv, Looked
<1> QED
  BY <1>3, <1>5, <1>8, <1>9 DEF LookInv, TruthInv, EndInv, LastInv, RunShape, Relooked

\* A step that neither looks nor changes the working copy.
LEMMA QuietLooks ==
  ASSUME LookInv, UNCHANGED <<repo, steps, looks, inspector>>,
         \/ UNCHANGED <<pc, run>>
         \/ /\ pc = "checks" /\ pc' \in {"checks", "recheck"}
            /\ \E results : run' = [run EXCEPT !.results = results]
         \/ /\ pc = "phase"
            /\ \E results : \E changed, attempted \in BOOLEAN :
                 /\ run' = [attempted |-> attempted, policyChanged |-> changed, results |-> results]
                 /\ pc' = IF attempted THEN "checks" ELSE "judge"
         \/ /\ pc = "implement"
            /\ pc' = IF inspector THEN "verify" ELSE "judge"
            /\ run' = IF inspector THEN None
                      ELSE [attempted |-> FALSE, policyChanged |-> FALSE, results |-> <<>>]
         \/ pc = "judge" /\ pc' = "judged" /\ UNCHANGED run
  PROVE  LookInv'
<1>1. /\ Working' /\ TruthInv'
      /\ \A one : Past(one) => Since(one, repo') /\ Older(one, steps')
      /\ UNCHANGED <<baseline, pre, post, byChecks, truth, inspector>>
  BY DEF LookInv, Working, TruthInv, Past, looks
<1>2. Past(truth.start) => Past(truth.start)'
  BY <1>1 DEF Past
<1>3. Past(truth.left) => Past(truth.left)'
  BY <1>1 DEF Past
<1>4. CASE UNCHANGED <<pc, run>>
  BY <1>1, <1>2, <1>3, <1>4 DEF LookInv, StartInv, LeftInv, EndInv, LastInv, RunShape, Looked,
                              Relooked
<1>5. CASE /\ pc = "checks" /\ pc' \in {"checks", "recheck"}
           /\ \E results : run' = [run EXCEPT !.results = results]
  <2>1. PICK results : run' = [run EXCEPT !.results = results]
    BY <1>5
  <2>2. run = [attempted |-> run.attempted, policyChanged |-> run.policyChanged,
               results |-> run.results] /\ run.attempted = TRUE
    BY <1>5 DEF LookInv, RunShape, EndInv
  <2>3. run' = [attempted |-> run.attempted, policyChanged |-> run.policyChanged,
                results |-> results]
    BY <2>1, <2>2
  <2>4. run'.attempted = TRUE /\ RunShape'
    BY <2>2, <2>3 DEF RunShape
  <2> QED
    BY <1>1, <1>2, <1>3, <1>5, <2>4 DEF LookInv, StartInv, LeftInv, EndInv, LastInv, Looked, Relooked
<1>6. CASE /\ pc = "phase"
           /\ \E results : \E changed, attempted \in BOOLEAN :
                /\ run' = [attempted |-> attempted, policyChanged |-> changed, results |-> results]
                /\ pc' = IF attempted THEN "checks" ELSE "judge"
  <2>1. PICK results : \E changed, attempted \in BOOLEAN :
                /\ run' = [attempted |-> attempted, policyChanged |-> changed, results |-> results]
                /\ pc' = IF attempted THEN "checks" ELSE "judge"
    BY <1>6
  <2>0. PICK changed \in BOOLEAN, attempted \in BOOLEAN :
                /\ run' = [attempted |-> attempted, policyChanged |-> changed, results |-> results]
                /\ pc' = IF attempted THEN "checks" ELSE "judge"
    BY <2>1
  <2>2. run'.attempted = attempted /\ RunShape'
    BY <2>0 DEF RunShape
  <2> QED
    BY <1>1, <1>2, <1>3, <1>6, <2>0, <2>2 DEF LookInv, StartInv, LeftInv, EndInv, LastInv, Looked,
                                           Relooked
<1>7. CASE /\ pc = "implement"
           /\ pc' = IF inspector THEN "verify" ELSE "judge"
           /\ run' = IF inspector THEN None
                     ELSE [attempted |-> FALSE, policyChanged |-> FALSE, results |-> <<>>]
  <2>1. RunShape' /\ (pc' = "judge" => run'.attempted = FALSE)
    BY <1>7 DEF RunShape
  <2> QED
    BY <1>1, <1>2, <1>3, <1>7, <2>1 DEF LookInv, StartInv, LeftInv, EndInv, LastInv, Looked, Relooked
<1>8. CASE pc = "judge" /\ pc' = "judged" /\ UNCHANGED run
  BY <1>1, <1>2, <1>3, <1>8 DEF LookInv, StartInv, LeftInv, EndInv, LastInv, RunShape, Looked,
                              Relooked
<1> QED
  BY <1>4, <1>5, <1>6, <1>7, <1>8

\* A look sees the working copy as it is.
LEMMA SeenNow ==
  ASSUME Working
  PROVE  Past(repo)
  BY DEF Working, Past, Since, Extends, Repo

LEMMA InspectLooks == \A ok \in BOOLEAN : LookInv /\ Inspect(ok) => LookInv'
<1> SUFFICES ASSUME LookInv, NEW ok \in BOOLEAN, Inspect(ok)
             PROVE  LookInv'
  OBVIOUS
<1>1. /\ pc = "inspect" /\ pc' = "implement"
      /\ baseline' = IF inspector /\ ok THEN Evidence(repo) ELSE None
      /\ truth' = [truth EXCEPT !.start = repo]
      /\ UNCHANGED <<repo, steps, run, inspector, pre, post, byChecks>>
  BY DEF Inspect, world, phase
<1>2. truth' = [start |-> repo, left |-> truth.left, end |-> truth.end, last |-> truth.last]
  BY <1>1 DEF LookInv, TruthInv
<1>3. /\ truth'.start = repo /\ truth'.left = truth.left /\ truth'.end = truth.end
      /\ truth'.last = truth.last /\ TruthInv'
  BY <1>2 DEF TruthInv
<1>4. Past(repo) /\ Working'
  BY <1>1, SeenNow DEF LookInv, Working
<1>5. Past(truth.start)'
  BY <1>1, <1>3, <1>4 DEF Past
<1>6. StartInv'
  BY <1>1, <1>3, <1>5 DEF StartInv
<1> QED
  BY <1>1, <1>3, <1>4, <1>6 DEF LookInv, LeftInv, EndInv, LastInv, RunShape, Looked, Relooked

LEMMA PreCheckLooks == \A ok \in BOOLEAN : LookInv /\ PreCheck(ok) => LookInv'
<1> SUFFICES ASSUME LookInv, NEW ok \in BOOLEAN, PreCheck(ok)
             PROVE  LookInv'
  OBVIOUS
<1>1. /\ pc = "verify" /\ pc' = "phase"
      /\ pre' = IF ok THEN Verify(baseline, repo) ELSE None
      /\ truth' = [truth EXCEPT !.left = repo]
      /\ UNCHANGED <<repo, steps, run, inspector, baseline, post, byChecks>>
  BY DEF PreCheck, world, phase, given
<1>2. truth' = [start |-> truth.start, left |-> repo, end |-> truth.end, last |-> truth.last]
  BY <1>1 DEF LookInv, TruthInv
<1>3. /\ truth'.start = truth.start /\ truth'.left = repo /\ truth'.end = truth.end
      /\ truth'.last = truth.last /\ TruthInv'
  BY <1>2 DEF TruthInv
<1>4. Past(repo) /\ Working' /\ Past(truth.start)
  BY <1>1, SeenNow DEF LookInv, Working, StartInv
<1>5. Past(truth.start)' /\ Past(truth.left)' /\ Since(truth.start, truth.left)'
  BY <1>1, <1>3, <1>4 DEF Past
<1>6. StartInv' /\ LeftInv'
  BY <1>1, <1>3, <1>5 DEF LookInv, StartInv, LeftInv, Looked
<1> QED
  BY <1>1, <1>3, <1>4, <1>6 DEF LookInv, EndInv, LastInv, RunShape, Looked, Relooked

LEMMA RecheckLooks == \A ok \in BOOLEAN : LookInv /\ Recheck(ok) => LookInv'
<1> SUFFICES ASSUME LookInv, NEW ok \in BOOLEAN, Recheck(ok)
             PROVE  LookInv'
  OBVIOUS
<1>1. /\ pc = "recheck" /\ pc' = IF pre # None THEN "attribute" ELSE "judge"
      /\ post' = IF ok THEN Verify(baseline, repo) ELSE None
      /\ truth' = [truth EXCEPT !.end = repo]
      /\ UNCHANGED <<repo, steps, run, inspector, baseline, pre, byChecks>>
  BY DEF Recheck, world, phase, given
<1>2. truth' = [start |-> truth.start, left |-> truth.left, end |-> repo, last |-> truth.last]
  BY <1>1 DEF LookInv, TruthInv
<1>3. /\ truth'.start = truth.start /\ truth'.left = truth.left /\ truth'.end = repo
      /\ truth'.last = truth.last /\ TruthInv'
  BY <1>2 DEF TruthInv
<1>4. /\ Working' /\ Past(truth.start) /\ Past(truth.left) /\ Since(truth.start, truth.left)
      /\ run.attempted = TRUE /\ inspector
  BY <1>1 DEF LookInv, Working, StartInv, LeftInv, Looked, EndInv
<1>5. /\ Past(truth.start)' /\ Past(truth.left)' /\ Since(truth.start, truth.left)'
      /\ Since(truth.start, truth.end)'
  BY <1>1, <1>3, <1>4 DEF Past
<1>6. StartInv' /\ LeftInv' /\ EndInv'
  BY <1>1, <1>3, <1>4, <1>5 DEF LookInv, StartInv, LeftInv, EndInv, Looked, Relooked
<1> QED
  BY <1>1, <1>3, <1>4, <1>6 DEF LookInv, LastInv, RunShape

LEMMA AttributeLooks == \A ok \in BOOLEAN : LookInv /\ AttributeChecks(ok) => LookInv'
<1> SUFFICES ASSUME LookInv, NEW ok \in BOOLEAN, AttributeChecks(ok)
             PROVE  LookInv'
  OBVIOUS
<1>0. PICK x : x = IF ok THEN repo ELSE None
  OBVIOUS
<1>1. /\ pc = "attribute" /\ pc' = "judge"
      /\ byChecks' = IF ok THEN Verify(pre.after, repo).attributable ELSE {}
      /\ truth' = [truth EXCEPT !.last = x]
      /\ UNCHANGED <<repo, steps, run, inspector, baseline, pre, post>>
  BY <1>0 DEF AttributeChecks, world, phase, given
<1>2. truth' = [start |-> truth.start, left |-> truth.left, end |-> truth.end, last |-> x]
  BY <1>1 DEF LookInv, TruthInv
<1>3. /\ truth'.start = truth.start /\ truth'.left = truth.left /\ truth'.end = truth.end
      /\ truth'.last = x /\ TruthInv'
  BY <1>2 DEF TruthInv
<1>4. /\ Working' /\ Past(truth.start) /\ Past(truth.left) /\ Since(truth.start, truth.left)
      /\ Since(truth.start, truth.end) /\ run.attempted = TRUE /\ inspector
  BY <1>1 DEF LookInv, Working, StartInv, LeftInv, Looked, EndInv, Relooked
<1>5. /\ Past(truth.start)' /\ Past(truth.left)' /\ Since(truth.start, truth.left)'
      /\ Since(truth.start, truth.end)'
  BY <1>1, <1>3, <1>4 DEF Past
<1>6. StartInv' /\ LeftInv' /\ EndInv'
  BY <1>1, <1>3, <1>4, <1>5 DEF LookInv, StartInv, LeftInv, EndInv, Looked, Relooked
<1>7. Since(truth.left, repo)
  BY <1>4 DEF Past
<1>8. LastInv'
  BY <1>0, <1>1, <1>3, <1>7 DEF LastInv
<1> QED
  BY <1>1, <1>3, <1>4, <1>6, <1>8 DEF LookInv, RunShape

\* A step of the check phase.
LEMMA PhaseLooks ==
  ASSUME LookInv, Block \/ Spawn \/ SpawnFails \/ Tick \/ Timeout \/ EndChecks
                  \/ \E code \in {0, 1} : Exit(code)
  PROVE  LookInv'
<1>1. /\ pc = "checks" /\ pc' \in {"checks", "recheck"}
      /\ UNCHANGED <<repo, steps, looks, inspector>>
  BY DEF Block, Spawn, SpawnFails, Tick, Timeout, EndChecks, Exit, Running, Between, world, given
<1>2. UNCHANGED <<pc, run>> \/ \E results : run' = [run EXCEPT !.results = results]
  BY DEF Block, Spawn, SpawnFails, Tick, Timeout, EndChecks, Exit, Record
<1> QED
  BY <1>1, <1>2, QuietLooks

\* Every step keeps the records true to what was seen.
LEMMA LooksInductive == LookInv /\ [Next]_vars => LookInv'
<1> SUFFICES ASSUME LookInv, [Next]_vars
             PROVE  LookInv'
  OBVIOUS
<1>1. CASE UNCHANGED vars
  <2>1. UNCHANGED <<repo, steps, looks, inspector, pc, run>>
    BY <1>1 DEF vars, looks
  <2> QED
    BY <2>1, QuietLooks
<1>2. CASE \/ AgentChangesRepo \/ AgentReplacesProgram \/ AgentLinksDirectory
           \/ AgentRedefinesChecks \/ CheckChangesRepo \/ CheckReplacesProgram
  <2>1. /\ steps' = steps + 1 /\ (repo' \in Commands(repo, steps + 1) \/ repo' = repo)
        /\ UNCHANGED <<looks, run, inspector, pc>>
    BY <1>2 DEF AgentChangesRepo, AgentReplacesProgram, AgentLinksDirectory, AgentRedefinesChecks,
                CheckChangesRepo, CheckReplacesProgram, AgentStep, CheckStep, phase, given
  <2> QED
    BY <2>1, CommandLooks
<1>3. CASE AgentDone
  BY <1>3, QuietLooks DEF AgentDone, world, given
<1>4. CASE BeginChecks
  <2>1. UNCHANGED <<repo, steps, looks, inspector>> /\ pc = "phase"
    BY <1>4 DEF BeginChecks, world, given
  <2>2. \E results : \E changed, attempted \in BOOLEAN :
           /\ run' = [attempted |-> attempted, policyChanged |-> changed, results |-> results]
           /\ pc' = IF attempted THEN "checks" ELSE "judge"
    <3>1. PICK changed \in BOOLEAN : changed = (authorised /\ PolicyMoved)
      OBVIOUS
    <3>2. CASE run' = Unattempted(authorised /\ PolicyMoved) /\ pc' = "judge"
      <4>1. PICK results : results = [c \in policy.rejected |-> "refused"]
        OBVIOUS
      <4>2. run' = [attempted |-> FALSE, policyChanged |-> changed, results |-> results]
        BY <3>1, <3>2, <4>1 DEF Unattempted
      <4> QED
        BY <3>2, <4>2
    <3>3. CASE /\ run' = [attempted |-> TRUE, policyChanged |-> FALSE, results |-> <<>>]
               /\ pc' = "checks"
      BY <3>3
    <3> QED
      BY <1>4, <3>2, <3>3 DEF BeginChecks
  <2> QED
    BY <2>1, <2>2, QuietLooks
<1>5. CASE Judge
  BY <1>5, QuietLooks DEF Judge, world, given, phase
<1> QED
  BY <1>1, <1>2, <1>3, <1>4, <1>5, InspectLooks, PreCheckLooks, RecheckLooks, AttributeLooks,
     PhaseLooks DEF Next

\* The records of a run describe the working copy as it was when they were made.
THEOREM LookInvariant == Spec => []LookInv
  BY LooksStart, LooksInductive, PTL DEF Spec

-----------------------------------------------------------------------------
(* The checks. *)

PolicyInv ==
    /\ config \in Configs
    /\ pc # "inspect" =>
         /\ Runnable \subseteq Check
         /\ \A c \in Runnable : policy.checks[c] \in Definition
         /\ Runnable \cap policy.rejected = {}

\* What is left of the budget is enough for what is left of the check.
TimeInv ==
    /\ spent \in Nat /\ spent <= Budget
    /\ child # None =>
         /\ pc = "checks"
         /\ child = [check |-> child.check, elapsed |-> child.elapsed, deadline |-> child.deadline]
         /\ child.check \in Runnable /\ launched[child.check] # None
         /\ child.elapsed \in Nat /\ child.deadline \in Nat /\ child.elapsed <= child.deadline
         /\ child.deadline <= policy.checks[child.check].timeout
         /\ spent + (child.deadline - child.elapsed) <= Budget

\* What was started is the captured file.
LaunchInv ==
    /\ launched = [c \in Check |-> launched[c]]
    /\ pc = "inspect" => \A c \in Check : launched[c] = None
    /\ \A c \in Check : launched[c] # None => launched[c] = policy.identity[c]

\* The phase runs under the captured definitions, and a pass was started.
ResultInv ==
    LET results == run.results
    IN  /\ pc \in {"checks", "recheck", "attribute"}
             \/ (pc \in {"judge", "judged"} /\ run.attempted) =>
             /\ CapturePolicy(config, program).checks = policy.checks
             /\ \A c \in DOMAIN results : results[c] = "passed" => c \in Check /\ launched[c] # None
        /\ pc = "checks" => DOMAIN results \subseteq Runnable
        /\ pc \in {"recheck", "attribute"} \/ (pc \in {"judge", "judged"} /\ run.attempted) =>
             /\ Runnable \cup policy.rejected \subseteq DOMAIN results
             /\ \A c \in policy.rejected : results[c] = "refused"

ChecksInv == PolicyInv /\ TimeInv /\ LaunchInv /\ ResultInv

\* The check that is next.
LEMMA CurrentIsNext ==
  ASSUME ChecksInv, pc # "inspect", Undone # {}
  PROVE  Current \in Undone
<1>1. Undone \subseteq Nat
  <2>1. config \in Configs /\ Undone \subseteq Check
    BY DEF ChecksInv, PolicyInv, Undone
  <2> QED
    BY <2>1, ConfigsAreLists
<1>2. PICK c \in Undone : \A d \in Undone : <<d, c>> \notin OpToRel(<, Nat)
  <2> HIDE DEF Undone
  <2> QED
    BY <1>1, NatLessThanWellFounded, WFMin
<1>3. ASSUME NEW d \in Undone
      PROVE  c <= d
  <2> HIDE DEF Undone
  <2>1. c \in Nat /\ d \in Nat
    BY <1>1
  <2>2. ~ (d < c)
    BY <1>2, <2>1 DEF OpToRel
  <2> QED
    BY <2>1, <2>2
<1> HIDE DEF Undone
<1> QED
  BY <1>2, <1>3 DEF Current

LEMMA ChecksStart == Init => ChecksInv
<1> SUFFICES ASSUME Init
             PROVE  ChecksInv
  OBVIOUS
<1>1. PolicyInv
  BY DEF Init, PolicyInv
<1>2. TimeInv
  BY BoundsAreNat DEF Init, TimeInv
<1>3. LaunchInv
  BY DEF Init, LaunchInv
<1>4. ResultInv
  BY DEF Init, ResultInv
<1> QED
  BY <1>1, <1>2, <1>3, <1>4 DEF ChecksInv

\* The captured definitions do not depend on the files they name.
LEMMA CapturedChecks ==
  \A conf, one, other : CapturePolicy(conf, one).checks = CapturePolicy(conf, other).checks
  BY DEF CapturePolicy

LEMMA InspectChecks == \A ok \in BOOLEAN : ChecksInv /\ Inspect(ok) => ChecksInv'
<1> SUFFICES ASSUME ChecksInv, NEW ok \in BOOLEAN, Inspect(ok)
             PROVE  ChecksInv'
  OBVIOUS
<1>1. /\ pc = "inspect" /\ pc' = "implement" /\ policy' = CapturePolicy(config, program)
      /\ UNCHANGED <<config, run, child, spent, launched>>
  BY DEF Inspect, world, phase
<1>2. /\ policy'.checks = [c \in Accepted(config) |-> config[c]]
      /\ policy'.rejected = Declared(config) \ Accepted(config)
  BY <1>1 DEF CapturePolicy
<1>3. /\ Accepted(config) \subseteq Check
      /\ \A c \in Accepted(config) : config[c] \in Definition
  BY ConfigsAreLists DEF ChecksInv, PolicyInv, Accepted, Valid, Declared
<1>4. PolicyInv'
  BY <1>1, <1>2, <1>3 DEF ChecksInv, PolicyInv, Runnable
<1>5. TimeInv'
  BY <1>1 DEF ChecksInv, TimeInv
<1>6. LaunchInv'
  BY <1>1 DEF ChecksInv, LaunchInv
<1>7. ResultInv'
  BY <1>1 DEF ResultInv
<1> QED
  BY <1>4, <1>5, <1>6, <1>7 DEF ChecksInv

\* A step that leaves the check phase alone.
LEMMA OtherChecks ==
  ASSUME ChecksInv, pc # "inspect", UNCHANGED <<policy, run, child, spent, launched>>,
         config' \in Configs, config' = config \/ pc = "implement",
         \/ pc' = pc
         \/ pc = "verify" /\ pc' = "phase"
         \/ pc = "recheck" /\ pc' \in {"attribute", "judge"}
         \/ pc = "attribute" /\ pc' = "judge"
         \/ pc = "judge" /\ pc' = "judged"
  PROVE  ChecksInv'
<1>1. PolicyInv'
  BY DEF ChecksInv, PolicyInv, Runnable
<1>2. TimeInv'
  BY DEF ChecksInv, TimeInv, Runnable
<1>3. LaunchInv'
  BY DEF ChecksInv, LaunchInv
<1>4. config' = config => CapturePolicy(config, program)'.checks = CapturePolicy(config, program).checks
  BY DEF CapturePolicy, Accepted, Valid, Declared
<1>5. ResultInv'
  BY <1>4 DEF ChecksInv, ResultInv, Runnable
<1> QED
  BY <1>1, <1>2, <1>3, <1>5 DEF ChecksInv

LEMMA DoneChecks == ChecksInv /\ AgentDone => ChecksInv'
<1> SUFFICES ASSUME ChecksInv, AgentDone
             PROVE  ChecksInv'
  OBVIOUS
<1>1. /\ pc = "implement" /\ pc' \in {"verify", "judge"}
      /\ pc' = "judge" => run'.attempted = FALSE
      /\ UNCHANGED <<config, policy, child, spent, launched>>
  BY DEF AgentDone, world, given
<1>2. PolicyInv'
  BY <1>1 DEF ChecksInv, PolicyInv, Runnable
<1>3. TimeInv'
  BY <1>1 DEF ChecksInv, TimeInv, Runnable
<1>4. LaunchInv'
  BY <1>1 DEF ChecksInv, LaunchInv
<1>5. ResultInv'
  BY <1>1 DEF ResultInv
<1> QED
  BY <1>2, <1>3, <1>4, <1>5 DEF ChecksInv

LEMMA BeginKeeps == ChecksInv /\ BeginChecks => ChecksInv'
<1> SUFFICES ASSUME ChecksInv, BeginChecks
             PROVE  ChecksInv'
  OBVIOUS
<1>1. /\ pc = "phase" /\ pc' \in {"checks", "judge"}
      /\ UNCHANGED <<config, program, policy, child, spent, launched>>
      /\ \/ pc' = "judge" /\ run' = Unattempted(authorised /\ PolicyMoved)
         \/ /\ pc' = "checks" /\ ~ PolicyMoved
            /\ run' = [attempted |-> TRUE, policyChanged |-> FALSE, results |-> <<>>]
  BY DEF BeginChecks, world, given
<1>2. PolicyInv'
  BY <1>1 DEF ChecksInv, PolicyInv, Runnable
<1>3. TimeInv'
  BY <1>1 DEF ChecksInv, TimeInv, Runnable
<1>4. LaunchInv'
  BY <1>1 DEF ChecksInv, LaunchInv
<1>5. ResultInv'
  <2>1. CASE pc' = "judge" /\ run' = Unattempted(authorised /\ PolicyMoved)
    <3>1. run'.attempted = FALSE
      BY <2>1 DEF Unattempted
    <3> QED
      BY <2>1, <3>1 DEF ResultInv
  <2>2. CASE /\ pc' = "checks" /\ ~ PolicyMoved
             /\ run' = [attempted |-> TRUE, policyChanged |-> FALSE, results |-> <<>>]
    <3>1. DOMAIN run'.results = {}
      BY <2>2
    <3>2. CapturePolicy(config, program)'.checks = policy'.checks
      BY <1>1, <2>2 DEF PolicyMoved
    <3> QED
      BY <2>2, <3>1, <3>2 DEF ResultInv
  <2> QED
    BY <1>1, <2>1, <2>2
<1> QED
  BY <1>2, <1>3, <1>4, <1>5 DEF ChecksInv

\* A result of a check of the policy; a pass is of one that was started.
LEMMA RecordKeeps ==
  ASSUME ChecksInv, pc = "checks", pc' = "checks", run.attempted = TRUE, NEW c \in Runnable,
         NEW status, run' = Record(c, status),
         run = [attempted |-> run.attempted, policyChanged |-> run.policyChanged,
                results |-> run.results],
         status = "passed" => launched[c] # None,
         UNCHANGED <<config, program, policy, launched>>
  PROVE  PolicyInv' /\ LaunchInv' /\ ResultInv'
<1>1. PICK results : results = [d \in DOMAIN run.results \cup {c} |->
                                 IF d = c THEN status ELSE run.results[d]]
  OBVIOUS
<1>2. run'.results = results
  BY <1>1 DEF Record
<1>3. PolicyInv' /\ c \in Check
  BY DEF ChecksInv, PolicyInv, Runnable
<1>4. LaunchInv'
  BY DEF ChecksInv, LaunchInv
<1>5. CapturePolicy(config, program)'.checks = policy'.checks
  BY DEF ChecksInv, ResultInv, CapturePolicy, Accepted, Valid, Declared
<1>6. \A d \in DOMAIN results : results[d] = "passed" => d \in Check /\ launched[d] # None
  BY <1>1, <1>3 DEF ChecksInv, ResultInv
<1>7. DOMAIN results \subseteq Runnable
  BY <1>1 DEF ChecksInv, ResultInv
<1>8. ResultInv'
  BY <1>2, <1>5, <1>6, <1>7 DEF ResultInv, Runnable
<1> QED
  BY <1>3, <1>4, <1>8

\* In the phase the run's record has its fields, and checks are attempted.
LEMMA RunInPhase ==
  ASSUME LookInv, pc = "checks"
  PROVE  /\ run.attempted = TRUE
         /\ run = [attempted |-> run.attempted, policyChanged |-> run.policyChanged,
                   results |-> run.results]
  BY DEF LookInv, EndInv, RunShape

\* A check that is not started has a result that is no pass.
LEMMA SkipKeeps ==
  ASSUME LookInv, ChecksInv, Block \/ SpawnFails
  PROVE  ChecksInv'
<1>1. /\ pc = "checks" /\ pc' = "checks" /\ child = None /\ Undone # {}
      /\ UNCHANGED <<config, program, policy, child, spent, launched>>
  BY DEF Block, SpawnFails, Between, world, given
<1>2. Current \in Runnable
  BY <1>1, CurrentIsNext DEF Undone
<1>3. \E status : status # "passed" /\ run' = Record(Current, status)
  <2>1. CASE Block
    <3>1. BlockedReason(Current) # "passed"
      BY DEF BlockedReason
    <3> QED
      BY <2>1, <3>1 DEF Block
  <2>2. CASE SpawnFails
    BY <2>2 DEF SpawnFails
  <2> QED
    BY <2>1, <2>2
<1>4. PolicyInv' /\ LaunchInv' /\ ResultInv'
  BY <1>1, <1>2, <1>3, RunInPhase, RecordKeeps
<1>5. TimeInv'
  BY <1>1 DEF ChecksInv, TimeInv
<1> QED
  BY <1>4, <1>5 DEF ChecksInv

\* What is started is the captured file, with no more time than there is.
LEMMA SpawnKeeps == LookInv /\ ChecksInv /\ Spawn => ChecksInv'
<1> SUFFICES ASSUME LookInv, ChecksInv, Spawn
             PROVE  ChecksInv'
  OBVIOUS
<1>0. PICK c : c = Current
  OBVIOUS
<1>1. /\ pc = "checks" /\ pc' = "checks" /\ child = None /\ Undone # {}
      /\ BlockedReason(c) = "none"
      /\ child' = [check |-> c, elapsed |-> 0, deadline |-> Deadline(c)]
      /\ launched' = [launched EXCEPT ![c] = program[c]]
      /\ UNCHANGED <<config, program, policy, run, spent>>
  BY <1>0 DEF Spawn, Between, world, given
<1>2. c \in Runnable /\ c \in Check
  BY <1>0, <1>1, CurrentIsNext DEF Undone, ChecksInv, PolicyInv
<1>3. program[c] = policy.identity[c] /\ program[c] # None /\ Remaining > 0
  <2>1. policy.identity[c] # None /\ program[c] = policy.identity[c] /\ ~ (Remaining <= 0)
    BY <1>1 DEF BlockedReason
  <2>2. Remaining \in Int
    BY BoundsAreNat DEF Remaining, ChecksInv, TimeInv
  <2> QED
    BY <2>1, <2>2
<1>4. /\ Deadline(c) \in Nat /\ Deadline(c) <= policy.checks[c].timeout
      /\ spent + Deadline(c) <= Budget
  <2>1. policy.checks[c].timeout \in Nat
    BY <1>1, <1>2 DEF ChecksInv, PolicyInv, Definition
  <2>2. spent \in Nat /\ Budget \in Nat /\ Remaining = Budget - spent
    BY BoundsAreNat DEF ChecksInv, TimeInv, Remaining
  <2> QED
    BY <1>3, <2>1, <2>2 DEF Deadline
<1>5. /\ launched'[c] = program[c]
      /\ \A d \in Check : d # c => launched'[d] = launched[d]
      /\ launched' = [d \in Check |-> launched'[d]]
  BY <1>1, <1>2 DEF ChecksInv, LaunchInv
<1>6. PolicyInv'
  BY <1>1 DEF ChecksInv, PolicyInv, Runnable
<1>7. TimeInv'
  <2>1. /\ child'.check = c /\ child'.elapsed = 0 /\ child'.deadline = Deadline(c)
        /\ child' = [check |-> child'.check, elapsed |-> child'.elapsed,
                     deadline |-> child'.deadline]
    BY <1>1
  <2>2. spent' \in Nat /\ spent' <= Budget
    BY <1>1 DEF ChecksInv, TimeInv
  <2>3. child'.check \in Runnable' /\ launched'[child'.check] # None
    BY <1>1, <1>2, <1>3, <1>5, <2>1 DEF Runnable
  <2> QED
    BY <1>1, <1>4, <2>1, <2>2, <2>3 DEF TimeInv
<1>8. LaunchInv'
  BY <1>1, <1>3, <1>5 DEF ChecksInv, LaunchInv
<1>9. ResultInv'
  <2>1. CapturePolicy(config, program)'.checks = policy'.checks
    BY <1>1 DEF ChecksInv, ResultInv, CapturePolicy, Accepted, Valid, Declared
  <2>2. \A d \in Check : launched[d] # None => launched'[d] # None
    BY <1>3, <1>5
  <2> QED
    BY <1>1, <2>1, <2>2 DEF ChecksInv, ResultInv, Runnable
<1> QED
  BY <1>6, <1>7, <1>8, <1>9 DEF ChecksInv

\* A check that ends, by itself or by its deadline, was started.
LEMMA EndKeeps ==
  ASSUME LookInv, ChecksInv, Timeout \/ \E code \in {0, 1} : Exit(code)
  PROVE  ChecksInv'
<1>1. /\ pc = "checks" /\ pc' = "checks" /\ child # None /\ child' = None
      /\ UNCHANGED <<config, program, policy, spent, launched>>
  BY DEF Timeout, Exit, Running, world, given
<1>2. \E status : run' = Record(child.check, status)
  BY DEF Timeout, Exit
<1>3. child.check \in Runnable /\ launched[child.check] # None
  BY <1>1 DEF ChecksInv, TimeInv
<1>4. PolicyInv' /\ LaunchInv' /\ ResultInv'
  BY <1>1, <1>2, <1>3, RunInPhase, RecordKeeps
<1>5. TimeInv'
  BY <1>1 DEF ChecksInv, TimeInv
<1> QED
  BY <1>4, <1>5 DEF ChecksInv

\* Time passes for the check and for the phase alike.
LEMMA TickKeeps == ChecksInv /\ Tick => ChecksInv'
<1> SUFFICES ASSUME ChecksInv, Tick
             PROVE  ChecksInv'
  OBVIOUS
<1>1. /\ pc = "checks" /\ pc' = pc /\ child # None /\ child.elapsed < child.deadline
      /\ child' = [child EXCEPT !.elapsed = @ + 1] /\ spent' = spent + 1
      /\ UNCHANGED <<config, program, policy, run, launched>>
  BY DEF Tick, Running, world, given
<1>2. /\ child = [check |-> child.check, elapsed |-> child.elapsed, deadline |-> child.deadline]
      /\ child.check \in Runnable /\ launched[child.check] # None
      /\ child.elapsed \in Nat /\ child.deadline \in Nat
      /\ child.deadline <= policy.checks[child.check].timeout
      /\ spent + (child.deadline - child.elapsed) <= Budget /\ spent \in Nat
  BY <1>1 DEF ChecksInv, TimeInv
<1>3. child' = [check |-> child.check, elapsed |-> child.elapsed + 1, deadline |-> child.deadline]
  BY <1>1, <1>2
<1>4. /\ child'.check = child.check /\ child'.elapsed = child.elapsed + 1
      /\ child'.deadline = child.deadline
      /\ child' = [check |-> child'.check, elapsed |-> child'.elapsed, deadline |-> child'.deadline]
  BY <1>3
<1>5. Budget \in Nat
  BY BoundsAreNat
<1>6. TimeInv'
  <2>1. Runnable' = Runnable
    BY <1>1 DEF Runnable
  <2>2. spent' \in Nat /\ spent' <= Budget
    BY <1>1, <1>2, <1>5
  <2>3. spent' + (child'.deadline - child'.elapsed) <= Budget
    BY <1>1, <1>2, <1>4, <1>5
  <2>4. child'.elapsed \in Nat /\ child'.elapsed <= child'.deadline
    BY <1>1, <1>2, <1>4
  <2> QED
    BY <1>1, <1>2, <1>4, <2>1, <2>2, <2>3, <2>4 DEF TimeInv
<1>7. PolicyInv'
  BY <1>1 DEF ChecksInv, PolicyInv, Runnable
<1>8. LaunchInv'
  BY <1>1 DEF ChecksInv, LaunchInv
<1>9. ResultInv'
  <2>1. CapturePolicy(config, program)'.checks = policy'.checks
    BY <1>1 DEF ChecksInv, ResultInv, CapturePolicy, Accepted, Valid, Declared
  <2> QED
    BY <1>1, <2>1 DEF ChecksInv, ResultInv, Runnable
<1> QED
  BY <1>6, <1>7, <1>8, <1>9 DEF ChecksInv

\* Every check of the policy has a result, and every refused definition.
LEMMA EndChecksKeeps == LookInv /\ ChecksInv /\ EndChecks => ChecksInv'
<1> SUFFICES ASSUME LookInv, ChecksInv, EndChecks
             PROVE  ChecksInv'
  OBVIOUS
<1>0. PICK results : results = [c \in DOMAIN run.results \cup policy.rejected |->
                                  IF c \in DOMAIN run.results THEN run.results[c] ELSE "refused"]
  OBVIOUS
<1>1. /\ pc = "checks" /\ pc' = "recheck" /\ child = None /\ Undone = {}
      /\ run' = [run EXCEPT !.results = results]
      /\ UNCHANGED <<config, program, policy, child, spent, launched>>
  BY <1>0 DEF EndChecks, Between, world, given
<1>2. run'.results = results
  BY <1>1, RunInPhase
<1>3. PolicyInv'
  BY <1>1 DEF ChecksInv, PolicyInv, Runnable
<1>4. TimeInv'
  BY <1>1 DEF ChecksInv, TimeInv
<1>5. LaunchInv'
  BY <1>1 DEF ChecksInv, LaunchInv
<1>6. CapturePolicy(config, program)'.checks = policy'.checks
  BY <1>1 DEF ChecksInv, ResultInv, CapturePolicy, Accepted, Valid, Declared
<1>7. DOMAIN run.results = Runnable
  BY <1>1 DEF ChecksInv, ResultInv, Undone
<1>8. /\ DOMAIN results = Runnable \cup policy.rejected
      /\ \A c \in Runnable : results[c] = run.results[c]
      /\ \A c \in policy.rejected : results[c] = "refused"
  BY <1>0, <1>1, <1>7 DEF ChecksInv, PolicyInv
<1>9. \A c \in DOMAIN results : results[c] = "passed" => c \in Check /\ launched[c] # None
  BY <1>1, <1>7, <1>8 DEF ChecksInv, ResultInv
<1>10. ResultInv'
  BY <1>1, <1>2, <1>6, <1>8, <1>9 DEF ResultInv, Runnable
<1> QED
  BY <1>3, <1>4, <1>5, <1>10 DEF ChecksInv

\* Every step keeps the phase's promises.
LEMMA ChecksInductive == LookInv /\ ChecksInv /\ [Next]_vars => ChecksInv'
<1> SUFFICES ASSUME LookInv, ChecksInv, [Next]_vars
             PROVE  ChecksInv'
  OBVIOUS
<1>1. CASE UNCHANGED vars
  BY <1>1 DEF vars, ChecksInv, PolicyInv, TimeInv, LaunchInv, ResultInv, Runnable, CapturePolicy,
              Accepted, Valid, Declared
<1>2. CASE \E ok \in BOOLEAN : PreCheck(ok) \/ Recheck(ok) \/ AttributeChecks(ok)
  <2>1. /\ UNCHANGED <<policy, run, child, spent, launched, config>> /\ pc # "inspect"
        /\ \/ pc = "verify" /\ pc' = "phase"
           \/ pc = "recheck" /\ pc' \in {"attribute", "judge"}
           \/ pc = "attribute" /\ pc' = "judge"
    BY <1>2 DEF PreCheck, Recheck, AttributeChecks, world, phase, given
  <2> QED
    BY <2>1, OtherChecks DEF ChecksInv, PolicyInv
<1>3. CASE AgentChangesRepo \/ AgentReplacesProgram \/ AgentLinksDirectory \/ AgentRedefinesChecks
  <2>1. /\ UNCHANGED <<policy, run, child, spent, launched>> /\ pc = "implement" /\ pc' = pc
        /\ config' \in Configs
    BY <1>3 DEF AgentChangesRepo, AgentReplacesProgram, AgentLinksDirectory, AgentRedefinesChecks,
                AgentStep, Agent, phase, given, ChecksInv, PolicyInv
  <2> QED
    BY <2>1, OtherChecks
<1>4. CASE CheckChangesRepo \/ CheckReplacesProgram
  <2>1. /\ UNCHANGED <<policy, run, child, spent, launched, config>> /\ pc' = pc
        /\ config' \in Configs
    BY <1>4 DEF CheckChangesRepo, CheckReplacesProgram, CheckStep, phase, given, ChecksInv, PolicyInv
  <2>2. CASE pc # "inspect"
    BY <2>1, <2>2, OtherChecks
  <2>3. CASE pc = "inspect"
    BY <2>1, <2>3 DEF ChecksInv, PolicyInv, TimeInv, LaunchInv, ResultInv
  <2> QED
    BY <2>2, <2>3
<1>5. CASE Judge
  <2>1. /\ UNCHANGED <<policy, run, child, spent, launched, config>>
        /\ pc = "judge" /\ pc' = "judged"
    BY <1>5 DEF Judge, world, phase, given
  <2> QED
    BY <2>1, OtherChecks DEF ChecksInv, PolicyInv
<1> QED
  BY <1>1, <1>2, <1>3, <1>4, <1>5, InspectChecks, DoneChecks, BeginKeeps, SkipKeeps, SpawnKeeps,
     EndKeeps, TickKeeps, EndChecksKeeps DEF Next

\* One verified iteration, inductively: the looks and the checks.
THEOREM VerificationInvariant == Spec => [](LookInv /\ ChecksInv)
<1>1. Init => LookInv /\ ChecksInv
  BY LooksStart, ChecksStart
<1>2. LookInv /\ ChecksInv /\ [Next]_vars => (LookInv /\ ChecksInv)'
  BY LooksInductive, ChecksInductive
<1> QED
  BY <1>1, <1>2, PTL DEF Spec

-----------------------------------------------------------------------------
(* What a verified iteration promises. *)

\* All checks together keep the budget, and each its own timeout.
THEOREM ChecksKeepTime == Spec => []ChecksKeepTheirTime
<1>1. ChecksInv => ChecksKeepTheirTime
  <2> SUFFICES ASSUME ChecksInv, child # None
               PROVE  child.elapsed <= policy.checks[child.check].timeout
    BY DEF ChecksInv, TimeInv, ChecksKeepTheirTime
  <2>1. /\ child.elapsed \in Nat /\ child.deadline \in Nat /\ child.elapsed <= child.deadline
        /\ child.deadline <= policy.checks[child.check].timeout
        /\ pc # "inspect" /\ child.check \in Runnable
    BY DEF ChecksInv, TimeInv
  <2>2. policy.checks[child.check].timeout \in Nat
    BY <2>1 DEF ChecksInv, PolicyInv, Definition
  <2> QED
    BY <2>1, <2>2
<1> QED
  BY <1>1, VerificationInvariant, PTL

\* The judgement is made from a look that saw what it says it saw.
LEMMA ResultIsLook ==
  ASSUME LookInv, Judged, Inspected
  PROVE  /\ Since(truth.start, Seen) /\ Result = Verify(baseline, Seen)
         /\ baseline # None => baseline = Evidence(truth.start)
<1>1. baseline # None => baseline = Evidence(truth.start)
  BY DEF LookInv, StartInv, Judged
<1>2. CASE run.attempted
  BY <1>1, <1>2 DEF LookInv, EndInv, Relooked, Judged, Inspected, Result, Seen
<1>3. CASE ~ run.attempted
  BY <1>1, <1>3 DEF LookInv, LeftInv, Looked, Judged, Inspected, Result, Seen
<1> QED
  BY <1>2, <1>3

\* A look says whether git moved.
LEMMA GitStood ==
  ASSUME NEW one, NEW other, Since(one, other),
         ~ Verify(Evidence(one), other).gitMoved
  PROVE  SameHistory(one, other)
<1>1. one \in Repo /\ other \in Repo /\ Extends(one, other)
  BY DEF Since
<1>2. ~ GitMoved(Evidence(one), Evidence(other), other)
  BY DEF Verify
<1>3. Evidence(one) # None
  BY <1>1, LookIsSome
<1>4. /\ Evidence(one).head = Evidence(other).head
      /\ Evidence(one).branch = Evidence(other).branch
  BY <1>2, <1>3 DEF GitMoved, HeadOf
<1>5. one.branch = other.branch
  BY <1>4 DEF Evidence
<1>6. (IF one.hist = <<>> THEN None ELSE Len(one.hist))
        = (IF other.hist = <<>> THEN None ELSE Len(other.hist))
  BY <1>4 DEF Evidence
<1>7. one.hist \in Seq(Tree) /\ other.hist \in Seq(Tree)
  BY <1>1 DEF Repo
<1>8. Len(one.hist) = Len(other.hist)
  <2>1. Len(one.hist) \in Int /\ Len(other.hist) \in Int
    BY <1>7
  <2>2. None # Len(one.hist) /\ None # Len(other.hist)
    BY <2>1, NoneIsNew
  <2> QED
    BY <1>6, <2>2
<1>9. one.hist = other.hist
  BY <1>1, <1>7, <1>8 DEF Extends
<1> QED
  BY <1>5, <1>9 DEF SameHistory

\* What changed between two looks of one history is found, or was renamed away.
LEMMA ChangesFound ==
  ASSUME NEW one, NEW other, Since(one, other), one.hist = other.hist
  PROVE  Changed(one, other) \subseteq
           Verify(Evidence(one), other).attributable \cup OldNames(one, other)
  BY ChangeShows DEF Since

\* A lasting change shows: as the run's, as an old name, or as a use of git.
THEOREM NothingIsHidden == Spec => []NothingHidden
<1>1. LookInv => NothingHidden
  <2> SUFFICES ASSUME LookInv, Judged, Inspected, baseline # None, ~ Result.gitMoved
               PROVE  Changed(truth.start, Seen) \subseteq
                        Result.attributable \cup OldNames(truth.start, Seen)
    BY DEF NothingHidden
  <2>1. Since(truth.start, Seen) /\ Result = Verify(Evidence(truth.start), Seen)
    BY ResultIsLook
  <2>2. truth.start.hist = Seen.hist
    BY <2>1, GitStood DEF SameHistory
  <2> QED
    BY <2>1, <2>2, ChangesFound
<1> QED
  BY <1>1, VerificationInvariant, PTL

\* What the developer left dirty and nobody touched is never the run's.
THEOREM OthersKept == Spec => []OthersWorkIsNotOurs
<1>1. LookInv => OthersWorkIsNotOurs
  <2> SUFFICES ASSUME LookInv, Judged, Inspected, baseline # None,
                      SameHistory(truth.start, Seen),
                      NEW p \in Untouched(truth.start, Seen), p \in Result.attributable,
                      p \notin OldNames(truth.start, Seen) \cup NewNames(truth.start, Seen)
               PROVE  FALSE
    BY DEF OthersWorkIsNotOurs
  <2>1. Since(truth.start, Seen) /\ Result = Verify(Evidence(truth.start), Seen)
    BY ResultIsLook
  <2> QED
    BY <2>1, RestIsLeft DEF Since
<1> QED
  BY <1>1, VerificationInvariant, PTL

\* Without a safety condition there was a look, and git stood still.
LEMMA SafetyMeans ==
  ASSUME Safety = {}
  PROVE  Inspected /\ ~ Result.gitMoved /\ Result.drift = {}
<1>1. "inspection_unavailable" \notin Safety
  OBVIOUS
<1>2. Inspected
  BY <1>1 DEF Safety
<1>3. "unauthorised_git_mutation" \notin Safety /\ "scope_drift" \notin Safety
  OBVIOUS
<1> QED
  BY <1>2, <1>3 DEF Safety

\* A safe judgement that is not blind has the look before, and one history.
LEMMA SafeHistory ==
  ASSUME LookInv, Judged, Safety = {}, ~ Blind
  PROVE  /\ Since(truth.start, Seen) /\ SameHistory(truth.start, Seen)
         /\ Result = Verify(Evidence(truth.start), Seen)
<1>1. /\ Inspected /\ ~ Result.gitMoved
      /\ Since(truth.start, Seen) /\ Result = Verify(baseline, Seen)
      /\ baseline # None => baseline = Evidence(truth.start)
  BY SafetyMeans, ResultIsLook
<1>2. baseline # None
  <2> SUFFICES ASSUME baseline = None
               PROVE  FALSE
    OBVIOUS
  <2>1. ~ GitMoved(None, Evidence(Seen), Seen)
    BY <1>1 DEF Verify
  <2>2. Evidence(Seen).head = None
    BY <2>1 DEF GitMoved, HeadOf
  <2>3. truth.start \in Repo /\ Seen \in Repo /\ Extends(truth.start, Seen)
    BY <1>1 DEF Since
  <2>4. Seen.hist = <<>>
    <3>1. Len(Seen.hist) # None
      BY <2>3, NoneIsNew DEF Repo
    <3> QED
      BY <2>2, <3>1 DEF Evidence
  <2>5. truth.start.hist = <<>>
    BY <2>3, <2>4 DEF Extends, Repo
  <2> QED
    BY <2>5 DEF Blind
<1> QED
  BY <1>1, <1>2, GitStood

\* A safe iteration used git for nothing, stayed in its scope, and started only
\* captured files.
THEOREM SafeIsConfined == Spec => []SafeMeansConfined
<1>1. LookInv /\ ChecksInv => SafeMeansConfined
  <2> SUFFICES ASSUME LookInv, ChecksInv, Judged, Safety = {}, ~ Blind
               PROVE  /\ SameHistory(truth.start, Seen)
                      /\ \A p \in Changed(truth.start, Seen) :
                           InScope(p) \/ p \in OldNames(truth.start, Seen)
                      /\ \A c \in Check : launched[c] # None => launched[c] = policy.identity[c]
                      /\ run.attempted => CapturePolicy(config, program).checks = policy.checks
    BY DEF SafeMeansConfined
  <2>1. /\ Since(truth.start, Seen) /\ SameHistory(truth.start, Seen)
        /\ Result = Verify(Evidence(truth.start), Seen)
    BY SafeHistory
  <2>2. Changed(truth.start, Seen) \subseteq
          Result.attributable \cup OldNames(truth.start, Seen)
    BY <2>1, ChangesFound DEF SameHistory
  <2>3. Result.drift = ScopeDrift(Result.attributable)
    BY <2>1 DEF Verify
  <2>4. \A p \in Result.attributable : InScope(p)
    BY <2>3, SafetyMeans DEF ScopeDrift
  <2>5. \A c \in Check : launched[c] # None => launched[c] = policy.identity[c]
    BY DEF ChecksInv, LaunchInv
  <2>6. run.attempted => CapturePolicy(config, program).checks = policy.checks
    BY DEF ChecksInv, ResultInv, Judged
  <2> QED
    BY <2>1, <2>2, <2>4, <2>5, <2>6
<1> QED
  BY <1>1, VerificationInvariant, PTL

\* With all looks made, the checks answer for exactly what they changed.
THEOREM ChecksAnswer == Spec => []ChecksAnswerForTheirOwn
<1>1. LookInv => ChecksAnswerForTheirOwn
  <2> SUFFICES ASSUME LookInv, Judged, pre # None, truth.last # None
               PROVE  /\ \/ ~ SameHistory(truth.left, truth.last)
                         \/ Changed(truth.left, truth.last) \subseteq
                              byChecks \cup OldNames(truth.left, truth.last)
                      /\ SameHistory(truth.left, truth.last) =>
                           byChecks \cap Untouched(truth.left, truth.last) \subseteq
                             OldNames(truth.left, truth.last) \cup NewNames(truth.left, truth.last)
    BY DEF ChecksAnswerForTheirOwn
  <2>1. /\ Since(truth.left, truth.last)
        /\ byChecks = Verify(pre.after, truth.last).attributable
    BY DEF LookInv, LastInv
  <2>2. pre = Verify(baseline, truth.left)
    BY DEF LookInv, LeftInv
  <2>3. pre.after = Evidence(truth.left)
    BY <2>2 DEF Verify
  <2>4. byChecks = Verify(Evidence(truth.left), truth.last).attributable
    BY <2>1, <2>3
  <2> HIDE <2>3
  <2> SUFFICES ASSUME SameHistory(truth.left, truth.last)
               PROVE  /\ Changed(truth.left, truth.last) \subseteq
                           byChecks \cup OldNames(truth.left, truth.last)
                      /\ \A p \in Untouched(truth.left, truth.last) : p \in byChecks =>
                           p \in OldNames(truth.left, truth.last) \cup NewNames(truth.left, truth.last)
    OBVIOUS
  <2>5. Changed(truth.left, truth.last) \subseteq byChecks \cup OldNames(truth.left, truth.last)
    BY <2>1, <2>4, ChangesFound DEF SameHistory
  <2>6. truth.left \in Repo /\ truth.last \in Repo
    BY <2>1 DEF Since
  <2>7. \A p \in Untouched(truth.left, truth.last) : p \in byChecks =>
           p \in OldNames(truth.left, truth.last) \cup NewNames(truth.left, truth.last)
    BY <2>4, <2>6, RestIsLeft
  <2> QED
    BY <2>5, <2>7
<1> QED
  BY <1>1, VerificationInvariant, PTL

\* The start stays the start, and a run that starts plain was plain.
PlainStart == \A r \in Repos : Plain(r)

PlainInv ==
    /\ pc = "inspect" => repo \in Repos /\ strays = {}
    /\ pc # "inspect" => truth.start \in Repos

LEMMA PlainInductive ==
  /\ Init => PlainInv
  /\ LookInv /\ ChecksInv /\ PlainInv /\ [Next]_vars => PlainInv'
<1>1. Init => PlainInv
  BY DEF Init, PlainInv
<1>2. ASSUME LookInv, ChecksInv, PlainInv, [Next]_vars
      PROVE  PlainInv'
  <2>0. /\ truth = [start |-> truth.start, left |-> truth.left, end |-> truth.end,
                    last |-> truth.last]
        /\ pc \in {"inspect", "implement", "verify", "phase", "checks", "recheck", "attribute",
                   "judge", "judged"}
    BY <1>2 DEF LookInv, TruthInv
  <2>1. CASE UNCHANGED <<truth, pc, repo, strays>>
    BY <1>2, <2>1 DEF PlainInv
  <2>2. CASE pc # "inspect" /\ pc' # "inspect" /\ UNCHANGED truth
    BY <1>2, <2>2 DEF PlainInv
  <2>3. CASE \E ok \in BOOLEAN : Inspect(ok)
    BY <1>2, <2>0, <2>3 DEF Inspect, PlainInv, world
  <2>4. CASE \E ok \in BOOLEAN : PreCheck(ok) \/ Recheck(ok) \/ AttributeChecks(ok)
    <3>1. /\ pc # "inspect" /\ pc' # "inspect"
          /\ \E x : \/ truth' = [truth EXCEPT !.left = x]
                    \/ truth' = [truth EXCEPT !.end = x]
                    \/ truth' = [truth EXCEPT !.last = x]
      BY <2>4 DEF PreCheck, Recheck, AttributeChecks
    <3>2. truth'.start = truth.start
      BY <2>0, <3>1
    <3> QED
      BY <1>2, <3>1, <3>2 DEF PlainInv
  <2>5. CASE CheckChangesRepo \/ CheckReplacesProgram
    <3>1. UNCHANGED truth /\ pc' = pc /\ (child # None \/ strays # {})
      BY <2>5 DEF CheckChangesRepo, CheckReplacesProgram, CheckStep, looks
    <3>2. child # None => pc = "checks"
      BY <1>2 DEF ChecksInv, TimeInv
    <3>3. pc # "inspect"
      BY <1>2, <3>1, <3>2 DEF PlainInv
    <3> QED
      BY <1>2, <3>1, <3>3 DEF PlainInv
  <2> QED
    BY <1>2, <2>1, <2>2, <2>3, <2>4, <2>5
    DEF Next, vars, AgentChangesRepo, AgentReplacesProgram, AgentLinksDirectory,
        AgentRedefinesChecks, AgentStep, Agent, AgentDone, BeginChecks, Block, Spawn, SpawnFails,
        Tick, Timeout, EndChecks, Exit, Judge, Running, Between, looks
<1> QED
  BY <1>1, <1>2

\* A look that may be read as complete found no sensitive file.
LEMMA VerdictMeans ==
  ASSUME Verdict = "verified"
  PROVE  Inspected /\ Result.sensitive = {} /\ ~ Result.gitMoved
  BY DEF Verdict

\* What the checks had to pass, all of them did, started from what was captured.
LEMMA PassedMeans ==
  ASSUME ChecksInv, Judged, run.attempted, AllPassed,
         NEW c \in DOMAIN policy.checks \cup policy.rejected
  PROVE  /\ launched[c] # None /\ launched[c] = policy.identity[c]
         /\ run.results[c] = "passed"
<1>1. /\ Runnable \cup policy.rejected \subseteq DOMAIN run.results
      /\ \A d \in DOMAIN run.results :
            run.results[d] = "passed" => d \in Check /\ launched[d] # None
  BY DEF ChecksInv, ResultInv, Judged
<1>2. c \in DOMAIN run.results
  BY <1>1 DEF Runnable
<1>3. run.results[c] = "passed"
  BY <1>2 DEF AllPassed
<1>4. c \in Check /\ launched[c] # None
  BY <1>1, <1>2, <1>3
<1>5. launched[c] = policy.identity[c]
  BY <1>4 DEF ChecksInv, LaunchInv
<1> QED
  BY <1>3, <1>4, <1>5

\* From a plain start, completion is earned: no sensitive file has changed, and
\* every declared check ran as captured and passed.
THEOREM CompletionEarned ==
  ASSUME PlainStart
  PROVE  Spec => []CompletionIsEarned
<1>1. LookInv /\ ChecksInv /\ PlainInv => CompletionIsEarned
  <2> SUFFICES ASSUME LookInv, ChecksInv, PlainInv, Judged, ~ Blind,
                      NEW claim \in Claims, ConsistentWithCompletion(claim)
               PROVE  /\ Sensitive \cap Changed(truth.start, Seen) = {}
                      /\ run.attempted =>
                            \A c \in DOMAIN policy.checks \cup policy.rejected :
                               /\ launched[c] # None /\ launched[c] = policy.identity[c]
                               /\ run.results[c] = "passed"
    BY DEF CompletionIsEarned
  <2>1. Verdict = "verified" /\ Safety = {} /\ (run.attempted => AllPassed)
    BY DEF ConsistentWithCompletion
  <2>2. /\ Since(truth.start, Seen) /\ SameHistory(truth.start, Seen)
        /\ Result = Verify(Evidence(truth.start), Seen)
    BY <2>1, SafeHistory
  <2>3. /\ truth.start \in Repo /\ Seen \in Repo /\ truth.start.hist = Seen.hist
        /\ Agree(truth.start, Seen)
    BY <2>2 DEF Since, SameHistory
  <2>4. Plain(truth.start)
    BY DEF PlainInv, PlainStart, Judged
  <2>5. Verify(Evidence(truth.start), Seen).sensitive = {}
    BY <2>1, <2>2, VerdictMeans
  <2>6. Sensitive \cap Changed(truth.start, Seen) = {}
    BY <2>3, <2>4, <2>5, SensitiveShows
  <2> QED
    BY <2>1, <2>6, PassedMeans
<1>2. Init => PlainInv
  BY PlainInductive
<1>3. LookInv /\ ChecksInv /\ PlainInv /\ [Next]_vars => PlainInv'
  BY PlainInductive
<1> QED
  BY <1>1, <1>2, <1>3, VerificationInvariant, PTL DEF Spec
=============================================================================
