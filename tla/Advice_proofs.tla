---------------------------- MODULE Advice_proofs ----------------------------
(***************************************************************************)
(* Proofs about the advice a plan node draws from the record store, for    *)
(* any finite set of record files, whatever they hold, any page size and   *)
(* limits, and whatever the others file, damage or shut meanwhile.         *)
(***************************************************************************)
EXTENDS Advice, FiniteSetTheorems, TLAPS

-----------------------------------------------------------------------------
(* The order of the records, and pages of them *)

LEMMA BeforeOrder ==
    /\ \A f \in Files : ~ Before(f, f)
    /\ \A f, g, h \in Files : Before(f, g) /\ Before(g, h) => Before(f, h)
    /\ \A f, g \in Files : f = g \/ Before(f, g) \/ Before(g, f)
<1>1. \A f \in Files : f.stamp \in Nat /\ f.id \in Nat
  BY FilesAreNamed
<1>. QED
  BY <1>1, FilesAreNamed DEF Before

\* Some file of a set comes last.
LEMMA LastExists ==
    ASSUME NEW S \in SUBSET Files, S # {}
    PROVE  \E f \in S : \A g \in S : ~ Before(f, g)
<1>. DEFINE After(f) == {g \in S : Before(f, g)}
            T == {After(f) : f \in S}
<1>1. FiniteSubsetsOf(S) = SUBSET S
  BY FilesAreNamed, FS_Subset, FS_FiniteSubsetsOfFinite
<1>2. T \subseteq SUBSET S /\ T # {}
  OBVIOUS
<1>3. PICK U \in T : \A V \in T : <<V, U>> \notin StrictSubsetOrdering(S)
  <2>. HIDE DEF T
  <2>1. IsWellFoundedOn(StrictSubsetOrdering(S), SUBSET S)
    BY <1>1, FS_StrictSubsetOrderingWellFounded
  <2>. QED
    BY <1>2, <2>1, WFMin
<1>4. PICK f \in S : U = After(f)
  BY <1>3
<1>5. ASSUME NEW g \in S, Before(f, g) PROVE FALSE
  <2>1. After(g) \subseteq After(f) /\ After(g) # After(f)
    BY <1>5, BeforeOrder
  <2>2. <<After(g), After(f)>> \in StrictSubsetOrdering(S)
    BY <2>1 DEF StrictSubsetOrdering
  <2>. QED
    BY <1>3, <1>4, <2>2
<1>. QED
  BY <1>5

\* Some file of a set comes first.
LEMMA FirstExists ==
    ASSUME NEW S \in SUBSET Files, S # {}
    PROVE  \E f \in S : \A g \in S : ~ Before(g, f)
<1>. DEFINE Ahead(f) == {g \in S : Before(g, f)}
            T == {Ahead(f) : f \in S}
<1>1. FiniteSubsetsOf(S) = SUBSET S
  BY FilesAreNamed, FS_Subset, FS_FiniteSubsetsOfFinite
<1>2. T \subseteq SUBSET S /\ T # {}
  OBVIOUS
<1>3. PICK U \in T : \A V \in T : <<V, U>> \notin StrictSubsetOrdering(S)
  <2>. HIDE DEF T
  <2>1. IsWellFoundedOn(StrictSubsetOrdering(S), SUBSET S)
    BY <1>1, FS_StrictSubsetOrderingWellFounded
  <2>. QED
    BY <1>2, <2>1, WFMin
<1>4. PICK f \in S : U = Ahead(f)
  BY <1>3
<1>5. ASSUME NEW g \in S, Before(g, f) PROVE FALSE
  <2>1. Ahead(g) \subseteq Ahead(f) /\ Ahead(g) # Ahead(f)
    BY <1>5, BeforeOrder
  <2>2. <<Ahead(g), Ahead(f)>> \in StrictSubsetOrdering(S)
    BY <2>1 DEF StrictSubsetOrdering
  <2>. QED
    BY <1>3, <1>4, <2>2
<1>. QED
  BY <1>5

\* Among the first n of at most n files there are all of them.
LEMMA FirstIsAll ==
    ASSUME NEW S \in SUBSET Files, NEW n \in Int, Cardinality(S) <= n
    PROVE  First(n, S) = S
<1>. SUFFICES ASSUME NEW f \in S PROVE Cardinality({g \in S : Before(g, f)}) < n
  BY DEF First
<1>. DEFINE B == {g \in S : Before(g, f)}
<1>1. IsFiniteSet(S) /\ f \notin B /\ B \in SUBSET S
  BY FilesAreNamed, FS_Subset, BeforeOrder
<1>2. Cardinality(B) < Cardinality(S)
  BY <1>1, FS_Subset, FS_CardinalityType
<1>. QED
  BY <1>1, <1>2, FS_Subset, FS_CardinalityType

\* A page holds good files past its cursor; its next cursor is past all of them;
\* and what is past the cursor and up to the next one is on the page.
LEMMA PageIsPrefix ==
    ASSUME NEW cursor \in Files \cup {None}, NEW names \in SUBSET Files, NEW size \in 1 .. PageSize,
           NEW page, page = Page(cursor, names, size)
    PROVE  /\ page.records \subseteq Past(cursor, names) \cap Good
           /\ page.bounded = folder.crowded
           /\ page.nextCursor \in Files \cup {None}
           /\ page.nextCursor # None =>
                 /\ page.nextCursor \in Past(cursor, names)
                 /\ \A g \in page.records : g = page.nextCursor \/ Before(g, page.nextCursor)
           /\ \A f \in Past(cursor, names) \cap Good :
                 \/ page.nextCursor = None
                 \/ f = page.nextCursor
                 \/ Before(f, page.nextCursor)
                 => f \in page.records
<1>. DEFINE ordered == Past(cursor, names)
            Ahead(f) == {g \in ordered \cap Good : Before(g, f)}
            GoodBefore(f) == Cardinality(Ahead(f))
            consumed == {f \in ordered :
                            \/ GoodBefore(f) < size
                            \/ size < PageSize /\ f \notin Good /\ GoodBefore(f) = size}
            last == {f \in consumed : \A g \in consumed : ~ Before(f, g)}
            next == IF consumed = ordered THEN None ELSE CHOOSE f \in last : TRUE
<1>1. page.records = consumed \cap Good /\ page.bounded = folder.crowded /\ page.nextCursor = next
  BY DEF Page
<1>2. ordered \subseteq names /\ ordered \subseteq Files /\ Good \subseteq Files /\ PageSize \in Nat
  BY LimitsAreCounts DEF Past, Good
<1>3. \A f \in Files : IsFiniteSet(Ahead(f)) /\ GoodBefore(f) \in Nat
  BY <1>2, FilesAreNamed, FS_Subset, FS_CardinalityType
<1>4. ASSUME NEW f \in ordered, NEW l \in consumed, Before(f, l)
      PROVE  f \in consumed
  <2>1. Ahead(f) \subseteq Ahead(l)
    BY <1>2, <1>4, BeforeOrder
  <2>2. GoodBefore(f) <= GoodBefore(l)
    BY <1>2, <1>3, <2>1, FS_Subset
  <2>3. CASE f \in Good
    <3>1. f \in Ahead(l) /\ f \notin Ahead(f)
      BY <1>2, <1>4, <2>3, BeforeOrder
    <3>2. GoodBefore(f) # GoodBefore(l)
      BY <1>2, <1>3, <2>1, <3>1, FS_Subset
    <3>3. GoodBefore(f) < size
      BY <1>2, <1>3, <2>2, <3>2
    <3>. QED
      BY <3>3
  <2>4. CASE f \notin Good
    BY <1>2, <1>3, <2>2, <2>4
  <2>. QED
    BY <2>3, <2>4
<1>5. ASSUME consumed # ordered
      PROVE  next \in last
  <2>1. PICK f \in ordered : f \notin consumed
    BY <1>5
  <2>2. consumed # {}
    <3>1. PICK g \in ordered : \A h \in ordered : ~ Before(h, g)
      BY <1>2, <2>1, FirstExists
    <3>2. Ahead(g) = {}
      BY <3>1
    <3>3. GoodBefore(g) = 0
      BY <3>2, FS_EmptySet
    <3>. QED
      BY <3>1, <3>3
  <2>3. last # {}
    BY <1>2, <2>2, LastExists
  <2>. QED
    BY <1>5, <2>3
<1>6. ASSUME next # None
      PROVE  /\ next \in ordered /\ next \in consumed
             /\ \A g \in consumed : g = next \/ Before(g, next)
  <2>1. next \in last /\ consumed \subseteq ordered
    BY <1>5, <1>6
  <2>. HIDE DEF next, consumed
  <2>. QED
    BY <1>2, <2>1, BeforeOrder
<1>7. next \in Files \cup {None}
  BY <1>2, <1>6
<1>8. ASSUME NEW f \in ordered \cap Good, next = None \/ f = next \/ Before(f, next)
      PROVE  f \in consumed
  <2>1. CASE next = None
    <3>1. consumed = ordered
      BY <1>5, <1>2, <2>1, FilesAreNamed
    <3>. QED
      BY <3>1
  <2>2. CASE next # None
    BY <1>4, <1>6, <1>8, <2>2
  <2>. QED
    BY <2>1, <2>2
<1>9. consumed \subseteq ordered
  OBVIOUS
<1>. HIDE DEF next, consumed
<1>. QED
  BY <1>1, <1>2, <1>6, <1>7, <1>8, <1>9

-----------------------------------------------------------------------------
(* The walk through the pages *)

\* The cursor is behind everything the walk has seen; what it has seen it has
\* counted once; and unless the folder was shut, what was there all along and is
\* not past the cursor was seen.
WalkInv ==
    /\ look.cursor \in Files \cup {None} /\ look.seen \in SUBSET Files
    /\ look.examined = Cardinality(look.seen)
    /\ look.cursor = None => look.seen = {}
    /\ \A f \in look.seen : f = look.cursor \/ Before(f, look.cursor)
    /\ \A f \in look.seen : disk[f] # "absent"
    /\ seenBefore \subseteq Good
    /\ ~ blind /\ look.cursor # None =>
          \A f \in seenBefore : f = look.cursor \/ Before(f, look.cursor) => f \in look.seen
    /\ ~ blind => missed = {}

\* A page shows good files past the cursor, up to the next one; and, if the folder
\* opens and the scan is not bounded, every one of them.
LEMMA PagesShow ==
    ASSUME NEW cursor \in Files \cup {None}, NEW page \in Pages(cursor)
    PROVE  /\ page.records \in SUBSET Files
           /\ page.records \subseteq Past(cursor, Files) \cap Good
           /\ page.nextCursor \in Files \cup {None}
           /\ page.nextCursor # None =>
                 /\ page.nextCursor \in Past(cursor, Files)
                 /\ \A g \in page.records : g = page.nextCursor \/ Before(g, page.nextCursor)
           /\ folder.opens /\ ~ page.bounded =>
                 \A f \in Past(cursor, Files) \cap Good :
                     \/ page.nextCursor = None
                     \/ f = page.nextCursor
                     \/ Before(f, page.nextCursor)
                     => f \in page.records
<1>1. CASE ~ folder.opens
  BY <1>1 DEF Pages, NoPage
<1>2. CASE folder.opens
  <2>1. PICK names \in Scans, size \in 1 .. PageSize : page = Page(cursor, names, size)
    BY <1>2 DEF Pages
  <2>2. names \in SUBSET Files /\ Past(cursor, names) \subseteq Past(cursor, Files)
    BY DEF Scans, Past
  <2>3. ~ page.bounded => Good \subseteq names
    <3>1. page.bounded = folder.crowded
      BY <2>1, <2>2, PageIsPrefix
    <3>. QED
      BY <3>1 DEF Scans, Good
  <2>4. ~ page.bounded => Past(cursor, Files) \cap Good \subseteq Past(cursor, names)
    BY <2>3 DEF Past
  <2>5. /\ page.records \subseteq Past(cursor, names) \cap Good
        /\ page.nextCursor \in Files \cup {None}
        /\ page.nextCursor # None =>
              /\ page.nextCursor \in Past(cursor, names)
              /\ \A g \in page.records : g = page.nextCursor \/ Before(g, page.nextCursor)
        /\ \A f \in Past(cursor, names) \cap Good :
              \/ page.nextCursor = None
              \/ f = page.nextCursor
              \/ Before(f, page.nextCursor)
              => f \in page.records
    BY <2>1, <2>2, PageIsPrefix
  <2>6. page.records \in SUBSET Files
    BY <2>2, <2>5 DEF Past
  <2>. QED
    BY <2>2, <2>4, <2>5, <2>6
<1>. QED
  BY <1>1, <1>2

\* Two sets with nothing in common have as many elements as they have together.
LEMMA DisjointUnion ==
    ASSUME NEW S, NEW T, IsFiniteSet(S), IsFiniteSet(T), S \cap T = {}
    PROVE  Cardinality(S \cup T) = Cardinality(S) + Cardinality(T)
<1>1. Cardinality(S \cup T) = Cardinality(S) + Cardinality(T) - Cardinality(S \cap T)
  BY FS_Union
<1>2. Cardinality(S \cap T) = 0
  BY FS_EmptySet
<1>3. Cardinality(S) \in Nat /\ Cardinality(T) \in Nat
  BY FS_CardinalityType
<1>. QED
  BY <1>1, <1>2, <1>3

\* Turning a page examines good files the walk has not seen, and counts each once.
LEMMA TurnCounts ==
    ASSUME WalkInv, NEW page \in Pages(look.cursor)
    PROVE  /\ Taken(page) \subseteq page.records
           /\ look.seen \cap Taken(page) = {}
           /\ Turn(page).seen = look.seen \cup Taken(page)
           /\ Turn(page).seen \in SUBSET Files
           /\ Turn(page).examined = Cardinality(Turn(page).seen)
<1>1. page.records \in SUBSET Files /\ page.records \subseteq Past(look.cursor, Files)
  BY PagesShow DEF WalkInv
<1>2. Taken(page) \subseteq page.records
  BY DEF Taken, First
<1>3. look.seen \cap Taken(page) = {}
  BY <1>1, <1>2, BeforeOrder DEF WalkInv, Past
<1>4. /\ Turn(page).seen = look.seen \cup Taken(page)
      /\ Turn(page).examined = look.examined + Cardinality(Taken(page))
  BY DEF Turn
<1>5. IsFiniteSet(look.seen) /\ IsFiniteSet(Taken(page))
  BY <1>1, <1>2, FilesAreNamed, FS_Subset DEF WalkInv
<1>6. Cardinality(look.seen \cup Taken(page)) = Cardinality(look.seen) + Cardinality(Taken(page))
  BY <1>3, <1>5, DisjointUnion
<1>. QED
  BY <1>1, <1>2, <1>3, <1>4, <1>6 DEF WalkInv

\* Unless the folder is shut or the walk stops, what was there all along and is
\* not past the new cursor has been seen.
LEMMA TurnMisses ==
    ASSUME WalkInv, NEW page \in Pages(look.cursor), Turn(page).stopped = None,
           folder.opens, ~ blind,
           NEW f \in seenBefore,
           \/ page.nextCursor = None
           \/ f = page.nextCursor
           \/ Before(f, page.nextCursor)
    PROVE  f \in Turn(page).seen
<1>1. ~ page.bounded /\ ~ (Cardinality(page.records) > MaxCandidates - look.examined)
  BY NoneIsNoReason DEF Turn
<1>2. f \in Files /\ f \in Good
  BY DEF WalkInv, Good
<1>3. CASE f \in Past(look.cursor, Files)
  <2>1. f \in page.records
    BY <1>1, <1>2, <1>3, PagesShow DEF WalkInv
  <2>2. page.records \in SUBSET Files /\ IsFiniteSet(page.records) /\ IsFiniteSet(look.seen)
    BY PagesShow, FilesAreNamed, FS_Subset DEF WalkInv
  <2>3. Cardinality(page.records) \in Nat /\ look.examined \in Nat /\ MaxCandidates \in Nat
    BY <2>2, FS_CardinalityType, LimitsAreCounts DEF WalkInv
  <2>4. Cardinality(page.records) <= MaxCandidates - look.examined /\ MaxCandidates - look.examined \in Int
    BY <1>1, <2>3
  <2>5. Taken(page) = page.records
    BY <2>2, <2>4, FirstIsAll DEF Taken
  <2>. QED
    BY <2>1, <2>5 DEF Turn
<1>4. CASE f \notin Past(look.cursor, Files)
  <2>1. look.cursor # None /\ ~ Before(look.cursor, f)
    BY <1>2, <1>4 DEF Past
  <2>2. f \in look.seen
    BY <1>2, <2>1, BeforeOrder DEF WalkInv
  <2>. QED
    BY <2>2 DEF Turn
<1>. QED
  BY <1>3, <1>4

\* A page that does not end the walk leaves it with a cursor.
LEMMA TurnGoesOn ==
    ASSUME WalkInv, NEW page \in Pages(look.cursor), ~ Turn(page).over,
           look' = Turn(page), UNCHANGED <<disk, seenBefore>>, Witnessed(Turn(page))
    PROVE  WalkInv'
<1>1. /\ Turn(page).cursor = page.nextCursor /\ page.nextCursor # None
      /\ Turn(page).stopped = None
  BY DEF Turn
<1>2. blind' = (blind \/ ~ folder.opens) /\ missed' = missed
  BY <1>1 DEF Witnessed
<1>3. /\ page.nextCursor \in Files /\ page.nextCursor \in Past(look.cursor, Files)
      /\ \A g \in page.records : g = page.nextCursor \/ Before(g, page.nextCursor)
      /\ page.records \subseteq Good
  BY <1>1, PagesShow DEF WalkInv
<1>4. \A f \in Turn(page).seen : f = page.nextCursor \/ Before(f, page.nextCursor)
  <2>1. ASSUME NEW f \in look.seen PROVE Before(f, page.nextCursor)
    BY <1>3, <2>1, BeforeOrder DEF WalkInv, Past
  <2>. QED
    BY <1>3, <2>1, TurnCounts
<1>5. \A f \in Turn(page).seen : disk[f] # "absent"
  BY <1>3, TurnCounts DEF WalkInv, Good
<1>6. ASSUME ~ blind', NEW f \in seenBefore, f = page.nextCursor \/ Before(f, page.nextCursor)
      PROVE  f \in Turn(page).seen
  BY <1>1, <1>2, <1>6, TurnMisses
<1>7. Good' = Good
  BY DEF Good
<1>. QED
  BY <1>1, <1>2, <1>3, <1>4, <1>5, <1>6, <1>7, TurnCounts DEF WalkInv

\* A page that ends the walk leaves a fresh one.
LEMMA TurnEnds ==
    ASSUME WalkInv, NEW page \in Pages(look.cursor), Turn(page).over,
           look' = NoLook, seenBefore' = {}, UNCHANGED disk, Witnessed(Turn(page))
    PROVE  WalkInv'
<1>1. blind' = (blind \/ ~ folder.opens)
  BY DEF Witnessed
<1>2. ASSUME ~ blind'
      PROVE  missed' = {}
  <2>1. CASE Turn(page).stopped = None
    <3>1. page.nextCursor = None
      BY <2>1 DEF Turn
    <3>2. \A f \in seenBefore : f \in Turn(page).seen
      BY <1>1, <1>2, <2>1, <3>1, TurnMisses
    <3>. QED
      BY <1>1, <1>2, <2>1, <3>2 DEF Witnessed, WalkInv
  <2>2. CASE Turn(page).stopped # None
    BY <1>1, <1>2, <2>2 DEF Witnessed, WalkInv
  <2>. QED
    BY <2>1, <2>2
<1>. QED
  BY <1>2, FS_EmptySet DEF WalkInv, NoLook

\* The files there are, and where the walks begin.
StoreInv == disk \in [Files -> {"absent", "good", "damaged"}]

FreshInv ==
    /\ phase \in {"retrieve", "read"} => tally = NoVotes
    /\ phase = "read" => look = NoLook

\* Every step keeps the walk's account.
LEMMA WalkStep ==
    ASSUME StoreInv, WalkInv, FreshInv, [Next]_vars
    PROVE  StoreInv' /\ WalkInv' /\ FreshInv'
<1>. USE DEF store
<1>0. ASSUME NEW itemsNow, NEW omittedNow, OnWith(itemsNow, omittedNow)
      PROVE  look' = NoLook /\ seenBefore' = {} /\ FreshInv'
  BY <1>0 DEF OnWith, FreshInv
<1>1. CASE RetrievePage
  <2>1. PICK page \in Pages(look.cursor) :
           /\ Witnessed(Turn(page))
           /\ IF ~ Turn(page).over
              THEN look' = Turn(page) /\ UNCHANGED <<phase, seenBefore>>
              ELSE look' = NoLook /\ seenBefore' = {} /\ phase' \in {"done", "read"}
    BY <1>1 DEF RetrievePage
  <2>2. phase = "retrieve" /\ UNCHANGED <<disk, tally>>
    BY <1>1 DEF RetrievePage
  <2>3. CASE Turn(page).over
    BY <2>1, <2>2, <2>3, TurnEnds DEF StoreInv, FreshInv
  <2>4. CASE ~ Turn(page).over
    BY <2>1, <2>2, <2>4, TurnGoesOn DEF StoreInv, FreshInv
  <2>. QED
    BY <2>3, <2>4
<1>2. CASE SubjectIsRefused
  <2>1. look' = NoLook /\ seenBefore' = {} /\ FreshInv'
    BY <1>0, <1>2 DEF SubjectIsRefused
  <2>2. disk' = disk /\ missed' = missed /\ (blind => blind')
    BY <1>2 DEF SubjectIsRefused
  <2>. QED
    BY <2>1, <2>2, FS_EmptySet DEF StoreInv, WalkInv, NoLook
<1>3. CASE SubjectIsNotFound
  BY <1>3 DEF SubjectIsNotFound, StoreInv, WalkInv, FreshInv, Good
<1>4. CASE ReadSubject
  <2>1. look' = NoLook /\ seenBefore' = Good /\ Good' = Good /\ FreshInv'
    BY <1>4 DEF ReadSubject, FreshInv, Good
  <2>2. disk' = disk /\ missed' = missed /\ blind' = blind
    BY <1>4 DEF ReadSubject
  <2>. QED
    BY <2>1, <2>2, FS_EmptySet DEF StoreInv, WalkInv, NoLook
<1>5. CASE CollectPage
  <2>1. PICK page \in Pages(look.cursor) :
           /\ Witnessed(Turn(page))
           /\ IF ~ Turn(page).over
              THEN look' = Turn(page) /\ UNCHANGED <<phase, seenBefore>>
              ELSE \E itemsNow, omittedNow : OnWith(itemsNow, omittedNow)
    BY <1>5 DEF CollectPage
  <2>2. phase = "collect" /\ UNCHANGED disk
    BY <1>5 DEF CollectPage
  <2>3. CASE Turn(page).over
    BY <1>0, <2>1, <2>2, <2>3, TurnEnds DEF StoreInv
  <2>4. CASE ~ Turn(page).over
    BY <2>1, <2>2, <2>4, TurnGoesOn DEF StoreInv, FreshInv
  <2>. QED
    BY <2>3, <2>4
<1>6. CASE Others
  <2>1. UNCHANGED <<phase, look, tally, missed, blind>>
    BY <1>6 DEF Others
  <2>2. CASE \E f \in Files : Learn(f)
    BY <2>1, <2>2 DEF Learn, StoreInv, WalkInv, FreshInv, Good
  <2>3. CASE \E f \in Files : Damage(f)
    BY <2>1, <2>3 DEF Damage, StoreInv, WalkInv, FreshInv, Good
  <2>4. CASE Shut
    BY <2>1, <2>4 DEF Shut, StoreInv, WalkInv, FreshInv, Good
  <2>. QED
    BY <1>6, <2>2, <2>3, <2>4 DEF Others
<1>7. CASE UNCHANGED vars
  BY <1>7 DEF vars, StoreInv, WalkInv, FreshInv, Good
<1>. QED
  BY <1>1, <1>2, <1>3, <1>4, <1>5, <1>6, <1>7 DEF Next, Builder

LEMMA WalkInit == Init => StoreInv /\ WalkInv /\ FreshInv
BY FS_EmptySet DEF Init, StoreInv, WalkInv, FreshInv, NoLook, Good

\* Whatever is filed, damaged or shut meanwhile, the walks keep their account.
THEOREM WalkInvariant == Spec => [](StoreInv /\ WalkInv /\ FreshInv)
BY WalkInit, WalkStep, PTL DEF Spec

\* The cursor of list() never shows a record again: what a walk has counted is
\* what it has seen.
THEOREM ReadsOnce == Spec => []NothingIsReadTwice
<1>1. WalkInv => NothingIsReadTwice
  BY DEF WalkInv, NothingIsReadTwice
<1>. QED
  BY <1>1, WalkInvariant, PTL

\* A walk that says it saw the whole history saw every record that was there,
\* undamaged, from its start to its end, unless the folder refused to open.
THEOREM CompleteLooks == Spec => []CompleteLooksSawEverything
<1>1. WalkInv => CompleteLooksSawEverything
  BY DEF WalkInv, CompleteLooksSawEverything
<1>. QED
  BY <1>1, WalkInvariant, PTL

-----------------------------------------------------------------------------
(* The votes *)

\* A score that reads as supported was not capped, and has three votes behind it:
\* with fewer its volume, with an incomplete look its weight, keeps it below 70.
LEMMA SupportedNeedsThree ==
    ASSUME NEW supporting \in Nat, NEW contradicting \in Nat, NEW complete \in BOOLEAN,
           StatusFor(Assess(supporting, contradicting, complete)) = "supported"
    PROVE  complete /\ supporting >= 3
<1>. DEFINE n == supporting + contradicting
            consistency == (100 * supporting) \div n
            volume == (100 * (IF n < VolumeSaturation THEN n ELSE VolumeSaturation))
                        \div VolumeSaturation
            raw == (consistency * volume) \div 100
<1>1. n # 0 /\ n \in Nat
  <2>1. CASE n = 0
    <3>1. Assess(supporting, contradicting, complete) = None
      BY <2>1 DEF Assess
    <3>. QED
      BY <3>1 DEF StatusFor
  <2>. QED
    BY <2>1
<1>2. (IF complete THEN raw ELSE (raw * BoundedCoverageWeight) \div 100) >= 70
  BY <1>1 DEF Assess, StatusFor, SupportedAtOrAbove
<1>3. consistency \in 0 .. 100
  <2>1. 100 * supporting <= 100 * n
    OBVIOUS
  <2>. QED
    BY <1>1, <2>1
<1>4. n < 3 => volume \in 0 .. 66
  BY <1>1 DEF VolumeSaturation
<1>5. n >= 3 => volume = 100
  BY <1>1 DEF VolumeSaturation
<1>6. volume \in 0 .. 100
  BY <1>1, <1>4, <1>5
<1>. HIDE DEF n, consistency, volume
<1>7. ASSUME n < 3 PROVE raw <= 66
  <2>1. consistency * volume <= 100 * 66 /\ consistency * volume \in Nat
    BY <1>3, <1>4, <1>7
  <2>. QED
    BY <2>1
<1>8. raw \in 0 .. 100
  <2>1. consistency * volume <= 100 * 100 /\ consistency * volume \in Nat
    BY <1>3, <1>6
  <2>. QED
    BY <2>1
<1>9. complete
  BY <1>2, <1>8 DEF raw, BoundedCoverageWeight
<1>10. n >= 3 /\ consistency >= 70
  <2>1. raw >= 70
    BY <1>2, <1>9
  <2>2. n >= 3
    BY <1>1, <1>7, <1>8, <2>1
  <2>3. raw = (consistency * 100) \div 100
    BY <1>5, <2>2
  <2>. QED
    BY <1>3, <2>1, <2>2, <2>3
<1>11. 100 * supporting >= 70 * n
  BY <1>1, <1>10 DEF consistency, n
<1>12. supporting >= 3
  <2>. HIDE DEF n
  <2>1. 100 * supporting >= 210
    BY <1>1, <1>10, <1>11
  <2>. QED
    BY <2>1
<1>. QED
  BY <1>9, <1>12

\* The others of a set that bear the subject's approach out, or speak against it.
VotersFor(S, relation) ==
    {f \in S \ {subject} :
        Comparable(Rec(f), Rec(subject)) /\ Relate(Rec(f), ApproachesOf(Rec(subject))) = relation}

\* While the history is collected the tally is the votes of what was seen.
TallyInv ==
    phase = "collect" =>
        /\ tally.supporting = Cardinality(VotersFor(look.seen, "supporting"))
        /\ tally.contradicting = Cardinality(VotersFor(look.seen, "contradicting"))

\* Turning a page adds its votes, each counted for the first time.
LEMMA TurnVotes ==
    ASSUME WalkInv, TallyInv, phase = "collect", NEW page \in Pages(look.cursor),
           NEW relation \in {"supporting", "contradicting"}
    PROVE  /\ Votes(page)[relation] = Cardinality(VotersFor(Turn(page).seen, relation))
           /\ Votes(page)[relation] \in Nat
<1>. DEFINE old == VotersFor(look.seen, relation)
            new == VotersFor(Taken(page), relation)
<1>1. Turn(page).seen = look.seen \cup Taken(page) /\ look.seen \cap Taken(page) = {}
      /\ Turn(page).seen \in SUBSET Files
  BY TurnCounts
<1>2. IsFiniteSet(look.seen) /\ IsFiniteSet(Taken(page))
  BY <1>1, FilesAreNamed, FS_Subset
<1>3. IsFiniteSet(old) /\ IsFiniteSet(new) /\ old \cap new = {}
  BY <1>1, <1>2, FS_Subset DEF VotersFor
<1>4. VotersFor(Turn(page).seen, relation) = old \cup new
  BY <1>1 DEF VotersFor
<1>5. Votes(page)[relation] = tally[relation] + Cardinality(new)
  <2>1. relation \in DOMAIN NoVotes
    BY DEF NoVotes
  <2>2. new = {f \in Cohort(page) : Relate(Rec(f), ApproachesOf(Rec(subject))) = relation}
    BY DEF VotersFor, Cohort
  <2>. QED
    BY <2>1, <2>2 DEF Votes
<1>6. tally[relation] = Cardinality(old)
  BY DEF TallyInv
<1>7. Cardinality(old) \in Nat /\ Cardinality(new) \in Nat
  BY <1>3, FS_CardinalityType
<1>. QED
  BY <1>3, <1>4, <1>5, <1>6, <1>7, DisjointUnion

\* Who votes for a subject backs it.
LEMMA VotersBack ==
    ASSUME WalkInv, NEW page \in Pages(look.cursor), NEW item, item.experienceId = subject
    PROVE  /\ VotersFor(Turn(page).seen, "supporting") \subseteq Backers(item)
           /\ Backers(item) \in SUBSET Files
<1>1. ASSUME NEW f \in VotersFor(Turn(page).seen, "supporting")
      PROVE  f \in Backers(item)
  <2>1. f \in Turn(page).seen /\ f # subject
    BY <1>1 DEF VotersFor
  <2>2. f \in Files /\ disk[f] # "absent"
    BY <2>1, TurnCounts, PagesShow DEF WalkInv, Good
  <2>3. /\ Rec(f).taskType = Rec(subject).taskType
        /\ Rec(f).successfulPatterns \cap ApproachesOf(Rec(subject)) # {}
        /\ Rec(f).sources \cap INDEPENDENT_SOURCES # {}
    BY <1>1 DEF VotersFor, Comparable, Relate, Admissible
  <2>. QED
    BY <2>1, <2>2, <2>3 DEF Backers
<1>. QED
  BY <1>1 DEF Backers

\* Whoever backs an item goes on backing it.
LEMMA BackersStay ==
    ASSUME NEW item, corpus' = corpus,
           \A f \in Files : disk[f] # "absent" => disk'[f] # "absent",
           Cardinality(Backers(item)) >= 3
    PROVE  (Cardinality(Backers(item)) >= 3)'
<1>1. Backers(item) \subseteq Backers(item)' /\ Backers(item)' \subseteq Files
  BY DEF Backers, Rec
<1>2. IsFiniteSet(Backers(item)') /\ Cardinality(Backers(item)) <= Cardinality(Backers(item)')
  BY <1>1, FilesAreNamed, FS_Subset
<1>3. Cardinality(Backers(item)) \in Nat /\ Cardinality(Backers(item)') \in Nat
  BY <1>1, <1>2, FS_Subset, FS_CardinalityType
<1>. QED
  BY <1>2, <1>3

-----------------------------------------------------------------------------
(* What was judged, and what is presented of it *)

\* A candidate that was evaluated is presented, or another like it is, or its
\* omission is counted as one that leaves the presentation partial.
Accounted(item) ==
    \/ omitted["presentation_limit"] > 0
    \/ omitted["size_limit"] > 0
    \/ \E other \in items : Rendered(other) = Rendered(item)

JudgedInv ==
    /\ \A item \in items \cup judged : "status" \in DOMAIN item
    /\ omitted \in [OmissionReason -> Nat]
    /\ \A item \in judged :
          /\ item.status = "supported" =>
                Cardinality(Backers(item)) >= 3 /\ ~ item.evaluationBounded
          /\ item.status = "contradicted" => Accounted(item)
    /\ phase = "done" =>
          \/ signal.kind \in {"none", "unavailable"}
          \/ signal.kind = "present" /\ signal.items = items /\ signal.omitted = omitted

\* On to the next candidate with nothing less presented or omitted, the account
\* of those judged before stays, and the signal is what is presented.
LEMMA OnWithKeeps ==
    ASSUME JudgedInv, NEW itemsNow, NEW omittedNow, OnWith(itemsNow, omittedNow),
           items \subseteq itemsNow, \A item \in itemsNow : "status" \in DOMAIN item,
           omittedNow \in [OmissionReason -> Nat],
           \A r \in OmissionReason : omittedNow[r] >= omitted[r],
           UNCHANGED <<corpus, disk>>, judged \subseteq judged',
           \A item \in judged' \ judged :
               /\ "status" \in DOMAIN item
               /\ item.status = "supported" =>
                     Cardinality(Backers(item)) >= 3 /\ ~ item.evaluationBounded
               /\ item.status = "contradicted" => Accounted(item)'
    PROVE  JudgedInv'
<1>1. items' = itemsNow /\ omitted' = omittedNow
  BY DEF OnWith
<1>2. \A item : Backers(item)' = Backers(item)
  BY DEF Backers, Rec
<1>3. ASSUME NEW item \in judged, Accounted(item)
      PROVE  Accounted(item)'
  <2>1. \A r \in OmissionReason : omitted[r] \in Nat /\ omittedNow[r] \in Nat
    BY DEF JudgedInv
  <2>2. {"presentation_limit", "size_limit"} \subseteq OmissionReason
    BY DEF OmissionReason, CAPPING_OMISSIONS
  <2>. QED
    BY <1>1, <1>3, <2>1, <2>2 DEF Accounted
<1>4. phase' = "done" =>
         signal'.kind = "present" /\ signal'.items = items' /\ signal'.omitted = omitted'
  BY <1>1 DEF OnWith, Present
<1>5. \A item \in judged' :
         /\ "status" \in DOMAIN item
         /\ item.status = "supported" => (Cardinality(Backers(item)) >= 3)' /\ ~ item.evaluationBounded
         /\ item.status = "contradicted" => Accounted(item)'
  BY <1>2, <1>3 DEF JudgedInv
<1>. QED
  BY <1>1, <1>4, <1>5 DEF JudgedInv

LEMMA OmitCounts ==
    ASSUME JudgedInv, NEW reason \in OmissionReason
    PROVE  /\ Omit(reason) \in [OmissionReason -> Nat]
           /\ \A r \in OmissionReason : Omit(reason)[r] >= omitted[r]
           /\ Omit(reason)[reason] > 0
BY DEF JudgedInv, Omit

\* Where the candidates, the records and the presentation are left alone, what
\* was judged stays accounted for: records may be added and damaged, not removed.
LEMMA JudgedStay ==
    ASSUME JudgedInv, UNCHANGED <<corpus, items, judged, omitted>>,
           \A f \in Files : disk[f] # "absent" => disk'[f] # "absent",
           phase' = "done" =>
               signal'.kind \in {"none", "unavailable"} \/ (phase = "done" /\ signal' = signal)
    PROVE  JudgedInv'
<1>1. ASSUME NEW item \in judged, Cardinality(Backers(item)) >= 3
      PROVE  (Cardinality(Backers(item)) >= 3)'
  BY <1>1, BackersStay
<1>2. \A item : Accounted(item)' <=> Accounted(item)
  BY DEF Accounted
<1>. QED
  BY <1>1, <1>2 DEF JudgedInv

\* A walk through the cohort that ends adds one candidate, judged by the votes of
\* everything it saw, and presents it or says why not.
LEMMA JudgedCollect ==
    ASSUME StoreInv, WalkInv, TallyInv, JudgedInv, CollectPage
    PROVE  TallyInv' /\ JudgedInv'
<1>1. /\ phase = "collect" /\ UNCHANGED <<corpus, disk>>
  BY DEF CollectPage, store
<1>2. PICK page \in Pages(look.cursor) :
         LET turned == Turn(page)
             votes == Votes(page)
             item == Item(votes, turned.stopped = None)
             why == WhyNot(item)
         IN  IF ~ turned.over
             THEN /\ look' = turned
                  /\ tally' = votes
                  /\ UNCHANGED <<phase, results, items, omitted, signal, judged>>
             ELSE /\ judged' = judged \cup {item}
                  /\ IF why = None
                     THEN OnWith(items \cup {item}, omitted)
                     ELSE OnWith(items, Omit(why))
  BY DEF CollectPage
<1>. DEFINE votes == Votes(page)
            complete == Turn(page).stopped = None
            item == Item(votes, complete)
            why == WhyNot(item)
<1>3. /\ votes.supporting = Cardinality(VotersFor(Turn(page).seen, "supporting"))
      /\ votes.contradicting = Cardinality(VotersFor(Turn(page).seen, "contradicting"))
      /\ votes.supporting \in Nat /\ votes.contradicting \in Nat
  BY <1>1, TurnVotes
<1>4. CASE ~ Turn(page).over
  <2>1. look' = Turn(page) /\ tally' = votes /\ results' = results
    BY <1>2, <1>4
  <2>2. UNCHANGED <<phase, items, omitted, signal, judged>>
    BY <1>2, <1>4
  <2>3. VotersFor(Turn(page).seen, "supporting") = VotersFor(look.seen, "supporting")'
    BY <1>1, <2>1 DEF VotersFor, Rec, subject
  <2>4. VotersFor(Turn(page).seen, "contradicting") = VotersFor(look.seen, "contradicting")'
    BY <1>1, <2>1 DEF VotersFor, Rec, subject
  <2>5. TallyInv'
    BY <1>3, <2>1, <2>3, <2>4 DEF TallyInv
  <2>6. JudgedInv'
    BY <1>1, <2>2, JudgedStay
  <2>. QED
    BY <2>5, <2>6
<1>5. CASE Turn(page).over
  <2>1. PICK j : j = item
    OBVIOUS
  <2>2. /\ "status" \in DOMAIN j /\ j.experienceId = subject
        /\ j.confidence = Assess(votes.supporting, votes.contradicting, complete)
        /\ j.status = StatusFor(j.confidence)
        /\ j.evaluationBounded = ~ complete
    BY <2>1 DEF Item
  <2>3. /\ judged' = judged \cup {j}
        /\ IF why = None
           THEN OnWith(items \cup {j}, omitted)
           ELSE OnWith(items, Omit(why))
    BY <1>2, <1>5, <2>1
  <2>4. /\ why \in {None, "insufficient_evidence", "presentation_limit", "size_limit", "duplicate"}
        /\ why # None /\ why = "insufficient_evidence" => j.confidence = None
        /\ why # None /\ why = "duplicate" => \E other \in items : Rendered(other) = Rendered(j)
    BY <2>1 DEF WhyNot
  <2>. HIDE DEF item, votes, complete, why
  <2>5. ASSUME j.status = "supported"
        PROVE  Cardinality(Backers(j)) >= 3 /\ ~ j.evaluationBounded
    <3>1. complete \in BOOLEAN
      BY DEF complete
    <3>2. complete /\ votes.supporting >= 3
      BY <1>3, <2>2, <2>5, <3>1, SupportedNeedsThree
    <3>3. /\ Cardinality(VotersFor(Turn(page).seen, "supporting")) <= Cardinality(Backers(j))
          /\ Cardinality(Backers(j)) \in Nat
      BY <2>2, VotersBack, FilesAreNamed, FS_Subset, FS_CardinalityType
    <3>4. Cardinality(VotersFor(Turn(page).seen, "supporting")) >= 3
          /\ Cardinality(VotersFor(Turn(page).seen, "supporting")) \in Nat
      BY <1>3, <3>2
    <3>5. Cardinality(Backers(j)) >= 3
      BY <3>3, <3>4
    <3>. QED
      BY <2>2, <3>2, <3>5
  <2>6. CASE why = None
    <3>1. OnWith(items \cup {j}, omitted)
      BY <2>3, <2>6
    <3>2. Accounted(j)'
      BY <3>1 DEF OnWith, Accounted
    <3>3. /\ omitted \in [OmissionReason -> Nat]
          /\ \A r \in OmissionReason : omitted[r] >= omitted[r]
          /\ \A i \in items \cup {j} : "status" \in DOMAIN i
      BY <2>2 DEF JudgedInv
    <3>4. JudgedInv'
      BY <1>1, <2>2, <2>3, <2>5, <3>1, <3>2, <3>3, OnWithKeeps
    <3>5. phase' # "collect"
      BY <3>1 DEF OnWith
    <3>. QED
      BY <3>4, <3>5 DEF TallyInv
  <2>7. CASE why # None
    <3>1. OnWith(items, Omit(why))
      BY <2>3, <2>7
    <3>2. why \in OmissionReason
      BY <2>4, <2>7 DEF OmissionReason, CAPPING_OMISSIONS
    <3>3. PICK reason \in OmissionReason : reason = why
      BY <3>2
    <3>4. /\ items' = items /\ omitted' = Omit(reason)
          /\ Omit(reason) \in [OmissionReason -> Nat]
          /\ \A r \in OmissionReason : Omit(reason)[r] >= omitted[r]
          /\ Omit(reason)[reason] > 0
      BY <3>1, <3>3, OmitCounts DEF OnWith
    <3>5. j.status = "contradicted" => Accounted(j)'
      <4>1. j.status = "contradicted" => reason # "insufficient_evidence"
        BY <2>2, <2>4, <2>7, <3>3 DEF StatusFor
      <4>2. CASE reason = "duplicate"
        BY <2>4, <2>7, <3>3, <3>4, <4>2 DEF Accounted
      <4>3. CASE reason \in {"presentation_limit", "size_limit"}
        BY <3>4, <4>3 DEF Accounted
      <4>. QED
        BY <2>4, <2>7, <3>3, <4>1, <4>2, <4>3
    <3>6. OnWith(items, Omit(reason)) /\ \A i \in items : "status" \in DOMAIN i
      BY <3>1, <3>3 DEF JudgedInv
    <3>7. JudgedInv'
      BY <1>1, <2>2, <2>3, <2>5, <3>4, <3>5, <3>6, OnWithKeeps
    <3>8. phase' # "collect"
      BY <3>1 DEF OnWith
    <3>. QED
      BY <3>7, <3>8 DEF TallyInv
  <2>. QED
    BY <2>6, <2>7
<1>. QED
  BY <1>4, <1>5

\* Every step keeps the account of what was judged.
LEMMA JudgedStep ==
    ASSUME StoreInv, WalkInv, FreshInv, TallyInv, JudgedInv, [Next]_vars
    PROVE  TallyInv' /\ JudgedInv'
<1>. USE DEF store
<1>1. CASE RetrievePage
  <2>1. /\ phase = "retrieve" /\ UNCHANGED <<corpus, disk, items, judged, omitted>>
        /\ phase' \in {"retrieve", "done", "read"}
        /\ phase' = "done" => \E bounded : signal' = Nothing(bounded)
    BY <1>1 DEF RetrievePage
  <2>2. phase' = "done" => signal'.kind \in {"none", "unavailable"}
    BY <2>1 DEF Nothing
  <2>. QED
    BY <2>1, <2>2, JudgedStay DEF TallyInv
<1>2. CASE SubjectIsRefused
  <2>1. PICK reason \in OmissionReason : reason = "evaluation_failed"
    BY DEF OmissionReason
  <2>2. /\ OnWith(items, Omit(reason))
        /\ UNCHANGED <<corpus, disk, judged>>
    BY <1>2, <2>1 DEF SubjectIsRefused
  <2>3. \A item \in items : "status" \in DOMAIN item
    BY DEF JudgedInv
  <2>4. JudgedInv'
    BY <2>2, <2>3, OmitCounts, OnWithKeeps
  <2>5. phase' # "collect"
    BY <2>2 DEF OnWith
  <2>. QED
    BY <2>4, <2>5 DEF TallyInv
<1>3. CASE SubjectIsNotFound
  <2>1. /\ UNCHANGED <<corpus, disk, items, judged, omitted>> /\ phase' = "done"
        /\ signal' = Unavailable("storage_failed")
    BY <1>3 DEF SubjectIsNotFound
  <2>2. signal'.kind = "unavailable"
    BY <2>1 DEF Unavailable
  <2>. QED
    BY <2>1, <2>2, JudgedStay DEF TallyInv
<1>4. CASE ReadSubject
  <2>1. /\ UNCHANGED <<corpus, disk, items, judged, omitted, look, tally>>
        /\ phase = "read" /\ phase' = "collect"
    BY <1>4 DEF ReadSubject
  <2>2. look = NoLook /\ tally = NoVotes
    BY <2>1 DEF FreshInv
  <2>3. VotersFor(look.seen, "supporting")' = {} /\ VotersFor(look.seen, "contradicting")' = {}
    BY <2>1, <2>2 DEF VotersFor, NoLook
  <2>4. TallyInv'
    BY <2>1, <2>2, <2>3, FS_EmptySet DEF TallyInv, NoVotes
  <2>. QED
    BY <2>1, <2>4, JudgedStay
<1>5. CASE CollectPage
  BY <1>5, JudgedCollect
<1>6. CASE Others
  <2>1. /\ UNCHANGED <<phase, look, results, tally, items, omitted, judged>> /\ phase # "done"
    BY <1>6 DEF Others
  <2>2. corpus' = corpus /\ \A f \in Files : disk[f] # "absent" => disk'[f] # "absent"
    BY <1>6 DEF Others, Learn, Damage, Shut, StoreInv
  <2>3. \A r : VotersFor(look.seen, r)' = VotersFor(look.seen, r)
    BY <2>1, <2>2 DEF VotersFor, Rec, subject
  <2>4. TallyInv'
    BY <2>1, <2>3 DEF TallyInv
  <2>. QED
    BY <2>1, <2>2, <2>4, JudgedStay
<1>7. CASE UNCHANGED vars
  <2>1. /\ UNCHANGED <<phase, look, results, tally, items, omitted, judged, signal, corpus, disk>>
    BY <1>7 DEF vars
  <2>2. \A r : VotersFor(look.seen, r)' = VotersFor(look.seen, r)
    BY <2>1 DEF VotersFor, Rec, subject
  <2>3. TallyInv'
    BY <2>1, <2>2 DEF TallyInv
  <2>. QED
    BY <2>1, <2>3, JudgedStay
<1>. QED
  BY <1>1, <1>2, <1>3, <1>4, <1>5, <1>6, <1>7 DEF Next, Builder

LEMMA JudgedInit == Init => TallyInv /\ JudgedInv
<1>1. [r \in OmissionReason |-> 0] \in [OmissionReason -> Nat]
  OBVIOUS
<1>. QED
  BY <1>1 DEF Init, TallyInv, JudgedInv

\* Along with the walk's account: the tally of a walk is the votes of what it has
\* seen, and each candidate judged is presented, stood in for, or counted as left out.
THEOREM AdviceInvariant == Spec => [](StoreInv /\ WalkInv /\ FreshInv /\ TallyInv /\ JudgedInv)
BY WalkInit, WalkStep, JudgedInit, JudgedStep, PTL DEF Spec

\* An approach is called supported only where three other records of the same kind
\* of task, each backed by more than the agent's word, reported it worked, and the
\* evaluator looked at every page (assess, applicability.ts).
THEOREM SupportIsEarned == Spec => []SupportedIsEarned
<1>1. JudgedInv => SupportedIsEarned
  BY DEF JudgedInv, SupportedIsEarned
<1>. QED
  BY <1>1, AdviceInvariant, PTL

\* A posture that says established and whole hides no contradiction: the
\* contradicted candidate would be in it, or its omission would bound it
\* (boundsOf and postureOf, strategy.ts).
THEOREM NoContradictionHidden == Spec => []PostureHidesNoContradiction
<1>1. ASSUME JudgedInv, phase = "done", Strategy.kind = "proposal",
             Strategy.posture = "established", ~ Strategy.bounded,
             NEW item \in judged, item.status = "contradicted"
      PROVE  FALSE
  <2>1. signal.kind = "present" /\ signal.items = items /\ signal.omitted = omitted
    BY <1>1 DEF JudgedInv, Strategy, DeriveStrategy
  <2>2. /\ Strategy.posture = PostureOf({other.status : other \in items})
        /\ Strategy.bounded = (BoundsOf(signal) # {})
    <3>1. ~ (signal.items = {})
      BY <1>1, <2>1 DEF Strategy, DeriveStrategy
    <3>. QED
      BY <2>1, <3>1 DEF Strategy, DeriveStrategy
  <2>3. omitted["presentation_limit"] <= 0 /\ omitted["size_limit"] <= 0
    <3>1. BoundsOf(signal) = {}
      BY <1>1, <2>2
    <3>2. {"presentation_limit", "size_limit"} \subseteq CAPPING_OMISSIONS
      BY DEF CAPPING_OMISSIONS
    <3>3. \A r \in CAPPING_OMISSIONS : ~ (omitted[r] > 0)
      BY <2>1, <3>1 DEF BoundsOf
    <3>4. omitted["presentation_limit"] \in Nat /\ omitted["size_limit"] \in Nat
      BY <1>1, <3>2 DEF JudgedInv, OmissionReason
    <3>. QED
      BY <3>2, <3>3, <3>4
  <2>4. PICK other \in items : Rendered(other) = Rendered(item)
    <3>1. omitted["presentation_limit"] \in Nat /\ omitted["size_limit"] \in Nat
      BY <1>1 DEF JudgedInv, OmissionReason, CAPPING_OMISSIONS
    <3>. QED
      BY <1>1, <2>3, <3>1 DEF JudgedInv, Accounted
  <2>5. other.status = "contradicted"
    <3>1. "status" \in DOMAIN other \ {"experienceId"} /\ "status" \in DOMAIN item \ {"experienceId"}
      BY <1>1, <2>4 DEF JudgedInv
    <3>2. Rendered(other)["status"] = other["status"] /\ Rendered(item)["status"] = item["status"]
      BY <3>1 DEF Rendered
    <3>. QED
      BY <1>1, <2>4, <3>2
  <2>6. "contradicted" \in {i.status : i \in items}
    BY <2>4, <2>5
  <2>7. Strategy.posture # "established"
    BY <2>2, <2>6 DEF PostureOf
  <2>. QED
    BY <1>1, <2>7
<1>2. JudgedInv => PostureHidesNoContradiction
  BY <1>1 DEF PostureHidesNoContradiction
<1>. QED
  BY <1>2, AdviceInvariant, PTL
=============================================================================
