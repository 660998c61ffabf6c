------------------------------- MODULE MCDesk -------------------------------
EXTENDS Desk, TLC

CONSTANTS s1, s2, s3, none

Said(words) == [words |-> words, bare |-> FALSE]
Bare(word) == [words |-> {word}, bare |-> TRUE]

Same == Permutations(Sayings)

\* "yes", "no", "yes, only src", "hm, yes and no", "change that".
MCUtterances == {Bare("yes"), Bare("no"), Said({"yes"}), Said({"yes", "no"}), Said({"change"})}
=============================================================================
