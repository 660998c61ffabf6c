----------------------- MODULE MCImplementationAttempt -----------------------
(* Small instances of the implementation attempts for TLC. *)
EXTENDS ImplementationAttemptProperties, TLC

CONSTANTS r1, r2, g1, g2

OneRun == g1 :> r1
TwoRuns == g1 :> r1 @@ g2 :> r2

ProcSymmetry == Permutations(Proc)
=============================================================================
