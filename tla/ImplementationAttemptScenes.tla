--------------------- MODULE ImplementationAttemptScenes ---------------------
(***************************************************************************)
(* The implementation attempts for TLC in three situations, each with the  *)
(* processes, grants and trouble it needs and no more.  A situation is an  *)
(* initial state: a process that takes no part died before, a grant that   *)
(* plays no role was deleted and has expired, a grant that is not issued   *)
(* again has had its last issue.                                           *)
(***************************************************************************)
EXTENDS MCImplementationAttempt

CONSTANT g3

RunsOfGrants == g1 :> r1 @@ g2 :> r2 @@ g3 :> r1

\* Two runs whose grants may write, three processes; one grant issued twice,
\* withdrawn and expiring under two processes, the working directory coming and
\* going; one read-only grant issued twice, three processes.
Scenes ==
    {[procs |-> 3, grants |-> {g1, g2}, issue |-> MaxIssues],
     [procs |-> 2, grants |-> {g1}, issue |-> 1],
     [procs |-> 3, grants |-> {g3}, issue |-> 1]}

\* What no situation changes is as Init has it.
SceneInit ==
    /\ claim = [g \in Grant |-> None]
    /\ lock = None
    /\ impl = [r \in Run |-> None]
    /\ operator = FALSE
    /\ sessions = [g \in Grant |-> 0]
    /\ withdrawn = [g \in Grant |-> "no"]
    /\ stray = [g \in Grant |-> 0]
    /\ \E scene \in Scenes, absent \in SUBSET Proc :
         /\ Cardinality(Proc \ absent) = scene.procs
         /\ att = [p \in Proc |-> IF p \in absent THEN [Idle EXCEPT !.pc = "dead"] ELSE Idle]
         /\ grants = [g \in Grant |-> IF g \in scene.grants
                                      THEN [status |-> "active", issue |-> scene.issue]
                                      ELSE [status |-> "deleted", issue |-> MaxIssues]]
         /\ expired = {e \in Grant \X Issues : e[1] \notin scene.grants}

SceneSpec == SceneInit /\ [][Next]_vars

\* Grants are withdrawn and expire, and the working directory goes, in the
\* second situation only; elsewhere an attempt writes once.
InPlay(g) == grants[g].status # "deleted" \/ withdrawn[g] # "no"
Quiet ==
    \/ {g \in Grant : InPlay(g)} = {g1}
    \/ /\ UNCHANGED <<expired, withdrawn>>
       /\ \A p \in Proc : ~ BuildThrows(p) /\ att'[p].done <= 1
=============================================================================
