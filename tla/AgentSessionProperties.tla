------------------------ MODULE AgentSessionProperties ------------------------
(***************************************************************************)
(* What should be true of an agent at work.                                *)
(***************************************************************************)
EXTENDS AgentSession

\* Every variable holds a value of its type.
TypeOK ==
    /\ child \in Children
    /\ up \in Seq(Lines)
    /\ down \in Seq(Responses)
    /\ client \in [pending : SUBSET Ids, mutated : SUBSET Ids, sent : 0 .. MaxSent]
    /\ bridge \in [received : Nat, seen : SUBSET Ids, used : 0 .. MaxWrites, closed : BOOLEAN]
    /\ host \in {"launching", "waiting", "done", "dead"}
    /\ ending \in [asked : BOOLEAN, signal : {None, "SIGTERM", "SIGKILL"}, graces : Nat]
    /\ cancelled \in BOOLEAN /\ timedOut \in BOOLEAN
    /\ record \in Records \cup {None}
    /\ landed \in [Ids -> Nat]
    /\ rejected \in Nat
    /\ lines \in 0 .. MaxLines

\* "A replayed id would let one response be matched to two operations": one
\* request, one mutation, however often its id comes again.
OneMutationPerRequest == \A i \in Ids : landed[i] <= 1

\* What the client will claim it changed is what changed: every request it has
\* an answer for is claimed exactly if its mutation landed, whatever was
\* dropped, refused, replayed or answered out of turn.
ClaimsAreTrue ==
    \A i \in 1 .. client.sent \ client.pending : i \in client.mutated <=> landed[i] = 1

\* A child that goes on talking cannot grow the journal: the messages the
\* session may make, and one more rejection.
JournalIsBounded == rejected <= MaxRequests + 1

\* After a cancellation, and after the runner concluded, nothing lands any more:
\* also not from a child that could not be killed.
WorkStops == [][cancelled \/ record # None => UNCHANGED landed]_vars

\* A process that was asked to stop, for whatever reason and however late, is
\* not a completed run, even if it exits in good order.
AskedIsNotCompleted == record # None /\ ending.asked => record.status # "completed"

\* The runner's wait ends: no child, deaf or talkative, keeps the project locked.
AgentReturns == host = "waiting" ~> host # "waiting"

\* "the child is never left hanging": as long as nobody ended the agent, a
\* request the client waits for is on its way up, or its answer on its way down.
OnTheWay(i) == (\E k \in DOMAIN up : up[k].id = i) \/ (\E k \in DOMAIN down : down[k].id = i)
Unhurried == host = "waiting" /\ child.alive /\ ~ ending.asked
NobodyWaitsInVain ==
    Unhurried /\ bridge.received <= MaxRequests => \A i \in client.pending : OnTheWay(i)

-----------------------------------------------------------------------------
(* A statement of a comment that the code does not keep. *)

\* "Past the ceiling the refusal is still returned - the child gets a real,
\* correlated answer": no request of the client's is left without one.
RefusalsAreCorrelated == Unhurried => \A i \in client.pending : OnTheWay(i)
=============================================================================
