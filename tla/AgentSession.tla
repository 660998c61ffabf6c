----------------------------- MODULE AgentSession -----------------------------
(***************************************************************************)
(* One agent at work: the orchestrator's side (ClaudeCodeAgent, the        *)
(* process boundary, ToolBridge and ImplementationSession) and the child   *)
(* process with its ProtocolClient.  ImplementationAttempt takes this as   *)
(* "the agent mutates, then stops"; here requests, answers, exits, signals,*)
(* timers and a cancellation cross each other.                             *)
(*                                                                         *)
(*   child    the operating system's view: alive or not, and how it ended  *)
(*   up       fd 3: the lines the child has written and nobody has read    *)
(*   down     its stdin: the responses it has not read                     *)
(*   client   ProtocolClient: pending request ids, ids whose mutation was  *)
(*            answered OK, how many requests it sent                       *)
(*   bridge   ToolBridge: messages received, ids seen, closed; and the     *)
(*            session's mutation counter                                   *)
(*   host     what the orchestrator waits for: the launch, the child's     *)
(*            end, nothing any more; or it died                            *)
(*   ending   AgentProcessHandle: termination requested, the signal sent,  *)
(*            grace timers running                                         *)
(*   cancelled, timedOut  the CancellationToken; the time budget is spent  *)
(*   record   what the runner writes about the attempt when it is over     *)
(*   landed, rejected, lines  history: mutations per request id, rejections*)
(*            in the journal, lines the child wrote                        *)
(*                                                                         *)
(* Everything between reading a line and writing its response is           *)
(* synchronous in the code, and so is everything between the child's       *)
(* `close` event and the record: each is one step.                         *)
(***************************************************************************)
EXTENDS Integers, Sequences

CONSTANTS
    MaxSent,      \* bound: requests the client sends
    MaxLines,     \* bound: lines the child writes, whatever they are
    MaxRequests,  \* maxRequestsPerSession
    MaxWrites,    \* maxWrites of the grant
    None,         \* "no value"
    MayDie,       \* the orchestrator may be killed
    MayNotKill    \* the operating system may refuse to deliver a signal

ASSUME BoundAssumption == {MaxSent, MaxLines, MaxRequests, MaxWrites} \subseteq Nat
ASSUME SwitchAssumption == MayDie \in BOOLEAN /\ MayNotKill \in BOOLEAN

VARIABLES child, up, down, client, bridge, host, ending, cancelled, timedOut, record,
          landed, rejected, lines

pipes == <<up, down>>
history == <<landed, rejected, lines>>
vars == <<child, pipes, client, bridge, host, ending, cancelled, timedOut, record, history>>

-----------------------------------------------------------------------------
Ids == 1 .. MaxSent

\* A line is a request of the client's, or anything else the child may write:
\* not JSON, not of the protocol, with arguments that do not fit.
Lines == [id : Ids \cup {None}]
Responses == [id : Ids \cup {None}, ok : BOOLEAN]

Ends == {"zero", "nonzero", "signal"}
Children == [alive : BOOLEAN, end : Ends \cup {None}]
Records == [status : {"completed", "failed", "cancelled"}, partial : BOOLEAN]

ASSUME NoneAssumption == None \notin Ids /\ None \notin Ends /\ None \notin Records

Init ==
    /\ child = [alive |-> FALSE, end |-> None]
    /\ up = <<>>
    /\ down = <<>>
    /\ client = [pending |-> {}, mutated |-> {}, sent |-> 0]
    /\ bridge = [received |-> 0, seen |-> {}, used |-> 0, closed |-> FALSE]
    /\ host = "launching"
    /\ ending = [asked |-> FALSE, signal |-> None, graces |-> 0]
    /\ cancelled = FALSE
    /\ timedOut = FALSE
    /\ record = None
    /\ landed = [i \in Ids |-> 0]
    /\ rejected = 0
    /\ lines = 0

\* The runner writes the terminal record; the lock was released before.
Conclude(status) ==
    /\ host' = "done"
    /\ record' = [status |-> status, partial |-> status # "completed"]

-----------------------------------------------------------------------------
(* The orchestrator starts and ends the process. *)

\* run() asks the token once more, then the agent launches its process.
Launch ==
    /\ host = "launching"
    /\ ~ cancelled
    /\ child' = [child EXCEPT !.alive = TRUE]
    /\ host' = "waiting"
    /\ UNCHANGED <<pipes, client, bridge, ending, cancelled, timedOut, record, history>>

\* Cancelled before the start; refused by the launch checks; not spawned.
LaunchNothing ==
    /\ host = "launching"
    /\ Conclude(IF cancelled THEN "cancelled" ELSE "failed")
    /\ bridge' = [bridge EXCEPT !.closed = TRUE]
    /\ UNCHANGED <<child, pipes, client, ending, cancelled, timedOut, history>>

\* child.kill: delivered; or the operating system refuses, and the `error` event
\* it causes is taken for a process that never started.  The child stays, and a
\* second such event has no listener: it ends the orchestrator.
Signal(signal, graces) ==
    \/ /\ ending' = [asked |-> TRUE, graces |-> graces, signal |-> signal]
       /\ UNCHANGED <<child, bridge, host, record>>
    \/ /\ MayNotKill
       /\ ending' = [ending EXCEPT !.asked = TRUE, !.graces = graces]
       /\ UNCHANGED child
       /\ IF host = "waiting"
          THEN Conclude("failed") /\ bridge' = [bridge EXCEPT !.closed = TRUE]
          ELSE host' = "dead" /\ UNCHANGED <<record, bridge>>

\* AgentProcessHandle.terminate: a child that is gone is not signalled; the
\* request is remembered anyway.
Terminate ==
    IF child.alive
    THEN Signal(IF ending.signal = None THEN "SIGTERM" ELSE ending.signal, ending.graces + 1)
    ELSE ending' = [ending EXCEPT !.asked = TRUE] /\ UNCHANGED <<child, bridge, host, record>>

\* The time budget is spent.
Timeout ==
    /\ host = "waiting"
    /\ ~ timedOut
    /\ timedOut' = TRUE
    /\ Terminate
    /\ UNCHANGED <<pipes, client, cancelled, history>>

\* Somebody cancels the run; the agent listens while it waits.
Cancel ==
    /\ ~ cancelled
    /\ host \in {"launching", "waiting"}
    /\ cancelled' = TRUE
    /\ IF host = "waiting" THEN Terminate
       ELSE UNCHANGED <<child, bridge, host, record, ending>>
    /\ UNCHANGED <<pipes, client, timedOut, history>>

\* A line without an end, longer than the boundary buffers: the chunk it came in
\* is dropped with every line before it, and the child is terminated.
Overflow ==
    /\ host = "waiting"
    /\ child.alive
    /\ lines < MaxLines
    /\ lines' = lines + 1
    /\ \E k \in 0 .. Len(up) : up' = SubSeq(up, 1, k)
    /\ Terminate
    /\ UNCHANGED <<down, client, cancelled, timedOut, landed, rejected>>

\* Mutant: the child is only ever asked.
GraceElapsesInVain ==
    /\ ending.graces > 0
    /\ host # "dead"
    /\ ending' = [ending EXCEPT !.graces = @ - 1]
    /\ UNCHANGED <<child, bridge, host, record, pipes, client, cancelled, timedOut, history>>

\* gracefulTerminationMs after a SIGTERM: a child that is still there is killed.
GraceElapses ==
    /\ ending.graces > 0
    /\ host # "dead"
    /\ IF child.alive
       THEN Signal("SIGKILL", ending.graces - 1)
       ELSE /\ ending' = [ending EXCEPT !.graces = @ - 1]
            /\ UNCHANGED <<child, bridge, host, record>>
    /\ UNCHANGED <<pipes, client, cancelled, timedOut, history>>

\* Mutant: an exit code of zero is believed whatever was asked.
StatusByCode ==
    IF child.end = "zero" THEN "completed"
    ELSE IF ending.asked THEN "cancelled"
    ELSE IF child.end = "signal" THEN "interrupted"
    ELSE "failed"

\* run() of the boundary: what the process ended as.
ProcessStatus ==
    IF ending.asked THEN "cancelled"
    ELSE IF child.end = "signal" THEN "interrupted"
    ELSE IF child.end = "zero" THEN "completed"
    ELSE "failed"

\* The child is gone and its pipes are empty: `close`.  The agent unsubscribes,
\* closes the bridge, and throws if the process was cancelled; any other end is a
\* report, and the run completed.
Close ==
    /\ host = "waiting"
    /\ ~ child.alive
    /\ up = <<>>
    /\ bridge' = [bridge EXCEPT !.closed = TRUE]
    /\ Conclude(IF ProcessStatus = "cancelled" \/ cancelled THEN "cancelled" ELSE "completed")
    /\ UNCHANGED <<child, pipes, client, ending, cancelled, timedOut, history>>

-----------------------------------------------------------------------------
(* The orchestrator answers. *)

Respond(id, ok) == down' = Append(down, [id |-> id, ok |-> ok])

\* Mutant: what is refused is not answered.
RefuseSilently(id) ==
    /\ rejected' = IF bridge.received <= MaxRequests THEN rejected + 1 ELSE rejected
    /\ UNCHANGED <<down, landed>>

\* Mutant: every refusal is journalled.
RefuseLoudly(id) ==
    /\ Respond(id, FALSE)
    /\ rejected' = rejected + 1
    /\ UNCHANGED landed

\* #refuse: past the ceiling only the first refusal is journalled.
Refuse(id) ==
    /\ Respond(id, FALSE)
    /\ rejected' = IF bridge.received <= MaxRequests THEN rejected + 1 ELSE rejected
    /\ UNCHANGED landed

\* writeFile of the session, with a live token: the budget, then whatever else a
\* session may refuse (capability, scope, a grant withdrawn), then the write.
Perform(id) ==
    \/ /\ bridge' = [bridge EXCEPT !.received = @ + 1, !.seen = @ \cup {id}]
       /\ Refuse(id)
    \/ /\ bridge.used < MaxWrites
       /\ bridge' = [bridge EXCEPT !.received = @ + 1, !.seen = @ \cup {id}, !.used = @ + 1]
       /\ Respond(id, TRUE)
       /\ landed' = [landed EXCEPT ![id] = @ + 1]
       /\ UNCHANGED rejected

\* Mutant: a request id may come again.
ServesAgain(id) == id # None /\ ~ bridge.closed /\ ~ cancelled

\* Mutant: the bridge is not closed.
ServesOn(id) == id # None /\ ~ cancelled /\ id \notin bridge.seen

\* handleRaw: every message is charged before it is looked at.
Admitted == bridge.received < MaxRequests
Serves(id) == id # None /\ ~ bridge.closed /\ ~ cancelled /\ id \notin bridge.seen

\* Past the ceiling the line is not even parsed: nobody knows whose it was.
HandleUnread ==
    /\ ~ Admitted
    /\ bridge' = [bridge EXCEPT !.received = @ + 1]
    /\ Refuse(None)

\* The next line of fd 3, answered before the one after it is read.
Handle ==
    /\ host # "dead"
    /\ up # <<>>
    /\ up' = Tail(up)
    /\ \/ HandleUnread
       \/ Admitted /\ Serves(Head(up).id) /\ Perform(Head(up).id)
       \/ /\ Admitted /\ ~ Serves(Head(up).id)
          /\ bridge' = [bridge EXCEPT !.received = @ + 1]
          /\ Refuse(Head(up).id)
    /\ UNCHANGED <<child, client, host, ending, cancelled, timedOut, record, lines>>

-----------------------------------------------------------------------------
(* The child. *)

\* ProtocolClient.request: the waiter is registered, then the line written.
Request ==
    /\ child.alive
    /\ host # "dead"
    /\ client.sent < MaxSent
    /\ lines < MaxLines
    /\ lines' = lines + 1
    /\ client' = [client EXCEPT !.sent = @ + 1, !.pending = @ \cup {client.sent + 1}]
    /\ up' = Append(up, [id |-> client.sent + 1])
    /\ UNCHANGED <<child, down, bridge, host, ending, cancelled, timedOut, record, landed, rejected>>

\* The child is not bound to use the client: noise, or an id a second time.
Babble ==
    /\ child.alive
    /\ host # "dead"
    /\ lines < MaxLines
    /\ lines' = lines + 1
    /\ \E id \in 1 .. client.sent \cup {None} : up' = Append(up, [id |-> id])
    /\ UNCHANGED <<child, down, client, bridge, host, ending, cancelled, timedOut, record, landed, rejected>>

\* Mutant: an answer is taken for an OK.
PumpTrusting ==
    /\ child.alive
    /\ down # <<>>
    /\ down' = Tail(down)
    /\ LET r == Head(down)
       IN  client' = IF r.id \in client.pending
                     THEN [client EXCEPT !.pending = @ \ {r.id}, !.mutated = @ \cup {r.id}]
                     ELSE client
    /\ UNCHANGED <<child, up, bridge, host, ending, cancelled, timedOut, record, history>>

\* #pump: a response nobody waits for is dropped.
Pump ==
    /\ child.alive
    /\ down # <<>>
    /\ down' = Tail(down)
    /\ LET r == Head(down)
       IN  client' = IF r.id \in client.pending
                     THEN [client EXCEPT !.pending = @ \ {r.id},
                                         !.mutated = IF r.ok THEN @ \cup {r.id} ELSE @]
                     ELSE client
    /\ UNCHANGED <<child, up, bridge, host, ending, cancelled, timedOut, record, history>>

\* It exits by itself, heeds SIGTERM, or is killed: by us, or by somebody else.
ChildEnds(end) ==
    /\ child.alive
    /\ child' = [alive |-> FALSE, end |-> end]
    /\ UNCHANGED <<pipes, client, bridge, host, ending, cancelled, timedOut, record, history>>

Killed == ending.signal = "SIGKILL" /\ ChildEnds("signal")

\* The orchestrator is killed; its timers and its end of the pipes go with it.
HostDies ==
    /\ MayDie
    /\ host \in {"launching", "waiting"}
    /\ host' = "dead"
    /\ UNCHANGED <<child, pipes, client, bridge, ending, cancelled, timedOut, record, history>>

Next ==
    \/ Launch \/ LaunchNothing \/ Timeout \/ Cancel \/ Overflow \/ GraceElapses \/ Close
    \/ Handle
    \/ Request \/ Babble \/ Pump
    \/ \E end \in Ends : ChildEnds(end)
    \/ HostDies

Spec == Init /\ [][Next]_vars

\* The event loop of a live orchestrator runs, its timers fire, a killed process
\* dies, and the client's own event loop runs.  The agent owes nothing.
FairSpec ==
    /\ Spec
    /\ WF_vars(Launch \/ LaunchNothing)
    /\ WF_vars(Timeout) /\ WF_vars(GraceElapses) /\ WF_vars(Close)
    /\ WF_vars(Handle)
    /\ WF_vars(Killed)
    /\ WF_vars(Pump)
=============================================================================
