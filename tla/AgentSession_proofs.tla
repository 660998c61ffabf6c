-------------------------- MODULE AgentSession_proofs --------------------------
(***************************************************************************)
(* Proofs about an agent at work, for any number of requests, lines and    *)
(* signals, and any ceiling and budget.                                    *)
(***************************************************************************)
EXTENDS AgentSessionProperties, SequenceTheorems, TLAPS

-----------------------------------------------------------------------------
(* The inductive invariant. *)

\* The runner concludes with the bridge closed, and only what it still waits
\* for can be concluded.
ClosedInv ==
    /\ record # None => bridge.closed
    /\ host \in {"launching", "waiting"} => record = None

\* A mutation leaves its request's id behind.
SeenInv == \A i \in Ids : landed[i] = 0 \/ (landed[i] = 1 /\ i \in bridge.seen)

\* A rejection was a message.
JournalInv == rejected <= bridge.received /\ rejected <= MaxRequests + 1

\* A grace period runs only for a child that was asked to stop.
AskedInv ==
    /\ ending.graces > 0 => ending.asked
    /\ AskedIsNotCompleted

SessionInv == TypeOK /\ ClosedInv /\ SeenInv /\ JournalInv /\ AskedInv

-----------------------------------------------------------------------------
(* What the parts of a step do. *)

\* An end is recorded with one of the runner's statuses.
LEMMA ConcludeType ==
  ASSUME NEW status \in {"completed", "failed", "cancelled"}, Conclude(status)
  PROVE  /\ host' = "done"
         /\ record' \in Records
         /\ record'.status = status
  BY DEF Conclude, Records

\* Statuses are not `null`.
LEMMA RecordIsSome == \A r \in Records : r # None
  BY NoneAssumption

\* A signal reaches the child, or ends the wait, or ends the orchestrator.
LEMMA SignalEffect ==
  ASSUME TypeOK, NEW signal \in {"SIGTERM", "SIGKILL"}, NEW graces \in Nat,
         Signal(signal, graces)
  PROVE  /\ UNCHANGED child
         /\ ending' \in [asked : BOOLEAN, signal : {None, "SIGTERM", "SIGKILL"}, graces : Nat]
         /\ ending'.asked
         /\ \/ UNCHANGED <<bridge, host, record>>
            \/ /\ host = "waiting" /\ host' = "done"
               /\ record' \in Records /\ record'.status = "failed"
               /\ bridge' = [bridge EXCEPT !.closed = TRUE]
            \/ host # "waiting" /\ host' = "dead" /\ UNCHANGED <<record, bridge>>
<1>1. CASE ending' = [asked |-> TRUE, graces |-> graces, signal |-> signal]
           /\ UNCHANGED <<child, bridge, host, record>>
  BY <1>1
<1>2. CASE /\ ending' = [ending EXCEPT !.asked = TRUE, !.graces = graces]
           /\ UNCHANGED child
           /\ IF host = "waiting"
              THEN Conclude("failed") /\ bridge' = [bridge EXCEPT !.closed = TRUE]
              ELSE host' = "dead" /\ UNCHANGED <<record, bridge>>
  BY <1>2, ConcludeType DEF TypeOK
<1> QED
  BY <1>1, <1>2 DEF Signal

\* terminate() does no more than a signal.
LEMMA TerminateEffect ==
  ASSUME TypeOK, host = "waiting", Terminate
  PROVE  /\ UNCHANGED child
         /\ ending' \in [asked : BOOLEAN, signal : {None, "SIGTERM", "SIGKILL"}, graces : Nat]
         /\ ending'.asked
         /\ \/ UNCHANGED <<bridge, host, record>>
            \/ /\ host' = "done"
               /\ record' \in Records /\ record'.status = "failed"
               /\ bridge' = [bridge EXCEPT !.closed = TRUE]
<1>1. CASE child.alive
  <2>1. /\ (IF ending.signal = None THEN "SIGTERM" ELSE ending.signal) \in {"SIGTERM", "SIGKILL"}
        /\ ending.graces + 1 \in Nat
    BY DEF TypeOK
  <2> QED
    BY <1>1, <2>1, SignalEffect DEF Terminate
<1>2. CASE ~ child.alive
  BY <1>2 DEF Terminate, TypeOK
<1> QED
  BY <1>1, <1>2

\* Refusing a request answers it, and journals what the ceiling allows.
LEMMA RefuseEffect ==
  ASSUME TypeOK, JournalInv, NEW id \in Ids \cup {None}, Refuse(id),
         bridge'.received = bridge.received + 1
  PROVE  /\ down' \in Seq(Responses)
         /\ rejected' \in Nat
         /\ rejected' <= bridge'.received /\ rejected' <= MaxRequests + 1
         /\ landed' = landed
<1>1. [id |-> id, ok |-> FALSE] \in Responses
  BY DEF Responses
<1>2. down' \in Seq(Responses)
  BY <1>1 DEF Refuse, Respond, TypeOK
<1>3. MaxRequests \in Nat
  BY BoundAssumption
<1> QED
  BY <1>2, <1>3 DEF Refuse, TypeOK, JournalInv

Bridges == [received : Nat, seen : SUBSET Ids, used : 0 .. MaxWrites, closed : BOOLEAN]

\* Counting a message, and a request with it, keeps the bridge well-typed.
LEMMA BridgeType ==
  ASSUME NEW b \in Bridges, NEW s \in SUBSET Ids, NEW u \in 0 .. MaxWrites
  PROVE  /\ [b EXCEPT !.received = @ + 1, !.seen = s] \in Bridges
         /\ [b EXCEPT !.received = @ + 1, !.seen = s, !.used = u] \in Bridges
         /\ [b EXCEPT !.received = @ + 1] \in Bridges
         /\ [b EXCEPT !.closed = TRUE] \in Bridges
<1>1. b.received + 1 \in Nat
  BY DEF Bridges
<1> QED
  BY <1>1 DEF Bridges

\* Performing a request lets at most one mutation land, under an id not seen.
LEMMA PerformEffect ==
  ASSUME TypeOK, JournalInv, NEW id \in Ids, Perform(id)
  PROVE  /\ down' \in Seq(Responses)
         /\ rejected' \in Nat
         /\ rejected' <= bridge'.received /\ rejected' <= MaxRequests + 1
         /\ bridge' \in Bridges
         /\ bridge'.closed = bridge.closed
         /\ bridge'.seen = bridge.seen \cup {id}
         /\ landed' = landed \/ landed' = [landed EXCEPT ![id] = @ + 1]
<1>1. CASE /\ bridge' = [bridge EXCEPT !.received = @ + 1, !.seen = @ \cup {id}]
           /\ Refuse(id)
  <2>1. /\ bridge \in Bridges /\ bridge.used \in 0 .. MaxWrites
        /\ bridge.seen \cup {id} \in SUBSET Ids
    BY DEF TypeOK, Bridges
  <2>2. bridge' \in Bridges
    BY <1>1, <2>1, BridgeType
  <2>3. /\ bridge'.received = bridge.received + 1
        /\ bridge'.seen = bridge.seen \cup {id}
        /\ bridge'.closed = bridge.closed
    BY <1>1, <2>1 DEF Bridges
  <2> QED
    BY <1>1, <2>2, <2>3, RefuseEffect
<1>2. CASE /\ bridge.used < MaxWrites
           /\ bridge' = [bridge EXCEPT !.received = @ + 1, !.seen = @ \cup {id}, !.used = @ + 1]
           /\ Respond(id, TRUE)
           /\ landed' = [landed EXCEPT ![id] = @ + 1]
           /\ UNCHANGED rejected
  <2>1. [id |-> id, ok |-> TRUE] \in Responses
    BY DEF Responses
  <2>2. down' \in Seq(Responses)
    BY <1>2, <2>1 DEF Respond, TypeOK
  <2>3. MaxWrites \in Nat
    BY BoundAssumption
  <2>4. bridge.used + 1 \in 0 .. MaxWrites
    BY <1>2, <2>3 DEF TypeOK
  <2>5. bridge \in Bridges /\ bridge.seen \cup {id} \in SUBSET Ids
    BY DEF TypeOK, Bridges
  <2>6. bridge' \in Bridges
    BY <1>2, <2>4, <2>5, BridgeType
  <2>7. /\ bridge'.received = bridge.received + 1
        /\ bridge'.seen = bridge.seen \cup {id}
        /\ bridge'.closed = bridge.closed
    BY <1>2, <2>5 DEF Bridges
  <2>8. rejected' \in Nat /\ rejected' <= bridge'.received /\ rejected' <= MaxRequests + 1
    BY <1>2, <2>5, <2>7 DEF TypeOK, JournalInv, Bridges
  <2> QED
    BY <1>2, <2>2, <2>6, <2>7, <2>8
<1> QED
  BY <1>1, <1>2 DEF Perform

-----------------------------------------------------------------------------
(* Every step keeps the invariant. *)

\* A step of the orchestrator's waiting: signals, timers, the end of the wait.
LEMMA WaitInductive ==
  ASSUME SessionInv, NEW c \in BOOLEAN, NEW t \in BOOLEAN, cancelled' = c, timedOut' = t,
         UNCHANGED <<child, down, client, landed, rejected>>,
         up' \in Seq(Lines), lines' \in 0 .. MaxLines,
         ending' \in [asked : BOOLEAN, signal : {None, "SIGTERM", "SIGKILL"}, graces : Nat],
         ending'.graces > 0 => ending'.asked,
         ending'.asked => ending.asked \/ host = "waiting",
         \/ UNCHANGED <<bridge, host, record>>
         \/ /\ host \in {"launching", "waiting"} /\ host' = "done"
            /\ record' \in Records /\ (ending'.asked => record'.status # "completed")
            /\ bridge' = [bridge EXCEPT !.closed = TRUE]
         \/ host # "launching" /\ host' = "dead" /\ UNCHANGED <<bridge, record>>
  PROVE  SessionInv'
<1>1. bridge \in Bridges
  BY DEF SessionInv, TypeOK, Bridges
<1>2. CASE UNCHANGED <<bridge, host, record>>
  BY <1>2 DEF SessionInv, TypeOK, ClosedInv, SeenInv, JournalInv, AskedInv, AskedIsNotCompleted
<1>3. CASE /\ host \in {"launching", "waiting"} /\ host' = "done"
           /\ record' \in Records /\ (ending'.asked => record'.status # "completed")
           /\ bridge' = [bridge EXCEPT !.closed = TRUE]
  <2>1. /\ bridge' \in Bridges /\ bridge'.closed
        /\ bridge'.seen = bridge.seen /\ bridge'.received = bridge.received
    BY <1>1, <1>3 DEF Bridges
  <2>2. TypeOK'
    BY <1>3, <2>1 DEF SessionInv, TypeOK, Bridges
  <2> QED
    BY <1>3, <2>1, <2>2 DEF SessionInv, ClosedInv, SeenInv, JournalInv, AskedInv, AskedIsNotCompleted
<1>4. CASE host # "launching" /\ host' = "dead" /\ UNCHANGED <<bridge, record>>
  BY <1>4 DEF SessionInv, TypeOK, ClosedInv, SeenInv, JournalInv, AskedInv, AskedIsNotCompleted
<1> QED
  BY <1>2, <1>3, <1>4

\* A step that touches neither the wait nor the bridge.
LEMMA PipeInductive ==
  ASSUME SessionInv, child' \in Children, up' \in Seq(Lines), down' \in Seq(Responses),
         client' \in [pending : SUBSET Ids, mutated : SUBSET Ids, sent : 0 .. MaxSent],
         lines' \in 0 .. MaxLines,
         UNCHANGED <<bridge, host, ending, cancelled, timedOut, record, landed, rejected>>
  PROVE  SessionInv'
  BY DEF SessionInv, TypeOK, ClosedInv, SeenInv, JournalInv, AskedInv, AskedIsNotCompleted

LEMMA LaunchInductive == SessionInv /\ Launch => SessionInv'
<1> SUFFICES ASSUME SessionInv, Launch
             PROVE  SessionInv'
  OBVIOUS
<1>1. child' \in Children
  BY DEF Launch, SessionInv, TypeOK, Children
<1> QED
  BY <1>1 DEF Launch, SessionInv, TypeOK, ClosedInv, SeenInv, JournalInv, AskedInv,
             AskedIsNotCompleted, pipes, history

LEMMA LaunchNothingInductive == SessionInv /\ LaunchNothing => SessionInv'
<1> SUFFICES ASSUME SessionInv, LaunchNothing
             PROVE  SessionInv'
  OBVIOUS
<1>1. (IF cancelled THEN "cancelled" ELSE "failed") \in {"failed", "cancelled"}
  OBVIOUS
<1>2. host' = "done" /\ record' \in Records /\ record'.status \in {"failed", "cancelled"}
  BY <1>1, ConcludeType DEF LaunchNothing
<1>3. /\ host = "launching"
      /\ bridge' = [bridge EXCEPT !.closed = TRUE]
      /\ UNCHANGED <<child, up, down, client, ending, cancelled, timedOut, landed, rejected, lines>>
  BY DEF LaunchNothing, pipes, history
<1>4. /\ cancelled \in BOOLEAN /\ timedOut \in BOOLEAN
      /\ up \in Seq(Lines) /\ lines \in 0 .. MaxLines
      /\ ending \in [asked : BOOLEAN, signal : {None, "SIGTERM", "SIGKILL"}, graces : Nat]
      /\ ending.graces > 0 => ending.asked
  BY DEF SessionInv, TypeOK, AskedInv
<1>5. /\ ending' \in [asked : BOOLEAN, signal : {None, "SIGTERM", "SIGKILL"}, graces : Nat]
      /\ ending'.graces > 0 => ending'.asked
      /\ ending'.asked => ending.asked
      /\ record'.status # "completed"
      /\ cancelled' \in BOOLEAN /\ timedOut' \in BOOLEAN
      /\ up' \in Seq(Lines) /\ lines' \in 0 .. MaxLines
  BY <1>2, <1>3, <1>4
<1> QED
  BY <1>2, <1>3, <1>5, WaitInductive

\* terminate() while the agent is awaited, with what its caller changes.
LEMMA TerminateInductive ==
  ASSUME SessionInv, host = "waiting", Terminate,
         cancelled' \in BOOLEAN, timedOut' \in BOOLEAN,
         UNCHANGED <<down, client, landed, rejected>>,
         up' \in Seq(Lines), lines' \in 0 .. MaxLines
  PROVE  SessionInv'
<1>1. TypeOK
  BY DEF SessionInv
<1> QED
  BY <1>1, TerminateEffect, WaitInductive

LEMMA TimeoutInductive == SessionInv /\ Timeout => SessionInv'
  BY TerminateInductive DEF Timeout, SessionInv, TypeOK, pipes, history

LEMMA CancelInductive == SessionInv /\ Cancel => SessionInv'
<1> SUFFICES ASSUME SessionInv, Cancel
             PROVE  SessionInv'
  OBVIOUS
<1>1. CASE host = "waiting"
  BY <1>1, TerminateInductive DEF Cancel, SessionInv, TypeOK, pipes, history
<1>2. CASE host # "waiting"
  BY <1>2 DEF Cancel, SessionInv, TypeOK, ClosedInv, SeenInv, JournalInv, AskedInv,
              AskedIsNotCompleted, pipes, history
<1> QED
  BY <1>1, <1>2

LEMMA OverflowInductive == SessionInv /\ Overflow => SessionInv'
<1> SUFFICES ASSUME SessionInv, Overflow
             PROVE  SessionInv'
  OBVIOUS
<1>1. up' \in Seq(Lines)
  <2>1. PICK k \in 0 .. Len(up) : up' = SubSeq(up, 1, k)
    BY DEF Overflow
  <2>2. up \in Seq(Lines)
    BY DEF SessionInv, TypeOK
  <2> QED
    BY <2>1, <2>2, SubSeqProperties
<1>2. lines' \in 0 .. MaxLines
  BY BoundAssumption DEF Overflow, SessionInv, TypeOK
<1> QED
  BY <1>1, <1>2, TerminateInductive DEF Overflow, SessionInv, TypeOK

LEMMA GraceInductive == SessionInv /\ GraceElapses => SessionInv'
<1> SUFFICES ASSUME SessionInv, GraceElapses
             PROVE  SessionInv'
  OBVIOUS
<1>1. /\ TypeOK /\ ending.asked
      /\ ending.graces - 1 \in Nat
  BY DEF GraceElapses, SessionInv, TypeOK, AskedInv
<1>2. /\ UNCHANGED <<up, down, client, cancelled, timedOut, landed, rejected, lines>>
      /\ cancelled \in BOOLEAN /\ timedOut \in BOOLEAN
      /\ up \in Seq(Lines) /\ lines \in 0 .. MaxLines
      /\ host # "dead"
  BY DEF GraceElapses, SessionInv, TypeOK, pipes, history
<1>3. CASE child.alive
  <2>1. Signal("SIGKILL", ending.graces - 1)
    BY <1>3 DEF GraceElapses
  <2>2. /\ UNCHANGED child
        /\ ending' \in [asked : BOOLEAN, signal : {None, "SIGTERM", "SIGKILL"}, graces : Nat]
        /\ ending'.asked
        /\ \/ UNCHANGED <<bridge, host, record>>
           \/ /\ host = "waiting" /\ host' = "done"
              /\ record' \in Records /\ record'.status = "failed"
              /\ bridge' = [bridge EXCEPT !.closed = TRUE]
           \/ host # "waiting" /\ host' = "dead" /\ UNCHANGED <<record, bridge>>
    BY <1>1, <2>1, SignalEffect
  <2>3. CASE UNCHANGED <<bridge, host, record>>
    BY <1>1, <1>2, <2>2, <2>3, WaitInductive
  <2>4. CASE /\ host = "waiting" /\ host' = "done"
             /\ record' \in Records /\ record'.status = "failed"
             /\ bridge' = [bridge EXCEPT !.closed = TRUE]
    BY <1>1, <1>2, <2>2, <2>4, WaitInductive
  <2>5. CASE host # "waiting" /\ host' = "dead" /\ UNCHANGED <<record, bridge>>
    BY <1>1, <1>2, <2>2, <2>5 DEF SessionInv, TypeOK, ClosedInv, SeenInv, JournalInv, AskedInv,
                               AskedIsNotCompleted
  <2> QED
    BY <2>2, <2>3, <2>4, <2>5
<1>4. CASE ~ child.alive
  <2>1. ending' = [ending EXCEPT !.graces = @ - 1] /\ UNCHANGED <<child, bridge, host, record>>
    BY <1>4 DEF GraceElapses
  <2>2. /\ ending' \in [asked : BOOLEAN, signal : {None, "SIGTERM", "SIGKILL"}, graces : Nat]
        /\ ending'.asked
    BY <1>1, <2>1 DEF TypeOK
  <2> QED
    BY <1>1, <1>2, <2>1, <2>2, WaitInductive
<1> QED
  BY <1>3, <1>4

LEMMA CloseInductive == SessionInv /\ Close => SessionInv'
<1> SUFFICES ASSUME SessionInv, Close
             PROVE  SessionInv'
  OBVIOUS
<1> DEFINE status == IF ProcessStatus = "cancelled" \/ cancelled THEN "cancelled" ELSE "completed"
<1>1. status \in {"completed", "cancelled"} /\ (ending.asked => status = "cancelled")
  BY DEF ProcessStatus, SessionInv, TypeOK
<1>2. Conclude(status)
  BY DEF Close
<1> HIDE DEF status
<1>3. host' = "done" /\ record' \in Records /\ record'.status = status
  BY <1>1, <1>2, ConcludeType
<1>4. /\ host = "waiting"
      /\ bridge' = [bridge EXCEPT !.closed = TRUE]
      /\ UNCHANGED <<child, up, down, client, ending, cancelled, timedOut, landed, rejected, lines>>
  BY DEF Close, pipes, history
<1>5. /\ cancelled \in BOOLEAN /\ timedOut \in BOOLEAN
      /\ up \in Seq(Lines) /\ lines \in 0 .. MaxLines
      /\ ending \in [asked : BOOLEAN, signal : {None, "SIGTERM", "SIGKILL"}, graces : Nat]
      /\ ending.graces > 0 => ending.asked
  BY DEF SessionInv, TypeOK, AskedInv
<1>6. /\ ending' \in [asked : BOOLEAN, signal : {None, "SIGTERM", "SIGKILL"}, graces : Nat]
      /\ ending'.graces > 0 => ending'.asked
      /\ ending'.asked => ending.asked /\ record'.status # "completed"
      /\ cancelled' \in BOOLEAN /\ timedOut' \in BOOLEAN
      /\ up' \in Seq(Lines) /\ lines' \in 0 .. MaxLines
  BY <1>1, <1>3, <1>4, <1>5
<1> QED
  BY <1>3, <1>4, <1>6, WaitInductive

\* A line is answered: the bridge counts it, and at most one mutation lands.
LEMMA HandleInductive == SessionInv /\ Handle => SessionInv'
<1> SUFFICES ASSUME SessionInv, Handle
             PROVE  SessionInv'
  OBVIOUS
<1> DEFINE id == Head(up).id
<1>1. /\ up \in Seq(Lines) /\ up # <<>> /\ up' = Tail(up)
      /\ UNCHANGED <<child, client, host, ending, cancelled, timedOut, record, lines>>
      /\ TypeOK /\ JournalInv /\ bridge \in Bridges /\ bridge.used \in 0 .. MaxWrites
  BY DEF Handle, SessionInv, TypeOK, Bridges
<1>2. up' \in Seq(Lines) /\ id \in Ids \cup {None}
  <2>1. Head(up) \in Lines /\ Tail(up) \in Seq(Lines)
    BY <1>1, HeadTailProperties
  <2> QED
    BY <1>1, <2>1 DEF Lines
<1> HIDE DEF id
<1>3. /\ down' \in Seq(Responses)
      /\ rejected' \in Nat
      /\ rejected' <= bridge'.received /\ rejected' <= MaxRequests + 1
      /\ bridge' \in Bridges
      /\ bridge'.closed = bridge.closed
      /\ bridge.seen \subseteq bridge'.seen
      /\ \/ landed' = landed
         \/ /\ Serves(id) /\ id \in bridge'.seen
            /\ landed' = [landed EXCEPT ![id] = @ + 1]
  <2>1. CASE Admitted /\ Serves(id) /\ Perform(id)
    <3>1. id \in Ids
      BY <1>2, <2>1 DEF Serves
    <3>2. /\ down' \in Seq(Responses)
          /\ rejected' \in Nat
          /\ rejected' <= bridge'.received /\ rejected' <= MaxRequests + 1
          /\ bridge' \in Bridges
          /\ bridge'.closed = bridge.closed
          /\ bridge'.seen = bridge.seen \cup {id}
          /\ landed' = landed \/ landed' = [landed EXCEPT ![id] = @ + 1]
      BY <1>1, <2>1, <3>1, PerformEffect
    <3> QED
      BY <2>1, <3>2
  <2>2. ASSUME NEW i \in Ids \cup {None}, Refuse(i),
               bridge' = [bridge EXCEPT !.received = @ + 1]
        PROVE  /\ down' \in Seq(Responses)
               /\ rejected' \in Nat
               /\ rejected' <= bridge'.received /\ rejected' <= MaxRequests + 1
               /\ bridge' \in Bridges
               /\ bridge'.closed = bridge.closed
               /\ bridge'.seen = bridge.seen
               /\ landed' = landed
    <3>1. bridge' \in Bridges
      BY <1>1, <2>2, BridgeType DEF Bridges
    <3>2. /\ bridge'.received = bridge.received + 1
          /\ bridge'.closed = bridge.closed
          /\ bridge'.seen = bridge.seen
      BY <1>1, <2>2 DEF Bridges
    <3> QED
      BY <1>1, <2>2, <3>1, <3>2, RefuseEffect
  <2> QED
    BY <1>2, <2>1, <2>2 DEF Handle, HandleUnread, id
<1>4. TypeOK'
  <2>1. landed' \in [Ids -> Nat]
    <3>1. landed \in [Ids -> Nat]
      BY <1>1 DEF TypeOK
    <3> QED
      BY <1>2, <1>3, <3>1
  <2> QED
    BY <1>1, <1>2, <1>3, <2>1 DEF TypeOK, Bridges
<1>5. SeenInv'
  <2> SUFFICES ASSUME NEW i \in Ids
               PROVE  landed'[i] = 0 \/ (landed'[i] = 1 /\ i \in bridge'.seen)
    BY DEF SeenInv
  <2>1. /\ landed \in [Ids -> Nat]
        /\ landed[i] = 0 \/ (landed[i] = 1 /\ i \in bridge.seen)
    BY <1>1 DEF SessionInv, SeenInv, TypeOK
  <2>2. CASE landed' = landed
    BY <1>3, <2>1, <2>2
  <2>3. CASE /\ Serves(id) /\ id \in bridge'.seen
             /\ landed' = [landed EXCEPT ![id] = @ + 1]
    <3>1. id \notin bridge.seen
      BY <2>3 DEF Serves
    <3> QED
      BY <1>3, <2>1, <2>3, <3>1
  <2> QED
    BY <1>3, <2>2, <2>3
<1> QED
  BY <1>1, <1>3, <1>4, <1>5 DEF SessionInv, ClosedInv, JournalInv, AskedInv, AskedIsNotCompleted

LEMMA RequestInductive == SessionInv /\ Request => SessionInv'
<1> SUFFICES ASSUME SessionInv, Request
             PROVE  SessionInv'
  OBVIOUS
<1>1. /\ client.sent + 1 \in Ids /\ client.sent + 1 \in 0 .. MaxSent /\ lines' \in 0 .. MaxLines
      /\ up \in Seq(Lines)
      /\ client \in [pending : SUBSET Ids, mutated : SUBSET Ids, sent : 0 .. MaxSent]
  BY BoundAssumption DEF Request, SessionInv, TypeOK, Ids
<1>2. [id |-> client.sent + 1] \in Lines
  BY <1>1 DEF Lines
<1>3. up' \in Seq(Lines)
  BY <1>1, <1>2 DEF Request
<1>4. client.pending \cup {client.sent + 1} \in SUBSET Ids
  BY <1>1
<1>5. client' \in [pending : SUBSET Ids, mutated : SUBSET Ids, sent : 0 .. MaxSent]
  BY <1>1, <1>4 DEF Request
<1> QED
  BY <1>1, <1>3, <1>5, PipeInductive DEF Request, SessionInv, TypeOK

LEMMA BabbleInductive == SessionInv /\ Babble => SessionInv'
<1> SUFFICES ASSUME SessionInv, Babble
             PROVE  SessionInv'
  OBVIOUS
<1>1. lines' \in 0 .. MaxLines
  BY BoundAssumption DEF Babble, SessionInv, TypeOK
<1>2. PICK id \in 1 .. client.sent \cup {None} : up' = Append(up, [id |-> id])
  BY DEF Babble
<1>3. id \in Ids \cup {None}
  BY BoundAssumption DEF SessionInv, TypeOK, Ids
<1>4. [id |-> id] \in Lines
  BY <1>3 DEF Lines
<1>5. up' \in Seq(Lines)
  BY <1>2, <1>4 DEF SessionInv, TypeOK
<1> QED
  BY <1>1, <1>5, PipeInductive DEF Babble, SessionInv, TypeOK

LEMMA PumpInductive == SessionInv /\ Pump => SessionInv'
<1> SUFFICES ASSUME SessionInv, Pump
             PROVE  SessionInv'
  OBVIOUS
<1>1. /\ down \in Seq(Responses) /\ down # <<>> /\ down' = Tail(down)
      /\ client \in [pending : SUBSET Ids, mutated : SUBSET Ids, sent : 0 .. MaxSent]
  BY DEF Pump, SessionInv, TypeOK
<1>2. Tail(down) \in Seq(Responses)
  BY <1>1, HeadTailProperties
<1> DEFINE r == Head(down)
<1>3. client' \in [pending : SUBSET Ids, mutated : SUBSET Ids, sent : 0 .. MaxSent]
  <2>1. CASE r.id \in client.pending
    <3>1. /\ client.pending \ {r.id} \in SUBSET Ids
          /\ (IF r.ok THEN client.mutated \cup {r.id} ELSE client.mutated) \in SUBSET Ids
      BY <1>1, <2>1
    <3>2. client' = [client EXCEPT !.pending = client.pending \ {r.id},
                        !.mutated = IF r.ok THEN client.mutated \cup {r.id} ELSE client.mutated]
      BY <2>1 DEF Pump
    <3> HIDE DEF r
    <3> QED
      BY <1>1, <3>1, <3>2
  <2>2. CASE r.id \notin client.pending
    BY <1>1, <2>2 DEF Pump
  <2> QED
    BY <2>1, <2>2
<1> QED
  BY <1>1, <1>2, <1>3, PipeInductive DEF Pump, SessionInv, TypeOK, history

LEMMA ChildEndsInductive == \A end \in Ends : SessionInv /\ ChildEnds(end) => SessionInv'
<1> SUFFICES ASSUME NEW end \in Ends, SessionInv, ChildEnds(end)
             PROVE  SessionInv'
  OBVIOUS
<1>1. child' \in Children
  BY DEF ChildEnds, Children
<1> QED
  BY <1>1, PipeInductive DEF ChildEnds, SessionInv, TypeOK, pipes, history

LEMMA HostDiesInductive == SessionInv /\ HostDies => SessionInv'
  BY DEF HostDies, SessionInv, TypeOK, ClosedInv, SeenInv, JournalInv, AskedInv,
         AskedIsNotCompleted, pipes, history

\* Every step of the orchestrator, the child and the operating system keeps the
\* session's invariant (AgentProcessHandle, ToolBridge, ProtocolClient).
THEOREM SessionInductive == SessionInv /\ [Next]_vars => SessionInv'
<1> SUFFICES ASSUME SessionInv, [Next]_vars
             PROVE  SessionInv'
  OBVIOUS
<1>1. CASE Launch
  BY <1>1, LaunchInductive
<1>2. CASE LaunchNothing
  BY <1>2, LaunchNothingInductive
<1>3. CASE Timeout
  BY <1>3, TimeoutInductive
<1>4. CASE Cancel
  BY <1>4, CancelInductive
<1>5. CASE Overflow
  BY <1>5, OverflowInductive
<1>6. CASE GraceElapses
  BY <1>6, GraceInductive
<1>7. CASE Close
  BY <1>7, CloseInductive
<1>8. CASE Handle
  BY <1>8, HandleInductive
<1>9. CASE Request
  BY <1>9, RequestInductive
<1>10. CASE Babble
  BY <1>10, BabbleInductive
<1>11. CASE Pump
  BY <1>11, PumpInductive
<1>12. CASE \E end \in Ends : ChildEnds(end)
  BY <1>12, ChildEndsInductive
<1>13. CASE HostDies
  BY <1>13, HostDiesInductive
<1>14. CASE UNCHANGED vars
  BY <1>14 DEF SessionInv, TypeOK, ClosedInv, SeenInv, JournalInv, AskedInv,
               AskedIsNotCompleted, vars, pipes, history
<1> QED
  BY <1>1, <1>2, <1>3, <1>4, <1>5, <1>6, <1>7, <1>8, <1>9, <1>10, <1>11, <1>12, <1>13, <1>14
  DEF Next

LEMMA SessionInitial == Init => SessionInv
<1> SUFFICES ASSUME Init
             PROVE  SessionInv
  OBVIOUS
<1>1. /\ 0 \in 0 .. MaxSent /\ 0 \in 0 .. MaxWrites /\ 0 \in 0 .. MaxLines
      /\ MaxRequests + 1 \in Nat
  BY BoundAssumption
<1>2. TypeOK
  <2>1. child \in Children /\ up \in Seq(Lines) /\ down \in Seq(Responses)
    BY DEF Init, Children
  <2>2. client \in [pending : SUBSET Ids, mutated : SUBSET Ids, sent : 0 .. MaxSent]
    BY <1>1 DEF Init
  <2>3. bridge \in [received : Nat, seen : SUBSET Ids, used : 0 .. MaxWrites, closed : BOOLEAN]
    BY <1>1 DEF Init
  <2> QED
    BY <1>1, <2>1, <2>2, <2>3 DEF Init, TypeOK
<1>3. JournalInv
  BY BoundAssumption DEF Init, JournalInv
<1>4. ClosedInv
  BY DEF Init, ClosedInv
<1>5. SeenInv
  <2>1. landed = [i \in Ids |-> 0]
    BY DEF Init
  <2>2. \A i \in Ids : landed[i] = 0
    BY <2>1
  <2> QED
    BY <2>2 DEF SeenInv
<1>6. AskedInv
  <2>1. ending.graces = 0 /\ record = None
    BY DEF Init
  <2> QED
    BY <2>1 DEF AskedInv, AskedIsNotCompleted
<1> QED
  BY <1>2, <1>3, <1>4, <1>5, <1>6 DEF SessionInv

-----------------------------------------------------------------------------
(* What follows from it. *)

\* The session's invariant holds as long as the agent is at work and after.
THEOREM SessionInvariant == Spec => []SessionInv
  BY SessionInitial, SessionInductive, PTL DEF Spec

\* Every variable keeps its type: ToolBridge, AgentProcessHandle, ProtocolClient.
THEOREM SessionTypes == Spec => []TypeOK
<1>1. SessionInv => TypeOK
  BY DEF SessionInv
<1> QED
  BY <1>1, SessionInvariant, PTL

\* One request, one mutation, whatever is replayed (ToolBridge, #seen).
THEOREM OneMutation == Spec => []OneMutationPerRequest
<1>1. SessionInv => OneMutationPerRequest
  BY DEF SessionInv, SeenInv, OneMutationPerRequest
<1> QED
  BY <1>1, SessionInvariant, PTL

\* The journal's rejections are bounded by the ceiling (ToolBridge, #admit).
THEOREM BoundedJournal == Spec => []JournalIsBounded
<1>1. SessionInv => JournalIsBounded
  BY DEF SessionInv, JournalInv, JournalIsBounded
<1> QED
  BY <1>1, SessionInvariant, PTL

\* A process that was asked to stop is not a completed run (AgentProcessHandle).
THEOREM AskedNotCompleted == Spec => []AskedIsNotCompleted
<1>1. SessionInv => AskedIsNotCompleted
  BY DEF SessionInv, AskedInv
<1> QED
  BY <1>1, SessionInvariant, PTL

\* Nothing lands after a cancellation or after the record (ToolBridge, #process;
\* ClaudeCodeAgent.implement).
THEOREM Stops == Spec => WorkStops
<1>1. SessionInv /\ [Next]_vars => [cancelled \/ record # None => UNCHANGED landed]_vars
  <2> SUFFICES ASSUME SessionInv, Next, cancelled \/ record # None
               PROVE  UNCHANGED landed
    BY DEF vars, history
  <2>1. bridge.closed \/ cancelled
    BY DEF SessionInv, ClosedInv
  <2>2. CASE Handle
    BY <2>1, <2>2 DEF Handle, HandleUnread, Serves, Refuse
  <2>3. CASE ~ Handle
    BY <2>3 DEF Next, Launch, LaunchNothing, Timeout, Cancel, Overflow, GraceElapses, Close,
                Request, Babble, Pump, ChildEnds, HostDies, history
  <2> QED
    BY <2>2, <2>3
<1> QED
  BY <1>1, SessionInvariant, PTL DEF Spec, WorkStops

-----------------------------------------------------------------------------
(* The client's claims: its answers arrive in order, and the first one to an *)
(* id says whether its mutation landed.                                      *)

Clients == [pending : SUBSET Ids, mutated : SUBSET Ids, sent : 0 .. MaxSent]

\* Not asked yet.
Unasked(i) ==
    /\ i \notin client.pending
    /\ i \notin client.mutated
    /\ landed[i] = 0
    /\ \A k \in DOMAIN up : up[k].id # i
    /\ \A k \in DOMAIN down : down[k].id # i

\* Waiting: no answer is on its way, or the first one is true and the last.
Waiting(i) ==
    /\ i \notin client.mutated
    /\ \A k \in DOMAIN down : down[k].id = i => ~ Serves(i)
    /\ landed[i] = 0 => \A k \in DOMAIN down : down[k].id = i => ~ down[k].ok
    /\ landed[i] = 1 => \E k \in DOMAIN down :
                           /\ down[k].id = i /\ down[k].ok
                           /\ \A j \in DOMAIN down : j < k => down[j].id # i

\* Answered: the claim is settled.
Answered(i) ==
    /\ ~ Serves(i)
    /\ i \in client.mutated <=> landed[i] = 1

ClaimInv ==
    /\ client.pending \subseteq 1 .. client.sent
    /\ \A i \in Ids : /\ i > client.sent => Unasked(i)
                      /\ i \in client.pending => Waiting(i)
                      /\ i <= client.sent /\ i \notin client.pending => Answered(i)

\* What a session no longer serves it never serves again.
LEMMA ServesNoMore ==
  ASSUME SessionInv, Next, NEW i \in Ids, ~ Serves(i)
  PROVE  ~ Serves(i)'
<1>1. bridge \in Bridges
  BY DEF SessionInv, TypeOK, Bridges
<1>2. (bridge.closed => bridge'.closed) /\ bridge.seen \subseteq bridge'.seen /\ (cancelled => cancelled')
  <2>1. CASE bridge' = bridge /\ (cancelled => cancelled')
    BY <2>1
  <2>2. CASE bridge' = [bridge EXCEPT !.closed = TRUE] /\ (cancelled => cancelled')
    BY <1>1, <2>2 DEF Bridges
  <2>3. CASE Launch \/ LaunchNothing \/ Close \/ Request \/ Babble \/ Pump \/ HostDies
             \/ \E end \in Ends : ChildEnds(end)
    BY <2>1, <2>2, <2>3 DEF Launch, LaunchNothing, Close, Request, Babble, Pump, HostDies, ChildEnds
  <2>4. CASE Timeout \/ Cancel \/ Overflow
    BY <2>1, <2>2, <2>4 DEF Timeout, Cancel, Overflow, Terminate, Signal
  <2>5. CASE GraceElapses
    BY <2>1, <2>2, <2>5 DEF GraceElapses, Signal
  <2>6. CASE Handle
    <3>1. cancelled' = cancelled
      BY <2>6 DEF Handle
    <3>2. CASE bridge' = [bridge EXCEPT !.received = @ + 1]
      BY <1>1, <3>1, <3>2 DEF Bridges
    <3>3. CASE Perform(Head(up).id)
      <4>1. \/ bridge' = [bridge EXCEPT !.received = @ + 1, !.seen = @ \cup {Head(up).id}]
            \/ bridge' = [bridge EXCEPT !.received = @ + 1, !.seen = @ \cup {Head(up).id}, !.used = @ + 1]
        BY <3>3 DEF Perform
      <4> QED
        BY <1>1, <3>1, <4>1 DEF Bridges
    <3> QED
      BY <2>6, <3>2, <3>3 DEF Handle, HandleUnread
  <2> QED
    BY <2>3, <2>4, <2>5, <2>6 DEF Next
<1> QED
  BY <1>2 DEF Serves

\* A step that leaves the answers and the claims alone, and asks nothing new.
LEMMA QuietClaims ==
  ASSUME SessionInv, ClaimInv, Next, UNCHANGED <<down, client, landed>>,
         \A k \in DOMAIN up' : \E l \in DOMAIN up : up'[k] = up[l]
  PROVE  ClaimInv'
<1> SUFFICES ASSUME NEW i \in Ids
             PROVE  /\ i > client.sent => Unasked(i)'
                    /\ i \in client.pending => Waiting(i)'
                    /\ i <= client.sent /\ i \notin client.pending => Answered(i)'
  BY DEF ClaimInv
<1>1. ~ Serves(i) => ~ Serves(i)'
  BY ServesNoMore
<1>2. i > client.sent => Unasked(i)'
  BY DEF ClaimInv, Unasked
<1>3. i \in client.pending => Waiting(i)'
  BY <1>1 DEF ClaimInv, Waiting
<1>4. i <= client.sent /\ i \notin client.pending => Answered(i)'
  BY <1>1 DEF ClaimInv, Answered
<1> QED
  BY <1>2, <1>3, <1>4

\* A shorter or unchanged channel holds no line that was not there before.
LEMMA OverflowClaims == SessionInv /\ ClaimInv /\ Overflow => ClaimInv'
<1> SUFFICES ASSUME SessionInv, ClaimInv, Overflow
             PROVE  ClaimInv'
  OBVIOUS
<1>1. PICK n \in 0 .. Len(up) : up' = SubSeq(up, 1, n)
  BY DEF Overflow
<1>2. up \in Seq(Lines)
  BY DEF SessionInv, TypeOK
<1>3. \A k \in DOMAIN up' : k \in DOMAIN up /\ up'[k] = up[k]
  BY <1>1, <1>2
<1>4. \A k \in DOMAIN up' : \E l \in DOMAIN up : up'[k] = up[l]
  BY <1>3
<1>5. Next /\ UNCHANGED <<down, client, landed>>
  BY DEF Next, Overflow
<1> QED
  BY <1>4, <1>5, QuietClaims

\* A request is new to every channel, and now the client waits for it.
LEMMA RequestClaims == SessionInv /\ ClaimInv /\ Request => ClaimInv'
<1> SUFFICES ASSUME SessionInv, ClaimInv, Request
             PROVE  ClaimInv'
  OBVIOUS
<1> DEFINE n == client.sent + 1
<1>1. /\ client \in Clients /\ up \in Seq(Lines) /\ n \in Ids
      /\ client' = [client EXCEPT !.sent = n, !.pending = @ \cup {n}]
      /\ up' = Append(up, [id |-> n])
      /\ UNCHANGED <<down, landed, bridge, cancelled>>
  BY BoundAssumption DEF Request, SessionInv, TypeOK, Clients, Ids
<1> HIDE DEF n
<1>2. /\ client'.sent = n /\ client'.pending = client.pending \cup {n}
      /\ client'.mutated = client.mutated
  BY <1>1 DEF Clients
<1>3. n = client.sent + 1 /\ client.sent \in Nat
  BY <1>1 DEF n, Clients
<1>4. ASSUME NEW i \in Ids
      PROVE  /\ i > client'.sent => Unasked(i)'
             /\ i \in client'.pending => Waiting(i)'
             /\ i <= client'.sent /\ i \notin client'.pending => Answered(i)'
  <2>0. i \in Nat
    BY DEF Ids
  <2>1. CASE i > n
    <3>1. Unasked(i)
      BY <1>3, <2>0, <2>1 DEF ClaimInv
    <3>2. i # n /\ i \notin client'.pending /\ i > client'.sent
      BY <1>2, <1>3, <2>0, <2>1, <3>1 DEF Unasked
    <3>3. \A k \in DOMAIN up' : up'[k].id # i
      <4>1. ASSUME NEW k \in DOMAIN up'
            PROVE  up'[k] = [id |-> n] \/ (k \in DOMAIN up /\ up'[k] = up[k])
        BY <1>1
      <4> QED
        BY <3>1, <3>2, <4>1 DEF Unasked
    <3>4. Unasked(i)'
      BY <1>1, <1>2, <3>1, <3>2, <3>3 DEF Unasked
    <3> QED
      BY <1>2, <1>3, <2>0, <3>2, <3>4
  <2>2. CASE i = n
    <3>1. Unasked(i)
      BY <1>3, <2>0, <2>2 DEF ClaimInv
    <3>2. Waiting(i)'
      BY <1>1, <1>2, <3>1 DEF Unasked, Waiting
    <3> QED
      BY <1>2, <1>3, <2>0, <2>2, <3>2
  <2>3. CASE i < n
    <3>1. i <= client.sent /\ ~ (i > client'.sent) /\ i # n
      BY <1>2, <1>3, <2>0, <2>3
    <3>2. CASE i \in client.pending
      <4>1. Waiting(i)
        BY <3>2 DEF ClaimInv
      <4>2. Waiting(i)'
        BY <1>1, <1>2, <4>1 DEF Waiting, Serves
      <4> QED
        BY <1>2, <3>1, <3>2, <4>2
    <3>3. CASE i \notin client.pending
      <4>1. Answered(i)
        BY <3>1, <3>3 DEF ClaimInv
      <4>2. Answered(i)'
        BY <1>1, <1>2, <4>1 DEF Answered, Serves
      <4> QED
        BY <1>2, <3>1, <3>3, <4>2
    <3> QED
      BY <3>2, <3>3
  <2> QED
    BY <1>3, <2>0, <2>1, <2>2, <2>3
<1>5. client'.pending \subseteq 1 .. client'.sent
  BY <1>2, <1>3 DEF ClaimInv
<1> QED
  BY <1>4, <1>5 DEF ClaimInv

\* Noise carries no id the client has not used.
LEMMA BabbleClaims == SessionInv /\ ClaimInv /\ Babble => ClaimInv'
<1> SUFFICES ASSUME SessionInv, ClaimInv, Babble
             PROVE  ClaimInv'
  OBVIOUS
<1>1. PICK n \in 1 .. client.sent \cup {None} : up' = Append(up, [id |-> n])
  BY DEF Babble
<1>2. /\ client \in Clients /\ up \in Seq(Lines) /\ client.sent \in Nat
      /\ UNCHANGED <<down, client, landed, bridge, cancelled>>
  BY DEF Babble, SessionInv, TypeOK, Clients
<1>3. ASSUME NEW i \in Ids
      PROVE  /\ i > client'.sent => Unasked(i)'
             /\ i \in client'.pending => Waiting(i)'
             /\ i <= client'.sent /\ i \notin client'.pending => Answered(i)'
  <2>1. CASE i > client.sent
    <3>1. Unasked(i) /\ i # n
      BY <1>2, <2>1, NoneAssumption DEF ClaimInv, Ids
    <3>2. ASSUME NEW k \in DOMAIN up'
          PROVE  up'[k].id # i
      <4>1. up'[k] = [id |-> n] \/ (k \in DOMAIN up /\ up'[k] = up[k])
        BY <1>1, <1>2
      <4> QED
        BY <3>1, <4>1 DEF Unasked
    <3>3. Unasked(i)'
      BY <1>2, <3>1, <3>2 DEF Unasked
    <3> QED
      BY <1>2, <2>1, <3>1, <3>3 DEF Unasked, Ids
  <2>2. CASE ~ (i > client.sent)
    BY <1>2, <2>2 DEF ClaimInv, Waiting, Answered, Serves
  <2> QED
    BY <2>1, <2>2
<1> QED
  BY <1>2, <1>3 DEF ClaimInv

\* One message, one answer: to nobody, or to whom the line named.  An OK is a
\* mutation of an id that was still served; no answered id is served again.
Answers(m, ok) ==
    /\ down' = Append(down, [id |-> m, ok |-> ok])
    /\ m \in Ids => \E k \in DOMAIN up : up[k].id = m
    /\ \A i \in Ids : i # m => landed'[i] = landed[i]
    /\ m \in Ids => ~ Serves(m)'
    /\ m \in Ids /\ ok => Serves(m) /\ landed'[m] = landed[m] + 1
    /\ m \in Ids /\ ~ ok => landed'[m] = landed[m]

\* Every message is answered so.
LEMMA HandleEffect ==
  ASSUME SessionInv, Handle
  PROVE  \E m \in Ids \cup {None}, ok \in BOOLEAN : Answers(m, ok)
<1>0. PICK n : n = Head(up).id
  OBVIOUS
<1>1. /\ up \in Seq(Lines) /\ up # <<>> /\ bridge \in Bridges /\ landed \in [Ids -> Nat]
      /\ cancelled' = cancelled
  BY DEF SessionInv, TypeOK, Handle, Bridges
<1>2. n \in Ids \cup {None} /\ \E k \in DOMAIN up : up[k].id = n
  <2>1. 1 \in DOMAIN up /\ Head(up) = up[1] /\ up[1] \in Lines
    BY <1>1
  <2> QED
    BY <1>0, <2>1 DEF Lines
<1>3. \/ HandleUnread
      \/ Serves(n) /\ Perform(n)
      \/ ~ Serves(n) /\ bridge' = [bridge EXCEPT !.received = @ + 1] /\ Refuse(n)
  BY <1>0 DEF Handle
<1>4. CASE HandleUnread
  <2>1. Answers(None, FALSE)
    BY <1>4, NoneAssumption DEF HandleUnread, Refuse, Respond, Answers
  <2> QED
    BY <2>1
<1>5. CASE Serves(n) /\ Perform(n)
  <2>1. n \in Ids
    BY <1>2, <1>5 DEF Serves
  <2>2. CASE bridge' = [bridge EXCEPT !.received = @ + 1, !.seen = @ \cup {n}] /\ Refuse(n)
    <3>1. ~ Serves(n)'
      BY <1>1, <2>2 DEF Serves, Bridges
    <3>2. Answers(n, FALSE)
      BY <1>2, <2>2, <3>1 DEF Refuse, Respond, Answers
    <3> QED
      BY <2>1, <3>2
  <2>3. CASE /\ bridge' = [bridge EXCEPT !.received = @ + 1, !.seen = @ \cup {n}, !.used = @ + 1]
             /\ Respond(n, TRUE)
             /\ landed' = [landed EXCEPT ![n] = @ + 1]
    <3>1. ~ Serves(n)'
      BY <1>1, <2>3 DEF Serves, Bridges
    <3>2. landed'[n] = landed[n] + 1 /\ \A i \in Ids : i # n => landed'[i] = landed[i]
      BY <1>1, <2>1, <2>3
    <3>3. Answers(n, TRUE)
      BY <1>2, <1>5, <2>3, <3>1, <3>2 DEF Respond, Answers
    <3> QED
      BY <2>1, <3>3
  <2> QED
    BY <1>5, <2>2, <2>3 DEF Perform
<1>6. CASE ~ Serves(n) /\ bridge' = [bridge EXCEPT !.received = @ + 1] /\ Refuse(n)
  <2>1. ~ Serves(n)'
    BY <1>1, <1>6 DEF Serves, Bridges
  <2>2. Answers(n, FALSE)
    BY <1>2, <1>6, <2>1 DEF Refuse, Respond, Answers
  <2> QED
    BY <1>2, <2>2
<1> QED
  BY <1>3, <1>4, <1>5, <1>6

\* An answer joins the others at the end; only the first for an id is believed.
LEMMA HandleClaims == SessionInv /\ ClaimInv /\ Handle => ClaimInv'
<1> SUFFICES ASSUME SessionInv, ClaimInv, Handle
             PROVE  ClaimInv'
  OBVIOUS
<1>0. PICK m \in Ids \cup {None}, ok \in BOOLEAN : Answers(m, ok)
  BY HandleEffect
<1>1. /\ down' = Append(down, [id |-> m, ok |-> ok])
      /\ m \in Ids => \E k \in DOMAIN up : up[k].id = m
      /\ \A i \in Ids : i # m => landed'[i] = landed[i]
      /\ m \in Ids => ~ Serves(m)'
      /\ m \in Ids /\ ok => Serves(m) /\ landed'[m] = landed[m] + 1
      /\ m \in Ids /\ ~ ok => landed'[m] = landed[m]
  BY <1>0 DEF Answers
<1>2. /\ up \in Seq(Lines) /\ down \in Seq(Responses) /\ up # <<>>
      /\ up' = Tail(up) /\ client' = client
  BY DEF SessionInv, TypeOK, Handle
<1>3. \A k \in DOMAIN up' : \E l \in DOMAIN up : up'[k] = up[l]
  <2>1. ASSUME NEW k \in DOMAIN up'
        PROVE  k + 1 \in DOMAIN up /\ up'[k] = up[k + 1]
    BY <1>2
  <2> QED
    BY <2>1
<1>4. /\ DOMAIN down = 1 .. Len(down) /\ Len(down) \in Nat
      /\ DOMAIN down' = 1 .. Len(down) + 1
      /\ \A k \in DOMAIN down : k \in DOMAIN down' /\ down'[k] = down[k] /\ k < Len(down) + 1
      /\ down'[Len(down) + 1] = [id |-> m, ok |-> ok]
      /\ \A k \in DOMAIN down' : k \in DOMAIN down \/ k = Len(down) + 1
  BY <1>1, <1>2
<1> SUFFICES ASSUME NEW i \in Ids
             PROVE  /\ i > client.sent => Unasked(i)'
                    /\ i \in client.pending => Waiting(i)'
                    /\ i <= client.sent /\ i \notin client.pending => Answered(i)'
  BY <1>2 DEF ClaimInv
<1>5. ~ Serves(i) => ~ Serves(i)'
  BY ServesNoMore DEF Next
<1>6. landed[i] = 0 \/ (landed[i] = 1 /\ ~ Serves(i))
  BY DEF SessionInv, SeenInv, Serves
<1>7. ASSUME i > client.sent
      PROVE  Unasked(i)'
  <2>1. Unasked(i)
    BY <1>7 DEF ClaimInv
  <2>2. i # m
    BY <1>1, <2>1 DEF Unasked
  <2>3. \A k \in DOMAIN down' : down'[k].id # i
    BY <1>4, <2>1, <2>2 DEF Unasked
  <2>4. \A k \in DOMAIN up' : up'[k].id # i
    BY <1>3, <2>1 DEF Unasked
  <2> QED
    BY <1>1, <1>2, <2>1, <2>2, <2>3, <2>4 DEF Unasked
<1>8. ASSUME i \in client.pending
      PROVE  Waiting(i)'
  <2>1. Waiting(i)
    BY <1>8 DEF ClaimInv
  <2>2. CASE i # m
    <3>1. \A k \in DOMAIN down' : down'[k].id = i => ~ Serves(i)'
      BY <1>4, <1>5, <2>1, <2>2 DEF Waiting
    <3>2. landed'[i] = 0 => \A k \in DOMAIN down' : down'[k].id = i => ~ down'[k].ok
      BY <1>1, <1>4, <2>1, <2>2 DEF Waiting
    <3>3. ASSUME landed'[i] = 1
          PROVE  \E k \in DOMAIN down' : /\ down'[k].id = i /\ down'[k].ok
                                         /\ \A j \in DOMAIN down' : j < k => down'[j].id # i
      <4>1. PICK k \in DOMAIN down : /\ down[k].id = i /\ down[k].ok
                                     /\ \A j \in DOMAIN down : j < k => down[j].id # i
        BY <1>1, <2>1, <2>2, <3>3 DEF Waiting
      <4>2. \A j \in DOMAIN down' : j < k => down'[j].id # i
        BY <1>4, <4>1, <2>2
      <4> QED
        BY <1>4, <4>1, <4>2
    <3> QED
      BY <1>2, <2>1, <3>1, <3>2, <3>3 DEF Waiting
  <2>3. CASE i = m /\ ok
    <3>1. landed'[i] = 1 /\ Serves(i)
      BY <1>1, <1>6, <2>3
    <3>2. \A k \in DOMAIN down : down[k].id # i
      BY <2>1, <3>1 DEF Waiting
    <3>3. /\ down'[Len(down) + 1].id = i /\ down'[Len(down) + 1].ok
          /\ Len(down) + 1 \in DOMAIN down'
          /\ \A j \in DOMAIN down' : j < Len(down) + 1 => down'[j].id # i
      BY <1>4, <2>3, <3>2
    <3> QED
      BY <1>1, <1>2, <2>1, <2>3, <3>1, <3>3 DEF Waiting
  <2>4. CASE i = m /\ ~ ok
    <3>1. landed'[i] = landed[i] /\ ~ Serves(i)'
      BY <1>1, <2>4
    <3>2. landed'[i] = 0 => \A k \in DOMAIN down' : down'[k].id = i => ~ down'[k].ok
      BY <1>4, <2>1, <2>4, <3>1 DEF Waiting
    <3>3. ASSUME landed'[i] = 1
          PROVE  \E k \in DOMAIN down' : /\ down'[k].id = i /\ down'[k].ok
                                         /\ \A j \in DOMAIN down' : j < k => down'[j].id # i
      <4>1. PICK k \in DOMAIN down : /\ down[k].id = i /\ down[k].ok
                                     /\ \A j \in DOMAIN down : j < k => down[j].id # i
        BY <2>1, <3>1, <3>3 DEF Waiting
      <4>2. \A j \in DOMAIN down' : j < k => down'[j].id # i
        BY <1>4, <4>1
      <4> QED
        BY <1>4, <4>1, <4>2
    <3> QED
      BY <1>2, <2>1, <3>1, <3>2, <3>3 DEF Waiting
  <2> QED
    BY <2>2, <2>3, <2>4
<1>9. ASSUME i <= client.sent, i \notin client.pending
      PROVE  Answered(i)'
  <2>1. Answered(i)
    BY <1>9 DEF ClaimInv
  <2>2. landed'[i] = landed[i]
    BY <1>1, <2>1 DEF Answered
  <2> QED
    BY <1>2, <1>5, <2>1, <2>2 DEF Answered
<1> QED
  BY <1>7, <1>8, <1>9

\* The first answer for an id settles its claim.
LEMMA PumpClaims == SessionInv /\ ClaimInv /\ Pump => ClaimInv'
<1> SUFFICES ASSUME SessionInv, ClaimInv, Pump
             PROVE  ClaimInv'
  OBVIOUS
<1> DEFINE r == down[1]
<1>1. /\ down \in Seq(Responses) /\ down # <<>> /\ client \in Clients
      /\ down' = Tail(down) /\ UNCHANGED <<up, bridge, cancelled, landed>>
      /\ client' = IF r.id \in client.pending
                   THEN [client EXCEPT !.pending = @ \ {r.id},
                                       !.mutated = IF r.ok THEN @ \cup {r.id} ELSE @]
                   ELSE client
  <2>1. down \in Seq(Responses) /\ down # <<>>
    BY DEF Pump, SessionInv, TypeOK
  <2>2. Head(down) = down[1]
    BY <2>1
  <2> QED
    BY <2>1, <2>2 DEF Pump, SessionInv, TypeOK, Clients, history
<1>2. /\ client'.sent = client.sent
      /\ client'.pending = client.pending \ {r.id}
      /\ client'.mutated = IF r.id \in client.pending /\ r.ok
                           THEN client.mutated \cup {r.id} ELSE client.mutated
  BY <1>1 DEF Clients
<1>3. /\ DOMAIN down = 1 .. Len(down) /\ Len(down) \in Nat /\ 1 \in DOMAIN down
      /\ \A k \in DOMAIN down' : k \in Nat /\ k >= 1 /\ k + 1 \in DOMAIN down /\ down'[k] = down[k + 1]
      /\ \A k \in DOMAIN down : k = 1 \/ (k - 1 \in DOMAIN down' /\ down'[k - 1] = down[k])
  BY <1>1
<1> HIDE DEF r
<1>4. ASSUME NEW i \in Ids
      PROVE  /\ i > client'.sent => Unasked(i)'
             /\ i \in client'.pending => Waiting(i)'
             /\ i <= client'.sent /\ i \notin client'.pending => Answered(i)'
  <2>0. Serves(i)' <=> Serves(i)
    BY <1>1 DEF Serves
  <2>1. ASSUME i > client.sent
        PROVE  Unasked(i)'
    <3>1. Unasked(i)
      BY <2>1 DEF ClaimInv
    <3>2. i # r.id
      BY <1>3, <3>1 DEF Unasked, r
    <3> QED
      BY <1>1, <1>2, <1>3, <3>1, <3>2 DEF Unasked
  <2>2. ASSUME i \in client'.pending
        PROVE  Waiting(i)'
    <3>1. Waiting(i) /\ i # r.id
      BY <1>2, <2>2 DEF ClaimInv
    <3>2. \A k \in DOMAIN down' : down'[k].id = i => ~ Serves(i)'
      BY <1>3, <2>0, <3>1 DEF Waiting
    <3>3. landed[i] = 0 => \A k \in DOMAIN down' : down'[k].id = i => ~ down'[k].ok
      BY <1>3, <3>1 DEF Waiting
    <3>4. ASSUME landed[i] = 1
          PROVE  \E k \in DOMAIN down' : /\ down'[k].id = i /\ down'[k].ok
                                         /\ \A j \in DOMAIN down' : j < k => down'[j].id # i
      <4>1. PICK k \in DOMAIN down : /\ down[k].id = i /\ down[k].ok
                                     /\ \A j \in DOMAIN down : j < k => down[j].id # i
        BY <3>1, <3>4 DEF Waiting
      <4>2. k \in Int /\ k - 1 \in DOMAIN down' /\ down'[k - 1] = down[k]
        BY <1>3, <3>1, <4>1 DEF r
      <4>3. ASSUME NEW j \in DOMAIN down', j < k - 1
            PROVE  down'[j].id # i
        <5>1. j + 1 \in DOMAIN down /\ j + 1 < k /\ down'[j] = down[j + 1]
          BY <1>3, <4>2, <4>3
        <5> QED
          BY <4>1, <5>1
      <4> QED
        BY <4>1, <4>2, <4>3
    <3> QED
      BY <1>1, <1>2, <3>1, <3>2, <3>3, <3>4 DEF Waiting
  <2>3. ASSUME i <= client.sent, i \notin client'.pending
        PROVE  Answered(i)'
    <3>1. CASE i \notin client.pending
      <4>1. Answered(i)
        BY <2>3, <3>1 DEF ClaimInv
      <4>2. i \in client'.mutated <=> i \in client.mutated
        BY <1>2, <3>1
      <4> QED
        BY <1>1, <2>0, <4>1, <4>2 DEF Answered
    <3>2. CASE i \in client.pending
      <4>1. Waiting(i) /\ i = r.id
        BY <1>2, <2>3, <3>2 DEF ClaimInv
      <4>2. ~ Serves(i)'
        BY <1>3, <2>0, <4>1 DEF Waiting, r
      <4>3. landed[i] \in {0, 1}
        BY DEF SessionInv, SeenInv
      <4>4. landed[i] = 0 => ~ r.ok
        BY <1>3, <4>1 DEF Waiting, r
      <4>5. ASSUME landed[i] = 1
            PROVE  r.ok
        <5>1. PICK k \in DOMAIN down : /\ down[k].id = i /\ down[k].ok
                                       /\ \A j \in DOMAIN down : j < k => down[j].id # i
          BY <4>1, <4>5 DEF Waiting
        <5>2. k = 1
          BY <1>3, <4>1, <5>1 DEF r
        <5> QED
          BY <5>1, <5>2 DEF r
      <4>6. i \in client'.mutated <=> r.ok
        BY <1>2, <3>2, <4>1 DEF Waiting
      <4> QED
        BY <1>1, <4>2, <4>3, <4>4, <4>5, <4>6 DEF Answered
    <3> QED
      BY <3>1, <3>2
  <2> QED
    BY <1>2, <2>1, <2>2, <2>3
<1>5. client'.pending \subseteq 1 .. client'.sent
  BY <1>2 DEF ClaimInv
<1> QED
  BY <1>4, <1>5 DEF ClaimInv

\* The claim invariant is inductive beside the session's.
LEMMA ClaimInductive ==
  /\ Init => ClaimInv
  /\ SessionInv /\ ClaimInv /\ [Next]_vars => ClaimInv'
<1>1. Init => ClaimInv
  BY DEF Init, ClaimInv, Unasked, Ids
<1>2. ASSUME SessionInv, ClaimInv, [Next]_vars
      PROVE  ClaimInv'
  <2>1. CASE UNCHANGED vars
    BY <1>2, <2>1 DEF vars, pipes, history, ClaimInv, Unasked, Waiting, Answered, Serves
  <2>2. CASE /\ Next
             /\ UNCHANGED <<up, down, client, landed>>
    <3>1. \A k \in DOMAIN up' : \E l \in DOMAIN up : up'[k] = up[l]
      BY <2>2
    <3> QED
      BY <1>2, <2>2, <3>1, QuietClaims
  <2>3. CASE Launch \/ LaunchNothing \/ Timeout \/ Cancel \/ GraceElapses \/ Close \/ HostDies
             \/ \E end \in Ends : ChildEnds(end)
    <3>1. Next
      BY <2>3 DEF Next
    <3>2. UNCHANGED <<up, down, client, landed>>
      BY <2>3 DEF Launch, LaunchNothing, Timeout, Cancel, GraceElapses, Close, HostDies,
                  ChildEnds, pipes, history
    <3> QED
      BY <2>2, <3>1, <3>2
  <2> QED
    BY <1>2, <2>1, <2>3, OverflowClaims, HandleClaims, RequestClaims, BabbleClaims, PumpClaims DEF Next
<1> QED
  BY <1>1, <1>2

\* What the client has an answer for it claims exactly if it landed: for any
\* interleaving of requests, noise, refusals, dropped chunks, signals and ends.
THEOREM ClaimsTrue == Spec => []ClaimsAreTrue
<1>1. SessionInv /\ ClaimInv => ClaimsAreTrue
  <2> SUFFICES ASSUME SessionInv, ClaimInv, NEW i \in 1 .. client.sent \ client.pending
               PROVE  i \in client.mutated <=> landed[i] = 1
    BY DEF ClaimsAreTrue
  <2>1. i \in Ids /\ i <= client.sent /\ i \notin client.pending
    BY BoundAssumption DEF SessionInv, TypeOK, Ids
  <2> QED
    BY <2>1 DEF ClaimInv, Answered
<1>2. Init => SessionInv /\ ClaimInv
  BY SessionInitial, ClaimInductive
<1>3. SessionInv /\ ClaimInv /\ [Next]_vars => (SessionInv /\ ClaimInv)'
  BY SessionInductive, ClaimInductive
<1> QED
  BY <1>1, <1>2, <1>3, PTL DEF Spec

-----------------------------------------------------------------------------
(* Nobody waits in vain. *)

\* Before the launch there is no child, and nothing it could wait for.
LaunchInv == host = "launching" => ~ child.alive /\ client.pending = {}

WaitInv == LaunchInv /\ NobodyWaitsInVain

\* Steps that leave the client and the pipes alone: an unhurried agent was
\* unhurried before, unless it has just been launched.
LEMMA UnhurriedBefore ==
  ASSUME SessionInv, LaunchInv,
         \/ Timeout \/ Cancel \/ Overflow \/ GraceElapses \/ Close \/ HostDies \/ LaunchNothing
         \/ \E end \in Ends : ChildEnds(end)
  PROVE  ~ Unhurried' /\ LaunchInv'
<1>0. TypeOK /\ (ending.graces > 0 => ending.asked)
  BY DEF SessionInv, AskedInv
<1>1. CASE Timeout
  <2>1. host = "waiting" /\ Terminate
    BY <1>1 DEF Timeout
  <2> QED
    BY <1>0, <2>1, TerminateEffect DEF Unhurried, LaunchInv
<1>2. CASE Cancel /\ host = "waiting"
  <2>1. Terminate
    BY <1>2 DEF Cancel
  <2> QED
    BY <1>0, <1>2, <2>1, TerminateEffect DEF Unhurried, LaunchInv
<1>3. CASE Cancel /\ host # "waiting"
  BY <1>3 DEF Cancel, Unhurried, LaunchInv
<1>4. CASE Overflow
  <2>1. host = "waiting" /\ Terminate
    BY <1>4 DEF Overflow
  <2> QED
    BY <1>0, <2>1, TerminateEffect DEF Unhurried, LaunchInv
<1>5. CASE GraceElapses
  <2>1. /\ ending.asked /\ ending.graces - 1 \in Nat /\ client' = client
    BY <1>0, <1>5 DEF GraceElapses, TypeOK
  <2>2. CASE child.alive
    <3>1. Signal("SIGKILL", ending.graces - 1)
      BY <1>5, <2>2 DEF GraceElapses
    <3> QED
      BY <1>0, <2>1, <3>1, SignalEffect DEF Unhurried, LaunchInv
  <2>3. CASE ~ child.alive
    BY <1>5, <2>1, <2>3 DEF GraceElapses, Unhurried, LaunchInv
  <2> QED
    BY <2>2, <2>3
<1>6. CASE Close \/ HostDies \/ LaunchNothing
  BY <1>6 DEF Close, HostDies, LaunchNothing, Conclude, Unhurried, LaunchInv
<1>7. CASE \E end \in Ends : ChildEnds(end)
  BY <1>7 DEF ChildEnds, Unhurried, LaunchInv
<1> QED
  BY <1>1, <1>2, <1>3, <1>4, <1>5, <1>6, <1>7

\* Up to the ceiling the answer to a line names the request of that line.
LEMMA HandleAnswers ==
  ASSUME SessionInv, Handle, bridge'.received <= MaxRequests
  PROVE  \E ok \in BOOLEAN : down' = Append(down, [id |-> Head(up).id, ok |-> ok])
<1>1. bridge \in Bridges /\ MaxRequests \in Nat
  BY BoundAssumption DEF SessionInv, TypeOK, Bridges
<1>2. ~ HandleUnread
  <2> SUFFICES ASSUME HandleUnread
               PROVE  FALSE
    OBVIOUS
  <2>1. bridge' = [bridge EXCEPT !.received = @ + 1] /\ ~ (bridge.received < MaxRequests)
    BY DEF HandleUnread, Admitted
  <2>2. bridge'.received = bridge.received + 1 /\ bridge.received \in Nat
    BY <1>1, <2>1 DEF Bridges
  <2> QED
    BY <1>1, <2>1, <2>2
<1>3. Perform(Head(up).id) \/ Refuse(Head(up).id)
  BY <1>2 DEF Handle
<1> QED
  BY <1>3 DEF Perform, Refuse, Respond

\* A line that is read becomes an answer.
LEMMA HandleWaits == SessionInv /\ WaitInv /\ Handle => WaitInv'
<1> SUFFICES ASSUME SessionInv, WaitInv, Handle
             PROVE  WaitInv'
  OBVIOUS
<1>1. /\ up \in Seq(Lines) /\ up # <<>> /\ down \in Seq(Responses) /\ bridge \in Bridges
      /\ up' = Tail(up) /\ UNCHANGED <<child, client, host, ending>>
  BY DEF SessionInv, TypeOK, Handle, Bridges
<1>2. LaunchInv'
  BY <1>1 DEF WaitInv, LaunchInv
<1>3. ASSUME Unhurried', bridge'.received <= MaxRequests, NEW i \in client.pending
      PROVE  OnTheWay(i)'
  <2>1. PICK ok \in BOOLEAN : down' = Append(down, [id |-> Head(up).id, ok |-> ok])
    BY <1>3, HandleAnswers
  <2>2. bridge.received <= MaxRequests
    <3>1. bridge'.received = bridge.received + 1
      <4>1. \/ bridge' = [bridge EXCEPT !.received = @ + 1]
            \/ bridge' = [bridge EXCEPT !.received = @ + 1, !.seen = @ \cup {Head(up).id}]
            \/ bridge' = [bridge EXCEPT !.received = @ + 1, !.seen = @ \cup {Head(up).id},
                                        !.used = @ + 1]
        BY DEF Handle, HandleUnread, Perform
      <4> QED
        BY <1>1, <4>1 DEF Bridges
    <3> QED
      BY <1>1, <1>3, <3>1, BoundAssumption DEF Bridges
  <2>3. OnTheWay(i)
    BY <1>1, <1>3, <2>2 DEF WaitInv, NobodyWaitsInVain, Unhurried
  <2>4. /\ Len(down) + 1 \in DOMAIN down'
        /\ down'[Len(down) + 1].id = up[1].id
        /\ \A k \in DOMAIN down : k \in DOMAIN down' /\ down'[k] = down[k]
    BY <1>1, <2>1
  <2>5. \A k \in DOMAIN up : k = 1 \/ (k - 1 \in DOMAIN up' /\ up'[k - 1] = up[k])
    BY <1>1
  <2>6. CASE \E k \in DOMAIN up : up[k].id = i
    <3>1. PICK k \in DOMAIN up : up[k].id = i
      BY <2>6
    <3>2. CASE k = 1
      BY <2>4, <3>1, <3>2 DEF OnTheWay
    <3>3. CASE k # 1
      BY <2>5, <3>1, <3>3 DEF OnTheWay
    <3> QED
      BY <3>2, <3>3
  <2>7. CASE \E k \in DOMAIN down : down[k].id = i
    BY <2>4, <2>7 DEF OnTheWay
  <2> QED
    BY <2>3, <2>6, <2>7 DEF OnTheWay
<1> QED
  BY <1>1, <1>2, <1>3 DEF WaitInv, NobodyWaitsInVain

\* A new request is the last line, and what was on its way stays on it.
LEMMA RequestWaits == SessionInv /\ WaitInv /\ (Request \/ Babble) => WaitInv'
<1> SUFFICES ASSUME SessionInv, WaitInv, Request \/ Babble
             PROVE  WaitInv'
  OBVIOUS
<1>1. /\ up \in Seq(Lines) /\ client \in Clients /\ child.alive
      /\ UNCHANGED <<child, down, bridge, host, ending>>
  BY DEF SessionInv, TypeOK, Request, Babble, Clients
<1>2. \E n : /\ up' = Append(up, [id |-> n])
             /\ \A i \in client'.pending : i \in client.pending \/ i = n
  <2>1. CASE Request
    <3>1. client'.pending = client.pending \cup {client.sent + 1}
      BY <1>1, <2>1 DEF Request, Clients
    <3>2. up' = Append(up, [id |-> client.sent + 1])
      BY <2>1 DEF Request
    <3> QED
      BY <3>1, <3>2
  <2>2. CASE Babble
    BY <2>2 DEF Babble
  <2> QED
    BY <2>1, <2>2
<1>3. PICK n : /\ up' = Append(up, [id |-> n])
               /\ \A i \in client'.pending : i \in client.pending \/ i = n
  BY <1>2
<1>4. /\ Len(up) + 1 \in DOMAIN up' /\ up'[Len(up) + 1].id = n
      /\ \A k \in DOMAIN up : k \in DOMAIN up' /\ up'[k] = up[k]
  BY <1>1, <1>3
<1>5. LaunchInv'
  BY <1>1 DEF WaitInv, LaunchInv
<1>6. ASSUME Unhurried', bridge'.received <= MaxRequests, NEW i \in client'.pending
      PROVE  OnTheWay(i)'
  <2>1. CASE i = n
    BY <1>4, <2>1 DEF OnTheWay
  <2>2. CASE i \in client.pending
    <3>1. OnTheWay(i)
      BY <1>1, <1>6, <2>2 DEF WaitInv, NobodyWaitsInVain, Unhurried
    <3> QED
      BY <1>1, <1>4, <3>1 DEF OnTheWay
  <2> QED
    BY <1>3, <1>6, <2>1, <2>2
<1> QED
  BY <1>5, <1>6 DEF WaitInv, NobodyWaitsInVain

\* An answer that is read is waited for no more.
LEMMA PumpWaits == SessionInv /\ WaitInv /\ Pump => WaitInv'
<1> SUFFICES ASSUME SessionInv, WaitInv, Pump
             PROVE  WaitInv'
  OBVIOUS
<1>1. /\ down \in Seq(Responses) /\ down # <<>> /\ client \in Clients
      /\ down' = Tail(down) /\ UNCHANGED <<child, up, bridge, host, ending>> /\ child.alive
  BY DEF SessionInv, TypeOK, Pump, Clients
<1>2. client'.pending = client.pending \ {down[1].id}
  <2>1. PICK r : r = Head(down)
    OBVIOUS
  <2>2. /\ r = down[1]
        /\ client' = IF r.id \in client.pending
                     THEN [client EXCEPT !.pending = @ \ {r.id},
                                         !.mutated = IF r.ok THEN @ \cup {r.id} ELSE @]
                     ELSE client
    BY <1>1, <2>1 DEF Pump
  <2> QED
    BY <1>1, <2>2 DEF Clients
<1>3. \A k \in DOMAIN down : k = 1 \/ (k - 1 \in DOMAIN down' /\ down'[k - 1] = down[k])
  BY <1>1
<1>4. LaunchInv'
  BY <1>1 DEF WaitInv, LaunchInv
<1>5. ASSUME Unhurried', bridge'.received <= MaxRequests, NEW i \in client'.pending
      PROVE  OnTheWay(i)'
  <2>1. OnTheWay(i) /\ i # down[1].id
    BY <1>1, <1>2, <1>5 DEF WaitInv, NobodyWaitsInVain, Unhurried
  <2>2. CASE \E k \in DOMAIN up : up[k].id = i
    BY <1>1, <2>2 DEF OnTheWay
  <2>3. CASE \E k \in DOMAIN down : down[k].id = i
    <3>1. PICK k \in DOMAIN down : down[k].id = i
      BY <2>3
    <3>2. k # 1
      BY <2>1, <3>1
    <3> QED
      BY <1>3, <3>1, <3>2 DEF OnTheWay
  <2> QED
    BY <2>1, <2>2, <2>3 DEF OnTheWay
<1> QED
  BY <1>4, <1>5 DEF WaitInv, NobodyWaitsInVain

\* "The child is never left hanging": while nobody ended the agent and the
\* ceiling is not passed, a request the client waits for is on its way up or its
\* answer on its way down, for any number of requests, lines and answers.
THEOREM NoneWaitsInVain == Spec => []NobodyWaitsInVain
<1>1. Init => SessionInv /\ WaitInv
  <2>1. Init => WaitInv
    BY DEF Init, WaitInv, LaunchInv, NobodyWaitsInVain, Unhurried
  <2> QED
    BY <2>1, SessionInitial
<1>2. SessionInv /\ WaitInv /\ [Next]_vars => (SessionInv /\ WaitInv)'
  <2> SUFFICES ASSUME SessionInv, WaitInv, [Next]_vars
               PROVE  WaitInv'
    BY SessionInductive
  <2>1. CASE UNCHANGED vars
    BY <2>1 DEF vars, pipes, WaitInv, LaunchInv, NobodyWaitsInVain, Unhurried, OnTheWay
  <2>2. CASE Launch
    BY <2>2 DEF Launch, WaitInv, LaunchInv, NobodyWaitsInVain
  <2>3. CASE \/ Timeout \/ Cancel \/ Overflow \/ GraceElapses \/ Close \/ HostDies \/ LaunchNothing
             \/ \E end \in Ends : ChildEnds(end)
    BY <2>3, UnhurriedBefore DEF WaitInv, NobodyWaitsInVain
  <2> QED
    BY <2>1, <2>2, <2>3, HandleWaits, RequestWaits, PumpWaits DEF Next
<1> QED
  BY <1>1, <1>2, PTL DEF Spec, WaitInv
=============================================================================
