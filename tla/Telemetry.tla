----------------------------- MODULE Telemetry ------------------------------
(***************************************************************************)
(* The telemetry client of one command: events of several goroutines are   *)
(* queued, the queue drops its oldest at its limit, and closing the client *)
(* hands what it holds to a detached flusher, which posts one by one.      *)
(***************************************************************************)
EXTENDS Naturals, Sequences

CONSTANTS
  PendingCap,   \* the limit of the queue (pendingCap)
  MaxEvents     \* bound on the events emitted

ASSUME TelemetryConstants == PendingCap \in Nat \ {0} /\ MaxEvents \in Nat

VARIABLES
  tmEnabled,
  tmEmitted,   \* the number of events emitted; an event is its number
  tmPending,   \* the queue
  tmClosed,    \* how many had been emitted when the client was closed, or NotClosed
  tmBatch,     \* what the flusher has still to post
  tmPosted     \* what it has posted

tmVars == <<tmEnabled, tmEmitted, tmPending, tmClosed, tmBatch, tmPosted>>

NotClosed == MaxEvents + 1

TelemetryInit ==
  /\ tmEmitted = 0 /\ tmPending = <<>> /\ tmClosed = NotClosed
  /\ tmBatch = <<>> /\ tmPosted = <<>>

\* Mutant: a full queue takes no more.
EnqueueUnlessFull(q, e) == IF Len(q) >= PendingCap THEN q ELSE Append(q, e)
Enqueue(q, e) == Append(IF Len(q) >= PendingCap THEN Tail(q) ELSE q, e)

\* A disabled client does nothing. After Close an event goes into a queue
\* that nobody reads.
Emit ==
  /\ tmEnabled /\ tmEmitted < MaxEvents
  /\ tmEmitted' = tmEmitted + 1
  /\ tmPending' = Enqueue(tmPending, tmEmitted + 1)
  /\ UNCHANGED <<tmEnabled, tmClosed, tmBatch, tmPosted>>

\* An empty batch starts no flusher; one that cannot be started, or dies
\* early, loses its events.
Close ==
  /\ tmEnabled /\ tmClosed = NotClosed
  /\ tmClosed' = tmEmitted
  /\ tmPending' = <<>>
  /\ tmBatch' \in {tmPending, <<>>}
  /\ UNCHANGED <<tmEnabled, tmEmitted, tmPosted>>

\* A post that fails is not repeated; the time limit ends the rest.
PostsEvent ==
  /\ tmBatch # <<>>
  /\ tmBatch' \in {Tail(tmBatch), <<>>}
  /\ tmPosted' \in {Append(tmPosted, Head(tmBatch)), tmPosted}
  /\ UNCHANGED <<tmEnabled, tmEmitted, tmPending, tmClosed>>

-----------------------------------------------------------------------------
\* What reaches the flusher is what happened up to the end of the command, in
\* that order, each event once, and of more events than the queue holds the
\* newest; nothing is sent that was emitted later, or by a client that is
\* disabled. (client.go, flush.go)
Newest(n) == {e \in 1..n : e + PendingCap > n}
NewestEventsSent ==
  LET sent == tmPosted \o tmBatch
  IN  /\ \A i, j \in DOMAIN sent : i < j => sent[i] < sent[j]
      /\ \A i \in DOMAIN sent : tmEnabled /\ sent[i] \in Newest(tmClosed)
=============================================================================
