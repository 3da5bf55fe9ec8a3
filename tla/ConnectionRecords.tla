-------------------------- MODULE ConnectionRecords --------------------------
(***************************************************************************)
(* The connection records (internal/modules/connectionrecords): a bounded  *)
(* queue in memory, sent to Cloud in batches of which one at a time waits  *)
(* for its acknowledgement, over a control session that breaks.            *)
(*                                                                         *)
(* A batch carries the dropped records themselves where the code sends     *)
(* their number.  The ticker lets send run at any time, so the wake        *)
(* channel, which only makes it earlier, is left out.                      *)
(***************************************************************************)
EXTENDS Naturals, Sequences, SequencesExt

CONSTANTS
    Record,       \* the records lines and ended connections make
    Readable,     \* those that carry all Cloud needs
    MaxQueued,    \* the queue's limit (maxQueued)
    MaxBatch,     \* records in a batch (maxBatch)
    MaxInFlight   \* bound on messages in one direction of the connection

VARIABLES
    queue, dropped, pending,  \* Records, under its mutex
    outgoing,                 \* the batch send has copied and not yet published
    nextId,                   \* numbers the report ids
    session,                  \* the control session
    up, down,                 \* reports and acknowledgements on their way
    stored, told,             \* what Cloud stored and how many it knows dropped
    lost                      \* records a stopped process still held

vars == <<queue, dropped, pending, outgoing, nextId, session, up, down, stored, told, lost>>
memory == <<queue, dropped, pending, outgoing, nextId>>
wire == <<session, up, down>>
cloud == <<stored, told>>

None == [id |-> 0, records |-> <<>>, dropped |-> {}]
Held == Range(queue) \cup Range(pending.records)

Init ==
    /\ queue = <<>> /\ dropped = {} /\ pending = None /\ outgoing = None /\ nextId = 1
    /\ session = "down" /\ up = <<>> /\ down = <<>>
    /\ stored = {} /\ told = {} /\ lost = {}

\* add refuses what Cloud could not read; past the limit the oldest go, down to nine
\* tenths of it.
AddOne(s, r) ==
    LET q == Append(s.queue, r)
        drop == Len(q) - (MaxQueued * 9) \div 10 IN
    IF r \notin Readable THEN s
    ELSE IF Len(q) <= MaxQueued THEN [queue |-> q, dropped |-> s.dropped]
    ELSE [queue |-> SubSeq(q, drop + 1, Len(q)),
          dropped |-> s.dropped \cup Range(SubSeq(q, 1, drop))]

\* One record after the other.
AddAll(s, records) ==
    LET after[n \in 0..Len(records)] == IF n = 0 THEN s ELSE AddOne(after[n - 1], records[n])
    IN  after[Len(records)]

\* Lines, Ended: all under one hold of the mutex.
Take(records) ==
    LET s == AddAll([queue |-> queue, dropped |-> dropped], records) IN
    /\ queue' = s.queue /\ dropped' = s.dropped
    /\ UNCHANGED <<pending, outgoing, nextId, wire, cloud, lost>>

\* Mutant: a batch is published once and then only waited for.
SendOnce ==
    LET n == IF Len(queue) < MaxBatch THEN Len(queue) ELSE MaxBatch IN
    /\ outgoing = None /\ pending = None /\ (queue # <<>> \/ dropped # {})
    /\ pending' = [id |-> nextId, records |-> SubSeq(queue, 1, n), dropped |-> dropped]
    /\ outgoing' = pending'
    /\ queue' = SubSeq(queue, n + 1, Len(queue)) /\ dropped' = {}
    /\ nextId' = nextId + 1
    /\ UNCHANGED <<wire, cloud, lost>>
\* send, under the mutex: the waiting batch again, or the next one.
Send ==
    LET n == IF Len(queue) < MaxBatch THEN Len(queue) ELSE MaxBatch IN
    /\ outgoing = None
    /\ \/ /\ pending # None
          /\ outgoing' = pending
          /\ UNCHANGED <<queue, dropped, pending, nextId>>
       \/ /\ pending = None /\ (queue # <<>> \/ dropped # {})
          /\ pending' = [id |-> nextId, records |-> SubSeq(queue, 1, n), dropped |-> dropped]
          /\ outgoing' = pending'
          /\ queue' = SubSeq(queue, n + 1, Len(queue)) /\ dropped' = {}
          /\ nextId' = nextId + 1
    /\ UNCHANGED <<wire, cloud, lost>>

\* publish, after the mutex is released; without a session the batch stays pending.
Publish ==
    /\ outgoing # None /\ outgoing' = None
    /\ IF session = "ready" THEN Len(up) < MaxInFlight /\ up' = Append(up, outgoing)
                            ELSE UNCHANGED up
    /\ UNCHANGED <<queue, dropped, pending, nextId, session, down, cloud, lost>>

\* Cloud stores a batch and acknowledges it; one it has already changes nothing.
CloudStores ==
    /\ up # <<>> /\ Len(down) < MaxInFlight
    /\ up' = Tail(up) /\ down' = Append(down, Head(up).id)
    /\ stored' = stored \cup Range(Head(up).records)
    /\ told' = told \cup Head(up).dropped
    /\ UNCHANGED <<memory, session, lost>>

\* Mutant: any acknowledgement ends the wait.
AcknowledgeAny ==
    /\ down # <<>> /\ down' = Tail(down) /\ pending' = None
    /\ UNCHANGED <<queue, dropped, outgoing, nextId, session, up, cloud, lost>>
\* Acknowledge: only of the batch that waits.
Acknowledge ==
    /\ down # <<>> /\ down' = Tail(down)
    /\ pending' = IF pending.id = Head(down) THEN None ELSE pending
    /\ UNCHANGED <<queue, dropped, outgoing, nextId, session, up, cloud, lost>>

Connect ==
    /\ session = "down" /\ session' = "ready"
    /\ UNCHANGED <<memory, up, down, cloud, lost>>

Break ==
    /\ session = "ready" /\ session' = "down" /\ up' = <<>> /\ down' = <<>>
    /\ UNCHANGED <<memory, cloud, lost>>

\* The process ends: nothing was on disk.
Stop ==
    /\ lost' = lost \cup ((Held \cup dropped \cup pending.dropped) \ (stored \cup told))
    /\ queue' = <<>> /\ dropped' = {} /\ pending' = None /\ outgoing' = None
    /\ session' = "down" /\ up' = <<>> /\ down' = <<>>
    /\ UNCHANGED <<nextId, cloud>>

-----------------------------------------------------------------------------
(* Properties. *)

BatchType(b) == b.id \in Nat /\ b.records \in Seq(Record) /\ b.dropped \subseteq Record
\* Every variable has its type, and no queue is longer than its limit.
TypeOK ==
    /\ queue \in Seq(Record) /\ Len(queue) <= MaxQueued
    /\ BatchType(pending) /\ BatchType(outgoing) /\ Len(pending.records) <= MaxBatch
    /\ dropped \subseteq Record /\ stored \subseteq Record /\ told \subseteq Record
    /\ nextId \in Nat /\ session \in {"down", "ready"}

\* The promise: what the queue and an unstored batch hold waits, and what was dropped
\* since, or is named by an unstored batch, is still to be told.
Trail == INSTANCE AuditTrail WITH
            waiting <- Held \ stored,
            gone <- (dropped \cup pending.dropped) \ told
\* Queue, batches, resends and late acknowledgements keep the promise.
KeepsTrail == Trail!Spec
=============================================================================
