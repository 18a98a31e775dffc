---------------------------- MODULE OutboxRelay ----------------------------
(***************************************************************************)
(* The outbox relays: one run_outbox_worker task in each of the four       *)
(* uvicorn processes, all of them polling the same table.                  *)
(*                                                                         *)
(* A relay takes a batch in one transaction (SELECT ... FOR UPDATE SKIP    *)
(* LOCKED LIMIT), sends its events one after the other, notes each outcome *)
(* with an UPDATE and commits once, after the last.  Until that commit the *)
(* outcomes exist only in the relay's transaction: a failed statement, a   *)
(* crash or the cancellation at shutdown rolls back those of the whole     *)
(* batch, although Kafka keeps the messages.                               *)
(*                                                                         *)
(* The SELECT visits its rows one by one, as in DocumentRequests.  A       *)
(* message that was handed to the producer outlives the cancellation of    *)
(* the task that sent it: stop_kafka_producer flushes it later.            *)
(***************************************************************************)
EXTENDS OutboxModel, FiniteSets, Sequences

CONSTANTS
    Relays,        \* the worker processes
    NoRelay,       \* nobody holds the row lock
    NoEvent,       \* nothing in flight
    BatchSize,     \* LIMIT of fetch_pending: 50
    Oversized,     \* events whose message the producer always refuses
    MaxAborts,     \* bound: transactions that are rolled back
    MaxLostAcks,   \* bound: sends that raise although the message arrived
    MaxOutages     \* bound: times that Kafka becomes unreachable

ASSUME OutboxRelayAssumption ==
    /\ NoRelay \notin Relays
    /\ NoEvent \notin Events
    /\ BatchSize \in Nat \ {0}
    /\ Oversized \subseteq Events
    /\ MaxAborts \in Nat /\ MaxLostAcks \in Nat /\ MaxOutages \in Nat

VARIABLES
    events,      \* committed rows of "outbox_events"
    copies,      \* how many times the output topic holds each event's message
    kafka,       \* whether the brokers can be reached
    locked_by,   \* the relay whose transaction has locked the event's row
    pc,          \* where a relay is
    snapshot,    \* the pending rows that its SELECT saw
    scanned,     \* those that the SELECT has dealt with
    taken,       \* the rows that it returned
    queue,       \* those still to be sent, in order
    draft,       \* the rows as the session has them
    in_flight,   \* the message that the process's producer has not sent yet
    aborts, lost_acks, outages   \* counters for the bounds

table   == <<events, copies>>
session == <<snapshot, scanned, taken, queue, draft>>
bounds  == <<aborts, lost_acks, outages>>
vars    == <<events, copies, kafka, locked_by, pc, snapshot, scanned, taken,
             queue, draft, in_flight, aborts, lost_acks, outages>>

\* "relaying" is at the head of the loop over the batch; "sending" awaits
\* send_and_wait, "acked" and "raised" follow it.
PC == {"sleeping", "fetching", "relaying", "sending", "acked", "raised"}

TypeOK ==
    /\ events    \in [Events -> EventRow]
    /\ copies    \in [Events -> Nat]
    /\ kafka     \in BOOLEAN
    /\ locked_by \in [Events -> Relays \cup {NoRelay}]
    /\ pc        \in [Relays -> PC]
    /\ snapshot  \in [Relays -> SUBSET Events]
    /\ scanned   \in [Relays -> SUBSET Events]
    /\ taken     \in [Relays -> SUBSET Events]
    /\ queue     \in [Relays -> Seq(Events)]
    /\ draft     \in [Relays -> [Events -> EventRow]]
    /\ in_flight \in [Relays -> Events \cup {NoEvent}]
    /\ aborts    \in 0..MaxAborts
    /\ lost_acks \in 0..MaxLostAcks
    /\ outages   \in 0..MaxOutages

NoDraft == [e \in Events |-> AbsentEvent]

Init ==
    /\ events    = [e \in Events |-> AbsentEvent]
    /\ copies    = [e \in Events |-> 0]
    /\ kafka     = TRUE
    /\ locked_by = [e \in Events |-> NoRelay]
    /\ pc        = [w \in Relays |-> "sleeping"]
    /\ snapshot  = [w \in Relays |-> {}]
    /\ scanned   = [w \in Relays |-> {}]
    /\ taken     = [w \in Relays |-> {}]
    /\ queue     = [w \in Relays |-> <<>>]
    /\ draft     = [w \in Relays |-> NoDraft]
    /\ in_flight = [w \in Relays |-> NoEvent]
    /\ aborts = 0 /\ lost_acks = 0 /\ outages = 0

-----------------------------------------------------------------------------
(* The environment.                                                        *)

\* A decision commits: create_event's row becomes visible.
Store(e, t) ==
    /\ events[e].status = "absent"
    /\ events' = [events EXCEPT ![e] = PendingEvent(t)]
    /\ UNCHANGED <<copies, kafka, locked_by, pc, session, in_flight, bounds>>

KafkaFails ==
    /\ kafka
    /\ outages < MaxOutages
    /\ kafka' = FALSE
    /\ outages' = outages + 1
    /\ UNCHANGED <<table, locked_by, pc, session, in_flight, aborts, lost_acks>>

KafkaRecovers ==
    /\ ~kafka
    /\ kafka' = TRUE
    /\ UNCHANGED <<table, locked_by, pc, session, in_flight, bounds>>

-----------------------------------------------------------------------------
(* fetch_pending.                                                          *)

\* The transaction begins and its SELECT reads a snapshot.
FetchPending(w) ==
    /\ pc[w] = "sleeping"
    /\ in_flight[w] = NoEvent
    /\ snapshot' = [snapshot EXCEPT ![w] = {e \in Events : events[e].status = "pending"}]
    /\ pc' = [pc EXCEPT ![w] = "fetching"]
    /\ UNCHANGED <<table, kafka, locked_by, scanned, taken, queue, draft,
                   in_flight, bounds>>

\* The rows that come next in the SELECT, ORDER BY created_at.
NextInOrder(w) ==
    LET left == snapshot[w] \ scanned[w] IN
    {e \in left : \A other \in left :
        events[e].created_at <= events[other].created_at}

\* The SELECT goes on: it has not found BatchSize rows yet.
Scanning(w, e) ==
    /\ pc[w] = "fetching"
    /\ Len(queue[w]) < BatchSize
    /\ e \in NextInOrder(w)
    /\ scanned' = [scanned EXCEPT ![w] = @ \cup {e}]

\* SKIP LOCKED: another relay has the row.
SkipLockedRow(w, e) ==
    /\ Scanning(w, e)
    /\ locked_by[e] # NoRelay
    /\ UNCHANGED <<table, kafka, locked_by, pc, snapshot, taken, queue, draft,
                   in_flight, bounds>>

\* The row is free but no longer pending: it is not returned.
SkipSettledRow(w, e) ==
    /\ Scanning(w, e)
    /\ locked_by[e] = NoRelay
    /\ events[e].status # "pending"
    /\ locked_by' = [locked_by EXCEPT ![e] = w]
    /\ UNCHANGED <<table, kafka, pc, snapshot, taken, queue, draft, in_flight,
                   bounds>>

\* The session as it is when the SELECT has returned e.
Return(w, e) ==
    /\ taken' = [taken EXCEPT ![w] = @ \cup {e}]
    /\ queue' = [queue EXCEPT ![w] = Append(@, e)]
    /\ draft' = [draft EXCEPT ![w][e] = events[e]]
    /\ UNCHANGED <<table, kafka, pc, snapshot, in_flight, bounds>>

\* Mutant of TakeRow: a SELECT without FOR UPDATE.
TakeRowUnlocked(w, e) ==
    /\ Scanning(w, e)
    /\ events[e].status = "pending"
    /\ Return(w, e)
    /\ UNCHANGED locked_by

\* Mutant of TakeRow: the row is not looked at again under the lock.
TakeRowUnchecked(w, e) ==
    /\ Scanning(w, e)
    /\ locked_by[e] = NoRelay
    /\ locked_by' = [locked_by EXCEPT ![e] = w]
    /\ Return(w, e)

\* The row is free and pending.
TakeRow(w, e) ==
    /\ Scanning(w, e)
    /\ locked_by[e] = NoRelay
    /\ events[e].status = "pending"
    /\ locked_by' = [locked_by EXCEPT ![e] = w]
    /\ Return(w, e)

\* The limit is reached or no row is left.
EndFetch(w) ==
    /\ pc[w] = "fetching"
    /\ Len(queue[w]) = BatchSize \/ snapshot[w] \subseteq scanned[w]
    /\ pc' = [pc EXCEPT ![w] = "relaying"]
    /\ UNCHANGED <<table, kafka, locked_by, session, in_flight, bounds>>

-----------------------------------------------------------------------------
(* process_batch, the loop over the events of the batch.                   *)

Current(w) == Head(queue[w])

\* publish_raw hands the message to the producer and waits.
Send(w) ==
    /\ pc[w] = "relaying"
    /\ queue[w] # <<>>
    /\ in_flight' = [in_flight EXCEPT ![w] = Current(w)]
    /\ pc' = [pc EXCEPT ![w] = "sending"]
    /\ UNCHANGED <<table, kafka, locked_by, session, bounds>>

\* The brokers have the message of w.
Arrives(w) ==
    /\ in_flight[w] \in Events \ Oversized
    /\ kafka
    /\ copies' = [copies EXCEPT ![in_flight[w]] = @ + 1]
    /\ in_flight' = [in_flight EXCEPT ![w] = NoEvent]
    /\ UNCHANGED <<events, kafka, locked_by, session, aborts, outages>>

\* ... and acknowledge it.
SendAcked(w) ==
    /\ pc[w] = "sending"
    /\ Arrives(w)
    /\ pc' = [pc EXCEPT ![w] = "acked"]
    /\ UNCHANGED lost_acks

\* ... but the acknowledgement comes too late: publish_raw raises.
AckLost(w) ==
    /\ pc[w] = "sending"
    /\ lost_acks < MaxLostAcks
    /\ Arrives(w)
    /\ pc' = [pc EXCEPT ![w] = "raised"]
    /\ lost_acks' = lost_acks + 1

\* ... after the task was cancelled: the producer flushed it when it stopped.
Flushed(w) ==
    /\ pc[w] = "sleeping"
    /\ Arrives(w)
    /\ UNCHANGED <<pc, lost_acks>>

\* Mutant of SendRaises: publish_raw logs the error and does not raise it.
SendRaisesSwallowed(w) ==
    /\ pc[w] = "sending"
    /\ kafka => in_flight[w] \in Oversized
    /\ in_flight' = [in_flight EXCEPT ![w] = NoEvent]
    /\ pc' = [pc EXCEPT ![w] = "acked"]
    /\ UNCHANGED <<table, kafka, locked_by, session, bounds>>

\* The message is refused or expires in the producer: publish_raw raises.
SendRaises(w) ==
    /\ pc[w] = "sending"
    /\ kafka => in_flight[w] \in Oversized
    /\ in_flight' = [in_flight EXCEPT ![w] = NoEvent]
    /\ pc' = [pc EXCEPT ![w] = "raised"]
    /\ UNCHANGED <<table, kafka, locked_by, session, bounds>>

\* A producer that stops gives up what it could not send.
Dropped(w) ==
    /\ pc[w] = "sleeping"
    /\ in_flight[w] # NoEvent
    /\ in_flight' = [in_flight EXCEPT ![w] = NoEvent]
    /\ UNCHANGED <<table, kafka, locked_by, pc, session, bounds>>

\* The outcome of the current event is flushed, the loop goes on.
Mark(w, row) ==
    /\ draft' = [draft EXCEPT ![w][Current(w)] = row]
    /\ queue' = [queue EXCEPT ![w] = Tail(@)]
    /\ pc' = [pc EXCEPT ![w] = "relaying"]
    /\ UNCHANGED <<table, kafka, locked_by, snapshot, scanned, taken, in_flight,
                   bounds>>

\* mark_published
MarkPublished(w) ==
    /\ pc[w] = "acked"
    /\ Mark(w, Published(draft[w][Current(w)]))

\* mark_failed
MarkFailed(w) ==
    /\ pc[w] = "raised"
    /\ Mark(w, Retried(draft[w][Current(w)]))

-----------------------------------------------------------------------------
(* The end of the transaction.                                             *)

\* Mutant of Closed: the session is left open after an error.
ClosedKeepingLocks(w) ==
    /\ pc' = [pc EXCEPT ![w] = "sleeping"]
    /\ snapshot' = [snapshot EXCEPT ![w] = {}]
    /\ scanned' = [scanned EXCEPT ![w] = {}]
    /\ taken' = [taken EXCEPT ![w] = {}]
    /\ queue' = [queue EXCEPT ![w] = <<>>]
    /\ draft' = [draft EXCEPT ![w] = NoDraft]
    /\ UNCHANGED locked_by

\* The relay sleeps, its session is closed and its locks are released.
Closed(w) ==
    /\ locked_by' = [e \in Events |-> IF locked_by[e] = w THEN NoRelay ELSE locked_by[e]]
    /\ pc' = [pc EXCEPT ![w] = "sleeping"]
    /\ snapshot' = [snapshot EXCEPT ![w] = {}]
    /\ scanned' = [scanned EXCEPT ![w] = {}]
    /\ taken' = [taken EXCEPT ![w] = {}]
    /\ queue' = [queue EXCEPT ![w] = <<>>]
    /\ draft' = [draft EXCEPT ![w] = NoDraft]

\* session.begin() ends without an exception: every outcome becomes durable.
Commit(w) ==
    /\ pc[w] = "relaying"
    /\ queue[w] = <<>>
    /\ events' = [e \in Events |-> IF e \in taken[w] THEN draft[w][e] ELSE events[e]]
    /\ Closed(w)
    /\ UNCHANGED <<copies, kafka, in_flight, bounds>>

\* session.begin() ends with one: no outcome of the batch is kept.
RolledBack(w) ==
    /\ pc[w] # "sleeping"
    /\ aborts < MaxAborts
    /\ aborts' = aborts + 1
    /\ Closed(w)
    /\ UNCHANGED <<table, kafka, lost_acks, outages>>

\* A statement fails, in mark_published (then mark_failed in the handler fails
\* as well), in mark_failed, in the SELECT or in the COMMIT; run_outbox_worker
\* logs it and tries again later.
StatementFails(w) ==
    /\ pc[w] # "sending"
    /\ RolledBack(w)
    /\ UNCHANGED in_flight

\* The process dies, and with it the producer's buffer.
Crash(w) ==
    /\ RolledBack(w)
    /\ in_flight' = [in_flight EXCEPT ![w] = NoEvent]

\* stop_outbox_worker cancels the task that awaits the producer; the message
\* stays in the producer's buffer.
Cancelled(w) ==
    /\ pc[w] = "sending"
    /\ RolledBack(w)
    /\ UNCHANGED in_flight

-----------------------------------------------------------------------------
\* What a relay does when nothing breaks its transaction.
Advance(w) ==
    \/ FetchPending(w)
    \/ \E e \in Events : SkipLockedRow(w, e) \/ SkipSettledRow(w, e) \/ TakeRow(w, e)
    \/ EndFetch(w)
    \/ Send(w) \/ SendAcked(w) \/ AckLost(w) \/ SendRaises(w)
    \/ Flushed(w) \/ Dropped(w)
    \/ MarkPublished(w) \/ MarkFailed(w)
    \/ Commit(w)

Next ==
    \/ \E e \in Events, t \in EventTimes : Store(e, t)
    \/ KafkaFails \/ KafkaRecovers
    \/ \E w \in Relays : Advance(w) \/ StatementFails(w) \/ Crash(w) \/ Cancelled(w)

\* The tasks run, the producer answers or times out, an outage ends.
Fairness ==
    /\ \A w \in Relays : WF_vars(Advance(w))
    /\ WF_vars(KafkaRecovers)

Spec     == Init /\ [][Next]_vars
FairSpec == Spec /\ Fairness

-----------------------------------------------------------------------------
(* No event is in the batches of two relays (fetch_pending): each outcome  *)
(* is computed from the row that it will overwrite.                        *)
OneRelayEach ==
    \A w \in Relays : \A e \in taken[w] :
        /\ events[e].status = "pending"
        /\ \A other \in Relays \ {w} : e \notin taken[other]

(* Every copy of a message beyond the first is due to an acknowledgement   *)
(* that was lost or to a batch that was rolled back: relays that merely    *)
(* run at the same time never send an event twice.                         *)
DuplicatesExplained ==
    \A e \in Events : copies[e] <= 1 + aborts + lost_acks

(* The promise that the relays implement.                                  *)
Delivery == INSTANCE OutboxDelivery

DeliverySpec         == Delivery!Spec
PublishedIsDelivered == Delivery!PublishedIsDelivered
SettledIsFinal       == Delivery!SettledIsFinal

\* The event is in the table.
Stored(e) == events[e].status # "absent"

(* Every event is settled in the end: no event, not even one that Kafka    *)
(* will never take, stays pending or keeps the others waiting.             *)
EverySettled ==
    \A e \in Events : Stored(e) ~> events[e].status \in {"published", "failed"}

(* "Retry when Kafka is down" (README, non-functional requirements): an    *)
(* event that Kafka can take is published once Kafka is back.  mark_failed *)
(* gives it up after MaxRetries attempts, all of which one outage may see, *)
(* and nothing ever looks at a failed event again.                         *)
EventuallyPublished ==
    \A e \in Events \ Oversized : Stored(e) ~> events[e].status = "published"
=============================================================================
