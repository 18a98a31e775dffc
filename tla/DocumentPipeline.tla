-------------------------- MODULE DocumentPipeline --------------------------
(***************************************************************************)
(* The whole way of a document, from documents.incoming to                 *)
(* documents.processed: the consumers, the requests and the relays over    *)
(* the tables that they share.  A batch that a consumer stores is what     *)
(* claims find in "documents"; an event that the commit of a decision      *)
(* makes visible is what the relays find in "outbox_events".  They share   *)
(* nothing else: a process that dies takes its consumer, its relay and the *)
(* transactions of its requests along, but PostgreSQL and Kafka notice the *)
(* end of each by itself.                                                  *)
(*                                                                         *)
(* The requests have their names from DocumentRequests, the other two are  *)
(* instances.                                                              *)
(***************************************************************************)
EXTENDS DocumentRequests, Sequences

CONSTANTS
    NoId, Malformed, Payloads, Partitions, Consumers, NoConsumer,
    ConsumerBatch, MaxMessages, MaxCrashes, MaxRebalances,
    MaxRetries, Relays, NoRelay, NoEvent, RelayBatch, Oversized,
    MaxAborts, MaxLostAcks, MaxOutages

\* What the three parts assume, and that every message that can be stored
\* carries an id, as those of produce_documents.py do.
ASSUME DocumentPipelineAssumption ==
    /\ NoId \notin Documents /\ Malformed \notin Documents /\ NoId # Malformed
    /\ Payloads \subseteq Documents \cup {Malformed}
    /\ Documents \cap Nat = {}
    /\ NoConsumer \notin Consumers
    /\ NoRelay \notin Relays /\ NoEvent \notin Requests
    /\ Oversized \subseteq Requests
    /\ {ConsumerBatch, RelayBatch, MaxRetries} \subseteq Nat \ {0}
    /\ {MaxMessages, MaxCrashes, MaxRebalances} \subseteq Nat
    /\ {MaxAborts, MaxLostAcks, MaxOutages} \subseteq Nat

VARIABLES   \* of the consumers and their topic
    log, committed, owner, position, consumer_pc, batch, rows, dropped,
    crashes, rebalances

VARIABLES   \* of the relays and their topic
    events, copies, kafka, event_locks, relay_pc, visible, visited, taken,
    queue, draft, in_flight, aborts, lost_acks, outages

Consumer == INSTANCE DocumentConsumer WITH
    pc <- consumer_pc, BatchSize <- ConsumerBatch

\* A request names the event that its transaction adds.
Relay == INSTANCE OutboxRelay WITH
    Events <- Requests, EventTimes <- CreatedAt, BatchSize <- RelayBatch,
    locked_by <- event_locks, pc <- relay_pc,
    snapshot <- visible, scanned <- visited

intake   == <<log, committed, owner, position, consumer_pc, batch, rows, dropped,
              crashes, rebalances>>
delivery == <<events, copies, kafka, event_locks, relay_pc, visible, visited,
              taken, queue, draft, in_flight, aborts, lost_acks, outages>>
pipeline == <<vars, intake, delivery>>

PipelineInit == Init /\ Consumer!Init /\ Relay!Init

-----------------------------------------------------------------------------
(* The input topic and the consumers.                                      *)

Topic ==
    /\ \/ \E p \in Partitions, payload \in Payloads : Consumer!Produce(p, payload)
       \/ Consumer!Assign
       \/ Consumer!Rebalance
    /\ UNCHANGED <<vars, delivery>>

\* _persist_batch: the batch goes into the table that the claims read, under
\* the time at which its transaction began.
StoreBatch(c) ==
    /\ Consumer!PersistBatch(c)
    /\ \E t \in CreatedAt :
          BulkInsertPending({Consumer!ExternalId(m) : m \in batch[c]}, t)
    /\ UNCHANGED delivery

\* What a consumer does apart from the table.
Consume(c) ==
    /\ \/ Consumer!Start(c) \/ Consumer!PollNothing(c) \/ Consumer!Crash(c)
       \/ \E to \in [Partitions -> 0..MaxMessages] : Consumer!GetMany(c, to)
       \/ Consumer!RejectBatch(c) \/ Consumer!PersistFails(c)
       \/ Consumer!CommitOffsets(c) \/ Consumer!CommitFails(c)
    /\ UNCHANGED <<vars, delivery>>

-----------------------------------------------------------------------------
(* Requests.                                                               *)

\* A COMMIT of r shows the relays the event that it adds, if it adds one.
ShowEvent(r) ==
    IF outbox' = outbox
    THEN UNCHANGED delivery
    ELSE \E t \in CreatedAt : Relay!Store(r, t)

\* A claim, or a decision with a body that the endpoint accepts: what becomes
\* of the others is DocumentRequests' matter.
Send(r) ==
    \E o \in Operators :
        \/ ClaimDocument(r, o)
        \/ \E d \in Documents, a \in FinalStatus : MakeDecision(r, o, d, a, TRUE)

Handle(r) ==
    /\ Send(r) \/ Advance(r) \/ Abort(r)
    /\ ShowEvent(r)
    /\ UNCHANGED intake

-----------------------------------------------------------------------------
(* Relays and their topic.                                                 *)

Deliver ==
    /\ \/ Relay!KafkaFails \/ Relay!KafkaRecovers
       \/ \E w \in Relays :
             \/ Relay!Advance(w)
             \/ Relay!StatementFails(w) \/ Relay!Crash(w) \/ Relay!Cancelled(w)
    /\ UNCHANGED <<vars, intake>>

-----------------------------------------------------------------------------
PipelineNext ==
    \/ Topic
    \/ \E c \in Consumers : StoreBatch(c) \/ Consume(c)
    \/ \E r \in Requests : Handle(r)
    \/ Deliver

\* The tasks run, processes are restarted, the coordinator assigns, the
\* producer answers or times out, an outage ends.  No client is obliged to
\* send anything.
PipelineFairness ==
    /\ WF_intake(Consumer!Assign)
    /\ \A c \in Consumers : WF_intake(Consumer!Start(c)) /\ WF_intake(Consumer!Advance(c))
    /\ WF_delivery(Relay!KafkaRecovers)
    /\ \A w \in Relays : WF_delivery(Relay!Advance(w))

PipelineSpec     == PipelineInit /\ [][PipelineNext]_pipeline
PipelineFairSpec == PipelineSpec /\ PipelineFairness

-----------------------------------------------------------------------------
\* The document of a message is in the table, in whatever state.
Arrived(m) == documents[Consumer!ExternalId(m)].status # "absent"

(* What the group has acknowledged can be claimed, or has been: its row is *)
(* there and stays, through the crashes of all parts, but for batches that *)
(* were given up (_persist_batch before commit, and nothing that deletes). *)
AcknowledgedIsQueued ==
    \A m \in Consumer!Messages : m[2] < committed[m[1]] => Arrived(m) \/ m \in dropped

(* A message in the output topic is about a document that is decided, and  *)
(* says what the table says, now and for ever: none is sent for a decision *)
(* that was rolled back, although operator, relay and consumer work at the *)
(* same time (make_decision writes document and event in one transaction;  *)
(* publish_raw sends the stored payload).                                  *)
PublishedIsDecided ==
    \A e \in Requests : copies[e] > 0 =>
        \E event \in outbox :
            /\ event.id = e
            /\ documents[event.aggregate_id].status \in FinalStatus
            /\ event.payload = OutputMessage(event.aggregate_id,
                                             documents[event.aggregate_id])

(* Every message that is produced becomes a row, or is given up.           *)
EveryMessageDealtWith ==
    \A p \in Partitions, o \in 0..(MaxMessages - 1) :
        (o < Len(log[p])) ~>
            (o < Len(log[p]) /\ (Arrived(<<p, o>>) \/ <<p, o>> \in dropped))

(* Every decision leaves the service: its message reaches the output       *)
(* topic, or its event is given up after MaxRetries attempts (README:      *)
(* "чтобы не потерять сообщение").                                         *)
EveryDecisionLeaves ==
    \A d \in Documents : documents[d].status \in FinalStatus ~>
        \E event \in outbox :
            /\ event.aggregate_id = d
            /\ copies[event.id] > 0 \/ events[event.id].status = "failed"
=============================================================================
