----------------------- MODULE DocumentPipelineProofs -----------------------
(***************************************************************************)
(* The whole way of a document, for any number of messages, consumers,     *)
(* requests and relays: what the group has acknowledged is in the table,   *)
(* and what is in the output topic is what the table says.                 *)
(*                                                                         *)
(* An execution of the pipeline is an execution of each of its parts, so   *)
(* that what is proved of a part holds here.  What is left to say is how   *)
(* the parts know the same things by different names: the consumers' rows  *)
(* are in "documents" (RowsArrived), and every event that the relays see   *)
(* is one that a transaction has committed (EventsAreCommitted).           *)
(***************************************************************************)
EXTENDS DocumentPipeline, DocumentRequestsProofs

\* The parts, with their theorems.
Group == INSTANCE DocumentConsumerProofs WITH
    pc <- consumer_pc, BatchSize <- ConsumerBatch

Outbox == INSTANCE OutboxRelayProofs WITH
    Events <- Requests, EventTimes <- CreatedAt, BatchSize <- RelayBatch,
    locked_by <- event_locks, pc <- relay_pc,
    snapshot <- visible, scanned <- visited

-----------------------------------------------------------------------------
(* The parts' actions are those of their proved instances.                 *)

LEMMA SameConsumers ==
    /\ Group!Init <=> Consumer!Init
    /\ \A p, x : Group!Produce(p, x) <=> Consumer!Produce(p, x)
    /\ Group!Assign <=> Consumer!Assign
    /\ Group!Rebalance <=> Consumer!Rebalance
    /\ \A c : /\ Group!Start(c) <=> Consumer!Start(c)
              /\ Group!Crash(c) <=> Consumer!Crash(c)
              /\ Group!PollNothing(c) <=> Consumer!PollNothing(c)
              /\ \A to : Group!GetMany(c, to) <=> Consumer!GetMany(c, to)
              /\ Group!PersistBatch(c) <=> Consumer!PersistBatch(c)
              /\ Group!RejectBatch(c) <=> Consumer!RejectBatch(c)
              /\ Group!PersistFails(c) <=> Consumer!PersistFails(c)
              /\ Group!CommitOffsets(c) <=> Consumer!CommitOffsets(c)
              /\ Group!CommitFails(c) <=> Consumer!CommitFails(c)
<1> USE DEF Group!vars, Consumer!vars, Group!group, Consumer!group,
            Group!bounds, Consumer!bounds
<1>1. Group!Init <=> Consumer!Init
  BY DEF Group!Init, Consumer!Init
<1>2. \A p, x : Group!Produce(p, x) <=> Consumer!Produce(p, x)
  BY DEF Group!Produce, Consumer!Produce
<1>3. /\ Group!Assign <=> Consumer!Assign
      /\ Group!Rebalance <=> Consumer!Rebalance
  BY DEF Group!Assign, Consumer!Assign, Group!Rebalance, Consumer!Rebalance,
         Group!Reassign, Consumer!Reassign, Group!Members, Consumer!Members
<1>4. \A c : /\ Group!Start(c) <=> Consumer!Start(c)
             /\ Group!Crash(c) <=> Consumer!Crash(c)
             /\ Group!PollNothing(c) <=> Consumer!PollNothing(c)
  BY DEF Group!Start, Consumer!Start, Group!Crash, Consumer!Crash,
         Group!PollNothing, Consumer!PollNothing
<1>5. \A c, to : Group!GetMany(c, to) <=> Consumer!GetMany(c, to)
  <2>1. \A from, to : Group!Between(from, to) = Consumer!Between(from, to)
    BY DEF Group!Between, Consumer!Between, Group!Messages, Consumer!Messages
  <2>2. \A S : Group!Cardinality(S) = Consumer!Cardinality(S)
    BY DEF Group!Cardinality, Consumer!Cardinality
  <2> QED
    BY <2>1, <2>2 DEF Group!GetMany, Consumer!GetMany
<1>6. \A c : Group!PersistBatch(c) <=> Consumer!PersistBatch(c)
  BY DEF Group!PersistBatch, Consumer!PersistBatch, Group!Inserted, Consumer!Inserted,
         Group!ExternalId, Consumer!ExternalId, Group!Payload, Consumer!Payload
<1>7. \A c : /\ Group!RejectBatch(c) <=> Consumer!RejectBatch(c)
             /\ Group!PersistFails(c) <=> Consumer!PersistFails(c)
  BY DEF Group!RejectBatch, Consumer!RejectBatch, Group!PersistFails,
         Consumer!PersistFails, Group!GiveUp, Consumer!GiveUp,
         Group!Payload, Consumer!Payload
<1>8. \A c : /\ Group!CommitOffsets(c) <=> Consumer!CommitOffsets(c)
             /\ Group!CommitFails(c) <=> Consumer!CommitFails(c)
  BY DEF Group!CommitOffsets, Consumer!CommitOffsets, Group!CommitFails,
         Consumer!CommitFails
<1> QED
  BY <1>1, <1>2, <1>3, <1>4, <1>5, <1>6, <1>7, <1>8

LEMMA SameRelays ==
    /\ Outbox!Init <=> Relay!Init
    /\ \A e, t : Outbox!Store(e, t) <=> Relay!Store(e, t)
    /\ Outbox!KafkaFails <=> Relay!KafkaFails
    /\ Outbox!KafkaRecovers <=> Relay!KafkaRecovers
    /\ \A w : /\ Outbox!Advance(w) <=> Relay!Advance(w)
              /\ Outbox!StatementFails(w) <=> Relay!StatementFails(w)
              /\ Outbox!Crash(w) <=> Relay!Crash(w)
              /\ Outbox!Cancelled(w) <=> Relay!Cancelled(w)
<1> USE DEF Outbox!table, Relay!table, Outbox!session, Relay!session,
            Outbox!bounds, Relay!bounds
<1>1. Outbox!Init <=> Relay!Init
  BY DEF Outbox!Init, Relay!Init, Outbox!AbsentEvent, Relay!AbsentEvent,
         Outbox!NoDraft, Relay!NoDraft
<1>2. \A e, t : Outbox!Store(e, t) <=> Relay!Store(e, t)
  BY DEF Outbox!Store, Relay!Store, Outbox!PendingEvent, Relay!PendingEvent,
         Outbox!AbsentEvent, Relay!AbsentEvent
<1>3. /\ Outbox!KafkaFails <=> Relay!KafkaFails
      /\ Outbox!KafkaRecovers <=> Relay!KafkaRecovers
  BY DEF Outbox!KafkaFails, Relay!KafkaFails, Outbox!KafkaRecovers, Relay!KafkaRecovers
<1>4. \A w : /\ Outbox!FetchPending(w) <=> Relay!FetchPending(w)
             /\ Outbox!EndFetch(w) <=> Relay!EndFetch(w)
  BY DEF Outbox!FetchPending, Relay!FetchPending, Outbox!EndFetch, Relay!EndFetch
<1>5. \A w, e : Outbox!Scanning(w, e) <=> Relay!Scanning(w, e)
  BY DEF Outbox!Scanning, Relay!Scanning, Outbox!NextInOrder, Relay!NextInOrder
<1>6. \A w, e : /\ Outbox!SkipLockedRow(w, e) <=> Relay!SkipLockedRow(w, e)
                /\ Outbox!SkipSettledRow(w, e) <=> Relay!SkipSettledRow(w, e)
                /\ Outbox!TakeRow(w, e) <=> Relay!TakeRow(w, e)
  BY <1>5 DEF Outbox!SkipLockedRow, Relay!SkipLockedRow, Outbox!SkipSettledRow,
              Relay!SkipSettledRow, Outbox!TakeRow, Relay!TakeRow,
              Outbox!Return, Relay!Return
<1>7. \A w : /\ Outbox!Send(w) <=> Relay!Send(w)
             /\ Outbox!SendAcked(w) <=> Relay!SendAcked(w)
             /\ Outbox!AckLost(w) <=> Relay!AckLost(w)
             /\ Outbox!SendRaises(w) <=> Relay!SendRaises(w)
             /\ Outbox!Flushed(w) <=> Relay!Flushed(w)
             /\ Outbox!Dropped(w) <=> Relay!Dropped(w)
  BY DEF Outbox!Send, Relay!Send, Outbox!SendAcked, Relay!SendAcked,
         Outbox!AckLost, Relay!AckLost, Outbox!SendRaises, Relay!SendRaises,
         Outbox!Flushed, Relay!Flushed, Outbox!Dropped, Relay!Dropped,
         Outbox!Arrives, Relay!Arrives, Outbox!Current, Relay!Current
<1>8. \A w : /\ Outbox!MarkPublished(w) <=> Relay!MarkPublished(w)
             /\ Outbox!MarkFailed(w) <=> Relay!MarkFailed(w)
  BY DEF Outbox!MarkPublished, Relay!MarkPublished, Outbox!MarkFailed,
         Relay!MarkFailed, Outbox!Mark, Relay!Mark, Outbox!Current, Relay!Current,
         Outbox!Published, Relay!Published, Outbox!Retried, Relay!Retried
<1>9. \A w : /\ Outbox!Commit(w) <=> Relay!Commit(w)
             /\ Outbox!StatementFails(w) <=> Relay!StatementFails(w)
             /\ Outbox!Crash(w) <=> Relay!Crash(w)
             /\ Outbox!Cancelled(w) <=> Relay!Cancelled(w)
  BY DEF Outbox!Commit, Relay!Commit, Outbox!StatementFails, Relay!StatementFails,
         Outbox!Crash, Relay!Crash, Outbox!Cancelled, Relay!Cancelled,
         Outbox!RolledBack, Relay!RolledBack, Outbox!Closed, Relay!Closed,
         Outbox!NoDraft, Relay!NoDraft, Outbox!AbsentEvent, Relay!AbsentEvent
<1>10. \A w : Outbox!Advance(w) <=> Relay!Advance(w)
  BY <1>4, <1>6, <1>7, <1>8, <1>9 DEF Outbox!Advance, Relay!Advance
<1> QED
  BY <1>1, <1>2, <1>3, <1>9, <1>10

-----------------------------------------------------------------------------
(* The assumptions of the parts.                                           *)
LEMMA PartsAssumptions ==
    /\ Group!DocumentConsumerAssumption
    /\ Outbox!OutboxModelAssumption
    /\ Outbox!OutboxRelayAssumption
BY DocumentPipelineAssumption, DocumentModelAssumption
   DEF Group!DocumentConsumerAssumption, Outbox!OutboxModelAssumption,
       Outbox!OutboxRelayAssumption

-----------------------------------------------------------------------------
(* Every part runs as if it were alone.                                    *)

LEMMA GroupStep == [PipelineNext]_pipeline => [Group!Next]_(Group!vars)
<1> SUFFICES ASSUME [PipelineNext]_pipeline PROVE [Group!Next]_(Group!vars)
  OBVIOUS
<1>1. CASE UNCHANGED intake
  BY <1>1 DEF intake, Group!vars
<1>2. CASE Topic
  BY <1>2, SameConsumers DEF Topic, Group!Next, Group!ReliableNext
<1>3. ASSUME NEW c \in Consumers, StoreBatch(c) PROVE Group!Next
  BY <1>3, SameConsumers DEF StoreBatch, Group!Next, Group!ReliableNext, Group!Advance
<1>4. ASSUME NEW c \in Consumers, Consume(c) PROVE Group!Next
  BY <1>4, SameConsumers DEF Consume, Group!Next, Group!ReliableNext, Group!Advance
<1> QED
  BY <1>1, <1>2, <1>3, <1>4 DEF PipelineNext, Handle, Deliver, pipeline

LEMMA GroupRuns == PipelineSpec => Group!Spec
<1>1. PipelineInit => Group!Init
  BY SameConsumers DEF PipelineInit
<1> QED
  BY <1>1, GroupStep, PTL DEF PipelineSpec, Group!Spec

LEMMA OutboxStep == [PipelineNext]_pipeline => [Outbox!Next]_(Outbox!vars)
<1> SUFFICES ASSUME [PipelineNext]_pipeline PROVE [Outbox!Next]_(Outbox!vars)
  OBVIOUS
<1>1. CASE UNCHANGED delivery
  BY <1>1 DEF delivery, Outbox!vars
<1>2. ASSUME NEW r \in Requests, Handle(r) PROVE [Outbox!Next]_(Outbox!vars)
  BY <1>1, <1>2, SameRelays DEF Handle, ShowEvent, Outbox!Next
<1>3. CASE Deliver
  BY <1>3, SameRelays DEF Deliver, Outbox!Next
<1> QED
  BY <1>1, <1>2, <1>3 DEF PipelineNext, Topic, StoreBatch, Consume, pipeline

LEMMA OutboxRuns == PipelineSpec => Outbox!Spec
<1>1. PipelineInit => Outbox!Init
  BY SameRelays DEF PipelineInit
<1> QED
  BY <1>1, OutboxStep, PTL DEF PipelineSpec, Outbox!Spec

(* A batch that is stored consists of documents.                           *)
LEMMA BatchOfDocuments ==
    ASSUME Group!IInv, NEW c \in Consumers, Consumer!PersistBatch(c)
    PROVE  {Consumer!ExternalId(m) : m \in batch[c]} \subseteq Documents
<1> SUFFICES ASSUME NEW m \in batch[c] PROVE Consumer!ExternalId(m) \in Documents
  OBVIOUS
<1>1. /\ m[1] \in Partitions /\ m[2] \in Nat /\ m[2] < Len(log[m[1]])
      /\ log[m[1]] \in Seq(Payloads)
  BY DocumentPipelineAssumption DEF Group!IInv, Group!TypeOK, Group!Messages
<1>2. log[m[1]][m[2] + 1] \in Payloads
  BY <1>1
<1>3. Consumer!Payload(m) \in Payloads /\ Consumer!Payload(m) # Malformed
  BY <1>2 DEF Consumer!PersistBatch, Consumer!Payload
<1> QED
  BY <1>3, DocumentPipelineAssumption DEF Consumer!ExternalId

LEMMA RequestsStep == Group!IInv /\ [PipelineNext]_pipeline => [Next]_vars
<1> SUFFICES ASSUME Group!IInv, [PipelineNext]_pipeline PROVE [Next]_vars
  OBVIOUS
<1>1. CASE UNCHANGED vars
  BY <1>1
<1>2. ASSUME NEW c \in Consumers, StoreBatch(c) PROVE Next
  BY <1>2, BatchOfDocuments DEF StoreBatch, Next
<1>3. ASSUME NEW r \in Requests, Handle(r) PROVE Next
  <2>1. Send(r) => Submit(r)
    BY DEF Send, Submit, FinalStatus, DocumentStatus
  <2> QED
    BY <1>3, <2>1 DEF Handle, Next
<1> QED
  BY <1>1, <1>2, <1>3 DEF PipelineNext, Topic, Consume, Deliver, pipeline

LEMMA PartsInvariance ==
    /\ PipelineSpec => []Group!IInv
    /\ PipelineSpec => []Outbox!IInv
    /\ PipelineSpec => []Outbox!SentIsStored
<1>1. Group!Spec => []Group!IInv
  BY Group!Invariance, PartsAssumptions DEF Group!DocumentConsumerAssumption
<1>2. Outbox!Spec => []Outbox!IInv
  BY Outbox!Invariance, PartsAssumptions
     DEF Outbox!OutboxModelAssumption, Outbox!OutboxRelayAssumption
<1>3. Outbox!Spec => []Outbox!SentIsStored
  BY Outbox!OnlyStoredIsSent, PartsAssumptions
     DEF Outbox!OutboxModelAssumption, Outbox!OutboxRelayAssumption
<1> QED
  BY <1>1, <1>2, <1>3, GroupRuns, OutboxRuns, PTL

(* Seen through the tables and the sessions, the pipeline is requests at   *)
(* work while documents come in.                                           *)
THEOREM PipelineRefinement == PipelineSpec => Spec
<1>1. PipelineInit => Init
  BY DEF PipelineInit
<1> QED
  BY <1>1, RequestsStep, PartsInvariance, PTL DEF PipelineSpec, Spec

-----------------------------------------------------------------------------
(* The parts know the same things.                                         *)

\* A row of the consumers is a document in the table.
RowsArrived == \A m \in rows : Consumer!ExternalId(m) \in Documents /\ Arrived(m)

\* An event of the relays was committed by the request that it is named for.
EventsAreCommitted ==
    \A e \in Requests : events[e].status # "absent" => \E event \in outbox : event.id = e

LEMMA SameMessages ==
    /\ Consumer!Messages = Group!Messages
    /\ \A m : Consumer!ExternalId(m) = Group!ExternalId(m)
    /\ \A m : Consumer!ExternalId(m)' = Group!ExternalId(m)'
BY DEF Consumer!Messages, Group!Messages, Consumer!ExternalId, Group!ExternalId,
       Consumer!Payload, Group!Payload

(* No step of the requests takes a row or an event out of its table.       *)
LEMMA TablesGrow ==
    ASSUME IInv, [Next]_vars
    PROVE  /\ \A d \in Documents : Onward(documents[d], documents'[d])
           /\ outbox \subseteq outbox'
<1>1. ASSUME NEW r \in Requests, Commit(r)
      PROVE  /\ \A d \in Documents : Onward(documents[d], documents'[d])
             /\ outbox \subseteq outbox'
  <2>1. /\ documents'[target[r]] = dirty[r]
        /\ \A d \in Documents \ {target[r]} : documents'[d] = documents[d]
        /\ Onward(documents[target[r]], dirty[r])
    BY <1>1, CommittedRow
  <2>2. \A d \in Documents \ {target[r]} : Onward(documents[d], documents'[d])
    BY <2>1 DEF Onward
  <2> QED
    BY <1>1, <2>1, <2>2 DEF Commit
<1>2. ASSUME NEW new \in SUBSET Documents, NEW t \in CreatedAt, BulkInsertPending(new, t)
      PROVE  /\ \A d \in Documents : Onward(documents[d], documents'[d])
             /\ outbox \subseteq outbox'
  <2>1. \A d \in Documents : Onward(documents[d], documents'[d])
    BY <1>2, InsertOnward
  <2> QED
    BY <1>2, <2>1 DEF BulkInsertPending
<1>3. CASE UNCHANGED tables
  BY <1>3 DEF tables, Onward
<1>4. CASE UNCHANGED vars
  BY <1>3, <1>4 DEF vars, tables
<1>5. ASSUME NEW r \in Requests, Submit(r) \/ Advance(r) \/ Abort(r), ~Commit(r)
      PROVE  UNCHANGED tables
  BY <1>5 DEF Submit, Advance, Abort, ClaimDocument, MakeDecision, SkipLockedRow,
              SkipClaimedRow, TakeRow, EmptyQueue, LockDecidable, LockDecided,
              Respond, Rollback, tables
<1> QED
  BY <1>1, <1>2, <1>3, <1>4, <1>5 DEF Next

(* What a request adds to the outbox is its own event.                     *)
LEMMA OwnEvent ==
    ASSUME IInv, NEW r \in Requests, Submit(r) \/ Advance(r) \/ Abort(r),
           outbox' # outbox
    PROVE  \E event \in outbox' : event.id = r
<1>1. Commit(r)
  BY DEF Submit, Advance, Abort, ClaimDocument, MakeDecision, SkipLockedRow,
         SkipClaimedRow, TakeRow, EmptyQueue, LockDecidable, LockDecided,
         Respond, Rollback, tables
<1>2. outbox' = outbox \cup added[r] /\ added[r] # {}
  BY <1>1 DEF Commit
<1>3. added[r] = {EventOf(r)}
  BY <1>1, <1>2 DEF IInv, RequestOK, Commit, Writing, Claiming, Deciding
<1> QED
  BY <1>2, <1>3 DEF EventOf

LEMMA RowsArrivedStep ==
    ASSUME IInv, Group!IInv, RowsArrived, [PipelineNext]_pipeline
    PROVE  RowsArrived'
<1>1. ASSUME NEW m \in rows, Consumer!ExternalId(m)' = Consumer!ExternalId(m)
      PROVE  Consumer!ExternalId(m)' \in Documents /\ Arrived(m)'
  <2>1. Onward(documents[Consumer!ExternalId(m)], documents'[Consumer!ExternalId(m)])
    BY RequestsStep, TablesGrow DEF RowsArrived
  <2> QED
    BY <1>1, <2>1 DEF RowsArrived, Arrived, Onward
<1>2. CASE UNCHANGED <<log, rows>>
  BY <1>1, <1>2 DEF RowsArrived, Consumer!ExternalId, Consumer!Payload
<1>3. ASSUME NEW p \in Partitions, NEW payload \in Payloads, Consumer!Produce(p, payload)
      PROVE  RowsArrived'
  <2>1. Group!Produce(p, payload)
    BY <1>3, SameConsumers
  <2>2. \A m \in Group!Messages : Group!ExternalId(m)' = Group!ExternalId(m)
    BY <2>1, Group!ProduceKeepsMessages, PartsAssumptions
       DEF Group!DocumentConsumerAssumption
  <2>3. rows' = rows /\ rows \subseteq Group!Messages
    BY <1>3 DEF Consumer!Produce, Group!IInv, Group!TypeOK
  <2> QED
    BY <1>1, <2>2, <2>3, SameMessages DEF RowsArrived
<1>4. ASSUME NEW c \in Consumers, StoreBatch(c) PROVE RowsArrived'
  <2>1. PICK new \in SUBSET batch[c] : rows' = rows \cup new
    BY <1>4 DEF StoreBatch, Consumer!PersistBatch
  <2>2. log' = log /\ \A m : Consumer!ExternalId(m)' = Consumer!ExternalId(m)
    BY <1>4 DEF StoreBatch, Consumer!PersistBatch, Consumer!ExternalId, Consumer!Payload
  <2>3. ASSUME NEW m \in new PROVE Consumer!ExternalId(m)' \in Documents /\ Arrived(m)'
    <3>1. Consumer!ExternalId(m) \in Documents
      BY <1>4, BatchOfDocuments DEF StoreBatch
    <3>2. documents'[Consumer!ExternalId(m)].status # "absent"
      BY <1>4, <3>1 DEF StoreBatch, BulkInsertPending, InsertPending, PendingRow, Absent
    <3> QED
      BY <2>2, <3>1, <3>2 DEF Arrived
  <2> QED
    BY <1>1, <2>1, <2>2, <2>3 DEF RowsArrived
<1>5. Consumer!Assign \/ Consumer!Rebalance => UNCHANGED <<log, rows>>
  BY DEF Consumer!Assign, Consumer!Rebalance, Consumer!Reassign
<1>6. ASSUME NEW c \in Consumers, Consume(c) PROVE UNCHANGED <<log, rows>>
  BY <1>6 DEF Consume, Consumer!Start, Consumer!PollNothing, Consumer!Crash,
              Consumer!GetMany, Consumer!RejectBatch, Consumer!PersistFails,
              Consumer!GiveUp, Consumer!CommitOffsets, Consumer!CommitFails,
              Consumer!vars
<1>7. CASE UNCHANGED intake
  BY <1>2, <1>7 DEF intake
<1> QED
  BY <1>2, <1>3, <1>4, <1>5, <1>6, <1>7
     DEF PipelineNext, Topic, Handle, Deliver, pipeline

LEMMA EventsAreCommittedStep ==
    ASSUME IInv, Group!IInv, Outbox!IInv, EventsAreCommitted, [PipelineNext]_pipeline
    PROVE  EventsAreCommitted'
<1>1. outbox \subseteq outbox'
  BY RequestsStep, TablesGrow
<1>2. CASE UNCHANGED delivery
  BY <1>1, <1>2 DEF delivery, EventsAreCommitted
<1>3. ASSUME NEW r \in Requests, Handle(r), outbox' # outbox PROVE EventsAreCommitted'
  <2>1. Send(r) => Submit(r)
    BY DEF Send, Submit, FinalStatus, DocumentStatus
  <2>2. \E event \in outbox' : event.id = r
    BY <1>3, <2>1, OwnEvent DEF Handle
  <2>3. \A e \in Requests \ {r} : events'[e] = events[e]
    BY <1>3 DEF Handle, ShowEvent, Relay!Store, Outbox!IInv, Outbox!TypeOK
  <2> QED
    BY <1>1, <2>2, <2>3 DEF EventsAreCommitted
<1>4. ASSUME Deliver PROVE EventsAreCommitted'
  <2>1. \/ Outbox!KafkaFails \/ Outbox!KafkaRecovers
        \/ \E w \in Relays : \/ Outbox!Advance(w) \/ Outbox!StatementFails(w)
                             \/ Outbox!Crash(w) \/ Outbox!Cancelled(w)
    BY <1>4, SameRelays DEF Deliver
  <2>2. \A e \in Requests : events[e].status = "absent" => events'[e].status = "absent"
    BY <2>1, Outbox!RelaysStoreNothing, PartsAssumptions
       DEF Outbox!OutboxModelAssumption, Outbox!OutboxRelayAssumption
  <2> QED
    BY <1>1, <2>2 DEF EventsAreCommitted
<1> QED
  BY <1>2, <1>3, <1>4
     DEF PipelineNext, Topic, StoreBatch, Consume, Handle, ShowEvent, pipeline

LEMMA CouplingInvariance == PipelineSpec => [](RowsArrived /\ EventsAreCommitted)
<1>1. PipelineInit => RowsArrived
  BY DEF PipelineInit, Consumer!Init, RowsArrived
<1>2. PipelineInit => EventsAreCommitted
  BY DEF PipelineInit, Relay!Init, Relay!AbsentEvent, EventsAreCommitted
<1>3. PipelineSpec => []IInv
  BY PipelineRefinement, Invariance, PTL
<1> QED
  BY <1>1, <1>2, <1>3, PartsInvariance, RowsArrivedStep, EventsAreCommittedStep, PTL
     DEF PipelineSpec

-----------------------------------------------------------------------------
(* Every message whose offset the group has committed is in the table that *)
(* claims read, or in a batch that the loop of run gave up: whatever the   *)
(* consumers, requests and relays do, and however they fail.               *)
THEOREM AcknowledgedMeansQueued == PipelineSpec => []AcknowledgedIsQueued
<1>1. Group!IInv /\ RowsArrived => AcknowledgedIsQueued
  <2> SUFFICES ASSUME Group!IInv, RowsArrived, NEW m \in Consumer!Messages,
                      m[2] < committed[m[1]], m \notin dropped
               PROVE  Arrived(m)
    BY DEF AcknowledgedIsQueued
  <2>1. PICK s \in rows : Group!ExternalId(s) = Group!ExternalId(m)
    BY SameMessages DEF Group!IInv, Group!OnlyGivenUpIsLost, Group!HasRow
  <2> QED
    BY <2>1, SameMessages DEF RowsArrived, Arrived
<1> QED
  BY <1>1, PartsInvariance, CouplingInvariance, PTL

(* A message in the output topic is about a document that is decided, and  *)
(* says what its row says: make_decision writes both in one transaction,   *)
(* and the relays send nothing that they have not read from the outbox.    *)
THEOREM PublishedMeansDecided == PipelineSpec => []PublishedIsDecided
<1>1. Outbox!SentIsStored /\ EventsAreCommitted /\ OutboxMatchesDocuments
         => PublishedIsDecided
  BY SameOperators
     DEF Outbox!SentIsStored, EventsAreCommitted, OutboxMatchesDocuments,
         Queue!OutboxMatchesDocuments, PublishedIsDecided
<1>2. PipelineSpec => []OutboxMatchesDocuments
  BY PipelineRefinement, OutboxCorrect, PTL
<1> QED
  BY <1>1, <1>2, PartsInvariance, CouplingInvariance, PTL
=============================================================================
