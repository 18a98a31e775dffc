-------------------------- MODULE DocumentConsumer --------------------------
(***************************************************************************)
(* The Kafka consumers: one DocumentConsumer in each of the four uvicorn   *)
(* processes, all in one consumer group.                                   *)
(*                                                                         *)
(* A consumer polls a batch, which moves its position in memory, stores    *)
(* the batch in one INSERT ... ON CONFLICT DO NOTHING, and then commits    *)
(* its positions.  Offsets and rows live in two systems and nothing ties   *)
(* them together: a crash between the two repeats a batch, and an error    *)
(* before the INSERT commits leaves the position where the poll put it, so *)
(* that the next successful commit() covers the batch that was not stored. *)
(*                                                                         *)
(* The group coordinator may reassign the partitions at any await; the     *)
(* batch in hand is stored none the less, and commit() then covers only    *)
(* what the consumer owns.                                                 *)
(***************************************************************************)
EXTENDS Naturals, Sequences, FiniteSets

CONSTANTS
    Documents,       \* the ids that messages may carry
    NoId,            \* a JSON object without "id"
    Malformed,       \* a message that cannot be stored: no JSON object, or
                     \* one that PostgreSQL refuses
    Payloads,        \* what is produced: a subset of all these
    Partitions,      \* the partitions of the input topic
    Consumers,       \* the worker processes
    NoConsumer,      \* the partition is not assigned
    BatchSize,       \* max_records of getmany: 100
    MaxMessages,     \* bound: messages in a partition
    MaxCrashes,      \* bound: crashes
    MaxRebalances    \* bound: rebalances without need

ASSUME DocumentConsumerAssumption ==
    /\ NoId \notin Documents /\ Malformed \notin Documents /\ NoId # Malformed
    /\ Payloads \subseteq Documents \cup {NoId, Malformed}
    /\ Documents \cap Nat = {}
    /\ NoConsumer \notin Consumers
    /\ BatchSize \in Nat \ {0}
    /\ MaxMessages \in Nat /\ MaxCrashes \in Nat /\ MaxRebalances \in Nat

VARIABLES
    log,         \* the messages of each partition of the input topic
    committed,   \* the offsets that the group has committed
    owner,       \* the consumer that a partition is assigned to
    position,    \* the next offset that the owner of a partition will poll
    pc,          \* where a consumer is
    batch,       \* the messages that it has in hand, as <<partition, offset>>
    rows,        \* the messages of which "documents" has a row
    dropped,     \* the messages of batches that their consumer gave up
    crashes, rebalances   \* counters for the bounds

group  == <<committed, owner, position>>
bounds == <<crashes, rebalances>>
vars   == <<log, committed, owner, position, pc, batch, rows, dropped, crashes,
            rebalances>>

PC == {"down", "polling", "persisting", "committing"}

Messages == {m \in Partitions \X (0..MaxMessages) : m[2] < Len(log[m[1]])}

TypeOK ==
    /\ log        \in [Partitions -> Seq(Payloads)]
    /\ committed  \in [Partitions -> 0..MaxMessages]
    /\ owner      \in [Partitions -> Consumers \cup {NoConsumer}]
    /\ position   \in [Partitions -> 0..MaxMessages]
    /\ pc         \in [Consumers -> PC]
    /\ batch      \in [Consumers -> SUBSET Messages]
    /\ rows       \subseteq Messages
    /\ dropped    \subseteq Messages
    /\ crashes    \in 0..MaxCrashes
    /\ rebalances \in 0..MaxRebalances
    /\ \A p \in Partitions : committed[p] <= position[p] /\ position[p] <= Len(log[p])

Init ==
    /\ log        = [p \in Partitions |-> <<>>]
    /\ committed  = [p \in Partitions |-> 0]
    /\ owner      = [p \in Partitions |-> NoConsumer]
    /\ position   = [p \in Partitions |-> 0]
    /\ pc         = [c \in Consumers |-> "down"]
    /\ batch      = [c \in Consumers |-> {}]
    /\ rows       = {}
    /\ dropped    = {}
    /\ crashes = 0 /\ rebalances = 0

-----------------------------------------------------------------------------
(* The input topic and the consumer group.                                 *)

Produce(p, payload) ==
    /\ Len(log[p]) < MaxMessages
    /\ log' = [log EXCEPT ![p] = Append(@, payload)]
    /\ UNCHANGED <<group, pc, batch, rows, dropped, bounds>>

\* DocumentConsumer.start: the consumer joins the group.
Start(c) ==
    /\ pc[c] = "down"
    /\ pc' = [pc EXCEPT ![c] = "polling"]
    /\ UNCHANGED <<log, group, batch, rows, dropped, bounds>>

Members == {c \in Consumers : pc[c] # "down"}

\* Mutant of Reassign: who gets a partition goes on where the last owner was.
ReassignKeepingPositions(assignment) ==
    /\ owner' = assignment
    /\ UNCHANGED <<log, committed, position, pc, batch, rows, dropped, crashes>>

\* Mutant of Reassign: who gets a partition reads it from the beginning.
ReassignFromStart(assignment) ==
    /\ owner' = assignment
    /\ position' = [p \in Partitions |-> 0]
    /\ UNCHANGED <<log, committed, pc, batch, rows, dropped, crashes>>

\* Every partition gets an owner, who resumes from the committed offset
\* (auto_offset_reset is "earliest" for a group that has committed none).
Reassign(assignment) ==
    /\ owner' = assignment
    /\ position' = committed
    /\ UNCHANGED <<log, committed, pc, batch, rows, dropped, crashes>>

\* A partition lost its owner.
Assign ==
    /\ \E p \in Partitions : owner[p] = NoConsumer
    /\ \E assignment \in [Partitions -> Members] : Reassign(assignment)
    /\ UNCHANGED rebalances

\* A consumer joins, or is taken for dead.
Rebalance ==
    /\ rebalances < MaxRebalances
    /\ rebalances' = rebalances + 1
    /\ \E assignment \in [Partitions -> Members] : Reassign(assignment)

\* The process dies or is stopped; what it had in memory is gone.
Crash(c) ==
    /\ pc[c] # "down"
    /\ crashes < MaxCrashes
    /\ crashes' = crashes + 1
    /\ pc' = [pc EXCEPT ![c] = "down"]
    /\ batch' = [batch EXCEPT ![c] = {}]
    /\ owner' = [p \in Partitions |-> IF owner[p] = c THEN NoConsumer ELSE owner[p]]
    /\ UNCHANGED <<log, committed, position, rows, dropped, rebalances>>

-----------------------------------------------------------------------------
(* DocumentConsumer.run.                                                   *)

Payload(m) == log[m[1]][m[2] + 1]

\* What the consumer stores as external_id: payload.get("id", msg.offset).
ExternalId(m) == IF Payload(m) = NoId THEN m[2] ELSE Payload(m)

\* The messages between two positions.
Between(from, to) ==
    {m \in Messages : from[m[1]] <= m[2] /\ m[2] < to[m[1]]}

\* Mutant of GetMany: enable_auto_commit.
GetManyAutoCommit(c, to) ==
    /\ pc[c] = "polling"
    /\ \A p \in Partitions :
          /\ position[p] <= to[p] /\ to[p] <= Len(log[p])
          /\ to[p] # position[p] => owner[p] = c
    /\ Cardinality(Between(position, to)) \in 1..BatchSize
    /\ position' = to
    /\ committed' = to
    /\ batch' = [batch EXCEPT ![c] = Between(position, to)]
    /\ pc' = [pc EXCEPT ![c] = "persisting"]
    /\ UNCHANGED <<log, owner, rows, dropped, bounds>>

\* getmany returns nothing within 500 ms: the loop goes on.
PollNothing(c) ==
    /\ pc[c] = "polling"
    /\ UNCHANGED vars

\* getmany returns up to BatchSize messages of the partitions that c owns, in
\* the order of each, and moves the positions past them.
GetMany(c, to) ==
    /\ pc[c] = "polling"
    /\ \A p \in Partitions :
          /\ position[p] <= to[p] /\ to[p] <= Len(log[p])
          /\ to[p] # position[p] => owner[p] = c
    /\ Cardinality(Between(position, to)) \in 1..BatchSize
    /\ position' = to
    /\ batch' = [batch EXCEPT ![c] = Between(position, to)]
    /\ pc' = [pc EXCEPT ![c] = "persisting"]
    /\ UNCHANGED <<log, committed, owner, rows, dropped, bounds>>

\* Mutant of Inserted: no ON CONFLICT clause and no constraint.
InsertedAgain(new, messages) == new = messages \ rows

\* uq_document_external: of the messages with one external_id the first that
\* is inserted stays, and the others are ignored.
Inserted(new, messages) ==
    /\ \A m \in messages : \E s \in rows \cup new : ExternalId(s) = ExternalId(m)
    /\ \A m \in new : \A s \in rows \cup new :
          ExternalId(s) = ExternalId(m) => s = m

\* _persist_batch: one INSERT ... ON CONFLICT DO NOTHING in one transaction.
PersistBatch(c) ==
    /\ pc[c] = "persisting"
    /\ \A m \in batch[c] : Payload(m) # Malformed
    /\ \E new \in SUBSET batch[c] :
          /\ Inserted(new, batch[c])
          /\ rows' = rows \cup new
    /\ pc' = [pc EXCEPT ![c] = "committing"]
    /\ UNCHANGED <<log, group, batch, dropped, bounds>>

\* The handler at the end of the loop: the error is logged and the loop goes
\* on.  The batch is forgotten, the positions stay past it.
GiveUp(c) ==
    /\ pc[c] = "persisting"
    /\ dropped' = dropped \cup batch[c]
    /\ pc' = [pc EXCEPT ![c] = "polling"]
    /\ batch' = [batch EXCEPT ![c] = {}]
    /\ UNCHANGED <<log, group, rows, bounds>>

\* A payload without "get", or one that the INSERT refuses.
RejectBatch(c) ==
    /\ \E m \in batch[c] : Payload(m) = Malformed
    /\ GiveUp(c)

\* The database is away, the pool is exhausted, or two consumers that insert
\* the same ids in different order deadlock.
PersistFails(c) == GiveUp(c)

\* Mutant of CommitOffsets: the offsets of the batch in hand are committed,
\* whoever owns the partitions by now.
CommitUnfenced(c) ==
    /\ pc[c] = "committing"
    /\ committed' = [p \in Partitions |->
          IF \E m \in batch[c] : m[1] = p
          THEN CHOOSE o \in 1..MaxMessages :
                  <<p, o - 1>> \in batch[c] /\ <<p, o>> \notin batch[c]
          ELSE committed[p]]
    /\ pc' = [pc EXCEPT ![c] = "polling"]
    /\ batch' = [batch EXCEPT ![c] = {}]
    /\ UNCHANGED <<log, owner, position, rows, dropped, bounds>>

\* commit(): the positions of the partitions that c owns.
CommitOffsets(c) ==
    /\ pc[c] = "committing"
    /\ committed' = [p \in Partitions |-> IF owner[p] = c THEN position[p] ELSE committed[p]]
    /\ pc' = [pc EXCEPT ![c] = "polling"]
    /\ batch' = [batch EXCEPT ![c] = {}]
    /\ UNCHANGED <<log, owner, position, rows, dropped, bounds>>

\* commit() raises; the loop goes on.
CommitFails(c) ==
    /\ pc[c] = "committing"
    /\ pc' = [pc EXCEPT ![c] = "polling"]
    /\ batch' = [batch EXCEPT ![c] = {}]
    /\ UNCHANGED <<log, group, rows, dropped, bounds>>

-----------------------------------------------------------------------------
Advance(c) ==
    \/ \E to \in [Partitions -> 0..MaxMessages] : GetMany(c, to)
    \/ PersistBatch(c)
    \/ RejectBatch(c)
    \/ CommitOffsets(c)

\* Everything but failures of the database.
ReliableNext ==
    \/ \E p \in Partitions, payload \in Payloads : Produce(p, payload)
    \/ Assign \/ Rebalance
    \/ \E c \in Consumers :
          Start(c) \/ Crash(c) \/ PollNothing(c) \/ Advance(c) \/ CommitFails(c)

Next == ReliableNext \/ \E c \in Consumers : PersistFails(c)

Spec         == Init /\ [][Next]_vars
ReliableSpec == Init /\ [][ReliableNext]_vars

-----------------------------------------------------------------------------
\* The message is in the table, itself or as another message with its id.
HasRow(m) == \E s \in rows : ExternalId(s) = ExternalId(m)

(* No message is lost for any other reason than that its batch failed:     *)
(* whatever the crashes and rebalances, a committed offset covers only     *)
(* messages that were stored and those of batches that were given up.      *)
OnlyGivenUpIsLost ==
    \A m \in Messages : m[2] < committed[m[1]] => HasRow(m) \/ m \in dropped

(* A message that Kafka delivers again, after a crash, a rebalance or a    *)
(* commit that failed, adds no second row ("идемпотентность по             *)
(* external_id + source_topic", README).                                   *)
OneRowPerDocument ==
    \A s1, s2 \in rows : ExternalId(s1) = ExternalId(s2) => s1 = s2

(* The committed offset of a partition never goes back: a consumer that    *)
(* has lost a partition does not undo what the next owner committed.       *)
CommittedGrows ==
    [][\A p \in Partitions : committed[p] <= committed'[p]]_vars

\* The document that m carries has a row of its own.
IsKept(m) ==
    \E s \in rows : s = m \/ (Payload(s) = Payload(m) /\ Payload(m) \in Documents)

(* "Reads input topic messages and persists documents to PostgreSQL"       *)
(* (DocumentConsumer): every message that the group has acknowledged is in *)
(* the table, but those that cannot be stored.  It holds when the database *)
(* never fails and messages are as produce_documents.py writes them; a     *)
(* failed INSERT, a malformed neighbour and a message without an id each   *)
(* break it.                                                               *)
CommittedIsKept ==
    \A m \in Messages :
        m[2] < committed[m[1]] /\ Payload(m) # Malformed => IsKept(m)
=============================================================================
