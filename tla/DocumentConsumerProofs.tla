----------------------- MODULE DocumentConsumerProofs -----------------------
(***************************************************************************)
(* What the consumers of a group keep, for any number of them, of          *)
(* partitions and of messages, whatever is produced and however often they *)
(* crash, fail and exchange their partitions.                              *)
(*                                                                         *)
(* That a committed offset covers nothing unaccounted for is not inductive *)
(* on its own: commit() writes positions, so the invariant has to say the  *)
(* same of the messages below the position of an owned partition, save for *)
(* those that the owner still has in hand.                                 *)
(***************************************************************************)
EXTENDS DocumentConsumer, TLAPS

\* The message is in the table or its batch was given up.
Settled(m) == HasRow(m) \/ m \in dropped

\* What a partition's owner has polled is settled or still in its hand.
PolledIsSettled ==
    \A m \in Messages :
        /\ owner[m[1]] \in Consumers
        /\ m[2] < position[m[1]]
        => \/ Settled(m)
           \/ pc[owner[m[1]]] = "persisting" /\ m \in batch[owner[m[1]]]

IInv ==
    /\ TypeOK
    /\ PolledIsSettled
    /\ OnlyGivenUpIsLost
    /\ OneRowPerDocument

-----------------------------------------------------------------------------
LEMMA InitIInv == Init => IInv
<1> SUFFICES ASSUME Init PROVE IInv
  OBVIOUS
<1>1. Messages = {}
  BY DEF Init, Messages
<1>2. TypeOK
  <2>1. <<>> \in Seq(Payloads) /\ Len(<<>>) = 0
    OBVIOUS
  <2> QED
    BY <2>1, DocumentConsumerAssumption DEF Init, TypeOK, PC
<1> QED
  BY <1>1, <1>2 DEF Init, IInv, PolledIsSettled, OnlyGivenUpIsLost, OneRowPerDocument

(* A log that only grows keeps its messages and their ids.                 *)
LEMMA ProduceKeepsMessages ==
    ASSUME IInv, NEW p \in Partitions, NEW payload \in Payloads, Produce(p, payload)
    PROVE  /\ log' \in [Partitions -> Seq(Payloads)]
           /\ \A q \in Partitions : Len(log'[q]) >= Len(log[q])
           /\ Messages \subseteq Messages'
           /\ \A m \in Messages : ExternalId(m)' = ExternalId(m)
           /\ \A m \in Messages' : m \in Messages \/ m[2] >= Len(log[m[1]])
<1>1. /\ log \in [Partitions -> Seq(Payloads)]
      /\ log' = [log EXCEPT ![p] = Append(@, payload)]
  BY DEF Produce, IInv, TypeOK
<1>2. \A q \in Partitions :
          /\ log'[q] \in Seq(Payloads)
          /\ Len(log[q]) \in Nat
          /\ Len(log'[q]) \in Nat
          /\ Len(log'[q]) >= Len(log[q])
          /\ \A i \in 1..Len(log[q]) : log'[q][i] = log[q][i]
  <2> TAKE q \in Partitions
  <2>1. CASE q = p
    <3>1. log'[p] = Append(log[p], payload) /\ log[p] \in Seq(Payloads)
      BY <1>1
    <3> QED
      BY <2>1, <3>1
  <2>2. CASE q # p
    BY <1>1, <2>2
  <2> QED
    BY <2>1, <2>2
<1>3. \A m \in Messages : m[1] \in Partitions /\ m[2] \in Nat /\ m[2] + 1 \in 1..Len(log[m[1]])
  BY <1>2, DocumentConsumerAssumption DEF Messages
<1>4. \A m \in Messages : ExternalId(m)' = ExternalId(m)
  BY <1>2, <1>3 DEF ExternalId, Payload
<1>5. log' \in [Partitions -> Seq(Payloads)]
  BY <1>1, <1>2
<1>6. \A q \in Partitions : Len(log'[q]) >= Len(log[q])
  BY <1>2
<1>7. Messages \subseteq Messages'
  BY <1>2, DocumentConsumerAssumption DEF Messages
<1>8. \A m \in Messages' : m \in Messages \/ m[2] >= Len(log[m[1]])
  BY <1>2, DocumentConsumerAssumption DEF Messages
<1> QED
  BY <1>4, <1>5, <1>6, <1>7, <1>8

LEMMA ProduceIInv ==
    ASSUME IInv, NEW p \in Partitions, NEW payload \in Payloads, Produce(p, payload)
    PROVE  IInv'
<1>1. /\ log' \in [Partitions -> Seq(Payloads)]
      /\ \A q \in Partitions : Len(log'[q]) >= Len(log[q])
      /\ Messages \subseteq Messages'
      /\ \A m \in Messages : ExternalId(m)' = ExternalId(m)
      /\ \A m \in Messages' : m \in Messages \/ m[2] >= Len(log[m[1]])
  BY ProduceKeepsMessages
<1>2. UNCHANGED <<committed, owner, position, pc, batch, rows, dropped, crashes, rebalances>>
  BY DEF Produce, group, bounds
<1>3. rows \subseteq Messages /\ TypeOK
  BY DEF IInv, TypeOK
<1>4. TypeOK'
  <2>1. batch \in [Consumers -> SUBSET Messages'] /\ rows \subseteq Messages' /\ dropped \subseteq Messages'
    BY <1>1, <1>3 DEF TypeOK
  <2>2. \A q \in Partitions : position[q] <= Len(log'[q])
    <3>1. \A q \in Partitions :
             /\ position[q] \in Nat /\ position[q] <= Len(log[q])
             /\ Len(log[q]) \in Nat /\ Len(log'[q]) \in Nat
      BY <1>1, <1>3, DocumentConsumerAssumption DEF TypeOK
    <3> QED
      BY <1>1, <3>1
  <2> QED
    BY <1>1, <1>2, <1>3, <2>1, <2>2 DEF TypeOK
<1>5. \A m \in Messages' : m \in Messages \/ ~(m[2] < position[m[1]] \/ m[2] < committed[m[1]])
  <2>1. \A m \in Messages' : m[1] \in Partitions /\ m[2] \in Nat
    BY DocumentConsumerAssumption DEF Messages
  <2>2. \A q \in Partitions :
           /\ position[q] \in Nat /\ committed[q] \in Nat /\ Len(log[q]) \in Nat
           /\ committed[q] <= position[q] /\ position[q] <= Len(log[q])
    BY <1>3, DocumentConsumerAssumption DEF TypeOK
  <2> QED
    BY <1>1, <2>1, <2>2
<1>6. \A m \in Messages : HasRow(m)' <=> HasRow(m)
  BY <1>1, <1>2, <1>3 DEF HasRow
<1>7. PolledIsSettled'
  BY <1>2, <1>5, <1>6 DEF IInv, PolledIsSettled, Settled
<1>8. OnlyGivenUpIsLost'
  BY <1>2, <1>5, <1>6 DEF IInv, OnlyGivenUpIsLost
<1>9. OneRowPerDocument'
  <2>1. \A s \in rows : ExternalId(s)' = ExternalId(s)
    BY <1>1, <1>3
  <2> QED
    BY <1>2, <2>1 DEF IInv, OneRowPerDocument
<1> QED
  BY <1>4, <1>7, <1>8, <1>9 DEF IInv

-----------------------------------------------------------------------------
(* The other actions leave the topic alone.                                *)
LEMMA SameMessages ==
    ASSUME UNCHANGED log
    PROVE  Messages' = Messages /\ \A m : ExternalId(m)' = ExternalId(m)
BY DEF Messages, ExternalId, Payload

(* A step that stores and gives up messages, if any, and moves nothing     *)
(* else of the group keeps what is settled settled.                        *)
LEMMA MoreIsSettled ==
    ASSUME UNCHANGED log, rows \subseteq rows', dropped \subseteq dropped'
    PROVE  \A m : Settled(m) => Settled(m)'
BY SameMessages DEF Settled, HasRow

LEMMA ReassignIInv ==
    ASSUME IInv, NEW a \in [Partitions -> Members], Reassign(a),
           rebalances' \in 0..MaxRebalances
    PROVE  IInv'
<1> USE DEF Reassign
<1>1. Messages' = Messages /\ \A m : ExternalId(m)' = ExternalId(m)
  BY SameMessages
<1>2. TypeOK'
  BY <1>1, DocumentConsumerAssumption DEF IInv, TypeOK, Members
<1>3. \A m : Settled(m)' <=> Settled(m)
  BY <1>1 DEF Settled, HasRow
<1>4. PolledIsSettled'
  BY <1>1, <1>3 DEF IInv, PolledIsSettled, OnlyGivenUpIsLost, Settled
<1>5. OnlyGivenUpIsLost'
  BY <1>1, <1>3 DEF IInv, OnlyGivenUpIsLost, Settled
<1>6. OneRowPerDocument'
  BY <1>1 DEF IInv, OneRowPerDocument
<1> QED
  BY <1>2, <1>4, <1>5, <1>6 DEF IInv

LEMMA CrashIInv == ASSUME IInv, NEW c \in Consumers, Crash(c) PROVE IInv'
<1> USE DEF Crash
<1>1. Messages' = Messages /\ \A m : ExternalId(m)' = ExternalId(m)
  BY SameMessages
<1>2. TypeOK'
  BY <1>1, DocumentConsumerAssumption DEF IInv, TypeOK, PC
<1>3. \A m : Settled(m)' <=> Settled(m)
  BY <1>1 DEF Settled, HasRow
<1>4. PolledIsSettled'
  <2> SUFFICES ASSUME NEW m \in Messages, owner'[m[1]] \in Consumers, m[2] < position[m[1]]
               PROVE  \/ Settled(m)
                      \/ pc'[owner'[m[1]]] = "persisting" /\ m \in batch'[owner'[m[1]]]
    BY <1>1, <1>3 DEF PolledIsSettled
  <2>1. m[1] \in Partitions
    BY DEF Messages
  <2>2. owner'[m[1]] = owner[m[1]] /\ owner[m[1]] # c
    BY <2>1, DocumentConsumerAssumption DEF IInv, TypeOK
  <2> QED
    BY <2>1, <2>2 DEF IInv, TypeOK, PolledIsSettled
<1>5. OnlyGivenUpIsLost'
  BY <1>1, <1>3 DEF IInv, OnlyGivenUpIsLost, Settled
<1>6. OneRowPerDocument'
  BY <1>1 DEF IInv, OneRowPerDocument
<1> QED
  BY <1>2, <1>4, <1>5, <1>6 DEF IInv

LEMMA GetManyIInv ==
    ASSUME IInv, NEW c \in Consumers, NEW to \in [Partitions -> 0..MaxMessages],
           GetMany(c, to)
    PROVE  IInv'
<1> USE DEF GetMany, bounds
<1>1. Messages' = Messages /\ \A m : ExternalId(m)' = ExternalId(m)
  BY SameMessages
<1>2. Between(position, to) \subseteq Messages
  BY DEF Between
<1>3. TypeOK'
  <2>1. \A p \in Partitions : committed[p] <= to[p] /\ to[p] <= Len(log[p])
    BY DocumentConsumerAssumption DEF IInv, TypeOK
  <2> QED
    BY <1>1, <1>2, <2>1 DEF IInv, TypeOK, PC
<1>4. \A m : Settled(m)' <=> Settled(m)
  BY <1>1 DEF Settled, HasRow
<1>5. PolledIsSettled'
  <2> SUFFICES ASSUME NEW m \in Messages, owner[m[1]] \in Consumers, m[2] < to[m[1]]
               PROVE  \/ Settled(m)
                      \/ pc'[owner[m[1]]] = "persisting" /\ m \in batch'[owner[m[1]]]
    BY <1>1, <1>4 DEF PolledIsSettled
  <2>1. m[1] \in Partitions /\ m[2] \in Nat /\ position[m[1]] \in Nat /\ to[m[1]] \in Nat
    BY DocumentConsumerAssumption DEF Messages, IInv, TypeOK
  <2>2. CASE m[2] < position[m[1]]
    <3>1. Settled(m) \/ (pc[owner[m[1]]] = "persisting" /\ m \in batch[owner[m[1]]])
      BY <2>2 DEF IInv, PolledIsSettled
    <3>2. CASE owner[m[1]] = c
      BY <3>1, <3>2
    <3>3. CASE owner[m[1]] # c
      BY <3>1, <3>3 DEF IInv, TypeOK
    <3> QED
      BY <3>2, <3>3
  <2>3. CASE ~(m[2] < position[m[1]])
    <3>1. position[m[1]] <= m[2] /\ to[m[1]] # position[m[1]]
      BY <2>1, <2>3
    <3>2. owner[m[1]] = c /\ m \in Between(position, to)
      BY <2>1, <3>1 DEF Between
    <3> QED
      BY <3>2 DEF IInv, TypeOK
  <2> QED
    BY <2>2, <2>3
<1>6. OnlyGivenUpIsLost'
  BY <1>1, <1>4 DEF IInv, OnlyGivenUpIsLost, Settled
<1>7. OneRowPerDocument'
  BY <1>1 DEF IInv, OneRowPerDocument
<1> QED
  BY <1>3, <1>5, <1>6, <1>7 DEF IInv

LEMMA PersistBatchIInv ==
    ASSUME IInv, NEW c \in Consumers, PersistBatch(c)
    PROVE  IInv'
<1> USE DEF PersistBatch, group, bounds
<1>1. Messages' = Messages /\ \A m : ExternalId(m)' = ExternalId(m)
  BY SameMessages
<1>2. PICK new \in SUBSET batch[c] : Inserted(new, batch[c]) /\ rows' = rows \cup new
  OBVIOUS
<1>3. batch[c] \subseteq Messages
  BY DEF IInv, TypeOK
<1>4. TypeOK'
  BY <1>1, <1>2, <1>3 DEF IInv, TypeOK, PC
<1>5. \A m : Settled(m) => Settled(m)'
  BY <1>2, MoreIsSettled
<1>6. \A m \in batch[c] : Settled(m)'
  BY <1>1, <1>2 DEF Inserted, Settled, HasRow
<1>7. PolledIsSettled'
  <2> SUFFICES ASSUME NEW m \in Messages, owner[m[1]] \in Consumers, m[2] < position[m[1]]
               PROVE  \/ Settled(m)'
                      \/ pc'[owner[m[1]]] = "persisting" /\ m \in batch[owner[m[1]]]
    BY <1>1 DEF PolledIsSettled
  <2>1. Settled(m) \/ (pc[owner[m[1]]] = "persisting" /\ m \in batch[owner[m[1]]])
    BY DEF IInv, PolledIsSettled
  <2>2. CASE owner[m[1]] = c
    BY <1>5, <1>6, <2>1, <2>2
  <2>3. CASE owner[m[1]] # c
    BY <1>5, <2>1, <2>3 DEF IInv, TypeOK
  <2> QED
    BY <2>2, <2>3
<1>8. OnlyGivenUpIsLost'
  BY <1>1, <1>5 DEF IInv, OnlyGivenUpIsLost, Settled
<1>9. OneRowPerDocument'
  BY <1>1, <1>2 DEF IInv, OneRowPerDocument, Inserted
<1> QED
  BY <1>4, <1>7, <1>8, <1>9 DEF IInv

LEMMA GiveUpIInv == ASSUME IInv, NEW c \in Consumers, GiveUp(c) PROVE IInv'
<1> USE DEF GiveUp, group, bounds
<1>1. Messages' = Messages /\ \A m : ExternalId(m)' = ExternalId(m)
  BY SameMessages
<1>2. TypeOK'
  <2>1. dropped \cup batch[c] \subseteq Messages
    BY DEF IInv, TypeOK
  <2> QED
    BY <1>1, <2>1 DEF IInv, TypeOK, PC
<1>3. \A m : Settled(m) => Settled(m)'
  BY MoreIsSettled
<1>4. \A m \in batch[c] : Settled(m)'
  BY DEF Settled
<1>5. PolledIsSettled'
  <2> SUFFICES ASSUME NEW m \in Messages, owner[m[1]] \in Consumers, m[2] < position[m[1]]
               PROVE  \/ Settled(m)'
                      \/ pc'[owner[m[1]]] = "persisting" /\ m \in batch'[owner[m[1]]]
    BY <1>1 DEF PolledIsSettled
  <2>1. Settled(m) \/ (pc[owner[m[1]]] = "persisting" /\ m \in batch[owner[m[1]]])
    BY DEF IInv, PolledIsSettled
  <2>2. CASE owner[m[1]] = c
    BY <1>3, <1>4, <2>1, <2>2
  <2>3. CASE owner[m[1]] # c
    BY <1>3, <2>1, <2>3 DEF IInv, TypeOK
  <2> QED
    BY <2>2, <2>3
<1>6. OnlyGivenUpIsLost'
  BY <1>1, <1>3 DEF IInv, OnlyGivenUpIsLost, Settled
<1>7. OneRowPerDocument'
  BY <1>1 DEF IInv, OneRowPerDocument
<1> QED
  BY <1>2, <1>5, <1>6, <1>7 DEF IInv

(* What is committed is settled: the owner has nothing left in its hand.   *)
LEMMA EndOfBatchIInv ==
    ASSUME IInv, NEW c \in Consumers, CommitOffsets(c) \/ CommitFails(c)
    PROVE  IInv'
<1>1. /\ pc[c] = "committing"
      /\ pc' = [pc EXCEPT ![c] = "polling"]
      /\ batch' = [batch EXCEPT ![c] = {}]
      /\ UNCHANGED <<log, owner, position, rows, dropped, crashes, rebalances>>
  BY DEF CommitOffsets, CommitFails, group, bounds
<1>2. Messages' = Messages /\ \A m : ExternalId(m)' = ExternalId(m)
  BY <1>1, SameMessages
<1>3. \A m : Settled(m)' <=> Settled(m)
  BY <1>1, <1>2 DEF Settled, HasRow
<1>4. \/ committed' = committed
      \/ committed' = [p \in Partitions |-> IF owner[p] = c THEN position[p] ELSE committed[p]]
  BY DEF CommitOffsets, CommitFails, group
<1>5. TypeOK'
  <2>1. \A p \in Partitions : position[p] <= position[p]
    BY DocumentConsumerAssumption DEF IInv, TypeOK
  <2>2. /\ committed' \in [Partitions -> 0..MaxMessages]
        /\ \A p \in Partitions : committed'[p] <= position[p] /\ position[p] <= Len(log[p])
    BY <1>4, <2>1 DEF IInv, TypeOK
  <2> QED
    BY <1>1, <1>2, <2>2 DEF IInv, TypeOK, PC
<1>6. PolledIsSettled'
  <2> SUFFICES ASSUME NEW m \in Messages, owner[m[1]] \in Consumers, m[2] < position[m[1]]
               PROVE  \/ Settled(m)
                      \/ pc'[owner[m[1]]] = "persisting" /\ m \in batch'[owner[m[1]]]
    BY <1>1, <1>2, <1>3 DEF PolledIsSettled
  <2>1. Settled(m) \/ (pc[owner[m[1]]] = "persisting" /\ m \in batch[owner[m[1]]])
    BY DEF IInv, PolledIsSettled
  <2>2. CASE owner[m[1]] = c
    BY <1>1, <2>1, <2>2
  <2>3. CASE owner[m[1]] # c
    BY <1>1, <2>1, <2>3 DEF IInv, TypeOK
  <2> QED
    BY <2>2, <2>3
<1>7. OnlyGivenUpIsLost'
  <2> SUFFICES ASSUME NEW m \in Messages, m[2] < committed'[m[1]] PROVE Settled(m)
    BY <1>2, <1>3 DEF OnlyGivenUpIsLost, Settled
  <2>1. m[1] \in Partitions
    BY DEF Messages
  <2>2. CASE m[2] < committed[m[1]]
    BY <2>2 DEF IInv, OnlyGivenUpIsLost, Settled
  <2>3. CASE ~(m[2] < committed[m[1]])
    <3>1. owner[m[1]] = c /\ m[2] < position[m[1]]
      BY <1>4, <2>1, <2>3 DEF IInv, TypeOK
    <3> QED
      BY <1>1, <3>1 DEF IInv, PolledIsSettled
  <2> QED
    BY <2>2, <2>3
<1>8. OneRowPerDocument'
  BY <1>1, <1>2 DEF IInv, OneRowPerDocument
<1> QED
  BY <1>5, <1>6, <1>7, <1>8 DEF IInv

(* Starting a consumer touches nothing that the invariant speaks of.       *)
LEMMA StartIInv == ASSUME IInv, NEW c \in Consumers, Start(c) PROVE IInv'
<1> USE DEF Start, group, bounds
<1>1. Messages' = Messages /\ \A m : ExternalId(m)' = ExternalId(m)
  BY SameMessages
<1>2. TypeOK'
  BY <1>1 DEF IInv, TypeOK, PC
<1>3. \A m : Settled(m)' <=> Settled(m)
  BY <1>1 DEF Settled, HasRow
<1>4. PolledIsSettled'
  BY <1>1, <1>3 DEF IInv, TypeOK, PolledIsSettled
<1>5. OnlyGivenUpIsLost'
  BY <1>1, <1>3 DEF IInv, OnlyGivenUpIsLost, Settled
<1>6. OneRowPerDocument'
  BY <1>1 DEF IInv, OneRowPerDocument
<1> QED
  BY <1>2, <1>4, <1>5, <1>6 DEF IInv

LEMMA StutterIInv == IInv /\ UNCHANGED vars => IInv'
BY DEF vars, IInv, TypeOK, PolledIsSettled, OnlyGivenUpIsLost, OneRowPerDocument,
       Settled, HasRow, ExternalId, Payload, Messages

LEMMA NextIInv == IInv /\ [Next]_vars => IInv'
<1> SUFFICES ASSUME IInv, [Next]_vars PROVE IInv'
  OBVIOUS
<1>1. ASSUME NEW p \in Partitions, NEW payload \in Payloads, Produce(p, payload) PROVE IInv'
  BY <1>1, ProduceIInv
<1>2. CASE Assign
  <2>1. PICK a \in [Partitions -> Members] : Reassign(a)
    BY <1>2 DEF Assign
  <2>2. rebalances' \in 0..MaxRebalances
    BY <1>2 DEF Assign, IInv, TypeOK
  <2> QED
    BY <2>1, <2>2, ReassignIInv
<1>3. CASE Rebalance
  <2>1. PICK a \in [Partitions -> Members] : Reassign(a)
    BY <1>3 DEF Rebalance
  <2>2. rebalances' \in 0..MaxRebalances
    BY <1>3, DocumentConsumerAssumption DEF Rebalance, IInv, TypeOK
  <2> QED
    BY <2>1, <2>2, ReassignIInv
<1>4. ASSUME NEW c \in Consumers, Start(c) PROVE IInv'
  BY <1>4, StartIInv
<1>5. ASSUME NEW c \in Consumers, Crash(c) PROVE IInv'
  BY <1>5, CrashIInv
<1>6. ASSUME NEW c \in Consumers, NEW to \in [Partitions -> 0..MaxMessages], GetMany(c, to)
      PROVE  IInv'
  BY <1>6, GetManyIInv
<1>7. ASSUME NEW c \in Consumers, PersistBatch(c) PROVE IInv'
  BY <1>7, PersistBatchIInv
<1>8. ASSUME NEW c \in Consumers, RejectBatch(c) \/ PersistFails(c) PROVE IInv'
  BY <1>8, GiveUpIInv DEF RejectBatch, PersistFails
<1>9. ASSUME NEW c \in Consumers, CommitOffsets(c) \/ CommitFails(c) PROVE IInv'
  BY <1>9, EndOfBatchIInv
<1>10. CASE UNCHANGED vars
  BY <1>10, StutterIInv
<1> QED
  BY <1>1, <1>2, <1>3, <1>4, <1>5, <1>6, <1>7, <1>8, <1>9, <1>10
     DEF Next, ReliableNext, Advance, PollNothing

-----------------------------------------------------------------------------
(* The invariant of the consumers.                                         *)
THEOREM Invariance == Spec => []IInv
BY InitIInv, NextIInv, PTL DEF Spec

(* The group's bookkeeping is as aiokafka keeps it: a position is between  *)
(* the committed offset and the end of the partition (run).                *)
THEOREM TypeCorrect == Spec => []TypeOK
BY Invariance, PTL DEF IInv

(* A committed offset covers only stored messages and batches that the     *)
(* handler of run gave up, whatever crashes and rebalances happen.         *)
THEOREM NothingElseIsLost == Spec => []OnlyGivenUpIsLost
BY Invariance, PTL DEF IInv

(* A message that is delivered again adds no second row, because           *)
(* bulk_insert_pending ignores conflicts with uq_document_external.        *)
THEOREM Idempotence == Spec => []OneRowPerDocument
BY Invariance, PTL DEF IInv

(* commit() never takes an offset of the group back, not even when it is   *)
(* called by a consumer that has lost its partitions.                      *)
THEOREM OffsetsAdvance == Spec => CommittedGrows
<1> DEFINE Grows == \A p \in Partitions : committed[p] <= committed'[p]
<1>1. IInv /\ [Next]_vars => [Grows]_vars
  <2> SUFFICES ASSUME IInv, Next, NEW p \in Partitions PROVE committed[p] <= committed'[p]
    OBVIOUS
  <2>1. committed[p] \in Nat /\ position[p] \in Nat /\ committed[p] <= position[p]
    BY DocumentConsumerAssumption DEF IInv, TypeOK
  <2>2. ASSUME NEW c \in Consumers, CommitOffsets(c) PROVE committed[p] <= committed'[p]
    BY <2>1, <2>2 DEF CommitOffsets
  <2>3. CASE UNCHANGED committed
    BY <2>1, <2>3
  <2> QED
    BY <2>2, <2>3
       DEF Next, ReliableNext, Advance, Produce, Start, Crash, Assign, Rebalance,
           Reassign, PollNothing, GetMany, PersistBatch, RejectBatch, PersistFails,
           GiveUp, CommitFails, group, vars
<1> HIDE DEF Grows
<1>2. Spec => [][Grows]_vars
  BY Invariance, <1>1, PTL DEF Spec
<1> QED
  BY <1>2 DEF Grows, CommittedGrows

-----------------------------------------------------------------------------
(* When the database does not fail and every message is as                 *)
(* produce_documents.py writes it, nothing is given up and every           *)
(* acknowledged message is in the table ("persists documents").            *)
THEOREM NothingIsLost ==
    ASSUME Payloads \subseteq Documents
    PROVE  ReliableSpec => []CommittedIsKept
<1> DEFINE NothingDropped == dropped = {}
<1>1. Init => NothingDropped
  BY DEF Init
<1>2. IInv /\ NothingDropped /\ [ReliableNext]_vars => NothingDropped'
  <2> SUFFICES ASSUME IInv, dropped = {}, [ReliableNext]_vars PROVE dropped' = {}
    OBVIOUS
  <2>1. ASSUME NEW c \in Consumers, NEW m \in batch[c] PROVE Payload(m) # Malformed
    <3>1. m[1] \in Partitions /\ m[2] \in Nat /\ m[2] < Len(log[m[1]]) /\ log[m[1]] \in Seq(Payloads)
      BY <2>1, DocumentConsumerAssumption DEF IInv, TypeOK, Messages
    <3>2. log[m[1]][m[2] + 1] \in Payloads
      BY <3>1
    <3> QED
      BY <3>2, DocumentConsumerAssumption DEF Payload
  <2>2. ASSUME NEW c \in Consumers PROVE ~RejectBatch(c)
    BY <2>1 DEF RejectBatch
  <2> QED
    BY <2>2 DEF ReliableNext, Advance, Produce, Start, Crash, Assign, Rebalance,
                Reassign, PollNothing, GetMany, PersistBatch, CommitOffsets,
                CommitFails, vars
<1>3. IInv /\ NothingDropped => CommittedIsKept
  <2> SUFFICES ASSUME IInv, dropped = {}, NEW m \in Messages, m[2] < committed[m[1]]
               PROVE  IsKept(m)
    BY DEF CommittedIsKept
  <2>1. \A n \in Messages : Payload(n) \in Documents /\ Payload(n) # NoId
    <3> TAKE n \in Messages
    <3>1. n[1] \in Partitions /\ n[2] \in Nat /\ n[2] < Len(log[n[1]]) /\ log[n[1]] \in Seq(Payloads)
      BY DocumentConsumerAssumption DEF IInv, TypeOK, Messages
    <3>2. log[n[1]][n[2] + 1] \in Payloads
      BY <3>1
    <3> QED
      BY <3>2, DocumentConsumerAssumption DEF Payload
  <2>2. PICK s \in rows : ExternalId(s) = ExternalId(m)
    BY DEF IInv, OnlyGivenUpIsLost, HasRow
  <2>3. s \in Messages
    BY DEF IInv, TypeOK
  <2> QED
    BY <2>1, <2>2, <2>3 DEF ExternalId, IsKept
<1> HIDE DEF NothingDropped
<1>4. ReliableSpec => Spec
  <2>1. [ReliableNext]_vars => [Next]_vars
    BY DEF Next
  <2> QED
    BY <2>1, PTL DEF ReliableSpec, Spec
<1> QED
  BY Invariance, <1>1, <1>2, <1>3, <1>4, PTL DEF ReliableSpec
=============================================================================
