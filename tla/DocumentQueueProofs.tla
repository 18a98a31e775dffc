------------------------ MODULE DocumentQueueProofs ------------------------
(***************************************************************************)
(* What DocumentQueue promises, for any number of documents, operators and *)
(* events.  The promise about outbox and documents is inductive only       *)
(* together with the types and with the fact that a row in a final state   *)
(* or in progress has an operator, which Held adds.                        *)
(***************************************************************************)
EXTENDS DocumentQueue, TLAPS

-----------------------------------------------------------------------------
(* The operators of DocumentModel: the types of what they return, and what *)
(* each of them does to the life of a row.                                 *)

(* Every operator that builds a row builds one (models/document.py).       *)
LEMMA RowTypes ==
    /\ Absent \in Row
    /\ \A t \in Nat : PendingRow(t) \in Row
    /\ \A row \in Row, o \in Operators : ClaimedRow(row, o) \in Row
    /\ \A row \in Row, a \in DocumentStatus, reason \in BOOLEAN :
          DecidedRow(row, a, reason) \in Row
BY DEF Absent, PendingRow, ClaimedRow, DecidedRow, Row, DocumentStatus

(* INSERT ... ON CONFLICT DO NOTHING yields a table of rows.               *)
LEMMA InsertPendingType ==
    ASSUME NEW rows \in [Documents -> Row], NEW batch, NEW t \in Nat
    PROVE  InsertPending(rows, batch, t) \in [Documents -> Row]
BY RowTypes DEF InsertPending

(* The insert leaves every row of the table alone, and makes absent        *)
(* documents pending or nothing (bulk_insert_pending).                     *)
LEMMA InsertPendingRow ==
    ASSUME NEW rows \in [Documents -> Row], NEW batch, NEW t,
           NEW d \in Documents
    PROVE  \/ InsertPending(rows, batch, t)[d] = rows[d]
           \/ /\ rows[d].status = "absent"
              /\ InsertPending(rows, batch, t)[d] = PendingRow(t)
BY DEF InsertPending

(* A claim changes the status and the operator and nothing else.           *)
LEMMA ClaimedRowFields ==
    ASSUME NEW row \in Row, NEW o \in Operators
    PROVE  /\ ClaimedRow(row, o).status = "in_progress"
           /\ ClaimedRow(row, o).assigned_to_id = o
           /\ ClaimedRow(row, o).created_at = row.created_at
           /\ ClaimedRow(row, o).rejection_reason = row.rejection_reason
BY DEF ClaimedRow, Row

(* A decision changes the status, sometimes the reason, and nothing else.  *)
LEMMA DecidedRowFields ==
    ASSUME NEW row \in Row, NEW a, NEW reason
    PROVE  /\ DecidedRow(row, a, reason).status = a
           /\ DecidedRow(row, a, reason).assigned_to_id = row.assigned_to_id
           /\ DecidedRow(row, a, reason).created_at = row.created_at
BY DEF DecidedRow, Row

(* The message of a row that its operator has decided is well formed: a    *)
(* final status and the operator's name (_build_output_message).           *)
LEMMA OutputMessageType ==
    ASSUME NEW d \in Documents, NEW row \in Row,
           row.status \in FinalStatus, row.assigned_to_id \in Operators
    PROVE  OutputMessage(d, row) \in Message
BY DEF OutputMessage, Message, Row

-----------------------------------------------------------------------------
(* The promise.                                                            *)

\* A document that is in somebody's hands, or was decided, has an operator.
Held == \A d \in Documents :
    documents[d].status \in {"in_progress"} \cup FinalStatus =>
        documents[d].assigned_to_id \in Operators

IInv == TypeOK /\ Held /\ OutboxMatchesDocuments

LEMMA InitIInv == Init => IInv
<1> SUFFICES ASSUME Init PROVE IInv
  OBVIOUS
<1>1. TypeOK
  BY RowTypes DEF Init, TypeOK
<1>2. \A d \in Documents : documents[d].status = "absent"
  BY DEF Init, Absent
<1>3. Held
  BY <1>2 DEF Held, FinalStatus
<1>4. OutboxMatchesDocuments
  BY <1>2 DEF OutboxMatchesDocuments, Init, FinalStatus
<1> QED
  BY <1>1, <1>3, <1>4 DEF IInv

(* A batch of the consumer preserves the invariant.                        *)
LEMMA InsertIInv ==
    ASSUME IInv, NEW batch \in SUBSET Documents, NEW t \in CreatedAt,
           Insert(batch, t)
    PROVE  IInv'
<1> USE DEF IInv
<1>1. t \in Nat
  BY DocumentModelAssumption
<1>2. TypeOK'
  BY <1>1, InsertPendingType DEF TypeOK, Insert
<1>3. \A d \in Documents :
         \/ documents'[d] = documents[d]
         \/ documents[d].status = "absent" /\ documents'[d].status = "pending"
  <2> TAKE d \in Documents
  <2>1. PendingRow(t).status = "pending"
    BY DEF PendingRow, Absent
  <2> QED
    BY <2>1, InsertPendingRow DEF TypeOK, Insert
<1>4. Held'
  BY <1>3 DEF Held, FinalStatus
<1>5. OutboxMatchesDocuments'
  <2>1. outbox' = outbox /\ \A e \in outbox : e.aggregate_id \in Documents
    BY DEF Insert, TypeOK, OutboxEvent
  <2>2. \A e \in outbox : documents'[e.aggregate_id] = documents[e.aggregate_id]
    BY <1>3, <2>1 DEF OutboxMatchesDocuments, FinalStatus
  <2>3. \A d \in Documents : documents'[d].status \in FinalStatus
                               => documents'[d] = documents[d]
    BY <1>3 DEF FinalStatus
  <2> QED
    BY <2>1, <2>2, <2>3 DEF OutboxMatchesDocuments
<1> QED
  BY <1>2, <1>4, <1>5

(* A claim preserves the invariant: no event speaks of a pending document. *)
LEMMA ClaimIInv ==
    ASSUME IInv, NEW o \in Operators, NEW d \in Documents, Claim(o, d)
    PROVE  IInv'
<1> USE DEF IInv
<1>1. documents' = [documents EXCEPT ![d] = ClaimedRow(documents[d], o)]
  BY DEF Claim
<1>2. documents[d] \in Row /\ documents[d].status = "pending"
  BY DEF Claim, TypeOK
<1>3. /\ ClaimedRow(documents[d], o) \in Row
      /\ ClaimedRow(documents[d], o).status = "in_progress"
      /\ ClaimedRow(documents[d], o).assigned_to_id = o
  BY <1>2, RowTypes, ClaimedRowFields
<1>4. TypeOK'
  BY <1>1, <1>3 DEF TypeOK, Claim
<1>5. /\ documents'[d].status = "in_progress"
      /\ documents'[d].assigned_to_id = o
      /\ \A x \in Documents \ {d} : documents'[x] = documents[x]
  BY <1>1, <1>3 DEF TypeOK
<1>6. Held'
  BY <1>5 DEF Held
<1>7. OutboxMatchesDocuments'
  <2>1. outbox' = outbox /\ \A e \in outbox : e.aggregate_id \in Documents
    BY DEF Claim, TypeOK, OutboxEvent
  <2>2. \A e \in outbox : e.aggregate_id # d
    BY <1>2 DEF OutboxMatchesDocuments, FinalStatus
  <2>3. documents'[d].status \notin FinalStatus
    BY <1>5 DEF FinalStatus
  <2> QED
    BY <1>5, <2>1, <2>2, <2>3 DEF OutboxMatchesDocuments
<1> QED
  BY <1>4, <1>6, <1>7

(* A decision preserves the invariant: it stores the final row and the one *)
(* event that reports it.                                                  *)
LEMMA DecideIInv ==
    ASSUME IInv, NEW o \in Operators, NEW d \in Documents,
           NEW a \in DocumentStatus, NEW reason \in BOOLEAN, NEW id \in EventIds,
           Decide(o, d, a, reason, id)
    PROVE  IInv'
<1> USE DEF IInv
<1> DEFINE row   == DecidedRow(documents[d], a, reason)
           event == [ id |-> id, aggregate_id |-> d,
                      payload |-> OutputMessage(d, row) ]
<1>1. /\ documents' = [documents EXCEPT ![d] = row]
      /\ outbox' = outbox \cup {event}
  BY DEF Decide
<1>2. /\ documents[d] \in Row
      /\ documents[d].status = "in_progress"
      /\ documents[d].assigned_to_id = o
      /\ a \in FinalStatus
  BY DEF Decide, TypeOK, DecidableBy, ValidDecision
<1>3. row \in Row
  BY <1>2, RowTypes
<1>4. row.status \in FinalStatus /\ row.assigned_to_id = o
  BY <1>2, DecidedRowFields
<1>5. event \in OutboxEvent(EventIds)
  BY <1>3, <1>4, OutputMessageType DEF OutboxEvent
<1> HIDE DEF row
<1>6. TypeOK'
  BY <1>1, <1>3, <1>5 DEF TypeOK
<1>7. documents'[d] = row /\ \A x \in Documents \ {d} : documents'[x] = documents[x]
  BY <1>1 DEF TypeOK
<1>8. Held'
  BY <1>4, <1>7 DEF Held
<1>9. OutboxMatchesDocuments'
  <2>1. \A e \in outbox : e.aggregate_id \in Documents \ {d}
    BY <1>2 DEF OutboxMatchesDocuments, FinalStatus, TypeOK, OutboxEvent
  <2>2. event.aggregate_id = d /\ event.payload = OutputMessage(d, documents'[d])
    BY <1>7
  <2> HIDE DEF event
  <2>3. \A e \in outbox' :
           /\ documents'[e.aggregate_id].status \in FinalStatus
           /\ e.payload = OutputMessage(e.aggregate_id, documents'[e.aggregate_id])
    BY <1>1, <1>4, <1>7, <2>1, <2>2 DEF OutboxMatchesDocuments
  <2>4. \A x \in Documents : documents'[x].status \in FinalStatus =>
           \E e \in outbox' : e.aggregate_id = x
    BY <1>1, <1>7, <2>2 DEF OutboxMatchesDocuments
  <2>5. \A e1, e2 \in outbox' : e1.aggregate_id = e2.aggregate_id => e1 = e2
    BY <1>1, <2>1, <2>2 DEF OutboxMatchesDocuments
  <2> QED
    BY <2>3, <2>4, <2>5 DEF OutboxMatchesDocuments
<1> QED
  BY <1>6, <1>8, <1>9

LEMMA NextIInv == IInv /\ [Next]_vars => IInv'
<1> SUFFICES ASSUME IInv, [Next]_vars PROVE IInv'
  OBVIOUS
<1>1. CASE UNCHANGED vars
  BY <1>1 DEF IInv, TypeOK, Held, OutboxMatchesDocuments, vars
<1>2. CASE \E batch \in SUBSET Documents, t \in CreatedAt : Insert(batch, t)
  BY <1>2, InsertIInv
<1>3. CASE \E o \in Operators, d \in Documents : Claim(o, d)
  BY <1>3, ClaimIInv
<1>4. CASE \E o \in Operators, d \in Documents, a \in DocumentStatus,
              reason \in BOOLEAN, id \in EventIds : Decide(o, d, a, reason, id)
  BY <1>4, DecideIInv
<1> QED
  BY <1>1, <1>2, <1>3, <1>4 DEF Next

(* The inductive invariant holds throughout every execution.               *)
THEOREM Invariance == Spec => []IInv
BY InitIInv, NextIInv, PTL DEF Spec

(* The tables hold rows and events of the declared shape; in particular    *)
(* every message in the outbox carries a final status and an operator.     *)
THEOREM TypeCorrect == Spec => []TypeOK
<1>1. IInv => TypeOK
  BY DEF IInv
<1> QED
  BY Invariance, <1>1, PTL

(* Decisions and outbox events correspond one to one, and an event says    *)
(* what the row says (DocumentService.make_decision).                      *)
THEOREM OutboxCorrect == Spec => []OutboxMatchesDocuments
<1>1. IInv => OutboxMatchesDocuments
  BY DEF IInv
<1> QED
  BY Invariance, <1>1, PTL

(* No step takes a document back: the insert finds it absent, the claim    *)
(* pending, the decision in progress under the operator who decides.       *)
LEMMA Moves ==
    ASSUME IInv, Next
    PROVE  \A d \in Documents : Forward(documents[d], documents'[d])
<1> SUFFICES ASSUME NEW x \in Documents
             PROVE  Forward(documents[x], documents'[x])
  OBVIOUS
<1> USE DEF IInv
<1>0. documents[x] \in Row
  BY DEF TypeOK
<1>1. ASSUME NEW batch \in SUBSET Documents, NEW t \in CreatedAt, Insert(batch, t)
      PROVE  Forward(documents[x], documents'[x])
  <2>1. PendingRow(t).status = "pending"
    BY DEF PendingRow, Absent
  <2> QED
    BY <1>1, <2>1, InsertPendingRow DEF TypeOK, Insert, Forward
<1>2. ASSUME NEW o \in Operators, NEW d \in Documents, Claim(o, d)
      PROVE  Forward(documents[x], documents'[x])
  <2>1. CASE x = d
    <3>1. documents[x].status = "pending" /\ documents'[x] = ClaimedRow(documents[x], o)
      BY <1>2, <2>1 DEF Claim, TypeOK
    <3> QED
      BY <1>0, <3>1, ClaimedRowFields DEF Forward
  <2>2. CASE x # d
    BY <1>2, <2>2 DEF Claim, TypeOK, Forward
  <2> QED
    BY <2>1, <2>2
<1>3. ASSUME NEW o \in Operators, NEW d \in Documents, NEW a \in DocumentStatus,
             NEW reason \in BOOLEAN, NEW id \in EventIds,
             Decide(o, d, a, reason, id)
      PROVE  Forward(documents[x], documents'[x])
  <2>1. CASE x = d
    <3>1. /\ documents[x].status = "in_progress"
          /\ a \in FinalStatus
          /\ documents'[x] = DecidedRow(documents[x], a, reason)
      BY <1>3, <2>1 DEF Decide, DecidableBy, ValidDecision, TypeOK
    <3> QED
      BY <1>0, <3>1, DecidedRowFields DEF Forward
  <2>2. CASE x # d
    BY <1>3, <2>2 DEF Decide, TypeOK, Forward
  <2> QED
    BY <2>1, <2>2
<1> QED
  BY <1>1, <1>2, <1>3 DEF Next

(* A document is queued, claimed and decided in that order, by one         *)
(* operator, and a decision is final.                                      *)
THEOREM LifeCycle == Spec => DocumentsMoveForward
<1> DEFINE Step == \A d \in Documents : Forward(documents[d], documents'[d])
<1>1. IInv /\ [Next]_vars => [Step]_vars
  <2> SUFFICES ASSUME IInv, Next PROVE Step
    OBVIOUS
  <2> QED
    BY Moves
<1> HIDE DEF Step
<1>2. Spec => [][Step]_vars
  BY Invariance, <1>1, PTL DEF Spec
<1> QED
  BY <1>2 DEF Step, DocumentsMoveForward
============================================================================
