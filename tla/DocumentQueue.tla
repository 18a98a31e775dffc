--------------------------- MODULE DocumentQueue ---------------------------
(***************************************************************************)
(* What the service promises about its database, with no trace of how      *)
(* requests run: documents are inserted, each is claimed by one operator,  *)
(* decided once by that operator, and the decision and its outbox event    *)
(* appear together.  DocumentRequests implements this specification with   *)
(* transactions, row locks and responses that precede the commit.          *)
(***************************************************************************)
EXTENDS DocumentModel

CONSTANT EventIds   \* the identities that outbox events may take

VARIABLES
    documents,   \* the committed rows of the table "documents"
    outbox       \* the committed rows of the table "outbox_events"

vars == <<documents, outbox>>

TypeOK ==
    /\ documents \in [Documents -> Row]
    /\ outbox \subseteq OutboxEvent(EventIds)

Init ==
    /\ documents = [d \in Documents |-> Absent]
    /\ outbox = {}

\* A batch of the consumer is stored; a redelivered document is ignored.
Insert(batch, t) ==
    /\ documents' = InsertPending(documents, batch, t)
    /\ UNCHANGED outbox

\* An operator takes a pending document.
Claim(operator, d) ==
    /\ documents[d].status = "pending"
    /\ documents' = [documents EXCEPT ![d] = ClaimedRow(@, operator)]
    /\ UNCHANGED outbox

\* The operator who holds a document decides it; the event that reports the
\* decision is stored with it under an id that no event has yet.
Decide(operator, d, action, reason, id) ==
    LET row == DecidedRow(documents[d], action, reason) IN
    /\ ValidDecision(action, reason)
    /\ DecidableBy(documents[d], operator)
    /\ \A e \in outbox : e.id # id
    /\ documents' = [documents EXCEPT ![d] = row]
    /\ outbox' = outbox \cup {[ id |-> id, aggregate_id |-> d,
                                payload |-> OutputMessage(d, row) ]}

Next ==
    \/ \E batch \in SUBSET Documents, t \in CreatedAt : Insert(batch, t)
    \/ \E o \in Operators, d \in Documents : Claim(o, d)
    \/ \E o \in Operators, d \in Documents, a \in DocumentStatus,
          reason \in BOOLEAN, id \in EventIds : Decide(o, d, a, reason, id)

Spec == Init /\ [][Next]_vars

----------------------------------------------------------------------------
(* Every decision is reported by exactly one outbox event, whose payload   *)
(* is the document's final row, and nothing else is reported: the purpose  *)
(* of writing both in one transaction (models/outbox.py, class             *)
(* OutboxEvent; DocumentService.make_decision).                            *)
OutboxMatchesDocuments ==
    /\ \A e \in outbox :
          /\ documents[e.aggregate_id].status \in FinalStatus
          /\ e.payload = OutputMessage(e.aggregate_id, documents[e.aggregate_id])
    /\ \A d \in Documents : documents[d].status \in FinalStatus =>
          \E e \in outbox : e.aggregate_id = d
    /\ \A e1, e2 \in outbox : e1.aggregate_id = e2.aggregate_id => e1 = e2

(* The life of a document, step by step: it never goes back in the queue   *)
(* (not even when Kafka redelivers it), it is not decided before it was    *)
(* claimed, it keeps its operator from the claim on, and a decided         *)
(* document never changes again.                                           *)
Forward(old, new) ==
    \/ new = old
    \/ old.status = "absent"  /\ new.status = "pending"
    \/ /\ old.status = "pending" /\ new.status = "in_progress"
       /\ new.assigned_to_id \in Operators
       /\ new.created_at = old.created_at
    \/ /\ old.status = "in_progress" /\ new.status \in FinalStatus
       /\ new.assigned_to_id = old.assigned_to_id
       /\ new.created_at = old.created_at

DocumentsMoveForward ==
    [][\A d \in Documents : Forward(documents[d], documents'[d])]_vars
============================================================================
