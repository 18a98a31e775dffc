--------------------------- MODULE DocumentModel ---------------------------
(***************************************************************************)
(* The data that every component works on: the rows of the "documents"     *)
(* table, the body of a decision request and the message that a decision   *)
(* leaves in the outbox.  Nothing here has a state of its own.             *)
(*                                                                         *)
(* Of a row's columns the model keeps those that the code branches on or   *)
(* that the properties compare.  A text (a rejection reason) is reduced to *)
(* whether it is there; assigned_at and decision_at are set by the same    *)
(* assignments as the status and are therefore left out.                   *)
(***************************************************************************)
EXTENDS Naturals

CONSTANTS
    Documents,   \* the documents that may reach the service
    Operators,   \* the users that pass the role check of the two endpoints
    NoOperator,  \* NULL in the column assigned_to_id
    CreatedAt    \* the timestamps that now() may give to an insert

ASSUME DocumentModelAssumption ==
    /\ NoOperator \notin Operators
    /\ CreatedAt \subseteq Nat

----------------------------------------------------------------------------
\* DocumentStatusEnum, and a document that is not in the table yet.
DocumentStatus == {"pending", "in_progress", "accepted", "rejected"}
FinalStatus    == {"accepted", "rejected"}

Row == [ status           : DocumentStatus \cup {"absent"},
         created_at       : Nat,
         assigned_to_id   : Operators \cup {NoOperator},
         rejection_reason : BOOLEAN ]

Absent == [ status |-> "absent", created_at |-> 0,
            assigned_to_id |-> NoOperator, rejection_reason |-> FALSE ]

\* The row that the consumer inserts; created_at is the server default now(),
\* the same for every row of one transaction.
PendingRow(t) == [Absent EXCEPT !.status = "pending", !.created_at = t]

\* Mutant of InsertPending: ON CONFLICT DO UPDATE, a redelivery rewrites the row.
InsertPendingUpserts(rows, batch, t) ==
    [d \in Documents |-> IF d \in batch THEN PendingRow(t) ELSE rows[d]]

\* INSERT ... ON CONFLICT DO NOTHING of a batch: rows that exist stay as
\* they are.
InsertPending(rows, batch, t) ==
    [d \in Documents |-> IF d \in batch /\ rows[d].status = "absent"
                         THEN PendingRow(t) ELSE rows[d]]

\* What claim_next assigns to the row it was given.
ClaimedRow(row, operator) ==
    [row EXCEPT !.status = "in_progress", !.assigned_to_id = operator]

\* The filter of find_in_progress_for_operator.
DecidableBy(row, operator) ==
    /\ row.assigned_to_id = operator
    /\ row.status = "in_progress"

\* DecisionRequest.model_post_init: what the endpoint accepts as a decision.
ValidDecision(action, reason) ==
    /\ action = "rejected" => reason
    /\ action \in FinalStatus

\* What make_decision assigns to the row: the reason is kept only if the
\* document is rejected.
DecidedRow(row, action, reason) ==
    [row EXCEPT !.status = action,
                !.rejection_reason = IF action = "rejected" THEN reason ELSE @]

\* _build_output_message, read from the row after the assignments above.
OutputMessage(d, row) ==
    [ document_id |-> d, status |-> row.status,
      assigned_to_id |-> row.assigned_to_id,
      rejection_reason |-> row.rejection_reason ]

\* The messages a consumer of the output topic may rely on: a final status
\* and the operator who decided.
Message == [ document_id : Documents, status : FinalStatus,
             assigned_to_id : Operators, rejection_reason : BOOLEAN ]

\* A row of "outbox_events"; an id is taken from the set ids.
OutboxEvent(ids) == [ id : ids, aggregate_id : Documents, payload : Message ]
============================================================================
