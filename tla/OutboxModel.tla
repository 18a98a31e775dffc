---------------------------- MODULE OutboxModel ----------------------------
(***************************************************************************)
(* The delivery side of the table "outbox_events": the columns that the    *)
(* relay reads and writes.  What an event says is DocumentModel's matter;  *)
(* here an event is only a name.                                           *)
(***************************************************************************)
EXTENDS Naturals

CONSTANTS
    Events,       \* the events that decisions may leave in the outbox
    EventTimes,   \* the timestamps that now() may give them
    MaxRetries    \* failed attempts before an event is given up: 5

ASSUME OutboxModelAssumption ==
    /\ EventTimes \subseteq Nat
    /\ MaxRetries \in Nat \ {0}

\* OutboxStatus, and an event that is not in the table yet.
EventStatus == {"absent", "pending", "published", "failed"}

EventRow == [ status : EventStatus, created_at : Nat, retry_count : 0..MaxRetries ]

AbsentEvent == [ status |-> "absent", created_at |-> 0, retry_count |-> 0 ]

\* The row that create_event adds, with the column defaults.
PendingEvent(t) == [AbsentEvent EXCEPT !.status = "pending", !.created_at = t]

\* What mark_published assigns (published_at goes with the status).
Published(row) == [row EXCEPT !.status = "published"]

\* Mutant of Retried: the limit is tested before the increment.
RetriedOnceMore(row) ==
    [row EXCEPT !.retry_count = @ + 1,
                !.status = IF row.retry_count >= MaxRetries THEN "failed" ELSE @]

\* Mutant of Retried: the increment is forgotten.
RetriedUncounted(row) == row

\* What mark_failed assigns: the attempt is counted, and the last one that is
\* allowed gives the event up.
Retried(row) ==
    [row EXCEPT !.retry_count = @ + 1,
                !.status = IF row.retry_count + 1 >= MaxRetries THEN "failed" ELSE @]
============================================================================
