--------------------------- MODULE OutboxDelivery ---------------------------
(***************************************************************************)
(* What the outbox promises, with no trace of relays: an event may reach   *)
(* Kafka more than once but is marked as published only after it has, an   *)
(* event that cannot be sent is given up after MaxRetries attempts, and a  *)
(* settled event is never touched again.  OutboxRelay implements it.       *)
(***************************************************************************)
EXTENDS OutboxModel

VARIABLES
    events,   \* the committed rows of "outbox_events"
    copies    \* how many times the output topic holds the event's message

vars == <<events, copies>>

TypeOK ==
    /\ events \in [Events -> EventRow]
    /\ copies \in [Events -> Nat]

Init ==
    /\ events = [e \in Events |-> AbsentEvent]
    /\ copies = [e \in Events |-> 0]

\* A decision commits with its event.
Store(e, t) ==
    /\ events[e].status = "absent"
    /\ events' = [events EXCEPT ![e] = PendingEvent(t)]
    /\ UNCHANGED copies

\* A message reaches the topic.  The event may be settled by then: its sender
\* may have been cancelled after it had handed the message over.
Deliver(e) ==
    /\ events[e].status # "absent"
    /\ copies' = [copies EXCEPT ![e] = @ + 1]
    /\ UNCHANGED events

\* A batch is over: what was delivered is marked, what was not is counted.
Settle(delivered, refused) ==
    /\ \A e \in delivered \cup refused : events[e].status = "pending"
    /\ \A e \in delivered : copies[e] > 0
    /\ delivered \cap refused = {}
    /\ events' = [e \in Events |->
                    IF e \in delivered THEN Published(events[e])
                    ELSE IF e \in refused THEN Retried(events[e])
                    ELSE events[e]]
    /\ UNCHANGED copies

Next ==
    \/ \E e \in Events, t \in EventTimes : Store(e, t)
    \/ \E e \in Events : Deliver(e)
    \/ \E delivered, refused \in SUBSET Events : Settle(delivered, refused)

Spec == Init /\ [][Next]_vars

-----------------------------------------------------------------------------
(* An event marked as published is in the output topic (mark_published     *)
(* after publish_raw in process_batch).                                    *)
PublishedIsDelivered ==
    \A e \in Events : events[e].status = "published" => copies[e] > 0

(* A settled event never changes again: it is not sent back to the queue,  *)
(* and neither verdict replaces the other.                                 *)
SettledIsFinal ==
    [][\A e \in Events : events[e].status \in {"published", "failed"}
                         => events'[e] = events[e]]_vars
=============================================================================
