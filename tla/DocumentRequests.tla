-------------------------- MODULE DocumentRequests --------------------------
(***************************************************************************)
(* The two endpoints that change documents, POST /documents/claim and      *)
(* POST /documents/{id}/decision, as the database sees them: one READ      *)
(* COMMITTED transaction per request (get_db_session), many requests at a  *)
(* time in four uvicorn workers, and the consumer inserting meanwhile.     *)
(*                                                                         *)
(* Three things decide what can go wrong and are steps of their own here:  *)
(*                                                                         *)
(*   - SELECT ... FOR UPDATE SKIP LOCKED reads a snapshot, then visits the *)
(*     rows in order one by one: a row that another transaction has locked *)
(*     is passed over, a row that can be locked is read again as it is now *)
(*     and passed over (but kept locked) if it is no longer pending;       *)
(*   - SELECT ... FOR UPDATE finds its row in a snapshot, waits for the    *)
(*     lock, and looks at the row again before it returns it;              *)
(*   - the session is committed by the code after "yield" in               *)
(*     get_db_session, and FastAPI (0.138.1 in requirements.txt) runs that *)
(*     code after the response has been sent.                              *)
(*                                                                         *)
(* A request is one-shot; a retry is another request.                      *)
(***************************************************************************)
EXTENDS DocumentModel

CONSTANTS
    Requests,    \* the HTTP requests; each also names its transaction
    NoRequest,   \* nobody holds the row lock
    NoDocument   \* no document (yet)

ASSUME DocumentRequestsAssumption ==
    /\ NoRequest \notin Requests
    /\ NoDocument \notin Documents

VARIABLES
    documents,   \* committed rows of the table "documents"
    outbox,      \* committed rows of the table "outbox_events"
    locked_by,   \* the transaction that holds the lock of a document's row
    pc,          \* where a request is
    request,     \* what it asks for, fixed when it is submitted
    snapshot,    \* claim: the pending rows its SELECT saw
    scanned,     \* claim: those of them that the SELECT has dealt with
    target,      \* the document loaded into the request's session
    dirty,       \* that document as the handler left it, not yet committed
    added,       \* events added to the session, not yet committed
    reply        \* the response's status code

tables   == <<documents, outbox>>
session  == <<target, dirty, added>>
vars     == <<documents, outbox, locked_by, pc, request, snapshot, scanned,
              target, dirty, added, reply>>

\* "selecting" and "waiting" are inside the SELECT of a claim and of a
\* decision; "handled" has run the handler and not answered; "answered" has
\* answered and not committed; the transaction of a "failed" one was rolled
\* back for a reason that the code has no part in.
Selecting == {"selecting", "waiting"}
Writing   == {"handled", "answered"}
Active    == Selecting \cup Writing
PC        == Active \cup {"idle", "done", "failed"}

ClaimRequest ==
    [ kind : {"claim"}, operator : Operators ]
DecisionRequest ==
    [ kind : {"decision"}, operator : Operators, document : Documents,
      action : DocumentStatus, reason : BOOLEAN ]
NotSubmitted == [kind |-> "none"]

Reply == {"none", "200", "404", "422", "500"}

TypeOK ==
    /\ documents \in [Documents -> Row]
    /\ outbox    \subseteq OutboxEvent(Requests)
    /\ locked_by \in [Documents -> Requests \cup {NoRequest}]
    /\ pc        \in [Requests -> PC]
    /\ request   \in [Requests -> ClaimRequest \cup DecisionRequest \cup {NotSubmitted}]
    /\ snapshot  \in [Requests -> SUBSET Documents]
    /\ scanned   \in [Requests -> SUBSET Documents]
    /\ target    \in [Requests -> Documents \cup {NoDocument}]
    /\ dirty     \in [Requests -> Row]
    /\ added     \in [Requests -> SUBSET OutboxEvent(Requests)]
    /\ reply     \in [Requests -> Reply]

Init ==
    /\ documents = [d \in Documents |-> Absent]
    /\ outbox    = {}
    /\ locked_by = [d \in Documents |-> NoRequest]
    /\ pc        = [r \in Requests |-> "idle"]
    /\ request   = [r \in Requests |-> NotSubmitted]
    /\ snapshot  = [r \in Requests |-> {}]
    /\ scanned   = [r \in Requests |-> {}]
    /\ target    = [r \in Requests |-> NoDocument]
    /\ dirty     = [r \in Requests |-> Absent]
    /\ added     = [r \in Requests |-> {}]
    /\ reply     = [r \in Requests |-> "none"]

-----------------------------------------------------------------------------
(* The database.                                                           *)

\* The locks as they are once the transaction of r has ended.
Released(r) ==
    [d \in Documents |-> IF locked_by[d] = r THEN NoRequest ELSE locked_by[d]]

\* Mutant of Rollback: the session is left open, its locks stay.
RollbackForgotten(r, end, code) ==
    /\ pc' = [pc EXCEPT ![r] = end]
    /\ reply' = [reply EXCEPT ![r] = code]
    /\ UNCHANGED <<documents, outbox, locked_by>>

\* The transaction of r ends without a trace and the client is told so.
Rollback(r, end, code) ==
    /\ locked_by' = Released(r)
    /\ pc' = [pc EXCEPT ![r] = end]
    /\ reply' = [reply EXCEPT ![r] = code]
    /\ UNCHANGED <<documents, outbox>>

Pending(rows) == {d \in Documents : rows[d].status = "pending"}

\* Mutant of NextInOrder: no ORDER BY.
NextInAnyOrder(r) == snapshot[r] \ scanned[r]

\* The rows of a claim's SELECT that come next: ORDER BY created_at leaves
\* the order of equal timestamps open.
NextInOrder(r) ==
    LET left == snapshot[r] \ scanned[r] IN
    {d \in left : \A other \in left :
        documents[d].created_at <= documents[other].created_at}

-----------------------------------------------------------------------------
(* The consumer stores a batch (DocumentRepository.bulk_insert_pending):   *)
(* the only way documents come in, and one that Kafka may repeat.          *)
BulkInsertPending(batch, t) ==
    /\ documents' = InsertPending(documents, batch, t)
    /\ UNCHANGED <<outbox, locked_by, pc, request, snapshot, scanned, session,
                   reply>>

(* POST /documents/claim.                                                  *)

\* claim_next up to the snapshot of find_next_pending's SELECT.
ClaimDocument(r, operator) ==
    /\ pc[r] = "idle"
    /\ request' = [request EXCEPT ![r] = [kind |-> "claim", operator |-> operator]]
    /\ snapshot' = [snapshot EXCEPT ![r] = Pending(documents)]
    /\ pc' = [pc EXCEPT ![r] = "selecting"]
    /\ UNCHANGED <<tables, locked_by, scanned, session, reply>>

\* SKIP LOCKED: the next row is locked by another transaction.
SkipLockedRow(r, d) ==
    /\ pc[r] = "selecting"
    /\ d \in NextInOrder(r)
    /\ locked_by[d] # NoRequest
    /\ scanned' = [scanned EXCEPT ![r] = @ \cup {d}]
    /\ UNCHANGED <<tables, locked_by, pc, request, snapshot, session, reply>>

\* The next row was free but has been claimed since the snapshot: it is not
\* returned, and stays locked until the transaction ends.
SkipClaimedRow(r, d) ==
    /\ pc[r] = "selecting"
    /\ d \in NextInOrder(r)
    /\ locked_by[d] = NoRequest
    /\ documents[d].status # "pending"
    /\ locked_by' = [locked_by EXCEPT ![d] = r]
    /\ scanned' = [scanned EXCEPT ![r] = @ \cup {d}]
    /\ UNCHANGED <<tables, pc, request, snapshot, session, reply>>

\* Mutant of TakeRow: the SELECT without FOR UPDATE takes no lock.
TakeRowUnlocked(r, d) ==
    /\ pc[r] = "selecting"
    /\ d \in NextInOrder(r)
    /\ documents[d].status = "pending"
    /\ scanned' = [scanned EXCEPT ![r] = @ \cup {d}]
    /\ target' = [target EXCEPT ![r] = d]
    /\ dirty' = [dirty EXCEPT ![r] = ClaimedRow(documents[d], request[r].operator)]
    /\ pc' = [pc EXCEPT ![r] = "handled"]
    /\ UNCHANGED <<tables, locked_by, request, snapshot, added, reply>>

\* The next row is free and still pending: LIMIT 1 returns it, and claim_next
\* assigns it to the operator, in the session.
TakeRow(r, d) ==
    /\ pc[r] = "selecting"
    /\ d \in NextInOrder(r)
    /\ locked_by[d] = NoRequest
    /\ documents[d].status = "pending"
    /\ locked_by' = [locked_by EXCEPT ![d] = r]
    /\ scanned' = [scanned EXCEPT ![r] = @ \cup {d}]
    /\ target' = [target EXCEPT ![r] = d]
    /\ dirty' = [dirty EXCEPT ![r] = ClaimedRow(documents[d], request[r].operator)]
    /\ pc' = [pc EXCEPT ![r] = "handled"]
    /\ UNCHANGED <<tables, request, snapshot, added, reply>>

\* Mutant of EmptyQueue: LIMIT 1 applied before the lock, so that the query
\* gives up after one row.
EmptyQueueAfterOne(r) ==
    /\ pc[r] = "selecting"
    /\ snapshot[r] = {} \/ scanned[r] # {}
    /\ Rollback(r, "done", "404")
    /\ UNCHANGED <<request, snapshot, scanned, session>>

\* No row is left: EmptyQueueError, which becomes a 404.
EmptyQueue(r) ==
    /\ pc[r] = "selecting"
    /\ snapshot[r] \subseteq scanned[r]
    /\ Rollback(r, "done", "404")
    /\ UNCHANGED <<request, snapshot, scanned, session>>

(* POST /documents/{id}/decision.                                          *)

\* The body is checked, then the SELECT of find_in_progress_for_operator
\* looks for its row in a snapshot; without one the answer is a 422 at once.
MakeDecision(r, operator, d, action, reason) ==
    /\ pc[r] = "idle"
    /\ request' = [request EXCEPT ![r] =
          [ kind |-> "decision", operator |-> operator, document |-> d,
            action |-> action, reason |-> reason ]]
    /\ IF ValidDecision(action, reason) /\ DecidableBy(documents[d], operator)
       THEN /\ pc' = [pc EXCEPT ![r] = "waiting"]
            /\ UNCHANGED <<tables, locked_by, reply>>
       ELSE Rollback(r, "done", "422")
    /\ UNCHANGED <<snapshot, scanned, session>>

\* Mutant of LockDecidable: the row is used as the snapshot showed it,
\* without looking at it again under the lock.
LockWithoutRecheck(r) ==
    LET d   == request[r].document
        row == DecidedRow(documents[d], request[r].action, request[r].reason) IN
    /\ pc[r] = "waiting"
    /\ locked_by[d] = NoRequest
    /\ locked_by' = [locked_by EXCEPT ![d] = r]
    /\ target' = [target EXCEPT ![r] = d]
    /\ dirty' = [dirty EXCEPT ![r] = row]
    /\ added' = [added EXCEPT ![r] =
          {[ id |-> r, aggregate_id |-> d, payload |-> OutputMessage(d, row) ]}]
    /\ pc' = [pc EXCEPT ![r] = "handled"]
    /\ UNCHANGED <<tables, request, snapshot, scanned, reply>>

\* Mutant of LockDecidable: the event is written in a transaction of its own.
LockAndPublishAtOnce(r) ==
    LET d   == request[r].document
        row == DecidedRow(documents[d], request[r].action, request[r].reason) IN
    /\ pc[r] = "waiting"
    /\ locked_by[d] = NoRequest
    /\ DecidableBy(documents[d], request[r].operator)
    /\ locked_by' = [locked_by EXCEPT ![d] = r]
    /\ target' = [target EXCEPT ![r] = d]
    /\ dirty' = [dirty EXCEPT ![r] = row]
    /\ outbox' = outbox \cup
          {[ id |-> r, aggregate_id |-> d, payload |-> OutputMessage(d, row) ]}
    /\ pc' = [pc EXCEPT ![r] = "handled"]
    /\ UNCHANGED <<documents, added, request, snapshot, scanned, reply>>

\* Mutant of LockDecidable: the message is built before the row is changed.
LockAndBuildEarly(r) ==
    LET d == request[r].document IN
    /\ pc[r] = "waiting"
    /\ locked_by[d] = NoRequest
    /\ DecidableBy(documents[d], request[r].operator)
    /\ locked_by' = [locked_by EXCEPT ![d] = r]
    /\ target' = [target EXCEPT ![r] = d]
    /\ dirty' = [dirty EXCEPT ![r] =
          DecidedRow(documents[d], request[r].action, request[r].reason)]
    /\ added' = [added EXCEPT ![r] =
          {[ id |-> r, aggregate_id |-> d,
             payload |-> OutputMessage(d, documents[d]) ]}]
    /\ pc' = [pc EXCEPT ![r] = "handled"]
    /\ UNCHANGED <<tables, request, snapshot, scanned, reply>>

\* The lock is granted and the row still qualifies: the decision and its
\* event are put in the session and flushed.
LockDecidable(r) ==
    LET d   == request[r].document
        row == DecidedRow(documents[d], request[r].action, request[r].reason) IN
    /\ pc[r] = "waiting"
    /\ locked_by[d] = NoRequest
    /\ DecidableBy(documents[d], request[r].operator)
    /\ locked_by' = [locked_by EXCEPT ![d] = r]
    /\ target' = [target EXCEPT ![r] = d]
    /\ dirty' = [dirty EXCEPT ![r] = row]
    /\ added' = [added EXCEPT ![r] =
          {[ id |-> r, aggregate_id |-> d, payload |-> OutputMessage(d, row) ]}]
    /\ pc' = [pc EXCEPT ![r] = "handled"]
    /\ UNCHANGED <<tables, request, snapshot, scanned, reply>>

\* The lock is granted but the row was decided while the request waited:
\* InvalidDocumentStateError, which becomes a 422.
LockDecided(r) ==
    /\ pc[r] = "waiting"
    /\ locked_by[request[r].document] = NoRequest
    /\ ~DecidableBy(documents[request[r].document], request[r].operator)
    /\ Rollback(r, "done", "422")
    /\ UNCHANGED <<request, snapshot, scanned, session>>

(* The end of either request.                                              *)

\* The endpoint returns and the response is sent.
Respond(r) ==
    /\ pc[r] = "handled"
    /\ reply' = [reply EXCEPT ![r] = "200"]
    /\ pc' = [pc EXCEPT ![r] = "answered"]
    /\ UNCHANGED <<tables, locked_by, request, snapshot, scanned, session>>

\* get_db_session after "yield": what the session holds becomes durable.
Commit(r) ==
    /\ pc[r] = "answered"
    /\ documents' = [documents EXCEPT ![target[r]] = dirty[r]]
    /\ outbox' = outbox \cup added[r]
    /\ locked_by' = Released(r)
    /\ pc' = [pc EXCEPT ![r] = "done"]
    /\ UNCHANGED <<request, snapshot, scanned, session, reply>>

\* The worker dies, the connection breaks or a statement (the COMMIT too)
\* fails: the database rolls back.  A response that was sent stays sent.
Abort(r) ==
    /\ pc[r] \in Active
    /\ Rollback(r, "failed", IF pc[r] = "answered" THEN reply[r] ELSE "500")
    /\ UNCHANGED <<request, snapshot, scanned, session>>

-----------------------------------------------------------------------------
Submit(r) ==
    \E o \in Operators :
        \/ ClaimDocument(r, o)
        \/ \E d \in Documents, a \in DocumentStatus, reason \in BOOLEAN :
              MakeDecision(r, o, d, a, reason)

\* What the server and the database do for a request that is under way.
Advance(r) ==
    \/ \E d \in Documents :
          SkipLockedRow(r, d) \/ SkipClaimedRow(r, d) \/ TakeRow(r, d)
    \/ EmptyQueue(r)
    \/ LockDecidable(r)
    \/ LockDecided(r)
    \/ Respond(r)
    \/ Commit(r)

Next ==
    \/ \E batch \in SUBSET Documents, t \in CreatedAt : BulkInsertPending(batch, t)
    \/ \E r \in Requests : Submit(r) \/ Advance(r) \/ Abort(r)

Spec == Init /\ [][Next]_vars

-----------------------------------------------------------------------------
(* Properties that hold whatever fails.                                    *)

(* Two requests never have the same document in their sessions, committed  *)
(* or about to be: no double claim, no second decision racing the first    *)
(* (find_next_pending and find_in_progress_for_operator; the property that *)
(* test_skip_locked_prevents_double_claim samples).                        *)
NoDoubleClaim ==
    \A r1, r2 \in Requests :
        /\ pc[r1] \in Writing
        /\ pc[r2] \in Writing
        /\ target[r1] = target[r2]
        => r1 = r2

(* What a session is about to write was computed from the row that it will *)
(* overwrite: a claim from a row still pending, a decision from a row      *)
(* still held by its operator.  No update is lost although the row is read *)
(* long before COMMIT and answered in between.                             *)
NoLostUpdate ==
    \A r \in Requests : pc[r] \in Writing =>
        LET row == documents[target[r]] IN
        \/ /\ request[r].kind = "claim"
           /\ row.status = "pending"
           /\ dirty[r] = ClaimedRow(row, request[r].operator)
        \/ /\ request[r].kind = "decision"
           /\ DecidableBy(row, request[r].operator)
           /\ dirty[r] = DecidedRow(row, request[r].action, request[r].reason)

(* The promise that these transactions implement: seen from outside, every *)
(* claim and every decision is one atomic step on committed rows.          *)
Queue == INSTANCE DocumentQueue WITH EventIds <- Requests

QueueSpec == Queue!Spec

(* The properties of the promise, on the committed tables.                 *)
OutboxMatchesDocuments == Queue!OutboxMatchesDocuments
DocumentsMoveForward   == Queue!DocumentsMoveForward

-----------------------------------------------------------------------------
(* Properties of executions in which no transaction has failed so far.     *)

NoneFailed == \A r \in Requests : pc[r] # "failed"

\* Still in the queue, and no transaction under way will take it out.
LeftInQueue(d) == documents[d].status = "pending" /\ locked_by[d] = NoRequest

(* "Assign the oldest pending document" (claim_next): when a claim has its *)
(* document, no older document that its SELECT saw is left in the queue;   *)
(* whatever SKIP LOCKED passed over is taken by the one who had it locked. *)
OldestFirst ==
    NoneFailed => \A r \in Requests : target[r] # NoDocument =>
        \A d \in snapshot[r] :
            documents[d].created_at < documents[target[r]].created_at
            => ~LeftInQueue(d)

(* "No pending documents in queue" is only said when none of the documents *)
(* that the SELECT saw is left for anybody.                                *)
EmptyQueueIsEmpty ==
    NoneFailed =>
        \A r \in Requests : reply[r] = "404" => \A d \in snapshot[r] : ~LeftInQueue(d)

(* Of several requests for the same thing at most one is told 200: a       *)
(* double-clicked decision succeeds once, and no two claims are answered   *)
(* with the same document.                                                 *)
OneSuccessEach ==
    NoneFailed => \A r1, r2 \in Requests :
        /\ reply[r1] = "200" /\ reply[r2] = "200"
        /\ request[r1].kind = request[r2].kind
        /\ target[r1] = target[r2]
        => r1 = r2

-----------------------------------------------------------------------------
(* What the responses say and the code does not keep.                      *)

\* The response of r promised something that is not in the tables.
Unkept(r) ==
    /\ pc[r] \in {"done", "failed"}
    /\ reply[r] = "200"
    /\ IF request[r].kind = "claim"
       THEN documents[target[r]].assigned_to_id # request[r].operator
       ELSE \A e \in outbox : e.id # r

(* "Document claimed successfully" (ClaimResponse.message) and "Document   *)
(* accepted successfully" (make_decision's endpoint): what a 200 reports   *)
(* is in the database once the request is over.  The commit comes after    *)
(* the response and may fail.                                              *)
SuccessIsDurable == \A r \in Requests : ~Unkept(r)
=============================================================================
