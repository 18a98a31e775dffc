----------------------- MODULE DocumentRequestsProofs -----------------------
(***************************************************************************)
(* DocumentRequests is correct for any number of documents, operators and  *)
(* requests: no two sessions hold one document, no update is lost, and the *)
(* transactions implement DocumentQueue.                                   *)
(*                                                                         *)
(* NoLostUpdate is not inductive: that the row under a session cannot      *)
(* change follows from who holds its lock.  IInv therefore says, of each   *)
(* request, what it was asked, what its session holds and that it has the  *)
(* lock of what it holds; of each lock, that its holder is alive; and of   *)
(* each event, that the request that wrote it is over.                     *)
(*                                                                         *)
(* Order, empty queues and single success are about what earlier requests  *)
(* saw; QueueInv relates that to the table as it is now.                   *)
(***************************************************************************)
EXTENDS PooledRequests, FiniteSetTheorems, TLAPS

\* The event that the decision r leaves in the session.
EventOf(r) ==
    [ id |-> r, aggregate_id |-> target[r],
      payload |-> OutputMessage(target[r], dirty[r]) ]

\* The session of r holds a claim of its target.
Claiming(r) ==
    /\ request[r] \in ClaimRequest
    /\ documents[target[r]].status = "pending"
    /\ dirty[r] = ClaimedRow(documents[target[r]], request[r].operator)
    /\ added[r] = {}

\* The session of r holds a decision on its target, and the event.
Deciding(r) ==
    /\ request[r] \in DecisionRequest
    /\ ValidDecision(request[r].action, request[r].reason)
    /\ DecidableBy(documents[target[r]], request[r].operator)
    /\ dirty[r] = DecidedRow(documents[target[r]],
                             request[r].action, request[r].reason)
    /\ added[r] = {EventOf(r)}

RequestOK(r) ==
    /\ pc[r] \in {"idle"} \cup Selecting => added[r] = {}
    /\ pc[r] = "selecting" => request[r] \in ClaimRequest
    /\ pc[r] = "waiting" =>
          /\ request[r] \in DecisionRequest
          /\ ValidDecision(request[r].action, request[r].reason)
    /\ pc[r] \in Writing =>
          /\ target[r] \in Documents
          /\ locked_by[target[r]] = r
          /\ Claiming(r) \/ Deciding(r)

HoldersAlive ==
    \A d \in Documents : locked_by[d] # NoRequest =>
        pc[locked_by[d]] \in {"selecting"} \cup Writing

EventsAreOfTheDone == \A e \in outbox : pc[e.id] = "done"

IInv ==
    /\ TypeOK
    /\ \A r \in Requests : RequestOK(r)
    /\ HoldersAlive
    /\ EventsAreOfTheDone

-----------------------------------------------------------------------------
LEMMA InitIInv == Init => IInv
<1> SUFFICES ASSUME Init PROVE IInv
  OBVIOUS
<1>1. TypeOK
  BY DEF Init, TypeOK, PC, Reply, Absent, Row, DocumentStatus
<1>2. \A r \in Requests : RequestOK(r)
  BY DEF Init, RequestOK, Selecting, Writing
<1>3. HoldersAlive /\ EventsAreOfTheDone
  BY DEF Init, HoldersAlive, EventsAreOfTheDone
<1> QED
  BY <1>1, <1>2, <1>3 DEF IInv

(* The session of s is undisturbed by a step that leaves alone what s      *)
(* knows, the lock it holds and the row under it.                          *)
LEMMA Undisturbed ==
    ASSUME NEW s \in Requests, RequestOK(s),
           pc'[s] = pc[s], request'[s] = request[s],
           target'[s] = target[s], dirty'[s] = dirty[s], added'[s] = added[s],
           pc[s] \in Writing => /\ documents'[target[s]] = documents[target[s]]
                                /\ locked_by'[target[s]] = s
    PROVE  RequestOK(s)'
BY DEF RequestOK, Claiming, Deciding, EventOf

(* An action of r that writes no row and takes no lock but a free one      *)
(* disturbs nobody else.                                                   *)
LEMMA OnlyOne ==
    ASSUME IInv, NEW r \in Requests, documents' = documents,
           \A s \in Requests \ {r} :
              /\ pc'[s] = pc[s] /\ request'[s] = request[s]
              /\ target'[s] = target[s] /\ dirty'[s] = dirty[s]
              /\ added'[s] = added[s],
           \A d \in Documents : locked_by[d] \notin {r, NoRequest} =>
              locked_by'[d] = locked_by[d]
    PROVE  \A s \in Requests \ {r} : RequestOK(s)'
<1> TAKE s \in Requests \ {r}
<1>1. pc[s] \in Writing => locked_by'[target[s]] = s
  BY DocumentRequestsAssumption DEF IInv, RequestOK
<1> QED
  BY <1>1, Undisturbed DEF IInv

(* A transaction that ends without a trace preserves the invariant.        *)
LEMMA EndIInv ==
    ASSUME IInv, NEW r \in Requests, NEW end \in {"done", "failed"}, NEW code \in Reply,
           Rollback(r, end, code),
           UNCHANGED <<snapshot, scanned, session>>,
           request' \in [Requests -> ClaimRequest \cup DecisionRequest \cup {NotSubmitted}],
           \A s \in Requests \ {r} : request'[s] = request[s],
           pc[r] # "done"
    PROVE  IInv'
<1> USE DEF IInv
<1>1. \A d \in Documents :
         locked_by'[d] = IF locked_by[d] = r THEN NoRequest ELSE locked_by[d]
  BY DEF Rollback, Released
<1>2. /\ pc' = [pc EXCEPT ![r] = end]
      /\ pc'[r] = end /\ \A s \in Requests \ {r} : pc'[s] = pc[s]
  BY DEF Rollback, TypeOK
<1>3. TypeOK'
  BY <1>1, <1>2 DEF TypeOK, Rollback, Released, session, PC
<1>4. \A s \in Requests \ {r} : RequestOK(s)'
  BY <1>1, <1>2, OnlyOne DEF Rollback, session
<1>5. RequestOK(r)'
  BY <1>2 DEF RequestOK, Selecting, Writing
<1>6. HoldersAlive'
  BY <1>1, <1>2 DEF HoldersAlive, TypeOK
<1>7. EventsAreOfTheDone'
  BY <1>2 DEF EventsAreOfTheDone, Rollback, TypeOK, OutboxEvent
<1> QED
  BY <1>3, <1>4, <1>5, <1>6, <1>7

(* The consumer's insert changes no row that a session holds.              *)
LEMMA BulkInsertPendingIInv ==
    ASSUME IInv, NEW batch \in SUBSET Documents, NEW t \in CreatedAt,
           BulkInsertPending(batch, t)
    PROVE  IInv'
<1> USE DEF IInv
<1>1. TypeOK'
  <2>1. t \in Nat
    BY DocumentModelAssumption
  <2> QED
    BY <2>1 DEF TypeOK, BulkInsertPending, session, InsertPending, PendingRow,
                Absent, Row, DocumentStatus
<1>2. ASSUME NEW s \in Requests PROVE RequestOK(s)'
  <2>1. pc[s] \in Writing => documents'[target[s]] = documents[target[s]]
    BY DEF InsertPending, BulkInsertPending, RequestOK, Claiming, Deciding,
                            DecidableBy, TypeOK
  <2> QED
    BY <2>1, Undisturbed DEF BulkInsertPending, session, RequestOK
<1>3. HoldersAlive' /\ EventsAreOfTheDone'
  BY DEF HoldersAlive, EventsAreOfTheDone, BulkInsertPending
<1> QED
  BY <1>1, <1>2, <1>3

LEMMA ClaimDocumentIInv ==
    ASSUME IInv, NEW r \in Requests, NEW o \in Operators, ClaimDocument(r, o)
    PROVE  IInv'
<1> USE DEF IInv
<1>1. [kind |-> "claim", operator |-> o] \in ClaimRequest
  BY DEF ClaimRequest
<1>2. TypeOK'
  BY <1>1 DEF TypeOK, ClaimDocument, Pending, tables, session, PC, Active, Selecting
<1>3. \A s \in Requests \ {r} : RequestOK(s)'
  BY OnlyOne DEF ClaimDocument, tables, session, TypeOK
<1>4. RequestOK(r)'
  BY <1>1 DEF RequestOK, ClaimDocument, session, Selecting, Writing, TypeOK
<1>5. HoldersAlive' /\ EventsAreOfTheDone'
  BY DEF HoldersAlive, EventsAreOfTheDone, ClaimDocument, tables, TypeOK,
         OutboxEvent, Writing
<1> QED
  BY <1>2, <1>3, <1>4, <1>5

LEMMA SkipLockedRowIInv ==
    ASSUME IInv, NEW r \in Requests, NEW d \in Documents, SkipLockedRow(r, d)
    PROVE  IInv'
<1> USE DEF IInv
<1>1. TypeOK'
  BY DEF TypeOK, SkipLockedRow, tables, session
<1>2. ASSUME NEW s \in Requests PROVE RequestOK(s)'
  BY Undisturbed DEF SkipLockedRow, tables, session, RequestOK
<1>3. HoldersAlive' /\ EventsAreOfTheDone'
  BY DEF HoldersAlive, EventsAreOfTheDone, SkipLockedRow, tables
<1> QED
  BY <1>1, <1>2, <1>3

LEMMA SkipClaimedRowIInv ==
    ASSUME IInv, NEW r \in Requests, NEW d \in Documents, SkipClaimedRow(r, d)
    PROVE  IInv'
<1> USE DEF IInv
<1>1. TypeOK'
  BY DEF TypeOK, SkipClaimedRow, tables, session
<1>2. ASSUME NEW s \in Requests PROVE RequestOK(s)'
  <2>1. pc[s] \in Writing => locked_by'[target[s]] = s
    BY DocumentRequestsAssumption DEF SkipClaimedRow, RequestOK, TypeOK
  <2> QED
    BY <2>1, Undisturbed DEF SkipClaimedRow, tables, session
<1>3. HoldersAlive' /\ EventsAreOfTheDone'
  BY DEF HoldersAlive, EventsAreOfTheDone, SkipClaimedRow, tables, TypeOK
<1> QED
  BY <1>1, <1>2, <1>3

LEMMA TakeRowIInv ==
    ASSUME IInv, NEW r \in Requests, NEW d \in Documents, TakeRow(r, d)
    PROVE  IInv'
<1> USE DEF IInv
<1>1. documents[d] \in Row /\ request[r] \in ClaimRequest /\ added[r] = {}
  BY DEF TypeOK, TakeRow, RequestOK, Selecting
<1>2. ClaimedRow(documents[d], request[r].operator) \in Row
  BY <1>1 DEF ClaimRequest, ClaimedRow, Row, DocumentStatus
<1>3. TypeOK'
  BY <1>2 DEF TypeOK, TakeRow, tables, PC, Active, Writing
<1>4. \A s \in Requests \ {r} : RequestOK(s)'
  BY OnlyOne DEF TakeRow, tables, TypeOK
<1>5. RequestOK(r)'
  <2>1. pc'[r] = "handled" /\ target'[r] = d /\ locked_by'[d] = r
    BY DEF TakeRow, TypeOK
  <2>2. Claiming(r)'
    BY <1>1, <2>1 DEF Claiming, TakeRow, tables, TypeOK
  <2> QED
    BY <2>1, <2>2 DEF RequestOK, Selecting
<1>6. HoldersAlive' /\ EventsAreOfTheDone'
  BY DEF HoldersAlive, EventsAreOfTheDone, TakeRow, tables, TypeOK,
         OutboxEvent, Writing
<1> QED
  BY <1>3, <1>4, <1>5, <1>6

LEMMA MakeDecisionIInv ==
    ASSUME IInv, NEW r \in Requests, NEW o \in Operators, NEW d \in Documents,
           NEW a \in DocumentStatus, NEW reason \in BOOLEAN,
           MakeDecision(r, o, d, a, reason)
    PROVE  IInv'
<1> USE DEF IInv
<1> DEFINE body == [ kind |-> "decision", operator |-> o, document |-> d,
                     action |-> a, reason |-> reason ]
<1>1. /\ body \in DecisionRequest
      /\ body.action = a /\ body.reason = reason
  BY DEF DecisionRequest
<1>2. request' = [request EXCEPT ![r] = body] /\ pc[r] = "idle"
  BY DEF MakeDecision
<1> HIDE DEF body
<1>3. /\ request' \in [Requests -> ClaimRequest \cup DecisionRequest \cup {NotSubmitted}]
      /\ request'[r] = body
      /\ \A s \in Requests \ {r} : request'[s] = request[s]
  BY <1>1, <1>2 DEF TypeOK
<1>4. CASE ValidDecision(a, reason) /\ DecidableBy(documents[d], o)
  <2>1. /\ pc' = [pc EXCEPT ![r] = "waiting"]
        /\ UNCHANGED <<tables, locked_by, reply, snapshot, scanned, session>>
    BY <1>4 DEF MakeDecision
  <2>2. TypeOK'
    BY <1>3, <2>1 DEF TypeOK, tables, session, PC, Active, Selecting
  <2>3. \A s \in Requests \ {r} : RequestOK(s)'
    BY <1>3, <2>1, OnlyOne DEF tables, session, TypeOK
  <2>4. RequestOK(r)'
    BY <1>1, <1>2, <1>3, <1>4, <2>1
       DEF RequestOK, tables, session, TypeOK, Selecting, Writing
  <2>5. HoldersAlive' /\ EventsAreOfTheDone'
    BY <1>2, <2>1 DEF HoldersAlive, EventsAreOfTheDone, tables, TypeOK,
                      OutboxEvent, Writing
  <2> QED
    BY <2>2, <2>3, <2>4, <2>5
<1>5. CASE ~ (ValidDecision(a, reason) /\ DecidableBy(documents[d], o))
  BY <1>2, <1>3, <1>5, EndIInv DEF MakeDecision, Reply
<1> QED
  BY <1>4, <1>5

LEMMA LockDecidableIInv ==
    ASSUME IInv, NEW r \in Requests, LockDecidable(r)
    PROVE  IInv'
<1> USE DEF IInv
<1> DEFINE d     == request[r].document
           row   == DecidedRow(documents[d], request[r].action, request[r].reason)
           event == [ id |-> r, aggregate_id |-> d, payload |-> OutputMessage(d, row) ]
<1>1. /\ request[r] \in DecisionRequest
      /\ ValidDecision(request[r].action, request[r].reason)
      /\ d \in Documents /\ documents[d] \in Row
      /\ DecidableBy(documents[d], request[r].operator)
  BY DEF RequestOK, LockDecidable, DecisionRequest, TypeOK
<1>2. row \in Row
  BY <1>1 DEF DecisionRequest, DecidedRow, Row, DocumentStatus
<1>3. event \in OutboxEvent(Requests)
  <2>1. row.status = request[r].action /\ row.assigned_to_id = request[r].operator
    BY <1>1 DEF DecidedRow, Row, DecidableBy
  <2>2. OutputMessage(d, row) \in Message
    BY <1>1, <1>2, <2>1 DEF OutputMessage, Message, Row, ValidDecision, DecisionRequest
  <2> QED
    BY <1>1, <2>2 DEF OutboxEvent
<1>4. /\ locked_by[d] = NoRequest
      /\ locked_by' = [locked_by EXCEPT ![d] = r]
      /\ target' = [target EXCEPT ![r] = d]
      /\ dirty' = [dirty EXCEPT ![r] = row]
      /\ added' = [added EXCEPT ![r] = {event}]
      /\ pc' = [pc EXCEPT ![r] = "handled"]
      /\ UNCHANGED <<tables, request, snapshot, scanned, reply>>
  BY DEF LockDecidable
<1>5. event = [ id |-> r, aggregate_id |-> d, payload |-> OutputMessage(d, row) ]
  OBVIOUS
<1>6. row = DecidedRow(documents[d], request[r].action, request[r].reason)
  OBVIOUS
<1> HIDE DEF row, event
<1>7. TypeOK'
  BY <1>1, <1>2, <1>3, <1>4 DEF TypeOK, tables, PC, Active, Writing
<1>8. \A s \in Requests \ {r} : RequestOK(s)'
  BY <1>1, <1>4, OnlyOne DEF tables, TypeOK
<1>9. RequestOK(r)'
  <2>1. /\ pc'[r] = "handled" /\ target'[r] = d /\ locked_by'[d] = r
        /\ dirty'[r] = row /\ added'[r] = {event}
        /\ request'[r] = request[r] /\ documents' = documents
    BY <1>1, <1>4 DEF TypeOK, tables
  <2>2. EventOf(r)' = event
    BY <1>5, <2>1 DEF EventOf
  <2>3. Deciding(r)'
    BY <1>1, <1>6, <2>1, <2>2 DEF Deciding
  <2> QED
    BY <1>1, <2>1, <2>3 DEF RequestOK, Selecting
<1>10. HoldersAlive' /\ EventsAreOfTheDone'
  BY <1>1, <1>4 DEF HoldersAlive, EventsAreOfTheDone, LockDecidable, tables,
                    TypeOK, OutboxEvent, Writing
<1> QED
  BY <1>7, <1>8, <1>9, <1>10

LEMMA RespondIInv ==
    ASSUME IInv, NEW r \in Requests, Respond(r)
    PROVE  IInv'
<1> USE DEF IInv
<1>1. TypeOK'
  BY DEF TypeOK, Respond, tables, session, PC, Active, Writing, Reply
<1>2. \A s \in Requests \ {r} : RequestOK(s)'
  BY OnlyOne DEF Respond, tables, session, TypeOK
<1>3. RequestOK(r)'
  BY DEF RequestOK, Respond, tables, session, TypeOK, Selecting, Writing,
         Claiming, Deciding, EventOf
<1>4. HoldersAlive' /\ EventsAreOfTheDone'
  BY DEF HoldersAlive, EventsAreOfTheDone, Respond, tables, TypeOK,
         OutboxEvent, Writing
<1> QED
  BY <1>1, <1>2, <1>3, <1>4

(* A commit writes one row, which nobody else has locked.                  *)
LEMMA CommitIInv ==
    ASSUME IInv, NEW r \in Requests, Commit(r)
    PROVE  IInv'
<1> USE DEF IInv
<1>1. /\ pc[r] = "answered" /\ target[r] \in Documents
      /\ locked_by[target[r]] = r
  BY DEF Commit, RequestOK, Writing
<1>2. /\ pc'[r] = "done" /\ \A s \in Requests \ {r} : pc'[s] = pc[s]
      /\ \A d \in Documents : locked_by'[d] = IF locked_by[d] = r THEN NoRequest
                                              ELSE locked_by[d]
      /\ \A d \in Documents \ {target[r]} : documents'[d] = documents[d]
  BY <1>1 DEF Commit, Released, TypeOK
<1>3. TypeOK'
  BY <1>1 DEF TypeOK, Commit, Released, session, PC
<1>4. ASSUME NEW s \in Requests \ {r} PROVE RequestOK(s)'
  <2>1. pc[s] \in Writing => /\ documents'[target[s]] = documents[target[s]]
                             /\ locked_by'[target[s]] = s
    BY <1>1, <1>2 DEF RequestOK
  <2> QED
    BY <1>2, <2>1, Undisturbed DEF Commit, session
<1>5. RequestOK(r)'
  BY <1>2 DEF RequestOK, Selecting, Writing
<1>6. HoldersAlive'
  BY <1>1, <1>2 DEF HoldersAlive, TypeOK
<1>7. EventsAreOfTheDone'
  <2>1. \A e \in added[r] : e.id = r
    BY <1>1 DEF RequestOK, Writing, Claiming, Deciding, EventOf
  <2> QED
    BY <1>2, <2>1 DEF EventsAreOfTheDone, Commit, TypeOK, OutboxEvent
<1> QED
  BY <1>3, <1>4, <1>5, <1>6, <1>7

LEMMA NextIInv == IInv /\ [Next]_vars => IInv'
<1> SUFFICES ASSUME IInv, [Next]_vars PROVE IInv'
  OBVIOUS
<1>1. CASE UNCHANGED vars
  <2> USE <1>1 DEF vars, IInv
  <2>1. TypeOK'
    BY DEF TypeOK
  <2>2. ASSUME NEW s \in Requests PROVE RequestOK(s)'
    BY Undisturbed DEF RequestOK
  <2>3. HoldersAlive' /\ EventsAreOfTheDone'
    BY DEF HoldersAlive, EventsAreOfTheDone
  <2> QED
    BY <2>1, <2>2, <2>3
<1>2. ASSUME NEW batch \in SUBSET Documents, NEW t \in CreatedAt,
             BulkInsertPending(batch, t)
      PROVE  IInv'
  BY <1>2, BulkInsertPendingIInv
<1>3. ASSUME NEW r \in Requests, Submit(r) PROVE IInv'
  BY <1>3, ClaimDocumentIInv, MakeDecisionIInv DEF Submit
<1>4. ASSUME NEW r \in Requests, Advance(r) PROVE IInv'
  <2>1. CASE \E d \in Documents :
                SkipLockedRow(r, d) \/ SkipClaimedRow(r, d) \/ TakeRow(r, d)
    BY <2>1, SkipLockedRowIInv, SkipClaimedRowIInv, TakeRowIInv
  <2>2. CASE EmptyQueue(r)
    BY <2>2, EndIInv DEF EmptyQueue, IInv, TypeOK, Reply
  <2>3. CASE LockDecidable(r)
    BY <2>3, LockDecidableIInv
  <2>4. CASE LockDecided(r)
    BY <2>4, EndIInv DEF LockDecided, IInv, TypeOK, Reply
  <2>5. CASE Respond(r) \/ Commit(r)
    BY <2>5, RespondIInv, CommitIInv
  <2> QED
    BY <1>4, <2>1, <2>2, <2>3, <2>4, <2>5 DEF Advance
<1>5. ASSUME NEW r \in Requests, Abort(r) PROVE IInv'
  <2>1. (IF pc[r] = "answered" THEN reply[r] ELSE "500") \in Reply
    BY DEF IInv, TypeOK, Reply
  <2>2. request \in [Requests -> ClaimRequest \cup DecisionRequest \cup {NotSubmitted}]
    BY DEF IInv, TypeOK
  <2>3. pc[r] # "done"
    BY <1>5 DEF Abort, Active, Selecting, Writing
  <2> QED
    BY <1>5, <2>1, <2>2, <2>3, EndIInv DEF Abort
<1> QED
  BY <1>1, <1>2, <1>3, <1>4, <1>5 DEF Next

(* The inductive invariant holds throughout every execution.               *)
THEOREM Invariance == Spec => []IInv
BY InitIInv, NextIInv, PTL DEF Spec

(* Tables, locks and sessions have their declared shape: no message with   *)
(* a missing operator or an open status is ever written to the outbox.     *)
THEOREM TypeCorrect == Spec => []TypeOK
<1>1. IInv => TypeOK
  BY DEF IInv
<1> QED
  BY Invariance, <1>1, PTL

(* SELECT ... FOR UPDATE with SKIP LOCKED never gives one document to two  *)
(* sessions, whatever number of requests run and however they fail.        *)
THEOREM MutualExclusion == Spec => []NoDoubleClaim
<1>1. IInv => NoDoubleClaim
  BY DEF IInv, RequestOK, NoDoubleClaim
<1> QED
  BY Invariance, <1>1, PTL

(* Every session writes what it computed from the row it overwrites.       *)
THEOREM UpdatesAreKept == Spec => []NoLostUpdate
<1>1. IInv => NoLostUpdate
  BY DEF IInv, RequestOK, Claiming, Deciding, NoLostUpdate, ClaimRequest,
         DecisionRequest
<1> QED
  BY Invariance, <1>1, PTL

-----------------------------------------------------------------------------
(* Order, empty queues and single success, as long as nothing has failed.  *)
(*                                                                         *)
(* What a claim passed over does not come back to the queue: it is past    *)
(* it, or a claim that will commit has it locked (PendingLocks).  What was *)
(* answered with 200 and committed has left the row in a state that no     *)
(* other request of the kind can start from (Told).                        *)

\* What the SELECT of r saw and passed over.
Seen(r) ==
    /\ scanned[r] \subseteq snapshot[r]
    /\ \A d \in snapshot[r] : documents[d].status # "absent"
    /\ target[r] # NoDocument =>
          /\ documents[target[r]].status # "absent"
          /\ \A d \in snapshot[r] :
                documents[d].created_at < documents[target[r]].created_at => d \in scanned[r]
    /\ reply[r] = "404" => snapshot[r] \subseteq scanned[r]

\* What r has not got to yet.
Begun(r) ==
    /\ pc[r] \in {"idle", "waiting"} => snapshot[r] = {}
    /\ pc[r] \in {"idle"} \cup Selecting => target[r] = NoDocument
    /\ pc[r] \in {"idle", "handled"} \cup Selecting => reply[r] = "none"

\* What a success that is committed has made of the row.
Told(r) ==
    reply[r] = "200" =>
        /\ target[r] \in Documents
        /\ pc[r] = "done" =>
              IF request[r].kind = "claim"
              THEN documents[target[r]].status \notin {"absent", "pending"}
              ELSE documents[target[r]].status \in FinalStatus

\* A locked row is there; if it is pending, its holder has claimed it.
PendingLocks ==
    \A d \in Documents : locked_by[d] # NoRequest =>
        /\ documents[d].status # "absent"
        /\ documents[d].status = "pending" =>
              pc[locked_by[d]] \in Writing /\ target[locked_by[d]] = d

PassedOver ==
    NoneFailed => \A r \in Requests : \A d \in scanned[r] : ~LeftInQueue(d)

QueueInv ==
    /\ \A r \in Requests : Seen(r) /\ Begun(r) /\ Told(r)
    /\ PendingLocks
    /\ PassedOver
    /\ OneSuccessEach

LEMMA QueueInitInv == Init => QueueInv
BY DEF Init, QueueInv, Seen, Begun, Told, PendingLocks, PassedOver, OneSuccessEach,
       Selecting

\* What a step that moves only r does to the others, and to the locks.
Alone(r) ==
    /\ \A s \in Requests \ {r} :
          /\ pc'[s] = pc[s] /\ request'[s] = request[s] /\ snapshot'[s] = snapshot[s]
          /\ scanned'[s] = scanned[s] /\ target'[s] = target[s] /\ reply'[s] = reply[s]
    /\ \A d \in Documents :
          locked_by'[d] = locked_by[d] \/ r \in {locked_by[d], locked_by'[d]}
    /\ pc[r] = "failed" => pc'[r] = "failed"

\* A row in the table keeps its time, and goes forward.
Onward(row, next) ==
    row.status # "absent" =>
        /\ next.created_at = row.created_at /\ next.status # "absent"
        /\ row.status # "pending" => next.status # "pending"
        /\ row.status \in FinalStatus => next.status \in FinalStatus

LEMMA CommittedRow ==
    ASSUME IInv, NEW r \in Requests, Commit(r)
    PROVE  /\ target[r] \in Documents
           /\ documents'[target[r]] = dirty[r]
           /\ \A d \in Documents \ {target[r]} : documents'[d] = documents[d]
           /\ Onward(documents[target[r]], dirty[r])
           /\ request[r].kind = "claim" =>
                 documents[target[r]].status = "pending" /\ dirty[r].status = "in_progress"
           /\ request[r].kind # "claim" =>
                 documents[target[r]].status = "in_progress" /\ dirty[r].status \in FinalStatus
<1>1. target[r] \in Documents /\ (Claiming(r) \/ Deciding(r))
  BY DEF IInv, RequestOK, Commit, Writing
<1>2. /\ documents'[target[r]] = dirty[r]
      /\ \A d \in Documents \ {target[r]} : documents'[d] = documents[d]
  BY <1>1 DEF Commit, IInv, TypeOK
<1>3. documents[target[r]] \in Row
  BY <1>1 DEF IInv, TypeOK
<1>4. CASE Claiming(r)
  <2>1. /\ request[r].kind = "claim" /\ documents[target[r]].status = "pending"
        /\ dirty[r].status = "in_progress"
        /\ dirty[r].created_at = documents[target[r]].created_at
    BY <1>3, <1>4 DEF Claiming, ClaimRequest, ClaimedRow, Row
  <2> QED
    BY <1>1, <1>2, <2>1 DEF Onward, FinalStatus
<1>5. CASE Deciding(r)
  <2>1. /\ request[r].kind = "decision" /\ documents[target[r]].status = "in_progress"
        /\ dirty[r].status \in FinalStatus
        /\ dirty[r].created_at = documents[target[r]].created_at
    BY <1>3, <1>5 DEF Deciding, DecisionRequest, DecidedRow, DecidableBy, ValidDecision, Row
  <2> QED
    BY <1>1, <1>2, <2>1 DEF Onward, FinalStatus
<1> QED
  BY <1>1, <1>4, <1>5

LEMMA InsertOnward ==
    ASSUME IInv, NEW batch \in SUBSET Documents, NEW t \in CreatedAt,
           BulkInsertPending(batch, t), NEW d \in Documents
    PROVE  Onward(documents[d], documents'[d])
BY DEF BulkInsertPending, InsertPending, Onward, IInv, TypeOK

(* The others of a step of r keep what they know, if all rows go forward.  *)
LEMMA OthersKeep ==
    ASSUME IInv, QueueInv, NEW s \in Requests,
           pc'[s] = pc[s], request'[s] = request[s], snapshot'[s] = snapshot[s],
           scanned'[s] = scanned[s], target'[s] = target[s], reply'[s] = reply[s],
           \A d \in Documents : Onward(documents[d], documents'[d])
    PROVE  Seen(s)' /\ Begun(s)' /\ Told(s)'
<1>1. /\ snapshot[s] \subseteq Documents
      /\ target[s] # NoDocument => target[s] \in Documents
  BY DEF IInv, TypeOK
<1>2. Seen(s) /\ Begun(s) /\ Told(s)
  BY DEF QueueInv
<1>3. Seen(s)'
  BY <1>1, <1>2 DEF Seen, Onward
<1>4. Begun(s)'
  BY <1>2 DEF Begun
<1>5. Told(s)'
  BY <1>2 DEF Told, Onward, FinalStatus
<1> QED
  BY <1>3, <1>4, <1>5

(* A row that was passed over stays out of the queue: its lock is given    *)
(* back by a COMMIT, or has been failed.                                   *)
LEMMA StaysPassed ==
    ASSUME IInv, QueueInv, NEW r \in Requests, Alone(r),
           \A d \in Documents : Onward(documents[d], documents'[d]),
           \A d \in Documents :
              locked_by[d] = r /\ locked_by'[d] # r /\ target[r] = d /\ pc[r] \in Writing =>
                 documents'[d].status # "pending" \/ pc'[r] = "failed",
           NoneFailed', NEW d \in Documents, documents[d].status # "absent", ~LeftInQueue(d)
    PROVE  ~LeftInQueue(d)'
<1>1. CASE documents[d].status # "pending"
  BY <1>1 DEF Onward, LeftInQueue
<1>2. CASE documents[d].status = "pending"
  <2>1. locked_by[d] # NoRequest
    BY <1>2 DEF LeftInQueue
  <2>2. pc[locked_by[d]] \in Writing /\ target[locked_by[d]] = d
    BY <1>2, <2>1 DEF QueueInv, PendingLocks
  <2>3. CASE locked_by'[d] = locked_by[d]
    BY <2>1, <2>3 DEF LeftInQueue
  <2>4. CASE locked_by'[d] # locked_by[d] /\ locked_by[d] # r
    BY <2>4, DocumentRequestsAssumption DEF Alone, LeftInQueue
  <2>5. CASE locked_by'[d] # locked_by[d] /\ locked_by[d] = r
    BY <2>2, <2>5 DEF NoneFailed, LeftInQueue
  <2> QED
    BY <2>3, <2>4, <2>5
<1> QED
  BY <1>1, <1>2

(* It is enough to look at the request that moves.                         *)
LEMMA QueueInvOfOne ==
    ASSUME IInv, IInv', QueueInv, NEW r \in Requests, Alone(r),
           \A d \in Documents : Onward(documents[d], documents'[d]),
           \A d \in Documents :
              locked_by[d] = r /\ locked_by'[d] # r /\ target[r] = d /\ pc[r] \in Writing =>
                 documents'[d].status # "pending" \/ pc'[r] = "failed",
           Seen(r)', Begun(r)', Told(r)',
           \A d \in scanned'[r] \ scanned[r] : ~LeftInQueue(d)',
           \A d \in scanned[r] : documents[d].status # "absent",
           PendingLocks', OneSuccessEach'
    PROVE  QueueInv'
<1>1. \A s \in Requests : Seen(s)' /\ Begun(s)' /\ Told(s)'
  BY OthersKeep DEF Alone
<1>2. PassedOver'
  <2> SUFFICES ASSUME NoneFailed', NEW s \in Requests, NEW d \in scanned'[s]
               PROVE  ~LeftInQueue(d)'
    BY DEF PassedOver
  <2>1. NoneFailed
    BY DEF NoneFailed, Alone
  <2>2. CASE d \in scanned[s]
    <3>1. d \in Documents /\ documents[d].status # "absent"
      BY <2>2 DEF IInv, TypeOK, QueueInv, Seen
    <3>2. ~LeftInQueue(d)
      BY <2>1, <2>2 DEF QueueInv, PassedOver
    <3> QED
      BY <3>1, <3>2, StaysPassed
  <2>3. CASE d \notin scanned[s]
    BY <2>3 DEF Alone
  <2> QED
    BY <2>2, <2>3
<1> QED
  BY <1>1, <1>2 DEF QueueInv

(* A step that writes no row and takes no lock but free ones.              *)
LEMMA QueueInvOfReader ==
    ASSUME IInv, IInv', QueueInv, NEW r \in Requests, Alone(r),
           documents' = documents,
           \A d \in Documents : locked_by[d] = r => locked_by'[d] = r \/ pc'[r] = "failed",
           Seen(r)', Begun(r)', Told(r)',
           \A d \in scanned'[r] \ scanned[r] : ~LeftInQueue(d)',
           PendingLocks', OneSuccessEach'
    PROVE  QueueInv'
<1>1. \A d \in Documents : Onward(documents[d], documents'[d])
  BY DEF Onward
<1>2. \A d \in scanned[r] : documents[d].status # "absent"
  BY DEF QueueInv, Seen
<1> QED
  BY <1>1, <1>2, QueueInvOfOne

(* One more answer, 200 or not, does not make two successes of one.        *)
LEMMA NoNewSuccess ==
    ASSUME QueueInv, NEW r \in Requests, Alone(r), reply'[r] # "200" \/ reply'[r] = reply[r],
           reply[r] = "200" => request'[r] = request[r] /\ target'[r] = target[r]
    PROVE  OneSuccessEach'
<1> SUFFICES ASSUME NoneFailed', NEW r1 \in Requests, NEW r2 \in Requests,
                    reply'[r1] = "200", reply'[r2] = "200",
                    request'[r1].kind = request'[r2].kind, target'[r1] = target'[r2]
             PROVE  r1 = r2
  BY DEF OneSuccessEach
<1>1. NoneFailed
  BY DEF NoneFailed, Alone
<1>2. ASSUME NEW s \in Requests, reply'[s] = "200"
      PROVE  reply[s] = "200" /\ request'[s] = request[s] /\ target'[s] = target[s]
  BY <1>2 DEF Alone
<1>3. /\ reply[r1] = "200" /\ request'[r1] = request[r1] /\ target'[r1] = target[r1]
      /\ reply[r2] = "200" /\ request'[r2] = request[r2] /\ target'[r2] = target[r2]
  BY <1>2
<1> QED
  BY <1>1, <1>3 DEF QueueInv, OneSuccessEach

LEMMA BulkInsertPendingQueueInv ==
    ASSUME IInv, IInv', QueueInv, NEW batch \in SUBSET Documents, NEW t \in CreatedAt,
           BulkInsertPending(batch, t)
    PROVE  QueueInv'
<1>1. UNCHANGED <<locked_by, pc, request, snapshot, scanned, target, reply>>
  BY DEF BulkInsertPending, session
<1>2. \A d \in Documents : Onward(documents[d], documents'[d])
  BY InsertOnward
<1>3. \A d \in Documents : documents[d].status # "absent" => documents'[d] = documents[d]
  BY DEF BulkInsertPending, InsertPending
<1>4. \A s \in Requests : Seen(s)' /\ Begun(s)' /\ Told(s)'
  BY <1>1, <1>2, OthersKeep
<1>5. PendingLocks'
  BY <1>1, <1>3 DEF QueueInv, PendingLocks
<1>6. PassedOver'
  <2> SUFFICES ASSUME NoneFailed', NEW s \in Requests, NEW d \in scanned'[s]
               PROVE  ~LeftInQueue(d)'
    BY DEF PassedOver
  <2>1. d \in scanned[s] /\ NoneFailed
    BY <1>1 DEF NoneFailed
  <2>2. d \in Documents /\ documents[d].status # "absent"
    BY <2>1 DEF IInv, TypeOK, QueueInv, Seen
  <2> QED
    BY <1>1, <1>3, <2>1, <2>2 DEF QueueInv, PassedOver, LeftInQueue
<1>7. OneSuccessEach'
  BY <1>1 DEF QueueInv, OneSuccessEach, NoneFailed
<1> QED
  BY <1>4, <1>5, <1>6, <1>7 DEF QueueInv

LEMMA ClaimDocumentQueueInv ==
    ASSUME IInv, IInv', QueueInv, NEW r \in Requests, NEW o \in Operators,
           ClaimDocument(r, o)
    PROVE  QueueInv'
<1>1. /\ pc[r] = "idle" /\ pc'[r] = "selecting"
      /\ snapshot'[r] = Pending(documents)
      /\ UNCHANGED <<documents, locked_by, scanned, target, reply>>
      /\ \A s \in Requests \ {r} :
            pc'[s] = pc[s] /\ request'[s] = request[s] /\ snapshot'[s] = snapshot[s]
  BY DEF ClaimDocument, tables, session, IInv, TypeOK
<1>2. Alone(r)
  BY <1>1 DEF Alone
<1>3. /\ snapshot[r] = {} /\ scanned[r] = {} /\ target[r] = NoDocument
      /\ reply[r] = "none"
  BY <1>1 DEF QueueInv, Begun, Seen
<1>4. Seen(r)' /\ Begun(r)' /\ Told(r)'
  BY <1>1, <1>3 DEF Seen, Begun, Told, Pending, Selecting
<1>5. PendingLocks'
  <2>1. \A s \in Requests : pc[s] \in Writing => pc'[s] = pc[s]
    BY <1>1 DEF Writing
  <2>2. \A d \in Documents : locked_by[d] # NoRequest => locked_by[d] \in Requests
    BY DEF IInv, TypeOK
  <2> QED
    BY <1>1, <2>1, <2>2 DEF QueueInv, PendingLocks
<1>6. OneSuccessEach'
  BY <1>1, <1>2, <1>3, NoNewSuccess
<1> QED
  BY <1>1, <1>2, <1>4, <1>5, <1>6, QueueInvOfReader

(* A row that is next is there, and was not scanned yet.                   *)
LEMMA NextRow ==
    ASSUME IInv, QueueInv, NEW r \in Requests, NEW d \in NextInOrder(r)
    PROVE  /\ d \in snapshot[r] /\ d \in Documents
           /\ documents[d].status # "absent"
           /\ \A other \in snapshot[r] \ scanned[r] :
                 documents[d].created_at <= documents[other].created_at
BY DEF NextInOrder, IInv, TypeOK, QueueInv, Seen

LEMMA SkipRowQueueInv ==
    ASSUME IInv, IInv', QueueInv, NEW r \in Requests, NEW d \in Documents,
           SkipLockedRow(r, d) \/ SkipClaimedRow(r, d)
    PROVE  QueueInv'
<1>1. /\ pc[r] = "selecting" /\ d \in NextInOrder(r)
      /\ scanned'[r] = scanned[r] \cup {d}
      /\ \A s \in Requests \ {r} : scanned'[s] = scanned[s]
      /\ UNCHANGED <<documents, pc, request, snapshot, target, reply>>
  BY DEF SkipLockedRow, SkipClaimedRow, tables, session, IInv, TypeOK
<1>2. \/ locked_by[d] # NoRequest /\ locked_by' = locked_by
      \/ /\ locked_by[d] = NoRequest /\ documents[d].status # "pending"
         /\ locked_by'[d] = r
         /\ \A other \in Documents \ {d} : locked_by'[other] = locked_by[other]
  BY DEF SkipLockedRow, SkipClaimedRow, tables, session, IInv, TypeOK
<1>3. Alone(r)
  BY <1>1, <1>2 DEF Alone
<1>4. d \in snapshot[r] /\ documents[d].status # "absent"
  BY <1>1, NextRow
<1>5. target[r] = NoDocument /\ reply[r] = "none"
  BY <1>1 DEF QueueInv, Begun, Selecting
<1>6. Seen(r)' /\ Begun(r)' /\ Told(r)'
  BY <1>1, <1>4, <1>5 DEF QueueInv, Seen, Begun, Told
<1>7. ~LeftInQueue(d)'
  BY <1>1, <1>2, DocumentRequestsAssumption DEF LeftInQueue
<1>8. PendingLocks'
  BY <1>1, <1>2, <1>4 DEF QueueInv, PendingLocks
<1>9. OneSuccessEach'
  BY <1>1, <1>3, NoNewSuccess
<1>10. \A other \in Documents : locked_by[other] = r => locked_by'[other] = r
  BY <1>2, DocumentRequestsAssumption
<1> QED
  BY <1>1, <1>3, <1>6, <1>7, <1>8, <1>9, <1>10, QueueInvOfReader

LEMMA TakeRowQueueInv ==
    ASSUME IInv, IInv', QueueInv, NEW r \in Requests, NEW d \in Documents, TakeRow(r, d)
    PROVE  QueueInv'
<1>1. /\ pc[r] = "selecting" /\ pc'[r] = "handled" /\ d \in NextInOrder(r)
      /\ locked_by[d] = NoRequest /\ locked_by'[d] = r
      /\ \A other \in Documents \ {d} : locked_by'[other] = locked_by[other]
      /\ scanned'[r] = scanned[r] \cup {d} /\ target'[r] = d
      /\ \A s \in Requests \ {r} :
            scanned'[s] = scanned[s] /\ target'[s] = target[s] /\ pc'[s] = pc[s]
      /\ UNCHANGED <<documents, request, snapshot, reply>>
  BY DEF TakeRow, tables, IInv, TypeOK
<1>2. Alone(r)
  BY <1>1 DEF Alone
<1>3. /\ d \in snapshot[r] /\ documents[d].status # "absent"
      /\ \A other \in snapshot[r] \ scanned[r] :
            documents[d].created_at <= documents[other].created_at
  BY <1>1, NextRow
<1>4. target[r] = NoDocument /\ reply[r] = "none"
  BY <1>1 DEF QueueInv, Begun, Selecting
<1>5. \A other \in snapshot[r] :
         documents[other].created_at < documents[d].created_at => other \in scanned[r]
  <2> SUFFICES ASSUME NEW other \in snapshot[r], other \notin scanned[r],
                      documents[other].created_at < documents[d].created_at
               PROVE  FALSE
    OBVIOUS
  <2>1. documents[other].created_at \in Nat /\ documents[d].created_at \in Nat
    BY DEF IInv, TypeOK, Row
  <2> QED
    BY <1>3, <2>1
<1>6. Seen(r)'
  BY <1>1, <1>3, <1>4, <1>5 DEF QueueInv, Seen
<1>7. Begun(r)' /\ Told(r)'
  BY <1>1, <1>4 DEF Begun, Told, Selecting
<1>8. ~LeftInQueue(d)'
  BY <1>1, DocumentRequestsAssumption DEF LeftInQueue
<1>9. PendingLocks'
  <2> SUFFICES ASSUME NEW other \in Documents, locked_by'[other] # NoRequest
               PROVE  /\ documents'[other].status # "absent"
                      /\ documents'[other].status = "pending" =>
                            /\ pc'[locked_by'[other]] \in Writing
                            /\ target'[locked_by'[other]] = other
    BY DEF PendingLocks
  <2>1. CASE other = d
    BY <1>1, <1>3, <2>1 DEF Writing
  <2>2. CASE other # d
    <3>1. locked_by'[other] = locked_by[other] /\ locked_by[other] \in Requests
      BY <1>1, <2>2 DEF IInv, TypeOK
    <3>2. /\ documents[other].status # "absent"
          /\ documents[other].status = "pending" =>
                pc[locked_by[other]] \in Writing /\ target[locked_by[other]] = other
      BY <3>1 DEF QueueInv, PendingLocks
    <3> QED
      BY <1>1, <3>1, <3>2 DEF Writing
  <2> QED
    BY <2>1, <2>2
<1>10. OneSuccessEach'
  BY <1>1, <1>2, <1>4, NoNewSuccess
<1>11. \A other \in Documents : locked_by[other] = r => locked_by'[other] = r
  BY <1>1
<1> QED
  BY <1>1, <1>2, <1>6, <1>7, <1>8, <1>9, <1>10, <1>11, QueueInvOfReader

(* A transaction that ends without a trace: what it gives back was not     *)
(* pending, or it has failed.                                              *)
LEMMA EndQueueInv ==
    ASSUME IInv, IInv', QueueInv, NEW r \in Requests,
           NEW end \in {"done", "failed"}, NEW code \in Reply, Rollback(r, end, code),
           UNCHANGED <<snapshot, scanned, session>>,
           \A s \in Requests \ {r} : request'[s] = request[s],
           reply[r] = "200" => request'[r] = request[r],
           pc[r] # "failed",
           end = "done" => pc[r] \notin Writing,
           code = "404" => snapshot[r] \subseteq scanned[r],
           code = "200" => reply[r] = "200" /\ end = "failed"
    PROVE  QueueInv'
<1>1. /\ \A d \in Documents :
            locked_by'[d] = IF locked_by[d] = r THEN NoRequest ELSE locked_by[d]
      /\ pc'[r] = end /\ reply'[r] = code
      /\ \A s \in Requests \ {r} : pc'[s] = pc[s] /\ reply'[s] = reply[s]
      /\ UNCHANGED <<documents, snapshot, scanned, target>>
  BY DEF Rollback, Released, session, IInv, TypeOK
<1>2. Alone(r)
  BY <1>1 DEF Alone
<1>3. Seen(r)' /\ Begun(r)' /\ Told(r)'
  <2>1. Seen(r)'
    BY <1>1 DEF QueueInv, Seen
  <2>2. Begun(r)'
    BY <1>1 DEF Begun, Selecting
  <2>3. Told(r)'
    BY <1>1 DEF QueueInv, Told
  <2> QED
    BY <2>1, <2>2, <2>3
<1>4. PendingLocks'
  <2>1. \A d \in Documents : locked_by'[d] # NoRequest =>
           /\ locked_by'[d] = locked_by[d] /\ locked_by[d] \in Requests \ {r}
    BY <1>1 DEF IInv, TypeOK
  <2> QED
    BY <1>1, <2>1 DEF QueueInv, PendingLocks
<1>5. OneSuccessEach'
  BY <1>1, <1>2, NoNewSuccess
<1>6. \A d \in Documents : Onward(documents[d], documents'[d])
  BY <1>1 DEF Onward
<1>7. \A d \in scanned[r] : documents[d].status # "absent"
  BY DEF QueueInv, Seen
<1>8. pc[r] \in Writing => pc'[r] = "failed"
  BY <1>1
<1> QED
  BY <1>1, <1>2, <1>3, <1>4, <1>5, <1>6, <1>7, <1>8, QueueInvOfOne

LEMMA MakeDecisionQueueInv ==
    ASSUME IInv, IInv', QueueInv, NEW r \in Requests, NEW o \in Operators,
           NEW d \in Documents, NEW a \in DocumentStatus, NEW reason \in BOOLEAN,
           MakeDecision(r, o, d, a, reason)
    PROVE  QueueInv'
<1>1. /\ pc[r] = "idle" /\ reply[r] = "none"
      /\ snapshot[r] = {} /\ scanned[r] = {} /\ target[r] = NoDocument
  BY DEF MakeDecision, QueueInv, Begun, Seen
<1>2. /\ \A s \in Requests \ {r} : request'[s] = request[s]
      /\ UNCHANGED <<snapshot, scanned, session>>
  BY DEF MakeDecision, IInv, TypeOK
<1>3. CASE ValidDecision(a, reason) /\ DecidableBy(documents[d], o)
  <2>1. /\ pc'[r] = "waiting" /\ \A s \in Requests \ {r} : pc'[s] = pc[s]
        /\ UNCHANGED <<documents, locked_by, reply, snapshot, scanned, target>>
    BY <1>2, <1>3 DEF MakeDecision, tables, session, IInv, TypeOK
  <2>2. Alone(r)
    BY <1>1, <1>2, <2>1 DEF Alone
  <2>3. Seen(r)' /\ Begun(r)' /\ Told(r)'
    BY <1>1, <2>1 DEF Seen, Begun, Told
  <2>4. PendingLocks'
    <3>1. \A s \in Requests : pc[s] \in Writing => pc'[s] = pc[s]
      BY <1>1, <2>1 DEF Writing
    <3>2. \A other \in Documents : locked_by[other] # NoRequest => locked_by[other] \in Requests
      BY DEF IInv, TypeOK
    <3> QED
      BY <2>1, <3>1, <3>2 DEF QueueInv, PendingLocks
  <2>5. OneSuccessEach'
    BY <1>1, <2>1, <2>2, NoNewSuccess
  <2> QED
    BY <2>1, <2>2, <2>3, <2>4, <2>5, QueueInvOfReader
<1>4. CASE ~ (ValidDecision(a, reason) /\ DecidableBy(documents[d], o))
  <2>1. Rollback(r, "done", "422") /\ "422" \in Reply
    BY <1>4 DEF MakeDecision, Reply
  <2> QED
    BY <1>1, <1>2, <2>1, EndQueueInv DEF Writing
<1> QED
  BY <1>3, <1>4

LEMMA LockDecidableQueueInv ==
    ASSUME IInv, IInv', QueueInv, NEW r \in Requests, LockDecidable(r)
    PROVE  QueueInv'
<1> DEFINE d == request[r].document
<1>1. /\ pc[r] = "waiting" /\ d \in Documents
      /\ documents[d].status = "in_progress"
  BY DEF LockDecidable, IInv, RequestOK, DecisionRequest, DecidableBy
<1>2. /\ pc'[r] = "handled" /\ target'[r] = d
      /\ \A s \in Requests \ {r} : pc'[s] = pc[s] /\ target'[s] = target[s]
      /\ locked_by[d] = NoRequest /\ locked_by'[d] = r
      /\ \A other \in Documents \ {d} : locked_by'[other] = locked_by[other]
      /\ UNCHANGED <<documents, request, snapshot, scanned, reply>>
  BY <1>1 DEF LockDecidable, tables, IInv, TypeOK
<1> HIDE DEF d
<1>3. Alone(r)
  BY <1>1, <1>2 DEF Alone
<1>4. snapshot[r] = {} /\ reply[r] = "none" /\ scanned[r] = {}
  BY <1>1 DEF QueueInv, Begun, Seen, Selecting
<1>5. Seen(r)' /\ Begun(r)' /\ Told(r)'
  BY <1>1, <1>2, <1>4 DEF Seen, Begun, Told, Selecting
<1>6. PendingLocks'
  <2>1. \A s \in Requests : pc[s] \in Writing => pc'[s] = pc[s] /\ target'[s] = target[s]
    BY <1>1, <1>2 DEF Writing
  <2>2. \A other \in Documents : locked_by[other] # NoRequest => locked_by[other] \in Requests
    BY DEF IInv, TypeOK
  <2>3. ASSUME NEW other \in Documents \ {d}, locked_by'[other] # NoRequest
        PROVE  /\ documents'[other].status # "absent"
               /\ documents'[other].status = "pending" =>
                     /\ pc'[locked_by'[other]] \in Writing
                     /\ target'[locked_by'[other]] = other
    BY <1>2, <2>1, <2>2, <2>3 DEF QueueInv, PendingLocks
  <2> QED
    BY <1>1, <1>2, <2>3 DEF PendingLocks
<1>7. OneSuccessEach'
  BY <1>2, <1>3, <1>4, NoNewSuccess
<1>8. \A other \in Documents : locked_by[other] = r => locked_by'[other] = r
  BY <1>2
<1> QED
  BY <1>2, <1>3, <1>5, <1>6, <1>7, <1>8, QueueInvOfReader

(* The answer: whoever was told the same before is either over, and the    *)
(* row no longer what this request needs, or has its own session on it.    *)
LEMMA RespondQueueInv ==
    ASSUME IInv, IInv', QueueInv, NEW r \in Requests, Respond(r)
    PROVE  QueueInv'
<1>1. /\ pc[r] = "handled" /\ pc'[r] = "answered" /\ reply'[r] = "200"
      /\ \A s \in Requests \ {r} : pc'[s] = pc[s] /\ reply'[s] = reply[s]
      /\ UNCHANGED <<documents, locked_by, request, snapshot, scanned, target>>
  BY DEF Respond, tables, session, IInv, TypeOK
<1>2. Alone(r)
  BY <1>1 DEF Alone
<1>3. /\ target[r] \in Documents /\ locked_by[target[r]] = r
      /\ Claiming(r) \/ Deciding(r)
  BY <1>1 DEF IInv, RequestOK, Writing
<1>4. Seen(r)' /\ Begun(r)' /\ Told(r)'
  BY <1>1, <1>3 DEF QueueInv, Seen, Begun, Told, Selecting
<1>5. PendingLocks'
  <2>1. \A s \in Requests : pc[s] \in Writing => pc'[s] \in Writing
    BY <1>1 DEF Writing
  <2>2. \A other \in Documents : locked_by[other] # NoRequest => locked_by[other] \in Requests
    BY DEF IInv, TypeOK
  <2> QED
    BY <1>1, <2>1, <2>2 DEF QueueInv, PendingLocks
<1>6. OneSuccessEach'
  <2>1. ASSUME NoneFailed', NEW s \in Requests \ {r}, reply'[s] = "200",
               request[s].kind = request[r].kind, target[s] = target[r]
        PROVE  FALSE
    <3>1. reply[s] = "200" /\ pc[s] # "failed" /\ pc[s] \in PC
      BY <1>1, <2>1 DEF NoneFailed, IInv, TypeOK
    <3>2. pc[s] \in {"answered", "done"}
      BY <3>1 DEF QueueInv, Begun, PC, Active, Writing
    <3>3. pc[s] # "answered"
      BY <1>3, <2>1 DEF IInv, RequestOK, Writing
    <3>4. IF request[s].kind = "claim"
          THEN documents[target[s]].status \notin {"absent", "pending"}
          ELSE documents[target[s]].status \in FinalStatus
      BY <3>1, <3>2, <3>3 DEF QueueInv, Told
    <3>5. \/ request[r].kind = "claim" /\ documents[target[r]].status = "pending"
          \/ request[r].kind # "claim" /\ documents[target[r]].status = "in_progress"
      BY <1>3 DEF Claiming, Deciding, ClaimRequest, DecisionRequest, DecidableBy
    <3> QED
      BY <2>1, <3>4, <3>5 DEF FinalStatus
  <2>2. NoneFailed' => NoneFailed
    BY <1>1 DEF NoneFailed
  <2>3. \A s \in Requests \ {r} : reply'[s] = "200" <=> reply[s] = "200"
    BY <1>1
  <2> QED
    BY <1>1, <2>1, <2>2, <2>3 DEF QueueInv, OneSuccessEach
<1> QED
  BY <1>1, <1>2, <1>4, <1>5, <1>6, QueueInvOfReader

LEMMA CommitQueueInv ==
    ASSUME IInv, IInv', QueueInv, NEW r \in Requests, Commit(r)
    PROVE  QueueInv'
<1>1. /\ pc[r] = "answered" /\ pc'[r] = "done"
      /\ \A s \in Requests \ {r} : pc'[s] = pc[s]
      /\ \A d \in Documents :
            locked_by'[d] = IF locked_by[d] = r THEN NoRequest ELSE locked_by[d]
      /\ UNCHANGED <<request, snapshot, scanned, target, reply>>
  BY DEF Commit, Released, session, IInv, TypeOK
<1>2. /\ target[r] \in Documents
      /\ documents'[target[r]] = dirty[r]
      /\ \A d \in Documents \ {target[r]} : documents'[d] = documents[d]
      /\ Onward(documents[target[r]], dirty[r])
      /\ request[r].kind = "claim" =>
            documents[target[r]].status = "pending" /\ dirty[r].status = "in_progress"
      /\ request[r].kind # "claim" =>
            documents[target[r]].status = "in_progress" /\ dirty[r].status \in FinalStatus
  BY CommittedRow
<1>3. locked_by[target[r]] = r
  BY <1>1 DEF IInv, RequestOK, Writing
<1>4. Alone(r)
  BY <1>1 DEF Alone
<1>5. \A d \in Documents : Onward(documents[d], documents'[d])
  <2>1. \A d \in Documents \ {target[r]} : Onward(documents[d], documents'[d])
    BY <1>2 DEF Onward
  <2> QED
    BY <1>2, <2>1
<1>6. documents'[target[r]].status \notin {"absent", "pending"}
  BY <1>2 DEF FinalStatus
<1>7. Seen(r)'
  <2>1. /\ Seen(r) /\ snapshot[r] \subseteq Documents
    BY DEF QueueInv, IInv, TypeOK
  <2> QED
    BY <1>1, <1>2, <1>5, <2>1 DEF Seen, Onward
<1>8. Begun(r)' /\ Told(r)'
  BY <1>1, <1>2 DEF Begun, Told, Selecting
<1>9. PendingLocks'
  <2> SUFFICES ASSUME NEW d \in Documents, locked_by'[d] # NoRequest
               PROVE  /\ documents'[d].status # "absent"
                      /\ documents'[d].status = "pending" =>
                            /\ pc'[locked_by'[d]] \in Writing
                            /\ target'[locked_by'[d]] = d
    BY DEF PendingLocks
  <2>1. locked_by'[d] = locked_by[d] /\ locked_by[d] \in Requests \ {r} /\ d # target[r]
    BY <1>1, <1>3 DEF IInv, TypeOK
  <2> QED
    BY <1>1, <1>2, <2>1 DEF QueueInv, PendingLocks
<1>10. OneSuccessEach'
  BY <1>1, <1>4, NoNewSuccess
<1>11. \A d \in scanned[r] : documents[d].status # "absent"
  BY DEF QueueInv, Seen
<1> QED
  BY <1>1, <1>4, <1>5, <1>6, <1>7, <1>8, <1>9, <1>10, <1>11, QueueInvOfOne

LEMMA NextQueueInv == IInv /\ IInv' /\ QueueInv /\ [Next]_vars => QueueInv'
<1> SUFFICES ASSUME IInv, IInv', QueueInv, [Next]_vars PROVE QueueInv'
  OBVIOUS
<1>1. CASE UNCHANGED vars
  BY <1>1 DEF vars, QueueInv, Seen, Begun, Told, PendingLocks, PassedOver,
              OneSuccessEach, NoneFailed, LeftInQueue
<1>2. ASSUME NEW batch \in SUBSET Documents, NEW t \in CreatedAt,
             BulkInsertPending(batch, t)
      PROVE  QueueInv'
  BY <1>2, BulkInsertPendingQueueInv
<1>3. ASSUME NEW r \in Requests, Submit(r) PROVE QueueInv'
  BY <1>3, ClaimDocumentQueueInv, MakeDecisionQueueInv DEF Submit
<1>4. ASSUME NEW r \in Requests, Advance(r) PROVE QueueInv'
  <2>1. CASE \E d \in Documents :
                SkipLockedRow(r, d) \/ SkipClaimedRow(r, d) \/ TakeRow(r, d)
    BY <2>1, SkipRowQueueInv, TakeRowQueueInv
  <2>2. CASE EmptyQueue(r)
    <3>1. /\ Rollback(r, "done", "404") /\ "404" \in Reply
          /\ UNCHANGED <<request, snapshot, scanned, session>>
          /\ pc[r] = "selecting" /\ snapshot[r] \subseteq scanned[r]
      BY <2>2 DEF EmptyQueue, Reply
    <3> QED
      BY <3>1, EndQueueInv DEF Writing
  <2>3. CASE LockDecidable(r)
    BY <2>3, LockDecidableQueueInv
  <2>4. CASE LockDecided(r)
    <3>1. /\ Rollback(r, "done", "422") /\ "422" \in Reply
          /\ UNCHANGED <<request, snapshot, scanned, session>>
          /\ pc[r] = "waiting"
      BY <2>4 DEF LockDecided, Reply
    <3> QED
      BY <3>1, EndQueueInv DEF Writing
  <2>5. CASE Respond(r) \/ Commit(r)
    BY <2>5, RespondQueueInv, CommitQueueInv
  <2> QED
    BY <1>4, <2>1, <2>2, <2>3, <2>4, <2>5 DEF Advance
<1>5. ASSUME NEW r \in Requests, Abort(r) PROVE QueueInv'
  <2> DEFINE code == IF pc[r] = "answered" THEN reply[r] ELSE "500"
  <2>1. /\ Rollback(r, "failed", code) /\ code \in Reply
        /\ UNCHANGED <<request, snapshot, scanned, session>>
    BY <1>5 DEF Abort, IInv, TypeOK, Reply
  <2>2. pc[r] # "failed"
    BY <1>5 DEF Abort, Active, Selecting, Writing
  <2>3. /\ code = "404" => snapshot[r] \subseteq scanned[r]
        /\ code = "200" => reply[r] = "200"
    BY DEF QueueInv, Seen
  <2> HIDE DEF code
  <2> QED
    BY <2>1, <2>2, <2>3, EndQueueInv
<1> QED
  BY <1>1, <1>2, <1>3, <1>4, <1>5 DEF Next

LEMMA QueueInvariance == Spec => []QueueInv
BY Invariance, QueueInitInv, NextQueueInv, PTL DEF Spec

(* claim_next assigns the oldest: as long as no transaction has failed, no *)
(* document older than the one it chose, of those its SELECT saw, is left  *)
(* for anybody, however many claims skip each other's rows.                *)
THEOREM OldestIsClaimed == Spec => []OldestFirst
<1>1. QueueInv => OldestFirst
  BY DEF QueueInv, Seen, PassedOver, OldestFirst
<1> QED
  BY QueueInvariance, <1>1, PTL

(* "No pending documents in queue" is the truth about every document the   *)
(* SELECT saw, as long as no transaction has failed.                       *)
THEOREM EmptyMeansEmpty == Spec => []EmptyQueueIsEmpty
<1>1. QueueInv => EmptyQueueIsEmpty
  BY DEF QueueInv, Seen, PassedOver, EmptyQueueIsEmpty
<1> QED
  BY QueueInvariance, <1>1, PTL

(* No two claims are answered 200 with one document and no two decisions   *)
(* on one document are answered 200, as long as no transaction has failed. *)
THEOREM SucceedsOnce == Spec => []OneSuccessEach
<1>1. QueueInv => OneSuccessEach
  BY DEF QueueInv
<1> QED
  BY QueueInvariance, <1>1, PTL

-----------------------------------------------------------------------------
(* The transactions implement DocumentQueue, and therefore keep its        *)
(* promises: BulkInsertPending maps to Insert, Commit to Claim or Decide,  *)
(* and every other step leaves the tables alone.                           *)

\* The promise, with its theorems.
Promise == INSTANCE DocumentQueueProofs WITH EventIds <- Requests

(* DocumentQueue's operators on rows are those of DocumentModel.           *)
LEMMA SameOperators ==
    /\ Queue!FinalStatus = FinalStatus
    /\ \A row, a, reason : Queue!DecidedRow(row, a, reason) = DecidedRow(row, a, reason)
    /\ \A row, o : Queue!ClaimedRow(row, o) = ClaimedRow(row, o)
    /\ \A d, row : Queue!OutputMessage(d, row) = OutputMessage(d, row)
BY DEF Queue!FinalStatus, FinalStatus, Queue!DecidedRow, DecidedRow,
       Queue!ClaimedRow, ClaimedRow, Queue!OutputMessage, OutputMessage

LEMMA QueueInit == Init => Queue!Init
BY DEF Init, Queue!Init, Absent, Queue!Absent

LEMMA InsertStep ==
    ASSUME NEW batch \in SUBSET Documents, NEW t \in CreatedAt,
           BulkInsertPending(batch, t)
    PROVE  Queue!Next
<1>1. Queue!Insert(batch, t)
  BY DEF BulkInsertPending, Queue!Insert, InsertPending, Queue!InsertPending,
         PendingRow, Queue!PendingRow, Absent, Queue!Absent
<1> QED
  BY <1>1 DEF Queue!Next

(* A commit is one step of the promise: the claim or the decision that the *)
(* session has held since its SELECT returned.                             *)
LEMMA CommitStep ==
    ASSUME IInv, NEW r \in Requests, Commit(r)
    PROVE  Queue!Next
<1> DEFINE d == target[r]
<1>1. d \in Documents /\ (Claiming(r) \/ Deciding(r))
  BY DEF IInv, RequestOK, Commit, Writing
<1>2. CASE Claiming(r)
  <2>1. request[r].operator \in Operators
    BY <1>2 DEF Claiming, ClaimRequest
  <2>2. Queue!Claim(request[r].operator, d)
    BY <1>2, SameOperators DEF Queue!Claim, Claiming, Commit
  <2> QED
    BY <1>1, <2>1, <2>2 DEF Queue!Next
<1>3. CASE Deciding(r)
  <2> DEFINE o == request[r].operator
             a == request[r].action
             reason == request[r].reason
  <2>1. /\ o \in Operators /\ a \in Queue!DocumentStatus /\ reason \in BOOLEAN
    BY <1>3 DEF Deciding, DecisionRequest, DocumentStatus, Queue!DocumentStatus
  <2>2. \A e \in outbox : e.id # r
    BY DEF IInv, EventsAreOfTheDone, Commit
  <2>3. Queue!ValidDecision(a, reason) /\ Queue!DecidableBy(documents[d], o)
    BY <1>3 DEF Deciding, ValidDecision, Queue!ValidDecision, DecidableBy,
                Queue!DecidableBy, FinalStatus, Queue!FinalStatus
  <2>4. /\ documents' = [documents EXCEPT ![d] = Queue!DecidedRow(documents[d], a, reason)]
        /\ outbox' = outbox \cup
              {[ id |-> r, aggregate_id |-> d,
                 payload |-> Queue!OutputMessage(d,
                                Queue!DecidedRow(documents[d], a, reason)) ]}
    BY <1>3, SameOperators DEF Deciding, EventOf, Commit
  <2>5. Queue!Decide(o, d, a, reason, r)
    BY <2>2, <2>3, <2>4 DEF Queue!Decide
  <2> QED
    BY <1>1, <2>1, <2>5 DEF Queue!Next
<1> QED
  BY <1>1, <1>2, <1>3

LEMMA QueueStep == IInv /\ [Next]_vars => [Queue!Next]_(Queue!vars)
<1> SUFFICES ASSUME IInv, [Next]_vars PROVE [Queue!Next]_(Queue!vars)
  OBVIOUS
<1> USE DEF Queue!vars
<1>1. CASE UNCHANGED vars
  BY <1>1 DEF vars
<1>2. ASSUME NEW batch \in SUBSET Documents, NEW t \in CreatedAt,
             BulkInsertPending(batch, t)
      PROVE  Queue!Next
  BY <1>2, InsertStep
<1>3. ASSUME NEW r \in Requests, Submit(r) PROVE UNCHANGED Queue!vars
  BY <1>3 DEF Submit, ClaimDocument, MakeDecision, Rollback, tables
<1>4. ASSUME NEW r \in Requests, Advance(r) PROVE [Queue!Next]_(Queue!vars)
  <2>1. CASE Commit(r)
    BY <2>1, CommitStep
  <2>2. CASE \E d \in Documents :
                SkipLockedRow(r, d) \/ SkipClaimedRow(r, d) \/ TakeRow(r, d)
    BY <2>2 DEF SkipLockedRow, SkipClaimedRow, TakeRow, tables
  <2>3. CASE EmptyQueue(r) \/ LockDecided(r)
    BY <2>3 DEF EmptyQueue, LockDecided, Rollback
  <2>4. CASE LockDecidable(r) \/ Respond(r)
    BY <2>4 DEF LockDecidable, Respond, tables
  <2> QED
    BY <1>4, <2>1, <2>2, <2>3, <2>4 DEF Advance
<1>5. ASSUME NEW r \in Requests, Abort(r) PROVE UNCHANGED Queue!vars
  BY <1>5 DEF Abort, Rollback
<1> QED
  BY <1>1, <1>2, <1>3, <1>4, <1>5 DEF Next

(* Seen through the committed tables, every execution of the requests is   *)
(* one of atomic inserts, claims and decisions (get_db_session,            *)
(* DocumentService.claim_next and make_decision).                          *)
THEOREM Refinement == Spec => QueueSpec
BY Invariance, QueueInit, QueueStep, PTL DEF Spec, QueueSpec, Queue!Spec

(* DocumentQueue and DocumentQueueProofs mean the same by the same names.  *)
LEMMA SamePromise ==
    /\ Queue!Spec => Promise!Spec
    /\ Promise!OutboxMatchesDocuments <=> OutboxMatchesDocuments
    /\ Promise!DocumentsMoveForward <=> DocumentsMoveForward
<1>1. Promise!Init <=> Queue!Init
  BY DEF Promise!Init, Queue!Init, Promise!Absent, Queue!Absent
<1>2. \A batch, t : Promise!Insert(batch, t) <=> Queue!Insert(batch, t)
  BY DEF Promise!Insert, Queue!Insert, Promise!InsertPending,
         Queue!InsertPending, Promise!PendingRow, Queue!PendingRow,
         Promise!Absent, Queue!Absent
<1>3. \A o, d : Promise!Claim(o, d) <=> Queue!Claim(o, d)
  BY DEF Promise!Claim, Queue!Claim, Promise!ClaimedRow, Queue!ClaimedRow
<1>4. \A o, d, a, reason, id :
         Promise!Decide(o, d, a, reason, id) <=> Queue!Decide(o, d, a, reason, id)
  BY DEF Promise!Decide, Queue!Decide, Promise!DecidedRow, Queue!DecidedRow,
         Promise!ValidDecision, Queue!ValidDecision, Promise!FinalStatus,
         Queue!FinalStatus, Promise!DecidableBy, Queue!DecidableBy,
         Promise!OutputMessage, Queue!OutputMessage
<1>5. Promise!Next <=> Queue!Next
  BY <1>2, <1>3, <1>4 DEF Promise!Next, Queue!Next, Promise!DocumentStatus,
                          Queue!DocumentStatus
<1>6. Queue!Spec => Promise!Spec
  <2>1. [Queue!Next]_(Queue!vars) => [Promise!Next]_(Promise!vars)
    BY <1>5 DEF Queue!vars, Promise!vars
  <2>2. Queue!Init => Promise!Init
    BY <1>1
  <2> QED
    BY <2>1, <2>2, PTL DEF Queue!Spec, Promise!Spec
<1>7. Promise!OutboxMatchesDocuments <=> OutboxMatchesDocuments
  BY DEF OutboxMatchesDocuments, Promise!OutboxMatchesDocuments,
         Queue!OutboxMatchesDocuments, Promise!FinalStatus, Queue!FinalStatus,
         Promise!OutputMessage, Queue!OutputMessage
<1>8. Promise!DocumentsMoveForward <=> DocumentsMoveForward
  <2> DEFINE P == \A d \in Documents : Promise!Forward(documents[d], documents'[d])
             Q == \A d \in Documents : Queue!Forward(documents[d], documents'[d])
  <2>1. [P]_(Promise!vars) <=> [Q]_(Queue!vars)
    BY DEF Promise!vars, Queue!vars, Promise!Forward, Queue!Forward,
           Promise!FinalStatus, Queue!FinalStatus
  <2> HIDE DEF P, Q
  <2>2. [][P]_(Promise!vars) <=> [][Q]_(Queue!vars)
    BY <2>1, PTL
  <2> QED
    BY <2>2 DEF P, Q, DocumentsMoveForward, Promise!DocumentsMoveForward,
                Queue!DocumentsMoveForward
<1> QED
  BY <1>6, <1>7, <1>8

(* Decisions and outbox events correspond one to one, with transactions    *)
(* that interleave and fail as well.                                       *)
THEOREM OutboxCorrect == Spec => []OutboxMatchesDocuments
<1>1. Promise!Spec => []Promise!OutboxMatchesDocuments
  BY Promise!OutboxCorrect, DocumentModelAssumption
<1>2. Promise!OutboxMatchesDocuments => OutboxMatchesDocuments
  BY SamePromise
<1> QED
  BY Refinement, SamePromise, <1>1, <1>2, PTL DEF QueueSpec

(* A document is queued, claimed by one operator and decided by the same,  *)
(* in that order and once, and is never queued again.                      *)
THEOREM LifeCycle == Spec => DocumentsMoveForward
<1>1. Promise!Spec => Promise!DocumentsMoveForward
  BY Promise!LifeCycle, DocumentModelAssumption
<1> QED
  BY Refinement, SamePromise, <1>1, PTL DEF QueueSpec

-----------------------------------------------------------------------------
(* The pool.                                                               *)

\* A transaction is open only on a connection.
ActiveAreConnected == \A r \in Requests : pc[r] \in Active => stage[r] = "connected"

PooledIInv ==
    /\ IInv
    /\ PooledTypeOK
    /\ ActiveAreConnected

(* Whoever goes on with a transaction, or loses it, has one.               *)
LEMMA OwnTransaction ==
    ASSUME TypeOK, NEW r \in Requests, Advance(r) \/ Abort(r)
    PROVE  pc[r] \in Active /\ \A s \in Requests \ {r} : pc'[s] = pc[s]
<1> USE DEF Active, Selecting, Writing, TypeOK
<1>1. CASE \E d \in Documents :
              SkipLockedRow(r, d) \/ SkipClaimedRow(r, d) \/ TakeRow(r, d)
  BY <1>1 DEF SkipLockedRow, SkipClaimedRow, TakeRow
<1>2. CASE EmptyQueue(r)
  BY <1>2 DEF EmptyQueue, Rollback
<1>3. CASE LockDecided(r)
  BY <1>3 DEF LockDecided, Rollback
<1>4. CASE LockDecidable(r)
  BY <1>4 DEF LockDecidable
<1>5. CASE Respond(r) \/ Commit(r)
  BY <1>5 DEF Respond, Commit
<1>6. CASE Abort(r)
  BY <1>6 DEF Abort, Rollback
<1> QED
  BY <1>1, <1>2, <1>3, <1>4, <1>5, <1>6 DEF Advance

LEMMA SubmitTransaction ==
    ASSUME TypeOK, NEW r \in Requests, Submit(r)
    PROVE  \A s \in Requests \ {r} : pc'[s] = pc[s]
BY DEF Submit, ClaimDocument, MakeDecision, Rollback, TypeOK

(* Every step of the pooled system is one of the requests, or none.        *)
LEMMA PooledStep == [PooledNext]_pooledVars => [Next]_vars
<1> SUFFICES ASSUME [PooledNext]_pooledVars PROVE [Next]_vars
  OBVIOUS
<1>1. CASE UNCHANGED pooledVars
  BY <1>1 DEF pooledVars
<1>2. CASE \E batch \in SUBSET Documents, t \in CreatedAt :
              BulkInsertPending(batch, t) /\ UNCHANGED pool
  BY <1>2 DEF Next
<1>3. CASE \E r \in Requests : Arrive(r) \/ LeaveAtOnce(r) \/ CheckOutTimesOut(r)
  BY <1>3 DEF Arrive, LeaveAtOnce, CheckOutTimesOut
<1>4. CASE \E r \in Requests : Serve(r)
  BY <1>4 DEF Serve, CheckOut, Begin, CheckIn, Next
<1>5. CASE \E r \in Requests : Abort(r) /\ UNCHANGED pool
  BY <1>5 DEF Next
<1>6. CASE \E o \in Others : OtherTakes(o) \/ OtherReturns(o)
  BY <1>6 DEF OtherTakes, OtherReturns
<1> QED
  BY <1>1, <1>2, <1>3, <1>4, <1>5, <1>6 DEF PooledNext

(* Connections only delay and refuse: what DocumentRequests promises holds *)
(* for requests that run on a bounded pool (db/session.py).                *)
THEOREM PooledRefinement == PooledSpec => Spec
<1>1. PooledInit => Init
  BY DEF PooledInit
<1> QED
  BY <1>1, PooledStep, PTL DEF PooledSpec, Spec

LEMMA HoldersFinite == \A p : IsFiniteSet(Holders(p)) \/ ~(busy \subseteq Others)
<1> SUFFICES ASSUME NEW p, busy \subseteq Others PROVE IsFiniteSet(Holders(p))
  OBVIOUS
<1>1. Holders(p) \subseteq Requests \cup Others
  BY DEF Holders
<1> QED
  BY <1>1, FS_Subset, PooledRequestsAssumption

LEMMA AddOne ==
    ASSUME NEW S, NEW u, IsFiniteSet(S), Cardinality(S) \in Nat
    PROVE  /\ IsFiniteSet(S \cup {u})
           /\ Cardinality(S \cup {u}) \in Nat
           /\ Cardinality(S \cup {u}) <= Cardinality(S) + 1
<1>1. /\ IsFiniteSet(S \cup {u})
      /\ Cardinality(S \cup {u}) =
            IF u \in S THEN Cardinality(S) ELSE Cardinality(S) + 1
  BY FS_AddElement
<1> QED
  BY <1>1

(* Who takes a connection that is available fills the pool at most.        *)
LEMMA TakesOne ==
    ASSUME PooledTypeOK, NEW u \in Requests \cup Others, Available(ProcessOf[u]),
           \A p \in Processes : Holders(p)' \subseteq
              IF p = ProcessOf[u] THEN Holders(p) \cup {u} ELSE Holders(p)
    PROVE  \A p \in Processes : Cardinality(Holders(p)') <= PoolLimit
<1> TAKE p \in Processes
<1>1. IsFiniteSet(Holders(p)) /\ Cardinality(Holders(p)) \in Nat
  BY HoldersFinite, FS_CardinalityType DEF PooledTypeOK
<1>2. PoolLimit \in Nat
  BY PooledRequestsAssumption
<1>3. CASE p = ProcessOf[u]
  <2>1. Cardinality(Holders(p)) + 1 <= PoolLimit
    BY <1>1, <1>2, <1>3 DEF Available
  <2>2. /\ IsFiniteSet(Holders(p) \cup {u})
        /\ Cardinality(Holders(p) \cup {u}) \in Nat
        /\ Cardinality(Holders(p) \cup {u}) <= Cardinality(Holders(p)) + 1
    BY <1>1, AddOne
  <2>3. Holders(p)' \subseteq Holders(p) \cup {u}
    BY <1>3
  <2>4. /\ Cardinality(Holders(p)') <= Cardinality(Holders(p) \cup {u})
        /\ Cardinality(Holders(p)') \in Nat
    BY <2>2, <2>3, FS_Subset, FS_CardinalityType
  <2> QED
    BY <1>1, <1>2, <2>1, <2>2, <2>4
<1>4. CASE p # ProcessOf[u]
  <2>1. Holders(p)' \subseteq Holders(p)
    BY <1>4
  <2>2. /\ Cardinality(Holders(p)') <= Cardinality(Holders(p))
        /\ Cardinality(Holders(p)') \in Nat
    BY <1>1, <2>1, FS_Subset, FS_CardinalityType
  <2> QED
    BY <1>1, <1>2, <2>2 DEF PooledTypeOK
<1> QED
  BY <1>3, <1>4

(* Who takes none leaves the pool as full as it was, or less.              *)
LEMMA TakesNone ==
    ASSUME PooledTypeOK, \A p \in Processes : Holders(p)' \subseteq Holders(p)
    PROVE  \A p \in Processes : Cardinality(Holders(p)') <= PoolLimit
<1> TAKE p \in Processes
<1>1. IsFiniteSet(Holders(p)) /\ Cardinality(Holders(p)) \in Nat
  BY HoldersFinite, FS_CardinalityType DEF PooledTypeOK
<1>2. /\ Cardinality(Holders(p)') <= Cardinality(Holders(p))
      /\ Cardinality(Holders(p)') \in Nat
  BY <1>1, FS_Subset, FS_CardinalityType
<1> QED
  BY <1>1, <1>2, PooledRequestsAssumption DEF PooledTypeOK

LEMMA PooledInitIInv == PooledInit => PooledIInv
<1> SUFFICES ASSUME PooledInit PROVE PooledIInv
  OBVIOUS
<1>1. IInv
  BY InitIInv DEF PooledInit
<1>2. \A p \in Processes : Holders(p) = {}
  BY DEF PooledInit, Holders
<1>3. \A p \in Processes : Cardinality(Holders(p)) <= PoolLimit
  BY <1>2, FS_EmptySet, PooledRequestsAssumption
<1>4. PooledTypeOK
  BY <1>1, <1>3 DEF IInv, PooledInit, PooledTypeOK
<1>5. ActiveAreConnected
  BY DEF PooledInit, Init, ActiveAreConnected, Active, Selecting, Writing
<1> QED
  BY <1>1, <1>4, <1>5 DEF PooledIInv

LEMMA PooledNextIInv == PooledIInv /\ [PooledNext]_pooledVars => PooledIInv'
<1> SUFFICES ASSUME PooledIInv, [PooledNext]_pooledVars PROVE PooledIInv'
  OBVIOUS
<1>1. IInv'
  BY PooledStep, NextIInv DEF PooledIInv
<1>2. TypeOK /\ TypeOK'
  BY <1>1 DEF PooledIInv, IInv
<1> DEFINE Goal ==
        /\ (stage \in [Requests -> {"new", "queued", "connected", "returned"}])'
        /\ (busy \subseteq Others)'
        /\ \A p \in Processes : Cardinality(Holders(p)') <= PoolLimit
        /\ ActiveAreConnected'
<1> SUFFICES Goal
  BY <1>1, <1>2 DEF PooledIInv, PooledTypeOK
<1> USE DEF PooledIInv, PooledTypeOK
<1>3. CASE UNCHANGED pooledVars
  <2>1. UNCHANGED <<pc, stage, busy>>
    BY <1>3 DEF pooledVars, vars, pool
  <2>2. \A p : Holders(p)' = Holders(p)
    BY <2>1 DEF Holders
  <2> QED
    BY <2>1, <2>2 DEF ActiveAreConnected
<1>4. CASE \E batch \in SUBSET Documents, t \in CreatedAt :
              BulkInsertPending(batch, t) /\ UNCHANGED pool
  <2>1. UNCHANGED <<pc, stage, busy>>
    BY <1>4 DEF BulkInsertPending, pool
  <2>2. \A p : Holders(p)' = Holders(p)
    BY <2>1 DEF Holders
  <2> QED
    BY <2>1, <2>2 DEF ActiveAreConnected
<1>5. ASSUME NEW r \in Requests, CheckOut(r)
      PROVE  Goal
  <2>1. /\ stage' = [stage EXCEPT ![r] = "connected"]
        /\ UNCHANGED <<pc, busy>>
        /\ Available(ProcessOf[r])
    BY <1>5 DEF CheckOut, vars
  <2>2. \A p \in Processes : Holders(p)' \subseteq
           IF p = ProcessOf[r] THEN Holders(p) \cup {r} ELSE Holders(p)
    BY <2>1 DEF Holders
  <2>3. \A p \in Processes : Cardinality(Holders(p)') <= PoolLimit
    BY <2>1, <2>2, TakesOne
  <2> QED
    BY <2>1, <2>3 DEF ActiveAreConnected
<1>6. ASSUME NEW o \in Others, OtherTakes(o)
      PROVE  Goal
  <2>1. /\ busy' = busy \cup {o}
        /\ UNCHANGED <<pc, stage>>
        /\ Available(ProcessOf[o])
    BY <1>6 DEF OtherTakes, vars
  <2>2. \A p \in Processes : Holders(p)' \subseteq
           IF p = ProcessOf[o] THEN Holders(p) \cup {o} ELSE Holders(p)
    BY <2>1 DEF Holders
  <2>3. \A p \in Processes : Cardinality(Holders(p)') <= PoolLimit
    BY <2>1, <2>2, TakesOne
  <2> QED
    BY <2>1, <2>3 DEF ActiveAreConnected
<1>7. ASSUME NEW o \in Others, OtherReturns(o)
      PROVE  Goal
  <2>1. busy' \subseteq busy /\ UNCHANGED <<pc, stage>>
    BY <1>7 DEF OtherReturns, vars
  <2>2. \A p \in Processes : Holders(p)' \subseteq Holders(p)
    BY <2>1 DEF Holders
  <2>3. \A p \in Processes : Cardinality(Holders(p)') <= PoolLimit
    BY <2>2, TakesNone
  <2> QED
    BY <2>1, <2>3 DEF ActiveAreConnected
<1>8. ASSUME NEW r \in Requests,
             Arrive(r) \/ LeaveAtOnce(r) \/ CheckOutTimesOut(r) \/ CheckIn(r)
      PROVE  Goal
  <2>1. PICK to \in {"queued", "returned"} : stage' = [stage EXCEPT ![r] = to]
    BY <1>8 DEF Arrive, LeaveAtOnce, CheckOutTimesOut, CheckIn
  <2>2. UNCHANGED <<pc, busy>>
    BY <1>8 DEF Arrive, LeaveAtOnce, CheckOutTimesOut, CheckIn, vars
  <2>3. pc[r] \notin Active
    <3>1. CASE stage[r] \in {"new", "queued"}
      BY <3>1 DEF ActiveAreConnected
    <3>2. CASE pc[r] \in {"idle", "done", "failed"}
      BY <3>2 DEF Active, Selecting, Writing
    <3> QED
      BY <1>8, <3>1, <3>2 DEF Arrive, LeaveAtOnce, CheckOutTimesOut, CheckIn
  <2>4. \A p \in Processes : Holders(p)' \subseteq Holders(p)
    BY <2>1, <2>2 DEF Holders
  <2>5. \A p \in Processes : Cardinality(Holders(p)') <= PoolLimit
    BY <2>4, TakesNone
  <2> QED
    BY <2>1, <2>2, <2>3, <2>5 DEF ActiveAreConnected
<1>9. ASSUME NEW r \in Requests,
             \/ Begin(r)
             \/ (Advance(r) \/ Abort(r)) /\ UNCHANGED pool
      PROVE  Goal
  <2>1. UNCHANGED <<stage, busy>>
    BY <1>9 DEF Begin, pool
  <2>2. stage[r] = "connected" /\ \A s \in Requests \ {r} : pc'[s] = pc[s]
    BY <1>2, <1>9, OwnTransaction, SubmitTransaction DEF Begin, ActiveAreConnected
  <2>3. \A p : Holders(p)' = Holders(p)
    BY <2>1 DEF Holders
  <2> QED
    BY <2>1, <2>2, <2>3 DEF ActiveAreConnected
<1>10. Goal
  <2>1. ASSUME NEW r \in Requests, Serve(r) PROVE Goal
    BY <2>1, <1>5, <1>8, <1>9 DEF Serve
  <2>2. ASSUME NEW r \in Requests,
               \/ Arrive(r) \/ LeaveAtOnce(r) \/ CheckOutTimesOut(r)
               \/ Abort(r) /\ UNCHANGED pool
        PROVE  Goal
    BY <2>2, <1>8, <1>9
  <2>3. ASSUME NEW o \in Others, OtherTakes(o) \/ OtherReturns(o) PROVE Goal
    BY <2>3, <1>6, <1>7
  <2>4. CASE UNCHANGED pooledVars
    BY <2>4, <1>3
  <2>5. CASE \E batch \in SUBSET Documents, t \in CreatedAt :
                BulkInsertPending(batch, t) /\ UNCHANGED pool
    BY <2>5, <1>4
  <2> HIDE DEF Goal
  <2> QED
    BY <2>1, <2>2, <2>3, <2>4, <2>5 DEF PooledNext
<1> QED
  BY <1>10

LEMMA PooledInvariance == PooledSpec => []PooledIInv
BY PooledInitIInv, PooledNextIInv, PTL DEF PooledSpec

(* No more than DB_POOL_SIZE + DB_MAX_OVERFLOW connections of a process    *)
(* are in use, whoever asks for them (db/session.py).                      *)
THEOREM PooledTypeCorrect == PooledSpec => []PooledTypeOK
<1>1. PooledIInv => PooledTypeOK
  BY DEF PooledIInv
<1> QED
  BY PooledInvariance, <1>1, PTL

(* No connection goes back with a transaction open or a row locked         *)
(* (get_db_session: commit or rollback, then close).                       *)
THEOREM LocksOnConnections == PooledSpec => []LocksAreConnected
<1>1. PooledIInv => LocksAreConnected
  BY DocumentRequestsAssumption DEF PooledIInv, IInv, HoldersAlive,
     ActiveAreConnected, LocksAreConnected, Active, Selecting, Writing
<1> QED
  BY PooledInvariance, <1>1, PTL

=============================================================================
