--------------------------- MODULE PooledRequests ---------------------------
(***************************************************************************)
(* DocumentRequests with the connections that its transactions run on.     *)
(* Each process has one engine with a bounded pool (db/session.py), shared *)
(* by its requests, its relay and its consumer.  A session takes a         *)
(* connection with its first statement, the look-up of the user, and gives *)
(* it back when it is closed after COMMIT or ROLLBACK: a request that      *)
(* waits for a row lock keeps its connection, and the one that has the     *)
(* lock may be in another process.  get_current_user and the controller    *)
(* share one session, because FastAPI resolves get_db_session once per     *)
(* request.                                                                *)
(***************************************************************************)
EXTENDS DocumentRequests, FiniteSets

CONSTANTS
    Processes,   \* the uvicorn workers
    Others,      \* the relays and consumers, who use the same pools
    ProcessOf,   \* the process of a request, a relay or a consumer
    PoolLimit    \* DB_POOL_SIZE + DB_MAX_OVERFLOW

\* A process has one relay and one consumer with one session each, and a
\* pool of more than two connections.
ASSUME PooledRequestsAssumption ==
    /\ ProcessOf \in [Requests \cup Others -> Processes]
    /\ IsFiniteSet(Requests \cup Others)
    /\ PoolLimit \in Nat
    /\ \A p \in Processes : Cardinality({o \in Others : ProcessOf[o] = p}) < PoolLimit

VARIABLES
    stage,   \* what a request has of the pool
    busy     \* those of Others that hold a connection

pool       == <<stage, busy>>
pooledVars == <<vars, pool>>

\* Who holds the connections of a process.
Holders(p) ==
    {u \in {r \in Requests : stage[r] = "connected"} \cup busy : ProcessOf[u] = p}

\* One can be given out, or opened, now.
Available(p) == Cardinality(Holders(p)) < PoolLimit

PooledTypeOK ==
    /\ TypeOK
    /\ stage \in [Requests -> {"new", "queued", "connected", "returned"}]
    /\ busy \subseteq Others
    /\ \A p \in Processes : Cardinality(Holders(p)) <= PoolLimit

PooledInit ==
    /\ Init
    /\ stage = [r \in Requests |-> "new"]
    /\ busy = {}

-----------------------------------------------------------------------------
\* A request arrives; its dependencies are resolved up to the first statement.
Arrive(r) ==
    /\ stage[r] = "new"
    /\ stage' = [stage EXCEPT ![r] = "queued"]
    /\ UNCHANGED <<vars, busy>>

\* Mutant of CheckOut: no limit (max_overflow = -1).
CheckOutUnlimited(r) ==
    /\ stage[r] = "queued"
    /\ stage' = [stage EXCEPT ![r] = "connected"]
    /\ UNCHANGED <<vars, busy>>

CheckOut(r) ==
    /\ stage[r] = "queued"
    /\ Available(ProcessOf[r])
    /\ stage' = [stage EXCEPT ![r] = "connected"]
    /\ UNCHANGED <<vars, busy>>

\* DB_POOL_TIMEOUT has passed: a 500, or the "error" of a health check.
CheckOutTimesOut(r) ==
    /\ stage[r] = "queued"
    /\ ~Available(ProcessOf[r])
    /\ stage' = [stage EXCEPT ![r] = "returned"]
    /\ UNCHANGED <<vars, busy>>

\* The request has no other statement: its user is refused (401, 403), or it
\* is the SELECT 1 of a health check.
LeaveAtOnce(r) ==
    /\ stage[r] = "connected"
    /\ pc[r] = "idle"
    /\ stage' = [stage EXCEPT ![r] = "returned"]
    /\ UNCHANGED <<vars, busy>>

\* Mutant of Begin: the controller gets a session of its own (use_cache=False).
BeginOnSecondConnection(r) ==
    /\ stage[r] = "connected"
    /\ Available(ProcessOf[r])
    /\ Submit(r)
    /\ UNCHANGED pool

\* The handler runs in the session in which the user was looked up.
Begin(r) ==
    /\ stage[r] = "connected"
    /\ Submit(r)
    /\ UNCHANGED pool

\* Mutant of CheckIn: the connection goes back with the response.
CheckInEarly(r) ==
    /\ stage[r] = "connected"
    /\ pc[r] \in {"answered", "done", "failed"}
    /\ stage' = [stage EXCEPT ![r] = "returned"]
    /\ UNCHANGED <<vars, busy>>

\* The session is closed when its transaction is over.
CheckIn(r) ==
    /\ stage[r] = "connected"
    /\ pc[r] \in {"done", "failed"}
    /\ stage' = [stage EXCEPT ![r] = "returned"]
    /\ UNCHANGED <<vars, busy>>

\* A relay starts or ends a batch, a consumer stores one.
OtherTakes(o) ==
    /\ o \notin busy
    /\ Available(ProcessOf[o])
    /\ busy' = busy \cup {o}
    /\ UNCHANGED <<vars, stage>>

OtherReturns(o) ==
    /\ o \in busy
    /\ busy' = busy \ {o}
    /\ UNCHANGED <<vars, stage>>

\* What the process and the pool do for a request that has arrived.  A
\* refused one takes LeaveAtOnce in the place of Begin; no other request may
\* count on leaving.
Serve(r) ==
    \/ CheckOut(r)
    \/ Begin(r)
    \/ Advance(r) /\ UNCHANGED pool
    \/ CheckIn(r)

PooledNext ==
    \/ \E batch \in SUBSET Documents, t \in CreatedAt :
          BulkInsertPending(batch, t) /\ UNCHANGED pool
    \/ \E r \in Requests :
          \/ Arrive(r) \/ Serve(r) \/ LeaveAtOnce(r) \/ CheckOutTimesOut(r)
          \/ Abort(r) /\ UNCHANGED pool
    \/ \E o \in Others : OtherTakes(o) \/ OtherReturns(o)

\* A request that has arrived is served as soon as that is possible.  Nobody
\* is obliged to time out, and relay and consumer, who may wait for Kafka or
\* for the database, are not obliged to give their connections back.
PooledSpec     == PooledInit /\ [][PooledNext]_pooledVars
PooledFairSpec == PooledSpec /\ \A r \in Requests : WF_pooledVars(Serve(r))

-----------------------------------------------------------------------------
(* A transaction and its row locks live on a connection that nobody else   *)
(* can have: none is given back with a transaction open, after an error    *)
(* either, and no row stays locked by a request that is gone               *)
(* (get_db_session: commit or rollback, then close).                       *)
LocksAreConnected ==
    \A r \in Requests :
        pc[r] \in Active \/ (\E d \in Documents : locked_by[d] = r)
        => stage[r] = "connected"

(* Nobody waits for ever for a connection or for a row, and nobody has to  *)
(* time out for that, although waiters hold connections and may fill the   *)
(* pool: who has a lock has a connection already and needs no second one.  *)
EveryArrivalLeaves ==
    \A r \in Requests : stage[r] = "queued" ~> stage[r] = "returned"
=============================================================================
