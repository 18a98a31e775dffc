-------------------------- MODULE MCPooledRequests --------------------------
(* Small instances of PooledRequests for TLC.  One request runs in another  *)
(* process; the rest share a pool, also with a relay.                       *)
EXTENDS PooledRequests

CONSTANTS p1, p2, Remote

MCProcessOf == [u \in Requests \cup Others |-> IF u = Remote THEN p2 ELSE p1]
=============================================================================
