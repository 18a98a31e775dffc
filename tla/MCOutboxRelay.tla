--------------------------- MODULE MCOutboxRelay ---------------------------
(* Small instances of OutboxRelay for TLC.  Relays are interchangeable, but *)
(* the runs check liveness, where a symmetry set is not sound.              *)
EXTENDS OutboxRelay
=============================================================================
