--------------------------- MODULE MCAppLifespan ---------------------------
(* Small instances of AppLifespan for TLC. *)
EXTENDS AppLifespan
=============================================================================
