------------------------- MODULE MCDocumentRequests -------------------------
(* Small instances of DocumentRequests for TLC. *)
EXTENDS DocumentRequests, TLC

\* Documents, operators and requests are interchangeable.
Symmetry ==
    Permutations(Documents) \cup Permutations(Operators) \cup Permutations(Requests)
=============================================================================
