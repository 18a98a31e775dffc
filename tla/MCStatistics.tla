---------------------------- MODULE MCStatistics ----------------------------
(* Small instances of Statistics for TLC. *)
EXTENDS Statistics, TLC

\* Documents, operators, events and reports are interchangeable.
Symmetry ==
    Permutations(Documents) \cup Permutations(Operators)
        \cup Permutations(EventIds) \cup Permutations(Reports)
=============================================================================
