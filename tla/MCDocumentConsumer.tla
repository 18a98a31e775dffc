------------------------ MODULE MCDocumentConsumer ------------------------
(* Small instances of DocumentConsumer for TLC. *)
EXTENDS DocumentConsumer, TLC

\* Documents, partitions and consumers are interchangeable.
Symmetry ==
    Permutations(Documents) \cup Permutations(Partitions) \cup Permutations(Consumers)
============================================================================
