------------------------- MODULE MCBatchSettlement -------------------------
(* Instances of BatchSettlement for TLC. *)
EXTENDS BatchSettlement, TLC

\* Runs are interchangeable, and so are children when all or none of them
\* have a newer operation.
Symmetry == Permutations(Runs) \cup Permutations(Actions)
              \cup Permutations(Children \ Actions)

=============================================================================
