------------------------- MODULE MCRequestLifecycle -------------------------
(***************************************************************************)
(* RequestLifecycle on small instances.                                    *)
(***************************************************************************)
EXTENDS RequestLifecycle, TLC

CONSTANTS r1, r2, d1, d2

\* Both requests ask for the same dataset.
SameDataset == [r \in Request |-> d1]

\* Each request asks for a dataset of its own.
OwnDatasets == [r \in Request |-> IF r = r1 THEN d1 ELSE d2]

Symmetry == Permutations(Worker) \cup Permutations(Finder)
SymmetryOfAll == Symmetry \cup Permutations(Request)
=============================================================================
