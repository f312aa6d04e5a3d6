-------------------------- MODULE MCTransformation --------------------------
(***************************************************************************)
(* Transformation on a small instance.                                     *)
(***************************************************************************)
EXTENDS Transformation, TLC

\* Files and workers are interchangeable; only for the run without liveness.
Symmetry == Permutations(File) \cup Permutations(Worker)
=============================================================================
