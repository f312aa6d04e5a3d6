-------------------------- MODULE MCFileCompletion --------------------------
(***************************************************************************)
(* FileCompletion on a small instance.                                     *)
(***************************************************************************)
EXTENDS FileCompletion, TLC

\* Files and workers are interchangeable; only for runs without liveness.
Symmetry == Permutations(File) \cup Permutations(Worker)
=============================================================================
