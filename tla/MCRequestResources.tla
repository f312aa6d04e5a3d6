-------------------------- MODULE MCRequestResources --------------------------
(***************************************************************************)
(* One request that is followed and the bucket of another one, for TLC.    *)
(***************************************************************************)
EXTENDS RequestResources, TLC

\* Nothing checks the number of transformers a request asks for.
AskedFor == {-1, 0, 2}

\* The handlers that end a request are alike.
Symmetry == Permutations(Ender)
=============================================================================
