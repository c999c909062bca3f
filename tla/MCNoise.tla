------------------------------- MODULE MCNoise -------------------------------
(***************************************************************************)
(* Nodes, workers and indices are interchangeable.                         *)
(***************************************************************************)
EXTENDS Noise, TLC

Interchangeable ==
    Permutations(Nodes) \cup Permutations(Indices) \cup Permutations(Workers)
=============================================================================
