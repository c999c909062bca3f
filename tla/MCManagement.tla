---------------------------- MODULE MCManagement ----------------------------
(***************************************************************************)
(* Instances of Management.  An address byte holds 0 to 15; a subnet of 8  *)
(* addresses has hosts 2 to 6, more than there are users, one of 4 has     *)
(* host 2 only.  Requests and users are interchangeable.                   *)
(***************************************************************************)
EXTENDS Management, TLC

\* The base address of a subnet that starts at octet 0, and of one that does not.
LowBase  == <<0, 0>>
HighBase == <<0, 8>>

Interchangeable == Permutations(Ids) \cup Permutations(Procs)
=============================================================================
