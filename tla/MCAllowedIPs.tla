---------------------------- MODULE MCAllowedIPs ----------------------------
(***************************************************************************)
(* Addresses of three bits: fifteen prefixes, three levels of branching.   *)
(***************************************************************************)
EXTENDS AllowedIPs

Interchangeable == Permutations(Peers)
=============================================================================
