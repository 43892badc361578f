------------------------------- MODULE MCStartup -------------------------------
(* Instances of Startup for TLC.                                           *)
EXTENDS Startup, TLC

Symmetry == Permutations(Handles) \cup Permutations(Servers) \cup Permutations(Epolls)
=============================================================================
