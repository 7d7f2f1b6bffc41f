---------------------------- MODULE MCDvbLoopback ---------------------------
(* Instances of DvbLoopback for TLC: the .cfg files fix its constants.     *)
EXTENDS DvbLoopback, TLC

Symmetry == Permutations(Procs) \cup Permutations(Daemons)
=============================================================================
