----------------------------- MODULE MCCwIndex ------------------------------
(* Instances of CwIndex for TLC.  The streams of a service are named after  *)
(* it, so that services can be exchanged.                                   *)
EXTENDS CwIndex, TLC

OneEach == [s \in Sids |-> <<s>>]
TwoEach == [s \in Sids |-> <<<<s, 1>>, <<s, 2>>>>]
Symmetry == Permutations(Sids)
=============================================================================
