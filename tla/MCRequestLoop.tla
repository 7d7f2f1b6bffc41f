---------------------------- MODULE MCRequestLoop ----------------------------
(* Two files of one device.                                                *)
EXTENDS RequestLoop

Symmetry == Permutations(Files)
=============================================================================
