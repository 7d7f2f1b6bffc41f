----------------------------- MODULE MCDvrRing ------------------------------
(* Instances of DvrRing for TLC: the .cfg files fix its constants.         *)
EXTENDS DvrRing, TLC
=============================================================================
