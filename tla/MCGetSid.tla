------------------------------ MODULE MCGetSid ------------------------------
(* Instances of GetSid for TLC.  The first transponder offers two services,*)
(* the second one whose pid is used on the first, too.                     *)
EXTENDS GetSid, TLC

MCOffers   == [tp \in Transponders |-> IF tp = "A" THEN {1, 2} ELSE {3}]
MCEpidList == (1 :> <<11, 12>>) @@ (2 :> <<21>>) @@ (3 :> <<11>>)
=============================================================================
