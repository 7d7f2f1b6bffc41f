----------------------------- MODULE MCCamPids ------------------------------
(* Instances of CamPids for TLC.  The services differ in the number and     *)
(* the order of their streams.                                             *)
EXTENDS CamPids, TLC

OwnPids == (1 :> <<11, 12>>) @@ (2 :> <<21>>) @@ (3 :> <<32, 31>>) @@ (4 :> <<41>>)
           @@ (5 :> <<51>>)
\* Services 1 and 2 share a stream.
SharedPids == (1 :> <<11, 99>>) @@ (2 :> <<99, 21>>) @@ (3 :> <<31>>)
TwoServices == (1 :> <<11, 12>>) @@ (2 :> <<21>>)
=============================================================================
