---------------------------- MODULE MCMsgQueue ------------------------------
(* Instances of MsgQueue for TLC: the .cfg files fix its constants.        *)
EXTENDS MsgQueue, TLC
=============================================================================
