------------------------------ MODULE MCKeyFile ------------------------------
(* Keys of an id whose new keys supersede the old ones, and of one whose    *)
(* new keys are put before the old ones.                                   *)
EXTENDS KeyFile, TLC

CONSTANTS a1, a2, b1, b2

MCId   == (a1 :> "a") @@ (a2 :> "a") @@ (b1 :> "b") @@ (b2 :> "b")
Header == [key |-> NoKey, live |-> FALSE]
Live(k) == [key |-> k, live |-> TRUE]

MCFirst == [lines |-> <<Header, Live(a1)>>, long |-> FALSE, mtime |-> 1]
MCEdits == {[lines |-> <<Header, Live(a2)>>, long |-> FALSE],
            [lines |-> <<Header, Live(b1)>>, long |-> TRUE]}
=============================================================================
