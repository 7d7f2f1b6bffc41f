----------------------------- MODULE MCEcmHandler -----------------------------
(* Instances of EcmHandler for TLC: one service has two ECMs on a pid of     *)
(* their own and one on a pid that carries nothing, another service only     *)
(* one; what can be decoded changes.                                         *)
EXTENDS EcmHandler, TLC

CONSTANTS s1, s2, e1, e2, e3, y1, y2

MCDescr == (s1 :> {<<>>, <<e1, e3, e2>>}) @@ (s2 :> {<<e2>>})
MCPid == (e1 :> "p1") @@ (e2 :> "p2") @@ (e3 :> "p3")
MCHandles == (y1 :> {e1, e2, e3}) @@ (y2 :> {e1})
MCPri == (y1 :> -10) @@ (y2 :> -15)
MCMaxEcmTry == [y \in Systems |-> 2]
MCCanDecode == <<{<<e1, y2>>}, {<<e2, y1>>}>>

\* One ECM each.  The first system could decode the ECM; now the second can.
OneDescr == (s1 :> {<<e1>>}) @@ (s2 :> {<<e2>>})
NewCard == <<{<<e1, y1>>}, {<<e1, y2>>}>>
===============================================================================
