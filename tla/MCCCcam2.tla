------------------------------- MODULE MCCCcam2 --------------------------------
(* Instances of CCcam2 for TLC: how often the environment does what.       *)
EXTENDS CCcam2, TLC

CONSTANTS r1, r2, s1, s2

Bound(ecm, emm, share, ask, ping, close, round, late) ==
  [ecm |-> ecm, emm |-> emm, share |-> share, ask |-> ask, ping |-> ping,
   close |-> close, watch |-> round, late |-> late]

\* Two ECMs over two shares; EMMs, pings and a server that closes, with the
\* watcher; a server that limits the keys and closes, and EMMs, with writes
\* that time out.
TwoEcms == Bound(2, 0, 2, 0, 0, 0, 0, 0)
Reconnects == Bound(1, 1, 1, 0, 1, 1, 1, 0)
Limited == Bound(1, 0, 1, 1, 0, 1, 0, 1)
LateEmm == Bound(1, 1, 1, 0, 0, 0, 0, 1)
MCBounds == {TwoEcms, Reconnects, Limited, LateEmm}

\* Larger instances, for safety.
BigBounds ==
  {Bound(2, 1, 2, 1, 0, 1, 0, 1), Bound(2, 0, 2, 0, 1, 1, 1, 1),
   Bound(2, 1, 1, 1, 1, 1, 0, 1), Bound(1, 1, 1, 0, 1, 1, 1, 1)}

Symmetry == Permutations(Readers) \cup Permutations(Shares)
===============================================================================
