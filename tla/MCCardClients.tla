---------------------------- MODULE MCCardClients -----------------------------
(* Instances of CardClients for TLC: both clients handle the system id of    *)
(* two ECMs, the first one that of solo, too.                                *)
EXTENDS CardClients, TLC

CONSTANTS solo

MCKind == <<"Camd35", "Radegast">>
MCCaid == [x \in Ecms |-> IF x = solo THEN "first" ELSE "both"]
MCConfigured == <<{"both", "first"}, {"both"}>>
MCAnnounced == <<{{}}, {{}}>>
\* A Newcamd client whose server announces a card after the first login.
MovingKind == <<"Newcamd", "Camd35">>
MovingConfigured == <<{}, {"both", "first"}>>
MovingAnnounced == <<{{}, {"both"}}, {{}}>>

\* The same, with the system id in its configuration.
KnownConfigured == <<{"both"}, {"both", "first"}>>

\* One client that does not number its requests.
LateKind == <<"Camd33">>
LateConfigured == <<{"both", "first"}>>
LateAnnounced == <<{{}}>>

Symmetry == Permutations(Systems) \cup Permutations(Ecms \ {solo})
===============================================================================
