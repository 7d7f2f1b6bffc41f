------------------------------ MODULE CamPids ------------------------------
(***************************************************************************)
(* process_cam and what it relies on: the conditional access core (one     *)
(* cCam per adapter, sc/sasccam.cpp) serves the programs it is told to,    *)
(* and the descrambler knows the pids of the programs it has keys for.     *)
(* CwIndex shows that the core and the descrambler of the source do that.  *)
(***************************************************************************)
EXTENDS ProcessCam

VARIABLES
  prg,     \* per adapter and service: the streams the core serves
  mapped   \* per adapter: the pids the descrambler has in its map

vars == <<camVars, prg, mapped>>

Init == /\ CamInit
        /\ prg = [a \in Adapters |-> [s \in Sids |-> {}]]
        /\ mapped = [a \in Adapters |-> {}]

\* sascCam::AddPrg: streams that are new to the program are mapped.
AddPrg(a, s, pids) ==
  /\ prg' = [prg EXCEPT ![a][s] = pids]
  /\ mapped' = [mapped EXCEPT ![a] = @ \cup (pids \ prg[a][s])]

\* sascCam::Stop: no program is served any more.
Stop(a) == /\ prg' = [prg EXCEPT ![a] = [s \in Sids |-> {}]]
           /\ UNCHANGED mapped

\* sascCam::Tune: another transponder stops the programs of the old one.
Tune(a) == Stop(a) \/ UNCHANGED <<prg, mapped>>

\* update_keys 'C' and 'I'.
ClosePid(a, pids) == /\ mapped' = [mapped EXCEPT ![a] = @ \ pids]
                     /\ UNCHANGED prg
Invalidate(a) == /\ mapped' = [mapped EXCEPT ![a] = {}]
                 /\ UNCHANGED prg

Perform ==
  /\ calls # <<>> /\ calls' = Tail(calls)
  /\ LET c == Head(calls)
     IN \/ c.op = "prg" /\ AddPrg(c.adapter, c.sid, c.pids)
        \/ c.op = "tune" /\ Tune(c.adapter)
        \/ c.op = "stop" /\ Stop(c.adapter)
        \/ c.op = "C" /\ ClosePid(c.adapter, c.pids)
        \/ c.op = "I" /\ Invalidate(c.adapter)
  /\ UNCHANGED <<pid_list, Channels, valid, viewed>>

Message == /\ \E a \in Adapters : \/ ResetSid(a)
                                  \/ \E s \in Sids : RemoveSid(a, s) \/ AddSid(a, s)
           /\ UNCHANGED <<prg, mapped>>

Next == Message \/ Perform
Spec == Init /\ [][Next]_vars

-----------------------------------------------------------------------------
(* Properties.                                                             *)

\* Every variable has its type.
TypeOK == /\ CamTypeOK
          /\ prg \in [Adapters -> [Sids -> SUBSET Pids]]
          /\ mapped \in [Adapters -> SUBSET Pids]

\* Between two messages, the core of the adapter serves all streams of a
\* service that is viewed there, and the descrambler has all of its pids: the
\* shortcut of MSG_ADDSID for a known service (plugin_cam.c:254-267) is taken
\* only when its program is still set.
KeepsViewed ==
  calls = <<>> => \A v \in viewed :
    /\ prg[v[1]][v[2]] = Epids(v[2])
    /\ Epids(v[2]) \subseteq mapped[v[1]]

\* Once a message has made its calls, the core serves what is viewed and
\* nothing else, and the descrambler maps no pid of another service.
OnlyViewedLeft ==
  [][calls # <<>> /\ calls' = <<>> =>
       \A a \in Adapters, s \in Sids :
         <<a, s>> \notin viewed =>
           /\ prg'[a][s] = {}
           /\ \A p \in Epids(s) \cap mapped'[a] :
                \E v \in viewed : v[1] = a /\ p \in Epids(v[2])]_vars

\* What is done for other services never interrupts one that stays viewed:
\* not even between two calls does the core drop its program or the
\* descrambler one of its pids.
LeavesViewed ==
  \A v \in viewed \cap viewed' :
    /\ prg[v[1]][v[2]] = Epids(v[2]) => prg'[v[1]][v[2]] = Epids(v[2])
    /\ Epids(v[2]) \cap mapped[v[1]] \subseteq mapped'[v[1]]
Undisturbed == [][LeavesViewed]_vars
-----------------------------------------------------------------------------
(* The inductive invariants, for one adapter.                              *)

This == CHOOSE a \in Adapters : TRUE
OneAdapter == Adapters = {This}

Prg(s) == prg[This][s]
Mapped == mapped[This]

\* The services process_cam has told the core of, and not given up.
Live == IF valid[This] THEN Channels ELSE {}

\* The list is of live services.  Those that are viewed have no delayed entry; of
\* the others all entries are delayed.
ListInv ==
  /\ ~ valid[This] => pid_list = <<>> /\ viewed = {}
  /\ \A i \in DOMAIN pid_list :
       /\ pid_list[i].sid \in Live /\ pid_list[i].epid \in Epids(pid_list[i].sid)
       /\ pid_list[i].delayclose <=> <<This, pid_list[i].sid>> \notin viewed
  /\ \A v \in viewed : v[2] \in Live

Asks(c, s) == c.op = "prg" /\ c.sid = s /\ c.pids # {}
Ends(c, s) == c.op = "stop" \/ (c.op = "prg" /\ c.sid = s /\ c.pids = {})

\* The calls still to be made do live services no harm.
Harmless(q, i) ==
  LET c == q[i]
  IN /\ c.op = "prg" /\ c.sid \in Live => c.pids = Epids(c.sid)
     /\ c.op = "C" => \A s \in Live : c.pids \cap Epids(s) = {}
     /\ c.op \in {"stop", "I"} => Live = {}
     /\ c.op = "tune" =>
          /\ Live \subseteq {c.sid} /\ c.sid \in Sids /\ Prg(c.sid) = {}
          /\ \A j \in DOMAIN q : j < i => ~ (q[j].op = "prg" /\ q[j].sid = c.sid)

\* A live service is served, or the call that does that is still to be made.
Provided(q, s) ==
  \/ Prg(s) = Epids(s) /\ Epids(s) \subseteq Mapped
  \/ Prg(s) = {} /\ \E i \in DOMAIN q : q[i].op = "prg" /\ q[i].sid = s

\* The others are not served, or the call that ends that is still to be made.
GivenUp(q, s) ==
  \/ Prg(s) = {} /\ \A i \in DOMAIN q : ~ Asks(q[i], s)
  \/ \E i \in DOMAIN q : /\ Ends(q[i], s)
                         /\ \A j \in DOMAIN q : i < j => ~ Asks(q[j], s)

\* What is under way serves the live services and no others.
ServiceInv ==
  /\ ListInv
  /\ \A i \in DOMAIN calls : Harmless(calls, i)
  /\ \A s \in Live : Provided(calls, s)
  /\ \A s \in Sids \ Live : GivenUp(calls, s)

\* The calls for a service that is given up only take away from its program, and
\* none of them comes after its programs were stopped.
Shrinks(q, i) ==
  LET c == q[i]
      later == {j \in DOMAIN q : i < j /\ q[j].op = "prg" /\ q[j].sid \notin Live}
  IN /\ c.op = "prg" /\ c.sid \notin Live =>
          /\ c.pids \subseteq Prg(c.sid)
          /\ \A j \in later : q[j].sid = c.sid => q[j].pids \subseteq c.pids
     /\ c.op \in {"stop", "tune"} => later = {}

Forgets(c, p) == c.op = "I" \/ (c.op = "C" /\ p \in c.pids)

\* Every stream of a live service is in the list, what is not viewed any more goes
\* with the next message that has calls, and so do its pids.
LeftInv ==
  /\ \A s \in Live : \A p \in Epids(s) : \E i \in DOMAIN pid_list :
       pid_list[i].sid = s /\ pid_list[i].epid = p
  /\ calls # <<>> => \A s \in Live : <<This, s>> \in viewed \/ Epids(s) = {}
  /\ \A i \in DOMAIN calls : Shrinks(calls, i)
  /\ \A p \in Mapped : \/ \E s \in Live : p \in Epids(s)
                       \/ \E i \in DOMAIN calls : Forgets(calls[i], p)

\* No stream is of two of the services: to close a shared one for the service that
\* is given up closes it for the other, too (update_keys, 'C').
Apart(S) == \A s, t \in S : s # t => Epids(s) \cap Epids(t) = {}
PidsApart == Apart(Sids)
=============================================================================
