----------------------------- MODULE ChannelCam -----------------------------
(***************************************************************************)
(* The service tracker (GetSid), the thread of the low priority queue and  *)
(* what it tells the conditional access core and the descrambler (CamPids),*)
(* for one adapter: from the filters applications set to the pids that are *)
(* descrambled.                                                            *)
(***************************************************************************)
EXTENDS CamPids

CONSTANTS Fds, Transponders, Offers, FilterPids, AvPids, AnnouncesNit, HasNit,
          AllPids, NoCache, OneFilter, Lossy, Late, MaxLow, None

VARIABLES tuned, tuning, cmdqueue, sidlist, has_map, removed_sid, scan, low, announced

Tracker == INSTANCE GetSid

ASSUME ChannelCamAssumption == Tracker!ConstantsFit

trackerVars == <<tuned, tuning, cmdqueue, sidlist, has_map, removed_sid, scan, low,
                 announced>>
allVars == <<vars, trackerVars>>

SystemInit == Init /\ Tracker!Init

\* The daemon's threads for the device files, and read_sid.
Tracking == (Tracker!Request \/ Tracker!RealTune \/ Tracker!ReadSid) /\ UNCHANGED vars

\* Mutant: the newest message is taken first.
HandleNewest ==
  /\ low # <<>>
  /\ LET m == low[Len(low)]
     IN \E a \in Adapters : \/ m.type = "add" /\ AddSid(a, m.sid)
                            \/ m.type = "remove" /\ RemoveSid(a, m.sid)
                            \/ m.type = "reset" /\ ResetSid(a)
  /\ low' = SubSeq(low, 1, Len(low) - 1)
  /\ UNCHANGED <<prg, mapped, tuned, tuning, cmdqueue, sidlist, has_map, removed_sid,
                 scan, announced>>

\* The thread of the queue takes the first message and gives it to process_cam.
Handle ==
  /\ Tracker!Take
  /\ \E a \in Adapters : \/ Head(low).type = "add" /\ AddSid(a, Head(low).sid)
                         \/ Head(low).type = "remove" /\ RemoveSid(a, Head(low).sid)
                         \/ Head(low).type = "reset" /\ ResetSid(a)
  /\ UNCHANGED <<prg, mapped>>

Calls == Perform /\ UNCHANGED trackerVars

SystemNext == Tracking \/ Handle \/ Calls
System == SystemInit /\ [][SystemNext]_allVars

-----------------------------------------------------------------------------
(* Properties.                                                             *)

\* When the queue is worked off, process_cam knows the services that are
\* announced and no other: what fe_tune and fe_close take off the queue
\* (plugin_getsid.c:817-820) is never missed.
InAgreement ==
  low = <<>> /\ calls = <<>> =>
    \A a \in Adapters : {s \in Sids : <<a, s>> \in viewed} = announced \ FreeToAir

\* The services of the transponder whose PMT was read and that the filters ask
\* for.
Wanted == {s \in (Offers[tuned] \cap {sidlist[i] : i \in DOMAIN sidlist}) \ FreeToAir :
             \E i \in DOMAIN cmdqueue : cmdqueue[i].pid \in Epids(s) \cap AvPids}

Served == \A a \in Adapters, s \in Wanted : prg[a][s] = Epids(s) /\ Epids(s) \subseteq mapped[a]

\* A filter refers to a service of the transponder that is tuned, never of the one
\* before (plugin_getsid.c:787-836), whatever the queue and the core do meanwhile.
NoDanglingSid == Tracker!NoDanglingSid

\* A service stays announced only while an application has a filter for it: the
\* last close of a filter withdraws it (plugin_getsid.c:856-951).
NoOrphan == Tracker!NoOrphan

\* The map that says which pid is of which service is of the transponder that is
\* tuned (plugin_getsid.c:823, 665-701).
MapIsTuned == Tracker!MapIsTuned

\* When nothing is left to do, every encrypted service with a filter is served
\* by the core, and all its pids are in the descrambler.
ServedAtRest ==
  (/\ low = <<>> /\ calls = <<>> /\ scan.at = "idle" /\ Tracker!Pending = {}
   /\ tuned # None /\ tuning = None) => Served

NoReset(q) == \A i \in DOMAIN q : q[i].type # "reset"

\* Unless process_cam is still to give up everything for a tune, no message about
\* another service interrupts one that stays viewed (plugin_cam.c:272-283 closes
\* the pids of the services given up before).
UndisturbedOnAir == [][NoReset(low) => LeavesViewed]_allVars

-----------------------------------------------------------------------------
(* The inductive invariant of the queue between tracker and process_cam.   *)

Withdraws(m, s) == m.type = "reset" \/ (m.type = "remove" /\ m.sid = s)

Untouched(q, s) == \A i \in DOMAIN q : ~ Withdraws(q[i], s)

\* After the last message of q that concerns s, it is viewed.
Added(q, s) ==
  \E i \in DOMAIN q : /\ q[i].type = "add" /\ q[i].sid = s
                     /\ \A j \in DOMAIN q : i < j => ~ Withdraws(q[j], s)

\* What process_cam will view once the queue is worked off is what is announced.
Agreement ==
  \A a \in Adapters, s \in Sids :
    /\ <<a, s>> \in viewed => s \notin FreeToAir
    /\ s \notin FreeToAir =>
         (s \in announced <=> \/ Added(low, s)
                              \/ <<a, s>> \in viewed /\ Untouched(low, s))

-----------------------------------------------------------------------------
(* The inductive invariant of the services that may be told of.            *)

\* Services of q that no reset behind them gives up.
Fresh(q) == {q[i].sid : i \in {k \in DOMAIN q :
               q[k].type = "add" /\ \A j \in DOMAIN q : k < j => q[j].type # "reset"}}

\* The services of the map, those on their way to process_cam, and its own, unless
\* it is to give them up.
InPlay == {sidlist[i] : i \in DOMAIN sidlist} \cup Fresh(low)
          \cup (IF NoReset(low) THEN Live ELSE {})

\* Messages other than resets name a service.
Notice == {m \in Tracker!MessageType : m.type # "reset" => m.sid \in Sids}

\* All services in play are of one transponder, the one that is received.
OneOffer ==
  /\ low \in Seq(Notice) /\ Apart(InPlay)
  /\ tuning # None => InPlay = {}
  /\ tuned # None => InPlay \subseteq Offers[tuned]

\* What is under way serves the services of process_cam, unless it is to give up all.
CamServes == NoReset(low) => ServiceInv
=============================================================================
