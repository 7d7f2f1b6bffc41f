---------------------------- MODULE ProcessCam ----------------------------
(***************************************************************************)
(* process_cam of dvblb_plugins/plugin_cam.c: what the thread of the low   *)
(* priority queue does with the messages that say which services are       *)
(* viewed.  The list of pids and the list of channels are global, shared   *)
(* by all adapters.  A removed service is only marked (delayclose); its    *)
(* pids are given up when another service is added.                        *)
(*                                                                         *)
(* A message leaves behind, in calls, the calls it makes to the            *)
(* conditional access core and the descrambler, in their order; the same   *)
(* thread makes them, so the next message waits until they are done.  The  *)
(* modules that extend this one say what the calls do.                     *)
(***************************************************************************)
EXTENDS Integers, Sequences, FiniteSets, SequencesExt

CONSTANTS
  Adapters,
  Sids,       \* services, by their number
  EpidList,   \* the elementary streams of a service, in the order of its PMT
  FreeToAir,  \* services without a CA descriptor (calen = 0)
  NoSid

VARIABLES
  pid_list,   \* list of [epid, sid, delayclose], the newest first
  Channels,   \* the channels, by their sid
  valid,      \* sc_data->valid per adapter
  calls,      \* calls of the message in hand that are still to be made
  viewed      \* <<adapter, sid>> asked for, and not removed or reset since

camVars == <<pid_list, Channels, valid, calls, viewed>>

Epids(s) == {EpidList[s][i] : i \in DOMAIN EpidList[s]}
Pids     == UNION {Epids(s) : s \in Sids}

ASSUME ProcessCamAssumption ==
  /\ FreeToAir \subseteq Sids /\ NoSid \notin Sids
  /\ DOMAIN EpidList = Sids /\ \A s \in Sids : EpidList[s] \in Seq(Epids(s))

Call(op, a, s, pids) == [op |-> op, adapter |-> a, sid |-> s, pids |-> pids]
CallType == [op : {"prg", "tune", "stop", "C", "I"}, adapter : Adapters,
             sid : Sids \cup {NoSid}, pids : SUBSET Pids]

CamInit == /\ pid_list = <<>> /\ Channels = {} /\ calls = <<>> /\ viewed = {}
           /\ valid = [a \in Adapters |-> FALSE]

\* cam_del_pid for entry i when the entries gone are no longer in the list:
\* the core is told which streams of the service are left.
DelPid(a, i, gone) ==
  Call("prg", a, pid_list[i].sid,
       {pid_list[j].epid : j \in {k \in DOMAIN pid_list \ gone :
                                    pid_list[k].sid = pid_list[i].sid}})

-----------------------------------------------------------------------------
\* MSG_RESETSID: every pid of the list goes, from its head, whoever added it.
ResetSid(a) ==
  /\ calls = <<>>
  /\ calls' = [i \in DOMAIN pid_list |-> DelPid(a, i, 1 .. i)]
              \o <<Call("stop", a, NoSid, {}), Call("I", a, NoSid, {})>>
  /\ pid_list' = <<>> /\ valid' = [valid EXCEPT ![a] = FALSE]
  /\ viewed' = {v \in viewed : v[1] # a}
  /\ UNCHANGED Channels

\* MSG_REMOVESID: the pids of the service are marked; the adapter is not
\* looked at.
RemoveSid(a, s) ==
  /\ calls = <<>>
  /\ pid_list' = [i \in DOMAIN pid_list |->
                    IF pid_list[i].sid = s
                    THEN [pid_list[i] EXCEPT !.delayclose = TRUE] ELSE pid_list[i]]
  /\ viewed' = viewed \ {<<a, s>>}
  /\ UNCHANGED <<Channels, valid, calls>>

-----------------------------------------------------------------------------
(* MSG_ADDSID.                                                             *)

Delayed == {i \in DOMAIN pid_list : pid_list[i].delayclose}

\* The k-th of some positions.
Nth(S, k) == CHOOSE i \in S : Cardinality({j \in S : j < i}) = k - 1

\* The search for a delayed entry takes the last one of the list each time.
DelayedSeq == [k \in 1 .. Cardinality(Delayed) |->
                 Nth(Delayed, Cardinality(Delayed) + 1 - k)]

\* The entries that are not delayed stay, in their order.
KeptEntries ==
  LET kept == DOMAIN pid_list \ Delayed
  IN [k \in 1 .. Cardinality(kept) |-> pid_list[Nth(kept, k)]]

\* Mutant: the core is told what is left before the entry is taken out.
CloseDelayedEarly(a) ==
  [n \in 1 .. 2 * Len(DelayedSeq) |->
     LET k == (n + 1) \div 2
         i == DelayedSeq[k]
     IN IF n % 2 = 1 THEN Call("C", a, pid_list[i].sid, {pid_list[i].epid})
        ELSE DelPid(a, i, {DelayedSeq[j] : j \in 1 .. k - 1})]

\* All delayed entries go, one by one: the descrambler forgets the pid, then
\* the core is told what is left of its service.
CloseDelayed(a) ==
  [n \in 1 .. 2 * Len(DelayedSeq) |->
     LET k == (n + 1) \div 2
         i == DelayedSeq[k]
     IN IF n % 2 = 1 THEN Call("C", a, pid_list[i].sid, {pid_list[i].epid})
        ELSE DelPid(a, i, {DelayedSeq[j] : j \in 1 .. k})]

\* Mutant: the channel of a service that is given up stays in the list.
KeptChannelsAll == Channels

\* The channel of each entry that goes is deleted with it.
KeptChannels == Channels \ {pid_list[i].sid : i \in Delayed}

\* Mutant: the zero that ends the list of streams is taken for one of them.
NewEntriesTerminator(s) == Reverse([i \in 1 .. Len(EpidList[s]) + 1 |->
  [epid |-> IF i \in DOMAIN EpidList[s] THEN EpidList[s][i] ELSE 0, sid |-> s,
   delayclose |-> FALSE]])

\* The streams of s are put at the head one after the other.
NewEntries(s) == Reverse([i \in DOMAIN EpidList[s] |->
                   [epid |-> EpidList[s][i], sid |-> s, delayclose |-> FALSE]])

\* A known service while no tune has happened: only the marks are taken off.
GoodToGo(a, s) ==
  /\ s \in Channels /\ valid[a]
  /\ pid_list' = [i \in DOMAIN pid_list |->
                    IF pid_list[i].sid = s
                    THEN [pid_list[i] EXCEPT !.delayclose = FALSE] ELSE pid_list[i]]
  /\ UNCHANGED <<Channels, valid, calls>>

\* Mutant: the services that are viewed are given up, too.
AddNewClosesAll(a, s) ==
  LET new == s \notin Channels
      old == IF new THEN KeptChannels ELSE Channels
      all == [i \in DOMAIN pid_list |-> DelPid(a, i, 1 .. i)]
  IN /\ ~ (s \in Channels /\ valid[a])
     /\ Channels' = (IF valid[a] THEN old ELSE {}) \cup {s}
     /\ valid' = [valid EXCEPT ![a] = TRUE]
     /\ pid_list' = NewEntries(s) \o (IF new THEN <<>> ELSE pid_list)
     /\ calls' = (IF new THEN all ELSE <<>>)
                 \o (IF Channels' = {s} THEN <<Call("tune", a, s, {})>> ELSE <<>>)
                 \o <<Call("prg", a, s, Epids(s))>>

\* A new service, or the first after a tune.  The first channel of the list
\* also tunes the core.
AddNew(a, s) ==
  LET new  == s \notin Channels
      old  == IF new THEN KeptChannels ELSE Channels
      kept == IF new THEN KeptEntries ELSE pid_list
  IN /\ ~ (s \in Channels /\ valid[a])
     /\ Channels' = (IF valid[a] THEN old ELSE {}) \cup {s}
     /\ valid' = [valid EXCEPT ![a] = TRUE]
     /\ pid_list' = NewEntries(s) \o kept
     /\ calls' = (IF new THEN CloseDelayed(a) ELSE <<>>)
                 \o (IF Channels' = {s} THEN <<Call("tune", a, s, {})>> ELSE <<>>)
                 \o <<Call("prg", a, s, Epids(s))>>

AddSid(a, s) ==
  /\ calls = <<>>
  /\ IF s \in FreeToAir THEN UNCHANGED camVars
     ELSE /\ GoodToGo(a, s) \/ AddNew(a, s)
          /\ viewed' = viewed \cup {<<a, s>>}

CamTypeOK ==
  /\ pid_list \in Seq([epid : Pids, sid : Sids, delayclose : BOOLEAN])
  /\ Channels \in SUBSET Sids
  /\ valid \in [Adapters -> BOOLEAN]
  /\ calls \in Seq(CallType)
  /\ viewed \in SUBSET (Adapters \X Sids)

\* The calls that are made: a program is that of a service.
Called == {c \in CallType : c.op = "prg" => c.sid \in Sids}

CamInv == CamTypeOK /\ calls \in Seq(Called)
=============================================================================
