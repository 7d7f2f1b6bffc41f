------------------------------ MODULE GetSid -------------------------------
(***************************************************************************)
(* The service tracker, plugin_getsid.c: from the pids of the demultiplexer*)
(* filters that applications set on one adapter it finds the services they *)
(* view, and says so to the thread of the low priority queue.              *)
(*                                                                         *)
(* Three threads work on sid_data under its mutex: the one that forwards   *)
(* the frontend's calls (fe_tune, fe_close), the one that forwards the     *)
(* demultiplexer's (set_demux, close_demux), and read_sid, which reads the *)
(* PAT and the PMTs of the transponder into sidlist and looks the pids up. *)
(* What a handler does under the mutex is one action; read_sid scans       *)
(* without the mutex, one action per section.                              *)
(***************************************************************************)
EXTENDS Integers, Sequences, SequencesExt

CONSTANTS
  Fds,           \* file descriptors of the demultiplexer
  Transponders, Sids,
  Offers,        \* the services of a transponder
  EpidList,      \* the elementary streams of a service
  FilterPids,    \* pids applications set filters for
  AvPids,        \* pids of audio and video streams (check_av)
  AnnouncesNit,  \* transponders whose PAT names a NIT
  HasNit,        \* transponders that send one
  AllPids, NoCache,  \* the options --sid-allpid and --sid-nocache
  OneFilter,     \* applications set one filter per service
  Lossy,         \* the PMTs of some service may not arrive in time
  Late,          \* a PAT may still come from the transponder that is left
  MaxLow,        \* bound: messages in the queue
  None

\* What is assumed of the constants; ChannelCam assumes it.
ConstantsFit ==
  /\ Offers \in [Transponders -> SUBSET Sids] /\ DOMAIN EpidList = Sids
  /\ AnnouncesNit \subseteq Transponders /\ HasNit \subseteq Transponders
  /\ {AllPids, NoCache, OneFilter, Lossy, Late} \subseteq BOOLEAN
  /\ MaxLow \in Nat /\ \A S \in {Sids, Transponders, Fds} : None \notin S

VARIABLES
  tuned,       \* the transponder the real frontend delivers
  tuning,      \* the one of a tune that fe_tune has seen
  cmdqueue,    \* commands [fd, pid, checked, sid]
  sidlist,     \* services read, the newest first
  has_map, removed_sid,
  scan,        \* read_sid: where it is, the PAT's transponder, PMTs to come, ret
  low,         \* messages on the low priority queue
  announced    \* services ADDSID was sent for, and nothing that withdraws it

vars == <<tuned, tuning, cmdqueue, sidlist, has_map, removed_sid, scan, low, announced>>

HasPid(s, p) == \E i \in DOMAIN EpidList[s] : EpidList[s][i] = p
Command(fd, pid) == [fd |-> fd, pid |-> pid, checked |-> FALSE, sid |-> None]
Terminator == Command(None, 0)

Idle == [at |-> "idle", tp |-> None, todo |-> {}, ret |-> FALSE]

Init == /\ tuned = None /\ tuning = None /\ cmdqueue = <<>> /\ sidlist = <<>>
        /\ has_map = FALSE /\ removed_sid = FALSE /\ scan = Idle
        /\ low = <<>> /\ announced = {}

\* The daemon is up until shutdown_sid has sent the terminator.
Running == /\ \A i \in DOMAIN cmdqueue : cmdqueue[i] # Terminator
           /\ scan.at # "down" /\ Len(low) + 2 <= MaxLow

-----------------------------------------------------------------------------
(* The handlers of the forwarded calls.                                    *)

\* The commands on fd; there is at most one, and it is deleted.
CommandsOf(fd) == {i \in DOMAIN cmdqueue : cmdqueue[i].fd = fd}
Without(fd) == IF CommandsOf(fd) = {} THEN cmdqueue
               ELSE RemoveAt(cmdqueue, CHOOSE i \in CommandsOf(fd) : TRUE)

Message(type, s) == [type |-> type, sid |-> s]

\* Mutant: the commands keep the services they were found to belong to.
UncheckedKeepsSid(cmds) ==
  [i \in DOMAIN cmds |-> [cmds[i] EXCEPT !.checked = FALSE]]

\* Mutant: the commands lose their services and are not looked up again.
UncheckedStaysChecked(cmds) ==
  [i \in DOMAIN cmds |-> [cmds[i] EXCEPT !.sid = None]]

\* clear_sid_data: the commands are looked up again, after a rescan.
Unchecked(cmds) ==
  [i \in DOMAIN cmds |-> [cmds[i] EXCEPT !.checked = FALSE, !.sid = None]]

\* msg_remove_type_from_list takes out the first message of the type.
RemoveType(q, type) == RemoveFirstMatch(q, LAMBDA m : m.type = type)

Reset(q) ==
  Append(RemoveType(RemoveType(RemoveType(q, "add"), "remove"), "reset"),
         Message("reset", None))

\* Mutant: the map of the transponder that is left stays.
FeTuneKeepsMap(tp) ==
  /\ Running /\ tuning = None /\ tuning' = tp
  /\ low' = Reset(low) /\ announced' = {}
  /\ cmdqueue' = Unchecked(cmdqueue)
  /\ UNCHANGED <<tuned, removed_sid, scan, has_map, sidlist>>

\* fe_tune, before FE_SET_FRONTEND is forwarded.
FeTune(tp) ==
  /\ Running /\ tuning = None /\ tuning' = tp
  /\ low' = Reset(low) /\ announced' = {}
  /\ cmdqueue' = Unchecked(cmdqueue) /\ sidlist' = <<>> /\ has_map' = FALSE
  /\ UNCHANGED <<tuned, removed_sid, scan>>

\* The real frontend goes over to the new transponder.
RealTune == /\ tuning # None /\ tuned' = tuning /\ tuning' = None
            /\ UNCHANGED <<cmdqueue, sidlist, has_map, removed_sid, scan, low, announced>>

\* fe_close, after the close of the frontend; the frontend stops.
FeClose == /\ Running /\ tuning = None /\ tuned # None /\ tuned' = None
           /\ low' = Reset(low) /\ announced' = {}
           /\ UNCHANGED <<tuning, cmdqueue, sidlist, has_map, removed_sid, scan>>

\* Mutant: the service of the command is not withdrawn.
SetDemuxKeepsSid(fd, pid) ==
  /\ Running
  /\ cmdqueue' = Append(Without(fd), Command(fd, pid))
  /\ UNCHANGED <<low, announced, tuned, tuning, sidlist, has_map, removed_sid, scan>>

\* Mutant: the old command of the file stays.
SetDemuxKeepsOld(fd, pid) ==
  /\ Running
  /\ cmdqueue' = Append(cmdqueue, Command(fd, pid))
  /\ UNCHANGED <<low, announced, tuned, tuning, sidlist, has_map, removed_sid, scan>>

\* set_demux, after DMX_SET_PES_FILTER.  With --sid-nocache the map is dropped
\* first if a service is no longer viewed; then the old command on the same
\* file has lost its service, and nothing is withdrawn for it.
SetDemux(fd, pid) ==
  LET forget == NoCache /\ removed_sid
      old    == {cmdqueue[i].sid : i \in CommandsOf(fd)} \ {None}
      gone   == IF forget THEN {} ELSE old
  IN /\ Running
     /\ OneFilter =>
          \A i \in DOMAIN cmdqueue : cmdqueue[i].fd # fd =>
            ~ \E s \in Sids : HasPid(s, pid) /\ HasPid(s, cmdqueue[i].pid)
     /\ removed_sid' = (removed_sid /\ ~ forget)
     /\ IF forget THEN sidlist' = <<>> /\ has_map' = FALSE
        ELSE UNCHANGED <<sidlist, has_map>>
     /\ cmdqueue' = Append(IF forget THEN Unchecked(Without(fd)) ELSE Without(fd),
                           Command(fd, pid))
     /\ low' = low \o SetToSeq({Message("remove", s) : s \in gone})
     /\ announced' = announced \ gone
     /\ UNCHANGED <<tuned, tuning, scan>>

\* close_demux, after the close.
CloseDemux(fd) ==
  LET gone == {cmdqueue[i].sid : i \in CommandsOf(fd)} \ {None}
  IN /\ Running /\ CommandsOf(fd) # {}
     /\ cmdqueue' = Without(fd)
     /\ low' = low \o SetToSeq({Message("remove", s) : s \in gone})
     /\ announced' = announced \ gone
     /\ removed_sid' = (removed_sid \/ \E s \in gone :
                          \A i \in DOMAIN cmdqueue' : cmdqueue'[i].sid # s)
     /\ UNCHANGED <<tuned, tuning, sidlist, has_map, scan>>

\* shutdown_sid: a command at the head of the queue ends read_sid.
Shutdown == /\ Running
            /\ cmdqueue' = <<Terminator>> \o cmdqueue
            /\ UNCHANGED <<tuned, tuning, sidlist, has_map, removed_sid, scan, low,
                           announced>>

Request == \/ \E tp \in Transponders : FeTune(tp)
           \/ \E fd \in Fds : CloseDemux(fd) \/ \E pid \in FilterPids : SetDemux(fd, pid)
           \/ FeClose \/ Shutdown

-----------------------------------------------------------------------------
(* read_sid.                                                               *)

\* The search for an unchecked command takes the last one.
Pending == {i \in DOMAIN cmdqueue : ~ cmdqueue[i].checked}
Chosen  == CHOOSE i \in Pending : \A j \in Pending : j <= i

\* find_pid: the first service of the list that has the pid decides; a stream
\* that is neither audio nor video has none, unless all pids count.
FindPid(pid) ==
  LET with == {i \in DOMAIN sidlist : HasPid(sidlist[i], pid)}
  IN IF with = {} \/ ~ (AllPids \/ pid \in AvPids) THEN {}
     ELSE {sidlist[CHOOSE i \in with : \A j \in with : i <= j]}

\* A command is looked up in the map; its service is announced.
LookUp ==
  /\ scan.at = "idle" /\ Pending # {} /\ has_map /\ Len(low) < MaxLow
  /\ cmdqueue[Chosen] # Terminator
  /\ LET found == FindPid(cmdqueue[Chosen].pid)
     IN /\ cmdqueue' = [cmdqueue EXCEPT ![Chosen].checked = TRUE, ![Chosen].sid =
                           IF found = {} THEN None ELSE CHOOSE s \in found : TRUE]
        /\ low' = low \o SetToSeq({Message("add", s) : s \in found})
        /\ announced' = announced \cup found
  /\ UNCHANGED <<tuned, tuning, sidlist, has_map, removed_sid, scan>>

\* The steps below leave all but the map to the handlers.
ScanOnly == UNCHANGED <<tuned, tuning, cmdqueue, removed_sid, low, announced>>

\* read_sid returns, with the mutex.
Terminate == /\ scan.at = "idle" /\ Pending # {} /\ cmdqueue[Chosen] = Terminator
             /\ scan' = [Idle EXCEPT !.at = "down"]
             /\ ScanOnly /\ UNCHANGED <<sidlist, has_map>>

\* There is no map: the mutex is given up ...
Unlock == /\ scan.at = "idle" /\ Pending # {} /\ ~ has_map
          /\ cmdqueue[Chosen] # Terminator
          /\ scan' = [Idle EXCEPT !.at = "start"]
          /\ ScanOnly /\ UNCHANGED <<sidlist, has_map>>

\* ... and has_map set without it.
Start == /\ scan.at = "start" /\ has_map' = TRUE
         /\ scan' = [Idle EXCEPT !.at = "pat"]
         /\ ScanOnly /\ UNCHANGED sidlist

\* The transponder whose sections come: after fe_tune the old one may still
\* be delivered.
Received == IF tuning = None \/ Late THEN {tuned} \ {None} ELSE {}

\* start reads the PAT, however long that takes ...
ReadPat == /\ scan.at = "pat"
           /\ \E tp \in Received :
                scan' = [scan EXCEPT !.at = IF tp \in AnnouncesNit THEN "nit" ELSE "pmt",
                                     !.tp = tp, !.todo = Offers[tp]]
           /\ ScanOnly /\ UNCHANGED <<sidlist, has_map>>

\* ... or fails.
FailPat == /\ scan.at = "pat" /\ Lossy
           /\ scan' = [Idle EXCEPT !.at = "settle", !.ret = TRUE]
           /\ ScanOnly /\ UNCHANGED <<sidlist, has_map>>

\* The NIT, once the PAT has named one, is waited for in the same way; after
\* ten useless sections it is given up.
ReadNit == /\ scan.at = "nit" /\ Received \cap HasNit # {}
           /\ scan' = [scan EXCEPT !.at = "pmt"]
           /\ ScanOnly /\ UNCHANGED <<sidlist, has_map>>

\* read_pmt, if the map is still wanted.
ReadPmt(s) ==
  /\ scan.at = "pmt" /\ s \in scan.todo /\ scan.tp \in Received /\ has_map
  /\ sidlist' = <<s>> \o sidlist /\ scan' = [scan EXCEPT !.todo = @ \ {s}]
  /\ ScanOnly /\ UNCHANGED has_map

\* Mutant: the PMTs are waited for whatever happens.
ReturnWaits == /\ scan.at = "pmt" /\ scan.todo = {}
               /\ scan' = [Idle EXCEPT !.at = "settle"]
               /\ ScanOnly /\ UNCHANGED <<sidlist, has_map>>

\* start returns: all PMTs are read, or the map was dropped meanwhile, or the
\* PMTs that are missing are given up.  The value returned is 0.
Return == /\ scan.at = "pmt"
          /\ scan.todo = {} \/ ~ has_map \/ Lossy \/ scan.tp \notin Received
          /\ scan' = [Idle EXCEPT !.at = "settle"]
          /\ ScanOnly /\ UNCHANGED <<sidlist, has_map>>

\* read_sid takes the mutex again; what a failed or useless scan has read goes.
Settle == /\ scan.at = "settle" /\ scan' = Idle
          /\ has_map' = (has_map /\ ~ scan.ret)
          /\ sidlist' = (IF has_map' THEN sidlist ELSE <<>>)
          /\ ScanOnly

ReadSid == \/ LookUp \/ Terminate \/ Unlock \/ Start \/ ReadPat \/ FailPat \/ ReadNit
           \/ (\E s \in Sids : ReadPmt(s)) \/ Return \/ Settle

\* The thread of the low priority queue takes a message.
Take == /\ low # <<>> /\ low' = Tail(low)
        /\ UNCHANGED <<tuned, tuning, cmdqueue, sidlist, has_map, removed_sid, scan,
                       announced>>

Next == Request \/ RealTune \/ ReadSid \/ Take
Spec == Init /\ [][Next]_vars

\* The threads run: read_sid goes on as long as it gets the sections it waits
\* for, the frontend tunes, and the queue is served.  A PAT is repeated several
\* times a second: not every attempt to read it fails.
FairSpec == /\ Spec /\ WF_vars(RealTune) /\ WF_vars(Take) /\ WF_vars(ReadSid)
            /\ SF_vars(ReadPat)

-----------------------------------------------------------------------------
(* Properties.                                                             *)

CommandType == [fd : Fds \cup {None}, pid : FilterPids \cup {0}, checked : BOOLEAN,
                sid : Sids \cup {None}]
ScanType == [at : {"idle", "start", "pat", "nit", "pmt", "settle", "down"},
             tp : Transponders \cup {None}, todo : SUBSET Sids, ret : BOOLEAN]
MessageType == [type : {"add", "remove", "reset"}, sid : Sids \cup {None}]

\* Every variable has its type; a file has one command.
TypeOK ==
  /\ tuned \in Transponders \cup {None} /\ tuning \in Transponders \cup {None}
  /\ cmdqueue \in Seq(CommandType)
  /\ \A i, j \in DOMAIN cmdqueue : cmdqueue[i].fd = cmdqueue[j].fd => i = j
  /\ sidlist \in Seq(Sids) /\ has_map \in BOOLEAN /\ removed_sid \in BOOLEAN
  /\ scan \in ScanType
  /\ low \in Seq(MessageType) /\ Len(low) <= MaxLow
  /\ announced \in SUBSET Sids

\* The service a command points to is on the list of the map: what read_sid
\* found is never freed while close_demux or set_demux may still read it.
NoDanglingSid ==
  \A i \in DOMAIN cmdqueue :
    cmdqueue[i].sid # None =>
      /\ cmdqueue[i].checked /\ has_map
      /\ \E j \in DOMAIN sidlist : sidlist[j] = cmdqueue[i].sid

\* A map that is used is the map of the transponder that is received: fe_tune
\* forces a rescan of the PMTs (plugin_getsid.c:795), also one that is going on.
MapIsTuned ==
  scan.at = "idle" /\ has_map /\ tuned # None /\ tuning = None =>
    /\ ToSet(sidlist) \subseteq Offers[tuned]
    /\ Lossy \/ ToSet(sidlist) = Offers[tuned]

\* What is viewed: the services of the commands.
Viewed == {cmdqueue[i].sid : i \in DOMAIN cmdqueue} \ {None}

\* A service some filter views has been announced and not been withdrawn since.
KeepsViewed == tuned # None => Viewed \subseteq announced

\* A service that is announced is viewed by some filter: closing the filter, or
\* giving it another pid, withdraws it (plugin_getsid.c:870-872).
NoOrphan == announced \subseteq Viewed

\* Once the applications are content and a transponder is received, every filter
\* has been looked up for good, or read_sid has returned as it was told.
CommandsServed ==
  <>[][ReadSid \/ RealTune \/ Take]_vars /\ <>[](tuned # None)
    => <>[](Pending = {} \/ scan.at = "down")

\* shutdown_sid waits for read_sid to return: it does.
ShutdownReturns ==
  (\E i \in DOMAIN cmdqueue : cmdqueue[i] = Terminator) ~> scan.at = "down"
-----------------------------------------------------------------------------
(* Inductive invariants.                                                   *)

\* The command without a file is the one that ends read_sid.
EndsReadSid == \A i \in DOMAIN cmdqueue : cmdqueue[i].fd = None => cmdqueue[i] = Terminator

\* While read_sid reads a map no command has a service: it began without a map.
NothingFound ==
  scan.at \notin {"idle", "down"} => \A i \in DOMAIN cmdqueue : cmdqueue[i].sid = None

SidInv == TypeOK /\ EndsReadSid /\ NoDanglingSid /\ NothingFound

\* What was read is of tp, and with the services in todo it is all of tp.
ReadOf(tp, todo) == /\ ToSet(sidlist) \subseteq Offers[tp]
                    /\ Lossy \/ Offers[tp] \subseteq ToSet(sidlist) \cup todo

\* The map is empty or of the transponder that is received, or the frontend is
\* closed, or read_sid does not count on it.
MapInv ==
  /\ ~ has_map \/ scan.at \in {"start", "pat"} => sidlist = <<>>
  /\ scan.at = "start" => ~ has_map
  /\ scan.at \in {"nit", "pmt"} /\ has_map =>
       /\ tuning = None /\ tuned \in {scan.tp, None} /\ scan.tp # None
       /\ scan.todo \subseteq Offers[scan.tp] /\ ReadOf(scan.tp, scan.todo)
  /\ scan.at \in {"settle", "idle", "down"} /\ ~ scan.ret /\ has_map =>
       /\ tuning = None
       /\ tuned # None => ReadOf(tuned, {})
  /\ scan.at # "settle" => ~ scan.ret

\* Filters of two files are of different services, if applications set one each.
EachOwn ==
  OneFilter =>
    \A i, j \in DOMAIN cmdqueue :
      cmdqueue[i].fd # cmdqueue[j].fd /\ None \notin {cmdqueue[i].fd, cmdqueue[j].fd} =>
        ~ \E s \in Sids : HasPid(s, cmdqueue[i].pid) /\ HasPid(s, cmdqueue[j].pid)

\* A command that was looked up has the service the map still gives its pid.
LookedUp ==
  \A i \in DOMAIN cmdqueue : cmdqueue[i].checked =>
    /\ has_map /\ scan.at \in {"idle", "down"}
    /\ FindPid(cmdqueue[i].pid) = {cmdqueue[i].sid} \ {None}

\* What is viewed is announced, from the tune of a transponder to its close.
AllAnnounced == OneFilter /\ (tuned # None \/ tuning # None) => Viewed \subseteq announced

FoundInv == EachOwn /\ LookedUp /\ AllAnnounced
=============================================================================
