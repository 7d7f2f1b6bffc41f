------------------------------ MODULE CwIndex ------------------------------
(***************************************************************************)
(* Control words for the pids of one adapter: the conditional access core  *)
(* gives every program a handler and every handler an index (cCam and      *)
(* cEcmHandler of sc/PLUGINS/src/cam.c), the thread of the handler takes   *)
(* the control words from the ECMs, and the descrambler keeps keys per     *)
(* index and an index per pid (update_keys of plugin_ffdecsa.c).  The calls*)
(* come from process_cam (ProcessCam).                                     *)
(*                                                                         *)
(* In this program softcsa is off, ConcurrentFF is 8 and SetPid is never   *)
(* called, so AddPrg never needs index zero (needZero is false), and no    *)
(* program is split.  A crypto period of a service has a parity and an     *)
(* ECM with the control words of this period and of the next.              *)
(***************************************************************************)
EXTENDS ProcessCam

CONSTANTS
  MaxIdx,    \* MAX_CW_IDX
  Periods,   \* the control words of a service come again after so many periods
  Known,     \* the services for whose encryption there is a CA system
  EcmFails,  \* a CA system may fail to decode an ECM
  NoCw

ASSUME CwIndexAssumption == /\ MaxIdx \in Nat \ {0} /\ EcmFails \in BOOLEAN
                            /\ Known \subseteq Sids
                            /\ Adapters = {0} /\ NoCw \notin Sids
                            /\ Periods \in Nat \ {0} /\ Periods % 2 = 0

VARIABLES
  handlerList,  \* the handlers, in the order they were made
  indexMap,     \* the indices in use
  lastCW,       \* per index: what WriteCW wrote last, even and odd
  pid_map,      \* the descrambler: index of each pid it maps
  keyindex,     \* ... and per index whether it is valid, and the keys of its status
  period        \* crypto period

coreVars == <<handlerList, indexMap, lastCW, pid_map, keyindex, period>>
vars == <<camVars, coreVars>>

Idx == 0 .. MaxIdx - 1
Parity == {0, 1}

\* The control word of service s for the periods of parity p, as of period n:
\* those of this period and of the next come with the ECM of period n.
Cw(s, n) == [p \in Parity |-> <<s, IF n % 2 = p THEN n ELSE (n + 1) % Periods>>]

Mapped == DOMAIN pid_map
Status(idx) == DOMAIN keyindex[idx].keys

NewHandler(idx) ==
  [cwIndex |-> idx, sid |-> NoSid, pids |-> {}, trigger |-> FALSE, triggerMode |-> FALSE,
   filterSid |-> NoSid, filterCwIndex |-> idx, mode |-> "off", sync |-> FALSE,
   parity |-> NoCw, resend |-> FALSE, last |-> NoCw, job |-> NoCw]

Init == /\ CamInit
        /\ handlerList = <<>> /\ indexMap = {} /\ pid_map = <<>> /\ period = 0
        /\ lastCW = [i \in Idx |-> [p \in Parity |-> NoCw]]
        /\ keyindex = [i \in Idx |-> [valid |-> FALSE, keys |-> <<>>]]

IsIdle(h) == h.pids = {}

-----------------------------------------------------------------------------
(* The descrambler: update_keys.                                           *)

\* 'P': pids that are mapped keep their index.
MapPids(pids, idx) ==
  /\ pid_map' = [p \in Mapped \cup pids |-> IF p \in Mapped THEN pid_map[p] ELSE idx]
  /\ keyindex' = IF pids \subseteq Mapped \/ keyindex[idx].valid THEN keyindex
                 ELSE [keyindex EXCEPT ![idx] = [valid |-> TRUE, keys |-> <<>>]]

\* Mutant: the keys of an index that loses its last pid still count.
ClosePidKeepsKeys(pids) ==
  /\ pid_map' = [p \in Mapped \ pids |-> pid_map[p]]
  /\ UNCHANGED <<keyindex, handlerList, indexMap, lastCW, period>>

\* 'C', for one pid: an index that loses its last pid loses its keys.
ClosePid(pids) ==
  /\ pid_map' = [p \in Mapped \ pids |-> pid_map[p]]
  /\ keyindex' = [i \in Idx |->
       IF /\ \E p \in Mapped \cap pids : pid_map[p] = i
          /\ \A p \in Mapped \ pids : pid_map[p] # i
       THEN [keyindex[i] EXCEPT !.keys = <<>>] ELSE keyindex[i]]
  /\ UNCHANGED <<handlerList, indexMap, lastCW, period>>

\* 'I': no pid is mapped and no index valid.
Invalidate ==
  /\ pid_map' = <<>> /\ keyindex' = [i \in Idx |-> [keyindex[i] EXCEPT !.valid = FALSE]]
  /\ UNCHANGED <<handlerList, indexMap, lastCW, period>>

\* 'E' and 'O': the keys are dropped if no pid has the index.
SetKeys(idx, halves, cw) ==
  keyindex' = IF \A p \in Mapped : pid_map[p] # idx THEN keyindex
              ELSE [keyindex EXCEPT ![idx].keys =
                      [p \in Status(idx) \cup halves |-> IF p \in halves THEN cw[p] ELSE @[p]]]

\* cCam::WriteCW: a half that was written before is not written again.
WriteCW(idx, cw, force) ==
  LET halves == {p \in Parity : force \/ lastCW[idx][p] # cw[p]}
  IN /\ lastCW' = [lastCW EXCEPT ![idx] = cw]
     /\ SetKeys(idx, halves, cw)

-----------------------------------------------------------------------------
(* cCam: programs, handlers and indices.                                   *)

Free == Idx \ indexMap
LowestOf(S) == CHOOSE i \in S : \A j \in S : i <= j
LastOf(S)   == CHOOSE i \in S : \A j \in S : j <= i

WithSid(s) == {n \in DOMAIN handlerList : handlerList[n].sid = s}
IdleOnes   == {n \in DOMAIN handlerList : IsIdle(handlerList[n])}
\* The first idle handler that does not have index zero, or the first one.
IdleHandler == LET nonzero == {n \in IdleOnes : handlerList[n].cwIndex # 0}
               IN LowestOf(IF nonzero = {} THEN IdleOnes ELSE nonzero)

\* A new handler gets index zero only when no other is free.
FreeIndex == LowestOf(IF Free = {0} THEN Free ELSE Free \ {0})

\* Mutant: the thread is not told to start again.
SetPrgNoMode(h, s, pids) ==
  [h EXCEPT !.sid = s, !.pids = pids, !.trigger = @ \/ h.sid # s \/ pids # {}]

\* cEcmHandler::SetPrg.
SetPrg(h, s, pids) ==
  [h EXCEPT !.sid = s, !.pids = pids, !.trigger = @ \/ h.sid # s \/ pids # {},
            !.triggerMode = @ \/ pids # {}]

\* cEcmHandler::ShiftCwIndex.
Shift(h, idx) == IF h.cwIndex = idx THEN h ELSE [h EXCEPT !.cwIndex = idx, !.trigger = TRUE]

\* A handler at index zero leaves it if it can, unless the program is empty.
\* Its pids are mapped to the new index (those that are mapped are not).
ToGive(h, pids) == IF h.cwIndex = 0 /\ pids # {} /\ Free # {} THEN LowestOf(Free)
                   ELSE h.cwIndex

\* Handler n gets the program.
Give(n, s, pids) ==
  LET h    == handlerList[n]
      to   == ToGive(h, pids)
      kept == IF h.sid = s THEN h.pids ELSE {}
  IN /\ handlerList' = [handlerList EXCEPT ![n] = SetPrg(Shift(h, to), s, pids)]
     /\ indexMap' = (indexMap \ {h.cwIndex}) \cup {to}
     /\ MapPids((pids \ kept) \cup (IF to = h.cwIndex THEN {} ELSE h.pids), to)

\* A new handler gets it.
GiveNew(s, pids) ==
  /\ handlerList' = Append(handlerList, SetPrg(NewHandler(FreeIndex), s, pids))
  /\ indexMap' = indexMap \cup {FreeIndex}
  /\ MapPids(pids, FreeIndex)

\* Mutant: an idle handler is taken although the service has one.
AddPrgIdle(s, pids) ==
  /\ IF IdleOnes # {} THEN Give(IdleHandler, s, pids)
     ELSE IF WithSid(s) # {} THEN Give(LastOf(WithSid(s)), s, pids)
     ELSE IF Free # {} THEN GiveNew(s, pids)
     ELSE UNCHANGED <<handlerList, indexMap, pid_map, keyindex>>
  /\ UNCHANGED <<lastCW, period>>

\* cCam::AddPrg with GetHandler: the handler of the service, else an idle one,
\* else a new one; with no index left the program is lost.
AddPrg(s, pids) ==
  /\ IF WithSid(s) # {} THEN Give(LastOf(WithSid(s)), s, pids)
     ELSE IF IdleOnes # {} THEN Give(IdleHandler, s, pids)
     ELSE IF Free # {} THEN GiveNew(s, pids)
     ELSE UNCHANGED <<handlerList, indexMap, pid_map, keyindex>>
  /\ UNCHANGED <<lastCW, period>>

\* cCam::Stop and cEcmHandler::Stop.
Stop ==
  /\ handlerList' = [n \in DOMAIN handlerList |->
       LET h == handlerList[n]
       IN IF IsIdle(h) /\ h.sid = NoSid THEN h
          ELSE [h EXCEPT !.sid = NoSid, !.pids = {}, !.trigger = TRUE]]
  /\ UNCHANGED <<indexMap, lastCW, pid_map, keyindex, period>>

\* cCam::Tune: the programs are stopped if source or transponder is another.
Tune == Stop \/ UNCHANGED coreVars

\* Mutant: the index of a handler that goes stays in use.
HouseKeepingKeepsIndex ==
  /\ \E n \in IdleOnes : /\ handlerList[n].job = NoCw
                         /\ handlerList' = RemoveAt(handlerList, n)
  /\ UNCHANGED <<indexMap, lastCW, pid_map, keyindex, period>>

\* cCam::HouseKeeping: a handler that has been idle for MAX_ECM_IDLE goes; the
\* destructor waits for an ECM that is being decoded.
HouseKeeping ==
  /\ \E n \in IdleOnes : /\ handlerList[n].job = NoCw
                         /\ handlerList' = RemoveAt(handlerList, n)
                         /\ indexMap' = indexMap \ {handlerList[n].cwIndex}
  /\ UNCHANGED <<lastCW, pid_map, keyindex, period>>

-----------------------------------------------------------------------------
(* cEcmHandler::Process, the thread of handler n.                          *)

Replace(n, h) == handlerList' = [handlerList EXCEPT ![n] = h]

\* NoSync; what the handler keeps from the time in sync is not used again.
NoSync(h) == [h EXCEPT !.sync = FALSE, !.resend = FALSE, !.last = NoCw, !.parity = NoCw]

\* StopEcm; then the ECMs of the service are looked for, unless there is nothing
\* to look for.
Restart(h) == [NoSync(h) EXCEPT
                 !.mode = IF h.filterSid = NoSid \/ IsIdle(h) THEN "off" ELSE "find"]

\* The trigger: another service starts anew; another index gets the control
\* words that are known.
Triggered(n) ==
  LET h     == handlerList[n]
      t     == [h EXCEPT !.trigger = FALSE, !.triggerMode = FALSE, !.filterSid = h.sid,
                         !.filterCwIndex = h.cwIndex]
      other == h.filterSid # h.sid
  IN /\ h.job = NoCw /\ h.trigger
     /\ Replace(n, IF other \/ (h.mode = "off" /\ h.triggerMode) THEN Restart(t) ELSE t)
     /\ IF ~ other /\ h.filterCwIndex # h.cwIndex /\ h.mode = "ecm" /\ h.sync
        THEN WriteCW(h.cwIndex, h.last, TRUE) ELSE UNCHANGED <<lastCW, keyindex>>
     /\ UNCHANGED <<indexMap, pid_map, period>>

\* An encryption system that is known is found: nothing is in sync yet.
FindEcm(n) ==
  LET h == handlerList[n]
  IN /\ h.job = NoCw /\ ~ h.trigger /\ h.mode = "find" /\ h.filterSid \in Known
     /\ Replace(n, [h EXCEPT !.mode = "ecm"])
     /\ UNCHANGED <<indexMap, lastCW, pid_map, keyindex, period>>

\* None is found while the handler is idle.
GiveUpFinding(n) ==
  LET h == handlerList[n]
  IN /\ h.job = NoCw /\ ~ h.trigger /\ h.mode = "find" /\ IsIdle(h)
     /\ Replace(n, Restart(h))
     /\ UNCHANGED <<indexMap, lastCW, pid_map, keyindex, period>>

\* An ECM of the period; the CA system starts to decode it if its parity is new,
\* or if the control words are to be sent again (CW_REPEAT_TIME after sync).
TakeEcm(n) ==
  LET h == handlerList[n]
  IN /\ h.job = NoCw /\ ~ h.trigger /\ h.mode = "ecm"
     /\ \E resend \in {FALSE, h.resend} :
          /\ (resend /\ h.sync) \/ h.parity # period % 2
          /\ Replace(n, [h EXCEPT !.resend = h.resend /\ ~ resend,
                        !.job = [n |-> period, force |-> (resend /\ h.sync) \/ ~ h.sync]])
     /\ UNCHANGED <<indexMap, lastCW, pid_map, keyindex, period>>

\* The control words are there.
Decoded(n) ==
  LET h  == handlerList[n]
      cw == Cw(h.filterSid, h.job.n)
  IN /\ h.job # NoCw
     /\ Replace(n, [h EXCEPT !.job = NoCw, !.parity = h.job.n % 2, !.last = cw,
                             !.sync = TRUE, !.resend = @ \/ ~ h.sync])
     /\ WriteCW(h.filterCwIndex, cw, h.job.force)
     /\ UNCHANGED <<indexMap, pid_map, period>>

\* The CA system fails; after a while the handler is out of sync.
Failed(n) ==
  LET h == handlerList[n]
  IN /\ EcmFails /\ h.job # NoCw
     /\ LET t == [h EXCEPT !.job = NoCw, !.parity = NoCw]
        IN Replace(n, t) \/ Replace(n, NoSync(t))
     /\ UNCHANGED <<indexMap, lastCW, pid_map, keyindex, period>>

\* MAX_ECM_HOLD: an idle handler stops.
HoldExpires(n) ==
  LET h == handlerList[n]
  IN /\ h.job = NoCw /\ ~ h.trigger /\ h.mode = "ecm" /\ IsIdle(h)
     /\ Replace(n, Restart(h))
     /\ UNCHANGED <<indexMap, lastCW, pid_map, keyindex, period>>

Process(n) == \/ Triggered(n) \/ FindEcm(n) \/ GiveUpFinding(n) \/ TakeEcm(n) \/ Decoded(n)
              \/ Failed(n) \/ HoldExpires(n)

\* A new crypto period: an ECM is decoded within its period.
NextPeriod ==
  /\ \A n \in DOMAIN handlerList :
       LET h == handlerList[n]
       IN h.job = NoCw /\ (h.mode = "ecm" => h.parity = period % 2)
  /\ period' = (period + 1) % Periods
  /\ UNCHANGED <<handlerList, indexMap, lastCW, pid_map, keyindex>>

-----------------------------------------------------------------------------
(* The calls of process_cam, in their order.                               *)

Perform ==
  /\ calls # <<>> /\ calls' = Tail(calls)
  /\ LET c == Head(calls)
     IN \/ c.op = "prg" /\ AddPrg(c.sid, c.pids)
        \/ c.op = "tune" /\ Tune
        \/ c.op = "stop" /\ Stop
        \/ c.op = "C" /\ ClosePid(c.pids)
        \/ c.op = "I" /\ Invalidate
  /\ UNCHANGED <<pid_list, Channels, valid, viewed>>

AMessage == /\ \E a \in Adapters : ResetSid(a) \/ \E s \in Sids : RemoveSid(a, s) \/ AddSid(a, s)
            /\ UNCHANGED coreVars

\* MSG_HOUSEKEEPING comes through the same queue.
KeepHouse == calls = <<>> /\ HouseKeeping /\ UNCHANGED camVars

Core == (NextPeriod \/ \E n \in DOMAIN handlerList : Process(n)) /\ UNCHANGED camVars

Next == Perform \/ AMessage \/ KeepHouse \/ Core
Spec == Init /\ [][Next]_vars

-----------------------------------------------------------------------------
(* Properties.                                                             *)

TypeOK ==
  /\ CamTypeOK
  /\ indexMap \subseteq Idx /\ period \in 0 .. Periods - 1
  /\ \A n \in DOMAIN handlerList :
       LET h == handlerList[n]
       IN /\ h.cwIndex \in Idx /\ h.filterCwIndex \in Idx
          /\ h.sid \in Sids \cup {NoSid} /\ h.filterSid \in Sids \cup {NoSid}
          /\ h.pids \subseteq Pids /\ h.mode \in {"off", "find", "ecm"}
          /\ h.parity \in Parity \cup {NoCw}
          /\ {h.trigger, h.triggerMode, h.sync, h.resend} \subseteq BOOLEAN
  /\ Mapped \subseteq Pids /\ \A p \in Mapped : pid_map[p] \in Idx
  /\ \A i \in Idx : Status(i) \subseteq Parity /\ keyindex[i].valid \in BOOLEAN

\* Every variable has its type; every index in use belongs to one handler, and
\* every handler has its own.
IndexesMatch ==
  /\ TypeOK
  /\ indexMap = {handlerList[n].cwIndex : n \in DOMAIN handlerList}
  /\ \A m, n \in DOMAIN handlerList :
       handlerList[m].cwIndex = handlerList[n].cwIndex => m = n

\* A service has one handler: what AddPrg tells one is not missed by another.
OneHandlerPerSid ==
  \A m, n \in DOMAIN handlerList :
    handlerList[m].sid = handlerList[n].sid /\ handlerList[m].sid # NoSid => m = n

\* Between two messages, a pid is mapped to the index of the handler that has it
\* in its program, and no other handler serves that program.
MappedToHandler ==
  /\ OneHandlerPerSid
  /\ calls = <<>> =>
       /\ \A p \in Mapped : \E n \in DOMAIN handlerList :
            handlerList[n].cwIndex = pid_map[p] /\ p \in handlerList[n].pids
       /\ \A n \in DOMAIN handlerList : handlerList[n].pids \subseteq Mapped

\* While the handler of an index is in sync and knows its service, the keys with
\* which the pids of that index are descrambled are of that service.  Index zero,
\* which is given out last, is excepted: a handler that is moved off it may still
\* write the control words of an ECM it has begun with to index zero, when another
\* has got that.
KeysOfService ==
  \A p \in Mapped, n \in DOMAIN handlerList :
    LET h == handlerList[n]
        i == pid_map[p]
    IN (i # 0 /\ h.cwIndex = i /\ ~ h.trigger /\ h.sync) =>
         \A q \in Status(i) : keyindex[i].keys[q][1] = h.sid

\* Every key that is there belongs to the service whose pids use it: ECMs of the
\* service that was given up are not processed any more (HISTORY:262).
NoStaleKeys ==
  \A n \in DOMAIN handlerList :
    LET h == handlerList[n]
    IN ~ IsIdle(h) =>
         \A q \in Status(h.cwIndex) : keyindex[h.cwIndex].keys[q][1] = h.sid

\* The program of a service.
Prg(s) == UNION {handlerList[n].pids : n \in WithSid(s)}

\* The core and the descrambler do what CamPids says of them.
Pids0 == INSTANCE CamPids WITH
  prg    <- [a \in Adapters |-> [s \in Sids |-> Prg(s)]],
  mapped <- [a \in Adapters |-> Mapped]
Implements == Pids0!Spec

\* A service of a known system that stays viewed can be descrambled again and
\* again: both keys are there, and the one of the period is the right one.
Ready(s) == \E n \in WithSid(s) :
  LET k == keyindex[handlerList[n].cwIndex]
  IN k.valid /\ DOMAIN k.keys = Parity /\ k.keys[period % 2] = <<s, period>>

KeysArrive == \A s \in Known : []<>(<<0, s>> \in viewed => Ready(s))

\* The daemon makes its calls, the crypto periods go on, the thread of each
\* handler runs, and a CA system does not fail for ever.
ProcessAt(i) == \E n \in DOMAIN handlerList : handlerList[n].cwIndex = i /\ Process(n)
DecodedAt(i) == \E n \in DOMAIN handlerList : handlerList[n].cwIndex = i /\ Decoded(n)
Fairness ==
  /\ WF_vars(Perform) /\ WF_vars(NextPeriod /\ UNCHANGED camVars)
  /\ \A i \in Idx : /\ WF_vars(ProcessAt(i) /\ UNCHANGED camVars)
                     /\ SF_vars(DecodedAt(i) /\ UNCHANGED camVars)

\* One service is viewed at a time: zapping.
ZapSpec == Init /\ [][Next /\ Cardinality(viewed') <= 1]_vars /\ Fairness

-----------------------------------------------------------------------------
(* The inductive invariants.                                               *)

Services == Sids \cup {NoSid}
Handler == [cwIndex : Idx, sid : Services, pids : SUBSET Pids, trigger : BOOLEAN,
            triggerMode : BOOLEAN, filterSid : Services, filterCwIndex : Idx,
            mode : {"off", "find", "ecm"}, sync : BOOLEAN, parity : Parity \cup {NoCw},
            resend : BOOLEAN, last : [Parity -> Services \X (0 .. Periods - 1)] \cup {NoCw},
            job : [n : 0 .. Periods - 1, force : BOOLEAN] \cup {NoCw}]

\* Every handler is well-formed, has an index of its own and a service of its own.
HandlersInv ==
  /\ handlerList \in Seq(Handler)
  /\ indexMap = {handlerList[n].cwIndex : n \in DOMAIN handlerList}
  /\ \A m, n \in DOMAIN handlerList :
       handlerList[m].cwIndex = handlerList[n].cwIndex => m = n
  /\ OneHandlerPerSid

\* Only pids are mapped, and only to indices.
DescramblerInv ==
  /\ Mapped \subseteq Pids /\ \A p \in Mapped : pid_map[p] \in Idx
  /\ DOMAIN keyindex = Idx
  /\ \A i \in Idx : /\ DOMAIN keyindex[i] = {"valid", "keys"}
                    /\ keyindex[i].valid \in BOOLEAN /\ Status(i) \subseteq Parity

\* What IndicesAreOwned, ServiceHasOneHandler and CoreImplements rest on.
CwInv == CamInv /\ HandlersInv /\ DescramblerInv /\ period \in 0 .. Periods - 1

\* With fewer services than indices, index zero stays free: a new handler comes
\* only when every handler has a program, each that of another service.
ZeroFreeInv ==
  /\ CwInv /\ 0 \notin indexMap
  /\ Len(handlerList) <= Cardinality(Sids)
  /\ \A n \in DOMAIN handlerList : handlerList[n].sid = NoSid => IsIdle(handlerList[n])

Used(i) == \E p \in Mapped : pid_map[p] = i

\* The keys with which the pids of an index are descrambled are of service s.
KeysAre(i, s) == Used(i) => \A q \in Status(i) : keyindex[i].keys[q][1] = s

\* What a thread works with is what its handler was given, or it is told to look;
\* it is in sync only with the ECMs of one service.
WorksOn(h) ==
  /\ h.filterCwIndex \in {h.cwIndex, 0}
  /\ ~ h.trigger => h.filterSid = h.sid /\ h.filterCwIndex = h.cwIndex
  /\ h.sync => h.mode = "ecm" /\ \A q \in Parity : h.last[q][1] = h.filterSid
  /\ h.job # NoCw => h.mode = "ecm" /\ (h.job.force \/ h.sync)

\* A handler in sync has written both keys of the index it writes to.
KeysFit ==
  \A n \in DOMAIN handlerList :
    LET h == handlerList[n]
    IN /\ WorksOn(h)
       /\ h.sync /\ h.filterCwIndex # 0 => KeysAre(h.filterCwIndex, h.filterSid)

\* An index that no pid has, has no keys, or they go when a pid comes.
KeysGo ==
  \A i \in Idx : IF Used(i) THEN keyindex[i].valid
                ELSE keyindex[i].valid => Status(i) = {}

\* What KeysMatchService rests on.
SyncInv == KeysFit /\ KeysGo
=============================================================================
