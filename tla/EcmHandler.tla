------------------------------ MODULE EcmHandler ------------------------------
(***************************************************************************)
(* An ECM handler (cEcmHandler, sc/PLUGINS/src/cam.c), its section filter  *)
(* and thread (filter.c) and the ECM cache.  The pid tracker gives the     *)
(* handler a service, moves it to another index or stops it; the thread    *)
(* of the handler walks through the candidates - pairs of an ECM of the    *)
(* service and a system that may decode it - until one yields control      *)
(* words, and leaves a candidate that fails too often.                     *)
(*                                                                         *)
(* A call of Process is two steps: the trigger block under dataMutex, and  *)
(* the rest, during which the tracker may change what it wants.            *)
(***************************************************************************)
EXTENDS MsgCache, Sequences, SequencesExt

CONSTANTS Sids, Ecms, Systems, Indices,
          Descr,       \* service -> CA descriptors it may be given: sequences of ECMs
          Pid,         \* ECM -> its pid; ECMs that share one differ in system or provider id
          Carried,     \* pids on which sections are sent
          Handles,     \* system -> ECMs of the system ids it can handle
          Pri,         \* system -> priority, negative and distinct
          MaxEcmTry,   \* system -> how often it may fail
          ConstantCw,  \* systems with constant control words
          CanDecode,   \* sets of pairs that yield control words, one after the other
          Slow,        \* systems that take longer than a key period to fail
          EcmCache,    \* setup: 0 read and write, 1 read only, 2 off
          LocalPriority,
          MaxCalls,    \* bound: calls by the tracker
          None

ASSUME EcmHandlerAssumption ==
  /\ None \notin Carried /\ None \notin Indices /\ Indices # {}

VARIABLES prg,      \* what the tracker wants: service, viewed or not, descriptor, index
          trigger,  \* it has changed; triggerMode is 0 with it if there are pids
          force,    \* cPidFilter::forceRun
          h,        \* the handler
          busy,     \* its thread is in Process
          ecmcache, \* service -> ECM -> name of the system that decoded it, or None
          keys,     \* index -> control word written last
          period,   \* key period of the broadcast, modulo 2
          able,     \* index into CanDecode
          calls

vars == <<prg, trigger, force, h, busy, ecmcache, keys, period, able, calls>>

Periods == 0..1
Unknown == 2 \* parity 0xFF
Parity(p) == p
Decodes(e, y) == <<e, y>> \in CanDecode[able]

\* Counts beyond these bounds make no difference.
Tries == 3
CountBound == CHOOSE n \in {MaxEcmTry[y] : y \in Systems} : \A y \in Systems : MaxEcmTry[y] <= n
UpTo(bound, n) == IF n < bound THEN n ELSE bound

Info0 == [cached |-> FALSE, failed |-> FALSE, name |-> None]

\* data is what Process was called with, a section or None.
NewHandler ==
  [mode |-> -1, data |-> None, sid |-> None, index |-> None, descr |-> <<>>,
   list |-> <<>>, info |-> [e \in Ecms |-> Info0], cands |-> <<>>, at |-> 0,
   ecm |-> None, sys |-> None, pid |-> None, section |-> None, active |-> <<>>,
   sync |-> FALSE, parity |-> Unknown, count |-> 0, failed |-> [p \in Periods |-> Free],
   upd |-> FALSE, fresh |-> FALSE, again |-> FALSE, since |-> 0, tries |-> 0, lastCw |-> None]

Init ==
  /\ prg = [sid |-> None, viewed |-> FALSE, descr |-> <<>>, index |-> CHOOSE i \in Indices : TRUE]
  /\ trigger = [set |-> FALSE, mode |-> -1] /\ force = FALSE
  /\ h = NewHandler /\ busy = FALSE
  /\ ecmcache = [s \in Sids |-> [e \in Ecms |-> None]]
  /\ keys = [i \in Indices |-> None]
  /\ period = 0 /\ able = 1 /\ calls = 0

-----------------------------------------------------------------------------
(* The tracker: SetPrg, Stop and ShiftCwIndex.  Each wakes the filter.      *)

Called == calls < MaxCalls /\ calls' = calls + 1

SetPrg(s, viewed, d) ==
  /\ Called
  /\ prg' = [prg EXCEPT !.sid = s, !.viewed = viewed,
                        !.descr = IF viewed THEN d ELSE @]
  /\ trigger' = [set |-> trigger.set \/ viewed \/ s # prg.sid,
                 mode |-> IF viewed THEN 0 ELSE trigger.mode]
  /\ force' = TRUE
  /\ UNCHANGED <<h, busy, ecmcache, keys, period, able>>

Stop ==
  /\ Called
  /\ prg.viewed \/ prg.sid # None
  /\ prg' = [prg EXCEPT !.sid = None, !.viewed = FALSE, !.descr = <<>>]
  /\ trigger' = [trigger EXCEPT !.set = TRUE]
  /\ force' = TRUE
  /\ UNCHANGED <<h, busy, ecmcache, keys, period, able>>

ShiftCwIndex(i) ==
  /\ Called
  /\ i # prg.index
  /\ prg' = [prg EXCEPT !.index = i]
  /\ trigger' = [trigger EXCEPT !.set = TRUE]
  /\ force' = TRUE
  /\ UNCHANGED <<h, busy, ecmcache, keys, period, able>>

-----------------------------------------------------------------------------
(* Candidates.                                                             *)

\* The systems for an ECM in falling priority: the remembered one only, if
\* the ECM came from the cache or went there.
SystemsFor(r, e) ==
  LET able_to == {y \in Systems : e \in Handles[y]}
      mine == IF r.info[e].cached THEN able_to \cap {r.info[e].name} ELSE able_to
  IN SetToSortSeq(mine, LAMBDA x, y : Pri[x] > Pri[y])

Weight(r, e, y) ==
  Pri[y] + IF r.info[e].cached /\ ~(LocalPriority /\ Pri[y] = -15) THEN 20 ELSE 0

\* After those of the same priority.
Inserted(cands, c) ==
  LET n == Cardinality({i \in DOMAIN cands : cands[i].pri >= c.pri})
  IN InsertAt(cands, n + 1, c)

\* at follows the candidate it points to.
Add1(r, e, y) ==
  IF \E i \in DOMAIN r.cands : r.cands[i].ecm = e /\ r.cands[i].sys = y THEN r
  ELSE LET c == [ecm |-> e, sys |-> y, pri |-> Weight(r, e, y)]
           new == Inserted(r.cands, c)
           n == CHOOSE i \in DOMAIN new : new[i] = c
       IN [r EXCEPT !.cands = new, !.at = IF @ >= n THEN @ + 1 ELSE @]
AddEcmPri(r, e) == FoldLeft(LAMBDA x, y : Add1(x, e, y), r, SystemsFor(r, e))

\* One ECM of the descriptor: those before it in the list with its pid have
\* another system or provider id and are marked as failed.
ParseOne(r, e) ==
  LET before == IF Contains(r.list, e)
                THEN {r.list[i] : i \in 1..(SelectInSeq(r.list, LAMBDA x : x = e) - 1)}
                ELSE ToSet(r.list)
      marked == [r EXCEPT !.info = [x \in Ecms |->
                   IF x \in before /\ Pid[x] = Pid[e] THEN [@[x] EXCEPT !.failed = TRUE]
                   ELSE @[x]]]
  IN AddEcmPri(IF Contains(r.list, e) THEN marked
               ELSE [marked EXCEPT !.list = Append(@, e), !.info[e] = Info0], e)

\* What reading ECMs changes: the list of them, what is known of each, the
\* candidates, and where the handler is among these.
Listing(r, found) == [r EXCEPT !.list = found.list, !.info = found.info,
                               !.cands = found.cands, !.at = found.at]

\* The ECMs of the descriptor that some system handles.
ParseCAInfo(r, of) ==
  LET found == FoldLeft(ParseOne, r, SelectSeq(r.descr,
                 LAMBDA e : e \in of /\ \E y \in Systems : e \in Handles[y]))
  IN [Listing(r, found) EXCEPT !.upd = FALSE]

LoggedOff(active, e) ==
  IF Contains(active, e) THEN RemoveAt(active, SelectInSeq(active, LAMBDA x : x = e))
  ELSE active

\* Mutant: what the filter has read is not dropped.
StopEcmKeepsSection(r) ==
  [r EXCEPT !.pid = None, !.sys = None, !.tries = 0,
            !.active = IF r.ecm = None THEN @ ELSE LoggedOff(@, r.ecm)]

\* Mutant: the logger is not told.
StopEcmSilent(r) ==
  [r EXCEPT !.pid = None, !.section = None, !.sys = None, !.tries = 0]

\* The filter is closed, and with it goes what it has read.
StopEcm(r) ==
  [r EXCEPT !.pid = None, !.section = None, !.sys = None, !.tries = 0,
            !.active = IF r.ecm = None THEN @ ELSE LoggedOff(@, r.ecm)]

\* The next candidate of those there are, or none at the end.
JumpIn(r) ==
  LET next == IF r.at < Len(r.cands) THEN r.at + 1 ELSE 0
      c == r.cands[next]
      from == IF c.ecm = r.ecm THEN [r EXCEPT !.section = None, !.tries = 0]
              ELSE [StopEcm(r) EXCEPT !.ecm = c.ecm, !.pid = Pid[c.ecm],
                                      !.active = Append(@, c.ecm)]
  IN IF next = 0 THEN [StopEcm(r) EXCEPT !.at = 0, !.ecm = None]
     ELSE [from EXCEPT !.at = next, !.sys = c.sys]

\* At the start of the list the descriptor is read once more.
JumpEcm(r) == JumpIn(IF r.at = 0 THEN ParseCAInfo(r, Ecms) ELSE r)

NewEcm(r) ==
  LET found == IF EcmCache > 1 \/ r.sid = None THEN {}
               ELSE {e \in Ecms : ecmcache[r.sid][e] # None}
      read == [r EXCEPT !.list = SetToSeq(found), !.cands = <<>>, !.at = 0,
                        !.info = [e \in Ecms |->
                          IF e \in found
                          THEN [cached |-> TRUE, failed |-> FALSE, name |-> ecmcache[r.sid][e]]
                          ELSE Info0]]
  IN JumpEcm([Listing(read, FoldLeft(AddEcmPri, read, read.list))
                EXCEPT !.ecm = None, !.at = 0])

NoSync(r, clearParity) ==
  [r EXCEPT !.count = 0, !.sync = FALSE, !.parity = IF clearParity THEN Unknown ELSE @]

\* dolog is saved as a bool here, so that the round counts as a later one.
UpdateEcm(r) ==
  IF r.upd THEN [ParseCAInfo(r, {r.ecm}) EXCEPT !.fresh = FALSE] ELSE r

-----------------------------------------------------------------------------
(* Process.                                                                *)

\* A section comes; a later one of the same kind is no news.
Arrive ==
  /\ h.pid \in Carried
  /\ h.section # [pid |-> h.pid, period |-> period]
  /\ h' = [h EXCEPT !.section = [pid |-> h.pid, period |-> period]]
  /\ UNCHANGED <<prg, trigger, force, busy, ecmcache, keys, period, able, calls>>

\* The trigger block.
Triggered(r) ==
  LET new == prg.sid # r.sid
      moved == [r EXCEPT !.sid = prg.sid, !.index = prg.index,
                         !.mode = IF new THEN 0
                                  ELSE IF @ < trigger.mode THEN trigger.mode ELSE @]
  IN IF prg.descr = r.descr THEN moved
     ELSE [moved EXCEPT !.descr = prg.descr, !.upd = TRUE]

\* Mutant: the new index waits for the next control word.
RewritesNever == FALSE

Rewrites == prg.sid = h.sid /\ prg.index # h.index /\ h.mode = 3 /\ h.sync

\* Action calls Process with a section, or with nothing when it is woken or
\* has been idle for too long; the first takes the wake-up with it.
Take(data) ==
  /\ ~busy /\ busy' = TRUE
  /\ IF data # None THEN data = h.section
     ELSE force \/ (h.mode # -1 /\ h.section = None /\ h.pid \notin Carried)
  /\ force' = FALSE
  /\ LET r == [h EXCEPT !.data = data, !.section = IF data = None THEN @ ELSE None]
     IN h' = IF trigger.set THEN Triggered(r) ELSE r
  /\ keys' = IF trigger.set /\ Rewrites THEN [keys EXCEPT ![prg.index] = h.lastCw] ELSE keys
  /\ trigger' = IF trigger.set THEN [set |-> FALSE, mode |-> -1] ELSE trigger
  /\ UNCHANGED <<prg, ecmcache, period, able, calls>>

\* What a call with data does first: modes 1, 4, 5 and 2 fall through to 3.
Entered(r) ==
  IF r.mode \in {1, 4, 5} /\ ~(r.mode = 1 /\ r.ecm = None)
  THEN [NoSync(r, r.mode # 5) EXCEPT !.failed = [p \in Periods |-> Free],
                                     !.since = 0, !.mode = 3]
  ELSE r

\* With the first candidate, if there is none yet.
Prepared(r) == Entered(IF r.mode = 1 /\ r.ecm = None THEN JumpEcm(r) ELSE r)

\* The system has yielded a control word.
WithKey(r, p, resend) ==
  LET ok == [UpdateEcm([r EXCEPT !.count = 0, !.fresh = TRUE]) EXCEPT
               !.info[r.ecm] = [cached |-> @.cached \/ EcmCache = 0, failed |-> FALSE,
                                name |-> r.sys]]
  IN [ok EXCEPT !.sync = TRUE, !.since = 0, !.again = IF resend THEN FALSE ELSE @ \/ ~r.sync,
                !.lastCw = [sid |-> r.sid, period |-> p]]

\* EcmOk: the ECM is remembered, and cached ones that failed are forgotten.
Remembered(r) ==
  IF EcmCache > 0 THEN ecmcache
  ELSE [ecmcache EXCEPT ![r.sid] = [e \in Ecms |->
          IF e = r.ecm THEN r.sys
          ELSE IF Contains(r.list, e) /\ r.info[e].cached /\ r.info[e].failed THEN None
          ELSE @[e]]]

\* All candidates have failed: the first is tried again, when the round was not
\* the first one only from the next parity on.
Anew(r, data) ==
  IF r.ecm = None THEN [r EXCEPT !.mode = 0]
  ELSE IF r.fresh \/ data = None THEN [r EXCEPT !.mode = 4, !.fresh = FALSE]
  ELSE [r EXCEPT !.mode = 5, !.parity = Parity(data.period)]

\* r is past the candidate that failed: at the next one, or at the end.
NextOrAnew(r, data) ==
  IF r.ecm # None THEN [r EXCEPT !.mode = 4] ELSE Anew(JumpEcm(r), data)

\* The candidate has failed too often.
Failed(r, data) == NextOrAnew(JumpEcm([r EXCEPT !.info[r.ecm].failed = TRUE]), data)

\* The section is not decoded.  The first failure of a message does not count;
\* reaching two failures counts twice.
Undecoded(r, p, late) ==
  LET mode == r.failed[p]
      max == MaxEcmTry[r.sys]
      n == IF mode = FailN \/ mode = Good THEN 99 ELSE AfterFailure(mode, max)
      more == IF n = 2 THEN 2 ELSE IF n > 2 THEN 1 ELSE 0
      bad == [r EXCEPT !.count = UpTo(CountBound, @ + more), !.parity = Unknown,
                       !.tries = UpTo(Tries, @ + 1),
                       !.failed[p] = IF mode = Good THEN Good ELSE AfterFailure(mode, max)]
  IN IF r.sync /\ late THEN NoSync(bad, TRUE) ELSE bad

\* Mutant: sync is never lost.
LateNever == {FALSE}

\* Control words are late after more than two key periods.
Late == IF h.since = 0 THEN {FALSE} ELSE IF h.since < 3 THEN BOOLEAN ELSE {TRUE}

\* The end of mode 3: give the candidate up, or the handler if it is idle.
Finished(r, data, hold) ==
  IF ~r.sync /\ ~trigger.set /\ r.count >= MaxEcmTry[r.sys] THEN Failed(r, data)
  ELSE IF hold THEN [r EXCEPT !.mode = 0] ELSE r

Ended(r) == h' = [r EXCEPT !.data = None] /\ busy' = FALSE

\* Mode 3 with data to decode, or with a system that needs none.
Decode(r, data, resend, hold) ==
  LET p == IF data = None THEN period ELSE data.period
      good == WithKey([r EXCEPT !.parity = IF data = None THEN @ ELSE Parity(p),
                                !.failed[p] = IF data = None THEN @ ELSE Good], p, resend)
  IN /\ Decodes(r.ecm, r.sys)
     /\ \/ data # None /\ r.failed[p] # FailN /\ (resend \/ r.parity # Parity(p))
        \/ data = None /\ r.sys \in ConstantCw
     /\ keys' = [keys EXCEPT ![r.index] = good.lastCw]
     /\ ecmcache' = Remembered(good)
     /\ Ended(Finished(good, data, hold))
     /\ UNCHANGED <<prg, trigger, force, period, able, calls>>

\* Mode 3 with a section that is not decoded, perhaps slowly; then what came
\* meanwhile is dropped.
DecodeFails(r, data, resend, late, hold) ==
  /\ data # None
  /\ resend \/ r.parity # Parity(data.period)
  /\ ~Decodes(r.ecm, r.sys) \/ r.failed[data.period] = FailN
  /\ LET slow == r.sys \in Slow /\ r.failed[data.period] # FailN
         bad == Undecoded(r, data.period, late)
         next == 1 - period
     IN /\ period' = IF slow THEN next ELSE period
        /\ Ended(Finished(IF slow THEN [bad EXCEPT !.section = None, !.failed[next] = Free,
                                                   !.tries = 0]
                          ELSE bad, data, hold))
  /\ UNCHANGED <<prg, trigger, force, ecmcache, keys, able, calls>>

\* Mode 3 with a section that has been seen, or with none.
NoDecode(r, data, resend, hold) ==
  /\ IF data = None THEN r.sys \notin ConstantCw \/ ~Decodes(r.ecm, r.sys)
     ELSE ~resend /\ r.parity = Parity(data.period)
  /\ Ended(Finished([r EXCEPT !.count = IF data = None THEN UpTo(CountBound, @ + 1) ELSE @], data, hold))
  /\ UNCHANGED <<prg, trigger, force, ecmcache, keys, period, able, calls>>

\* Modes -1 and 0.
Rest ==
  /\ busy
  /\ h.mode < 1
  /\ LET stopped == StopEcm(h)
     IN Ended(IF h.mode = -1 THEN h
              ELSE IF h.sid = None \/ ~prg.viewed THEN [stopped EXCEPT !.mode = -1]
              ELSE [NewEcm([stopped EXCEPT !.fresh = TRUE]) EXCEPT !.mode = 1])
  /\ UNCHANGED <<prg, trigger, force, ecmcache, keys, period, able, calls>>

\* Mode 1 without a candidate: wait for descriptors, or give up when idle.
Search ==
  /\ busy
  /\ Prepared(h).mode = 1
  /\ \E idle \in {FALSE} \cup IF prg.viewed THEN {} ELSE {TRUE} :
       Ended(IF idle THEN [Prepared(h) EXCEPT !.mode = 0] ELSE Prepared(h))
  /\ UNCHANGED <<prg, trigger, force, ecmcache, keys, period, able, calls>>

\* Mode 3, with data or without.
WorkOn(r, resend, late, hold) ==
  \/ Decode(r, h.data, resend /\ r.sync, hold)
  \/ DecodeFails(r, h.data, resend /\ r.sync, late, hold)
  \/ NoDecode(r, h.data, resend /\ r.sync, hold)

Work ==
  /\ busy
  /\ h.mode > 0
  /\ Prepared(h).mode = 3
  /\ \E resend \in {FALSE} \cup IF h.again THEN {TRUE} ELSE {},
        late \in Late,
        hold \in {FALSE} \cup IF prg.viewed THEN {} ELSE {TRUE} :
       WorkOn([Prepared(h) EXCEPT !.again = IF resend THEN FALSE ELSE @], resend, late, hold)

\* The next key period.  One lasts long enough for a message to be sent three
\* times to a handler that wants it, and the filter is read in time.
Wanted == h.mode \in {3, 4} /\ h.pid \in Carried /\ h.parity # Parity(period) /\ h.tries < Tries
Behind == h.section # None /\ h.section.period # period
Tick ==
  /\ ~(Wanted \/ Behind)
  /\ period' = 1 - period
  /\ h' = [h EXCEPT !.failed[period'] = Free, !.tries = 0,
                    !.since = IF h.sync THEN UpTo(3, @ + 1) ELSE @]
  /\ UNCHANGED <<prg, trigger, force, busy, ecmcache, keys, able, calls>>

\* What the systems can decode changes (keys, cards, servers).
Change ==
  /\ able < Len(CanDecode)
  /\ able' = able + 1
  /\ UNCHANGED <<prg, trigger, force, h, busy, ecmcache, keys, period, calls>>

Next ==
  \/ \E s \in Sids, viewed \in BOOLEAN : \E d \in Descr[s] : SetPrg(s, viewed, d)
  \/ Stop
  \/ \E i \in Indices : ShiftCwIndex(i)
  \/ \E data \in {None, h.section} : Take(data)
  \/ Rest \/ Search \/ Work \/ Arrive \/ Tick \/ Change

\* The thread calls Process whenever there is cause, and Process returns:
\* these are the steps of Take, and of Rest, Search and Work.
Cause == force \/ h.section # None \/ (h.mode # -1 /\ h.pid \notin Carried)
Calls == Cause /\ ~busy /\ busy' = TRUE
Returns == busy /\ busy' = FALSE

Fairness ==
  /\ WF_busy(Calls)
  /\ WF_busy(Returns)
  /\ WF_vars(Arrive)
  /\ WF_vars(Tick)

Spec == Init /\ [][Next]_vars /\ Fairness

-----------------------------------------------------------------------------
(* Properties.                                                             *)

TypeOK ==
  /\ h.mode \in -1..5 /\ h.at \in 0..Len(h.cands) /\ h.parity \in 0..2
  /\ h.ecm \in Ecms \cup {None} /\ h.sys \in Systems \cup {None}
  /\ \A i, j \in DOMAIN h.cands : i < j => h.cands[i].pri >= h.cands[j].pri
  /\ prg.index \in Indices

\* A handler that decodes has a candidate in use - neither a null system nor a
\* null ECM (cam.c:1212, 1242) -, its filter is open for that ECM, and the
\* EMM logger has been told of this ECM and no other (cam.c:1412, 1441).
InUse ==
  /\ h.mode \in 2..5 => h.ecm # None /\ h.sys # None
  /\ h.active = IF h.pid = None THEN <<>> ELSE <<h.ecm>>
  /\ h.pid # None => h.pid = Pid[h.ecm]

\* A section is given to the system of the pid it came from: nothing that was
\* read for one candidate is decoded for another (cam.c:1411, 1445).
DataOfCurrent ==
  busy /\ h.data # None /\ h.mode > 0 /\ Prepared(h).mode = 3 =>
    h.data.pid = Pid[Prepared(h).ecm]

\* Once the handler has dealt with what the tracker wants, a handler in sync
\* has its last control word at the index of its service, also when the
\* service has moved to another index since (cam.c:1062, 1158).
KeysFollow ==
  h.mode = 3 /\ h.sync /\ ~trigger.set =>
    keys[prg.index] = h.lastCw /\ h.lastCw.sid = prg.sid

\* A service that is viewed and can be decoded by one of its candidates - the
\* remembered system, if there is one - gets in sync and stays so, whatever
\* was tried before and whatever could be decoded before (cam.c:1309-1327).
\* Not so if a system takes longer than a key period to fail: every message is
\* new to it then, and first failures do not count (cam.c:1257).
Decodable(s) ==
  \E e \in ToSet(prg.descr), y \in Systems :
    /\ e \in Handles[y] /\ Pid[e] \in Carried /\ Decodes(e, y)
    /\ ecmcache[s][e] \in {None, y}
GetsInSync ==
  \A s \in Sids : <>[](prg.sid = s /\ prg.viewed /\ Decodable(s))
                   => <>[](h.sync /\ h.sid = s /\ Decodes(h.ecm, h.sys))

\* Not so when the tracker wakes the handler: a wake-up without a section counts
\* as a missing one, and ECMs are marked as failed that no system has seen
\* (cam.c:1289; "only really failed entries are removed", HISTORY:846).
OnlyReallyFailed ==
  [][\A e \in Ecms :
       ~h.info[e].failed /\ h'.info[e].failed /\ Pid[e] \in Carried =>
         \E p \in Periods : h.failed[p] # Free]_vars

\* Not so: when all candidates of a service have failed, each of its ECMs has
\* been tried with every system that handles it, the remembered one first.  An
\* ECM from the cache has no other candidate (cam.c:1372-1373; "use this system
\* first", HISTORY:783).
RememberedIsOnlyFirst ==
  [][h.mode # 5 /\ h'.mode = 5 =>
       \A e \in ToSet(h'.descr), y \in Systems :
         e \in Handles[y] =>
           \E i \in DOMAIN h'.cands : h'.cands[i].ecm = e /\ h'.cands[i].sys = y]_vars

-----------------------------------------------------------------------------
(* Inductive invariants.                                                   *)

\* What the filter has read is of the pid it is open for, and that is the pid of
\* the ECM in use.
FilterOfEcm ==
  /\ h.section # None => h.pid # None /\ h.section.pid = h.pid
  /\ h.pid # None => h.pid = Pid[h.ecm]

\* A handler that still searches has no filter; what it was called with is of
\* the ECM in use.
DataOfEcm ==
  /\ h.mode = 1 /\ h.ecm = None => h.pid = None
  /\ busy /\ h.data # None /\ h.mode > 0 =>
       h.data.pid = Pid[h.ecm] /\ ~(h.mode = 1 /\ h.ecm = None)

\* Mode 2 is never taken.
Modes == /\ h.mode \in {-1, 0, 1, 3, 4, 5}
         /\ trigger \in [set : BOOLEAN, mode : {-1, 0}]

SectionInv == DOMAIN h = DOMAIN NewHandler /\ Modes /\ FilterOfEcm /\ DataOfEcm

\* What the handler has taken over of what the tracker wants, and where its last
\* control word is.
TakenOver ==
  /\ prg.index \in Indices /\ (h.mode # -1 => h.index \in Indices)
  /\ ~trigger.set => h.sid = prg.sid /\ h.index \in {None, prg.index}
LastWritten ==
  h.mode = 3 /\ h.sync => keys[h.index] = h.lastCw /\ h.lastCw.sid = h.sid

KeysInv == /\ DOMAIN keys = Indices /\ DOMAIN prg = {"sid", "viewed", "descr", "index"}
           /\ SectionInv /\ TakenOver /\ LastWritten
===============================================================================
