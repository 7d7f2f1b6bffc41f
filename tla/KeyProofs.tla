----------------------------- MODULE KeyProofs ------------------------------
(***************************************************************************)
(* Proofs about one ECM handler, for every service, ECM and system, every  *)
(* order of descriptors and every schedule of the tracker and the thread.  *)
(*                                                                         *)
(* What the lists of ECMs and candidates hold does not matter: the filter, *)
(* the ECM in use and the data handed over change together.                *)
(***************************************************************************)
EXTENDS EcmHandler, KeyFile, SequenceLemmas

Fields == {"mode", "data", "sid", "index", "descr", "list", "info", "cands", "at", "ecm",
           "sys", "pid", "section", "active", "sync", "parity", "count", "failed", "upd",
           "fresh", "again", "since", "tries", "lastCw"}

\* q is as r but for the filter, the candidate and what is counted.
SameTask(q, r) ==
  /\ DOMAIN q = Fields
  /\ q.mode = r.mode /\ q.data = r.data /\ q.sid = r.sid /\ q.index = r.index
  /\ q.sync = r.sync /\ q.lastCw = r.lastCw

\* Nor have the filter and the candidate changed.
SameUse(q, r) ==
  SameTask(q, r) /\ q.ecm = r.ecm /\ q.pid = r.pid /\ q.section = r.section

\* FilterOfEcm, of any state of the handler.
FilterFits(r) ==
  /\ r.section # None => r.pid # None /\ r.section.pid = r.pid
  /\ r.pid # None => r.pid = Pid[r.ecm]

LEMMA FieldsAre == DOMAIN NewHandler = Fields
BY DEF NewHandler, Fields

LEMMA ListingIs ==
  ASSUME NEW r, DOMAIN r = Fields, NEW found
  PROVE  SameUse(Listing(r, found), r)
BY DEF Listing, SameUse, SameTask, Fields

LEMMA ParseIs ==
  ASSUME NEW r, DOMAIN r = Fields, NEW of
  PROVE  SameUse(ParseCAInfo(r, of), r)
<1> DEFINE found == FoldLeft(ParseOne, r, SelectSeq(r.descr,
                      LAMBDA e : e \in of /\ \E y \in Systems : e \in Handles[y]))
           q == Listing(r, found)
<1>1. ParseCAInfo(r, of) = [q EXCEPT !.upd = FALSE]
  BY DEF ParseCAInfo
<1>2. SameUse(q, r)
  <2> HIDE DEF found
  <2> QED BY ListingIs
<1> HIDE DEF q
<1> QED BY <1>1, <1>2 DEF SameUse, SameTask, Fields

LEMMA StopIs ==
  ASSUME NEW r, DOMAIN r = Fields
  PROVE  /\ SameTask(StopEcm(r), r) /\ StopEcm(r).ecm = r.ecm
         /\ StopEcm(r).pid = None /\ StopEcm(r).section = None
BY DEF StopEcm, SameTask, Fields

\* Going on to the next candidate keeps the filter with the ECM; a handler without
\* a filter has none as long as it finds no candidate.
LEMMA JumpInIs ==
  ASSUME NEW r, DOMAIN r = Fields, FilterFits(r)
  PROVE  /\ SameTask(JumpIn(r), r) /\ FilterFits(JumpIn(r))
         /\ r.ecm = None /\ r.pid = None => (JumpIn(r).ecm = None => JumpIn(r).pid = None)
<1> DEFINE next == IF r.at < Len(r.cands) THEN r.at + 1 ELSE 0
           c == r.cands[next]
           st == StopEcm(r)
           from == IF c.ecm = r.ecm THEN [r EXCEPT !.section = None, !.tries = 0]
                   ELSE [st EXCEPT !.ecm = c.ecm, !.pid = Pid[c.ecm],
                                   !.active = Append(@, c.ecm)]
<1>1. JumpIn(r) = IF next = 0 THEN [st EXCEPT !.at = 0, !.ecm = None]
                  ELSE [from EXCEPT !.at = next, !.sys = c.sys]
  BY DEF JumpIn
<1>2. SameTask(st, r) /\ st.pid = None /\ st.section = None
  BY StopIs
<1> HIDE DEF next, c, st
<1>3. /\ SameTask(from, r) /\ FilterFits(from)
      /\ r.ecm = None /\ r.pid = None => (from.ecm = None => from.pid = None)
  <2>1. CASE c.ecm = r.ecm
    BY <2>1 DEF SameTask, FilterFits, Fields
  <2>2. CASE c.ecm # r.ecm
    <3>1. /\ DOMAIN from = Fields /\ from.ecm = c.ecm /\ from.pid = Pid[c.ecm]
          /\ from.section = st.section
      BY <1>2, <2>2 DEF SameTask, Fields
    <3>2. SameTask(from, st)
      BY <1>2, <2>2 DEF SameTask, Fields
    <3> QED BY <1>2, <2>2, <3>1, <3>2 DEF SameTask, FilterFits
  <2> QED BY <2>1, <2>2
<1> HIDE DEF from
<1>4. CASE next = 0
  <2>1. /\ SameTask(JumpIn(r), st) /\ JumpIn(r).pid = None /\ JumpIn(r).section = None
    BY <1>1, <1>2, <1>4 DEF SameTask, Fields
  <2> QED BY <1>2, <2>1 DEF SameTask, FilterFits
<1>5. CASE next # 0
  <2>1. SameUse(JumpIn(r), from)
    BY <1>1, <1>3, <1>5 DEF SameUse, SameTask, Fields
  <2> QED BY <1>3, <2>1 DEF SameUse, SameTask, FilterFits
<1> QED BY <1>4, <1>5

LEMMA JumpIs ==
  ASSUME NEW r, DOMAIN r = Fields, FilterFits(r)
  PROVE  /\ SameTask(JumpEcm(r), r) /\ FilterFits(JumpEcm(r))
         /\ r.ecm = None /\ r.pid = None => (JumpEcm(r).ecm = None => JumpEcm(r).pid = None)
<1> DEFINE q == IF r.at = 0 THEN ParseCAInfo(r, Ecms) ELSE r
<1>1. SameUse(q, r)
  BY ParseIs DEF SameUse, SameTask
<1>2. JumpEcm(r) = JumpIn(q)
  BY DEF JumpEcm
<1> HIDE DEF q
<1>3. DOMAIN q = Fields /\ FilterFits(q) /\ q.ecm = r.ecm /\ q.pid = r.pid /\ SameTask(q, r)
  BY <1>1 DEF SameUse, SameTask, FilterFits
<1>4. /\ SameTask(JumpIn(q), q) /\ FilterFits(JumpIn(q))
      /\ q.ecm = None /\ q.pid = None => (JumpIn(q).ecm = None => JumpIn(q).pid = None)
  BY <1>3, JumpInIs
<1> QED BY <1>2, <1>3, <1>4 DEF SameTask

\* A handler that starts to search closes its filter first.
LEMMA NewEcmIs ==
  ASSUME NEW r, DOMAIN r = Fields, r.pid = None, r.section = None
  PROVE  /\ SameTask(NewEcm(r), r) /\ FilterFits(NewEcm(r))
         /\ NewEcm(r).ecm = None => NewEcm(r).pid = None
<1> DEFINE found == IF EcmCache > 1 \/ r.sid = None THEN {}
                    ELSE {e \in Ecms : ecmcache[r.sid][e] # None}
           read == [r EXCEPT !.list = SetToSeq(found), !.cands = <<>>, !.at = 0,
                             !.info = [e \in Ecms |->
                               IF e \in found
                               THEN [cached |-> TRUE, failed |-> FALSE,
                                     name |-> ecmcache[r.sid][e]]
                               ELSE Info0]]
           listed == Listing(read, FoldLeft(AddEcmPri, read, read.list))
           q == [listed EXCEPT !.ecm = None, !.at = 0]
<1>1. NewEcm(r) = JumpEcm(q)
  BY DEF NewEcm
<1>2. SameUse(read, r)
  <2> HIDE DEF found
  <2> QED BY DEF SameUse, SameTask, Fields
<1> HIDE DEF read
<1>3. \A f : SameUse(Listing(read, f), read)
  BY <1>2, ListingIs DEF SameUse, SameTask
<1>4. SameUse(listed, read)
  BY <1>3
<1> HIDE DEF listed
<1>5. SameTask(q, r) /\ q.ecm = None /\ q.pid = None /\ q.section = None
  BY <1>2, <1>4 DEF SameUse, SameTask, Fields
<1> HIDE DEF q
<1>6. DOMAIN q = Fields /\ FilterFits(q)
  BY <1>5 DEF SameTask, FilterFits
<1>7. /\ SameTask(JumpEcm(q), q) /\ FilterFits(JumpEcm(q))
      /\ q.ecm = None /\ q.pid = None => (JumpEcm(q).ecm = None => JumpEcm(q).pid = None)
  BY <1>6, JumpIs
<1> QED BY <1>1, <1>5, <1>7 DEF SameTask

\* Mode 3 is entered without sync and with the ECM in use.
LEMMA EnteredIs ==
  ASSUME NEW r, DOMAIN r = Fields, FilterFits(r)
  PROVE  LET q == Entered(r)
         IN /\ DOMAIN q = Fields /\ FilterFits(q) /\ q.data = r.data /\ q.sid = r.sid
            /\ q.index = r.index /\ q.ecm = r.ecm /\ q.pid = r.pid
            /\ \/ q = r /\ ~(r.mode \in {1, 4, 5} /\ ~(r.mode = 1 /\ r.ecm = None))
               \/ q.mode = 3 /\ ~q.sync /\ r.mode \in {1, 4, 5}
<1> DEFINE q == Entered(r)
           ns == NoSync(r, r.mode # 5)
<1>1. CASE ~(r.mode \in {1, 4, 5} /\ ~(r.mode = 1 /\ r.ecm = None))
  BY <1>1 DEF Entered
<1>2. CASE r.mode \in {1, 4, 5} /\ ~(r.mode = 1 /\ r.ecm = None)
  <2>1. q = [ns EXCEPT !.failed = [p \in Periods |-> Free], !.since = 0, !.mode = 3]
    BY <1>2 DEF Entered
  <2>2. /\ DOMAIN ns = Fields /\ ns.section = r.section /\ ns.pid = r.pid /\ ns.ecm = r.ecm
        /\ ns.data = r.data /\ ns.sid = r.sid /\ ns.index = r.index /\ ns.sync = FALSE
    BY DEF NoSync, Fields
  <2> HIDE DEF ns
  <2>3. /\ DOMAIN q = Fields /\ q.section = r.section /\ q.pid = r.pid /\ q.ecm = r.ecm
        /\ q.data = r.data /\ q.sid = r.sid /\ q.index = r.index /\ q.sync = FALSE
        /\ q.mode = 3
    BY <2>1, <2>2 DEF Fields
  <2> HIDE DEF q
  <2>4. FilterFits(q)
    BY <2>3 DEF FilterFits
  <2> QED BY <1>2, <2>3, <2>4 DEF q
<1> QED BY <1>1, <1>2

\* What a call of Process goes on with.
LEMMA PreparedIs ==
  ASSUME NEW r, DOMAIN r = Fields, FilterFits(r), r.mode \in {1, 3, 4, 5},
         r.mode = 1 /\ r.ecm = None => r.pid = None
  PROVE  LET q == Prepared(r)
         IN /\ DOMAIN q = Fields /\ FilterFits(q) /\ q.data = r.data /\ q.sid = r.sid
            /\ q.index = r.index
            /\ ~(r.mode = 1 /\ r.ecm = None) => q.ecm = r.ecm
            /\ r.mode = 3 => q = r
            /\ q.mode = 3 /\ r.mode # 3 => ~q.sync
            /\ q.mode = 3 \/ (q.mode = 1 /\ q.ecm = None /\ q.pid = None)
<1> DEFINE j == IF r.mode = 1 /\ r.ecm = None THEN JumpEcm(r) ELSE r
           q == Prepared(r)
<1>1. q = Entered(j)
  BY DEF Prepared
<1>2. /\ DOMAIN j = Fields /\ FilterFits(j) /\ j.mode = r.mode /\ j.data = r.data
      /\ j.sid = r.sid /\ j.index = r.index
      /\ ~(r.mode = 1 /\ r.ecm = None) => j = r
      /\ r.mode = 1 /\ r.ecm = None => (j.ecm = None => j.pid = None)
  <2>1. CASE r.mode = 1 /\ r.ecm = None
    <3>1. /\ SameTask(JumpEcm(r), r) /\ FilterFits(JumpEcm(r))
          /\ JumpEcm(r).ecm = None => JumpEcm(r).pid = None
      BY <2>1, JumpIs
    <3> QED BY <2>1, <3>1 DEF SameTask
  <2>2. CASE ~(r.mode = 1 /\ r.ecm = None)
    BY <2>2
  <2> QED BY <2>1, <2>2
<1> HIDE DEF j, q
<1>3. /\ DOMAIN q = Fields /\ FilterFits(q) /\ q.data = j.data /\ q.sid = j.sid
      /\ q.index = j.index /\ q.ecm = j.ecm /\ q.pid = j.pid
      /\ \/ q = j /\ ~(j.mode \in {1, 4, 5} /\ ~(j.mode = 1 /\ j.ecm = None))
         \/ q.mode = 3 /\ ~q.sync /\ j.mode \in {1, 4, 5}
  BY <1>1, <1>2, EnteredIs
<1>4. r.mode = 3 => q = r
  BY <1>2, <1>3
<1>5. q.mode = 3 /\ r.mode # 3 => ~q.sync
  BY <1>2, <1>3
<1>6. q.mode = 3 \/ (q.mode = 1 /\ q.ecm = None /\ q.pid = None)
  BY <1>2, <1>3
<1> QED BY <1>2, <1>3, <1>4, <1>5, <1>6 DEF q

\* The end of mode 3 moves on with another candidate, or in mode 3 with all as it is.
LEMMA FinishedIs ==
  ASSUME NEW r, DOMAIN r = Fields, FilterFits(r), r.mode = 3, NEW data, NEW hold
  PROVE  LET q == Finished(r, data, hold)
         IN /\ DOMAIN q = Fields /\ FilterFits(q) /\ q.sid = r.sid /\ q.index = r.index
            /\ q.mode \in {0, 3, 4, 5} /\ (q.mode = 3 => q = r)
<1> DEFINE q == Finished(r, data, hold)
           m == [r EXCEPT !.info[r.ecm].failed = TRUE]
           j == JumpEcm(m)
           k == JumpEcm(j)
<1>1. DOMAIN m = Fields /\ FilterFits(m) /\ m.sid = r.sid /\ m.index = r.index
  BY DEF FilterFits, Fields
<1> HIDE DEF m
<1>2. DOMAIN j = Fields /\ FilterFits(j) /\ j.sid = r.sid /\ j.index = r.index
  BY <1>1, JumpIs DEF SameTask
<1> HIDE DEF j
<1>3. DOMAIN k = Fields /\ FilterFits(k) /\ k.sid = r.sid /\ k.index = r.index
  BY <1>2, JumpIs DEF SameTask
<1> HIDE DEF k
<1>4. \/ q = Failed(r, data) \/ q = [r EXCEPT !.mode = 0] \/ q = r
  BY DEF Finished
<1>5. CASE q = Failed(r, data)
  <2>1. \/ q = [j EXCEPT !.mode = 4]
        \/ q = [k EXCEPT !.mode = 0]
        \/ q = [k EXCEPT !.mode = 4, !.fresh = FALSE]
        \/ q = [k EXCEPT !.mode = 5, !.parity = Parity(data.period)]
    BY <1>5 DEF Failed, NextOrAnew, Anew, j, k, m
  <2> HIDE DEF q
  <2>2. CASE q = [j EXCEPT !.mode = 4]
    <3>1. DOMAIN q = Fields /\ q.mode = 4 /\ q.sid = j.sid /\ q.index = j.index /\ FilterFits(q)
      BY <1>2, <2>2 DEF Fields, FilterFits
    <3> QED BY <1>2, <3>1 DEF q
  <2>3. CASE q = [k EXCEPT !.mode = 0]
    <3>1. DOMAIN q = Fields /\ q.mode = 0 /\ q.sid = k.sid /\ q.index = k.index /\ FilterFits(q)
      BY <1>3, <2>3 DEF Fields, FilterFits
    <3> QED BY <1>3, <3>1 DEF q
  <2>4. CASE \/ q = [k EXCEPT !.mode = 4, !.fresh = FALSE]
             \/ q = [k EXCEPT !.mode = 5, !.parity = Parity(data.period)]
    <3>1. /\ DOMAIN q = Fields /\ q.mode \in {4, 5} /\ q.sid = k.sid /\ q.index = k.index
          /\ FilterFits(q)
      BY <1>3, <2>4 DEF Fields, FilterFits
    <3> QED BY <1>3, <3>1 DEF q
  <2> QED BY <2>1, <2>2, <2>3, <2>4
<1>6. CASE q = [r EXCEPT !.mode = 0]
  <2> HIDE DEF q
  <2>1. DOMAIN q = Fields /\ q.mode = 0 /\ q.sid = r.sid /\ q.index = r.index /\ FilterFits(q)
    BY <1>6 DEF Fields, FilterFits
  <2> QED BY <2>1 DEF q
<1>7. CASE q = r
  BY <1>7
<1> QED BY <1>4, <1>5, <1>6, <1>7

\* With a control word the handler is in sync and remembers the word.
LEMMA WithKeyIs ==
  ASSUME NEW r, DOMAIN r = Fields, FilterFits(r), NEW p, NEW resend
  PROVE  LET q == WithKey(r, p, resend)
         IN /\ DOMAIN q = Fields /\ FilterFits(q) /\ q.mode = r.mode /\ q.sid = r.sid
            /\ q.index = r.index /\ q.lastCw.sid = r.sid
<1> DEFINE q == WithKey(r, p, resend)
           s == [r EXCEPT !.count = 0, !.fresh = TRUE]
           u == UpdateEcm(s)
           ok == [u EXCEPT !.info[r.ecm] =
                    [cached |-> @.cached \/ EcmCache = 0, failed |-> FALSE, name |-> r.sys]]
<1>1. q = [ok EXCEPT !.sync = TRUE, !.since = 0,
                     !.again = IF resend THEN FALSE ELSE @ \/ ~r.sync,
                     !.lastCw = [sid |-> r.sid, period |-> p]]
  BY DEF WithKey
<1>2. SameUse(s, r)
  BY DEF SameUse, SameTask, Fields
<1> HIDE DEF s
<1>3. SameUse(u, s)
  <2> DEFINE c == ParseCAInfo(s, {s.ecm})
  <2>1. u = s \/ u = [c EXCEPT !.fresh = FALSE]
    BY DEF UpdateEcm
  <2>2. DOMAIN s = Fields
    BY <1>2 DEF SameUse, SameTask
  <2>3. SameUse(c, s)
    BY <2>2, ParseIs
  <2> HIDE DEF c, u
  <2>4. SameUse([c EXCEPT !.fresh = FALSE], s)
    BY <2>3 DEF SameUse, SameTask, Fields
  <2> QED BY <2>1, <2>2, <2>4 DEF SameUse, SameTask
<1> HIDE DEF u
<1>4. /\ DOMAIN ok = Fields /\ ok.mode = u.mode /\ ok.sid = u.sid /\ ok.index = u.index
      /\ ok.ecm = u.ecm /\ ok.pid = u.pid /\ ok.section = u.section
  BY <1>3 DEF SameUse, SameTask, Fields
<1> HIDE DEF ok, q
<1>5. /\ DOMAIN q = Fields /\ q.mode = ok.mode /\ q.sid = ok.sid /\ q.index = ok.index
      /\ q.ecm = ok.ecm /\ q.pid = ok.pid /\ q.section = ok.section
      /\ q.lastCw = [sid |-> r.sid, period |-> p]
  BY <1>1, <1>4 DEF Fields
<1>6. /\ q.mode = r.mode /\ q.sid = r.sid /\ q.index = r.index /\ q.ecm = r.ecm
      /\ q.pid = r.pid /\ q.section = r.section
  BY <1>2, <1>3, <1>4, <1>5 DEF SameUse, SameTask
<1>7. FilterFits(q)
  BY <1>6 DEF FilterFits
<1> QED BY <1>5, <1>6, <1>7 DEF q

\* A section that is not decoded changes the counts, and sync to none.
LEMMA UndecodedIs ==
  ASSUME NEW r, DOMAIN r = Fields, FilterFits(r), NEW p, NEW late
  PROVE  LET q == Undecoded(r, p, late)
         IN /\ DOMAIN q = Fields /\ FilterFits(q) /\ q.mode = r.mode /\ q.sid = r.sid
            /\ q.index = r.index /\ q.lastCw = r.lastCw /\ (q.sync => r.sync)
<1> DEFINE q == Undecoded(r, p, late)
           mode == r.failed[p]
           max == MaxEcmTry[r.sys]
           n == IF mode = FailN \/ mode = Good THEN 99 ELSE AfterFailure(mode, max)
           more == IF n = 2 THEN 2 ELSE IF n > 2 THEN 1 ELSE 0
           count == UpTo(CountBound, r.count + more)
           tries == UpTo(Tries, r.tries + 1)
           fail == IF mode = Good THEN Good ELSE AfterFailure(mode, max)
           bad == [r EXCEPT !.count = count, !.parity = Unknown, !.tries = tries,
                            !.failed[p] = fail]
<1>1. q = bad \/ q = NoSync(bad, TRUE)
  BY DEF Undecoded
<1> HIDE DEF count, tries, fail
<1>2. SameUse(bad, r)
  BY DEF SameUse, SameTask, Fields
<1> HIDE DEF bad, q
<1>3. /\ DOMAIN q = Fields /\ q.mode = bad.mode /\ q.sid = bad.sid /\ q.index = bad.index
      /\ q.ecm = bad.ecm /\ q.pid = bad.pid /\ q.section = bad.section
      /\ q.lastCw = bad.lastCw /\ (q.sync => bad.sync)
  BY <1>1, <1>2 DEF NoSync, SameUse, SameTask, Fields
<1> QED BY <1>2, <1>3 DEF SameUse, SameTask, FilterFits, q

-----------------------------------------------------------------------------
(* The invariant.                                                          *)

LEMMA KeysInit == Init => KeysInv
<1> SUFFICES ASSUME Init PROVE KeysInv
  OBVIOUS
<1>1. /\ h.mode = -1 /\ h.section = None /\ h.pid = None /\ h.data = None
      /\ h.sid = None /\ h.index = None
  BY DEF Init, NewHandler
<1>2. SectionInv
  BY <1>1 DEF Init, SectionInv, Modes, FilterOfEcm, DataOfEcm
<1>3. TakenOver
  BY <1>1, EcmHandlerAssumption DEF Init, TakenOver
<1>4. LastWritten
  BY <1>1 DEF LastWritten
<1> QED BY <1>2, <1>3, <1>4 DEF Init, KeysInv

\* A call of Process leaves the handler in one of these states.
Left(q) ==
  /\ DOMAIN q = Fields /\ FilterFits(q) /\ q.mode \in {-1, 0, 1, 3, 4, 5}
  /\ q.mode = 1 /\ q.ecm = None => q.pid = None
  /\ q.sid = h.sid /\ q.index = h.index /\ (q.mode # -1 => h.mode # -1)

LEMMA EndedInv ==
  ASSUME KeysInv, NEW q, Left(q), Ended(q), UNCHANGED <<prg, trigger>>,
         DOMAIN keys' = Indices,
         q.mode = 3 /\ q.sync => keys'[q.index] = q.lastCw /\ q.lastCw.sid = q.sid
  PROVE  KeysInv'
<1>1. h' = [q EXCEPT !.data = None] /\ busy' = FALSE
  BY DEF Ended
<1>2. /\ DOMAIN h' = Fields /\ h'.mode = q.mode /\ h'.section = q.section /\ h'.pid = q.pid
      /\ h'.ecm = q.ecm /\ h'.sid = q.sid /\ h'.index = q.index /\ h'.sync = q.sync
      /\ h'.lastCw = q.lastCw
  BY <1>1 DEF Left, Fields
<1>3. SectionInv'
  <2>1. DOMAIN h' = DOMAIN NewHandler
    BY <1>2, FieldsAre
  <2>2. DOMAIN NewHandler' = DOMAIN NewHandler
    BY DEF NewHandler
  <2>3. Modes'
    BY <1>2 DEF Left, KeysInv, SectionInv, Modes
  <2>4. FilterOfEcm' /\ DataOfEcm'
    BY <1>1, <1>2 DEF Left, FilterFits, FilterOfEcm, DataOfEcm
  <2> QED BY <2>1, <2>3, <2>4 DEF SectionInv, NewHandler
<1>4. TakenOver'
  BY <1>2 DEF Left, KeysInv, TakenOver
<1>5. LastWritten'
  BY <1>2 DEF LastWritten
<1> QED BY <1>3, <1>4, <1>5 DEF KeysInv

LEMMA TrackerInv ==
  ASSUME KeysInv,
         \/ \E s \in Sids, viewed \in BOOLEAN : \E d \in Descr[s] : SetPrg(s, viewed, d)
         \/ Stop
         \/ \E i \in Indices : ShiftCwIndex(i)
  PROVE  KeysInv'
<1>1. UNCHANGED <<h, busy, keys>>
  BY DEF SetPrg, Stop, ShiftCwIndex
<1>2. /\ DOMAIN prg = {"sid", "viewed", "descr", "index"}
      /\ trigger \in [set : BOOLEAN, mode : {-1, 0}] /\ TakenOver
  BY DEF KeysInv, SectionInv, Modes
<1>3. /\ DOMAIN prg' = {"sid", "viewed", "descr", "index"}
      /\ trigger' \in [set : BOOLEAN, mode : {-1, 0}] /\ TakenOver'
  <2>1. ASSUME NEW s \in Sids, NEW viewed \in BOOLEAN, NEW d, SetPrg(s, viewed, d)
        PROVE  /\ DOMAIN prg' = {"sid", "viewed", "descr", "index"}
               /\ trigger' \in [set : BOOLEAN, mode : {-1, 0}] /\ TakenOver'
    <3>1. /\ prg' = [prg EXCEPT !.sid = s, !.viewed = viewed,
                                !.descr = IF viewed THEN d ELSE @]
          /\ trigger' = [set |-> trigger.set \/ viewed \/ s # prg.sid,
                         mode |-> IF viewed THEN 0 ELSE trigger.mode]
      BY <2>1 DEF SetPrg
    <3>2. trigger' \in [set : BOOLEAN, mode : {-1, 0}]
      BY <1>2, <3>1
    <3>3. /\ DOMAIN prg' = {"sid", "viewed", "descr", "index"}
          /\ prg'.sid = s /\ prg'.index = prg.index
      BY <1>2, <3>1
    <3>4. ~trigger'.set => ~trigger.set /\ s = prg.sid
      BY <1>2, <3>1
    <3> QED BY <1>1, <1>2, <3>2, <3>3, <3>4 DEF TakenOver
  <2>2. ASSUME Stop
        PROVE  /\ DOMAIN prg' = {"sid", "viewed", "descr", "index"}
               /\ trigger' \in [set : BOOLEAN, mode : {-1, 0}] /\ TakenOver'
    <3>1. /\ prg' = [prg EXCEPT !.sid = None, !.viewed = FALSE, !.descr = <<>>]
          /\ trigger' = [trigger EXCEPT !.set = TRUE]
      BY <2>2 DEF Stop
    <3>2. trigger' \in [set : BOOLEAN, mode : {-1, 0}] /\ trigger'.set
      BY <1>2, <3>1
    <3>3. DOMAIN prg' = {"sid", "viewed", "descr", "index"} /\ prg'.index = prg.index
      BY <1>2, <3>1
    <3> QED BY <1>1, <1>2, <3>2, <3>3 DEF TakenOver
  <2>3. ASSUME NEW i \in Indices, ShiftCwIndex(i)
        PROVE  /\ DOMAIN prg' = {"sid", "viewed", "descr", "index"}
               /\ trigger' \in [set : BOOLEAN, mode : {-1, 0}] /\ TakenOver'
    <3>1. prg' = [prg EXCEPT !.index = i] /\ trigger' = [trigger EXCEPT !.set = TRUE]
      BY <2>3 DEF ShiftCwIndex
    <3>2. trigger' \in [set : BOOLEAN, mode : {-1, 0}] /\ trigger'.set
      BY <1>2, <3>1
    <3>3. DOMAIN prg' = {"sid", "viewed", "descr", "index"} /\ prg'.index = i
      BY <1>2, <3>1
    <3> QED BY <1>1, <1>2, <3>2, <3>3 DEF TakenOver
  <2> QED BY <2>1, <2>2, <2>3
<1>4. SectionInv'
  BY <1>1, <1>3 DEF KeysInv, SectionInv, Modes, FilterOfEcm, DataOfEcm, NewHandler
<1>5. LastWritten'
  BY <1>1 DEF KeysInv, LastWritten
<1> QED BY <1>1, <1>3, <1>4, <1>5 DEF KeysInv

\* What comes from outside changes the filter, never who it is for.
LEMMA OutsideInv ==
  ASSUME KeysInv, Arrive \/ Tick \/ Change \/ UNCHANGED vars
  PROVE  KeysInv'
<1>1. UNCHANGED <<prg, trigger, busy, keys>>
  BY DEF Arrive, Tick, Change, vars
<1>2. DOMAIN h = Fields
  BY FieldsAre DEF KeysInv, SectionInv
<1>3. /\ DOMAIN h' = Fields /\ h'.mode = h.mode /\ h'.data = h.data /\ h'.pid = h.pid
      /\ h'.ecm = h.ecm /\ h'.sid = h.sid /\ h'.index = h.index /\ h'.sync = h.sync
      /\ h'.lastCw = h.lastCw
  BY <1>2 DEF Arrive, Tick, Change, vars, Fields
<1>4. h'.section = h.section \/ (h.pid # None /\ h'.section.pid = h.pid)
  <2>1. CASE Arrive
    <3>1. h'.section = [pid |-> h.pid, period |-> period] /\ h.pid \in Carried
      BY <1>2, <2>1 DEF Arrive, Fields
    <3> QED BY <3>1, EcmHandlerAssumption
  <2>2. CASE Tick \/ Change \/ UNCHANGED vars
    BY <1>2, <2>2 DEF Tick, Change, vars, Fields
  <2> QED BY <2>1, <2>2
<1>5. FilterOfEcm'
  BY <1>3, <1>4 DEF KeysInv, SectionInv, FilterOfEcm
<1>6. DataOfEcm' /\ Modes'
  BY <1>1, <1>3 DEF KeysInv, SectionInv, DataOfEcm, Modes
<1>7. SectionInv'
  BY <1>3, <1>5, <1>6, FieldsAre DEF SectionInv, NewHandler
<1>8. TakenOver' /\ LastWritten'
  BY <1>1, <1>3 DEF KeysInv, TakenOver, LastWritten
<1> QED BY <1>1, <1>7, <1>8 DEF KeysInv

\* The trigger block ends what was in use, or keeps it and moves its control word.
LEMMA TakeInv ==
  ASSUME KeysInv, NEW data \in {None, h.section}, Take(data)
  PROVE  KeysInv'
<1> DEFINE r == [h EXCEPT !.data = data, !.section = IF data = None THEN @ ELSE None]
           q == h'
<1>1. DOMAIN h = Fields /\ h.mode \in {-1, 0, 1, 3, 4, 5}
  BY FieldsAre DEF KeysInv, SectionInv, Modes
<1>2. /\ DOMAIN r = Fields /\ r.mode = h.mode /\ r.data = data /\ r.pid = h.pid
      /\ r.ecm = h.ecm /\ r.sid = h.sid /\ r.index = h.index /\ r.sync = h.sync
      /\ r.lastCw = h.lastCw /\ r.section = IF data = None THEN h.section ELSE None
  BY <1>1 DEF Fields
<1>3. /\ UNCHANGED prg /\ busy' = TRUE
      /\ q = IF trigger.set THEN Triggered(r) ELSE r
      /\ keys' = IF trigger.set /\ Rewrites THEN [keys EXCEPT ![prg.index] = h.lastCw] ELSE keys
      /\ trigger' = IF trigger.set THEN [set |-> FALSE, mode |-> -1] ELSE trigger
  BY DEF Take
<1> HIDE DEF r
<1>4. /\ trigger.set \in BOOLEAN /\ trigger.mode \in {-1, 0}
      /\ trigger \in [set : BOOLEAN, mode : {-1, 0}]
  BY DEF KeysInv, SectionInv, Modes
<1>5. /\ DOMAIN q = Fields /\ q.data = data /\ q.pid = h.pid /\ q.ecm = h.ecm
      /\ q.sync = h.sync /\ q.lastCw = h.lastCw /\ q.section = r.section
      /\ q.mode \in {h.mode, 0}
      /\ IF trigger.set THEN /\ q.sid = prg.sid /\ q.index = prg.index
                             /\ prg.sid # h.sid => q.mode = 0
         ELSE q = r
  <2>1. CASE ~trigger.set
    BY <1>2, <1>3, <2>1
  <2>2. CASE trigger.set
    <3> DEFINE new == prg.sid # r.sid
               mode == IF new THEN 0 ELSE IF r.mode < trigger.mode THEN trigger.mode ELSE r.mode
               moved == [r EXCEPT !.sid = prg.sid, !.index = prg.index, !.mode = mode]
    <3>1. q = moved \/ q = [moved EXCEPT !.descr = prg.descr, !.upd = TRUE]
      BY <1>3, <2>2 DEF Triggered
    <3>2. mode \in {h.mode, 0} /\ (prg.sid # h.sid => mode = 0)
      BY <1>1, <1>2, <1>4
    <3> HIDE DEF mode, q
    <3>3. /\ DOMAIN moved = Fields /\ moved.data = data /\ moved.pid = h.pid
          /\ moved.ecm = h.ecm /\ moved.sync = h.sync /\ moved.lastCw = h.lastCw
          /\ moved.section = r.section /\ moved.mode = mode
          /\ moved.sid = prg.sid /\ moved.index = prg.index
      BY <1>2 DEF Fields
    <3> HIDE DEF moved
    <3>4. /\ DOMAIN q = Fields /\ q.data = data /\ q.pid = h.pid
          /\ q.ecm = h.ecm /\ q.sync = h.sync /\ q.lastCw = h.lastCw
          /\ q.section = r.section /\ q.mode = mode
          /\ q.sid = prg.sid /\ q.index = prg.index
      BY <3>1, <3>3 DEF Fields
    <3> QED BY <2>2, <3>2, <3>4
  <2> QED BY <2>1, <2>2
<1>6. FilterOfEcm'
  <2>1. /\ h.section # None => h.pid # None /\ h.section.pid = h.pid
        /\ h.pid # None => h.pid = Pid[h.ecm]
    BY DEF KeysInv, SectionInv, FilterOfEcm
  <2> QED BY <1>2, <1>5, <2>1 DEF FilterOfEcm
<1>7. DataOfEcm'
  <2>1. h.mode = 1 /\ h.ecm = None => h.pid = None
    BY DEF KeysInv, SectionInv, DataOfEcm
  <2>2. data # None => h.pid # None /\ data.pid = h.pid /\ h.pid = Pid[h.ecm]
    BY DEF KeysInv, SectionInv, FilterOfEcm
  <2>3. h'.mode = 1 => h.mode = 1
    BY <1>5
  <2> QED BY <1>5, <2>1, <2>2, <2>3 DEF DataOfEcm
<1>8. Modes'
  <2>1. trigger' \in [set : BOOLEAN, mode : {-1, 0}]
    BY <1>3, <1>4
  <2> QED BY <1>1, <1>5, <2>1 DEF Modes
<1>9. SectionInv'
  BY <1>5, <1>6, <1>7, <1>8, FieldsAre DEF SectionInv, NewHandler
<1>10. TakenOver'
  <2>1. CASE trigger.set
    BY <1>3, <1>5, <2>1 DEF KeysInv, TakenOver
  <2>2. CASE ~trigger.set
    <3>1. trigger' = trigger /\ h'.sid = h.sid /\ h'.index = h.index /\ h'.mode = h.mode
      BY <1>2, <1>3, <1>5, <2>2
    <3> QED BY <1>3, <2>2, <3>1 DEF KeysInv, TakenOver
  <2> QED BY <2>1, <2>2
<1>11. LastWritten' /\ DOMAIN keys' = Indices
  <2>1. DOMAIN keys = Indices /\ prg.index \in Indices
    BY DEF KeysInv, TakenOver
  <2>2. h.mode = 3 /\ h.sync => keys[h.index] = h.lastCw /\ h.lastCw.sid = h.sid
    BY DEF KeysInv, LastWritten
  <2>3. SUFFICES ASSUME h'.mode = 3, h'.sync
                 PROVE  keys'[h'.index] = h'.lastCw /\ h'.lastCw.sid = h'.sid
    BY <1>3, <2>1 DEF LastWritten
  <2>4. h.mode = 3 /\ h.sync /\ h'.lastCw = h.lastCw
    BY <1>5, <2>3
  <2>5. CASE trigger.set
    <3>1. h'.sid = h.sid /\ h.sid = prg.sid /\ h'.index = prg.index
      BY <1>5, <2>3, <2>5
    <3>2. CASE prg.index = h.index
      BY <1>3, <2>2, <2>4, <3>1, <3>2 DEF Rewrites
    <3>3. CASE prg.index # h.index
      <4>1. keys' = [keys EXCEPT ![prg.index] = h.lastCw]
        BY <1>3, <2>4, <2>5, <3>1, <3>3 DEF Rewrites
      <4> QED BY <2>1, <2>2, <2>4, <3>1, <4>1
    <3> QED BY <3>2, <3>3
  <2>6. CASE ~trigger.set
    BY <1>2, <1>3, <1>5, <2>2, <2>4, <2>6
  <2> QED BY <2>5, <2>6
<1> QED BY <1>3, <1>9, <1>10, <1>11 DEF KeysInv, TakenOver

LEMMA RestInv ==
  ASSUME KeysInv, Rest
  PROVE  KeysInv'
<1> DEFINE st == StopEcm(h)
           fr == [st EXCEPT !.fresh = TRUE]
           ne == NewEcm(fr)
           q == IF h.mode = -1 THEN h
                ELSE IF h.sid = None \/ ~prg.viewed THEN [st EXCEPT !.mode = -1]
                ELSE [ne EXCEPT !.mode = 1]
<1>1. /\ DOMAIN h = Fields /\ FilterFits(h) /\ h.mode \in {-1, 0}
  BY FieldsAre DEF KeysInv, SectionInv, Modes, FilterOfEcm, FilterFits, Rest
<1>2. Ended(q) /\ UNCHANGED <<prg, trigger, keys>>
  BY DEF Rest
<1>3. SameTask(st, h) /\ st.pid = None /\ st.section = None
  BY <1>1, StopIs
<1> HIDE DEF st
<1>4. /\ DOMAIN fr = Fields /\ fr.sid = h.sid /\ fr.index = h.index
      /\ fr.pid = None /\ fr.section = None
  BY <1>3 DEF SameTask, Fields
<1> HIDE DEF fr
<1>5. /\ DOMAIN ne = Fields /\ FilterFits(ne) /\ ne.sid = h.sid /\ ne.index = h.index
      /\ ne.ecm = None => ne.pid = None
  BY <1>4, NewEcmIs DEF SameTask
<1> HIDE DEF ne
<1>6. Left(q) /\ q.mode # 3
  <2>1. CASE h.mode = -1
    BY <1>1, <2>1 DEF Left
  <2>2. CASE h.mode # -1 /\ (h.sid = None \/ ~prg.viewed)
    <3>1. q = [st EXCEPT !.mode = -1]
      BY <2>2
    <3> HIDE DEF q
    <3>2. /\ DOMAIN q = Fields /\ q.mode = -1 /\ q.sid = h.sid /\ q.index = h.index
          /\ q.pid = None /\ q.section = None
      BY <1>3, <3>1 DEF SameTask, Fields
    <3> QED BY <3>2 DEF Left, FilterFits
  <2>3. CASE h.mode # -1 /\ ~(h.sid = None \/ ~prg.viewed)
    <3>1. q = [ne EXCEPT !.mode = 1]
      BY <2>3
    <3> HIDE DEF q
    <3>2. /\ DOMAIN q = Fields /\ q.mode = 1 /\ q.sid = ne.sid /\ q.index = ne.index
          /\ q.pid = ne.pid /\ q.section = ne.section /\ q.ecm = ne.ecm
      BY <1>5, <3>1 DEF Fields
    <3> QED BY <1>5, <2>3, <3>2 DEF Left, FilterFits
  <2> QED BY <2>1, <2>2, <2>3
<1> HIDE DEF q
<1>7. DOMAIN keys' = Indices
  BY <1>2 DEF KeysInv
<1> QED BY <1>2, <1>6, <1>7, EndedInv

\* What Search and Work start from.
LEMMA AtWork ==
  ASSUME KeysInv, h.mode > 0
  PROVE  /\ DOMAIN h = Fields /\ h.mode \in {1, 3, 4, 5} /\ h.index \in Indices
         /\ DOMAIN Prepared(h) = Fields /\ FilterFits(Prepared(h))
         /\ Prepared(h).data = h.data /\ Prepared(h).sid = h.sid
         /\ Prepared(h).index = h.index
         /\ ~(h.mode = 1 /\ h.ecm = None) => Prepared(h).ecm = h.ecm
         /\ h.mode = 3 => Prepared(h) = h
         /\ Prepared(h).mode = 3 /\ h.mode # 3 => ~Prepared(h).sync
         /\ \/ Prepared(h).mode = 3
            \/ Prepared(h).mode = 1 /\ Prepared(h).ecm = None /\ Prepared(h).pid = None
<1>1. /\ DOMAIN h = Fields /\ FilterFits(h) /\ h.mode \in {1, 3, 4, 5}
      /\ h.mode = 1 /\ h.ecm = None => h.pid = None
  BY FieldsAre DEF KeysInv, SectionInv, Modes, FilterOfEcm, DataOfEcm, FilterFits
<1>2. h.index \in Indices
  BY <1>1 DEF KeysInv, TakenOver
<1> QED BY <1>1, <1>2, PreparedIs

LEMMA SearchInv ==
  ASSUME KeysInv, Search
  PROVE  KeysInv'
<1> DEFINE p == Prepared(h)
<1>1. p.mode = 1 /\ UNCHANGED <<prg, trigger, keys>> /\ DOMAIN keys' = Indices
  BY DEF Search, KeysInv
<1>2. PICK q \in {p, [p EXCEPT !.mode = 0]} : Ended(q)
  BY DEF Search
<1>3. h.mode > 0
  <2>1. h.mode \in {-1, 0, 1, 3, 4, 5}
    BY DEF KeysInv, SectionInv, Modes
  <2>2. h.mode \in {-1, 0} => p = h
    BY DEF Prepared, Entered
  <2> QED BY <1>1, <2>1, <2>2
<1>4. /\ DOMAIN p = Fields /\ FilterFits(p) /\ p.sid = h.sid /\ p.index = h.index
      /\ p.ecm = None /\ p.pid = None /\ h.mode # -1
  BY <1>1, <1>3, AtWork
<1> HIDE DEF p
<1>5. /\ DOMAIN q = Fields /\ q.mode \in {0, 1} /\ q.sid = p.sid /\ q.index = p.index
      /\ q.ecm = p.ecm /\ q.pid = p.pid /\ q.section = p.section
  BY <1>1, <1>2, <1>4 DEF Fields
<1>6. Left(q) /\ q.mode # 3
  BY <1>4, <1>5 DEF Left, FilterFits
<1> QED BY <1>1, <1>2, <1>6, EndedInv

\* The end of mode 3, from a state whose control word is where keys' says.
LEMMA MovedOnInv ==
  ASSUME KeysInv, UNCHANGED <<prg, trigger>>, DOMAIN keys' = Indices, h.mode > 0,
         NEW r, DOMAIN r = Fields, FilterFits(r), r.mode = 3, r.sid = h.sid,
         r.index = h.index,
         r.sync => keys'[r.index] = r.lastCw /\ r.lastCw.sid = r.sid,
         NEW data, NEW hold, Ended(Finished(r, data, hold))
  PROVE  KeysInv'
<1> DEFINE q == Finished(r, data, hold)
<1>1. /\ DOMAIN q = Fields /\ FilterFits(q) /\ q.sid = r.sid /\ q.index = r.index
      /\ q.mode \in {0, 3, 4, 5} /\ (q.mode = 3 => q = r)
  BY FinishedIs
<1>2. Ended(q)
  OBVIOUS
<1> HIDE DEF q
<1>3. Left(q)
  BY <1>1 DEF Left
<1>4. q.mode = 3 /\ q.sync => keys'[q.index] = q.lastCw /\ q.lastCw.sid = q.sid
  BY <1>1
<1> QED BY <1>2, <1>3, <1>4, EndedInv

\* Mode 3 goes on with r, which is in sync only if the handler was.
AtDecoding(r) ==
  /\ DOMAIN r = Fields /\ FilterFits(r) /\ r.mode = 3 /\ r.sid = h.sid /\ r.index = h.index
  /\ r.sync => keys[r.index] = r.lastCw /\ r.lastCw.sid = r.sid

LEMMA DecodeInv ==
  ASSUME KeysInv, h.mode > 0, NEW r, AtDecoding(r), NEW data, NEW resend, NEW hold,
         Decode(r, data, resend, hold)
  PROVE  KeysInv'
<1> DEFINE p == IF data = None THEN period ELSE data.period
           parity == IF data = None THEN r.parity ELSE Parity(p)
           fail == IF data = None THEN r.failed[p] ELSE Good
           s == [r EXCEPT !.parity = parity, !.failed[p] = fail]
           good == WithKey(s, p, resend)
<1>1. /\ keys' = [keys EXCEPT ![r.index] = good.lastCw]
      /\ Ended(Finished(good, data, hold)) /\ UNCHANGED <<prg, trigger>>
  BY DEF Decode
<1> HIDE DEF p, parity, fail
<1>2. SameUse(s, r)
  BY DEF AtDecoding, SameUse, SameTask, Fields
<1> HIDE DEF s
<1>3. DOMAIN s = Fields /\ FilterFits(s) /\ s.mode = 3 /\ s.sid = h.sid /\ s.index = h.index
  BY <1>2 DEF AtDecoding, SameUse, SameTask, FilterFits
<1>4. /\ DOMAIN good = Fields /\ FilterFits(good) /\ good.mode = 3 /\ good.sid = h.sid
      /\ good.index = h.index /\ good.lastCw.sid = h.sid
  BY <1>3, WithKeyIs
<1> HIDE DEF good
<1>5. DOMAIN keys = Indices /\ r.index = h.index /\ h.index \in Indices
  BY AtWork DEF KeysInv, AtDecoding
<1>6. DOMAIN keys' = Indices /\ keys'[good.index] = good.lastCw
  BY <1>1, <1>4, <1>5
<1> QED BY <1>1, <1>4, <1>6, MovedOnInv

LEMMA DecodeFailsInv ==
  ASSUME KeysInv, h.mode > 0, NEW r, AtDecoding(r), NEW data, NEW resend, NEW late, NEW hold,
         DecodeFails(r, data, resend, late, hold)
  PROVE  KeysInv'
<1> DEFINE slow == r.sys \in Slow /\ r.failed[data.period] # FailN
           bad == Undecoded(r, data.period, late)
           next == 1 - period
           q == IF slow THEN [bad EXCEPT !.section = None, !.failed[next] = Free, !.tries = 0]
                ELSE bad
<1>1. Ended(Finished(q, data, hold)) /\ UNCHANGED <<prg, trigger, keys>>
  BY DEF DecodeFails
<1>2. /\ DOMAIN bad = Fields /\ FilterFits(bad) /\ bad.mode = r.mode /\ bad.sid = r.sid
      /\ bad.index = r.index /\ bad.lastCw = r.lastCw /\ (bad.sync => r.sync)
  BY UndecodedIs DEF AtDecoding
<1> HIDE DEF bad, slow, next
<1>3. /\ DOMAIN q = Fields /\ q.mode = bad.mode /\ q.sid = bad.sid /\ q.index = bad.index
      /\ q.lastCw = bad.lastCw /\ q.sync = bad.sync /\ q.pid = bad.pid /\ q.ecm = bad.ecm
      /\ q.section \in {None, bad.section}
  BY <1>2 DEF Fields
<1> HIDE DEF q
<1>4. FilterFits(q)
  BY <1>2, <1>3 DEF FilterFits
<1>5. DOMAIN keys' = Indices
  BY <1>1 DEF KeysInv
<1>6. q.mode = 3 /\ q.sid = h.sid /\ q.index = h.index
      /\ (q.sync => keys'[q.index] = q.lastCw /\ q.lastCw.sid = q.sid)
  BY <1>1, <1>2, <1>3 DEF AtDecoding
<1> QED BY <1>1, <1>3, <1>4, <1>5, <1>6, MovedOnInv

LEMMA NoDecodeInv ==
  ASSUME KeysInv, h.mode > 0, NEW r, AtDecoding(r), NEW data, NEW resend, NEW hold,
         NoDecode(r, data, resend, hold)
  PROVE  KeysInv'
<1> DEFINE count == IF data = None THEN UpTo(CountBound, r.count + 1) ELSE r.count
           q == [r EXCEPT !.count = count]
<1>1. Ended(Finished(q, data, hold)) /\ UNCHANGED <<prg, trigger, keys>>
  BY DEF NoDecode
<1> HIDE DEF count
<1>2. SameUse(q, r) /\ DOMAIN q = Fields
  BY DEF AtDecoding, SameUse, SameTask, Fields
<1> HIDE DEF q
<1>3. FilterFits(q) /\ q.mode = 3 /\ q.sid = h.sid /\ q.index = h.index
  BY <1>2 DEF AtDecoding, SameUse, SameTask, FilterFits
<1>4. DOMAIN keys' = Indices
  BY <1>1 DEF KeysInv
<1>5. q.sync => keys'[q.index] = q.lastCw /\ q.lastCw.sid = q.sid
  BY <1>1, <1>2 DEF AtDecoding, SameUse, SameTask
<1> QED BY <1>1, <1>2, <1>3, <1>4, <1>5, MovedOnInv

LEMMA WorkInv ==
  ASSUME KeysInv, Work
  PROVE  KeysInv'
<1> DEFINE p == Prepared(h)
           Of(resend) == [p EXCEPT !.again = IF resend THEN FALSE ELSE @]
<1>1. h.mode > 0 /\ p.mode = 3
  BY DEF Work
<1>2. PICK resend, late, hold : WorkOn(Of(resend), resend, late, hold)
  BY DEF Work
<1>3. /\ DOMAIN p = Fields /\ FilterFits(p) /\ p.sid = h.sid /\ p.index = h.index
      /\ h.mode = 3 => p = h
      /\ h.mode # 3 => ~p.sync
  BY <1>1, AtWork
<1>4. p.sync => keys[p.index] = p.lastCw /\ p.lastCw.sid = p.sid
  BY <1>3 DEF KeysInv, LastWritten
<1> HIDE DEF p
<1> DEFINE r == Of(resend)
<1>5. SameUse(r, p)
  BY <1>3 DEF SameUse, SameTask, Fields
<1> HIDE DEF r
<1>6. AtDecoding(r)
  BY <1>1, <1>3, <1>4, <1>5 DEF AtDecoding, SameUse, SameTask, FilterFits
<1>7. WorkOn(r, resend, late, hold)
  BY <1>2 DEF r
<1>8. \/ Decode(r, h.data, resend /\ r.sync, hold)
      \/ DecodeFails(r, h.data, resend /\ r.sync, late, hold)
      \/ NoDecode(r, h.data, resend /\ r.sync, hold)
  BY <1>7 DEF WorkOn
<1>9. CASE Decode(r, h.data, resend /\ r.sync, hold)
  BY <1>1, <1>6, <1>9, DecodeInv
<1>10. CASE DecodeFails(r, h.data, resend /\ r.sync, late, hold)
  BY <1>1, <1>6, <1>10, DecodeFailsInv
<1>11. CASE NoDecode(r, h.data, resend /\ r.sync, hold)
  BY <1>1, <1>6, <1>11, NoDecodeInv
<1> QED BY <1>8, <1>9, <1>10, <1>11

LEMMA KeysNext == KeysInv /\ [Next]_vars => KeysInv'
<1> SUFFICES ASSUME KeysInv, [Next]_vars PROVE KeysInv'
  OBVIOUS
<1>1. CASE \/ \E s \in Sids, viewed \in BOOLEAN : \E d \in Descr[s] : SetPrg(s, viewed, d)
           \/ Stop
           \/ \E i \in Indices : ShiftCwIndex(i)
  BY <1>1, TrackerInv
<1>2. CASE \E data \in {None, h.section} : Take(data)
  BY <1>2, TakeInv
<1>3. CASE Rest
  BY <1>3, RestInv
<1>4. CASE Search
  BY <1>4, SearchInv
<1>5. CASE Work
  BY <1>5, WorkInv
<1>6. CASE Arrive \/ Tick \/ Change \/ UNCHANGED vars
  BY <1>6, OutsideInv
<1> QED BY <1>1, <1>2, <1>3, <1>4, <1>5, <1>6 DEF Next

-----------------------------------------------------------------------------
(* Theorems.                                                               *)

\* What the filter has read is of the pid of the ECM in use, and the handler has
\* its last control word where the tracker wanted it last.
THEOREM HandlerKeeps == Spec => []KeysInv
<1>1. Init => KeysInv
  BY KeysInit
<1>2. KeysInv /\ [Next]_vars => KeysInv'
  BY KeysNext
<1> QED BY <1>1, <1>2, PTL DEF Spec

\* No system is given a section of another pid than that of the ECM in use, however
\* the candidates change while sections come in: the section of a filter that is
\* closed or given to another ECM is dropped (cam.c:1411, 1445).
THEOREM SectionsOfEcm == Spec => []DataOfCurrent
<1>1. KeysInv => DataOfCurrent
  <2> SUFFICES ASSUME KeysInv, busy, h.data # None, h.mode > 0
               PROVE  h.data.pid = Pid[Prepared(h).ecm]
    BY DEF DataOfCurrent
  <2>1. h.data.pid = Pid[h.ecm] /\ ~(h.mode = 1 /\ h.ecm = None)
    BY DEF KeysInv, SectionInv, DataOfEcm
  <2> QED BY <2>1, AtWork
<1> QED BY <1>1, HandlerKeeps, PTL

\* A handler in sync that has dealt with what the tracker wants has its last control
\* word at the index of its service, whatever service and index it had before
\* (cam.c:1062, 1158).
THEOREM KeysAreFollowed == Spec => []KeysFollow
<1>1. KeysInv => KeysFollow
  <2> SUFFICES ASSUME KeysInv, h.mode = 3, h.sync, ~trigger.set
               PROVE  keys[prg.index] = h.lastCw /\ h.lastCw.sid = prg.sid
    BY DEF KeysFollow
  <2>1. h.sid = prg.sid /\ h.index = prg.index
    BY EcmHandlerAssumption DEF KeysInv, TakenOver
  <2> QED BY <2>1 DEF KeysInv, LastWritten
<1> QED BY <1>1, HandlerKeeps, PTL

-----------------------------------------------------------------------------
(***************************************************************************)
(* The list of keys and its file, for every set of updaters, keys, ids and *)
(* files an editor writes, and without the bounds of the runs.             *)
(*                                                                         *)
(* FileInv joins what a save holds to what the list holds (SaveInv), the   *)
(* seconds of the file to those of the list (TimesInv) and an edit to the  *)
(* two (UnreadInv).                                                        *)
(***************************************************************************)

(* The lists.                                                              *)

\* Of the numbers of an interval the k-th is the k-th from its begin.
LEMMA NthOfInterval ==
  ASSUME NEW a \in Nat, NEW n \in Nat, NEW k \in 1 .. n
  PROVE  Nth(a + 1 .. a + n, k) = a + k
<1> DEFINE S == a + 1 .. a + n
<1>1. ASSUME NEW i \in S PROVE Cardinality({j \in S : j < i}) = i - a - 1
  <2>1. {j \in S : j < i} = a + 1 .. i - 1
    OBVIOUS
  <2>2. /\ a + 1 \in Int /\ i - 1 \in Int
        /\ (IF a + 1 > i - 1 THEN 0 ELSE (i - 1) - (a + 1) + 1) = i - a - 1
    OBVIOUS
  <2>3. Cardinality(a + 1 .. i - 1) = IF a + 1 > i - 1 THEN 0 ELSE (i - 1) - (a + 1) + 1
    BY <2>2, FS_Interval
  <2> QED BY <2>1, <2>2, <2>3
<1>2. a + k \in S /\ (a + k) - a - 1 = k - 1
  OBVIOUS
<1>3. ASSUME NEW i \in S, i - a - 1 = k - 1 PROVE i = a + k
  BY <1>3
<1> HIDE DEF S
<1>4. Cardinality({j \in S : j < a + k}) = k - 1
  BY <1>1, <1>2
<1>5. \A i \in S : Cardinality({j \in S : j < i}) = k - 1 => i = a + k
  BY <1>1, <1>3
<1>6. Nth(S, k) = a + k
  BY <1>2, <1>4, <1>5 DEF Nth
<1> QED BY <1>6 DEF S

\* What is kept of a list is of its items, and none of it is deleted.
LEMMA KeptIs ==
  ASSUME NEW S, NEW s \in Seq(S)
  PROVE  /\ Kept(s) \in Seq(S)
         /\ \A k \in DOMAIN Kept(s) : \E i \in DOMAIN s : Kept(s)[k] = s[i] /\ ~s[i].deleted
<1> DEFINE ps == {i \in DOMAIN s : ~s[i].deleted}
           n == Cardinality(ps)
<1>1. DOMAIN s = 1 .. Len(s) /\ Len(s) \in Nat /\ \A i \in DOMAIN s : s[i] \in S
  BY LenProperties, ElementOfSeq
<1>2. IsFiniteSet(1 .. Len(s))
  BY <1>1, FS_Interval
<1>3. ps \in SUBSET Int /\ IsFiniteSet(ps) /\ n \in Nat
  BY <1>1, <1>2, FS_Subset, FS_CardinalityType
<1>4. Kept(s) = [k \in 1 .. n |-> s[Nth(ps, k)]]
  BY DEF Kept
<1>5. ASSUME NEW k \in 1 .. n PROVE Nth(ps, k) \in ps
  BY <1>3, RankedOnce DEF Nth
<1>6. \A i \in ps : i \in DOMAIN s /\ ~s[i].deleted
  OBVIOUS
<1> HIDE DEF ps, n
<1>7. \A k \in 1 .. n : s[Nth(ps, k)] \in S
  BY <1>1, <1>5, <1>6
<1>8. Kept(s) \in Seq(S)
  BY <1>3, <1>4, <1>7, IsASeq
<1>9. DOMAIN Kept(s) = 1 .. n
  BY <1>4
<1> QED BY <1>4, <1>5, <1>6, <1>8, <1>9

\* Of a list with nothing deleted behind one with everything deleted, the former is kept.
LEMMA KeptOfTail ==
  ASSUME NEW S, NEW s \in Seq(S), NEW t \in Seq(S),
         \A i \in DOMAIN s : s[i].deleted, \A i \in DOMAIN t : ~t[i].deleted
  PROVE  Kept(s \o t) = t
<1> DEFINE r == s \o t
           a == Len(s)
           n == Len(t)
           ps == {i \in DOMAIN r : ~r[i].deleted}
<1>1. /\ a \in Nat /\ n \in Nat /\ DOMAIN s = 1 .. a /\ DOMAIN t = 1 .. n
      /\ r \in Seq(S) /\ Len(r) = a + n /\ DOMAIN r = 1 .. a + n
      /\ \A i \in 1 .. a + n : r[i] = IF i <= a THEN s[i] ELSE t[i - a]
  BY LenProperties, ConcatProperties
<1> HIDE DEF r, a, n
<1>2. ps = a + 1 .. a + n
  <2>1. ASSUME NEW i \in 1 .. a PROVE r[i].deleted
    BY <1>1, <2>1
  <2>2. ASSUME NEW i \in a + 1 .. a + n PROVE i \in DOMAIN r /\ ~r[i].deleted
    <3>1. i \in 1 .. a + n /\ ~(i <= a) /\ i - a \in DOMAIN t
      BY <1>1
    <3> QED BY <1>1, <3>1
  <2>3. \A i \in DOMAIN r : i \in 1 .. a \/ i \in a + 1 .. a + n
    BY <1>1
  <2> QED BY <2>1, <2>2, <2>3
<1>3. Cardinality(ps) = n
  <2>1. a + 1 \in Int /\ a + n \in Int
        /\ (IF a + 1 > a + n THEN 0 ELSE (a + n) - (a + 1) + 1) = n
    BY <1>1
  <2> QED BY <1>2, <2>1, FS_Interval
<1>4. Kept(r) = [k \in 1 .. n |-> r[Nth(a + 1 .. a + n, k)]]
  BY <1>2, <1>3 DEF Kept
<1>5. ASSUME NEW k \in 1 .. n PROVE r[Nth(a + 1 .. a + n, k)] = t[k]
  <2>1. Nth(a + 1 .. a + n, k) = a + k
    BY <1>1, NthOfInterval
  <2>2. a + k \in 1 .. a + n /\ ~(a + k <= a) /\ (a + k) - a = k
    BY <1>1
  <2> QED BY <1>1, <2>1, <2>2
<1>6. t = [k \in 1 .. n |-> t[k]]
  BY <1>1
<1> QED BY <1>4, <1>5, <1>6 DEF r

\* A list with nothing deleted is kept as it is.
LEMMA KeptOfLive ==
  ASSUME NEW S, NEW t \in Seq(S), \A i \in DOMAIN t : ~t[i].deleted
  PROVE  Kept(t) = t
<1>1. <<>> \in Seq(S) /\ DOMAIN <<>> = {} /\ <<>> \o t = t
  BY EmptySeq, ConcatEmptySeq
<1> QED BY <1>1, KeptOfTail

\* A list is of items with the numbers it has.
LEMMA OwnNumbers ==
  ASSUME NEW ns, NEW s \in Seq(ItemsOf(ns))
  PROVE  s \in Seq(ItemsOf(Numbers(s)))
<1>1. /\ DOMAIN s = 1 .. Len(s) /\ Len(s) \in Nat /\ \A i \in DOMAIN s : s[i] \in ItemsOf(ns)
      /\ s = [i \in 1 .. Len(s) |-> s[i]]
  BY LenProperties, ElementOfSeq, SeqDef
<1>2. ASSUME NEW i \in DOMAIN s PROVE s[i] \in ItemsOf(Numbers(s))
  BY <1>1 DEF ItemsOf, Numbers
<1>3. [i \in 1 .. Len(s) |-> s[i]] \in Seq(ItemsOf(Numbers(s)))
  BY <1>1, <1>2, IsASeq
<1> QED BY <1>1, <1>3

LEMMA MoreNumbers ==
  ASSUME NEW ns, NEW ms, ns \subseteq ms, NEW s \in Seq(ItemsOf(ns))
  PROVE  s \in Seq(ItemsOf(ms))
<1>1. ItemsOf(ns) \subseteq ItemsOf(ms)
  BY DEF ItemsOf
<1> QED BY <1>1, SeqMonotonic

\* What is saved of a list are lines.
LEMMA LinesAre ==
  ASSUME NEW ns, list \in Seq(ItemsOf(ns))
  PROVE  Lines \in Seq(Line)
<1> DEFINE kept == Kept(list)
<1>1. kept \in Seq(ItemsOf(ns))
  BY KeptIs
<1> HIDE DEF kept
<1>2. DOMAIN kept = 1 .. Len(kept) /\ Len(kept) \in Nat /\ \A k \in DOMAIN kept : kept[k] \in ItemsOf(ns)
  BY <1>1, LenProperties, ElementOfSeq
<1>3. \A k \in 1 .. Len(kept) : [key |-> kept[k].key, live |-> kept[k].live] \in Line
  BY <1>2 DEF ItemsOf, Line
<1>4. [k \in 1 .. Len(kept) |-> [key |-> kept[k].key, live |-> kept[k].live]] \in Seq(Line)
  BY <1>2, <1>3, IsASeq
<1> QED BY <1>2, <1>4 DEF Lines, kept

\* The items of a file that is read, and what would be saved of them.
LEMMA ParsedIs ==
  ASSUME NEW lines \in Seq(Line), NEW ns
  PROVE  LET r == Parsed(lines, ns)
         IN /\ r \in Seq(ItemsOf(Numbers(r))) /\ \A i \in DOMAIN r : ~r[i].deleted
            /\ [k \in DOMAIN r |-> [key |-> r[k].key, live |-> r[k].live]] = lines
<1> DEFINE r == Parsed(lines, ns)
           ms == {Nth(ns, k) : k \in DOMAIN lines}
<1>1. /\ DOMAIN lines = 1 .. Len(lines) /\ Len(lines) \in Nat
      /\ \A k \in DOMAIN lines : lines[k] \in Line
      /\ lines = [k \in 1 .. Len(lines) |-> lines[k]]
  BY LenProperties, ElementOfSeq, SeqDef
<1>2. r = [k \in 1 .. Len(lines) |-> Item(Nth(ns, k), lines[k].key, lines[k].live)]
  BY <1>1 DEF Parsed
<1> HIDE DEF r
<1>3. ASSUME NEW k \in 1 .. Len(lines)
      PROVE  /\ Item(Nth(ns, k), lines[k].key, lines[k].live) \in ItemsOf(ms)
             /\ ~r[k].deleted
             /\ [key |-> r[k].key, live |-> r[k].live] = lines[k]
  <2>1. Nth(ns, k) \in ms
    BY <1>1
  <2>2. lines[k] \in Line
    BY <1>1
  <2>3. r[k] = [no |-> Nth(ns, k), key |-> lines[k].key, live |-> lines[k].live, deleted |-> FALSE]
    BY <1>2 DEF Item
  <2> HIDE DEF ms
  <2>4. Item(Nth(ns, k), lines[k].key, lines[k].live) \in ItemsOf(ms)
    BY <2>1, <2>2 DEF Item, ItemsOf, Line
  <2>5. [key |-> lines[k].key, live |-> lines[k].live] = lines[k]
    BY <2>2 DEF Line
  <2> QED BY <2>3, <2>4, <2>5
<1> HIDE DEF ms
<1>4. r \in Seq(ItemsOf(ms))
  BY <1>1, <1>2, <1>3, IsASeq
<1>5. DOMAIN r = 1 .. Len(lines)
  BY <1>2
<1>6. r \in Seq(ItemsOf(Numbers(r)))
  BY <1>4, OwnNumbers
<1>7. [k \in DOMAIN r |-> [key |-> r[k].key, live |-> r[k].live]] = lines
  BY <1>1, <1>3, <1>5
<1> QED BY <1>3, <1>5, <1>6, <1>7 DEF r

\* The list after a load, and what would be saved of it.
LEMMA LoadedIs ==
  ASSUME list \in Seq(ItemsOf(Numbers(list))), NEW lines \in Seq(Line), NEW ns
  PROVE  LET r == AllDeleted \o Parsed(lines, ns)
         IN /\ r \in Seq(ItemsOf(Numbers(r)))
            /\ \A n \in Numbers(list) : n \in Numbers(r)
            /\ [k \in DOMAIN Kept(r) |-> [key |-> Kept(r)[k].key, live |-> Kept(r)[k].live]] = lines
<1> DEFINE p == Parsed(lines, ns)
           d == AllDeleted
           ms == Numbers(list) \cup Numbers(p)
           r == d \o p
<1>1. /\ p \in Seq(ItemsOf(Numbers(p))) /\ \A i \in DOMAIN p : ~p[i].deleted
      /\ [k \in DOMAIN p |-> [key |-> p[k].key, live |-> p[k].live]] = lines
  BY ParsedIs
<1>2. DOMAIN list = 1 .. Len(list) /\ Len(list) \in Nat
      /\ \A i \in DOMAIN list : list[i] \in ItemsOf(Numbers(list))
  BY LenProperties, ElementOfSeq
<1>3. d = [i \in 1 .. Len(list) |-> [list[i] EXCEPT !.deleted = TRUE]]
  BY <1>2 DEF AllDeleted
<1> HIDE DEF d, p
<1>4. ASSUME NEW i \in 1 .. Len(list)
      PROVE  /\ [list[i] EXCEPT !.deleted = TRUE] \in ItemsOf(Numbers(list))
             /\ d[i].deleted /\ d[i].no = list[i].no
  BY <1>2, <1>3 DEF ItemsOf
<1>5. d \in Seq(ItemsOf(Numbers(list))) /\ DOMAIN d = 1 .. Len(list) /\ Len(d) = Len(list)
  <2>1. [i \in 1 .. Len(list) |-> [list[i] EXCEPT !.deleted = TRUE]] \in Seq(ItemsOf(Numbers(list)))
    BY <1>2, <1>4, IsASeq
  <2> QED BY <1>2, <1>3, <2>1, LenProperties
<1>6. d \in Seq(ItemsOf(ms)) /\ p \in Seq(ItemsOf(ms))
  BY <1>1, <1>5, MoreNumbers
<1> HIDE DEF ms
<1>7. r \in Seq(ItemsOf(ms)) /\ \A i \in DOMAIN d : i \in DOMAIN r /\ r[i] = d[i]
  BY <1>6, ConcatStands
<1>8. Kept(r) = p
  BY <1>1, <1>4, <1>5, <1>6, KeptOfTail
<1>9. r \in Seq(ItemsOf(Numbers(r)))
  BY <1>7, OwnNumbers
<1>10. ASSUME NEW n \in Numbers(list) PROVE n \in Numbers(r)
  <2>1. PICK i \in DOMAIN list : n = list[i].no
    BY DEF Numbers
  <2>2. i \in DOMAIN r /\ r[i].no = n
    BY <1>2, <1>4, <1>5, <1>7, <2>1
  <2> QED BY <2>2 DEF Numbers
<1> QED BY <1>1, <1>8, <1>9, <1>10 DEF d, p

\* The list with an item more.
LEMMA AddedIs ==
  ASSUME list \in Seq(ItemsOf(Numbers(list))), NEW n, NEW item \in ItemsOf({n}),
         NEW i, i = 0 \/ i \in DOMAIN list
  PROVE  /\ Add(item, i) \in Seq(ItemsOf(Numbers(Add(item, i))))
         /\ \A m \in Numbers(list) : m \in Numbers(Add(item, i))
<1> DEFINE ms == Numbers(list) \cup {n}
           S == ItemsOf(ms)
           r == Add(item, i)
<1>1. list \in Seq(S)
  BY MoreNumbers
<1>2. item \in S
  BY DEF ItemsOf
<1> HIDE DEF ms, S
<1>3. /\ Len(list) \in Nat /\ DOMAIN list = 1 .. Len(list)
      /\ \A j \in DOMAIN list : list[j] \in S
  BY <1>1, LenProperties, ElementOfSeq
<1>4. r \in Seq(S) /\ \A j \in DOMAIN list : \E k \in DOMAIN r : r[k] = list[j]
  <2>1. CASE i = 0
    <3>1. r = Append(list, item)
      BY <2>1 DEF Add
    <3> QED BY <1>1, <1>2, <3>1, AppendStands
  <2>2. CASE i # 0
    <3> DEFINE a == SubSeq(list, 1, i)
               b == SubSeq(list, i + 1, Len(list))
    <3>1. i \in 1 .. Len(list) /\ (i + 1) - 1 = i
      BY <1>3, <2>2
    <3>2. r = (a \o <<item>>) \o b
      BY <2>2, <3>1 DEF Add, InsertAt
    <3>3. /\ a \in Seq(S) /\ Len(a) = i /\ DOMAIN a = 1 .. i
          /\ \A j \in 1 .. i : a[j] = list[j]
      BY <1>1, <1>3, <3>1, SubSeqProperties, LenProperties
    <3>4. /\ b \in Seq(S) /\ Len(b) = Len(list) - i /\ DOMAIN b = 1 .. Len(list) - i
          /\ \A j \in 1 .. Len(list) - i : b[j] = list[i + j]
      <4>1. /\ b \in Seq(S)
            /\ Len(b) = IF i + 1 <= Len(list) THEN Len(list) - (i + 1) + 1 ELSE 0
            /\ \A j \in 1 .. Len(list) - i : b[j] = list[(i + 1) + j - 1]
        BY <1>1, <1>3, <3>1, SubSeqProperties
      <4> HIDE DEF b
      <4>2. i \in Nat /\ i <= Len(list)
        BY <1>3, <3>1
      <4>3. b \in Seq(S) /\ Len(b) = Len(list) - i
        <5>1. ASSUME NEW l \in Nat, i <= l
              PROVE  (IF i + 1 <= l THEN l - (i + 1) + 1 ELSE 0) = l - i
          BY <4>2, <5>1
        <5>2. (IF i + 1 <= Len(list) THEN Len(list) - (i + 1) + 1 ELSE 0) = Len(list) - i
          BY <1>3, <4>2, <5>1
        <5> QED BY <4>1, <5>2
      <4>4. ASSUME NEW j \in 1 .. Len(list) - i PROVE b[j] = list[i + j]
        <5>1. b[j] = list[(i + 1) + j - 1] /\ (i + 1) + j - 1 = i + j
          BY <4>1, <4>2
        <5> QED BY <5>1
      <4>5. DOMAIN b = 1 .. Len(b)
        BY <4>3, LenProperties
      <4> QED BY <4>3, <4>4, <4>5
    <3> HIDE DEF a, b
    <3>5. <<item>> \in Seq(S) /\ Len(<<item>>) = 1
      BY <1>2
    <3>6. /\ a \o <<item>> \in Seq(S) /\ Len(a \o <<item>>) = i + 1
          /\ \A j \in 1 .. i : (a \o <<item>>)[j] = a[j]
      BY <3>1, <3>3, <3>5, ConcatProperties
    <3> DEFINE c == a \o <<item>>
    <3>13. c \in Seq(S) /\ Len(c) = i + 1
      BY <3>6
    <3> HIDE DEF c
    <3>7. /\ c \o b \in Seq(S) /\ Len(c \o b) = (i + 1) + (Len(list) - i)
          /\ \A j \in 1 .. Len(c \o b) :
               (c \o b)[j] = IF j <= i + 1 THEN c[j] ELSE b[j - (i + 1)]
      <4>1. /\ c \o b \in Seq(S) /\ Len(c \o b) = Len(c) + Len(b)
            /\ \A j \in 1 .. Len(c) + Len(b) :
                 (c \o b)[j] = IF j <= Len(c) THEN c[j] ELSE b[j - Len(c)]
        BY <3>4, <3>13, ConcatProperties
      <4> QED BY <3>4, <3>13, <4>1
    <3>8. DOMAIN (c \o b) = 1 .. Len(list) + 1
      BY <1>3, <3>1, <3>7, LenProperties
    <3>9. ASSUME NEW j \in 1 .. i PROVE j \in DOMAIN (c \o b) /\ (c \o b)[j] = list[j]
      <4>1. j \in 1 .. Len(list) + 1 /\ j <= i + 1 /\ j \in 1 .. Len(c \o b)
        BY <1>3, <3>1, <3>7
      <4>2. (c \o b)[j] = c[j] /\ c[j] = a[j] /\ a[j] = list[j]
        BY <3>3, <3>6, <3>7, <4>1 DEF c
      <4> QED BY <3>8, <4>1, <4>2
    <3>10. ASSUME NEW j \in i + 1 .. Len(list)
           PROVE  j + 1 \in DOMAIN (c \o b) /\ (c \o b)[j + 1] = list[j]
      <4>1. /\ j + 1 \in 1 .. Len(list) + 1 /\ ~(j + 1 <= i + 1) /\ j + 1 \in 1 .. Len(c \o b)
            /\ (j + 1) - (i + 1) = j - i /\ j - i \in 1 .. Len(list) - i /\ i + (j - i) = j
        BY <1>3, <3>1, <3>7
      <4>2. (c \o b)[j + 1] = b[j - i]
        BY <3>7, <4>1
      <4>3. b[j - i] = list[j]
        BY <3>4, <4>1
      <4> QED BY <3>8, <4>1, <4>2, <4>3
    <3>11. \A j \in DOMAIN list : j \in 1 .. i \/ j \in i + 1 .. Len(list)
      BY <1>3, <3>1
    <3>12. r = c \o b
      BY <3>2 DEF c
    <3> QED BY <3>7, <3>9, <3>10, <3>11, <3>12
  <2> QED BY <2>1, <2>2
<1> HIDE DEF r
<1>5. r \in Seq(ItemsOf(Numbers(r)))
  BY <1>4, OwnNumbers DEF S
<1>6. \A m \in Numbers(list) : m \in Numbers(r)
  BY <1>4 DEF Numbers
<1> QED BY <1>5, <1>6 DEF r

\* A key that is found is one of the list.
LEMMA FoundIs ==
  ASSUME list \in Seq(ItemsOf(Numbers(list))), NEW id, NEW at, FindKeyNoTrig(id, at) # 0
  PROVE  FindKeyNoTrig(id, at) \in Numbers(list)
<1> DEFINE M == Matches(id, at)
<1>1. M \subseteq DOMAIN list /\ DOMAIN list \subseteq Nat
  BY LenProperties DEF Matches
<1>2. M # {} /\ FindKeyNoTrig(id, at) = list[Min(M)].no
  BY DEF FindKeyNoTrig
<1> HIDE DEF M
<1>3. Min(M) \in DOMAIN list
  BY <1>1, <1>2, MinIsLeast
<1> QED BY <1>2, <1>3 DEF Numbers

\* A new item is put behind one of the list, or at its end.
LEMMA BehindIs ==
  ASSUME list \in Seq(ItemsOf(Numbers(list))), NEW ref
  PROVE  ItemBehind(ref) = 0 \/ ItemBehind(ref) \in DOMAIN list
<1> DEFINE K == {i \in DOMAIN list : i + 1 \in DOMAIN list /\ list[i + 1].live}
<1>1. DOMAIN list = 1 .. Len(list) /\ Len(list) \in Nat
  BY LenProperties
<1>2. CASE ref # 0 /\ IsIn(ref) /\ Pos(ref) > 1
  <2>1. Pos(ref) \in DOMAIN list
    BY <1>2 DEF Pos, IsIn
  <2>2. ItemBehind(ref) = Pos(ref) - 1
    BY <1>2 DEF ItemBehind
  <2> QED BY <1>1, <1>2, <2>1, <2>2
<1>3. CASE ~(ref # 0 /\ IsIn(ref) /\ Pos(ref) > 1)
  <2>1. ItemBehind(ref) = IF K = {} THEN 0 ELSE Min(K)
    BY <1>3 DEF ItemBehind
  <2>2. K \subseteq DOMAIN list /\ K \subseteq Nat
    BY <1>1
  <2> HIDE DEF K
  <2> QED BY <2>1, <2>2, MinIsLeast
<1> QED BY <1>2, <1>3

-----------------------------------------------------------------------------
(* The steps.                                                              *)

\* What the places of the updaters need is that no item leaves the list.
LEMMA PlacesKept ==
  ASSUME Typed, upd' = upd, Numbers(list) \subseteq Numbers(list')
  PROVE  \A t \in Updaters : upd'[t].pc = "comment" => upd'[t].at \in Numbers(list')
BY DEF Typed

Updater(u) == u = [pc |-> u.pc, nk |-> u.nk, at |-> u.at, ref |-> u.ref]

\* An updater goes on, and items may be marked or come.
LEMMA UpdaterSteps ==
  ASSUME Typed, NEW t \in Updaters, NEW u, Updater(u), u.nk \in Keys \cup {NoKey},
         upd' = [upd EXCEPT ![t] = u], u.pc = "comment" => u.at \in Numbers(list'),
         Numbers(list) \subseteq Numbers(list')
  PROVE  /\ upd' = [s \in Updaters |-> upd'[s]]
         /\ \A s \in Updaters :
              /\ upd'[s] = [pc |-> upd'[s].pc, nk |-> upd'[s].nk, at |-> upd'[s].at,
                            ref |-> upd'[s].ref]
              /\ upd'[s].nk \in Keys \cup {NoKey}
              /\ upd'[s].pc = "comment" => upd'[s].at \in Numbers(list')
<1>3. DOMAIN upd = Updaters
  BY DEF Typed
<1>4. upd' = [s \in Updaters |-> IF s = t THEN u ELSE upd[s]]
  BY <1>3
<1>5. ASSUME NEW s \in Updaters
      PROVE  /\ Updater(upd'[s]) /\ upd'[s].nk \in Keys \cup {NoKey}
             /\ upd'[s].pc = "comment" => upd'[s].at \in Numbers(list')
  <2>1. CASE s = t
    BY <1>4, <2>1
  <2>2. CASE s # t
    BY <1>4, <2>2 DEF Typed, Updater
  <2> QED BY <2>1, <2>2
<1> QED BY <1>4, <1>5 DEF Updater

LEMMA MarkedIs ==
  ASSUME list \in Seq(ItemsOf(Numbers(list))), NEW p,
         list' = [list EXCEPT ![p].deleted = TRUE]
  PROVE  list' \in Seq(ItemsOf(Numbers(list'))) /\ Numbers(list') = Numbers(list)
<1>1. /\ DOMAIN list = 1 .. Len(list) /\ Len(list) \in Nat
      /\ \A i \in DOMAIN list : list[i] \in ItemsOf(Numbers(list))
  BY LenProperties, ElementOfSeq
<1> DEFINE r == [i \in 1 .. Len(list) |-> IF i = p THEN [list[p] EXCEPT !.deleted = TRUE] ELSE list[i]]
<1>2. list' = r
  BY <1>1
<1>3. ASSUME NEW i \in 1 .. Len(list)
      PROVE  /\ (IF i = p THEN [list[p] EXCEPT !.deleted = TRUE] ELSE list[i]) \in ItemsOf(Numbers(list))
             /\ r[i].no = list[i].no
  BY <1>1 DEF ItemsOf
<1>4. r \in Seq(ItemsOf(Numbers(list)))
  <2>1. \A i \in 1 .. Len(list) : r[i] \in ItemsOf(Numbers(list))
    BY <1>3
  <2>2. r = [i \in 1 .. Len(list) |-> r[i]]
    OBVIOUS
  <2> HIDE DEF r
  <2>3. [i \in 1 .. Len(list) |-> r[i]] \in Seq(ItemsOf(Numbers(list)))
    BY <1>1, <2>1, IsASeq
  <2> QED BY <2>2, <2>3
<1>6. DOMAIN r = 1 .. Len(list)
  OBVIOUS
<1> HIDE DEF r
<1>5. Numbers(r) = Numbers(list)
  BY <1>1, <1>3, <1>6 DEF Numbers
<1> QED BY <1>2, <1>4, <1>5

LEMMA TypedInitially == FileInit => Typed
<1> SUFFICES ASSUME FileInit PROVE Typed
  OBVIOUS
<1>1. First.lines \in Seq(Line) /\ First.mtime \in Nat
  <2>1. NoFile.lines = <<>> /\ NoFile.mtime = 0 /\ <<>> \in Seq(Line)
    BY EmptySeq DEF NoFile
  <2>2. CASE First = NoFile
    <3>1. First.lines = <<>> /\ First.mtime = 0
      BY <2>2 DEF NoFile
    <3> QED BY <2>1, <3>1
  <2>3. CASE First \in [lines : Seq(Line), long : {FALSE}, mtime : {1}]
    BY <2>3
  <2> QED BY <2>2, <2>3, KeyFileAssumption
<1>2. list \in Seq(ItemsOf(Numbers(list)))
  BY <1>1, ParsedIs DEF FileInit
<1>3. upd = [t \in Updaters |-> [pc |-> "idle", nk |-> NoKey, at |-> 0, ref |-> 0]]
  BY DEF FileInit
<1> QED BY <1>1, <1>2, <1>3 DEF FileInit, Typed

\* The steps of the updaters.
LEMMA UpdaterTyped ==
  ASSUME Typed, NEW t \in Updaters,
         AddNewKey(t) \/ \E k \in Keys : NewKey(t, k)
  PROVE  Typed'
<1> USE DEF Updater
<1>0. /\ list \in Seq(ItemsOf(Numbers(list))) /\ DOMAIN upd = Updaters
      /\ Updater(upd[t]) /\ upd[t].nk \in Keys \cup {NoKey}
      /\ upd[t].pc = "comment" => upd[t].at \in Numbers(list)
  BY DEF Typed
<1>1. ASSUME NEW u, Updater(u), u.nk \in Keys \cup {NoKey}, upd' = [upd EXCEPT ![t] = u],
             u.pc = "comment" => u.at \in Numbers(list'),
             list' \in Seq(ItemsOf(Numbers(list'))), Numbers(list) \subseteq Numbers(list'),
             UNCHANGED <<disk, now, mtime>>
      PROVE  Typed'
  BY <1>1, UpdaterSteps DEF Typed
<1>2. ASSUME NEW k \in Keys, NewKey(t, k) PROVE Typed'
  <2> DEFINE u == [pc |-> "dup", nk |-> k, at |-> 0, ref |-> 0]
  <2>1. upd' = [upd EXCEPT ![t] = u] /\ UNCHANGED <<disk, now, mtime, list>>
    BY <1>2 DEF NewKey, loader
  <2> QED BY <1>0, <1>1, <2>1
<1>3. ASSUME Known(t) PROVE Typed'
  <2> DEFINE n == FindKeyNoTrig(Id[upd[t].nk], upd[t].at)
             o == upd[t]
             u == IF n = 0 THEN [o EXCEPT !.pc = "old", !.at = 0]
                  ELSE IF list[Pos(n)].key = o.nk THEN [o EXCEPT !.pc = "idle", !.at = 0]
                  ELSE [o EXCEPT !.at = n]
  <2>1. upd' = [upd EXCEPT ![t] = u] /\ UNCHANGED <<disk, now, mtime, list>> /\ o.pc = "dup"
    BY <1>0, <1>3 DEF Known, loader
  <2> HIDE DEF n
  <2>2. Updater(u) /\ u.nk \in Keys \cup {NoKey} /\ u.pc # "comment"
    BY <1>0, <2>1
  <2> QED BY <1>0, <1>1, <2>1, <2>2
<1>4. ASSUME Old(t) PROVE Typed'
  <2> DEFINE id == Id[upd[t].nk]
             n == FindKeyNoTrig(id, upd[t].at)
             o == upd[t]
             u == IF n = 0 THEN [o EXCEPT !.pc = "add"]
                  ELSE [o EXCEPT !.at = n, !.ref = IF @ = 0 THEN n ELSE @,
                                 !.pc = IF id \in Super /\ Keep THEN "comment" ELSE @]
  <2>1. /\ upd' = [upd EXCEPT ![t] = u] /\ UNCHANGED <<disk, now, mtime>> /\ o.pc = "old"
        /\ list' = list \/ list' = [list EXCEPT ![Pos(n)].deleted = TRUE]
    BY <1>0, <1>4 DEF Old, loader
  <2>2. n # 0 => n \in Numbers(list)
    BY <1>0, FoundIs
  <2> HIDE DEF n, id
  <2>3. Updater(u) /\ u.nk \in Keys \cup {NoKey} /\ (u.pc = "comment" => n # 0 /\ u.at = n)
    BY <1>0, <2>1
  <2>4. list' \in Seq(ItemsOf(Numbers(list'))) /\ Numbers(list') = Numbers(list)
    BY <1>0, <2>1, MarkedIs
  <2> HIDE DEF u
  <2> QED BY <1>1, <2>1, <2>2, <2>3, <2>4
<1>5. ASSUME Comment(t) PROVE Typed'
  <2> DEFINE p == Pos(upd[t].at)
             item == Item(Min(UnusedNos), list[p].key, FALSE)
             u == [upd[t] EXCEPT !.pc = "old"]
  <2>1. /\ upd' = [upd EXCEPT ![t] = u] /\ UNCHANGED <<disk, now, mtime>>
        /\ list' = Add(item, p) /\ upd[t].pc = "comment"
    BY <1>0, <1>5 DEF Comment
  <2>2. p \in DOMAIN list
    BY <1>0, <2>1 DEF Pos, Numbers
  <2> HIDE DEF p
  <2>6. list[p] \in ItemsOf(Numbers(list))
    BY <1>0, <2>2, ElementOfSeq, LenProperties
  <2>7. list[p].key \in Keys \cup {NoKey}
    BY <2>6 DEF ItemsOf
  <2>3. item \in ItemsOf({Min(UnusedNos)})
    BY <2>7 DEF Item, ItemsOf
  <2> HIDE DEF item
  <2>4. list' \in Seq(ItemsOf(Numbers(list'))) /\ Numbers(list) \subseteq Numbers(list')
    BY <1>0, <2>1, <2>2, <2>3, AddedIs
  <2>5. Updater(u) /\ u.nk \in Keys \cup {NoKey} /\ u.pc # "comment"
    BY <1>0
  <2> HIDE DEF u
  <2> QED BY <1>1, <2>1, <2>4, <2>5
<1>6. ASSUME AddItem(t) PROVE Typed'
  <2> DEFINE item == Item(Min(UnusedNos), upd[t].nk, TRUE)
             u == [upd[t] EXCEPT !.pc = "idle", !.at = 0, !.ref = 0]
  <2>1. /\ upd' = [upd EXCEPT ![t] = u] /\ UNCHANGED <<disk, now, mtime>>
        /\ list' = Add(item, ItemBehind(upd[t].ref))
    BY <1>0, <1>6 DEF AddItem
  <2>2. item \in ItemsOf({Min(UnusedNos)})
    BY <1>0 DEF Item, ItemsOf
  <2> HIDE DEF item
  <2>3. list' \in Seq(ItemsOf(Numbers(list'))) /\ Numbers(list) \subseteq Numbers(list')
    BY <1>0, <2>1, <2>2, AddedIs, BehindIs
  <2>6. upd[t] \in [pc : {upd[t].pc}, nk : {upd[t].nk}, at : {upd[t].at}, ref : {upd[t].ref}]
    BY <1>0
  <2>5. u \in [pc : {"idle"}, nk : {upd[t].nk}, at : {0}, ref : {0}]
    BY <2>6
  <2> HIDE DEF u
  <2>4. Updater(u) /\ u.nk \in Keys \cup {NoKey} /\ u.pc # "comment"
    BY <1>0, <2>5
  <2> HIDE DEF u
  <2> QED BY <1>1, <2>1, <2>3, <2>4
<1> QED BY <1>2, <1>3, <1>4, <1>5, <1>6 DEF AddNewKey

LEMMA TypedKept ==
  ASSUME Typed, SaveInv, [FileNext]_fileVars
  PROVE  Typed'
<1>0. /\ list \in Seq(ItemsOf(Numbers(list))) /\ disk.lines \in Seq(Line)
      /\ disk.mtime \in Nat /\ mtime \in Nat /\ now \in Nat \ {0}
  BY DEF Typed
<1>1. ASSUME NEW t \in Updaters, AddNewKey(t) \/ \E k \in Keys : NewKey(t, k) PROVE Typed'
  BY <1>1, UpdaterTyped
<1>2. CASE Purge
  <2>1. /\ UNCHANGED <<disk, now, mtime, upd>> /\ list' = Kept(list)
        /\ \A t \in Updaters : upd[t].pc = "idle"
    BY <1>2 DEF Purge
  <2>2. list' \in Seq(ItemsOf(Numbers(list)))
    BY <1>0, <2>1, KeptIs
  <2>3. list' \in Seq(ItemsOf(Numbers(list')))
    BY <2>2, OwnNumbers
  <2> QED BY <2>1, <2>3 DEF Typed
<1>3. CASE LoadRead
  <2>1. UNCHANGED <<disk, now, upd>> /\ buffer = disk
    BY <1>3 DEF LoadRead, SaveInv
  <2>2. CASE mtime < disk.mtime
    <3>1. list' = AllDeleted \o Parsed(buffer.lines, UnusedNos) /\ mtime' = disk.mtime
      BY <1>3, <2>2 DEF LoadRead
    <3>2. list' \in Seq(ItemsOf(Numbers(list'))) /\ Numbers(list) \subseteq Numbers(list')
      BY <1>0, <2>1, <3>1, LoadedIs
    <3> QED BY <1>0, <2>1, <3>1, <3>2, PlacesKept DEF Typed
  <2>3. CASE ~(mtime < disk.mtime)
    <3>1. UNCHANGED <<list, mtime>>
      BY <1>3, <2>3 DEF LoadRead, loader
    <3> QED BY <2>1, <3>1 DEF Typed
  <2> QED BY <2>2, <2>3
<1>4. CASE SaveRename
  <2>1. /\ UNCHANGED <<now, list, mtime, upd>> /\ disk' = [buffer EXCEPT !.mtime = now]
        /\ buffer \in [lines : Seq(Line), long : {FALSE}, mtime : {0}]
    BY <1>4 DEF SaveRename, SaveInv, loader
  <2>2. disk'.lines \in Seq(Line) /\ disk'.mtime \in Nat
    BY <1>0, <2>1
  <2> QED BY <2>1, <2>2 DEF Typed
<1>5. CASE Edit
  <2>1. UNCHANGED <<now, list, mtime, upd>>
    BY <1>5 DEF Edit, loader
  <2>2. PICK e \in Edits : disk' = [lines |-> e.lines, long |-> e.long, mtime |-> now]
    BY <1>5 DEF Edit
  <2>3. disk'.lines \in Seq(Line) /\ disk'.mtime \in Nat
    BY <1>0, <2>2, KeyFileAssumption
  <2> QED BY <2>1, <2>3 DEF Typed
<1>6. CASE Unlink
  <2>1. UNCHANGED <<now, list, mtime, upd>> /\ disk' = NoFile
    BY <1>6 DEF Unlink, loader
  <2>2. disk'.lines \in Seq(Line) /\ disk'.mtime \in Nat
    BY <2>1, EmptySeq DEF NoFile
  <2> QED BY <2>1, <2>2 DEF Typed
<1>7. CASE Second
  <2>1. UNCHANGED <<disk, list, mtime, upd>> /\ now' \in Nat \ {0}
    BY <1>0, <1>7 DEF Second, loader
  <2> QED BY <2>1 DEF Typed
<1>8. CASE SaveDone
  <2>1. UNCHANGED <<disk, list, now, upd>> /\ mtime' \in Nat
    BY <1>0, <1>8 DEF SaveDone
  <2> QED BY <2>1 DEF Typed
<1>9. CASE LoadOpen \/ OpenFailed \/ SaveBegin \/ SaveWrite \/ UNCHANGED fileVars
  <2>1. UNCHANGED <<disk, list, mtime, now, upd>>
    BY <1>9 DEF LoadOpen, OpenFailed, SaveBegin, SaveWrite, fileVars, loader
  <2> QED BY <2>1 DEF Typed
<1> QED BY <1>1, <1>2, <1>3, <1>4, <1>5, <1>6, <1>7, <1>8, <1>9 DEF FileNext, Load, Save

LEMMA TimesInitially == FileInit => TimesInv
<1> SUFFICES ASSUME FileInit PROVE TimesInv
  OBVIOUS
<1>1. First.mtime \in {0, 1}
  <2>1. CASE First = NoFile
    BY <2>1 DEF NoFile
  <2>2. CASE First \in [lines : Seq(Line), long : {FALSE}, mtime : {1}]
    BY <2>2
  <2> QED BY <2>1, <2>2, KeyFileAssumption
<1> QED BY <1>1 DEF FileInit, TimesInv

\* What was written this second is not edited, so that an edit shows.
LEMMA TimesKept ==
  ASSUME Careful, Typed, SaveInv, TimesInv, [FileNext]_fileVars
  PROVE  TimesInv'
<1>0. disk.mtime \in Nat /\ mtime \in Nat /\ now \in Nat \ {0}
  BY DEF Typed
<1>1. ASSUME NEW t \in Updaters, AddNewKey(t) \/ \E k \in Keys : NewKey(t, k) PROVE TimesInv'
  <2>1. UNCHANGED <<disk, now, mtime>>
    BY <1>1 DEF AddNewKey, NewKey, Known, Old, Comment, AddItem, loader
  <2> QED BY <2>1 DEF TimesInv
<1>2. CASE LoadRead \/ SaveDone
  <2>1. UNCHANGED <<disk, now>> /\ mtime' \in {mtime, disk.mtime}
    BY <1>2 DEF LoadRead, SaveDone, loader
  <2> QED BY <2>1 DEF TimesInv
<1>3. CASE SaveRename
  <2>1. UNCHANGED <<now, mtime>> /\ disk' = [buffer EXCEPT !.mtime = now]
        /\ buffer \in [lines : Seq(Line), long : {FALSE}, mtime : {0}]
    BY <1>3 DEF SaveRename, SaveInv, loader
  <2>2. disk'.mtime = now
    BY <2>1
  <2> QED BY <1>0, <2>1, <2>2 DEF TimesInv
<1>4. CASE Edit
  <2>1. UNCHANGED <<now, mtime>> /\ disk'.mtime = now
    BY <1>4 DEF Edit, loader
  <2> QED BY <1>0, <2>1 DEF TimesInv
<1>5. CASE Unlink
  <2>1. UNCHANGED <<now, mtime>> /\ disk'.mtime = 0 /\ disk.mtime < now
    BY <1>5 DEF Unlink, MayEdit, loader, NoFile
  <2> QED BY <1>0, <2>1 DEF TimesInv
<1>6. CASE Second
  <2>1. UNCHANGED <<disk, mtime>> /\ now' = now + 1
    BY <1>6 DEF Second, loader
  <2> QED BY <1>0, <2>1 DEF TimesInv
<1>7. CASE LoadOpen \/ OpenFailed \/ SaveBegin \/ SaveWrite \/ Purge \/ UNCHANGED fileVars
  <2>1. UNCHANGED <<disk, mtime, now>>
    BY <1>7 DEF LoadOpen, OpenFailed, SaveBegin, SaveWrite, Purge, fileVars, loader
  <2> QED BY <2>1 DEF TimesInv
<1> QED BY <1>1, <1>2, <1>3, <1>4, <1>5, <1>6, <1>7 DEF FileNext, Load, Save

\* What would be saved of a list with nothing deleted is what is in it.
LEMMA PurgedLines ==
  ASSUME Typed, list' = Kept(list)
  PROVE  Lines' = Lines
<1> DEFINE kept == Kept(list)
<1>1. kept \in Seq(ItemsOf(Numbers(list))) /\ \A k \in DOMAIN kept : ~kept[k].deleted
  BY KeptIs DEF Typed
<1> HIDE DEF kept
<1>2. Kept(kept) = kept
  BY <1>1, KeptOfLive
<1>3. Lines' = [k \in DOMAIN Kept(kept) |->
                 [key |-> Kept(kept)[k].key, live |-> Kept(kept)[k].live]]
  BY DEF Lines, kept
<1>4. Lines = [k \in DOMAIN kept |-> [key |-> kept[k].key, live |-> kept[k].live]]
  BY DEF Lines, kept
<1> QED BY <1>2, <1>3, <1>4

LEMMA SaveInitially == FileInit => SaveInv
<1> SUFFICES ASSUME FileInit PROVE SaveInv
  OBVIOUS
<1>1. First.lines \in Seq(Line)
  <2>1. CASE First = NoFile
    <3>1. First.lines = <<>>
      BY <2>1 DEF NoFile
    <3> QED BY <3>1, EmptySeq
  <2>2. CASE First \in [lines : Seq(Line), long : {FALSE}, mtime : {1}]
    BY <2>2
  <2> QED BY <2>1, <2>2, KeyFileAssumption
<1> DEFINE r == Parsed(First.lines, 1 .. Len(First.lines))
<1>2. /\ r \in Seq(ItemsOf(Numbers(r))) /\ \A i \in DOMAIN r : ~r[i].deleted
      /\ [k \in DOMAIN r |-> [key |-> r[k].key, live |-> r[k].live]] = First.lines
  BY <1>1, ParsedIs
<1>3. list = r /\ disk = First /\ hk = "rest"
  BY DEF FileInit
<1> HIDE DEF r
<1>4. Kept(r) = r
  BY <1>2, KeptOfLive
<1>5. Lines = disk.lines
  BY <1>2, <1>3, <1>4 DEF Lines
<1> QED BY <1>3, <1>5 DEF SaveInv

\* The steps of the updaters: what would be saved changes only while an updater
\* has marked items, or with an item that is added, when nobody saves.
LEMMA UpdaterSaved ==
  ASSUME SaveInv, Typed, NEW t \in Updaters, AddNewKey(t) \/ \E k \in Keys : NewKey(t, k)
  PROVE  SaveInv'
<1>0. DOMAIN upd = Updaters /\ \A s \in Updaters : Updater(upd[s])
  BY DEF Typed, Updater
<1>1. ASSUME NEW k \in Keys, NewKey(t, k) PROVE SaveInv'
  <2>1. UNCHANGED <<disk, list, mtime, modified, loaded, hk, buffer>>
    BY <1>1 DEF NewKey, loader
  <2>2. Quiet' => Quiet
    BY <1>0, <1>1 DEF NewKey, Quiet
  <2>3. Lines' = Lines
    BY <2>1 DEF Lines
  <2> QED BY <2>1, <2>2, <2>3 DEF SaveInv, Exists
<1>2. ASSUME Known(t) PROVE SaveInv'
  <2>1. UNCHANGED <<disk, list, mtime, modified, loaded, hk, buffer>>
    BY <1>2 DEF Known, loader
  <2>2. Quiet' => Quiet
    <3>1. upd[t].pc = "dup" /\ \A s \in Updaters \ {t} : upd'[s] = upd[s]
      BY <1>0, <1>2 DEF Known
    <3> QED BY <3>1 DEF Quiet
  <2>3. Lines' = Lines
    BY <2>1 DEF Lines
  <2> QED BY <2>1, <2>2, <2>3 DEF SaveInv, Exists
<1>3. ASSUME Old(t) \/ Comment(t) PROVE SaveInv'
  <2>1. UNCHANGED <<disk, hk, buffer>>
    BY <1>3 DEF Old, Comment
  <2>2. ~Quiet'
    <3>1. upd'[t].pc \in {"old", "comment", "add"}
      <4>1. CASE Comment(t)
        BY <1>0, <4>1 DEF Comment
      <4>2. CASE Old(t)
        <5> DEFINE id == Id[upd[t].nk]
                   n == FindKeyNoTrig(id, upd[t].at)
                   o == upd[t]
                   u == IF n = 0 THEN [o EXCEPT !.pc = "add"]
                        ELSE [o EXCEPT !.at = n, !.ref = IF @ = 0 THEN n ELSE @,
                                       !.pc = IF id \in Super /\ Keep THEN "comment" ELSE @]
        <5>1. upd' = [upd EXCEPT ![t] = u] /\ o.pc = "old" /\ Updater(o)
          BY <1>0, <4>2 DEF Old
        <5> HIDE DEF n, id
        <5>2. u.pc \in {"old", "comment", "add"}
          BY <5>1 DEF Updater
        <5> HIDE DEF u
        <5> QED BY <1>0, <5>1, <5>2
      <4> QED BY <1>3, <4>1, <4>2
    <3> QED BY <3>1 DEF Quiet
  <2> QED BY <2>1, <2>2 DEF SaveInv
<1>4. ASSUME AddItem(t) PROVE SaveInv'
  <2>1. UNCHANGED <<disk, hk, buffer>> /\ modified' = TRUE /\ hk \notin {"written", "renamed"}
    BY <1>4 DEF AddItem, WriteLock
  <2> QED BY <2>1 DEF SaveInv
<1> QED BY <1>1, <1>2, <1>3, <1>4 DEF AddNewKey

\* A save writes what the list holds, and an edit shows in the time of the file.
LEMMA SaveKept ==
  ASSUME Careful, Typed, TimesInv, SaveInv, [FileNext]_fileVars
  PROVE  SaveInv'
<1>0. disk.mtime \in Nat /\ mtime \in Nat /\ now \in Nat \ {0}
  BY DEF Typed
<1>1. ASSUME NEW t \in Updaters, AddNewKey(t) \/ \E k \in Keys : NewKey(t, k) PROVE SaveInv'
  BY <1>1, UpdaterSaved
<1>2. CASE Purge
  <2>1. /\ UNCHANGED <<disk, mtime, modified, loaded, hk, buffer, upd>>
        /\ list' = Kept(list)
    BY <1>2 DEF Purge
  <2>2. Lines' = Lines
    BY <2>1, PurgedLines
  <2> QED BY <2>1, <2>2 DEF SaveInv, Exists, Quiet
<1>3. CASE LoadRead
  <2>1. UNCHANGED <<disk, upd>> /\ buffer = disk /\ hk = "opened" /\ hk' = "rest"
    BY <1>3 DEF LoadRead, SaveInv
  <2>2. CASE mtime < disk.mtime
    <3>1. list' = AllDeleted \o Parsed(buffer.lines, UnusedNos)
      BY <1>3, <2>2 DEF LoadRead
    <3> DEFINE r == AllDeleted \o Parsed(disk.lines, UnusedNos)
    <3>2. [k \in DOMAIN Kept(r) |-> [key |-> Kept(r)[k].key, live |-> Kept(r)[k].live]]
            = disk.lines
      BY LoadedIs DEF Typed
    <3>3. list' = r
      BY <2>1, <3>1
    <3> HIDE DEF r
    <3>4. Lines' = disk.lines
      BY <3>2, <3>3 DEF Lines
    <3> QED BY <2>1, <3>4 DEF SaveInv
  <2>3. CASE ~(mtime < disk.mtime)
    <3>1. UNCHANGED <<list, mtime, modified, loaded>>
      BY <1>3, <2>3 DEF LoadRead, loader
    <3>2. Lines' = Lines
      BY <3>1 DEF Lines
    <3> QED BY <2>1, <3>1, <3>2 DEF SaveInv, Exists, Quiet
  <2> QED BY <2>2, <2>3
<1>4. CASE SaveWrite
  <2>1. /\ hk' = "written" /\ UNCHANGED <<list, upd>>
        /\ buffer' = [lines |-> Lines, long |-> FALSE, mtime |-> 0]
    BY <1>4 DEF SaveWrite, loader
  <2>2. Lines \in Seq(Line)
    BY LinesAre DEF Typed
  <2>3. Lines' = Lines
    BY <2>1 DEF Lines
  <2> QED BY <2>1, <2>2, <2>3 DEF SaveInv
<1>5. CASE SaveRename
  <2>1. /\ hk = "written" /\ hk' = "renamed" /\ UNCHANGED <<list, upd>>
        /\ disk' = [buffer EXCEPT !.mtime = now]
        /\ buffer \in [lines : Seq(Line), long : {FALSE}, mtime : {0}]
        /\ Quiet => buffer.lines = Lines
    BY <1>5 DEF SaveRename, SaveInv, loader
  <2>2. disk'.mtime = now /\ disk'.lines = buffer.lines
    BY <2>1
  <2>3. Lines' = Lines
    BY <2>1 DEF Lines
  <2> QED BY <1>0, <2>1, <2>2, <2>3 DEF SaveInv, Quiet
<1>6. CASE SaveDone
  <2>1. hk = "renamed" /\ hk' = "rest" /\ UNCHANGED <<disk, list, upd>>
    BY <1>6 DEF SaveDone
  <2>2. Lines' = Lines
    BY <2>1 DEF Lines
  <2> QED BY <2>1, <2>2 DEF SaveInv, Quiet
<1>7. CASE Edit
  <2>1. /\ hk = "rest" /\ disk.mtime < now /\ UNCHANGED <<hk, mtime>> /\ disk'.mtime = now
    BY <1>7 DEF Edit, MayEdit, loader
  <2> QED BY <1>0, <2>1 DEF SaveInv, TimesInv
<1>8. CASE Unlink
  <2>1. hk = "rest" /\ hk' = hk /\ disk' = NoFile
    BY <1>8 DEF Unlink, MayEdit
  <2> QED BY <2>1 DEF SaveInv, Exists
<1>9. CASE OpenFailed
  <2>1. hk = "rest" /\ hk' = hk /\ disk' = disk /\ disk = NoFile
    BY <1>9 DEF OpenFailed, Exists
  <2> QED BY <2>1 DEF SaveInv, Exists
<1>10. CASE LoadOpen \/ SaveBegin
  <2>1. /\ UNCHANGED <<disk, list, mtime, modified, loaded, upd>> /\ hk = "rest"
        /\ hk' \in {"opened", "checked"} /\ (hk' = "opened" => buffer' = disk)
    BY <1>10 DEF LoadOpen, SaveBegin, loader
  <2>2. Lines' = Lines
    BY <2>1 DEF Lines
  <2> QED BY <2>1, <2>2 DEF SaveInv, Exists, Quiet
<1>11. CASE Second \/ UNCHANGED fileVars
  <2>1. UNCHANGED <<disk, list, mtime, modified, loaded, hk, buffer, upd>>
    BY <1>11 DEF Second, fileVars, loader
  <2>2. Lines' = Lines
    BY <2>1 DEF Lines
  <2> QED BY <2>1, <2>2 DEF SaveInv, Exists, Quiet
<1> QED BY <1>1, <1>2, <1>3, <1>4, <1>5, <1>6, <1>7, <1>8, <1>9, <1>10, <1>11
    DEF FileNext, Load, Save

LEMMA UnreadInitially == FileInit => UnreadInv
<1> SUFFICES ASSUME FileInit PROVE UnreadInv
  OBVIOUS
<1>1. mtime = disk.mtime /\ ~unread /\ hk = "rest" /\ disk = First
  BY DEF FileInit
<1>2. First.mtime \in Nat /\ (First # NoFile => First.mtime = 1)
  <2>1. CASE First = NoFile
    BY <2>1 DEF NoFile
  <2>2. CASE First \in [lines : Seq(Line), long : {FALSE}, mtime : {1}]
    BY <2>2
  <2> QED BY <2>1, <2>2, KeyFileAssumption
<1> QED BY <1>1, <1>2 DEF UnreadInv

\* A file that looks newer was edited, and one that was edited looks newer or was
\* read in part.
LEMMA UnreadKept ==
  ASSUME Careful, Typed, TimesInv, SaveInv, UnreadInv, [FileNext]_fileVars
  PROVE  UnreadInv'
<1>0. disk.mtime \in Nat /\ mtime \in Nat /\ now \in Nat \ {0}
  BY DEF Typed
<1>1. CASE UNCHANGED <<disk, mtime, loaded, hk, unread>>
  BY <1>1 DEF UnreadInv
<1>2. ASSUME NEW t \in Updaters, AddNewKey(t) \/ \E k \in Keys : NewKey(t, k) PROVE UnreadInv'
  BY <1>1, <1>2 DEF AddNewKey, NewKey, Known, Old, Comment, AddItem, loader
<1>3. CASE Purge \/ Second \/ UNCHANGED fileVars
  BY <1>1, <1>3 DEF Purge, Second, fileVars, loader
<1>4. CASE OpenFailed
  <2>1. UNCHANGED <<disk, mtime, hk, unread>> /\ disk.mtime = 0
    BY <1>4 DEF OpenFailed, Exists, NoFile
  <2> QED BY <1>0, <2>1 DEF UnreadInv
<1>5. CASE LoadOpen \/ SaveWrite
  <2>1. UNCHANGED <<disk, mtime, loaded, unread>> /\ hk # "renamed"
        /\ (hk' = "opened" \/ hk = "checked")
    BY <1>5 DEF LoadOpen, SaveWrite, loader
  <2> QED BY <2>1 DEF UnreadInv
<1>6. CASE LoadRead
  <2>1. UNCHANGED disk /\ buffer = disk /\ hk' = "rest" /\ hk = "opened"
    BY <1>6 DEF LoadRead, SaveInv
  <2>2. CASE mtime < disk.mtime
    <3>1. /\ mtime' = disk.mtime /\ loaded' = ~buffer.long
          /\ unread' = (unread /\ (buffer.long \/ buffer.lines # disk.lines))
      BY <1>6, <2>2 DEF LoadRead, Loads
    <3>2. unread' => unread /\ ~loaded'
      BY <2>1, <3>1
    <3> QED BY <1>0, <2>1, <2>2, <3>1, <3>2 DEF UnreadInv
  <2>3. CASE ~(mtime < disk.mtime)
    <3>1. UNCHANGED <<mtime, loaded, unread>>
      BY <1>6, <2>3 DEF LoadRead, loader
    <3> QED BY <1>0, <2>1, <2>3, <3>1 DEF UnreadInv
  <2> QED BY <2>2, <2>3
<1>7. CASE SaveBegin
  <2>1. UNCHANGED <<disk, mtime, loaded, unread>> /\ hk = "rest" /\ hk' = "checked"
        /\ loaded /\ ~(mtime # 0 /\ mtime < disk.mtime)
    BY <1>7 DEF SaveBegin, CheckDoSave, CheckUnmodified, loader
  <2> QED BY <1>0, <2>1 DEF UnreadInv
<1>8. CASE SaveRename
  <2>1. /\ UNCHANGED <<mtime, loaded, unread>> /\ hk = "written" /\ hk' = "renamed"
        /\ disk' = [buffer EXCEPT !.mtime = now]
        /\ buffer \in [lines : Seq(Line), long : {FALSE}, mtime : {0}]
    BY <1>8 DEF SaveRename, SaveInv, loader
  <2> QED BY <1>0, <2>1 DEF UnreadInv
<1>9. CASE SaveDone
  <2>1. UNCHANGED <<disk, loaded, unread>> /\ hk = "renamed" /\ hk' = "rest"
        /\ mtime' = disk.mtime /\ disk.mtime > 0
    BY <1>9 DEF SaveDone, SaveInv
  <2> QED BY <1>0, <2>1 DEF UnreadInv
<1>10. CASE Edit
  <2>1. /\ hk = "rest" /\ disk.mtime < now /\ UNCHANGED <<hk, mtime, loaded>>
        /\ disk'.mtime = now /\ unread' = TRUE
    BY <1>10 DEF Edit, MayEdit, loader
  <2> QED BY <1>0, <2>1 DEF UnreadInv, TimesInv
<1>11. CASE Unlink
  <2>1. hk = "rest" /\ UNCHANGED <<hk, mtime>> /\ disk'.mtime = 0 /\ unread' = FALSE
    BY <1>11 DEF Unlink, MayEdit, NoFile, loader
  <2> QED BY <1>0, <2>1 DEF UnreadInv
<1> QED BY <1>2, <1>3, <1>4, <1>5, <1>6, <1>7, <1>8, <1>9, <1>10, <1>11
    DEF FileNext, Load, Save

FileInv == Typed /\ TimesInv /\ SaveInv /\ UnreadInv

LEMMA FileKept == ASSUME Careful PROVE FileSpec => []FileInv
<1>1. FileInit => FileInv
  BY TypedInitially, TimesInitially, SaveInitially, UnreadInitially DEF FileInv
<1>2. FileInv /\ [FileNext]_fileVars => FileInv'
  BY TypedKept, TimesKept, SaveKept, UnreadKept DEF FileInv
<1> QED BY <1>1, <1>2, PTL DEF FileSpec

\* When the list counts as saved, the file holds what the list holds: no update
\* that comes between the look at the list and the end of a save is forgotten.
THEOREM SavedInStep == ASSUME Careful PROVE FileSpec => []InStep
<1>1. FileInv => InStep
  BY DEF FileInv, SaveInv, InStep, Quiet
<1> QED BY <1>1, FileKept, PTL

\* No save takes the place of an edit that was not read in full, when there was a
\* file at the start.
THEOREM EditKept == ASSUME Careful, First # NoFile PROVE FileSpec => NoEditLost
<1>1. FileInv /\ [FileNext]_fileVars => [SaveRename => ~unread]_fileVars
  BY DEF FileInv, UnreadInv, SaveRename
<1> QED BY <1>1, FileKept, PTL DEF FileSpec, NoEditLost

\* The times, and how a file comes to look newer, whatever the editor does.
OwnInv ==
  /\ disk.mtime \in Nat /\ mtime \in Nat /\ now \in Nat
  /\ hk = "written" => buffer = [lines |-> buffer.lines, long |-> FALSE, mtime |-> 0]
  /\ mtime < disk.mtime /\ hk # "renamed" => unread

LEMMA OwnKept == OwnInv /\ [FileNext]_fileVars => OwnInv'
<1> SUFFICES ASSUME OwnInv, [FileNext]_fileVars PROVE OwnInv'
  OBVIOUS
<1>1. CASE UNCHANGED <<disk, mtime, now, hk, buffer, unread>>
  BY <1>1 DEF OwnInv
<1>2. ASSUME NEW t \in Updaters, AddNewKey(t) \/ \E k \in Keys : NewKey(t, k) PROVE OwnInv'
  BY <1>1, <1>2 DEF AddNewKey, NewKey, Known, Old, Comment, AddItem, loader
<1>3. CASE Purge \/ OpenFailed \/ UNCHANGED fileVars
  BY <1>1, <1>3 DEF Purge, OpenFailed, fileVars, loader
<1>4. CASE LoadOpen \/ SaveBegin
  BY <1>4 DEF LoadOpen, SaveBegin, OwnInv, loader
<1>5. CASE LoadRead
  BY <1>5 DEF LoadRead, OwnInv, loader
<1>6. CASE SaveWrite
  BY <1>6 DEF SaveWrite, OwnInv, loader
<1>7. CASE SaveRename
  <2>1. /\ UNCHANGED <<mtime, now, unread>> /\ hk' = "renamed"
        /\ disk' = [buffer EXCEPT !.mtime = now]
        /\ buffer = [lines |-> buffer.lines, long |-> FALSE, mtime |-> 0]
    BY <1>7 DEF SaveRename, OwnInv, loader
  <2>2. disk'.mtime = now
    BY <2>1
  <2> QED BY <2>1, <2>2 DEF OwnInv
<1>8. CASE SaveDone
  BY <1>8 DEF SaveDone, OwnInv
<1>9. CASE Edit
  BY <1>9 DEF Edit, OwnInv, loader
<1>10. CASE Unlink
  BY <1>10 DEF Unlink, OwnInv, NoFile, loader
<1>11. CASE Second
  BY <1>11 DEF Second, OwnInv, loader
<1> QED BY <1>2, <1>3, <1>4, <1>5, <1>6, <1>7, <1>8, <1>9, <1>10, <1>11
    DEF FileNext, Load, Save

\* A list is thrown away only for an edit, never for a file of its own saving,
\* whatever the editor does.
THEOREM OwnSaves == FileSpec => OwnSavesStay
<1>1. FileInit => OwnInv
  <2> SUFFICES ASSUME FileInit PROVE OwnInv
    OBVIOUS
  <2>1. First.mtime \in Nat
    <3>1. CASE First = NoFile
      BY <3>1 DEF NoFile
    <3>2. CASE First \in [lines : Seq(Line), long : {FALSE}, mtime : {1}]
      BY <3>2
    <3> QED BY <3>1, <3>2, KeyFileAssumption
  <2> QED BY <2>1 DEF FileInit, OwnInv
<1>2. OwnInv /\ [FileNext]_fileVars => [LoadRead /\ list' # list => unread]_fileVars
  BY DEF OwnInv, LoadRead, loader
<1> QED BY <1>1, <1>2, OwnKept, PTL DEF FileSpec, OwnSavesStay
=============================================================================
