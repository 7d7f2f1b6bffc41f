--------------------------- MODULE CamPidsProofs ---------------------------
(***************************************************************************)
(* What holds of process_cam and of the core and the descrambler CamPids   *)
(* relies on, for every set of services and streams: first the types, for  *)
(* any set of adapters, then the services that are viewed and those that   *)
(* are given up, for one adapter.                                          *)
(***************************************************************************)
EXTENDS CamPids, SequenceLemmas

(* Positions of a list.                                                    *)

\* Of n positions, one has k - 1 before it, for each k up to n.
LEMMA NthIsIn ==
  ASSUME NEW S \in SUBSET Int, IsFiniteSet(S), NEW k \in 1 .. Cardinality(S)
  PROVE  Nth(S, k) \in S /\ Cardinality({j \in S : j < Nth(S, k)}) = k - 1
BY RankedOnce DEF Nth

\* Each of them is the k-th for some k.
LEMMA NthHits ==
  ASSUME NEW S \in SUBSET Int, IsFiniteSet(S), NEW i \in S
  PROVE  \E k \in 1 .. Cardinality(S) : Nth(S, k) = i
<1> DEFINE r == Cardinality({m \in S : m < i})
<1>1. r \in 0 .. Cardinality(S) - 1 /\ Cardinality(S) \in Nat
  BY RanksDiffer, FS_CardinalityType
<1> HIDE DEF r
<1>2. r + 1 \in 1 .. Cardinality(S) /\ (r + 1) - 1 = r
  BY <1>1
<1>3. Nth(S, r + 1) \in S /\ Cardinality({j \in S : j < Nth(S, r + 1)}) = r
  BY <1>2, NthIsIn
<1>4. \A j \in S : Cardinality({m \in S : m < j}) = r => j = i
  BY RanksDiffer DEF r
<1>5. Nth(S, r + 1) = i
  BY <1>3, <1>4
<1> QED BY <1>2, <1>5

-----------------------------------------------------------------------------
(* process_cam: the list of pids and the calls.                            *)

Entry  == [epid : Pids, sid : Sids, delayclose : BOOLEAN]

LEMMA CallIs ==
  ASSUME NEW op \in {"prg", "tune", "stop", "C", "I"}, NEW a \in Adapters,
         NEW s \in Sids \cup {NoSid}, NEW pids \in SUBSET Pids, op = "prg" => s \in Sids
  PROVE  Call(op, a, s, pids) \in Called
BY DEF Call, CallType, Called

LEMMA EntryOf ==
  ASSUME CamTypeOK, NEW i \in DOMAIN pid_list
  PROVE  /\ pid_list[i] \in Entry /\ pid_list[i].epid \in Pids
         /\ pid_list[i].sid \in Sids /\ pid_list[i].delayclose \in BOOLEAN
<1> DEFINE E == Entry
<1>1. pid_list \in Seq(E)
  BY DEF CamTypeOK, Entry
<1> HIDE DEF E
<1>2. pid_list[i] \in E
  BY <1>1, LenProperties, ElementOfSeq
<1> QED BY <1>2 DEF E, Entry

LEMMA DelPidIs ==
  ASSUME CamTypeOK, NEW a \in Adapters, NEW i \in DOMAIN pid_list, NEW gone
  PROVE  DelPid(a, i, gone) \in Called
<1>1. {pid_list[j].epid : j \in {k \in DOMAIN pid_list \ gone :
                                   pid_list[k].sid = pid_list[i].sid}} \in SUBSET Pids
  BY EntryOf
<1>2. pid_list[i].sid \in Sids
  BY EntryOf
<1> QED BY <1>1, <1>2, CallIs DEF DelPid

\* The positions of the delayed entries, and of the others.
LEMMA DelayedIs ==
  ASSUME CamTypeOK
  PROVE  /\ Delayed \in SUBSET Int /\ Delayed \subseteq DOMAIN pid_list
         /\ IsFiniteSet(Delayed) /\ Cardinality(Delayed) \in Nat
         /\ (DOMAIN pid_list \ Delayed) \in SUBSET Int
         /\ IsFiniteSet(DOMAIN pid_list \ Delayed)
         /\ Cardinality(DOMAIN pid_list \ Delayed) \in Nat
<1> DEFINE E == Entry
<1>1. pid_list \in Seq(E)
  BY DEF CamTypeOK, Entry
<1> HIDE DEF E
<1>2. Len(pid_list) \in Nat /\ DOMAIN pid_list = 1 .. Len(pid_list)
  BY <1>1, LenProperties
<1>3. IsFiniteSet(DOMAIN pid_list) /\ DOMAIN pid_list \in SUBSET Int
  BY <1>2, FS_Interval
<1>4. Delayed \in SUBSET DOMAIN pid_list
  BY DEF Delayed
<1>5. IsFiniteSet(Delayed) /\ IsFiniteSet(DOMAIN pid_list \ Delayed)
  BY <1>3, <1>4, FS_Subset
<1> QED BY <1>3, <1>4, <1>5, FS_CardinalityType

LEMMA DelayedSeqIs ==
  ASSUME CamTypeOK
  PROVE  /\ DelayedSeq \in Seq(Delayed) /\ Len(DelayedSeq) = Cardinality(Delayed)
         /\ Len(DelayedSeq) \in Nat
         /\ \A k \in 1 .. Len(DelayedSeq) :
              DelayedSeq[k] \in Delayed /\ DelayedSeq[k] \in DOMAIN pid_list
<1> DEFINE n == Cardinality(Delayed)
<1>1. n \in Nat /\ Delayed \subseteq DOMAIN pid_list
  BY DelayedIs
<1>2. ASSUME NEW k \in 1 .. n PROVE Nth(Delayed, n + 1 - k) \in Delayed
  <2>1. n + 1 - k \in 1 .. n
    BY <1>1
  <2> QED BY <2>1, DelayedIs, NthIsIn
<1>3. DelayedSeq = [k \in 1 .. n |-> Nth(Delayed, n + 1 - k)]
  BY DEF DelayedSeq
<1> HIDE DEF n
<1>4. DelayedSeq \in [1 .. n -> Delayed]
  BY <1>2, <1>3
<1>5. DelayedSeq \in Seq(Delayed) /\ Len(DelayedSeq) = n
  BY <1>1, <1>4
<1> QED BY <1>1, <1>4, <1>5 DEF n

LEMMA KeptEntriesIs ==
  ASSUME CamTypeOK
  PROVE  KeptEntries \in Seq(Entry)
<1> DEFINE kept == DOMAIN pid_list \ Delayed
           n == Cardinality(kept)
           E == Entry
<1>1. n \in Nat /\ kept \in SUBSET Int /\ IsFiniteSet(kept)
  BY DelayedIs
<1>2. KeptEntries = [k \in 1 .. n |-> pid_list[Nth(kept, k)]]
  BY DEF KeptEntries
<1>3. kept \subseteq DOMAIN pid_list
  OBVIOUS
<1> HIDE DEF kept, E
<1>4. ASSUME NEW k \in 1 .. n PROVE pid_list[Nth(kept, k)] \in E
  <2>1. Nth(kept, k) \in DOMAIN pid_list
    BY <1>1, <1>3, NthIsIn
  <2> QED BY <2>1, EntryOf DEF E
<1> HIDE DEF n
<1>5. KeptEntries \in [1 .. n -> E]
  BY <1>2, <1>4
<1> QED BY <1>1, <1>5 DEF E

LEMMA NewEntriesIs ==
  ASSUME NEW s \in Sids
  PROVE  NewEntries(s) \in Seq(Entry) /\ Epids(s) \in SUBSET Pids
<1> DEFINE E == Entry
           P == Epids(s)
           n == Len(EpidList[s])
           f == [i \in DOMAIN EpidList[s] |->
                   [epid |-> EpidList[s][i], sid |-> s, delayclose |-> FALSE]]
<1>1. EpidList[s] \in Seq(P)
  BY ProcessCamAssumption
<1>2. Epids(s) \subseteq Pids
  BY DEF Pids
<1>3. P \subseteq Pids
  BY <1>2
<1> HIDE DEF P
<1>4. n \in Nat /\ DOMAIN EpidList[s] = 1 .. n
  BY <1>1, LenProperties
<1>5. ASSUME NEW i \in DOMAIN EpidList[s]
      PROVE  [epid |-> EpidList[s][i], sid |-> s, delayclose |-> FALSE] \in E
  <2>1. EpidList[s][i] \in Pids
    BY <1>1, <1>3, <1>4, ElementOfSeq
  <2> QED BY <2>1 DEF Entry
<1>6. NewEntries(s) = Reverse(f)
  BY DEF NewEntries
<1> HIDE DEF n, E
<1>7. f \in [1 .. n -> E]
  BY <1>4, <1>5
<1> HIDE DEF f
<1>8. f \in Seq(E) /\ Len(f) = n
  BY <1>4, <1>7
<1>9. ASSUME NEW i \in 1 .. n PROVE f[(n - i) + 1] \in E
  <2>1. (n - i) + 1 \in 1 .. n
    BY <1>4
  <2> QED BY <1>7, <2>1
<1>10. Reverse(f) \in [1 .. n -> E]
  BY <1>8, <1>9 DEF Reverse
<1>11. Reverse(f) \in Seq(E)
  BY <1>4, <1>10
<1> QED BY <1>2, <1>6, <1>11 DEF E

LEMMA CloseDelayedIs ==
  ASSUME CamTypeOK, NEW a \in Adapters
  PROVE  CloseDelayed(a) \in Seq(Called)
<1> DEFINE n == Len(DelayedSeq)
           C == Called
<1>1. /\ n \in Nat
      /\ \A k \in 1 .. n : DelayedSeq[k] \in DOMAIN pid_list
  BY DelayedSeqIs
<1>2. ASSUME NEW m \in 1 .. 2 * n
      PROVE  LET k == (m + 1) \div 2
                 i == DelayedSeq[k]
             IN /\ Call("C", a, pid_list[i].sid, {pid_list[i].epid}) \in C
                /\ \A gone : DelPid(a, i, gone) \in C
  <2> DEFINE k == (m + 1) \div 2
             i == DelayedSeq[k]
  <2>1. k \in 1 .. n
    BY <1>1
  <2> HIDE DEF k
  <2>2. i \in DOMAIN pid_list
    BY <1>1, <2>1
  <2> HIDE DEF i
  <2>3. pid_list[i].sid \in Sids /\ {pid_list[i].epid} \in SUBSET Pids
    BY <2>2, EntryOf
  <2>4. Call("C", a, pid_list[i].sid, {pid_list[i].epid}) \in C
    BY <2>3, CallIs
  <2>5. ASSUME NEW gone PROVE DelPid(a, i, gone) \in C
    BY <2>2, DelPidIs
  <2> QED BY <2>4, <2>5 DEF i, k
<1> HIDE DEF C
<1>3. CloseDelayed(a) \in [1 .. 2 * n -> C]
  BY <1>2 DEF CloseDelayed
<1>4. 2 * n \in Nat
  BY <1>1
<1> HIDE DEF n
<1> QED BY <1>3, <1>4 DEF C

LEMMA ResetSidTyped ==
  ASSUME CamInv, NEW a \in Adapters, ResetSid(a)
  PROVE  CamInv'
<1> DEFINE n == Len(pid_list)
           C == Called
           E == Entry
           dels == [i \in DOMAIN pid_list |-> DelPid(a, i, 1 .. i)]
           ends == <<Call("stop", a, NoSid, {}), Call("I", a, NoSid, {})>>
<1>1. pid_list \in Seq(E) /\ CamTypeOK
  BY DEF CamInv, CamTypeOK, Entry
<1> HIDE DEF E
<1>2. n \in Nat /\ DOMAIN pid_list = 1 .. n
  BY <1>1, LenProperties
<1>3. dels \in [1 .. n -> C]
  BY <1>1, <1>2, DelPidIs
<1>4. dels \in Seq(C)
  <2> HIDE DEF dels, n
  <2> QED BY <1>2, <1>3
<1>5. ends \in Seq(C)
  <2>1. Call("stop", a, NoSid, {}) \in C /\ Call("I", a, NoSid, {}) \in C
    BY CallIs
  <2> HIDE DEF C
  <2> QED BY <2>1
<1>6. calls' = dels \o ends
  BY DEF ResetSid
<1>7. calls' \in Seq(C)
  <2> HIDE DEF dels, ends, C
  <2> QED BY <1>4, <1>5, <1>6, ConcatProperties
<1>8. calls' \in Seq(CallType)
  BY <1>7, SeqMonotonic DEF Called
<1>9. /\ pid_list' = <<>> /\ Channels' = Channels /\ valid' = [valid EXCEPT ![a] = FALSE]
      /\ viewed' \subseteq viewed
  BY DEF ResetSid
<1>10. valid' \in [Adapters -> BOOLEAN] /\ Channels' \subseteq Sids
       /\ viewed' \subseteq Adapters \X Sids
  BY <1>1, <1>9 DEF CamTypeOK
<1>11. pid_list' \in Seq([epid : Pids, sid : Sids, delayclose : BOOLEAN])
  BY <1>9, EmptySeq
<1> QED BY <1>7, <1>8, <1>10, <1>11 DEF CamInv, CamTypeOK

\* Marks do not change what an entry is for.
LEMMA MarkedTyped ==
  ASSUME CamTypeOK, NEW s, NEW b \in BOOLEAN
  PROVE  [i \in DOMAIN pid_list |->
            IF pid_list[i].sid = s THEN [pid_list[i] EXCEPT !.delayclose = b]
            ELSE pid_list[i]] \in Seq(Entry)
<1> DEFINE n == Len(pid_list)
           E == Entry
           r == [i \in DOMAIN pid_list |->
            IF pid_list[i].sid = s THEN [pid_list[i] EXCEPT !.delayclose = b]
            ELSE pid_list[i]]
<1>1. pid_list \in Seq(E)
  BY DEF CamTypeOK, Entry
<1>2. ASSUME NEW i \in DOMAIN pid_list
      PROVE  /\ pid_list[i] \in E /\ [pid_list[i] EXCEPT !.delayclose = b] \in E
  <2>1. pid_list[i] \in E
    BY EntryOf
  <2> QED BY <2>1 DEF Entry
<1> HIDE DEF E
<1>3. n \in Nat /\ DOMAIN pid_list = 1 .. n
  BY <1>1, LenProperties
<1>4. r \in [1 .. n -> E]
  BY <1>2, <1>3
<1> HIDE DEF r, n
<1>5. r \in Seq(E)
  BY <1>3, <1>4
<1> QED BY <1>5 DEF r, E

LEMMA RemoveSidTyped ==
  ASSUME CamInv, NEW a \in Adapters, NEW s \in Sids, RemoveSid(a, s)
  PROVE  CamInv'
<1>1. CamTypeOK /\ calls' = calls /\ Channels' = Channels /\ valid' = valid
      /\ viewed' \subseteq viewed
  BY DEF CamInv, RemoveSid
<1>2. pid_list' \in Seq(Entry)
  BY <1>1, MarkedTyped DEF RemoveSid
<1> QED BY <1>1, <1>2 DEF CamInv, CamTypeOK, Entry

LEMMA GoodToGoTyped ==
  ASSUME CamInv, NEW a \in Adapters, NEW s \in Sids, GoodToGo(a, s),
         viewed' = viewed \cup {<<a, s>>}
  PROVE  CamInv'
<1>1. CamTypeOK /\ calls' = calls /\ Channels' = Channels /\ valid' = valid
  BY DEF CamInv, GoodToGo
<1>2. pid_list' \in Seq(Entry)
  BY <1>1, MarkedTyped DEF GoodToGo
<1> QED BY <1>1, <1>2 DEF CamInv, CamTypeOK, Entry

LEMMA AddNewTyped ==
  ASSUME CamInv, NEW a \in Adapters, NEW s \in Sids, AddNew(a, s),
         viewed' = viewed \cup {<<a, s>>}
  PROVE  CamInv'
<1> DEFINE E == Entry
           C == Called
           new == s \notin Channels
           kept == IF new THEN KeptEntries ELSE pid_list
           c1 == IF new THEN CloseDelayed(a) ELSE <<>>
           c2 == IF Channels' = {s} THEN <<Call("tune", a, s, {})>> ELSE <<>>
           c3 == <<Call("prg", a, s, Epids(s))>>
<1>1. CamTypeOK /\ pid_list \in Seq(E)
  BY DEF CamInv, CamTypeOK, Entry
<1>2. kept \in Seq(E)
  BY <1>1, KeptEntriesIs
<1>3. NewEntries(s) \in Seq(E) /\ Epids(s) \in SUBSET Pids
  BY NewEntriesIs
<1>4. /\ pid_list' = NewEntries(s) \o kept /\ calls' = c1 \o c2 \o c3
      /\ Channels' \subseteq Channels \cup {s} /\ valid' = [valid EXCEPT ![a] = TRUE]
  BY DEF AddNew, KeptChannels
<1>5. pid_list' \in Seq(E)
  <2> HIDE DEF kept, E
  <2> QED BY <1>2, <1>3, <1>4, ConcatProperties
<1>6. c1 \in Seq(C)
  BY <1>1, CloseDelayedIs
<1>7. Call("tune", a, s, {}) \in C /\ Call("prg", a, s, Epids(s)) \in C
  BY <1>3, CallIs
<1>8. c2 \in Seq(C) /\ c3 \in Seq(C)
  <2> HIDE DEF C
  <2> QED BY <1>7
<1>9. calls' \in Seq(C)
  <2> HIDE DEF c1, c2, c3, C
  <2>1. c1 \o c2 \in Seq(C)
    BY <1>6, <1>8, ConcatProperties
  <2> QED BY <1>4, <1>8, <2>1, ConcatProperties
<1>10. calls' \in Seq(CallType)
  BY <1>9, SeqMonotonic DEF Called
<1>11. /\ Channels' \subseteq Sids /\ valid' \in [Adapters -> BOOLEAN]
       /\ viewed' \subseteq Adapters \X Sids
  BY <1>1, <1>4 DEF CamTypeOK
<1> QED BY <1>5, <1>9, <1>10, <1>11 DEF CamInv, CamTypeOK, Entry

\* A message keeps the list, the channels and the calls well-formed.
LEMMA MessageTyped ==
  ASSUME CamInv, NEW a \in Adapters,
         ResetSid(a) \/ \E s \in Sids : RemoveSid(a, s) \/ AddSid(a, s)
  PROVE  CamInv'
<1>1. CASE ResetSid(a)
  BY <1>1, ResetSidTyped
<1>2. ASSUME NEW s \in Sids, RemoveSid(a, s) PROVE CamInv'
  BY <1>2, RemoveSidTyped
<1>3. ASSUME NEW s \in Sids, AddSid(a, s) PROVE CamInv'
  <2>1. CASE s \in FreeToAir
    BY <1>3, <2>1 DEF AddSid, camVars, CamInv, CamTypeOK
  <2>2. CASE s \notin FreeToAir
    BY <1>3, <2>2, GoodToGoTyped, AddNewTyped DEF AddSid
  <2> QED BY <2>1, <2>2
<1> QED BY <1>1, <1>2, <1>3

\* So does a call that is made.
LEMMA CalledTyped ==
  ASSUME CamInv, calls # <<>>, calls' = Tail(calls),
         UNCHANGED <<pid_list, Channels, valid, viewed>>
  PROVE  CamInv' /\ Head(calls) \in Called
<1> DEFINE C == Called
<1>1. calls \in Seq(C)
  BY DEF CamInv
<1> HIDE DEF C
<1>2. Tail(calls) \in Seq(C) /\ Head(calls) \in C
  BY <1>1, HeadTailProperties
<1>3. calls' \in Seq(CallType)
  BY <1>2, SeqMonotonic DEF C, Called
<1> QED BY <1>2, <1>3 DEF C, CamInv, CamTypeOK

-----------------------------------------------------------------------------
(* The types.                                                              *)

PidsInv == CamInv /\ TypeOK

LEMMA PidsInitially == Init => PidsInv
<1> SUFFICES ASSUME Init PROVE PidsInv
  OBVIOUS
<1> DEFINE E == [epid : Pids, sid : Sids, delayclose : BOOLEAN]
           C == Called
           T == CallType
<1>1. /\ pid_list = <<>> /\ Channels = {} /\ calls = <<>> /\ viewed = {}
      /\ valid = [a \in Adapters |-> FALSE]
  BY DEF Init, CamInit
<1>2. pid_list \in Seq(E) /\ calls \in Seq(T) /\ calls \in Seq(C)
  <2> HIDE DEF E, C, T
  <2> QED BY <1>1
<1>3. CamInv /\ CamTypeOK
  BY <1>1, <1>2 DEF CamInv, CamTypeOK
<1> QED BY <1>3 DEF PidsInv, TypeOK, Init

LEMMA PidsKept == PidsInv /\ [Next]_vars => PidsInv'
<1> SUFFICES ASSUME PidsInv, [Next]_vars PROVE PidsInv'
  OBVIOUS
<1>1. CamInv /\ TypeOK
  BY DEF PidsInv
<1>2. CASE Message
  <2>1. CamInv'
    BY <1>1, <1>2, MessageTyped DEF Message
  <2> QED BY <1>1, <1>2, <2>1 DEF PidsInv, TypeOK, CamInv, Message
<1>3. CASE Perform
  <2> DEFINE c == Head(calls)
  <2>1. CamInv' /\ c \in Called
    BY <1>1, <1>3, CalledTyped DEF Perform
  <2>2. c.adapter \in Adapters /\ c.pids \in SUBSET Pids /\ (c.op = "prg" => c.sid \in Sids)
    BY <2>1 DEF Called, CallType
  <2>3. prg' \in [Adapters -> [Sids -> SUBSET Pids]]
    <3>1. CASE c.op = "prg" /\ AddPrg(c.adapter, c.sid, c.pids)
      BY <1>1, <2>2, <3>1 DEF AddPrg, TypeOK
    <3>2. CASE prg' = prg \/ Stop(c.adapter)
      BY <1>1, <2>2, <3>2 DEF Stop, TypeOK
    <3> QED BY <1>3, <3>1, <3>2 DEF Perform, Tune, ClosePid, Invalidate
  <2>4. mapped' \in [Adapters -> SUBSET Pids]
    <3>1. CASE c.op = "prg" /\ AddPrg(c.adapter, c.sid, c.pids)
      BY <1>1, <2>2, <3>1 DEF AddPrg, TypeOK
    <3>2. CASE mapped' = mapped
      BY <1>1, <3>2 DEF TypeOK
    <3>3. CASE ClosePid(c.adapter, c.pids) \/ Invalidate(c.adapter)
      BY <1>1, <2>2, <3>3 DEF ClosePid, Invalidate, TypeOK
    <3> QED BY <1>3, <3>1, <3>2, <3>3 DEF Perform, Tune, Stop
  <2> QED BY <2>1, <2>3, <2>4 DEF PidsInv, TypeOK, CamInv
<1>4. CASE UNCHANGED vars
  <2>1. CamInv'
    BY <1>1, <1>4 DEF vars, camVars, CamInv, CamTypeOK
  <2> QED BY <1>1, <1>4, <2>1 DEF PidsInv, TypeOK, CamInv, vars
<1> QED BY <1>2, <1>3, <1>4 DEF Next

LEMMA PidsStand == Spec => []PidsInv
<1> QED BY PidsInitially, PidsKept, PTL DEF Spec

-----------------------------------------------------------------------------
(* A service that is viewed stays served.                                  *)

\* The search for delayed entries finds all of them.
LEMMA DelayedFound ==
  ASSUME CamTypeOK, NEW i \in Delayed
  PROVE  \E k \in 1 .. Len(DelayedSeq) : DelayedSeq[k] = i
<1> DEFINE n == Cardinality(Delayed)
<1>1. n \in Nat /\ Delayed \in SUBSET Int /\ IsFiniteSet(Delayed) /\ Len(DelayedSeq) = n
  BY DelayedIs, DelayedSeqIs
<1>2. PICK k \in 1 .. n : Nth(Delayed, k) = i
  BY <1>1, NthHits
<1>3. DelayedSeq = [j \in 1 .. n |-> Nth(Delayed, n + 1 - j)]
  BY DEF DelayedSeq
<1> HIDE DEF n
<1>4. n + 1 - k \in 1 .. n /\ n + 1 - (n + 1 - k) = k
  BY <1>1
<1>5. DelayedSeq[n + 1 - k] = i
  BY <1>2, <1>3, <1>4
<1> QED BY <1>1, <1>4, <1>5

LEMMA KeptEntriesAre ==
  ASSUME CamTypeOK, NEW k \in DOMAIN KeptEntries
  PROVE  \E m \in DOMAIN pid_list \ Delayed : KeptEntries[k] = pid_list[m]
<1> DEFINE kept == DOMAIN pid_list \ Delayed
           n == Cardinality(kept)
<1>1. kept \in SUBSET Int /\ IsFiniteSet(kept)
  BY DelayedIs
<1>2. KeptEntries = [j \in 1 .. n |-> pid_list[Nth(kept, j)]]
  BY DEF KeptEntries
<1> HIDE DEF kept
<1>3. k \in 1 .. n
  BY <1>2
<1>4. Nth(kept, k) \in kept
  BY <1>1, <1>3, NthIsIn
<1> QED BY <1>2, <1>3, <1>4 DEF kept

LEMMA NewEntriesAre ==
  ASSUME NEW s \in Sids, NEW k \in DOMAIN NewEntries(s)
  PROVE  LET e == NewEntries(s)[k]
         IN e.sid = s /\ e.delayclose = FALSE /\ e.epid \in Epids(s)
<1> DEFINE P == Epids(s)
           n == Len(EpidList[s])
           f == [i \in DOMAIN EpidList[s] |->
                   [epid |-> EpidList[s][i], sid |-> s, delayclose |-> FALSE]]
<1>1. EpidList[s] \in Seq(P)
  BY ProcessCamAssumption
<1> HIDE DEF P
<1>2. n \in Nat /\ DOMAIN EpidList[s] = 1 .. n
  BY <1>1, LenProperties
<1>3. NewEntries(s) = Reverse(f)
  BY DEF NewEntries
<1>4. \A i \in 1 .. n : /\ f[i].sid = s /\ f[i].delayclose = FALSE
                        /\ f[i].epid \in P
  BY <1>2 DEF P, Epids
<1>5. f \in [1 .. n -> {f[i] : i \in 1 .. n}]
  BY <1>2
<1> HIDE DEF n, f
<1>6. f \in Seq({f[i] : i \in 1 .. n}) /\ Len(f) = n
  BY <1>2, <1>5
<1>7. NewEntries(s) = [i \in 1 .. n |-> f[(n - i) + 1]]
  BY <1>3, <1>6 DEF Reverse
<1>8. k \in 1 .. n
  BY <1>7
<1>9. (n - k) + 1 \in 1 .. n
  BY <1>2, <1>8
<1> QED BY <1>4, <1>7, <1>8, <1>9 DEF P

\* What is called for the delayed entries is about them.
LEMMA ClosingIs ==
  ASSUME CamTypeOK, NEW m \in DOMAIN CloseDelayed(This)
  PROVE  \E k \in 1 .. Len(DelayedSeq) :
           LET i == DelayedSeq[k]
               c == CloseDelayed(This)[m]
           IN /\ k = (m + 1) \div 2 /\ c.sid = pid_list[i].sid
              /\ \/ c.op = "C" /\ c.pids = {pid_list[i].epid}
                 \/ c.op = "prg"
<1> DEFINE n == Len(DelayedSeq)
           k == (m + 1) \div 2
           i == DelayedSeq[k]
<1>1. n \in Nat
  BY DelayedSeqIs
<1>2. m \in 1 .. 2 * n
  BY DEF CloseDelayed
<1>3. k \in 1 .. n
  <2> HIDE DEF n
  <2> QED BY <1>1, <1>2
<1>4. CloseDelayed(This)[m] = IF m % 2 = 1 THEN Call("C", This, pid_list[i].sid, {pid_list[i].epid})
                           ELSE DelPid(This, i, {DelayedSeq[j] : j \in 1 .. k})
  BY <1>2 DEF CloseDelayed
<1> HIDE DEF i, k, n
<1>5. CASE m % 2 = 1
  <2>1. CloseDelayed(This)[m] = Call("C", This, pid_list[i].sid, {pid_list[i].epid})
    BY <1>4, <1>5
  <2>2. /\ CloseDelayed(This)[m].sid = pid_list[i].sid /\ CloseDelayed(This)[m].op = "C"
        /\ CloseDelayed(This)[m].pids = {pid_list[i].epid}
    BY <2>1 DEF Call
  <2> QED BY <1>3, <2>2 DEF i, k, n
<1>6. CASE m % 2 # 1
  <2>1. CloseDelayed(This)[m] = DelPid(This, i, {DelayedSeq[j] : j \in 1 .. k})
    BY <1>4, <1>6
  <2>2. /\ CloseDelayed(This)[m].sid = pid_list[i].sid /\ CloseDelayed(This)[m].op = "prg"
    BY <2>1 DEF DelPid, Call
  <2> QED BY <1>3, <2>2 DEF i, k, n
<1> QED BY <1>5, <1>6

\* The entries of a service are delayed together: the last call for it is that its
\* program is empty.
LEMMA ClosingEnds ==
  ASSUME CamTypeOK, ListInv, NEW i \in Delayed
  PROVE  LET q == CloseDelayed(This)
             t == pid_list[i].sid
         IN \E m \in DOMAIN q : /\ Ends(q[m], t)
                                /\ \A j \in DOMAIN q : m < j => ~ Asks(q[j], t)
<1> DEFINE n == Len(DelayedSeq)
           q == CloseDelayed(This)
           t == pid_list[i].sid
           K == {k \in 1 .. n : pid_list[DelayedSeq[k]].sid = t}
<1>1. n \in Nat /\ \A k \in 1 .. n : DelayedSeq[k] \in DOMAIN pid_list
  BY DelayedSeqIs
<1>2. K \subseteq 0 .. n /\ K # {}
  <2>1. \E k \in 1 .. n : DelayedSeq[k] = i
    BY DelayedFound
  <2> QED BY <2>1
<1>3. PICK x \in K : \A y \in K : y <= x
  <2> HIDE DEF K, n
  <2> QED BY <1>1, <1>2, GreatestExists
<1>4. x \in 1 .. n /\ pid_list[DelayedSeq[x]].sid = t
  BY <1>3
<1>5. \A k \in 1 .. n : pid_list[DelayedSeq[k]].sid = t => k <= x
  BY <1>3
<1> DEFINE gone == {DelayedSeq[j] : j \in 1 .. x}
<1>6. ASSUME NEW j \in DOMAIN pid_list, pid_list[j].sid = t PROVE j \in gone
  <2>1. pid_list[j].delayclose <=> pid_list[i].delayclose
    BY <1>6 DEF ListInv, Delayed
  <2>2. j \in Delayed
    BY <2>1 DEF Delayed
  <2>3. PICK k \in 1 .. n : DelayedSeq[k] = j
    BY <2>2, DelayedFound
  <2>4. k <= x
    BY <1>5, <1>6, <2>3
  <2>5. k \in 1 .. x
    BY <1>1, <1>4, <2>4
  <2> QED BY <2>3, <2>5
<1>7. 2 * x \in 1 .. 2 * n /\ (2 * x) % 2 # 1 /\ (2 * x + 1) \div 2 = x
  <2> HIDE DEF n
  <2> QED BY <1>1, <1>4
<1>8. 2 * x \in DOMAIN q /\ q[2 * x] = DelPid(This, DelayedSeq[x], gone)
  BY <1>7 DEF CloseDelayed
<1>9. Ends(q[2 * x], t)
  <2> DEFINE c == DelPid(This, DelayedSeq[x], gone)
  <2> HIDE DEF gone
  <2>1. c.op = "prg" /\ c.sid = t
        /\ c.pids = {pid_list[j].epid : j \in {k \in DOMAIN pid_list \ gone : pid_list[k].sid = t}}
    BY <1>4 DEF DelPid, Call
  <2>2. {k \in DOMAIN pid_list \ gone : pid_list[k].sid = t} = {}
    BY <1>6
  <2>3. c.pids = {}
    BY <2>1, <2>2
  <2> QED BY <1>8, <2>1, <2>3 DEF Ends
<1>10. ASSUME NEW j \in DOMAIN q, 2 * x < j PROVE ~ Asks(q[j], t)
  <2>1. PICK k \in 1 .. n : k = (j + 1) \div 2 /\ q[j].sid = pid_list[DelayedSeq[k]].sid
    BY ClosingIs
  <2>2. j \in 1 .. 2 * n
    BY DEF CloseDelayed
  <2>3. k > x
    <3> HIDE DEF n, q
    <3> QED BY <1>1, <1>4, <1>10, <2>1, <2>2
  <2>4. q[j].sid # t
    BY <1>1, <1>4, <1>5, <2>1, <2>3
  <2> QED BY <2>4 DEF Asks
<1> QED BY <1>8, <1>9, <1>10

\* The services that are given up with their delayed entries.
Gone == {pid_list[i].sid : i \in Delayed}

\* With a new service those of the list that are not viewed are given up.
LEMMA AddNewLive ==
  ASSUME OneAdapter, CamTypeOK, ListInv, NEW s \in Sids, AddNew(This, s)
  PROVE  /\ s \notin Live /\ Gone \subseteq Live /\ Live' = (Live \ Gone) \cup {s}
         /\ valid'[This] = TRUE
<1>1. valid \in [{This} -> BOOLEAN]
  BY DEF OneAdapter, CamTypeOK
<1>2. /\ ~ (s \in Channels /\ valid[This]) /\ valid' = [valid EXCEPT ![This] = TRUE]
      /\ Channels' = (IF valid[This] THEN (IF s \notin Channels THEN KeptChannels ELSE Channels)
                      ELSE {}) \cup {s}
  BY DEF AddNew
<1>3. s \notin Live /\ valid'[This] = TRUE
  BY <1>1, <1>2 DEF Live
<1>4. Gone \subseteq Live
  BY DEF Gone, ListInv, Delayed
<1>5. Live' = Channels'
  BY <1>3 DEF Live
<1>6. CASE valid[This]
  <2>1. Live = Channels /\ s \notin Channels
    BY <1>3, <1>6 DEF Live
  <2>2. Channels' = KeptChannels \cup {s}
    BY <1>2, <1>6, <2>1
  <2> QED BY <1>3, <1>4, <1>5, <2>1, <2>2 DEF KeptChannels, Gone
<1>7. CASE ~ valid[This]
  <2>1. Live = {} /\ Channels' = {s}
    BY <1>2, <1>7 DEF Live
  <2> QED BY <1>3, <1>4, <1>5, <2>1
<1> QED BY <1>6, <1>7

\* Its calls: first those for the delayed entries, last its program.
LEMMA AddNewStands ==
  ASSUME OneAdapter, CamInv, ListInv, NEW s \in Sids, AddNew(This, s)
  PROVE  LET q == calls'
             d == CloseDelayed(This)
         IN /\ \A i \in DOMAIN d : i \in DOMAIN q /\ q[i] = d[i]
            /\ \A i \in DOMAIN q :
                 \/ i \in DOMAIN d /\ q[i] = d[i]
                 \/ /\ q[i].op = "tune" /\ q[i].sid = s /\ Live' = {s}
                    /\ \A j \in DOMAIN d : j < i
                    /\ \A j \in DOMAIN q : j < i => j \in DOMAIN d /\ q[j] = d[j]
                 \/ q[i].op = "prg" /\ q[i].sid = s /\ q[i].pids = Epids(s)
            /\ \E i \in DOMAIN q : q[i].op = "prg" /\ q[i].sid = s
<1> DEFINE C == Called
           d  == CloseDelayed(This)
           c2 == IF Channels' = {s} THEN <<Call("tune", This, s, {})>> ELSE <<>>
           c3 == <<Call("prg", This, s, Epids(s))>>
           b  == d \o c2
           q  == b \o c3
<1>1. /\ CamTypeOK /\ This \in Adapters /\ valid'[This] = TRUE
      /\ calls' = (IF s \notin Channels THEN d ELSE <<>>) \o c2 \o c3
      /\ s \notin Channels \/ ~ valid[This]
  BY AddNewLive DEF OneAdapter, CamInv, AddNew
<1>2. d \in Seq(C) /\ c2 \in Seq(C) /\ c3 \in Seq(C)
  <2>1. d \in Seq(C)
    BY <1>1, CloseDelayedIs
  <2>2. Call("tune", This, s, {}) \in C /\ Call("prg", This, s, Epids(s)) \in C
    BY <1>1, NewEntriesIs, CallIs
  <2> HIDE DEF C, d
  <2> QED BY <2>1, <2>2
<1>3. calls' = q
  <2>1. CASE ~ valid[This]
    <3>1. DOMAIN pid_list = {}
      BY <2>1 DEF ListInv
    <3>2. \A k \in 1 .. Len(DelayedSeq) : FALSE
      BY <1>1, <3>1, DelayedSeqIs
    <3>3. \A m \in DOMAIN d : FALSE
      BY <1>1, <3>2, ClosingIs
    <3> HIDE DEF d, C
    <3>4. Len(d) \in Nat /\ DOMAIN d = 1 .. Len(d)
      BY <1>2, LenProperties
    <3>5. Len(d) = 0
      BY <3>3, <3>4
    <3>6. d = <<>>
      BY <1>2, <3>5, EmptySeq
    <3> QED BY <1>1, <3>6
  <2> QED BY <1>1, <2>1
<1>4. ASSUME NEW i \in DOMAIN c2
      PROVE  i = 1 /\ c2[i].op = "tune" /\ c2[i].sid = s /\ Live' = {s}
  <2>1. Channels' = {s} /\ c2 = <<Call("tune", This, s, {})>>
    BY <1>4
  <2> QED BY <1>1, <1>4, <2>1 DEF Call, Live
<1>5. DOMAIN c3 = {1} /\ c3[1].op = "prg" /\ c3[1].sid = s /\ c3[1].pids = Epids(s)
  BY DEF Call
<1> HIDE DEF d, c2, c3, C, q
<1>6. /\ b \in Seq(C) /\ Len(d) \in Nat /\ DOMAIN b \subseteq Nat
      /\ \A i \in DOMAIN b : \/ i \in DOMAIN d /\ i <= Len(d) /\ b[i] = d[i]
                             \/ Len(d) < i /\ i - Len(d) \in DOMAIN c2 /\ b[i] = c2[i - Len(d)]
      /\ \A i \in DOMAIN d : i <= Len(d) /\ i \in DOMAIN b /\ b[i] = d[i]
      /\ \A i \in DOMAIN c2 : i + Len(d) \in DOMAIN b
  BY <1>2, ConcatStands
<1> HIDE DEF b
<1>7. /\ Len(b) \in Nat /\ DOMAIN q \subseteq Nat
      /\ \A i \in DOMAIN q : \/ i \in DOMAIN b /\ i <= Len(b) /\ q[i] = b[i]
                             \/ Len(b) < i /\ i - Len(b) \in DOMAIN c3 /\ q[i] = c3[i - Len(b)]
      /\ \A i \in DOMAIN b : i <= Len(b) /\ i \in DOMAIN q /\ q[i] = b[i]
      /\ \A i \in DOMAIN c3 : i + Len(b) \in DOMAIN q /\ q[i + Len(b)] = c3[i]
  BY <1>2, <1>6, ConcatStands DEF q
<1>8. ASSUME NEW i \in DOMAIN q
      PROVE  \/ i \in DOMAIN d /\ q[i] = d[i]
             \/ i = Len(d) + 1 /\ i <= Len(b) /\ 1 \in DOMAIN c2 /\ q[i] = c2[1]
             \/ Len(b) < i /\ q[i] = c3[1]
  <2>1. CASE i \in DOMAIN b /\ q[i] = b[i]
    <3>1. CASE Len(d) < i /\ i - Len(d) \in DOMAIN c2 /\ b[i] = c2[i - Len(d)]
      <4>1. i - Len(d) = 1 /\ i \in Nat /\ Len(d) \in Nat /\ i <= Len(b)
        BY <1>4, <1>6, <1>7, <2>1, <3>1
      <4> QED BY <2>1, <3>1, <4>1
    <3> QED BY <1>6, <2>1, <3>1
  <2>2. CASE Len(b) < i /\ i - Len(b) \in DOMAIN c3 /\ q[i] = c3[i - Len(b)]
    BY <1>5, <2>2
  <2> QED BY <1>7, <2>1, <2>2
<1>9. ASSUME NEW i \in DOMAIN d PROVE i \in DOMAIN q /\ q[i] = d[i] /\ i <= Len(d) /\ i \in Nat
  BY <1>6, <1>7
<1>10. ASSUME NEW i \in DOMAIN q, i = Len(d) + 1, i <= Len(b), 1 \in DOMAIN c2, q[i] = c2[1]
       PROVE  /\ q[i].op = "tune" /\ q[i].sid = s /\ Live' = {s}
              /\ \A j \in DOMAIN d : j < i
              /\ \A j \in DOMAIN q : j < i => j \in DOMAIN d /\ q[j] = d[j]
  <2>1. q[i].op = "tune" /\ q[i].sid = s /\ Live' = {s}
    BY <1>4, <1>10
  <2>2. Len(d) \in Nat /\ Len(b) \in Nat /\ DOMAIN q \subseteq Nat
    BY <1>6, <1>7
  <2>3. ASSUME NEW j \in DOMAIN d PROVE j < i
    BY <1>9, <1>10, <2>2
  <2>4. ASSUME NEW j \in DOMAIN q, j < i PROVE j \in DOMAIN d /\ q[j] = d[j]
    <3>1. j # Len(d) + 1 /\ ~ (Len(b) < j)
      BY <1>10, <2>2, <2>4
    <3> QED BY <1>8, <3>1
  <2> QED BY <2>1, <2>3, <2>4
<1>11. \E i \in DOMAIN q : q[i].op = "prg" /\ q[i].sid = s
  <2>1. 1 + Len(b) \in DOMAIN q /\ q[1 + Len(b)] = c3[1]
    BY <1>5, <1>7
  <2> QED BY <1>5, <2>1
<1>12. ASSUME NEW i \in DOMAIN q
       PROVE  \/ i \in DOMAIN d /\ q[i] = d[i]
              \/ /\ q[i].op = "tune" /\ q[i].sid = s /\ Live' = {s}
                 /\ \A j \in DOMAIN d : j < i
                 /\ \A j \in DOMAIN q : j < i => j \in DOMAIN d /\ q[j] = d[j]
              \/ q[i].op = "prg" /\ q[i].sid = s /\ q[i].pids = Epids(s)
  BY <1>5, <1>8, <1>10
<1> QED BY <1>3, <1>9, <1>11, <1>12 DEF d

LEMMA AddNewCalls ==
  ASSUME OneAdapter, CamInv, ListInv, NEW s \in Sids, AddNew(This, s)
  PROVE  /\ \A i \in DOMAIN calls' :
              LET c == calls'[i]
              IN \/ \E d \in Delayed :
                      /\ c.sid = pid_list[d].sid
                      /\ (c.op = "C" /\ c.pids = {pid_list[d].epid}) \/ c.op = "prg"
                 \/ /\ c.op = "tune" /\ c.sid = s /\ Live' = {s}
                    /\ \A j \in DOMAIN calls' : j < i => calls'[j].sid \in Gone
                 \/ c.op = "prg" /\ c.sid = s /\ c.pids = Epids(s)
         /\ \E i \in DOMAIN calls' : calls'[i].op = "prg" /\ calls'[i].sid = s
         /\ \A d \in Delayed : \E i \in DOMAIN calls' :
              /\ Ends(calls'[i], pid_list[d].sid)
              /\ \A j \in DOMAIN calls' : i < j => ~ Asks(calls'[j], pid_list[d].sid)
<1> DEFINE q == calls'
           r == CloseDelayed(This)
<1>1. /\ CamTypeOK /\ s \notin Gone
  BY AddNewLive DEF CamInv
<1>2. /\ \A i \in DOMAIN r : i \in DOMAIN q /\ q[i] = r[i]
      /\ \A i \in DOMAIN q :
           \/ i \in DOMAIN r /\ q[i] = r[i]
           \/ /\ q[i].op = "tune" /\ q[i].sid = s /\ Live' = {s}
              /\ \A j \in DOMAIN r : j < i
              /\ \A j \in DOMAIN q : j < i => j \in DOMAIN r /\ q[j] = r[j]
           \/ q[i].op = "prg" /\ q[i].sid = s /\ q[i].pids = Epids(s)
      /\ \E i \in DOMAIN q : q[i].op = "prg" /\ q[i].sid = s
  BY AddNewStands
<1>3. \A i \in DOMAIN r : \E d \in Delayed :
        /\ r[i].sid = pid_list[d].sid
        /\ (r[i].op = "C" /\ r[i].pids = {pid_list[d].epid}) \/ r[i].op = "prg"
  BY <1>1, ClosingIs, DelayedSeqIs
<1>4. \A i \in DOMAIN r : r[i].sid \in Gone
  BY <1>3 DEF Gone
<1>5. ASSUME NEW d \in Delayed
      PROVE  \E m \in DOMAIN r : /\ Ends(r[m], pid_list[d].sid)
                                 /\ \A j \in DOMAIN r : m < j => ~ Asks(r[j], pid_list[d].sid)
  BY <1>1, ClosingEnds
<1> HIDE DEF q, r
<1>6. ASSUME NEW d \in Delayed
      PROVE  \E i \in DOMAIN q : /\ Ends(q[i], pid_list[d].sid)
                                 /\ \A j \in DOMAIN q : i < j => ~ Asks(q[j], pid_list[d].sid)
  <2> DEFINE t == pid_list[d].sid
  <2>1. PICK m \in DOMAIN r : /\ Ends(r[m], t)
                              /\ \A j \in DOMAIN r : m < j => ~ Asks(r[j], t)
    BY <1>5
  <2>2. t # s
    BY <1>1 DEF Gone
  <2>3. ASSUME NEW j \in DOMAIN q, m < j PROVE ~ Asks(q[j], t)
    BY <1>2, <2>1, <2>2, <2>3 DEF Asks
  <2> QED BY <1>2, <2>1, <2>3
<1>7. ASSUME NEW i \in DOMAIN q
      PROVE  \/ \E d \in Delayed :
                  /\ q[i].sid = pid_list[d].sid
                  /\ (q[i].op = "C" /\ q[i].pids = {pid_list[d].epid}) \/ q[i].op = "prg"
             \/ /\ q[i].op = "tune" /\ q[i].sid = s /\ Live' = {s}
                /\ \A j \in DOMAIN q : j < i => q[j].sid \in Gone
             \/ q[i].op = "prg" /\ q[i].sid = s /\ q[i].pids = Epids(s)
  <2>1. CASE i \in DOMAIN r /\ q[i] = r[i]
    BY <1>3, <2>1
  <2>2. CASE /\ q[i].op = "tune" /\ q[i].sid = s /\ Live' = {s}
             /\ \A j \in DOMAIN q : j < i => j \in DOMAIN r /\ q[j] = r[j]
    BY <1>4, <2>2
  <2> QED BY <1>2, <2>1, <2>2
<1> QED BY <1>2, <1>6, <1>7 DEF q

\* Between two messages all has been done.
LEMMA Settled ==
  ASSUME CamTypeOK, ServiceInv, calls = <<>>
  PROVE  /\ \A s \in Live : Prg(s) = Epids(s) /\ Epids(s) \subseteq Mapped
         /\ \A s \in Sids \ Live : Prg(s) = {}
         /\ Live \subseteq Sids /\ ListInv
<1>1. DOMAIN calls = {}
  OBVIOUS
<1>2. Live \subseteq Sids
  BY DEF Live, CamTypeOK
<1> QED BY <1>1, <1>2 DEF ServiceInv, Provided, GivenUp

LEMMA AddNewLists ==
  ASSUME OneAdapter, CamInv, ListInv, NEW s \in Sids, AddNew(This, s), viewed' = viewed \cup {<<This, s>>}
  PROVE  ListInv'
<1> DEFINE E == Entry
           ns == NewEntries(s)
           kept == IF s \notin Channels THEN KeptEntries ELSE pid_list
<1>1. /\ CamTypeOK /\ pid_list' = ns \o kept
      /\ s \notin Live /\ Gone \subseteq Live /\ Live' = (Live \ Gone) \cup {s}
      /\ valid'[This] = TRUE /\ (s \notin Channels \/ ~ valid[This])
  BY AddNewLive DEF CamInv, AddNew
<1>2. ns \in Seq(E) /\ kept \in Seq(E)
  <2>1. pid_list \in Seq(E)
    BY <1>1 DEF CamTypeOK, Entry
  <2> QED BY <1>1, <2>1, NewEntriesIs, KeptEntriesIs
<1>3. ASSUME NEW i \in DOMAIN ns
      PROVE  ns[i].sid = s /\ ns[i].delayclose = FALSE /\ ns[i].epid \in Epids(s)
  BY NewEntriesAre
<1>4. ASSUME NEW i \in DOMAIN kept
      PROVE  \E m \in DOMAIN pid_list \ Delayed : kept[i] = pid_list[m]
  <2>1. CASE s \notin Channels
    BY <1>1, <2>1, KeptEntriesAre
  <2>2. CASE s \in Channels
    BY <1>1, <2>2 DEF ListInv
  <2> QED BY <2>1, <2>2
<1>5. ASSUME NEW t, <<This, t>> \in viewed PROVE t \in Live \ Gone
  <2>1. t \in Live
    BY <1>5 DEF ListInv
  <2>2. \A i \in Delayed : pid_list[i].sid # t
    BY <1>5 DEF ListInv, Delayed
  <2> QED BY <2>1, <2>2 DEF Gone
<1> HIDE DEF ns, kept, E
<1>6. ASSUME NEW i \in DOMAIN (ns \o kept)
      PROVE  LET e == (ns \o kept)[i]
             IN /\ e.sid \in Live' /\ e.epid \in Epids(e.sid)
                /\ e.delayclose <=> <<This, e.sid>> \notin viewed'
  <2> DEFINE e == (ns \o kept)[i]
  <2>1. (\E j \in DOMAIN ns : e = ns[j]) \/ (\E j \in DOMAIN kept : e = kept[j])
    BY <1>2, ConcatStands
  <2> HIDE DEF e
  <2>2. CASE \E j \in DOMAIN ns : e = ns[j]
    <3>1. e.sid = s /\ e.delayclose = FALSE /\ e.epid \in Epids(s)
      BY <1>3, <2>2
    <3> QED BY <1>1, <3>1 DEF e
  <2>3. CASE \E j \in DOMAIN kept : e = kept[j]
    <3>1. PICK m \in DOMAIN pid_list \ Delayed : e = pid_list[m]
      BY <1>4, <2>3
    <3>2. ~ e.delayclose /\ e.sid \in Live /\ e.epid \in Epids(e.sid) /\ <<This, e.sid>> \in viewed
      BY <3>1 DEF ListInv, Delayed
    <3>3. e.sid \in Live \ Gone
      BY <1>5, <3>2
    <3> QED BY <1>1, <3>2, <3>3 DEF e
  <2> QED BY <2>1, <2>2, <2>3 DEF e
<1>7. ASSUME NEW v \in viewed' PROVE v[2] \in Live'
  <2>1. CASE v \in viewed
    <3>1. v = <<This, v[2]>>
      BY <1>1, <2>1 DEF OneAdapter, CamTypeOK
    <3> QED BY <1>1, <1>5, <2>1, <3>1
  <2> QED BY <1>1, <2>1
<1> QED BY <1>1, <1>6, <1>7 DEF ListInv

\* A new service comes.
LEMMA AddNewServes ==
  ASSUME OneAdapter, CamInv, ServiceInv, calls = <<>>, NEW s \in Sids, AddNew(This, s),
         Apart(Live \cup {s}),
         viewed' = viewed \cup {<<This, s>>},
         \A t \in Sids : Prg(t)' = Prg(t), Mapped' = Mapped
  PROVE  ServiceInv'
<1>1. /\ CamTypeOK /\ s \notin Live /\ Gone \subseteq Live /\ Live \subseteq Sids
      /\ Live' = (Live \ Gone) \cup {s} /\ ListInv
      /\ \A t \in Live : Prg(t) = Epids(t) /\ Epids(t) \subseteq Mapped
      /\ \A t \in Sids \ Live : Prg(t) = {}
  BY AddNewLive, Settled DEF CamInv
<1>2. /\ \A i \in DOMAIN calls' :
           LET c == calls'[i]
           IN \/ \E d \in Delayed :
                   /\ c.sid = pid_list[d].sid
                   /\ (c.op = "C" /\ c.pids = {pid_list[d].epid}) \/ c.op = "prg"
              \/ /\ c.op = "tune" /\ c.sid = s /\ Live' = {s}
                 /\ \A j \in DOMAIN calls' : j < i => calls'[j].sid \in Gone
              \/ c.op = "prg" /\ c.sid = s /\ c.pids = Epids(s)
      /\ \E i \in DOMAIN calls' : calls'[i].op = "prg" /\ calls'[i].sid = s
      /\ \A d \in Delayed : \E i \in DOMAIN calls' :
           /\ Ends(calls'[i], pid_list[d].sid)
           /\ \A j \in DOMAIN calls' : i < j => ~ Asks(calls'[j], pid_list[d].sid)
  BY <1>1, AddNewCalls
<1>3. ListInv'
  BY <1>1, AddNewLists
<1>4. \A d \in Delayed : /\ pid_list[d].sid \in Gone /\ pid_list[d].sid \in Live
                         /\ pid_list[d].epid \in Epids(pid_list[d].sid)
  BY <1>1 DEF Gone, ListInv, Delayed
<1>5. ASSUME NEW i \in DOMAIN calls' PROVE Harmless(calls, i)'
  <2> DEFINE c == calls'[i]
  <2>1. CASE \E d \in Delayed :
                   /\ c.sid = pid_list[d].sid
                   /\ (c.op = "C" /\ c.pids = {pid_list[d].epid}) \/ c.op = "prg"
    <3>1. PICK d \in Delayed :
                   /\ c.sid = pid_list[d].sid
                   /\ (c.op = "C" /\ c.pids = {pid_list[d].epid}) \/ c.op = "prg"
      BY <2>1
    <3>2. c.sid \notin Live' /\ c.sid \in Sids /\ Live' \subseteq Sids
      BY <1>1, <1>4, <3>1
    <3>3. ASSUME NEW t \in Live', c.op = "C" PROVE c.pids \cap Epids(t) = {}
      <4>1. c.sid = pid_list[d].sid /\ c.sid \in Live /\ t \in Live \cup {s} /\ t # c.sid
        BY <1>1, <1>4, <3>1, <3>2, <3>3
      <4>2. Epids(t) \cap Epids(c.sid) = {}
        BY <4>1 DEF Apart
      <4>3. pid_list[d].epid \notin Epids(t) /\ c.pids = {pid_list[d].epid}
        BY <1>4, <3>1, <3>3, <4>1, <4>2
      <4> QED BY <4>3
    <3> QED BY <3>1, <3>2, <3>3 DEF Harmless
  <2>2. CASE /\ c.op = "tune" /\ c.sid = s /\ Live' = {s}
             /\ \A j \in DOMAIN calls' : j < i => calls'[j].sid \in Gone
    <3>1. Prg(calls[i].sid)' = {}
      <4>1. Prg(s)' = {}
        BY <1>1
      <4>2. Prg(calls[i].sid)' = Prg(s)'
        BY <2>2 DEF Prg
      <4> QED BY <4>1, <4>2
    <3>2. s \notin Gone
      <4>1. s \notin Live /\ Gone \subseteq Live
        BY <1>1
      <4> QED BY <4>1
    <3> QED BY <2>2, <3>1, <3>2 DEF Harmless
  <2>3. CASE c.op = "prg" /\ c.sid = s /\ c.pids = Epids(s)
    BY <2>3 DEF Harmless
  <2> QED BY <1>2, <2>1, <2>2, <2>3
<1>6. ASSUME NEW t \in Live' PROVE Provided(calls, t)'
  <2>1. CASE t = s
    BY <1>1, <1>2, <2>1 DEF Provided
  <2>2. CASE t \in Live
    BY <1>1, <2>2 DEF Provided
  <2> QED BY <1>1, <2>1, <2>2
<1>7. ASSUME NEW t \in Sids \ Live' PROVE GivenUp(calls, t)'
  <2>1. CASE t \in Gone
    <3>1. PICK d \in Delayed : pid_list[d].sid = t
      BY <2>1 DEF Gone
    <3> QED BY <1>2, <3>1 DEF GivenUp
  <2>2. CASE t \notin Gone
    <3>1. t \notin Live /\ t # s
      BY <1>1, <2>2
    <3>2. ASSUME NEW i \in DOMAIN calls' PROVE ~ Asks(calls'[i], t)
      <4>1. calls'[i].op = "prg" => calls'[i].sid # t
        BY <1>2, <1>4, <2>2, <3>1
      <4> QED BY <4>1 DEF Asks
    <3> QED BY <1>1, <3>1, <3>2 DEF GivenUp
  <2> QED BY <2>1, <2>2
<1> QED BY <1>3, <1>5, <1>6, <1>7 DEF ServiceInv

\* A reset gives up every service, whatever was under way.
LEMMA ResetSidServes ==
  ASSUME OneAdapter, CamInv, ResetSid(This)
  PROVE  ServiceInv'
<1> DEFINE C == Called
           dels == [i \in DOMAIN pid_list |-> DelPid(This, i, 1 .. i)]
           ends == <<Call("stop", This, NoSid, {}), Call("I", This, NoSid, {})>>
<1>1. /\ calls' = dels \o ends /\ pid_list' = <<>> /\ valid' = [valid EXCEPT ![This] = FALSE]
      /\ viewed' = {v \in viewed : v[1] # This} /\ CamTypeOK
  BY DEF ResetSid, CamInv
<1>2. valid'[This] = FALSE /\ viewed' = {}
  BY <1>1 DEF OneAdapter, CamTypeOK
<1>3. Live' = {}
  BY <1>2 DEF Live
<1>4. ListInv'
  <2>1. DOMAIN pid_list' = {}
    BY <1>1
  <2> QED BY <1>1, <1>2, <2>1 DEF ListInv
<1>5. dels \in Seq(C) /\ ends \in Seq(C)
  <2>1. pid_list \in Seq(Entry)
    BY <1>1 DEF CamTypeOK, Entry
  <2>2. Len(pid_list) \in Nat /\ DOMAIN pid_list = 1 .. Len(pid_list)
    BY <2>1, LenProperties
  <2>3. dels \in [1 .. Len(pid_list) -> C]
    BY <1>1, <2>2, DelPidIs DEF OneAdapter
  <2>4. Call("stop", This, NoSid, {}) \in C /\ Call("I", This, NoSid, {}) \in C
    BY CallIs DEF OneAdapter
  <2> HIDE DEF C, dels
  <2> QED BY <2>2, <2>3, <2>4
<1>6. /\ \A i \in DOMAIN dels : dels[i].op = "prg"
      /\ DOMAIN ends = {1, 2} /\ ends[1].op = "stop" /\ ends[2].op = "I"
  BY DEF DelPid, Call
<1> HIDE DEF C, dels, ends
<1>7. /\ \A i \in DOMAIN (dels \o ends) :
           \/ i \in DOMAIN dels /\ i <= Len(dels) /\ (dels \o ends)[i] = dels[i]
           \/ /\ Len(dels) < i /\ i - Len(dels) \in DOMAIN ends
              /\ (dels \o ends)[i] = ends[i - Len(dels)]
      /\ \A i \in DOMAIN ends : /\ i + Len(dels) \in DOMAIN (dels \o ends)
                                /\ (dels \o ends)[i + Len(dels)] = ends[i]
      /\ Len(dels) \in Nat /\ DOMAIN (dels \o ends) \subseteq Nat
  BY <1>5, ConcatStands
<1>8. \A i \in DOMAIN calls' : calls'[i].op # "tune"
  BY <1>1, <1>6, <1>7
<1>9. ASSUME NEW i \in DOMAIN calls' PROVE Harmless(calls, i)'
  BY <1>3, <1>8, <1>9 DEF Harmless
<1>10. ASSUME NEW t \in Sids PROVE GivenUp(calls, t)'
  <2> DEFINE m == 1 + Len(dels)
  <2>1. m \in DOMAIN calls' /\ calls'[m].op = "stop"
    BY <1>1, <1>6, <1>7
  <2>2. ASSUME NEW j \in DOMAIN calls', m < j PROVE ~ Asks(calls'[j], t)
    <3>1. j \in Nat /\ Len(dels) \in Nat /\ ~ (j <= Len(dels))
      BY <1>1, <1>7, <2>2
    <3>2. j - Len(dels) \in {1, 2} /\ calls'[j] = ends[j - Len(dels)]
      BY <1>1, <1>6, <1>7, <3>1
    <3>3. j - Len(dels) # 1
      BY <2>2, <3>1
    <3> QED BY <1>6, <3>2, <3>3 DEF Asks
  <2>3. Ends(calls'[m], t)
    BY <2>1 DEF Ends
  <2> HIDE DEF m
  <2> QED BY <2>1, <2>2, <2>3 DEF GivenUp
<1> QED BY <1>3, <1>4, <1>9, <1>10 DEF ServiceInv

LEMMA SameServices ==
  ASSUME CamTypeOK, ServiceInv, ListInv', calls' = calls, Live' = Live,
         \A s \in Sids : Prg(s)' = Prg(s), Mapped' = Mapped
  PROVE  ServiceInv'
<1>1. Live \subseteq Sids
  BY DEF Live, CamTypeOK
<1>2. ASSUME NEW i \in DOMAIN calls PROVE Harmless(calls, i)'
  <2>1. Harmless(calls, i)
    BY DEF ServiceInv
  <2>2. ASSUME calls[i].op = "tune" PROVE Prg(calls[i].sid)' = {}
    <3>1. PICK s \in Sids : calls[i].sid = s
      BY <2>1, <2>2 DEF Harmless
    <3>2. Prg(calls[i].sid) = Prg(s) /\ Prg(calls[i].sid)' = Prg(s)'
      BY <3>1 DEF Prg
    <3> QED BY <2>1, <2>2, <3>2 DEF Harmless
  <2> QED BY <2>1, <2>2 DEF Harmless
<1>3. ASSUME NEW s \in Live PROVE Provided(calls, s)'
  BY <1>1 DEF ServiceInv, Provided
<1>4. ASSUME NEW s \in Sids \ Live PROVE GivenUp(calls, s)'
  BY DEF ServiceInv, GivenUp
<1> QED BY <1>2, <1>3, <1>4 DEF ServiceInv

\* Marks follow what is viewed.
LEMMA RemoveSidServes ==
  ASSUME CamTypeOK, ListInv, NEW s \in Sids, RemoveSid(This, s)
  PROVE  ListInv' /\ Live' = Live /\ calls' = calls
<1>1. /\ pid_list' = [i \in DOMAIN pid_list |->
                        IF pid_list[i].sid = s
                        THEN [pid_list[i] EXCEPT !.delayclose = TRUE] ELSE pid_list[i]]
      /\ viewed' = viewed \ {<<This, s>>} /\ UNCHANGED <<Channels, valid, calls>>
  BY DEF RemoveSid
<1>2. Live' = Live
  BY <1>1 DEF Live
<1>3. ASSUME NEW i \in DOMAIN pid_list'
      PROVE  /\ pid_list'[i].sid \in Live' /\ pid_list'[i].epid \in Epids(pid_list'[i].sid)
             /\ pid_list'[i].delayclose <=> <<This, pid_list'[i].sid>> \notin viewed'
  <2>1. i \in DOMAIN pid_list /\ pid_list[i] \in Entry
    BY <1>1, <1>3, EntryOf
  <2>2. pid_list[i].sid \in Live /\ pid_list[i].epid \in Epids(pid_list[i].sid)
        /\ (pid_list[i].delayclose <=> <<This, pid_list[i].sid>> \notin viewed)
    BY <2>1 DEF ListInv
  <2>3. CASE pid_list[i].sid = s
    <3>1. /\ pid_list'[i].sid = s /\ pid_list'[i].epid = pid_list[i].epid
          /\ pid_list'[i].delayclose = TRUE
      BY <1>1, <2>1, <2>3 DEF Entry
    <3> QED BY <1>1, <1>2, <2>2, <2>3, <3>1
  <2>4. CASE pid_list[i].sid # s
    <3>1. pid_list'[i] = pid_list[i]
      BY <1>1, <2>1, <2>4
    <3> QED BY <1>1, <1>2, <2>2, <2>4, <3>1
  <2> QED BY <2>3, <2>4
<1>4. ~ valid'[This] => pid_list' = <<>> /\ viewed' = {}
  BY <1>1 DEF ListInv
<1>5. \A v \in viewed' : v[2] \in Live'
  BY <1>1, <1>2 DEF ListInv
<1> QED BY <1>1, <1>2, <1>3, <1>4, <1>5 DEF ListInv

LEMMA GoodToGoServes ==
  ASSUME CamTypeOK, ListInv, NEW s \in Sids, GoodToGo(This, s), viewed' = viewed \cup {<<This, s>>}
  PROVE  ListInv' /\ Live' = Live /\ calls' = calls
<1>1. /\ pid_list' = [i \in DOMAIN pid_list |->
                        IF pid_list[i].sid = s
                        THEN [pid_list[i] EXCEPT !.delayclose = FALSE] ELSE pid_list[i]]
      /\ s \in Channels /\ valid[This] /\ UNCHANGED <<Channels, valid, calls>>
  BY DEF GoodToGo
<1>2. Live' = Live /\ s \in Live
  BY <1>1 DEF Live
<1>3. ASSUME NEW i \in DOMAIN pid_list'
      PROVE  /\ pid_list'[i].sid \in Live' /\ pid_list'[i].epid \in Epids(pid_list'[i].sid)
             /\ pid_list'[i].delayclose <=> <<This, pid_list'[i].sid>> \notin viewed'
  <2>1. i \in DOMAIN pid_list /\ pid_list[i] \in Entry
    BY <1>1, <1>3, EntryOf
  <2>2. pid_list[i].sid \in Live /\ pid_list[i].epid \in Epids(pid_list[i].sid)
        /\ (pid_list[i].delayclose <=> <<This, pid_list[i].sid>> \notin viewed)
    BY <2>1 DEF ListInv
  <2>3. CASE pid_list[i].sid = s
    <3>1. /\ pid_list'[i].sid = s /\ pid_list'[i].epid = pid_list[i].epid
          /\ pid_list'[i].delayclose = FALSE
      BY <1>1, <2>1, <2>3 DEF Entry
    <3> QED BY <1>1, <1>2, <2>2, <2>3, <3>1
  <2>4. CASE pid_list[i].sid # s
    <3>1. pid_list'[i] = pid_list[i]
      BY <1>1, <2>1, <2>4
    <3> QED BY <1>1, <1>2, <2>2, <2>4, <3>1
  <2> QED BY <2>3, <2>4
<1>4. ~ valid'[This] => pid_list' = <<>> /\ viewed' = {}
  BY <1>1
<1>5. \A v \in viewed' : v[2] \in Live'
  BY <1>1, <1>2 DEF ListInv
<1> QED BY <1>1, <1>2, <1>3, <1>4, <1>5 DEF ListInv

\* What a call does to the programs and the pids.
LEMMA CallDoes ==
  ASSUME OneAdapter, PidsInv, Perform
  PROVE  LET c == Head(calls)
         IN \/ /\ c.op = "prg"
               /\ \E s \in Sids :
                    /\ c.sid = s /\ Mapped' = Mapped \cup (c.pids \ Prg(s))
                    /\ \A t \in Sids : Prg(t)' = IF t = s THEN c.pids ELSE Prg(t)
            \/ /\ c.op = "C" /\ Mapped' = Mapped \ c.pids
               /\ \A t \in Sids : Prg(t)' = Prg(t)
            \/ /\ c.op = "tune" /\ Mapped' = Mapped
               /\ (\A t \in Sids : Prg(t)' = {}) \/ (\A t \in Sids : Prg(t)' = Prg(t))
            \/ /\ c.op = "stop" /\ Mapped' = Mapped
               /\ \A t \in Sids : Prg(t)' = {}
            \/ /\ c.op = "I" /\ Mapped' = {}
               /\ \A t \in Sids : Prg(t)' = Prg(t)
<1> DEFINE c == Head(calls)
<1>1. c \in Called
  BY CalledTyped DEF PidsInv, Perform
<1>2. c.adapter = This /\ This \in Adapters /\ (c.op = "prg" => c.sid \in Sids)
  BY <1>1 DEF Called, CallType, OneAdapter
<1>3. \/ c.op = "prg" /\ AddPrg(This, c.sid, c.pids)
      \/ c.op = "tune" /\ Tune(This)
      \/ c.op = "stop" /\ Stop(This)
      \/ c.op = "C" /\ ClosePid(This, c.pids)
      \/ c.op = "I" /\ Invalidate(This)
  BY <1>2 DEF Perform
<1>4. prg \in [Adapters -> [Sids -> SUBSET Pids]] /\ mapped \in [Adapters -> SUBSET Pids]
  BY DEF PidsInv, TypeOK
<1> HIDE DEF c
<1>5. ASSUME prg' = prg PROVE \A t \in Sids : Prg(t)' = Prg(t)
  BY <1>5 DEF Prg
<1>6. ASSUME Stop(This) PROVE Mapped' = Mapped /\ \A t \in Sids : Prg(t)' = {}
  BY <1>2, <1>4, <1>6 DEF Stop, Mapped, Prg
<1>7. CASE c.op = "prg" /\ AddPrg(This, c.sid, c.pids)
  <2>1. PICK s \in Sids : s = c.sid
    BY <1>2, <1>7
  <2>2. AddPrg(This, s, c.pids)
    BY <1>7, <2>1
  <2>3. /\ \A t \in Sids : Prg(t)' = IF t = s THEN c.pids ELSE Prg(t)
        /\ Mapped' = Mapped \cup (c.pids \ Prg(s))
    BY <1>2, <1>4, <2>2 DEF AddPrg, Prg, Mapped
  <2> QED BY <1>7, <2>1, <2>3 DEF c
<1>8. CASE c.op = "tune" /\ Tune(This)
  <2>1. CASE UNCHANGED <<prg, mapped>>
    <3>1. prg' = prg /\ Mapped' = Mapped
      BY <2>1 DEF Mapped
    <3> QED BY <1>5, <1>8, <3>1 DEF c
  <2> QED BY <1>6, <1>8, <2>1 DEF Tune, c
<1>9. CASE c.op = "stop" /\ Stop(This)
  BY <1>6, <1>9 DEF c
<1>10. CASE c.op = "C" /\ ClosePid(This, c.pids)
  <2>1. Mapped' = Mapped \ c.pids /\ prg' = prg
    BY <1>2, <1>4, <1>10 DEF ClosePid, Mapped
  <2> QED BY <1>5, <1>10, <2>1 DEF c
<1>11. CASE c.op = "I" /\ Invalidate(This)
  <2>1. Mapped' = {} /\ prg' = prg
    BY <1>2, <1>4, <1>11 DEF Invalidate, Mapped
  <2> QED BY <1>5, <1>11, <2>1 DEF c
<1> QED BY <1>3, <1>7, <1>8, <1>9, <1>10, <1>11

\* A call never interrupts a live service.
LEMMA CallLeavesLive ==
  ASSUME OneAdapter, PidsInv, ServiceInv, Perform, NEW t \in Live
  PROVE  /\ Prg(t) = Epids(t) => Prg(t)' = Epids(t)
         /\ Epids(t) \cap Mapped \subseteq Mapped'
         /\ Prg(t) = {} => \/ Prg(t)' = {}
                           \/ Prg(t)' = Epids(t) /\ Epids(t) \subseteq Mapped'
         /\ Prg(t) = {} /\ Head(calls).op = "prg" /\ Head(calls).sid = t =>
              Prg(t)' = Epids(t) /\ Epids(t) \subseteq Mapped'
<1> DEFINE c == Head(calls)
<1>1. t \in Sids
  BY DEF PidsInv, CamInv, CamTypeOK, Live
<1>2. /\ c.op = "prg" /\ c.sid = t => c.pids = Epids(t)
      /\ c.op = "C" => c.pids \cap Epids(t) = {}
      /\ c.op \notin {"stop", "I"}
      /\ c.op = "tune" => c.sid = t /\ Prg(t) = {}
  <2>1. CamInv /\ calls # <<>>
    BY DEF PidsInv, Perform
  <2>2. 1 \in DOMAIN calls /\ Head(calls) = calls[1]
    <3> DEFINE C == Called
    <3>1. calls \in Seq(C)
      BY <2>1 DEF CamInv
    <3> HIDE DEF C
    <3> QED BY <2>1, <3>1, TailStands
  <2>3. Harmless(calls, 1)
    BY <2>2 DEF ServiceInv
  <2>4. c.op = "tune" => c.sid = t /\ Prg(c.sid) = {}
    BY <2>2, <2>3 DEF Harmless
  <2>5. c.sid = t => Prg(c.sid) = Prg(t)
    BY DEF Prg
  <2> QED BY <2>2, <2>3, <2>4, <2>5 DEF Harmless
<1> HIDE DEF c
<1>3. CASE /\ c.op = "prg"
           /\ \E s \in Sids :
                /\ c.sid = s /\ Mapped' = Mapped \cup (c.pids \ Prg(s))
                /\ \A u \in Sids : Prg(u)' = IF u = s THEN c.pids ELSE Prg(u)
  <2>1. PICK s \in Sids :
                /\ c.sid = s /\ Mapped' = Mapped \cup (c.pids \ Prg(s))
                /\ \A u \in Sids : Prg(u)' = IF u = s THEN c.pids ELSE Prg(u)
    BY <1>3
  <2>2. CASE s = t
    BY <1>1, <1>2, <1>3, <2>1, <2>2 DEF c
  <2>3. CASE s # t
    BY <1>1, <1>2, <1>3, <2>1, <2>3 DEF c
  <2> QED BY <2>2, <2>3
<1>4. CASE /\ c.op = "C" /\ Mapped' = Mapped \ c.pids
           /\ \A u \in Sids : Prg(u)' = Prg(u)
  <2>1. c.op # "prg" /\ c.pids \cap Epids(t) = {} /\ Prg(t)' = Prg(t)
    BY <1>1, <1>2, <1>4
  <2> QED BY <1>4, <2>1 DEF c
<1>5. CASE /\ c.op = "tune" /\ Mapped' = Mapped
           /\ (\A u \in Sids : Prg(u)' = {}) \/ (\A u \in Sids : Prg(u)' = Prg(u))
  <2>1. c.op # "prg" /\ Prg(t) = {} /\ Prg(t)' = {}
    BY <1>1, <1>2, <1>5
  <2> QED BY <1>5, <2>1 DEF c
<1> QED BY <1>2, <1>3, <1>4, <1>5, CallDoes DEF c

\* The call that is made, and those that are left.
LEMMA TailIs ==
  ASSUME CamInv, calls # <<>>
  PROVE  LET q == Tail(calls)
         IN /\ Head(calls) = calls[1] /\ 1 \in DOMAIN calls
            /\ \A i \in DOMAIN q :
                 i + 1 \in DOMAIN calls /\ q[i] = calls[i + 1] /\ i \in Nat \ {0}
            /\ \A i \in DOMAIN calls :
                 i \in Nat /\ (i = 1 \/ (i - 1 \in DOMAIN q /\ q[i - 1] = calls[i]))
<1> DEFINE C == Called
           q == Tail(calls)
<1>1. calls \in Seq(C)
  BY DEF CamInv
<1> HIDE DEF C, q
<1>2. /\ q \in Seq(C) /\ Head(calls) = calls[1] /\ 1 \in DOMAIN calls
      /\ \A i \in DOMAIN q : i + 1 \in DOMAIN calls /\ q[i] = calls[i + 1]
      /\ \A i \in DOMAIN calls : i = 1 \/ (i - 1 \in DOMAIN q /\ i \in Nat)
  BY <1>1, TailStands DEF q
<1>3. \A i \in DOMAIN q : i \in Nat \ {0}
  BY <1>2, LenProperties
<1>4. ASSUME NEW i \in DOMAIN calls
      PROVE  i \in Nat /\ (i = 1 \/ (i - 1 \in DOMAIN q /\ q[i - 1] = calls[i]))
  <2>1. CASE i # 1
    <3>1. i \in Nat /\ i - 1 \in DOMAIN q /\ (i - 1) + 1 = i
      BY <1>2, <2>1
    <3> QED BY <1>2, <3>1
  <2> QED BY <2>1
<1> QED BY <1>2, <1>3, <1>4 DEF q

\* The calls that are left do what they are there for.
LEMMA PerformServes ==
  ASSUME OneAdapter, PidsInv, ServiceInv, Perform
  PROVE  ServiceInv'
<1> DEFINE c == Head(calls)
           C == Called
           q == Tail(calls)
<1>1. /\ calls # <<>> /\ calls' = q /\ CamInv /\ CamTypeOK
      /\ UNCHANGED <<pid_list, Channels, valid, viewed>>
  BY DEF PidsInv, CamInv, Perform
<1>2. Live' = Live /\ ListInv' /\ Live \subseteq Sids
  BY <1>1 DEF Live, ListInv, ServiceInv, CamTypeOK
<1>3. /\ c = calls[1] /\ 1 \in DOMAIN calls
      /\ \A i \in DOMAIN q : i + 1 \in DOMAIN calls /\ q[i] = calls[i + 1] /\ i \in Nat \ {0}
      /\ \A i \in DOMAIN calls : i \in Nat /\ (i = 1 \/ (i - 1 \in DOMAIN q /\ q[i - 1] = calls[i]))
  BY <1>1, TailIs
<1> HIDE DEF c, q, C
<1>4. \A i \in DOMAIN calls : Harmless(calls, i)
  BY DEF ServiceInv
<1>5. /\ c.op = "prg" => \A t \in Sids \ {c.sid} : Prg(t)' = Prg(t)
      /\ c.op = "prg" => \A t \in Sids : t = c.sid => Prg(t)' = c.pids
      /\ c.op # "prg" => \A t \in Sids : Prg(t)' = Prg(t) \/ Prg(t)' = {}
      /\ c.op = "stop" => \A t \in Sids : Prg(t)' = {}
  <2>1. \/ /\ c.op = "prg"
           /\ \E s \in Sids :
                /\ c.sid = s /\ Mapped' = Mapped \cup (c.pids \ Prg(s))
                /\ \A t \in Sids : Prg(t)' = IF t = s THEN c.pids ELSE Prg(t)
        \/ /\ c.op \notin {"prg", "stop"}
           /\ (\A t \in Sids : Prg(t)' = {}) \/ (\A t \in Sids : Prg(t)' = Prg(t))
        \/ c.op = "stop" /\ \A t \in Sids : Prg(t)' = {}
    BY CallDoes DEF c
  <2> QED BY <2>1
<1>6. ASSUME NEW i \in DOMAIN calls' PROVE Harmless(calls, i)'
  <2>1. /\ i + 1 \in DOMAIN calls /\ calls'[i] = calls[i + 1] /\ i \in Nat \ {0}
        /\ Harmless(calls, i + 1)
    BY <1>1, <1>3, <1>4
  <2>2. ASSUME calls'[i].op = "tune"
        PROVE  /\ Prg(calls[i].sid)' = {}
               /\ \A j \in DOMAIN calls' : j < i => ~ (calls'[j].op = "prg" /\ calls'[j].sid = calls'[i].sid)
    <3>1. /\ calls'[i].sid \in Sids /\ Prg(calls[i + 1].sid) = {}
          /\ \A j \in DOMAIN calls : j < i + 1 =>
               ~ (calls[j].op = "prg" /\ calls[j].sid = calls[i + 1].sid)
      BY <2>1, <2>2 DEF Harmless
    <3>2. PICK s \in Sids : calls'[i].sid = s
      BY <3>1
    <3>3. Prg(calls[i].sid)' = Prg(s)' /\ Prg(calls[i + 1].sid) = Prg(s)
      BY <2>1, <3>2 DEF Prg
    <3>4. ~ (c.op = "prg" /\ c.sid = s)
      <4>1. 1 < i + 1
        BY <2>1
      <4> QED BY <1>3, <2>1, <3>1, <3>2, <4>1
    <3>5. Prg(s)' = {}
      BY <1>5, <3>1, <3>3, <3>4
    <3>6. ASSUME NEW j \in DOMAIN calls', j < i
          PROVE  ~ (calls'[j].op = "prg" /\ calls'[j].sid = calls'[i].sid)
      <4>1. j + 1 \in DOMAIN calls /\ calls'[j] = calls[j + 1] /\ j \in Nat
        BY <1>1, <1>3
      <4>2. j + 1 < i + 1
        BY <2>1, <3>6, <4>1
      <4> QED BY <2>1, <3>1, <4>1, <4>2
    <3> QED BY <3>3, <3>5, <3>6
  <2> QED BY <1>2, <2>1, <2>2 DEF Harmless
<1>7. ASSUME NEW t \in Live PROVE Provided(calls, t)'
  <2>1. Provided(calls, t)
    BY DEF ServiceInv
  <2>2. CASE Prg(t) = Epids(t) /\ Epids(t) \subseteq Mapped
    <3>1. Prg(t)' = Epids(t) /\ Epids(t) \subseteq Mapped'
      BY <2>2, CallLeavesLive
    <3> QED BY <3>1 DEF Provided
  <2>3. CASE Prg(t) = {} /\ \E i \in DOMAIN calls : calls[i].op = "prg" /\ calls[i].sid = t
    <3>1. PICK i \in DOMAIN calls : calls[i].op = "prg" /\ calls[i].sid = t
      BY <2>3
    <3>2. CASE i = 1
      <4>1. Prg(t)' = Epids(t) /\ Epids(t) \subseteq Mapped'
        BY <1>3, <2>3, <3>1, <3>2, CallLeavesLive DEF c
      <4> QED BY <4>1 DEF Provided
    <3>3. CASE i # 1
      <4>1. \/ Prg(t)' = {}
            \/ Prg(t)' = Epids(t) /\ Epids(t) \subseteq Mapped'
        BY <2>3, CallLeavesLive
      <4>2. i - 1 \in DOMAIN calls' /\ calls'[i - 1] = calls[i]
        BY <1>1, <1>3, <3>3
      <4> QED BY <3>1, <4>1, <4>2 DEF Provided
    <3> QED BY <3>2, <3>3
  <2> QED BY <2>1, <2>2, <2>3 DEF Provided
<1>8. ASSUME NEW t \in Sids \ Live PROVE GivenUp(calls, t)'
  <2>1. GivenUp(calls, t)
    BY DEF ServiceInv
  <2>2. CASE Prg(t) = {} /\ \A i \in DOMAIN calls : ~ Asks(calls[i], t)
    <3>1. ~ Asks(c, t)
      BY <1>3, <2>2
    <3>2. Prg(t)' = {}
      BY <1>5, <2>2, <3>1 DEF Asks
    <3>3. \A i \in DOMAIN calls' : ~ Asks(calls'[i], t)
      BY <1>1, <1>3, <2>2
    <3> QED BY <3>2, <3>3 DEF GivenUp
  <2>3. CASE \E i \in DOMAIN calls : /\ Ends(calls[i], t)
                                     /\ \A j \in DOMAIN calls : i < j => ~ Asks(calls[j], t)
    <3>1. PICK i \in DOMAIN calls : /\ Ends(calls[i], t)
                                    /\ \A j \in DOMAIN calls : i < j => ~ Asks(calls[j], t)
      BY <2>3
    <3>2. ASSUME NEW j \in DOMAIN calls', i < j + 1 PROVE ~ Asks(calls'[j], t)
      <4>1. j + 1 \in DOMAIN calls /\ calls'[j] = calls[j + 1]
        BY <1>1, <1>3
      <4> QED BY <3>1, <3>2, <4>1
    <3>3. CASE i = 1
      <4>1. Ends(c, t)
        BY <1>3, <3>1, <3>3
      <4>2. Prg(t)' = {}
        BY <1>5, <4>1 DEF Ends
      <4>3. \A j \in DOMAIN calls' : 1 < j + 1
        BY <1>1, <1>3
      <4> QED BY <3>2, <3>3, <4>2, <4>3 DEF GivenUp
    <3>4. CASE i # 1
      <4>1. i - 1 \in DOMAIN calls' /\ calls'[i - 1] = calls[i] /\ i \in Nat
        BY <1>1, <1>3, <3>4
      <4>2. ASSUME NEW j \in DOMAIN calls', i - 1 < j PROVE ~ Asks(calls'[j], t)
        <5>1. j \in Nat
          BY <1>1, <1>3
        <5>2. i < j + 1
          BY <4>1, <4>2, <5>1
        <5> QED BY <3>2, <5>2
      <4> QED BY <3>1, <4>1, <4>2 DEF GivenUp
    <3> QED BY <3>3, <3>4
  <2> QED BY <2>1, <2>2, <2>3 DEF GivenUp
<1> QED BY <1>2, <1>6, <1>7, <1>8 DEF ServiceInv

LEMMA ServiceInitially == ASSUME OneAdapter PROVE Init => ServiceInv
<1> SUFFICES ASSUME Init PROVE ServiceInv
  OBVIOUS
<1>1. /\ pid_list = <<>> /\ Channels = {} /\ calls = <<>> /\ viewed = {}
      /\ valid = [a \in Adapters |-> FALSE]
  BY DEF Init, CamInit
<1>2. DOMAIN pid_list = {} /\ DOMAIN calls = {} /\ Live = {}
  BY <1>1 DEF Live, OneAdapter
<1>3. \A s \in Sids : Prg(s) = {}
  BY DEF Prg, OneAdapter, Init
<1> QED BY <1>1, <1>2, <1>3 DEF ServiceInv, ListInv, GivenUp

\* Steps other than the calls leave the programs and the pids as they are.
LEMMA OthersLeave ==
  ASSUME [Next]_vars, ~ Perform
  PROVE  (\A s \in Sids : Prg(s)' = Prg(s)) /\ Mapped' = Mapped
BY DEF Next, Message, vars, Prg, Mapped

\* A message serves the services it is about, if they share no stream with those that
\* are live.
LEMMA MessageServes ==
  ASSUME OneAdapter, CamInv, ServiceInv, NEW s \in Sids, RemoveSid(This, s) \/ AddSid(This, s),
         Apart(Live \cup Live'),
         \A t \in Sids : Prg(t)' = Prg(t), Mapped' = Mapped
  PROVE  ServiceInv'
<1>1. CamTypeOK /\ ListInv
  BY DEF CamInv, ServiceInv
<1>2. CASE RemoveSid(This, s)
  <2>1. ListInv' /\ Live' = Live /\ calls' = calls
    BY <1>1, <1>2, RemoveSidServes
  <2> QED BY <1>1, <2>1, SameServices
<1>3. CASE AddSid(This, s) /\ s \in FreeToAir
  <2>1. ListInv' /\ Live' = Live /\ calls' = calls
    BY <1>1, <1>3 DEF AddSid, camVars, ListInv, Live
  <2> QED BY <1>1, <2>1, SameServices
<1>4. CASE AddSid(This, s) /\ s \notin FreeToAir
  <2>1. /\ calls = <<>> /\ viewed' = viewed \cup {<<This, s>>}
        /\ GoodToGo(This, s) \/ AddNew(This, s)
    BY <1>4 DEF AddSid
  <2>2. CASE GoodToGo(This, s)
    <3>1. ListInv' /\ Live' = Live /\ calls' = calls
      BY <1>1, <2>1, <2>2, GoodToGoServes
    <3> QED BY <1>1, <3>1, SameServices
  <2>3. CASE AddNew(This, s)
    <3>1. s \in Live'
      BY <1>1, <2>3, AddNewLive
    <3>2. Apart(Live \cup {s})
      BY <3>1 DEF Apart
    <3> QED BY <1>1, <2>1, <2>3, <3>2, AddNewServes
  <2> QED BY <2>1, <2>2, <2>3
<1> QED BY <1>2, <1>3, <1>4

LEMMA ServiceKept ==
  ASSUME OneAdapter, Apart(Live \cup Live'), PidsInv, ServiceInv, [Next]_vars
  PROVE  ServiceInv'
<1>1. CamInv /\ CamTypeOK /\ ListInv
  BY DEF PidsInv, CamInv, ServiceInv
<1>2. CASE Perform
  BY <1>2, PerformServes
<1>3. CASE ~ Perform
  <2>1. (\A s \in Sids : Prg(s)' = Prg(s)) /\ Mapped' = Mapped
    BY <1>3, OthersLeave
  <2>2. CASE UNCHANGED vars
    <3>1. /\ ListInv' /\ calls' = calls /\ Live' = Live
      BY <1>1, <2>2 DEF vars, camVars, ListInv, Live
    <3> QED BY <1>1, <2>1, <3>1, SameServices
  <2>3. CASE Message
    <3>1. Adapters = {This}
      BY DEF OneAdapter
    <3>2. ResetSid(This) \/ \E s \in Sids : RemoveSid(This, s) \/ AddSid(This, s)
      BY <2>3, <3>1 DEF Message
    <3> QED BY <1>1, <2>1, <3>2, ResetSidServes, MessageServes
  <2> QED BY <1>3, <2>2, <2>3 DEF Next
<1> QED BY <1>2, <1>3

LEMMA ViewedIsLive ==
  ASSUME OneAdapter, CamTypeOK, ListInv, NEW v \in viewed
  PROVE  v[1] = This /\ v[2] \in Live /\ v[2] \in Sids /\ This \in Adapters
BY DEF OneAdapter, CamTypeOK, ListInv

LEMMA ServedInvImplies ==
  ASSUME OneAdapter, PidsInv, ServiceInv
  PROVE  KeepsViewed
<1>1. CamTypeOK /\ ListInv
  BY DEF PidsInv, CamInv, ServiceInv
<1>2. ASSUME calls = <<>>, NEW v \in viewed
      PROVE  prg[v[1]][v[2]] = Epids(v[2]) /\ Epids(v[2]) \subseteq mapped[v[1]]
  <2>1. v[1] = This /\ v[2] \in Live
    BY <1>1, ViewedIsLive
  <2>2. Prg(v[2]) = Epids(v[2]) /\ Epids(v[2]) \subseteq Mapped
    BY <1>1, <1>2, <2>1, Settled
  <2> QED BY <2>1, <2>2 DEF Prg, Mapped
<1> QED BY <1>2 DEF KeepsViewed

LEMMA ViewedUndisturbed ==
  ASSUME OneAdapter, PidsInv, ServiceInv, [Next]_vars, NEW v \in viewed
  PROVE  /\ prg[v[1]][v[2]] = Epids(v[2]) => prg'[v[1]][v[2]] = Epids(v[2])
         /\ Epids(v[2]) \cap mapped[v[1]] \subseteq mapped'[v[1]]
<1>1. v[1] = This /\ v[2] \in Live /\ v[2] \in Sids /\ This \in Adapters
  BY ViewedIsLive DEF PidsInv, CamInv, ServiceInv
<1>2. PICK t \in Sids : t = v[2] /\ t \in Live
  BY <1>1
<1>3. /\ Prg(t) = Epids(t) => Prg(t)' = Epids(t)
      /\ Epids(t) \cap Mapped \subseteq Mapped'
  <2>1. CASE Perform
    BY <1>2, <2>1, CallLeavesLive
  <2>2. CASE ~ Perform
    <3>1. Prg(t)' = Prg(t) /\ Mapped' = Mapped
      BY <2>2, OthersLeave
    <3> QED BY <3>1
  <2> QED BY <2>1, <2>2
<1> QED BY <1>1, <1>2, <1>3 DEF Prg, Mapped

-----------------------------------------------------------------------------
(* What is not viewed any more is given up with the next message.          *)

\* No entry that is viewed is lost from the list.
LEMMA KeptEntriesAll ==
  ASSUME CamTypeOK, NEW m \in DOMAIN pid_list \ Delayed
  PROVE  \E k \in DOMAIN KeptEntries : KeptEntries[k] = pid_list[m]
<1> DEFINE kept == DOMAIN pid_list \ Delayed
           n == Cardinality(kept)
<1>1. kept \in SUBSET Int /\ IsFiniteSet(kept)
  BY DelayedIs
<1>2. KeptEntries = [j \in 1 .. n |-> pid_list[Nth(kept, j)]]
  BY DEF KeptEntries
<1>3. m \in kept
  OBVIOUS
<1> HIDE DEF kept
<1>4. PICK k \in 1 .. n : Nth(kept, k) = m
  BY <1>1, <1>3, NthHits
<1> QED BY <1>2, <1>4

LEMMA NewEntriesAll ==
  ASSUME NEW s \in Sids, NEW p \in Epids(s)
  PROVE  \E k \in DOMAIN NewEntries(s) : NewEntries(s)[k].sid = s /\ NewEntries(s)[k].epid = p
<1> DEFINE P == Epids(s)
           n == Len(EpidList[s])
           f == [i \in DOMAIN EpidList[s] |->
                   [epid |-> EpidList[s][i], sid |-> s, delayclose |-> FALSE]]
<1>1. EpidList[s] \in Seq(P)
  BY ProcessCamAssumption
<1>2. PICK i \in DOMAIN EpidList[s] : EpidList[s][i] = p
  BY DEF Epids
<1> HIDE DEF P
<1>3. n \in Nat /\ DOMAIN EpidList[s] = 1 .. n
  BY <1>1, LenProperties
<1>4. NewEntries(s) = Reverse(f)
  BY DEF NewEntries
<1>5. f[i].sid = s /\ f[i].epid = p /\ i \in 1 .. n
  BY <1>2, <1>3
<1>6. f \in [1 .. n -> {f[j] : j \in 1 .. n}]
  BY <1>3
<1> HIDE DEF n, f
<1>7. f \in Seq({f[j] : j \in 1 .. n}) /\ Len(f) = n
  BY <1>3, <1>6
<1>8. NewEntries(s) = [j \in 1 .. n |-> f[(n - j) + 1]]
  BY <1>4, <1>7 DEF Reverse
<1>9. (n - i) + 1 \in 1 .. n /\ (n - ((n - i) + 1)) + 1 = i
  BY <1>3, <1>5
<1> QED BY <1>5, <1>8, <1>9

\* The streams of a service that are left when k delayed entries are gone.
Left(k, t) == {pid_list[j].epid : j \in {m \in DOMAIN pid_list \ {DelayedSeq[x] : x \in 1 .. k} :
                                           pid_list[m].sid = t}}

LEMMA LeftShrinks ==
  ASSUME NEW k \in Nat, NEW l \in Nat, k <= l, NEW t
  PROVE  Left(l, t) \subseteq Left(k, t)
<1>1. 1 .. k \subseteq 1 .. l
  OBVIOUS
<1>2. {DelayedSeq[x] : x \in 1 .. k} \subseteq {DelayedSeq[x] : x \in 1 .. l}
  BY <1>1
<1> QED BY <1>2 DEF Left

\* Of a service that is given up, fewer and fewer streams are left, and each of
\* them is closed.
LEMMA ClosingShrinks ==
  ASSUME CamTypeOK, ListInv
  PROVE  LET q == CloseDelayed(This)
         IN /\ \A i \in DOMAIN q : q[i].op = "prg" =>
                 /\ q[i].pids \subseteq Epids(q[i].sid)
                 /\ \A j \in DOMAIN q : i < j /\ q[j].op = "prg" /\ q[j].sid = q[i].sid =>
                      q[j].pids \subseteq q[i].pids
            /\ \A d \in Delayed : \E i \in DOMAIN q : Forgets(q[i], pid_list[d].epid)
<1> DEFINE n == Len(DelayedSeq)
           q == CloseDelayed(This)
<1>1. n \in Nat /\ \A k \in 1 .. n : DelayedSeq[k] \in DOMAIN pid_list
  BY DelayedSeqIs
<1>2. ASSUME NEW i \in DOMAIN q, q[i].op = "prg"
      PROVE  i \in Nat /\ (i + 1) \div 2 \in 1 .. n /\ q[i].pids = Left((i + 1) \div 2, q[i].sid)
  <2> DEFINE k == (i + 1) \div 2
  <2>1. i \in 1 .. 2 * n
    BY DEF CloseDelayed
  <2>2. k \in 1 .. n /\ i \in Nat
    <3> HIDE DEF n
    <3> QED BY <1>1, <2>1
  <2>3. q[i] = IF i % 2 = 1
               THEN Call("C", This, pid_list[DelayedSeq[k]].sid, {pid_list[DelayedSeq[k]].epid})
               ELSE DelPid(This, DelayedSeq[k], {DelayedSeq[x] : x \in 1 .. k})
    BY <2>1 DEF CloseDelayed
  <2> HIDE DEF k, q, n
  <2>4. q[i] = DelPid(This, DelayedSeq[k], {DelayedSeq[x] : x \in 1 .. k})
    BY <1>2, <2>3 DEF Call
  <2>5. q[i].pids = Left(k, q[i].sid)
    BY <2>4 DEF DelPid, Call, Left
  <2> QED BY <2>2, <2>5 DEF k
<1>3. ASSUME NEW t, NEW k PROVE Left(k, t) \subseteq Epids(t)
  BY DEF Left, ListInv
<1>4. ASSUME NEW i \in DOMAIN q, NEW j \in DOMAIN q, q[i].op = "prg", q[j].op = "prg",
             i < j, q[j].sid = q[i].sid
      PROVE  q[j].pids \subseteq q[i].pids
  <2> DEFINE k == (i + 1) \div 2
             l == (j + 1) \div 2
  <2> HIDE DEF q, n
  <2>1. /\ i \in Nat /\ k \in 1 .. n /\ q[i].pids = Left(k, q[i].sid)
        /\ j \in Nat /\ l \in 1 .. n /\ q[j].pids = Left(l, q[i].sid)
    BY <1>2, <1>4
  <2>2. k <= l
    BY <1>4, <2>1
  <2> HIDE DEF k, l
  <2>3. Left(l, q[i].sid) \subseteq Left(k, q[i].sid)
    BY <1>1, <2>1, <2>2, LeftShrinks
  <2> QED BY <2>1, <2>3
<1>5. ASSUME NEW d \in Delayed PROVE \E i \in DOMAIN q : Forgets(q[i], pid_list[d].epid)
  <2>1. PICK k \in 1 .. n : DelayedSeq[k] = d
    BY DelayedFound
  <2> DEFINE m == 2 * k - 1
  <2>2. m \in 1 .. 2 * n /\ m % 2 = 1 /\ (m + 1) \div 2 = k
    <3> HIDE DEF n
    <3> QED BY <1>1
  <2> HIDE DEF m
  <2>3. m \in DOMAIN q /\ q[m] = Call("C", This, pid_list[d].sid, {pid_list[d].epid})
    BY <2>1, <2>2 DEF CloseDelayed
  <2>4. Forgets(q[m], pid_list[d].epid)
    BY <2>3 DEF Forgets, Call
  <2> QED BY <2>3, <2>4
<1>6. ASSUME NEW i \in DOMAIN q, q[i].op = "prg" PROVE q[i].pids \subseteq Epids(q[i].sid)
  BY <1>2, <1>3, <1>6
<1> QED BY <1>4, <1>5, <1>6

\* Every stream of the services that stay, and of the new one, is in the list.
LEMMA AddNewListed ==
  ASSUME OneAdapter, CamInv, ListInv, NEW s \in Sids, AddNew(This, s), NEW t \in Live', NEW p \in Epids(t),
         t \in Live => \E i \in DOMAIN pid_list : pid_list[i].sid = t /\ pid_list[i].epid = p
  PROVE  \E i \in DOMAIN pid_list' : pid_list'[i].sid = t /\ pid_list'[i].epid = p
<1> DEFINE E == Entry
           ns == NewEntries(s)
           kept == IF s \notin Channels THEN KeptEntries ELSE pid_list
<1>1. /\ CamTypeOK /\ pid_list' = ns \o kept
      /\ s \notin Live /\ Gone \subseteq Live /\ Live' = (Live \ Gone) \cup {s}
      /\ valid'[This] = TRUE /\ (s \notin Channels \/ ~ valid[This])
  BY AddNewLive DEF CamInv, AddNew
<1>2. ns \in Seq(E) /\ kept \in Seq(E)
  <2>1. pid_list \in Seq(E)
    BY <1>1 DEF CamTypeOK, Entry
  <2> QED BY <1>1, <2>1, NewEntriesIs, KeptEntriesIs
<1>3. CASE t = s
  <2>1. PICK k \in DOMAIN ns : ns[k].sid = s /\ ns[k].epid = p
    BY <1>3, NewEntriesAll
  <2> HIDE DEF ns, kept, E
  <2>2. k \in DOMAIN (ns \o kept) /\ (ns \o kept)[k] = ns[k]
    BY <1>2, ConcatStands
  <2> QED BY <1>1, <1>3, <2>1, <2>2
<1>4. CASE t # s
  <2>1. t \in Live /\ t \notin Gone
    BY <1>1, <1>4
  <2>2. PICK i \in DOMAIN pid_list : pid_list[i].sid = t /\ pid_list[i].epid = p
    BY <2>1
  <2>3. i \notin Delayed
    BY <2>1, <2>2 DEF Gone
  <2>4. PICK k \in DOMAIN kept : kept[k] = pid_list[i]
    BY <1>1, <2>3, KeptEntriesAll
  <2> HIDE DEF ns, kept, E
  <2>5. k + Len(ns) \in DOMAIN (ns \o kept) /\ (ns \o kept)[k + Len(ns)] = kept[k]
    BY <1>2, ConcatStands
  <2> QED BY <1>1, <2>2, <2>4, <2>5
<1> QED BY <1>3, <1>4

LEMMA AddNewLeaves ==
  ASSUME OneAdapter, CamInv, ServiceInv, LeftInv, calls = <<>>, NEW s \in Sids, AddNew(This, s),
         viewed' = viewed \cup {<<This, s>>},
         \A t \in Sids : Prg(t)' = Prg(t), Mapped' = Mapped
  PROVE  LeftInv'
<1> DEFINE q == calls'
           r == CloseDelayed(This)
<1>1. /\ CamTypeOK /\ s \notin Live /\ Gone \subseteq Live /\ Live \subseteq Sids
      /\ Live' = (Live \ Gone) \cup {s} /\ ListInv
      /\ \A t \in Live : Prg(t) = Epids(t)
  BY AddNewLive, Settled DEF CamInv
<1>2. /\ \A i \in DOMAIN r : i \in DOMAIN q /\ q[i] = r[i]
      /\ \A i \in DOMAIN q :
           \/ i \in DOMAIN r /\ q[i] = r[i]
           \/ /\ q[i].op = "tune" /\ q[i].sid = s /\ Live' = {s}
              /\ \A j \in DOMAIN r : j < i
              /\ \A j \in DOMAIN q : j < i => j \in DOMAIN r /\ q[j] = r[j]
           \/ q[i].op = "prg" /\ q[i].sid = s /\ q[i].pids = Epids(s)
  BY <1>1, AddNewStands
<1>3. /\ \A i \in DOMAIN r : r[i].op \notin {"stop", "tune"} /\ r[i].sid \in Gone /\ i \in Nat
      /\ \A i \in DOMAIN q : i \in Nat
  <2>1. \A i \in DOMAIN r : r[i].op \notin {"stop", "tune"} /\ r[i].sid \in Gone
    BY <1>1, ClosingIs, DelayedSeqIs DEF Gone
  <2>2. \A i \in DOMAIN r : i \in Nat
    BY DelayedSeqIs, <1>1 DEF CloseDelayed
  <2>3. \A i \in DOMAIN q : i \in Nat
    <3> DEFINE C == Called
    <3>1. q \in Seq(C)
      <4>1. CamInv'
        BY AddNewTyped DEF OneAdapter
      <4> QED BY <4>1 DEF CamInv, Called, CallType
    <3> HIDE DEF C, q
    <3> QED BY <3>1, LenProperties
  <2> QED BY <2>1, <2>2, <2>3
<1>4. /\ \A i \in DOMAIN r : r[i].op = "prg" =>
           /\ r[i].pids \subseteq Epids(r[i].sid)
           /\ \A j \in DOMAIN r : i < j /\ r[j].op = "prg" /\ r[j].sid = r[i].sid =>
                r[j].pids \subseteq r[i].pids
      /\ \A d \in Delayed : \E i \in DOMAIN r : Forgets(r[i], pid_list[d].epid)
  BY <1>1, ClosingShrinks
<1>5. ASSUME NEW t \in Live' PROVE <<This, t>> \in viewed' \/ Epids(t) = {}
  <2>1. CASE t \in Live /\ t \notin Gone /\ Epids(t) # {}
    <3>1. PICK p \in Epids(t) : TRUE
      BY <2>1
    <3>2. PICK i \in DOMAIN pid_list : pid_list[i].sid = t
      BY <2>1, <3>1 DEF LeftInv
    <3>3. i \notin Delayed
      <4>1. t \notin Gone /\ pid_list[i].sid = t
        BY <2>1, <3>2
      <4> QED BY <4>1 DEF Gone
    <3>4. <<This, t>> \in viewed
      BY <1>1, <3>2, <3>3 DEF ListInv, Delayed
    <3> QED BY <3>4
  <2> QED BY <1>1, <2>1
<1>6. ASSUME NEW i \in DOMAIN q PROVE Shrinks(calls, i)'
  <2>1. CASE i \in DOMAIN r /\ q[i] = r[i]
    <3>1. q[i].op \notin {"stop", "tune"} /\ q[i].sid \in Gone
      BY <1>3, <2>1
    <3>2. ASSUME q[i].op = "prg"
          PROVE  /\ calls'[i].pids \subseteq Prg(calls[i].sid)'
                 /\ \A j \in DOMAIN q : i < j /\ q[j].op = "prg" /\ q[j].sid \notin Live'
                      /\ q[j].sid = q[i].sid => q[j].pids \subseteq q[i].pids
      <4>1. PICK t \in Sids : q[i].sid = t /\ t \in Live /\ t \in Gone /\ t # s
        BY <1>1, <3>1
      <4>2. Prg(calls[i].sid)' = Prg(t)'
        BY <4>1 DEF Prg
      <4>3. Prg(t)' = Epids(t)
        BY <1>1, <4>1
      <4>4. q[i].pids \subseteq Epids(t)
        BY <1>4, <2>1, <3>2, <4>1
      <4>5. ASSUME NEW j \in DOMAIN q, i < j, q[j].op = "prg", q[j].sid = q[i].sid
            PROVE  q[j].pids \subseteq q[i].pids
        <5>1. j \in DOMAIN r /\ q[j] = r[j]
          BY <1>2, <4>1, <4>5
        <5> QED BY <1>4, <2>1, <3>2, <4>5, <5>1
      <4> QED BY <4>2, <4>3, <4>4, <4>5
    <3> QED BY <3>1, <3>2 DEF Shrinks
  <2>2. CASE /\ q[i].op = "tune" /\ q[i].sid = s /\ Live' = {s}
             /\ \A j \in DOMAIN r : j < i
    <3>1. ASSUME NEW j \in DOMAIN q, i < j, q[j].op = "prg" PROVE q[j].sid \in Live'
      <4>1. ~ (j < i)
        BY <1>3, <3>1
      <4>2. j \notin DOMAIN r
        BY <2>2, <4>1
      <4> QED BY <1>2, <2>2, <3>1, <4>2
    <3> QED BY <2>2, <3>1 DEF Shrinks
  <2>3. CASE q[i].op = "prg" /\ q[i].sid = s
    BY <1>1, <2>3 DEF Shrinks
  <2> QED BY <1>2, <2>1, <2>2, <2>3
<1>7. ASSUME NEW p \in Mapped
      PROVE  (\E t \in Live' : p \in Epids(t)) \/ \E i \in DOMAIN q : Forgets(q[i], p)
  <2>1. PICK t \in Live : p \in Epids(t)
    <3>1. DOMAIN calls = {}
      OBVIOUS
    <3> QED BY <3>1 DEF LeftInv
  <2>2. CASE t \in Gone
    <3>1. PICK i \in DOMAIN pid_list : pid_list[i].sid = t /\ pid_list[i].epid = p
      BY <2>1 DEF LeftInv
    <3>2. i \in Delayed
      <4>1. PICK d \in Delayed : pid_list[d].sid = t
        BY <2>2 DEF Gone
      <4> QED BY <1>1, <3>1, <4>1 DEF ListInv, Delayed
    <3>3. PICK m \in DOMAIN r : Forgets(r[m], p)
      BY <1>4, <3>1, <3>2
    <3> QED BY <1>2, <3>3
  <2>3. CASE t \notin Gone
    BY <1>1, <2>1, <2>3
  <2> QED BY <2>2, <2>3
<1>8. ASSUME NEW t \in Live', NEW p \in Epids(t)
      PROVE  \E i \in DOMAIN pid_list' : pid_list'[i].sid = t /\ pid_list'[i].epid = p
  <2>1. t \in Live => \E i \in DOMAIN pid_list : pid_list[i].sid = t /\ pid_list[i].epid = p
    BY DEF LeftInv
  <2> QED BY <1>1, <2>1, AddNewListed
<1> QED BY <1>5, <1>6, <1>7, <1>8 DEF LeftInv

LEMMA ResetSidLeaves ==
  ASSUME OneAdapter, CamInv, ServiceInv, calls = <<>>, ResetSid(This),
         \A t \in Sids : Prg(t)' = Prg(t), Mapped' = Mapped
  PROVE  LeftInv'
<1> DEFINE C == Called
           dels == [i \in DOMAIN pid_list |-> DelPid(This, i, 1 .. i)]
           ends == <<Call("stop", This, NoSid, {}), Call("I", This, NoSid, {})>>
           rest(i, t) == {pid_list[j].epid : j \in {k \in DOMAIN pid_list \ (1 .. i) :
                                                      pid_list[k].sid = t}}
           q == calls'
<1>1. /\ q = dels \o ends /\ valid' = [valid EXCEPT ![This] = FALSE] /\ CamTypeOK /\ ListInv
      /\ \A t \in Live : Prg(t) = Epids(t)
  BY Settled DEF ResetSid, CamInv
<1>2. Live' = {}
  BY <1>1 DEF OneAdapter, CamTypeOK, Live
<1>3. /\ dels \in Seq(C) /\ ends \in Seq(C) /\ DOMAIN dels = DOMAIN pid_list
      /\ \A i \in DOMAIN pid_list : i \in Nat
  <2>1. pid_list \in Seq(Entry)
    BY <1>1 DEF CamTypeOK, Entry
  <2>2. Len(pid_list) \in Nat /\ DOMAIN pid_list = 1 .. Len(pid_list)
    BY <2>1, LenProperties
  <2>3. dels \in [1 .. Len(pid_list) -> C] /\ DOMAIN dels = DOMAIN pid_list
    BY <1>1, <2>2, DelPidIs DEF OneAdapter
  <2>4. Call("stop", This, NoSid, {}) \in C /\ Call("I", This, NoSid, {}) \in C
    BY CallIs DEF OneAdapter
  <2> HIDE DEF C, dels
  <2> QED BY <2>2, <2>3, <2>4
<1>4. /\ \A i \in DOMAIN dels : /\ dels[i].op = "prg" /\ dels[i].sid = pid_list[i].sid
                                /\ dels[i].pids = rest(i, dels[i].sid)
      /\ DOMAIN ends = {1, 2} /\ ends[1].op = "stop" /\ ends[2].op = "I"
  BY DEF DelPid, Call
<1>5. ASSUME NEW i \in Nat, NEW j \in Nat, i < j, NEW t PROVE rest(j, t) \subseteq rest(i, t)
  <2>1. 1 .. i \subseteq 1 .. j
    BY <1>5
  <2> QED BY <2>1
<1>6. ASSUME NEW i, NEW t PROVE rest(i, t) \subseteq Epids(t)
  BY <1>1 DEF ListInv
<1> HIDE DEF C, dels, ends, rest
<1>7. /\ \A i \in DOMAIN (dels \o ends) :
           \/ i \in DOMAIN dels /\ i <= Len(dels) /\ (dels \o ends)[i] = dels[i]
           \/ /\ Len(dels) < i /\ i - Len(dels) \in DOMAIN ends
              /\ (dels \o ends)[i] = ends[i - Len(dels)]
      /\ \A i \in DOMAIN ends : /\ i + Len(dels) \in DOMAIN (dels \o ends)
                                /\ (dels \o ends)[i + Len(dels)] = ends[i]
      /\ Len(dels) \in Nat /\ DOMAIN (dels \o ends) \subseteq Nat
  BY <1>3, ConcatStands
<1>8. ASSUME NEW i \in DOMAIN q
      PROVE  /\ i \in Nat
             /\ \/ i \in DOMAIN dels /\ i <= Len(dels) /\ q[i] = dels[i]
                \/ Len(dels) < i /\ q[i].op \in {"stop", "I"}
  <2>1. CASE /\ Len(dels) < i /\ i - Len(dels) \in DOMAIN ends
             /\ q[i] = ends[i - Len(dels)]
    <3>1. i - Len(dels) \in {1, 2}
      BY <1>4, <2>1
    <3> QED BY <1>1, <1>4, <1>7, <2>1, <3>1
  <2> QED BY <1>1, <1>7, <2>1
<1>9. ASSUME NEW i \in DOMAIN q PROVE Shrinks(calls, i)'
  <2>1. CASE i \in DOMAIN dels /\ q[i] = dels[i]
    <3>1. PICK t \in Sids : q[i].sid = t /\ t \in Live
      <4>1. i \in DOMAIN pid_list /\ q[i].sid = pid_list[i].sid
        BY <1>3, <1>4, <2>1
      <4>2. pid_list[i].sid \in Live /\ pid_list[i].sid \in Sids
        BY <1>1, <4>1, EntryOf DEF ListInv
      <4> QED BY <4>1, <4>2
    <3>2. q[i].op = "prg" /\ q[i].pids = rest(i, t) /\ i \in Nat
      BY <1>4, <1>8, <2>1, <3>1
    <3>3. Prg(calls[i].sid)' = Epids(t)
      <4>1. Prg(calls[i].sid)' = Prg(t)'
        BY <3>1 DEF Prg
      <4> QED BY <1>1, <3>1, <4>1
    <3>4. ASSUME NEW j \in DOMAIN q, i < j, q[j].op = "prg", q[j].sid = q[i].sid
          PROVE  q[j].pids \subseteq q[i].pids
      <4>1. j \in DOMAIN dels /\ q[j] = dels[j] /\ j \in Nat
        BY <1>8, <3>4
      <4>2. q[j].pids = rest(j, t)
        BY <1>4, <3>1, <3>4, <4>1
      <4> QED BY <1>5, <3>2, <3>4, <4>1, <4>2
    <3>5. q[i].pids \subseteq Epids(t)
      BY <1>6, <3>2
    <3> QED BY <3>2, <3>3, <3>4, <3>5 DEF Shrinks
  <2>2. CASE Len(dels) < i /\ q[i].op \in {"stop", "I"}
    <3>1. ASSUME NEW j \in DOMAIN q, i < j PROVE q[j].op # "prg"
      <4>1. ~ (j <= Len(dels))
        BY <1>7, <1>8, <2>2, <3>1
      <4>2. q[j].op \in {"stop", "I"}
        BY <1>8, <4>1
      <4> QED BY <4>2
    <3> QED BY <2>2, <3>1 DEF Shrinks
  <2> QED BY <1>8, <2>1, <2>2
<1>10. \E i \in DOMAIN q : \A p : Forgets(q[i], p)
  <2>1. 2 + Len(dels) \in DOMAIN q /\ q[2 + Len(dels)].op = "I"
    BY <1>1, <1>4, <1>7
  <2> QED BY <2>1 DEF Forgets
<1> QED BY <1>2, <1>9, <1>10 DEF LeftInv

LEMMA CallOf ==
  ASSUME CamInv, NEW i \in DOMAIN calls
  PROVE  i \in Nat /\ (calls[i].op = "prg" => calls[i].sid \in Sids)
<1> DEFINE C == Called
<1>1. calls \in Seq(C)
  BY DEF CamInv
<1> HIDE DEF C
<1>2. i \in Nat /\ calls[i] \in C
  BY <1>1, LenProperties, ElementOfSeq
<1> QED BY <1>2 DEF C, Called

\* Marks are not what the list is about.
LEMMA SameLeft ==
  ASSUME CamInv, LeftInv, calls' = calls, calls = <<>> \/ viewed' = viewed, Live' = Live,
         DOMAIN pid_list' = DOMAIN pid_list,
         \A i \in DOMAIN pid_list : /\ pid_list'[i].sid = pid_list[i].sid
                                    /\ pid_list'[i].epid = pid_list[i].epid,
         \A s \in Sids : Prg(s)' = Prg(s), Mapped' = Mapped
  PROVE  LeftInv'
<1>1. ASSUME NEW i \in DOMAIN calls PROVE Shrinks(calls, i)'
  <2>1. Shrinks(calls, i)
    BY DEF LeftInv
  <2>2. ASSUME calls[i].op = "prg", calls[i].sid \notin Live
        PROVE  calls[i].pids \subseteq Prg(calls[i].sid)'
    <3>1. calls[i].pids \subseteq Prg(calls[i].sid)
      BY <2>1, <2>2 DEF Shrinks
    <3>2. PICK s \in Sids : calls[i].sid = s
      BY <2>2, CallOf
    <3>3. Prg(calls[i].sid) = Prg(s) /\ Prg(calls[i].sid)' = Prg(s)'
      BY <3>2 DEF Prg
    <3> QED BY <3>1, <3>3
  <2> QED BY <2>1, <2>2 DEF Shrinks
<1> QED BY <1>1 DEF LeftInv

LEMMA PerformLeaves ==
  ASSUME OneAdapter, PidsInv, ServiceInv, LeftInv, Perform
  PROVE  LeftInv'
<1> DEFINE c == Head(calls)
           C == Called
           q == Tail(calls)
<1>1. /\ calls # <<>> /\ calls' = q /\ CamInv
      /\ UNCHANGED <<pid_list, Channels, valid, viewed>>
  BY DEF PidsInv, Perform
<1>2. Live' = Live
  BY <1>1 DEF Live
<1>3. /\ c = calls[1] /\ 1 \in DOMAIN calls
      /\ \A i \in DOMAIN q : i + 1 \in DOMAIN calls /\ q[i] = calls[i + 1] /\ i \in Nat \ {0}
      /\ \A i \in DOMAIN calls : i = 1 \/ (i - 1 \in DOMAIN q /\ q[i - 1] = calls[i])
  BY <1>1, TailIs
<1> HIDE DEF c, q, C
<1>4. Shrinks(calls, 1) /\ Harmless(calls, 1)
  BY <1>3 DEF LeftInv, ServiceInv
<1>5. \/ /\ c.op = "prg"
         /\ \E s \in Sids :
              /\ c.sid = s /\ Mapped' = Mapped \cup (c.pids \ Prg(s))
              /\ \A t \in Sids : Prg(t)' = IF t = s THEN c.pids ELSE Prg(t)
      \/ /\ c.op = "C" /\ Mapped' = Mapped \ c.pids
         /\ \A t \in Sids : Prg(t)' = Prg(t)
      \/ c.op \in {"stop", "tune"} /\ Mapped' = Mapped
      \/ /\ c.op = "I" /\ Mapped' = {}
         /\ \A t \in Sids : Prg(t)' = Prg(t)
  BY CallDoes DEF c
<1>6. ASSUME NEW i \in DOMAIN calls' PROVE Shrinks(calls, i)'
  <2>1. /\ i + 1 \in DOMAIN calls /\ calls'[i] = calls[i + 1] /\ i \in Nat \ {0}
        /\ Shrinks(calls, i + 1)
    BY <1>1, <1>3 DEF LeftInv
  <2>2. ASSUME calls'[i].op = "prg", calls'[i].sid \notin Live
        PROVE  calls'[i].pids \subseteq Prg(calls[i].sid)'
    <3>1. PICK t \in Sids : calls[i + 1].sid = t
      BY <1>1, <2>1, <2>2, CallOf
    <3>2. Prg(calls[i].sid)' = Prg(t)' /\ Prg(calls[i + 1].sid) = Prg(t)
      BY <2>1, <3>1 DEF Prg
    <3>3. calls[i + 1].pids \subseteq Prg(t)
      BY <2>1, <2>2, <3>2 DEF Shrinks
    <3>4. 1 < i + 1
      BY <2>1
    <3>5. /\ c.op \notin {"stop", "tune"}
          /\ c.op = "prg" /\ c.sid = t => calls[i + 1].pids \subseteq c.pids
      BY <1>3, <1>4, <2>1, <2>2, <3>1, <3>4 DEF Shrinks
    <3>6. calls[i + 1].pids \subseteq Prg(t)'
      BY <1>5, <3>3, <3>5
    <3> QED BY <2>1, <3>2, <3>6
  <2>3. ASSUME NEW j \in DOMAIN calls', i < j
        PROVE  j + 1 \in DOMAIN calls /\ i + 1 < j + 1 /\ calls'[j] = calls[j + 1]
    BY <1>1, <1>3, <2>1, <2>3
  <2>4. ASSUME calls'[i].op = "prg", calls'[i].sid \notin Live, NEW j \in DOMAIN calls', i < j,
               calls'[j].op = "prg", calls'[j].sid = calls'[i].sid
        PROVE  calls'[j].pids \subseteq calls'[i].pids
    BY <2>1, <2>3, <2>4 DEF Shrinks
  <2>5. ASSUME calls'[i].op \in {"stop", "tune"}, NEW j \in DOMAIN calls', i < j,
               calls'[j].op = "prg"
        PROVE  calls'[j].sid \in Live
    BY <2>1, <2>3, <2>5 DEF Shrinks
  <2> QED BY <1>2, <2>2, <2>4, <2>5 DEF Shrinks
<1>7. ASSUME NEW p \in Mapped'
      PROVE  (\E s \in Live : p \in Epids(s)) \/ \E i \in DOMAIN calls' : Forgets(calls'[i], p)
  <2>1. ASSUME p \in Mapped, ~ Forgets(c, p)
        PROVE  (\E s \in Live : p \in Epids(s)) \/ \E i \in DOMAIN calls' : Forgets(calls'[i], p)
    <3>1. (\E s \in Live : p \in Epids(s)) \/ \E i \in DOMAIN calls : Forgets(calls[i], p)
      BY <2>1 DEF LeftInv
    <3>2. ASSUME NEW i \in DOMAIN calls, Forgets(calls[i], p)
          PROVE  \E j \in DOMAIN calls' : Forgets(calls'[j], p)
      <4>1. i # 1
        BY <1>3, <2>1, <3>2
      <4>2. i - 1 \in DOMAIN calls' /\ calls'[i - 1] = calls[i]
        BY <1>1, <1>3, <4>1
      <4> QED BY <3>2, <4>2
    <3> QED BY <3>1, <3>2
  <2>2. CASE /\ c.op = "prg"
             /\ \E s \in Sids : c.sid = s /\ Mapped' = Mapped \cup (c.pids \ Prg(s))
    <3>1. PICK s \in Sids : c.sid = s /\ Mapped' = Mapped \cup (c.pids \ Prg(s))
      BY <2>2
    <3>2. ~ Forgets(c, p)
      BY <2>2 DEF Forgets
    <3>3. CASE p \in c.pids \ Prg(s)
      <4>1. s \in Live => c.pids = Epids(s)
        BY <1>3, <1>4, <2>2, <3>1 DEF Harmless
      <4>2. s \notin Live => c.pids \subseteq Prg(s)
        <5>1. Prg(calls[1].sid) = Prg(s)
          BY <1>3, <3>1 DEF Prg
        <5> QED BY <1>3, <1>4, <2>2, <3>1, <5>1 DEF Shrinks
      <4> QED BY <3>3, <4>1, <4>2
    <3> QED BY <2>1, <3>1, <3>2, <3>3
  <2>3. CASE c.op = "C" /\ Mapped' = Mapped \ c.pids
    BY <2>1, <2>3 DEF Forgets
  <2>4. CASE c.op \in {"stop", "tune"} /\ Mapped' = Mapped
    BY <2>1, <2>4 DEF Forgets
  <2>5. CASE Mapped' = {}
    BY <2>5
  <2> QED BY <1>5, <2>2, <2>3, <2>4, <2>5
<1> QED BY <1>1, <1>2, <1>6, <1>7 DEF LeftInv

LEMMA LeftInitially == ASSUME OneAdapter PROVE Init => LeftInv
<1> SUFFICES ASSUME Init PROVE LeftInv
  OBVIOUS
<1>1. Channels = {} /\ calls = <<>> /\ Mapped = {}
  BY DEF Init, CamInit, Mapped, OneAdapter
<1>2. DOMAIN calls = {} /\ Live = {}
  BY <1>1 DEF Live
<1> QED BY <1>1, <1>2 DEF LeftInv

LEMMA MarkedLeaves ==
  ASSUME PidsInv, ServiceInv, LeftInv, NEW s \in Sids, ~ Perform, [Next]_vars,
         RemoveSid(This, s) \/ (GoodToGo(This, s) /\ calls = <<>> /\ viewed' = viewed \cup {<<This, s>>})
  PROVE  LeftInv'
<1>1. CamInv /\ CamTypeOK /\ ListInv
  BY DEF PidsInv, CamInv, ServiceInv
<1>2. (\A t \in Sids : Prg(t)' = Prg(t)) /\ Mapped' = Mapped
  BY OthersLeave
<1>3. Live' = Live /\ calls' = calls /\ calls = <<>>
  BY <1>1, RemoveSidServes, GoodToGoServes DEF RemoveSid
<1>4. PICK b \in BOOLEAN :
        pid_list' = [i \in DOMAIN pid_list |->
                       IF pid_list[i].sid = s THEN [pid_list[i] EXCEPT !.delayclose = b]
                       ELSE pid_list[i]]
  BY DEF RemoveSid, GoodToGo
<1>5. ASSUME NEW i \in DOMAIN pid_list
      PROVE  pid_list'[i].sid = pid_list[i].sid /\ pid_list'[i].epid = pid_list[i].epid
  <2>1. pid_list[i] \in Entry
    BY <1>1, EntryOf
  <2> QED BY <1>4, <2>1 DEF Entry
<1>6. DOMAIN pid_list' = DOMAIN pid_list
  BY <1>4
<1> QED BY <1>1, <1>2, <1>3, <1>5, <1>6, SameLeft

LEMMA LeftKept ==
  ASSUME OneAdapter, PidsInv, ServiceInv, LeftInv, [Next]_vars
  PROVE  LeftInv'
<1>1. CamInv /\ CamTypeOK /\ ListInv
  BY DEF PidsInv, CamInv, ServiceInv
<1>2. CASE Perform
  BY <1>2, PerformLeaves
<1>3. CASE ~ Perform /\ UNCHANGED camVars
  <2>1. calls' = calls /\ viewed' = viewed /\ pid_list' = pid_list /\ Live' = Live
    BY <1>3 DEF camVars, Live
  <2>2. (\A s \in Sids : Prg(s)' = Prg(s)) /\ Mapped' = Mapped
    BY <1>3, OthersLeave
  <2> QED BY <1>1, <2>1, <2>2, SameLeft
<1>4. CASE Message /\ ~ Perform
  <2>1. (\A s \in Sids : Prg(s)' = Prg(s)) /\ Mapped' = Mapped
    BY <1>4, OthersLeave
  <2>2. CASE ResetSid(This)
    <3>1. calls = <<>>
      BY <2>2 DEF ResetSid
    <3> QED BY <1>1, <2>1, <2>2, <3>1, ResetSidLeaves
  <2>3. ASSUME NEW s \in Sids, RemoveSid(This, s) PROVE LeftInv'
    BY <1>4, <2>3, MarkedLeaves
  <2>4. ASSUME NEW s \in Sids, AddSid(This, s), s \notin FreeToAir PROVE LeftInv'
    <3>1. /\ calls = <<>> /\ viewed' = viewed \cup {<<This, s>>}
          /\ GoodToGo(This, s) \/ AddNew(This, s)
      BY <2>4 DEF AddSid
    <3>2. CASE GoodToGo(This, s)
      BY <1>4, <3>1, <3>2, MarkedLeaves
    <3>3. CASE AddNew(This, s)
      BY <1>1, <2>1, <3>1, <3>3, AddNewLeaves
    <3> QED BY <3>1, <3>2, <3>3
  <2>5. ASSUME NEW s \in Sids, AddSid(This, s), s \in FreeToAir PROVE LeftInv'
    <3>1. UNCHANGED camVars
      BY <2>5 DEF AddSid
    <3> QED BY <1>3, <1>4, <3>1
  <2>6. Adapters = {This}
    BY DEF OneAdapter
  <2> QED BY <1>4, <2>2, <2>3, <2>4, <2>5, <2>6 DEF Message
<1> QED BY <1>2, <1>3, <1>4 DEF Next, vars

LEMMA ServicesStand ==
  ASSUME OneAdapter, PidsApart
  PROVE  Spec => [](PidsInv /\ ServiceInv /\ LeftInv)
<1>1. Init => PidsInv /\ ServiceInv /\ LeftInv
  BY PidsInitially, ServiceInitially, LeftInitially
<1>2. PidsInv /\ ServiceInv /\ LeftInv /\ [Next]_vars => PidsInv' /\ ServiceInv' /\ LeftInv'
  <2> SUFFICES ASSUME PidsInv, ServiceInv, LeftInv, [Next]_vars
               PROVE  PidsInv' /\ ServiceInv' /\ LeftInv'
    OBVIOUS
  <2>1. PidsInv' /\ Live \subseteq Sids /\ Live' \subseteq Sids
    BY PidsKept DEF PidsInv, CamInv, CamTypeOK, Live
  <2>2. Apart(Live \cup Live')
    BY <2>1 DEF PidsApart, Apart
  <2> QED BY <2>1, <2>2, ServiceKept, LeftKept
<1> QED BY <1>1, <1>2, PTL DEF Spec

\* On one adapter what is viewed is served with all of its streams between two
\* messages (plugin_cam.c:254), when no two services share a stream: closing the pids
\* of one would close those of the other (update_keys, 'C').
THEOREM ViewedAreServed == ASSUME OneAdapter, PidsApart PROVE Spec => []KeepsViewed
<1>1. PidsInv /\ ServiceInv => KeepsViewed
  BY ServedInvImplies
<1> QED BY <1>1, ServicesStand, PTL

\* What is done for other services interrupts it at no moment.
THEOREM ViewedRunOn == ASSUME OneAdapter, PidsApart PROVE Spec => Undisturbed
<1>1. PidsInv /\ ServiceInv /\ [Next]_vars => [LeavesViewed]_vars
  BY ViewedUndisturbed DEF LeavesViewed
<1> QED BY <1>1, ServicesStand, PTL DEF Undisturbed, Spec

\* After the last call of a message only what is viewed is left.
LEMMA LastCallLeaves ==
  ASSUME PidsInv, ServiceInv', LeftInv, LeftInv', [Next]_vars, calls # <<>>, calls' = <<>>,
         NEW s \in Sids, <<This, s>> \notin viewed
  PROVE  /\ Prg(s)' = {}
         /\ \A p \in Epids(s) \cap Mapped' : \E v \in viewed : v[1] = This /\ p \in Epids(v[2])
<1>1. /\ UNCHANGED <<pid_list, Channels, valid, viewed>>
  <2>1. Perform
    BY DEF Next, vars, Message, camVars, ResetSid, RemoveSid, AddSid
  <2> QED BY <2>1 DEF Perform
<1>2. Live' = Live /\ DOMAIN calls' = {}
  BY <1>1 DEF Live
<1>3. \A t \in Live : <<This, t>> \in viewed \/ Epids(t) = {}
  BY DEF LeftInv
<1>4. Prg(s)' = {}
  <2>1. CASE s \in Live
    <3>1. Prg(s)' = Epids(s)
      BY <1>2, <2>1 DEF ServiceInv, Provided
    <3> QED BY <1>3, <2>1, <3>1
  <2>2. CASE s \notin Live
    BY <1>2, <2>2 DEF ServiceInv, GivenUp
  <2> QED BY <2>1, <2>2
<1>5. ASSUME NEW p \in Epids(s) \cap Mapped'
      PROVE  \E v \in viewed : v[1] = This /\ p \in Epids(v[2])
  <2>1. PICK t \in Live : p \in Epids(t)
    BY <1>2 DEF LeftInv
  <2>2. <<This, t>> \in viewed
    BY <1>3, <2>1
  <2> QED BY <2>1, <2>2
<1> QED BY <1>4, <1>5

\* Once a message has made its calls, what is not viewed has no program and no pid of
\* its own (plugin_cam.c:272-283).
THEOREM OthersAreGivenUp == ASSUME OneAdapter, PidsApart PROVE Spec => OnlyViewedLeft
<1> DEFINE Left1 == calls # <<>> /\ calls' = <<>> =>
      \A a \in Adapters, s \in Sids :
        <<a, s>> \notin viewed =>
          /\ prg'[a][s] = {}
          /\ \A p \in Epids(s) \cap mapped'[a] :
               \E v \in viewed : v[1] = a /\ p \in Epids(v[2])
<1>1. PidsInv /\ ServiceInv' /\ LeftInv /\ LeftInv' /\ [Next]_vars => Left1
  <2> SUFFICES ASSUME PidsInv, ServiceInv', LeftInv, LeftInv', [Next]_vars,
                      calls # <<>>, calls' = <<>>,
                      NEW a \in Adapters, NEW s \in Sids, <<a, s>> \notin viewed
               PROVE  /\ prg'[a][s] = {}
                      /\ \A p \in Epids(s) \cap mapped'[a] :
                           \E v \in viewed : v[1] = a /\ p \in Epids(v[2])
    OBVIOUS
  <2>1. a = This
    BY DEF OneAdapter
  <2>2. /\ Prg(s)' = {}
        /\ \A p \in Epids(s) \cap Mapped' : \E v \in viewed : v[1] = This /\ p \in Epids(v[2])
    BY <2>1, LastCallLeaves
  <2> QED BY <2>1, <2>2 DEF Prg, Mapped
<1>2. PidsInv /\ ServiceInv' /\ LeftInv /\ LeftInv' /\ [Next]_vars => [Left1]_vars
  BY <1>1
<1> QED BY <1>2, ServicesStand, PTL DEF OnlyViewedLeft, Spec, Left1
=============================================================================
