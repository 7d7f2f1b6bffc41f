-------------------------- MODULE ChannelCamProofs --------------------------
(***************************************************************************)
(* What holds of the service tracker and of what it tells process_cam for  *)
(* every set of files, transponders, services and filters.                 *)
(***************************************************************************)
EXTENDS ChannelCam, CamPidsProofs

(* The operators of the tracker.                                           *)

\* Queued commands without the one on fd.
LEMMA WithoutIs ==
  ASSUME Tracker!TypeOK, NEW fd
  PROVE  LET w == Tracker!Without(fd)
         IN /\ w \in Seq(Tracker!CommandType)
            /\ \A j \in DOMAIN w : \E m \in DOMAIN cmdqueue :
                 w[j] = cmdqueue[m] /\ cmdqueue[m].fd # fd
            /\ \A m \in DOMAIN cmdqueue :
                 cmdqueue[m].fd # fd => \E j \in DOMAIN w : w[j] = cmdqueue[m]
            /\ \A i, j \in DOMAIN w : w[i].fd = w[j].fd => i = j
<1> DEFINE w == Tracker!Without(fd)
           C == Tracker!CommandType
<1>0. /\ cmdqueue \in Seq(C)
      /\ \A i, j \in DOMAIN cmdqueue : cmdqueue[i].fd = cmdqueue[j].fd => i = j
  BY DEF Tracker!TypeOK
<1> HIDE DEF C
<1>1. CASE Tracker!CommandsOf(fd) = {}
  <2>1. w = cmdqueue
    BY <1>1 DEF Tracker!Without
  <2>2. \A i \in DOMAIN cmdqueue : cmdqueue[i].fd # fd
    BY <1>1 DEF Tracker!CommandsOf
  <2> HIDE DEF w
  <2> QED BY <1>0, <2>1, <2>2 DEF w, C
<1>2. CASE Tracker!CommandsOf(fd) # {}
  <2> DEFINE i == CHOOSE i \in Tracker!CommandsOf(fd) : TRUE
  <2>1. i \in Tracker!CommandsOf(fd)
    BY <1>2
  <2>2. w = RemoveAt(cmdqueue, i)
    BY <1>2 DEF Tracker!Without, Tracker!RemoveAt, RemoveAt
  <2> HIDE DEF i, w
  <2>3. /\ i \in 1 .. Len(cmdqueue) /\ cmdqueue[i].fd = fd
        /\ DOMAIN cmdqueue = 1 .. Len(cmdqueue) /\ Len(cmdqueue) \in Nat
    BY <1>0, <2>1, LenProperties DEF Tracker!CommandsOf
  <2> DEFINE m(j) == IF j < i THEN j ELSE j + 1
  <2>4. w \in Seq(C) /\ Len(w) = Len(cmdqueue) - 1
    <3>1. RemoveAt(cmdqueue, i) \in Seq(C) /\ Len(RemoveAt(cmdqueue, i)) = Len(cmdqueue) - 1
      BY <1>0, <2>3, RemovedAt
    <3> QED BY <2>2, <3>1
  <2>5. DOMAIN w = 1 .. Len(cmdqueue) - 1
    BY <2>4, LenProperties
  <2>6. \A j \in DOMAIN w : m(j) \in DOMAIN cmdqueue /\ m(j) # i /\ w[j] = cmdqueue[m(j)]
    BY <1>0, <2>2, <2>3, RemovedStands
  <2>7. \A n \in DOMAIN cmdqueue \ {i} : \E j \in DOMAIN w : m(j) = n
    <3> TAKE n \in DOMAIN cmdqueue \ {i}
    <3>1. CASE n < i
      <4>1. n \in DOMAIN w /\ m(n) = n
        BY <2>3, <2>5, <3>1
      <4> QED BY <4>1
    <3>2. CASE ~(n < i)
      <4>1. n - 1 \in DOMAIN w /\ m(n - 1) = n
        BY <2>3, <2>5, <3>2
      <4> QED BY <4>1
    <3> QED BY <3>1, <3>2
  <2>8. \A j, k \in DOMAIN w : m(j) = m(k) => j = k
    BY <2>3, <2>5
  <2> HIDE DEF m
  <2>9. \A n \in DOMAIN cmdqueue : cmdqueue[n].fd # fd <=> n # i
    BY <1>0, <2>3
  <2>10. \A j, k \in DOMAIN w : w[j].fd = w[k].fd => j = k
    BY <1>0, <2>6, <2>8
  <2> QED BY <2>4, <2>6, <2>7, <2>9, <2>10 DEF w, C
<1> QED BY <1>1, <1>2

\* Commands that are to be looked up again.
LEMMA UncheckedIs ==
  ASSUME NEW q \in Seq(Tracker!CommandType)
  PROVE  LET u == Tracker!Unchecked(q)
         IN /\ u \in Seq(Tracker!CommandType) /\ DOMAIN u = DOMAIN q
            /\ \A i \in DOMAIN q : u[i] = [q[i] EXCEPT !.checked = FALSE, !.sid = None]
            /\ \A i \in DOMAIN q : /\ u[i].fd = q[i].fd /\ u[i].pid = q[i].pid
                                   /\ ~u[i].checked /\ u[i].sid = None
<1> DEFINE C == Tracker!CommandType
           u == Tracker!Unchecked(q)
           e(i) == [q[i] EXCEPT !.checked = FALSE, !.sid = None]
<1>1. Len(q) \in Nat /\ DOMAIN q = 1 .. Len(q) /\ \A i \in DOMAIN q : q[i] \in C
  BY LenProperties, ElementOfSeq
<1>2. u = [i \in 1 .. Len(q) |-> e(i)]
  BY <1>1 DEF Tracker!Unchecked
<1>3. \A i \in 1 .. Len(q) : /\ e(i) \in C /\ e(i).fd = q[i].fd /\ e(i).pid = q[i].pid
                             /\ ~e(i).checked /\ e(i).sid = None
  BY <1>1 DEF Tracker!CommandType
<1> HIDE DEF u, e, C
<1>4. u \in Seq(C) /\ DOMAIN u = 1 .. Len(q) /\ \A i \in 1 .. Len(q) : u[i] = e(i)
  BY <1>1, <1>2, <1>3
<1>5. \A i \in DOMAIN q : /\ u[i].fd = q[i].fd /\ u[i].pid = q[i].pid
                          /\ ~u[i].checked /\ u[i].sid = None
  BY <1>1, <1>3, <1>4
<1> QED BY <1>1, <1>4, <1>5 DEF u, e, C

\* Of the services found for a pid there is at most one, out of the map.
LEMMA FindPidIs ==
  ASSUME Tracker!TypeOK, NEW pid
  PROVE  /\ \/ Tracker!FindPid(pid) = {}
            \/ \E j \in DOMAIN sidlist :
                 Tracker!FindPid(pid) = {sidlist[j]} /\ Tracker!HasPid(sidlist[j], pid)
         /\ \A j \in DOMAIN sidlist :
              pid \in AvPids /\ Tracker!HasPid(sidlist[j], pid) => Tracker!FindPid(pid) # {}
<1> DEFINE I == {i \in DOMAIN sidlist : Tracker!HasPid(sidlist[i], pid)}
           l == CHOOSE i \in I : \A j \in I : i <= j
<1>1. CASE I = {} \/ ~(AllPids \/ pid \in AvPids)
  BY <1>1 DEF Tracker!FindPid
<1>2. CASE ~(I = {} \/ ~(AllPids \/ pid \in AvPids))
  <2>1. I \subseteq Nat
    BY LenProperties DEF Tracker!TypeOK
  <2>2. l \in I
    <3> HIDE DEF I
    <3> QED BY <1>2, <2>1, LeastExists
  <2>3. Tracker!FindPid(pid) = {sidlist[l]}
    BY <1>2 DEF Tracker!FindPid
  <2> QED BY <2>2, <2>3
<1> QED BY <1>1, <1>2

\* An unchecked command is taken.
LEMMA ChosenIs ==
  ASSUME Tracker!TypeOK, Tracker!Pending # {}
  PROVE  Tracker!Chosen \in DOMAIN cmdqueue /\ ~cmdqueue[Tracker!Chosen].checked
<1> DEFINE I == Tracker!Pending
<1>1. Len(cmdqueue) \in Nat /\ I \subseteq 0 .. Len(cmdqueue)
  BY LenProperties DEF Tracker!TypeOK, Tracker!Pending
<1>2. Tracker!Chosen = CHOOSE i \in I : \A j \in I : j <= i
  BY DEF Tracker!Chosen
<1>3. Tracker!Chosen \in I
  <2> HIDE DEF I
  <2> QED BY <1>1, <1>2, GreatestExists DEF I
<1> QED BY <1>3 DEF Tracker!Pending

\* A message is taken out of the queue.
LEMMA RemoveTypeIs ==
  ASSUME NEW M, NEW q \in Seq(M), NEW type
  PROVE  /\ Tracker!RemoveType(q, type) \in Seq(M)
         /\ Len(Tracker!RemoveType(q, type)) <= Len(q)
<1> DEFINE I == {i \in 1 .. Len(q) : q[i].type = type}
<1>0. Len(q) \in Nat
  BY LenProperties
<1>1. CASE I = {}
  <2>1. Tracker!RemoveType(q, type) = q
    BY <1>1 DEF Tracker!RemoveType, Tracker!RemoveFirstMatch
  <2> QED BY <1>0, <2>1
<1>2. CASE I # {}
  <2>1. Tracker!RemoveType(q, type) = RemoveAt(q, Min(I))
    BY <1>2 DEF Tracker!RemoveType, Tracker!RemoveFirstMatch, Tracker!SelectInSeq,
                Tracker!RemoveAt, RemoveAt, Tracker!Min, Min
  <2>2. I \subseteq Nat
    BY <1>0
  <2>3. Min(I) \in I
    <3> HIDE DEF I
    <3> QED BY <1>2, <2>2, MinIsLeast
  <2>4. Min(I) \in 1 .. Len(q)
    BY <2>3
  <2> HIDE DEF I
  <2>5. /\ RemoveAt(q, Min(I)) \in Seq(M) /\ Len(RemoveAt(q, Min(I))) = Len(q) - 1
    BY <2>4, RemovedAt
  <2> QED BY <1>0, <2>1, <2>5
<1> QED BY <1>1, <1>2

\* A reset is put behind what is left of the queue.
LEMMA ResetIs ==
  ASSUME NEW M, NEW q \in Seq(M)
  PROVE  \E p \in Seq(M) :
           /\ Len(p) <= Len(q)
           /\ Tracker!Reset(q) = Append(p, Tracker!Message("reset", None))
<1> DEFINE a == Tracker!RemoveType(q, "add")
           b == Tracker!RemoveType(a, "remove")
           c == Tracker!RemoveType(b, "reset")
<1>1. a \in Seq(M) /\ Len(a) <= Len(q)
  BY RemoveTypeIs
<1> HIDE DEF a
<1>2. b \in Seq(M) /\ Len(b) <= Len(a)
  BY <1>1, RemoveTypeIs
<1> HIDE DEF b
<1>3. c \in Seq(M) /\ Len(c) <= Len(b)
  BY <1>2, RemoveTypeIs
<1> HIDE DEF c
<1>4. Tracker!Reset(q) = Append(c, Tracker!Message("reset", None))
  BY DEF Tracker!Reset, a, b, c
<1>5. Len(q) \in Nat /\ Len(a) \in Nat /\ Len(b) \in Nat /\ Len(c) \in Nat
  BY <1>1, <1>2, <1>3, LenProperties
<1>6. Len(c) <= Len(q)
  BY <1>1, <1>2, <1>3, <1>5
<1> QED BY <1>3, <1>4, <1>6

LEMMA SameSetToSeq ==
  ASSUME NEW S PROVE Tracker!SetToSeq(S) = SetToSeq(S)
<1>1. Tracker!Cardinality(S) = Cardinality(S)
  BY DEF Tracker!Cardinality, Cardinality
<1> QED BY <1>1 DEF Tracker!SetToSeq, SetToSeq, Tracker!IsInjective, IsInjective

\* At most one message is put behind the queue.
LEMMA MessagesAre ==
  ASSUME NEW q \in Seq(Tracker!MessageType), NEW T
  PROVE  /\ T = {} => q \o Tracker!SetToSeq(T) = q
         /\ \A m : T = {m} => q \o Tracker!SetToSeq(T) = Append(q, m)
<1>1. Tracker!SetToSeq(T) = SetToSeq(T)
  BY SameSetToSeq
<1>2. ASSUME T = {} PROVE q \o Tracker!SetToSeq(T) = q
  BY <1>1, <1>2, OneInSeq, ConcatEmptySeq
<1>3. ASSUME NEW m, T = {m} PROVE q \o Tracker!SetToSeq(T) = Append(q, m)
  <2> DEFINE N == Tracker!MessageType \cup {m}
  <2>1. Tracker!SetToSeq(T) = <<m>>
    BY <1>1, <1>3, OneInSeq
  <2>2. q \in Seq(N) /\ m \in N
    <3>1. Tracker!MessageType \subseteq N /\ m \in N
      OBVIOUS
    <3> HIDE DEF N
    <3> QED BY <3>1, SeqMonotonic
  <2> HIDE DEF N
  <2>3. Append(q, m) = q \o <<m>>
    BY <2>2, AppendIsConcat
  <2> QED BY <2>1, <2>3
<1> QED BY <1>2, <1>3

\* The services a file loses.
LEMMA GoneIs ==
  ASSUME Tracker!TypeOK, NEW fd
  PROVE  LET S == {cmdqueue[i].sid : i \in Tracker!CommandsOf(fd)} \ {None}
         IN S = {} \/ \E x \in Sids : S = {x}
<1> DEFINE S == {cmdqueue[i].sid : i \in Tracker!CommandsOf(fd)} \ {None}
<1>1. \A x, y \in S : x = y
  BY DEF Tracker!TypeOK, Tracker!CommandsOf
<1>2. S \subseteq Sids
  <2>1. \A i \in Tracker!CommandsOf(fd) : cmdqueue[i] \in Tracker!CommandType
    BY LenProperties, ElementOfSeq DEF Tracker!TypeOK, Tracker!CommandsOf
  <2> QED BY <2>1 DEF Tracker!CommandType
<1> HIDE DEF S
<1>3. S = {} \/ \E x \in Sids : S = {x}
  BY <1>1, <1>2
<1> QED BY <1>3 DEF S

\* A message more.
LEMMA SentType ==
  ASSUME Tracker!TypeOK, Len(low) < MaxLow, NEW type \in {"add", "remove", "reset"},
         NEW x \in Sids \cup {None}, NEW p \in Seq(Tracker!MessageType), Len(p) <= Len(low)
  PROVE  /\ Append(p, Tracker!Message(type, x)) \in Seq(Tracker!MessageType)
         /\ Len(Append(p, Tracker!Message(type, x))) <= MaxLow
<1> DEFINE M == Tracker!MessageType
           m == Tracker!Message(type, x)
<1>1. m \in M
  BY DEF Tracker!Message, Tracker!MessageType
<1>2. MaxLow \in Nat
  BY ChannelCamAssumption DEF Tracker!ConstantsFit
<1>3. low \in Seq(M) /\ p \in Seq(M)
  BY DEF Tracker!TypeOK
<1> HIDE DEF M, m
<1>4. Append(p, m) \in Seq(M) /\ Len(Append(p, m)) = Len(p) + 1
  BY <1>1, <1>3, AppendProperties
<1>5. Len(p) \in Nat /\ Len(low) \in Nat
  BY <1>3, LenProperties
<1> QED BY <1>2, <1>4, <1>5 DEF M, m

LEMMA ResetType ==
  ASSUME Tracker!TypeOK, Tracker!Running
  PROVE  /\ Tracker!Reset(low) \in Seq(Tracker!MessageType)
         /\ Len(Tracker!Reset(low)) <= MaxLow
<1>1. low \in Seq(Tracker!MessageType) /\ Len(low) + 2 <= MaxLow
  BY DEF Tracker!TypeOK, Tracker!Running
<1>2. PICK p \in Seq(Tracker!MessageType) :
        Len(p) <= Len(low) /\ Tracker!Reset(low) = Append(p, Tracker!Message("reset", None))
  BY <1>1, ResetIs
<1>3. Len(low) < MaxLow
  <2>1. Len(low) \in Nat /\ MaxLow \in Nat
    BY <1>1, LenProperties, ChannelCamAssumption DEF Tracker!ConstantsFit
  <2> QED BY <1>1, <2>1
<1> QED BY <1>2, <1>3, SentType

LEMMA GoneType ==
  ASSUME Tracker!TypeOK, Tracker!Running, NEW S, S = {} \/ \E x \in Sids : S = {x}
  PROVE  LET r == low \o Tracker!SetToSeq({Tracker!Message("remove", s) : s \in S})
         IN /\ r \in Seq(Tracker!MessageType) /\ Len(r) <= MaxLow
            /\ \/ S = {} /\ r = low
               \/ \E x \in Sids : S = {x} /\ r = Append(low, Tracker!Message("remove", x))
<1>1. low \in Seq(Tracker!MessageType) /\ Len(low) + 2 <= MaxLow /\ Len(low) <= MaxLow
  BY DEF Tracker!TypeOK, Tracker!Running
<1>2. Len(low) < MaxLow /\ Len(low) <= Len(low)
  <2>1. Len(low) \in Nat /\ MaxLow \in Nat
    BY <1>1, LenProperties, ChannelCamAssumption DEF Tracker!ConstantsFit
  <2> QED BY <1>1, <2>1
<1> DEFINE T == {Tracker!Message("remove", s) : s \in S}
           r == low \o Tracker!SetToSeq(T)
<1>3. S = {} => T = {}
  OBVIOUS
<1>4. \A x : S = {x} => T = {Tracker!Message("remove", x)}
  OBVIOUS
<1> HIDE DEF T
<1>5. \/ S = {} /\ r = low
      \/ \E x \in Sids : S = {x} /\ r = Append(low, Tracker!Message("remove", x))
  BY <1>1, <1>3, <1>4, MessagesAre
<1> HIDE DEF r
<1>6. r \in Seq(Tracker!MessageType) /\ Len(r) <= MaxLow
  BY <1>1, <1>2, <1>5, SentType
<1> QED BY <1>5, <1>6 DEF r, T

-----------------------------------------------------------------------------
(* The services commands point to.                                         *)

LEMMA SidInit == Tracker!Init => Tracker!SidInv
<1> SUFFICES ASSUME Tracker!Init PROVE Tracker!SidInv
  OBVIOUS
<1>1. Tracker!TypeOK
  <2>1. \A S : <<>> \in Seq(S) /\ Len(<<>>) = 0 /\ DOMAIN <<>> = {}
    BY EmptySeq
  <2>2. 0 <= MaxLow
    BY ChannelCamAssumption DEF Tracker!ConstantsFit
  <2> QED BY <2>1, <2>2 DEF Tracker!Init, Tracker!Idle, Tracker!ScanType,
                          Tracker!TypeOK
<1>2. Tracker!EndsReadSid /\ Tracker!NoDanglingSid /\ Tracker!NothingFound
  BY DEF Tracker!Init, Tracker!Idle, Tracker!EndsReadSid, Tracker!NoDanglingSid,
         Tracker!NothingFound
<1> QED BY <1>1, <1>2 DEF Tracker!SidInv

LEMMA TerminatorIs ==
  /\ Tracker!Terminator = [fd |-> None, pid |-> 0, checked |-> FALSE, sid |-> None]
  /\ [Tracker!Terminator EXCEPT !.checked = FALSE, !.sid = None] = Tracker!Terminator
  /\ Tracker!Terminator \in Tracker!CommandType
<1> DEFINE t == Tracker!Terminator
<1>1. t = [fd |-> None, pid |-> 0, checked |-> FALSE, sid |-> None]
  BY DEF Tracker!Terminator, Tracker!Command
<1> HIDE DEF t
<1>2. t \in Tracker!CommandType
  BY <1>1 DEF Tracker!CommandType
<1>3. [t EXCEPT !.checked = FALSE, !.sid = None] = t
  <2>1. t.checked = FALSE /\ t.sid = None
    BY <1>1
  <2>2. DOMAIN t = {"fd", "pid", "checked", "sid"} /\ t = [f \in DOMAIN t |-> t[f]]
    BY <1>1
  <2> QED BY <2>1, <2>2
<1> QED BY <1>1, <1>2, <1>3 DEF t

LEMMA SidFeTune ==
  ASSUME Tracker!SidInv, NEW tp \in Transponders, Tracker!FeTune(tp)
  PROVE  Tracker!SidInv'
<1>1. /\ Tracker!Running /\ tuning' = tp /\ low' = Tracker!Reset(low) /\ announced' = {}
      /\ cmdqueue' = Tracker!Unchecked(cmdqueue) /\ sidlist' = <<>> /\ has_map' = FALSE
      /\ UNCHANGED <<tuned, removed_sid, scan>>
  BY DEF Tracker!FeTune
<1>2. Tracker!TypeOK /\ cmdqueue \in Seq(Tracker!CommandType)
  BY DEF Tracker!SidInv, Tracker!TypeOK
<1>3. /\ cmdqueue' \in Seq(Tracker!CommandType) /\ DOMAIN cmdqueue' = DOMAIN cmdqueue
      /\ \A i \in DOMAIN cmdqueue :
           cmdqueue'[i] = [cmdqueue[i] EXCEPT !.checked = FALSE, !.sid = None]
      /\ \A i \in DOMAIN cmdqueue : cmdqueue'[i].fd = cmdqueue[i].fd /\ cmdqueue'[i].sid = None
  BY <1>1, <1>2, UncheckedIs
<1>4. Tracker!TypeOK'
  <2>1. low' \in Seq(Tracker!MessageType) /\ Len(low') <= MaxLow
    BY <1>1, <1>2, ResetType
  <2>2. \A i, j \in DOMAIN cmdqueue' : cmdqueue'[i].fd = cmdqueue'[j].fd => i = j
    BY <1>2, <1>3 DEF Tracker!TypeOK
  <2>3. sidlist' \in Seq(Sids)
    BY <1>1, EmptySeq
  <2> QED BY <1>1, <1>2, <1>3, <2>1, <2>2, <2>3 DEF Tracker!TypeOK
<1>5. Tracker!EndsReadSid'
  <2> SUFFICES ASSUME NEW i \in DOMAIN cmdqueue, cmdqueue[i].fd = None
               PROVE  cmdqueue'[i] = Tracker!Terminator
    BY <1>3 DEF Tracker!EndsReadSid, Tracker!Terminator, Tracker!Command
  <2>1. cmdqueue[i] = Tracker!Terminator
    BY DEF Tracker!SidInv, Tracker!EndsReadSid
  <2> QED BY <1>3, <2>1, TerminatorIs
<1>6. Tracker!NoDanglingSid' /\ Tracker!NothingFound'
  BY <1>3 DEF Tracker!NoDanglingSid, Tracker!NothingFound
<1> QED BY <1>4, <1>5, <1>6 DEF Tracker!SidInv

LEMMA SidSetDemux ==
  ASSUME Tracker!SidInv, NEW fd \in Fds, NEW pid \in FilterPids, Tracker!SetDemux(fd, pid)
  PROVE  Tracker!SidInv'
<1> DEFINE forget == NoCache /\ removed_sid
           old    == {cmdqueue[i].sid : i \in Tracker!CommandsOf(fd)} \ {None}
           gone   == IF forget THEN {} ELSE old
           w      == Tracker!Without(fd)
           v      == IF forget THEN Tracker!Unchecked(w) ELSE w
           c      == Tracker!Command(fd, pid)
           C      == Tracker!CommandType
<1>1. /\ Tracker!Running /\ cmdqueue' = Append(v, c)
      /\ low' = low \o Tracker!SetToSeq({Tracker!Message("remove", s) : s \in gone})
      /\ announced' = announced \ gone /\ UNCHANGED <<tuned, tuning, scan>>
      /\ removed_sid' = (removed_sid /\ ~forget)
      /\ forget => sidlist' = <<>> /\ has_map' = FALSE
      /\ ~forget => UNCHANGED <<sidlist, has_map>>
  BY DEF Tracker!SetDemux
<1>2. Tracker!TypeOK /\ cmdqueue \in Seq(C) /\ fd # None
  BY ChannelCamAssumption DEF Tracker!SidInv, Tracker!TypeOK, Tracker!ConstantsFit
<1>3. gone = {} \/ \E x \in Sids : gone = {x}
  BY <1>2, GoneIs
<1>4. low' \in Seq(Tracker!MessageType) /\ Len(low') <= MaxLow
  <2> HIDE DEF gone
  <2> QED BY <1>1, <1>2, <1>3, GoneType
<1>5. /\ w \in Seq(C)
      /\ \A j \in DOMAIN w : \E m \in DOMAIN cmdqueue :
           w[j] = cmdqueue[m] /\ cmdqueue[m].fd # fd
      /\ \A i, j \in DOMAIN w : w[i].fd = w[j].fd => i = j
  BY <1>2, WithoutIs
<1>6. /\ c = [fd |-> fd, pid |-> pid, checked |-> FALSE, sid |-> None]
      /\ c.fd = fd /\ c.sid = None /\ c \in C
  BY DEF Tracker!Command, Tracker!CommandType
<1> HIDE DEF w, c, C
<1>7. /\ v \in Seq(C) /\ DOMAIN v = DOMAIN w
      /\ \A i \in DOMAIN w : v[i].fd = w[i].fd
      /\ ~forget => v = w
      /\ forget => \A i \in DOMAIN w :
           v[i] = [w[i] EXCEPT !.checked = FALSE, !.sid = None] /\ v[i].sid = None
  BY <1>5, UncheckedIs DEF C
<1> HIDE DEF v, forget, gone
<1>8. /\ cmdqueue' \in Seq(C) /\ DOMAIN cmdqueue' = DOMAIN v \cup {Len(v) + 1}
      /\ \A i \in DOMAIN v : cmdqueue'[i] = v[i]
      /\ cmdqueue'[Len(v) + 1] = c /\ Len(v) + 1 \notin DOMAIN v
  <2>1. cmdqueue' = Append(v, c)
    BY <1>1
  <2>2. v \in Seq(C) /\ c \in C
    BY <1>6, <1>7
  <2> QED BY <2>1, <2>2, AppendStands
<1>9. Tracker!TypeOK'
  <2>1. \A i, j \in DOMAIN cmdqueue' : cmdqueue'[i].fd = cmdqueue'[j].fd => i = j
    <3>1. DOMAIN v = DOMAIN w /\ \A i \in DOMAIN w : v[i].fd = w[i].fd
      BY <1>7
    <3>2. \A i \in DOMAIN v : v[i].fd # fd
      BY <1>5, <3>1
    <3>3. \A i, j \in DOMAIN v : v[i].fd = v[j].fd => i = j
      BY <1>5, <3>1
    <3>4. c.fd = fd
      BY <1>6
    <3> QED BY <1>8, <3>2, <3>3, <3>4
  <2>2. announced' \in SUBSET Sids /\ removed_sid' \in BOOLEAN
    BY <1>1, <1>2 DEF Tracker!TypeOK
  <2>3. sidlist' \in Seq(Sids) /\ has_map' \in BOOLEAN
    <3>1. <<>> \in Seq(Sids)
      BY EmptySeq
    <3> QED BY <1>1, <1>2, <3>1 DEF Tracker!TypeOK
  <2> QED BY <1>1, <1>2, <1>4, <1>8, <2>1, <2>2, <2>3 DEF Tracker!TypeOK, C
<1>10. Tracker!EndsReadSid'
  <2> SUFFICES ASSUME NEW i \in DOMAIN w, w[i].fd = None PROVE FALSE
    BY <1>2, <1>6, <1>7, <1>8 DEF Tracker!EndsReadSid
  <2>1. PICK m \in DOMAIN cmdqueue : w[i] = cmdqueue[m]
    BY <1>5
  <2>2. cmdqueue[m] = Tracker!Terminator
    BY <2>1 DEF Tracker!SidInv, Tracker!EndsReadSid
  <2> QED BY <1>1, <2>2 DEF Tracker!Running
<1>11. Tracker!NoDanglingSid'
  <2> SUFFICES ASSUME NEW i \in DOMAIN w, v[i].sid # None
               PROVE  /\ v[i].checked /\ has_map'
                      /\ \E j \in DOMAIN sidlist' : sidlist'[j] = v[i].sid
    BY <1>6, <1>7, <1>8 DEF Tracker!NoDanglingSid
  <2>1. ~forget /\ v[i] = w[i]
    BY <1>7
  <2>2. PICK m \in DOMAIN cmdqueue : w[i] = cmdqueue[m]
    BY <1>5
  <2> QED BY <1>1, <2>1, <2>2 DEF Tracker!SidInv, Tracker!NoDanglingSid
<1>12. Tracker!NothingFound'
  <2> SUFFICES ASSUME scan.at \notin {"idle", "down"}
               PROVE  \A i \in DOMAIN cmdqueue' : cmdqueue'[i].sid = None
    BY <1>1 DEF Tracker!NothingFound
  <2>1. \A i \in DOMAIN w : w[i].sid = None
    BY <1>5 DEF Tracker!SidInv, Tracker!NothingFound
  <2>2. \A i \in DOMAIN v : v[i].sid = None
    BY <1>7, <2>1
  <2> QED BY <1>6, <1>8, <2>2
<1> QED BY <1>9, <1>10, <1>11, <1>12 DEF Tracker!SidInv

LEMMA SidCloseDemux ==
  ASSUME Tracker!SidInv, NEW fd \in Fds, Tracker!CloseDemux(fd)
  PROVE  Tracker!SidInv'
<1> DEFINE gone == {cmdqueue[i].sid : i \in Tracker!CommandsOf(fd)} \ {None}
           w    == Tracker!Without(fd)
           C    == Tracker!CommandType
<1>1. /\ Tracker!Running /\ cmdqueue' = w
      /\ low' = low \o Tracker!SetToSeq({Tracker!Message("remove", s) : s \in gone})
      /\ announced' = announced \ gone
      /\ UNCHANGED <<tuned, tuning, sidlist, has_map, scan>>
      /\ removed_sid' = (removed_sid \/ \E s \in gone :
                           \A i \in DOMAIN cmdqueue' : cmdqueue'[i].sid # s)
  BY DEF Tracker!CloseDemux
<1>2. Tracker!TypeOK
  BY DEF Tracker!SidInv
<1>3. gone = {} \/ \E x \in Sids : gone = {x}
  BY <1>2, GoneIs
<1> HIDE DEF gone
<1>4. low' \in Seq(Tracker!MessageType) /\ Len(low') <= MaxLow
  BY <1>1, <1>2, <1>3, GoneType
<1>5. /\ w \in Seq(C)
      /\ \A j \in DOMAIN w : \E m \in DOMAIN cmdqueue :
           w[j] = cmdqueue[m] /\ cmdqueue[m].fd # fd
      /\ \A i, j \in DOMAIN w : w[i].fd = w[j].fd => i = j
  BY <1>2, WithoutIs
<1> HIDE DEF w
<1>6. Tracker!TypeOK'
  <2>1. announced' \in SUBSET Sids /\ removed_sid' \in BOOLEAN
    BY <1>1, <1>2 DEF Tracker!TypeOK
  <2> QED BY <1>1, <1>2, <1>4, <1>5, <2>1 DEF Tracker!TypeOK
<1>7. Tracker!EndsReadSid'
  BY <1>1, <1>5 DEF Tracker!SidInv, Tracker!EndsReadSid, Tracker!Terminator, Tracker!Command
<1>8. Tracker!NoDanglingSid'
  BY <1>1, <1>5 DEF Tracker!SidInv, Tracker!NoDanglingSid
<1>9. Tracker!NothingFound'
  BY <1>1, <1>5 DEF Tracker!SidInv, Tracker!NothingFound
<1> QED BY <1>6, <1>7, <1>8, <1>9 DEF Tracker!SidInv

LEMMA SidShutdown ==
  ASSUME Tracker!SidInv, Tracker!Shutdown
  PROVE  Tracker!SidInv'
<1> DEFINE C == Tracker!CommandType
           t == Tracker!Terminator
<1>1. /\ cmdqueue' = <<t>> \o cmdqueue
      /\ UNCHANGED <<tuned, tuning, sidlist, has_map, removed_sid, scan, low, announced>>
  BY DEF Tracker!Shutdown
<1>2. Tracker!TypeOK /\ cmdqueue \in Seq(C)
  BY DEF Tracker!SidInv, Tracker!TypeOK
<1>3. t \in C /\ t.fd = None /\ t.sid = None
  BY TerminatorIs
<1>4. \A i \in DOMAIN cmdqueue : cmdqueue[i].fd # None
  BY DEF Tracker!Shutdown, Tracker!Running, Tracker!SidInv, Tracker!EndsReadSid
<1> HIDE DEF C, t
<1>5. /\ cmdqueue' \in Seq(C) /\ DOMAIN cmdqueue' = 1 .. Len(cmdqueue) + 1
      /\ DOMAIN cmdqueue = 1 .. Len(cmdqueue) /\ Len(cmdqueue) \in Nat
      /\ cmdqueue'[1] = t /\ \A i \in 1 .. Len(cmdqueue) : cmdqueue'[i + 1] = cmdqueue[i]
  BY <1>1, <1>2, <1>3, Prepended, LenProperties
<1>6. \A i \in DOMAIN cmdqueue' :
        \/ i = 1 /\ cmdqueue'[i] = t
        \/ i - 1 \in DOMAIN cmdqueue /\ cmdqueue'[i] = cmdqueue[i - 1] /\ i \in Int
  <2> TAKE i \in DOMAIN cmdqueue'
  <2>1. CASE i = 1
    BY <1>5, <2>1
  <2>2. CASE i # 1
    <3>1. i - 1 \in 1 .. Len(cmdqueue) /\ (i - 1) + 1 = i
      BY <1>5, <2>2
    <3> QED BY <1>5, <3>1
  <2> QED BY <2>1, <2>2
<1>7. Tracker!TypeOK'
  <2>1. \A i, j \in DOMAIN cmdqueue' : cmdqueue'[i].fd = cmdqueue'[j].fd => i = j
    <3> SUFFICES ASSUME NEW i \in DOMAIN cmdqueue', NEW j \in DOMAIN cmdqueue',
                        cmdqueue'[i].fd = cmdqueue'[j].fd
                 PROVE  i = j
      OBVIOUS
    <3>0. /\ \A k \in DOMAIN cmdqueue' : cmdqueue'[k].fd = None => k = 1
          /\ cmdqueue'[1].fd = None
      BY <1>3, <1>4, <1>5, <1>6
    <3>1. CASE i = 1 \/ j = 1
      BY <3>0, <3>1
    <3>2. CASE i # 1 /\ j # 1
      <4>1. /\ i \in Int /\ j \in Int
            /\ i - 1 \in DOMAIN cmdqueue /\ j - 1 \in DOMAIN cmdqueue
            /\ cmdqueue[i - 1].fd = cmdqueue[j - 1].fd
        BY <1>6, <3>2
      <4>2. i - 1 = j - 1
        BY <1>2, <4>1 DEF Tracker!TypeOK
      <4> QED BY <4>1, <4>2
    <3> QED BY <3>1, <3>2
  <2> QED BY <1>1, <1>2, <1>5, <2>1 DEF Tracker!TypeOK, C
<1>8. Tracker!EndsReadSid'
  BY <1>4, <1>6 DEF Tracker!EndsReadSid, t, Tracker!Terminator, Tracker!Command
<1>9. Tracker!NoDanglingSid'
  BY <1>1, <1>3, <1>6 DEF Tracker!SidInv, Tracker!NoDanglingSid
<1>10. Tracker!NothingFound'
  BY <1>1, <1>3, <1>6 DEF Tracker!SidInv, Tracker!NothingFound
<1> QED BY <1>7, <1>8, <1>9, <1>10 DEF Tracker!SidInv

\* The steps that leave the commands and what is known about them alone.
LEMMA SidOthers ==
  ASSUME Tracker!SidInv,
         Tracker!FeClose \/ Tracker!RealTune \/ Tracker!Take \/ UNCHANGED trackerVars
  PROVE  Tracker!SidInv'
<1>1. Tracker!TypeOK
  BY DEF Tracker!SidInv
<1>2. /\ UNCHANGED <<cmdqueue, sidlist, has_map, removed_sid, scan>>
      /\ tuned' \in Transponders \cup {None} /\ tuning' \in Transponders \cup {None}
      /\ announced' \in SUBSET Sids
  BY <1>1 DEF Tracker!FeClose, Tracker!RealTune, Tracker!Take, trackerVars, Tracker!TypeOK
<1>3. low' \in Seq(Tracker!MessageType) /\ Len(low') <= MaxLow
  <2>1. CASE Tracker!FeClose
    BY <1>1, <2>1, ResetType DEF Tracker!FeClose
  <2>2. CASE Tracker!Take
    <3> DEFINE M == Tracker!MessageType
    <3>1. low \in Seq(M) /\ low # <<>> /\ low' = Tail(low) /\ Len(low) <= MaxLow
      BY <1>1, <2>2 DEF Tracker!Take, Tracker!TypeOK
    <3>2. MaxLow \in Nat
      BY ChannelCamAssumption DEF Tracker!ConstantsFit
    <3> HIDE DEF M
    <3>3. low' \in Seq(M) /\ Len(low) \in Nat /\ Len(low') = Len(low) - 1
      BY <3>1, TailStands
    <3> QED BY <3>1, <3>2, <3>3 DEF M
  <2>3. CASE Tracker!RealTune \/ UNCHANGED trackerVars
    BY <1>1, <2>3 DEF Tracker!RealTune, trackerVars, Tracker!TypeOK
  <2> QED BY <2>1, <2>2, <2>3
<1>4. Tracker!TypeOK'
  BY <1>1, <1>2, <1>3 DEF Tracker!TypeOK
<1>5. Tracker!EndsReadSid'
  BY <1>2 DEF Tracker!SidInv, Tracker!EndsReadSid, Tracker!Terminator, Tracker!Command
<1>6. Tracker!NoDanglingSid' /\ Tracker!NothingFound'
  BY <1>2 DEF Tracker!SidInv, Tracker!NoDanglingSid, Tracker!NothingFound
<1> QED BY <1>4, <1>5, <1>6 DEF Tracker!SidInv

\* A step of read_sid that looks nothing up.
LEMMA SidScanOnly ==
  ASSUME Tracker!SidInv, Tracker!ScanOnly, scan' \in Tracker!ScanType,
         sidlist' \in Seq(Sids), has_map' \in BOOLEAN,
         \/ UNCHANGED <<sidlist, has_map>> /\ scan'.at \in {"idle", "down"}
         \/ \A i \in DOMAIN cmdqueue : cmdqueue[i].sid = None
  PROVE  Tracker!SidInv'
<1>1. Tracker!TypeOK
  BY DEF Tracker!SidInv
<1>2. UNCHANGED <<tuned, tuning, cmdqueue, removed_sid, low, announced>>
  BY DEF Tracker!ScanOnly
<1>3. Tracker!TypeOK'
  BY <1>1, <1>2 DEF Tracker!TypeOK
<1>4. Tracker!EndsReadSid'
  BY <1>2 DEF Tracker!SidInv, Tracker!EndsReadSid, Tracker!Terminator, Tracker!Command
<1>5. Tracker!NoDanglingSid' /\ Tracker!NothingFound'
  BY <1>2 DEF Tracker!SidInv, Tracker!NoDanglingSid, Tracker!NothingFound
<1> QED BY <1>3, <1>4, <1>5 DEF Tracker!SidInv

LEMMA SidScan ==
  ASSUME Tracker!SidInv,
         \/ Tracker!Terminate \/ Tracker!Unlock \/ Tracker!Start \/ Tracker!ReadPat
         \/ Tracker!FailPat \/ Tracker!ReadNit \/ (\E s \in Sids : Tracker!ReadPmt(s))
         \/ Tracker!Return \/ Tracker!Settle
  PROVE  Tracker!SidInv'
<1> DEFINE none == \A i \in DOMAIN cmdqueue : cmdqueue[i].sid = None
<1>0. /\ scan \in Tracker!ScanType /\ sidlist \in Seq(Sids) /\ has_map \in BOOLEAN
      /\ tuned \in Transponders \cup {None}
      /\ \A t \in Transponders : Offers[t] \in SUBSET Sids
  BY ChannelCamAssumption DEF Tracker!SidInv, Tracker!TypeOK, Tracker!ConstantsFit
<1>1. CASE Tracker!Terminate
  <2>1. /\ Tracker!ScanOnly /\ UNCHANGED <<sidlist, has_map>>
        /\ scan' = [at |-> "down", tp |-> None, todo |-> {}, ret |-> FALSE]
    BY <1>1 DEF Tracker!Terminate, Tracker!Idle
  <2>2. scan' \in Tracker!ScanType /\ scan'.at = "down"
    BY <2>1 DEF Tracker!ScanType
  <2> QED BY <1>0, <2>1, <2>2, SidScanOnly
<1>2. CASE Tracker!Unlock
  <2>1. /\ Tracker!ScanOnly /\ UNCHANGED <<sidlist, has_map>> /\ ~has_map
        /\ scan' = [at |-> "start", tp |-> None, todo |-> {}, ret |-> FALSE]
    BY <1>2 DEF Tracker!Unlock, Tracker!Idle
  <2>2. scan' \in Tracker!ScanType
    BY <2>1 DEF Tracker!ScanType
  <2>3. none
    BY <2>1 DEF Tracker!SidInv, Tracker!NoDanglingSid
  <2> QED BY <1>0, <2>1, <2>2, <2>3, SidScanOnly
<1>3. ASSUME scan.at \notin {"idle", "down"} PROVE none
  BY <1>3 DEF Tracker!SidInv, Tracker!NothingFound
<1>4. CASE Tracker!Start
  <2>1. /\ Tracker!ScanOnly /\ UNCHANGED sidlist /\ has_map' = TRUE /\ scan.at = "start"
        /\ scan' = [at |-> "pat", tp |-> None, todo |-> {}, ret |-> FALSE]
    BY <1>4 DEF Tracker!Start, Tracker!Idle
  <2>2. scan' \in Tracker!ScanType
    BY <2>1 DEF Tracker!ScanType
  <2> QED BY <1>0, <1>3, <2>1, <2>2, SidScanOnly
<1>5. CASE Tracker!ReadPat
  <2>1. Tracker!ScanOnly /\ UNCHANGED <<sidlist, has_map>> /\ scan.at = "pat"
    BY <1>5 DEF Tracker!ReadPat
  <2>2. PICK tp \in Tracker!Received :
          scan' = [scan EXCEPT !.at = IF tp \in AnnouncesNit THEN "nit" ELSE "pmt",
                               !.tp = tp, !.todo = Offers[tp]]
    BY <1>5 DEF Tracker!ReadPat
  <2>3. tp \in Transponders
    BY <1>0 DEF Tracker!Received
  <2>4. scan' \in Tracker!ScanType
    BY <1>0, <2>2, <2>3 DEF Tracker!ScanType
  <2> QED BY <1>0, <1>3, <2>1, <2>4, SidScanOnly
<1>6. CASE Tracker!FailPat \/ Tracker!Return
  <2>1. /\ Tracker!ScanOnly /\ UNCHANGED <<sidlist, has_map>> /\ scan.at \in {"pat", "pmt"}
        /\ \E r \in BOOLEAN :
             scan' = [at |-> "settle", tp |-> None, todo |-> {}, ret |-> r]
    BY <1>6 DEF Tracker!FailPat, Tracker!Return, Tracker!Idle
  <2>2. scan' \in Tracker!ScanType
    BY <2>1 DEF Tracker!ScanType
  <2> QED BY <1>0, <1>3, <2>1, <2>2, SidScanOnly
<1>7. CASE Tracker!ReadNit
  <2>1. /\ Tracker!ScanOnly /\ UNCHANGED <<sidlist, has_map>> /\ scan.at = "nit"
        /\ scan' = [scan EXCEPT !.at = "pmt"]
    BY <1>7 DEF Tracker!ReadNit
  <2>2. scan' \in Tracker!ScanType
    BY <1>0, <2>1 DEF Tracker!ScanType
  <2> QED BY <1>0, <1>3, <2>1, <2>2, SidScanOnly
<1>8. ASSUME NEW s \in Sids, Tracker!ReadPmt(s) PROVE Tracker!SidInv'
  <2>1. /\ Tracker!ScanOnly /\ UNCHANGED has_map /\ scan.at = "pmt"
        /\ scan' = [scan EXCEPT !.todo = @ \ {s}] /\ sidlist' = <<s>> \o sidlist
    BY <1>8 DEF Tracker!ReadPmt
  <2>2. scan' \in Tracker!ScanType
    BY <1>0, <2>1 DEF Tracker!ScanType
  <2>3. sidlist' \in Seq(Sids)
    BY <1>0, <2>1, Prepended
  <2> QED BY <1>0, <1>3, <2>1, <2>2, <2>3, SidScanOnly
<1>9. CASE Tracker!Settle
  <2>1. /\ Tracker!ScanOnly /\ scan.at = "settle"
        /\ has_map' \in BOOLEAN /\ sidlist' = IF has_map' THEN sidlist ELSE <<>>
        /\ scan' = [at |-> "idle", tp |-> None, todo |-> {}, ret |-> FALSE]
    BY <1>9 DEF Tracker!Settle, Tracker!Idle
  <2>2. scan' \in Tracker!ScanType
    BY <2>1 DEF Tracker!ScanType
  <2>3. sidlist' \in Seq(Sids)
    BY <1>0, <2>1, EmptySeq
  <2> QED BY <1>0, <1>3, <2>1, <2>2, <2>3, SidScanOnly
<1> QED BY <1>1, <1>2, <1>4, <1>5, <1>6, <1>7, <1>8, <1>9

LEMMA SidLookUp ==
  ASSUME Tracker!SidInv, Tracker!LookUp
  PROVE  Tracker!SidInv'
<1> DEFINE c == Tracker!Chosen
           found == Tracker!FindPid(cmdqueue[c].pid)
           sid == IF found = {} THEN None ELSE CHOOSE s \in found : TRUE
           C == Tracker!CommandType
<1>1. /\ scan.at = "idle" /\ Tracker!Pending # {} /\ has_map /\ Len(low) < MaxLow
      /\ cmdqueue[c] # Tracker!Terminator
      /\ cmdqueue' = [cmdqueue EXCEPT ![c].checked = TRUE, ![c].sid = sid]
      /\ low' = low \o Tracker!SetToSeq({Tracker!Message("add", s) : s \in found})
      /\ announced' = announced \cup found
      /\ UNCHANGED <<tuned, tuning, sidlist, has_map, removed_sid, scan>>
  BY DEF Tracker!LookUp
<1>2. Tracker!TypeOK /\ cmdqueue \in Seq(C) /\ low \in Seq(Tracker!MessageType)
  BY DEF Tracker!SidInv, Tracker!TypeOK
<1>3. c \in DOMAIN cmdqueue
  BY <1>1, <1>2, ChosenIs
<1>4. found = {} \/ \E j \in DOMAIN sidlist : found = {sidlist[j]}
  BY <1>2, FindPidIs
<1> HIDE DEF found, c
<1>5. \/ found = {} /\ sid = None
      \/ \E j \in DOMAIN sidlist : found = {sid} /\ sid = sidlist[j] /\ sid \in Sids
  <2>1. \A j \in DOMAIN sidlist : sidlist[j] \in Sids
    BY <1>2, LenProperties, ElementOfSeq DEF Tracker!TypeOK
  <2> QED BY <1>4, <2>1
<1> HIDE DEF sid
<1>6. low' \in Seq(Tracker!MessageType) /\ Len(low') <= MaxLow
  <2> DEFINE T == {Tracker!Message("add", s) : s \in found}
  <2>1. found = {} => T = {}
    OBVIOUS
  <2>2. found = {sid} => T = {Tracker!Message("add", sid)}
    OBVIOUS
  <2>3. low' = low \o Tracker!SetToSeq(T)
    BY <1>1
  <2> HIDE DEF T
  <2>4. low' = low \/ (sid \in Sids /\ low' = Append(low, Tracker!Message("add", sid)))
    BY <1>2, <1>5, <2>1, <2>2, <2>3, MessagesAre
  <2>5. Len(low) <= MaxLow /\ Len(low) <= Len(low)
    <3>1. Len(low) \in Nat /\ MaxLow \in Nat
      BY <1>2, LenProperties, ChannelCamAssumption DEF Tracker!ConstantsFit
    <3> QED BY <1>1, <3>1
  <2> QED BY <1>1, <1>2, <2>4, <2>5, SentType
<1>7. /\ cmdqueue' \in Seq(C) /\ DOMAIN cmdqueue' = DOMAIN cmdqueue
      /\ \A i \in DOMAIN cmdqueue : i # c => cmdqueue'[i] = cmdqueue[i]
      /\ cmdqueue'[c].fd = cmdqueue[c].fd /\ cmdqueue'[c].checked /\ cmdqueue'[c].sid = sid
  <2> DEFINE e == [cmdqueue[c] EXCEPT !.checked = TRUE, !.sid = sid]
  <2>1. cmdqueue[c] \in C
    BY <1>2, <1>3, LenProperties, ElementOfSeq
  <2>2. sid \in Sids \cup {None}
    BY <1>5
  <2>3. e \in C /\ e.fd = cmdqueue[c].fd /\ e.checked = TRUE /\ e.sid = sid
    BY <2>1, <2>2 DEF Tracker!CommandType
  <2>4. cmdqueue' = [cmdqueue EXCEPT ![c] = e]
    BY <1>1
  <2>5. Len(cmdqueue) \in Nat /\ DOMAIN cmdqueue = 1 .. Len(cmdqueue)
    BY <1>2, LenProperties
  <2> HIDE DEF e, C
  <2>6. cmdqueue' \in Seq(C)
    BY <1>2, <1>3, <2>3, <2>4, ExceptSeq
  <2>7. DOMAIN cmdqueue' = DOMAIN cmdqueue
    BY <2>4
  <2>8. cmdqueue'[c] = e /\ \A i \in DOMAIN cmdqueue : i # c => cmdqueue'[i] = cmdqueue[i]
    BY <1>3, <2>4
  <2> QED BY <2>3, <2>6, <2>7, <2>8 DEF C
<1>8. Tracker!TypeOK'
  <2>1. \A i, j \in DOMAIN cmdqueue' : cmdqueue'[i].fd = cmdqueue'[j].fd => i = j
    <3>1. \A i \in DOMAIN cmdqueue : cmdqueue'[i].fd = cmdqueue[i].fd
      BY <1>7
    <3> QED BY <1>2, <1>7, <3>1 DEF Tracker!TypeOK
  <2>2. announced' \in SUBSET Sids
    BY <1>1, <1>2, <1>5 DEF Tracker!TypeOK
  <2> QED BY <1>1, <1>2, <1>6, <1>7, <2>1, <2>2 DEF Tracker!TypeOK
<1>9. Tracker!EndsReadSid'
  <2> SUFFICES ASSUME NEW i \in DOMAIN cmdqueue, cmdqueue'[i].fd = None
               PROVE  cmdqueue'[i] = Tracker!Terminator
    BY <1>7 DEF Tracker!EndsReadSid, Tracker!Terminator, Tracker!Command
  <2>1. cmdqueue[i].fd = None
    BY <1>7
  <2>2. cmdqueue[i] = Tracker!Terminator
    BY <2>1 DEF Tracker!SidInv, Tracker!EndsReadSid
  <2>3. i # c
    BY <1>1, <2>2
  <2> QED BY <1>7, <2>2, <2>3
<1>10. Tracker!NoDanglingSid'
  <2> SUFFICES ASSUME NEW i \in DOMAIN cmdqueue, cmdqueue'[i].sid # None
               PROVE  /\ cmdqueue'[i].checked /\ has_map
                      /\ \E j \in DOMAIN sidlist : sidlist[j] = cmdqueue'[i].sid
    BY <1>1, <1>7 DEF Tracker!NoDanglingSid
  <2>1. CASE i = c
    BY <1>1, <1>5, <1>7, <2>1
  <2>2. CASE i # c
    BY <1>7, <2>2 DEF Tracker!SidInv, Tracker!NoDanglingSid
  <2> QED BY <2>1, <2>2
<1>11. Tracker!NothingFound'
  BY <1>1 DEF Tracker!NothingFound
<1> QED BY <1>8, <1>9, <1>10, <1>11 DEF Tracker!SidInv

LEMMA SidTracker ==
  ASSUME Tracker!SidInv, Tracker!Next \/ UNCHANGED trackerVars
  PROVE  Tracker!SidInv'
BY SidFeTune, SidSetDemux, SidCloseDemux, SidShutdown, SidOthers, SidScan, SidLookUp
   DEF Tracker!Next, Tracker!Request, Tracker!ReadSid

\* What the system does with the tracker is a step of the tracker.
LEMMA TrackerSteps ==
  ASSUME [SystemNext]_allVars PROVE Tracker!Next \/ UNCHANGED trackerVars
BY DEF SystemNext, Tracking, Handle, Calls, allVars, trackerVars, Tracker!Next

LEMMA SystemSid == System => []Tracker!SidInv
<1>1. SystemInit => Tracker!SidInv
  BY SidInit DEF SystemInit
<1>2. Tracker!SidInv /\ [SystemNext]_allVars => Tracker!SidInv'
  BY SidTracker, TrackerSteps
<1> QED BY <1>1, <1>2, PTL DEF System

\* The variables of the tracker have their types in the whole system.
THEOREM TrackerTyped == System => []Tracker!TypeOK
BY SystemSid, PTL DEF Tracker!SidInv

\* A command never points to a service that is no longer on the list of the map:
\* neither a tune, nor a dropped map, nor a failed scan leaves one behind.
THEOREM SidsStand == System => []NoDanglingSid
<1>1. Tracker!SidInv => NoDanglingSid
  BY DEF Tracker!SidInv, NoDanglingSid
<1> QED BY <1>1, SystemSid, PTL

-----------------------------------------------------------------------------
(* The services announced have a filter.                                   *)

\* The queue with one command replaced, dropped or added keeps the services the
\* rest points to.
LEMMA OrphanIs ==
  ASSUME Tracker!TypeOK
  PROVE  Tracker!NoOrphan <=>
           \A s \in announced : \E i \in DOMAIN cmdqueue : cmdqueue[i].sid = s
<1>1. announced \subseteq Sids /\ None \notin Sids
  BY ChannelCamAssumption DEF Tracker!TypeOK, Tracker!ConstantsFit
<1> QED BY <1>1 DEF Tracker!NoOrphan, Tracker!Viewed

\* What is still announced when the services of fd are withdrawn is of another file.
LEMMA OrphanWithout ==
  ASSUME Tracker!TypeOK, Tracker!NoOrphan, NEW fd,
         NEW s \in announced \ ({cmdqueue[i].sid : i \in Tracker!CommandsOf(fd)} \ {None})
  PROVE  \E j \in DOMAIN Tracker!Without(fd) : Tracker!Without(fd)[j].sid = s
<1> DEFINE w == Tracker!Without(fd)
<1>1. PICK i \in DOMAIN cmdqueue : cmdqueue[i].sid = s
  BY OrphanIs
<1>2. s # None
  BY ChannelCamAssumption DEF Tracker!TypeOK, Tracker!ConstantsFit
<1>3. cmdqueue[i].fd # fd
  BY <1>1, <1>2 DEF Tracker!CommandsOf
<1>4. \A m \in DOMAIN cmdqueue : cmdqueue[m].fd # fd => \E j \in DOMAIN w : w[j] = cmdqueue[m]
  BY WithoutIs
<1> QED BY <1>1, <1>3, <1>4

LEMMA OrphanTracker ==
  ASSUME ~NoCache, Tracker!SidInv, Tracker!NoOrphan, Tracker!Next \/ UNCHANGED trackerVars
  PROVE  Tracker!NoOrphan'
<1> DEFINE Held == \A s \in announced : \E i \in DOMAIN cmdqueue : cmdqueue[i].sid = s
<1>1. Tracker!TypeOK /\ Tracker!SidInv'
  BY SidTracker DEF Tracker!SidInv
<1>2. Held
  BY <1>1, OrphanIs
<1>3. SUFFICES \A s \in announced' : \E i \in DOMAIN cmdqueue' : cmdqueue'[i].sid = s
  <2>1. Tracker!TypeOK'
    BY <1>1 DEF Tracker!SidInv
  <2>2. None \notin Sids /\ announced' \subseteq Sids
    BY <2>1, ChannelCamAssumption DEF Tracker!TypeOK, Tracker!ConstantsFit
  <2> QED BY <2>2 DEF Tracker!NoOrphan, Tracker!Viewed
<1>4. ASSUME NEW tp, Tracker!FeTune(tp) \/ Tracker!FeClose PROVE announced' = {}
  BY <1>4 DEF Tracker!FeTune, Tracker!FeClose
<1>5. ASSUME NEW fd \in Fds, NEW pid \in FilterPids, Tracker!SetDemux(fd, pid)
      PROVE  \A s \in announced' : \E i \in DOMAIN cmdqueue' : cmdqueue'[i].sid = s
  <2> DEFINE w == Tracker!Without(fd)
             c == Tracker!Command(fd, pid)
             old == {cmdqueue[i].sid : i \in Tracker!CommandsOf(fd)} \ {None}
             C == Tracker!CommandType
  <2>1. cmdqueue' = Append(w, c) /\ announced' = announced \ old
    BY <1>5 DEF Tracker!SetDemux
  <2>2. w \in Seq(C) /\ c \in C
    BY <1>1, WithoutIs DEF Tracker!Command, Tracker!CommandType
  <2>3. \A s \in announced \ old : \E j \in DOMAIN w : w[j].sid = s
    BY <1>1, OrphanWithout
  <2> HIDE DEF w, c, C, old
  <2>4. \A j \in DOMAIN w : j \in DOMAIN cmdqueue' /\ cmdqueue'[j] = w[j]
    BY <2>1, <2>2, AppendStands
  <2> QED BY <2>1, <2>3, <2>4
<1>6. ASSUME NEW fd \in Fds, Tracker!CloseDemux(fd)
      PROVE  \A s \in announced' : \E i \in DOMAIN cmdqueue' : cmdqueue'[i].sid = s
  <2> DEFINE old == {cmdqueue[i].sid : i \in Tracker!CommandsOf(fd)} \ {None}
  <2>1. cmdqueue' = Tracker!Without(fd) /\ announced' = announced \ old
    BY <1>6 DEF Tracker!CloseDemux
  <2>2. \A s \in announced \ old : \E j \in DOMAIN cmdqueue' : cmdqueue'[j].sid = s
    BY <1>1, <2>1, OrphanWithout
  <2> QED BY <2>1, <2>2
<1>7. CASE Tracker!Shutdown
  <2> DEFINE t == Tracker!Terminator
             C == Tracker!CommandType
  <2>1. cmdqueue' = <<t>> \o cmdqueue /\ announced' = announced
    BY <1>7 DEF Tracker!Shutdown
  <2>2. cmdqueue \in Seq(C) /\ t \in C
    BY <1>1, TerminatorIs DEF Tracker!TypeOK
  <2> HIDE DEF t, C
  <2>3. /\ DOMAIN cmdqueue' = 1 .. Len(cmdqueue) + 1
        /\ DOMAIN cmdqueue = 1 .. Len(cmdqueue) /\ Len(cmdqueue) \in Nat
        /\ \A i \in 1 .. Len(cmdqueue) : cmdqueue'[i + 1] = cmdqueue[i]
    BY <2>1, <2>2, Prepended, LenProperties
  <2>4. \A i \in DOMAIN cmdqueue : i + 1 \in DOMAIN cmdqueue' /\ cmdqueue'[i + 1] = cmdqueue[i]
    BY <2>3
  <2>5. ASSUME NEW s \in announced' PROVE \E i \in DOMAIN cmdqueue' : cmdqueue'[i].sid = s
    <3>1. PICK i \in DOMAIN cmdqueue : cmdqueue[i].sid = s
      BY <1>2, <2>1, <2>5
    <3>2. i + 1 \in DOMAIN cmdqueue' /\ cmdqueue'[i + 1].sid = s
      BY <2>4, <3>1
    <3> QED BY <3>2
  <2> QED BY <2>5
<1>8. CASE Tracker!LookUp
  <2> DEFINE c == Tracker!Chosen
             found == Tracker!FindPid(cmdqueue[c].pid)
             sid == IF found = {} THEN None ELSE CHOOSE s \in found : TRUE
  <2>1. /\ Tracker!Pending # {} /\ announced' = announced \cup found
        /\ cmdqueue' = [cmdqueue EXCEPT ![c].checked = TRUE, ![c].sid = sid]
    BY <1>8 DEF Tracker!LookUp
  <2>2. c \in DOMAIN cmdqueue /\ ~cmdqueue[c].checked
    BY <1>1, <2>1, ChosenIs
  <2>3. cmdqueue[c].sid = None
    BY <2>2 DEF Tracker!SidInv, Tracker!NoDanglingSid
  <2>4. found = {} \/ found = {sid}
    <3>1. found = {} \/ \E j \in DOMAIN sidlist : found = {sidlist[j]}
      BY <1>1, FindPidIs
    <3> HIDE DEF found
    <3> QED BY <3>1
  <2>5. cmdqueue[c] \in Tracker!CommandType
    <3>1. cmdqueue \in Seq(Tracker!CommandType)
      BY <1>1 DEF Tracker!TypeOK
    <3> QED BY <2>2, <3>1, LenProperties, ElementOfSeq
  <2> HIDE DEF c, found, sid
  <2>6. /\ DOMAIN cmdqueue' = DOMAIN cmdqueue
        /\ \A i \in DOMAIN cmdqueue : i # c => cmdqueue'[i] = cmdqueue[i]
    BY <2>1
  <2>7. cmdqueue'[c].sid = sid
    BY <2>1, <2>2, <2>5 DEF Tracker!CommandType
  <2>8. None \notin announced
    BY <1>1, ChannelCamAssumption DEF Tracker!TypeOK, Tracker!ConstantsFit
  <2> QED BY <1>2, <2>1, <2>2, <2>3, <2>4, <2>6, <2>7, <2>8
<1>9. CASE UNCHANGED <<cmdqueue, announced>>
  BY <1>2, <1>9
<1>10. ASSUME \/ Tracker!RealTune \/ Tracker!Take \/ UNCHANGED trackerVars
              \/ Tracker!ScanOnly
       PROVE  UNCHANGED <<cmdqueue, announced>>
  BY <1>10 DEF Tracker!RealTune, Tracker!Take, trackerVars, Tracker!ScanOnly
<1>11. Tracker!ReadSid => Tracker!LookUp \/ Tracker!ScanOnly
  BY DEF Tracker!ReadSid, Tracker!Terminate, Tracker!Unlock, Tracker!Start,
         Tracker!ReadPat, Tracker!FailPat, Tracker!ReadNit, Tracker!ReadPmt,
         Tracker!Return, Tracker!Settle
<1> QED BY <1>4, <1>5, <1>6, <1>7, <1>8, <1>9, <1>10, <1>11
        DEF Tracker!Next, Tracker!Request

\* A service stays announced only while some filter has it.  Without --sid-nocache:
\* with it set_demux forgets the service of the old filter before it could be
\* withdrawn.
THEOREM AnnouncedHasFilter == ASSUME ~NoCache PROVE System => []NoOrphan
<1>1. SystemInit => Tracker!NoOrphan
  BY DEF SystemInit, Tracker!Init, Tracker!NoOrphan
<1>2. Tracker!SidInv /\ Tracker!NoOrphan /\ [SystemNext]_allVars => Tracker!NoOrphan'
  BY OrphanTracker, TrackerSteps
<1>3. System => []Tracker!NoOrphan
  BY <1>1, <1>2, SystemSid, PTL DEF System
<1> QED BY <1>3, PTL DEF NoOrphan

-----------------------------------------------------------------------------
(* The map is of the transponder that is tuned.                            *)

LEMMA MapStep ==
  ASSUME ~Late, Tracker!SidInv, Tracker!MapInv, Tracker!Next \/ UNCHANGED trackerVars
  PROVE  Tracker!MapInv'
<1>0. /\ scan \in Tracker!ScanType /\ sidlist \in Seq(Sids) /\ has_map \in BOOLEAN
      /\ tuned \in Transponders \cup {None} /\ None \notin Transponders
  BY ChannelCamAssumption DEF Tracker!SidInv, Tracker!TypeOK, Tracker!ConstantsFit
<1>1. CASE UNCHANGED <<sidlist, has_map, scan, tuning>> /\ tuned' \in {tuned, None}
  BY <1>1 DEF Tracker!MapInv, Tracker!ReadOf, Tracker!ToSet
<1>2. CASE has_map' = FALSE /\ sidlist' = <<>> /\ scan' = scan
  BY <1>2 DEF Tracker!MapInv
<1>3. CASE Tracker!RealTune
  BY <1>3 DEF Tracker!RealTune, Tracker!MapInv
<1>4. CASE Tracker!Request \/ Tracker!LookUp \/ Tracker!Take \/ UNCHANGED trackerVars
  <2>1. ASSUME NEW tp, Tracker!FeTune(tp)
        PROVE  has_map' = FALSE /\ sidlist' = <<>> /\ scan' = scan
    BY <2>1 DEF Tracker!FeTune
  <2>2. ASSUME NEW fd, NEW pid, Tracker!SetDemux(fd, pid)
        PROVE  \/ has_map' = FALSE /\ sidlist' = <<>> /\ scan' = scan
               \/ UNCHANGED <<sidlist, has_map, scan, tuning>> /\ tuned' \in {tuned, None}
    BY <2>2 DEF Tracker!SetDemux
  <2>3. ASSUME NEW fd,
               \/ Tracker!CloseDemux(fd) \/ Tracker!FeClose \/ Tracker!Shutdown
               \/ Tracker!LookUp \/ Tracker!Take \/ UNCHANGED trackerVars
        PROVE  UNCHANGED <<sidlist, has_map, scan, tuning>> /\ tuned' \in {tuned, None}
    BY <2>3 DEF Tracker!CloseDemux, Tracker!FeClose, Tracker!Shutdown, Tracker!LookUp,
                Tracker!Take, trackerVars
  <2> QED BY <1>1, <1>2, <1>4, <2>1, <2>2, <2>3 DEF Tracker!Request
<1>5. CASE Tracker!Terminate \/ Tracker!Unlock
  <2>1. /\ UNCHANGED <<sidlist, has_map, tuned, tuning>> /\ scan.at = "idle" /\ ~scan'.ret
        /\ scan'.at = "down" \/ (scan'.at = "start" /\ ~has_map)
    BY <1>5 DEF Tracker!Terminate, Tracker!Unlock, Tracker!Idle, Tracker!ScanOnly
  <2>2. ~scan.ret
    BY <2>1 DEF Tracker!MapInv
  <2> QED BY <2>1, <2>2 DEF Tracker!MapInv, Tracker!ReadOf, Tracker!ToSet
<1>6. CASE Tracker!Start
  <2>1. scan.at = "start" /\ sidlist' = sidlist /\ scan'.at = "pat" /\ ~scan'.ret
    BY <1>6 DEF Tracker!Start, Tracker!Idle
  <2> QED BY <2>1 DEF Tracker!MapInv
<1>7. CASE Tracker!ReadPat
  <2>1. /\ Tracker!ScanOnly /\ UNCHANGED <<sidlist, has_map>> /\ scan.at = "pat"
        /\ Tracker!Received # {}
    BY <1>7 DEF Tracker!ReadPat
  <2>2. tuning = None /\ Tracker!Received = {tuned} \ {None}
    BY <2>1 DEF Tracker!Received
  <2>3. PICK tp \in {tuned} \ {None} :
          scan' = [scan EXCEPT !.at = IF tp \in AnnouncesNit THEN "nit" ELSE "pmt",
                               !.tp = tp, !.todo = Offers[tp]]
    BY <1>7, <2>2 DEF Tracker!ReadPat
  <2>4. /\ scan'.at \in {"nit", "pmt"} /\ scan'.tp = tuned /\ scan'.todo = Offers[tuned]
        /\ scan'.ret = scan.ret /\ tuned # None
    BY <1>0, <2>3 DEF Tracker!ScanType
  <2>5. sidlist' = <<>> /\ UNCHANGED <<tuned, tuning>> /\ ~scan.ret
    BY <2>1 DEF Tracker!MapInv, Tracker!ScanOnly
  <2>6. Tracker!ToSet(sidlist') = {}
    BY <2>5 DEF Tracker!ToSet
  <2>7. Tracker!ReadOf(tuned, Offers[tuned])'
    BY <2>5, <2>6 DEF Tracker!ReadOf
  <2> QED BY <2>2, <2>4, <2>5, <2>7 DEF Tracker!MapInv
<1>8. CASE Tracker!FailPat
  <2>1. /\ UNCHANGED <<sidlist, has_map>> /\ scan.at = "pat" /\ scan'.at = "settle"
        /\ scan'.ret
    BY <1>8 DEF Tracker!FailPat, Tracker!Idle
  <2> QED BY <2>1 DEF Tracker!MapInv
<1>9. CASE Tracker!ReadNit
  <2>1. /\ Tracker!ScanOnly /\ UNCHANGED <<sidlist, has_map>> /\ scan.at = "nit"
        /\ scan' = [scan EXCEPT !.at = "pmt"]
    BY <1>9 DEF Tracker!ReadNit
  <2>2. /\ scan'.at = "pmt" /\ scan'.tp = scan.tp /\ scan'.todo = scan.todo
        /\ scan'.ret = scan.ret /\ UNCHANGED <<tuned, tuning>>
    BY <1>0, <2>1 DEF Tracker!ScanType, Tracker!ScanOnly
  <2> QED BY <2>1, <2>2 DEF Tracker!MapInv, Tracker!ReadOf, Tracker!ToSet
<1>10. ASSUME NEW s \in Sids, Tracker!ReadPmt(s) PROVE Tracker!MapInv'
  <2>1. /\ Tracker!ScanOnly /\ has_map' = has_map /\ has_map /\ scan.at = "pmt"
        /\ s \in scan.todo /\ sidlist' = <<s>> \o sidlist
        /\ scan' = [scan EXCEPT !.todo = @ \ {s}]
    BY <1>10 DEF Tracker!ReadPmt
  <2>2. /\ scan'.at = "pmt" /\ scan'.tp = scan.tp /\ scan'.todo = scan.todo \ {s}
        /\ scan'.ret = scan.ret /\ UNCHANGED <<tuned, tuning>>
    BY <1>0, <2>1 DEF Tracker!ScanType, Tracker!ScanOnly
  <2>3. Tracker!ToSet(sidlist') = Tracker!ToSet(sidlist) \cup {s}
    <3>1. /\ DOMAIN sidlist' = 1 .. Len(sidlist) + 1
          /\ DOMAIN sidlist = 1 .. Len(sidlist) /\ Len(sidlist) \in Nat
          /\ sidlist'[1] = s /\ \A i \in 1 .. Len(sidlist) : sidlist'[i + 1] = sidlist[i]
      BY <1>0, <2>1, Prepended, LenProperties
    <3>2. \A i \in DOMAIN sidlist' :
            i = 1 \/ (i - 1 \in DOMAIN sidlist /\ sidlist'[i] = sidlist[i - 1])
      <4> TAKE i \in DOMAIN sidlist'
      <4>1. CASE i # 1
        <5>1. i - 1 \in 1 .. Len(sidlist) /\ (i - 1) + 1 = i
          BY <3>1, <4>1
        <5> QED BY <3>1, <5>1
      <4> QED BY <4>1
    <3>3. 1 \in DOMAIN sidlist' /\ \A i \in DOMAIN sidlist : i + 1 \in DOMAIN sidlist'
      BY <3>1
    <3>4. Tracker!ToSet(sidlist') \subseteq Tracker!ToSet(sidlist) \cup {s}
      BY <3>1, <3>2 DEF Tracker!ToSet
    <3>5. \A i \in DOMAIN sidlist : sidlist'[i + 1] = sidlist[i]
      BY <3>1
    <3>6. Tracker!ToSet(sidlist) \subseteq Tracker!ToSet(sidlist')
      BY <3>3, <3>5 DEF Tracker!ToSet
    <3>7. s \in Tracker!ToSet(sidlist')
      BY <3>1, <3>3 DEF Tracker!ToSet
    <3> QED BY <3>4, <3>6, <3>7
  <2>4. /\ tuning = None /\ tuned \in {scan.tp, None} /\ scan.tp # None /\ ~scan.ret
        /\ scan.todo \subseteq Offers[scan.tp] /\ Tracker!ReadOf(scan.tp, scan.todo)
    BY <2>1 DEF Tracker!MapInv
  <2>5. Tracker!ReadOf(scan.tp, scan.todo)' /\ scan'.todo \subseteq Offers[scan'.tp]
    BY <2>1, <2>2, <2>3, <2>4 DEF Tracker!ReadOf
  <2> QED BY <2>1, <2>2, <2>4, <2>5 DEF Tracker!MapInv
<1>11. CASE Tracker!Return
  <2>1. /\ Tracker!ScanOnly /\ UNCHANGED <<sidlist, has_map>> /\ scan.at = "pmt"
        /\ scan.todo = {} \/ ~has_map \/ Lossy \/ scan.tp \notin Tracker!Received
        /\ scan'.at = "settle" /\ ~scan'.ret
    BY <1>11 DEF Tracker!Return, Tracker!Idle
  <2>2. UNCHANGED <<tuned, tuning>>
    BY <2>1 DEF Tracker!ScanOnly
  <2>3. ASSUME has_map PROVE tuning = None /\ (tuned # None => Tracker!ReadOf(tuned, {}))
    <3>1. /\ tuning = None /\ tuned \in {scan.tp, None} /\ scan.tp # None
          /\ Tracker!ReadOf(scan.tp, scan.todo)
      BY <2>1, <2>3 DEF Tracker!MapInv
    <3>2. tuned # None => scan.todo = {} \/ Lossy
      BY <2>1, <2>3, <3>1 DEF Tracker!Received
    <3> QED BY <3>1, <3>2 DEF Tracker!ReadOf
  <2>4. ~has_map => sidlist = <<>>
    BY DEF Tracker!MapInv
  <2>5. Tracker!ReadOf(tuned, {})' <=> Tracker!ReadOf(tuned, {})
    BY <2>1, <2>2 DEF Tracker!ReadOf, Tracker!ToSet
  <2> QED BY <2>1, <2>2, <2>3, <2>4, <2>5 DEF Tracker!MapInv
<1>12. CASE Tracker!Settle
  <2>1. /\ Tracker!ScanOnly /\ scan.at = "settle" /\ has_map' = (has_map /\ ~scan.ret)
        /\ sidlist' = (IF has_map' THEN sidlist ELSE <<>>)
        /\ scan'.at = "idle" /\ ~scan'.ret
    BY <1>12 DEF Tracker!Settle, Tracker!Idle
  <2>2. UNCHANGED <<tuned, tuning>>
    BY <2>1 DEF Tracker!ScanOnly
  <2>3. has_map' => tuning = None /\ (tuned # None => Tracker!ReadOf(tuned, {}))
    BY <2>1 DEF Tracker!MapInv
  <2>4. has_map' => (Tracker!ReadOf(tuned, {})' <=> Tracker!ReadOf(tuned, {}))
    BY <2>1, <2>2 DEF Tracker!ReadOf, Tracker!ToSet
  <2>5. ~has_map' => sidlist' = <<>>
    BY <2>1
  <2> QED BY <2>1, <2>2, <2>3, <2>4, <2>5 DEF Tracker!MapInv
<1> QED BY <1>3, <1>4, <1>5, <1>6, <1>7, <1>8, <1>9, <1>10, <1>11, <1>12
        DEF Tracker!Next, Tracker!ReadSid

LEMMA SystemMap == ASSUME ~Late PROVE System => []Tracker!MapInv
<1>1. SystemInit => Tracker!MapInv
  BY DEF SystemInit, Tracker!Init, Tracker!Idle, Tracker!MapInv
<1>2. Tracker!SidInv /\ Tracker!MapInv /\ [SystemNext]_allVars => Tracker!MapInv'
  BY MapStep, TrackerSteps
<1> QED BY <1>1, <1>2, SystemSid, PTL DEF System

\* A map that is used is of the transponder that is received, and complete when no
\* PMT is lost, however a tune comes into a scan.  The transponder that is left is
\* taken to deliver nothing more once fe_tune has run.
THEOREM MapFollowsTune == ASSUME ~Late PROVE System => []MapIsTuned
<1>1. Tracker!MapInv => MapIsTuned
  <2> SUFFICES ASSUME Tracker!MapInv, scan.at = "idle", has_map, tuned # None, tuning = None
               PROVE  /\ Tracker!ToSet(sidlist) \subseteq Offers[tuned]
                      /\ Lossy \/ Tracker!ToSet(sidlist) = Offers[tuned]
    BY DEF MapIsTuned, Tracker!MapIsTuned
  <2>1. Tracker!ReadOf(tuned, {})
    BY DEF Tracker!MapInv
  <2> QED BY <2>1 DEF Tracker!ReadOf
<1> QED BY <1>1, SystemMap, PTL

-----------------------------------------------------------------------------
(* What is announced and what process_cam views.                           *)

\* What a message at the end of the queue changes.
LEMMA AppendSays ==
  ASSUME NEW q \in Seq(Tracker!MessageType), NEW m \in Tracker!MessageType, NEW s
  PROVE  /\ Added(Append(q, m), s) <=>
              \/ m.type = "add" /\ m.sid = s
              \/ Added(q, s) /\ ~Withdraws(m, s)
         /\ Untouched(Append(q, m), s) <=> Untouched(q, s) /\ ~Withdraws(m, s)
<1> DEFINE r == Append(q, m)
           n == Len(q) + 1
           adds(x) == x.type = "add" /\ x.sid = s
           M == Tracker!MessageType
<1>1. /\ n \notin DOMAIN q /\ DOMAIN r = DOMAIN q \cup {n}
      /\ \A i \in DOMAIN q : r[i] = q[i]
      /\ r[n] = m
  BY AppendStands
<1>2. \A i \in DOMAIN q : i < n /\ ~(n < i)
  BY LenProperties
<1>3. ~(n < n)
  BY LenProperties
<1>4. Untouched(r, s) <=> Untouched(q, s) /\ ~Withdraws(m, s)
  <2> HIDE DEF r, n
  <2> QED BY <1>1 DEF Untouched
<1> HIDE DEF r, n, adds
<1>5. ASSUME Added(r, s) PROVE adds(m) \/ (Added(q, s) /\ ~Withdraws(m, s))
  <2>1. PICK i \in DOMAIN r : adds(r[i]) /\ \A j \in DOMAIN r : i < j => ~Withdraws(r[j], s)
    BY <1>5 DEF Added, adds
  <2>2. CASE i = n
    BY <1>1, <2>1, <2>2
  <2>3. CASE i # n
    <3>1. i \in DOMAIN q /\ adds(q[i]) /\ ~Withdraws(m, s)
      BY <1>1, <1>2, <2>1, <2>3
    <3>2. \A j \in DOMAIN q : i < j => ~Withdraws(q[j], s)
      BY <1>1, <2>1
    <3> QED BY <3>1, <3>2 DEF Added, adds
  <2> QED BY <2>2, <2>3
<1>6. ASSUME adds(m) PROVE Added(r, s)
  <2>1. n \in DOMAIN r /\ adds(r[n]) /\ \A j \in DOMAIN r : ~(n < j)
    BY <1>1, <1>2, <1>3, <1>6
  <2> QED BY <2>1 DEF Added, adds
<1>7. ASSUME Added(q, s), ~Withdraws(m, s) PROVE Added(r, s)
  <2>1. PICK i \in DOMAIN q : adds(q[i]) /\ \A j \in DOMAIN q : i < j => ~Withdraws(q[j], s)
    BY <1>7 DEF Added, adds
  <2>2. /\ i \in DOMAIN r /\ adds(r[i])
        /\ \A j \in DOMAIN r : i < j => ~Withdraws(r[j], s)
    BY <1>1, <1>7, <2>1
  <2> QED BY <2>2 DEF Added, adds
<1> QED BY <1>4, <1>5, <1>6, <1>7 DEF r, adds

\* What the first message of the queue stands for.
LEMMA HeadSays ==
  ASSUME NEW q \in Seq(Tracker!MessageType), q # <<>>, NEW s
  PROVE  /\ Added(q, s) <=>
              \/ Head(q).type = "add" /\ Head(q).sid = s /\ Untouched(Tail(q), s)
              \/ Added(Tail(q), s)
         /\ Untouched(q, s) <=> Untouched(Tail(q), s) /\ ~Withdraws(Head(q), s)
<1> DEFINE r == Tail(q)
           adds(x) == x.type = "add" /\ x.sid = s
<1>1. /\ r \in Seq(Tracker!MessageType) /\ Len(q) \in Nat \ {0} /\ Len(r) = Len(q) - 1
      /\ Head(q) = q[1]
      /\ \A i \in DOMAIN r : r[i] = q[i + 1]
  BY TailStands
<1>2. DOMAIN q = 1 .. Len(q) /\ DOMAIN r = 1 .. Len(q) - 1
  BY <1>1, LenProperties
<1> HIDE DEF r, adds
<1>3. Untouched(q, s) <=> Untouched(r, s) /\ ~Withdraws(q[1], s)
  <2>1. ASSUME Untouched(r, s), ~Withdraws(q[1], s), NEW i \in DOMAIN q
        PROVE  ~Withdraws(q[i], s)
    <3>1. CASE i # 1
      <4>1. i - 1 \in DOMAIN r /\ r[i - 1] = q[i]
        BY <1>1, <1>2, <3>1
      <4> QED BY <2>1, <4>1 DEF Untouched
    <3> QED BY <2>1, <3>1
  <2>2. ASSUME Untouched(q, s) PROVE Untouched(r, s) /\ ~Withdraws(q[1], s)
    <3>1. 1 \in DOMAIN q /\ \A i \in DOMAIN r : i + 1 \in DOMAIN q
      BY <1>1, <1>2
    <3> QED BY <1>1, <2>2, <3>1 DEF Untouched
  <2> QED BY <2>1, <2>2 DEF Untouched
<1>4. ASSUME Added(q, s) PROVE (adds(q[1]) /\ Untouched(r, s)) \/ Added(r, s)
  <2>1. PICK i \in DOMAIN q : adds(q[i]) /\ \A j \in DOMAIN q : i < j => ~Withdraws(q[j], s)
    BY <1>4 DEF Added, adds
  <2>2. CASE i = 1
    <3>1. \A j \in DOMAIN r : j + 1 \in DOMAIN q /\ 1 < j + 1
      BY <1>1, <1>2
    <3>2. \A j \in DOMAIN r : ~Withdraws(r[j], s)
      BY <1>1, <2>1, <2>2, <3>1
    <3> QED BY <2>1, <2>2, <3>2 DEF Untouched
  <2>3. CASE i # 1
    <3>1. i - 1 \in DOMAIN r /\ r[i - 1] = q[i]
      BY <1>1, <1>2, <2>3
    <3>2. \A j \in DOMAIN r : i - 1 < j => j + 1 \in DOMAIN q /\ i < j + 1
      BY <1>1, <1>2
    <3>3. \A j \in DOMAIN r : i - 1 < j => ~Withdraws(r[j], s)
      BY <1>1, <2>1, <3>2
    <3> QED BY <2>1, <3>1, <3>3 DEF Added, adds
  <2> QED BY <2>2, <2>3
<1>5. ASSUME adds(q[1]), Untouched(r, s) PROVE Added(q, s)
  <2>1. \A j \in DOMAIN q : 1 < j => j - 1 \in DOMAIN r /\ r[j - 1] = q[j]
    <3> TAKE j \in DOMAIN q
    <3> HAVE 1 < j
    <3>1. j - 1 \in DOMAIN r /\ (j - 1) + 1 = j
      BY <1>1, <1>2
    <3> QED BY <1>1, <3>1
  <2>2. \A j \in DOMAIN q : 1 < j => ~Withdraws(q[j], s)
    BY <1>5, <2>1 DEF Untouched
  <2>3. 1 \in DOMAIN q
    BY <1>1, <1>2
  <2> QED BY <1>5, <2>2, <2>3 DEF Added, adds
<1>6. ASSUME Added(r, s) PROVE Added(q, s)
  <2>1. PICK i \in DOMAIN r : adds(r[i]) /\ \A j \in DOMAIN r : i < j => ~Withdraws(r[j], s)
    BY <1>6 DEF Added, adds
  <2>2. i + 1 \in DOMAIN q /\ adds(q[i + 1])
    BY <1>1, <1>2, <2>1
  <2>3. \A j \in DOMAIN q : i + 1 < j => j - 1 \in DOMAIN r /\ i < j - 1 /\ r[j - 1] = q[j]
    <3> TAKE j \in DOMAIN q
    <3> HAVE i + 1 < j
    <3>1. j - 1 \in DOMAIN r /\ i < j - 1 /\ (j - 1) + 1 = j
      BY <1>1, <1>2
    <3> QED BY <1>1, <3>1
  <2>4. \A j \in DOMAIN q : i + 1 < j => ~Withdraws(q[j], s)
    BY <2>1, <2>3
  <2> QED BY <2>2, <2>4 DEF Added, adds
<1> QED BY <1>1, <1>3, <1>4, <1>5, <1>6 DEF r, adds

\* What is announced and the message that says so.
Tells(m) == /\ m \in Tracker!MessageType /\ low' = Append(low, m)
            /\ \/ \E x \in Sids : m = Tracker!Message("remove", x) /\ announced' = announced \ {x}
               \/ \E x \in Sids : m = Tracker!Message("add", x) /\ announced' = announced \cup {x}

Resets == /\ announced' = {}
          /\ \E p \in Seq(Tracker!MessageType) :
               low' = Append(p, Tracker!Message("reset", None))

LEMMA MessageIs ==
  ASSUME NEW type \in {"add", "remove", "reset"}, NEW x \in Sids \cup {None}
  PROVE  /\ Tracker!Message(type, x) \in Tracker!MessageType
         /\ Tracker!Message(type, x).type = type /\ Tracker!Message(type, x).sid = x
BY DEF Tracker!Message, Tracker!MessageType

LEMMA TrackerTells ==
  ASSUME Tracker!SidInv, Tracker!Request \/ Tracker!RealTune \/ Tracker!ReadSid
  PROVE  UNCHANGED <<low, announced>> \/ Resets \/ \E m : Tells(m)
<1>1. Tracker!TypeOK /\ low \in Seq(Tracker!MessageType)
  BY DEF Tracker!SidInv, Tracker!TypeOK
<1>2. ASSUME NEW tp, Tracker!FeTune(tp) \/ Tracker!FeClose PROVE Resets
  <2>1. announced' = {} /\ low' = Tracker!Reset(low)
    BY <1>2 DEF Tracker!FeTune, Tracker!FeClose
  <2> QED BY <1>1, <2>1, ResetIs DEF Resets
<1>3. ASSUME NEW fd, NEW S, Tracker!Running, S = {} \/ \E x \in Sids : S = {x},
             low' = low \o Tracker!SetToSeq({Tracker!Message("remove", s) : s \in S}),
             announced' = announced \ S
      PROVE  UNCHANGED <<low, announced>> \/ \E m : Tells(m)
  <2>1. \/ S = {} /\ low' = low
        \/ \E x \in Sids : S = {x} /\ low' = Append(low, Tracker!Message("remove", x))
    BY <1>1, <1>3, GoneType
  <2>2. CASE S = {}
    BY <1>3, <2>1, <2>2
  <2>3. ASSUME NEW x \in Sids, S = {x}, low' = Append(low, Tracker!Message("remove", x))
        PROVE  Tells(Tracker!Message("remove", x))
    BY <1>3, <2>3, MessageIs DEF Tells
  <2> QED BY <2>1, <2>2, <2>3
<1>4. ASSUME NEW fd, NEW pid, Tracker!SetDemux(fd, pid)
      PROVE  UNCHANGED <<low, announced>> \/ \E m : Tells(m)
  <2> DEFINE old == {cmdqueue[i].sid : i \in Tracker!CommandsOf(fd)} \ {None}
             gone == IF NoCache /\ removed_sid THEN {} ELSE old
  <2>1. /\ Tracker!Running /\ announced' = announced \ gone
        /\ low' = low \o Tracker!SetToSeq({Tracker!Message("remove", s) : s \in gone})
    BY <1>4 DEF Tracker!SetDemux
  <2>2. gone = {} \/ \E x \in Sids : gone = {x}
    BY <1>1, GoneIs
  <2> HIDE DEF gone
  <2> QED BY <1>3, <2>1, <2>2
<1>5. ASSUME NEW fd, Tracker!CloseDemux(fd)
      PROVE  UNCHANGED <<low, announced>> \/ \E m : Tells(m)
  <2> DEFINE gone == {cmdqueue[i].sid : i \in Tracker!CommandsOf(fd)} \ {None}
  <2>1. /\ Tracker!Running /\ announced' = announced \ gone
        /\ low' = low \o Tracker!SetToSeq({Tracker!Message("remove", s) : s \in gone})
    BY <1>5 DEF Tracker!CloseDemux
  <2>2. gone = {} \/ \E x \in Sids : gone = {x}
    BY <1>1, GoneIs
  <2> HIDE DEF gone
  <2> QED BY <1>3, <2>1, <2>2
<1>6. ASSUME Tracker!LookUp PROVE UNCHANGED <<low, announced>> \/ \E m : Tells(m)
  <2> DEFINE found == Tracker!FindPid(cmdqueue[Tracker!Chosen].pid)
             T == {Tracker!Message("add", s) : s \in found}
  <2>1. low' = low \o Tracker!SetToSeq(T) /\ announced' = announced \cup found
    BY <1>6 DEF Tracker!LookUp
  <2>2. found = {} \/ \E j \in DOMAIN sidlist : found = {sidlist[j]}
    BY <1>1, FindPidIs
  <2>3. \A j \in DOMAIN sidlist : sidlist[j] \in Sids
    BY <1>1, LenProperties, ElementOfSeq DEF Tracker!TypeOK
  <2>4. found = {} => T = {}
    OBVIOUS
  <2>5. \A x : found = {x} => T = {Tracker!Message("add", x)}
    OBVIOUS
  <2> HIDE DEF found, T
  <2>6. CASE found = {}
    BY <1>1, <2>1, <2>4, <2>6, MessagesAre
  <2>7. ASSUME NEW x \in Sids, found = {x} PROVE Tells(Tracker!Message("add", x))
    <3>1. T = {Tracker!Message("add", x)}
      BY <2>5, <2>7
    <3>2. low' = Append(low, Tracker!Message("add", x))
      BY <1>1, <2>1, <3>1, MessagesAre
    <3> QED BY <2>1, <2>7, <3>2, MessageIs DEF Tells
  <2> QED BY <2>2, <2>3, <2>6, <2>7
<1>7. ASSUME Tracker!RealTune \/ Tracker!Shutdown \/ Tracker!ScanOnly
      PROVE  UNCHANGED <<low, announced>>
  BY <1>7 DEF Tracker!RealTune, Tracker!Shutdown, Tracker!ScanOnly
<1>8. Tracker!ReadSid => Tracker!LookUp \/ Tracker!ScanOnly
  BY DEF Tracker!ReadSid, Tracker!Terminate, Tracker!Unlock, Tracker!Start,
         Tracker!ReadPat, Tracker!FailPat, Tracker!ReadNit, Tracker!ReadPmt,
         Tracker!Return, Tracker!Settle
<1> QED BY <1>2, <1>4, <1>5, <1>6, <1>7, <1>8 DEF Tracker!Request

LEMMA AgreementStep ==
  ASSUME NEW a, Adapters = {a}, Tracker!SidInv, Agreement, [SystemNext]_allVars
  PROVE  Agreement'
<1> DEFINE seen(s) == <<a, s>> \in viewed
           told(s) == Added(low, s) \/ (seen(s) /\ Untouched(low, s))
<1>1. Tracker!TypeOK /\ low \in Seq(Tracker!MessageType)
  BY DEF Tracker!SidInv, Tracker!TypeOK
<1>2. \A s \in Sids : /\ seen(s) => s \notin FreeToAir
                      /\ s \notin FreeToAir => (s \in announced <=> told(s))
  BY DEF Agreement
<1>3. SUFFICES ASSUME NEW s \in Sids
               PROVE  /\ seen(s)' => s \notin FreeToAir
                      /\ s \notin FreeToAir => (s \in announced' <=> told(s)')
  <2> HIDE DEF told, seen
  <2>1. \A s \in Sids : /\ seen(s)' => s \notin FreeToAir
                        /\ s \notin FreeToAir => (s \in announced' <=> told(s)')
    BY <1>3
  <2> QED BY <2>1 DEF Agreement, told, seen
<1>4. CASE viewed' = viewed /\ UNCHANGED <<low, announced>>
  BY <1>2, <1>4 DEF Added, Untouched, Withdraws
<1>5. CASE viewed' = viewed /\ Resets
  <2>1. PICK p \in Seq(Tracker!MessageType) : low' = Append(p, Tracker!Message("reset", None))
    BY <1>5 DEF Resets
  <2> DEFINE m == Tracker!Message("reset", None)
  <2>2. m \in Tracker!MessageType /\ m.type = "reset" /\ Withdraws(m, s)
    BY MessageIs DEF Withdraws
  <2> HIDE DEF m
  <2>3. ~Added(low', s) /\ ~Untouched(low', s)
    BY <2>1, <2>2, AppendSays DEF m
  <2> QED BY <1>2, <1>5, <2>3 DEF Resets, Added, Untouched, Withdraws
<1>6. told(s)' <=> Added(low', s) \/ (<<a, s>> \in viewed' /\ Untouched(low', s))
  BY DEF Added, Untouched, Withdraws
<1>7. ASSUME NEW m, viewed' = viewed, Tells(m)
      PROVE  /\ seen(s)' => s \notin FreeToAir
             /\ s \notin FreeToAir => (s \in announced' <=> told(s)')
  <2>1. m \in Tracker!MessageType /\ low' = Append(low, m)
    BY <1>7 DEF Tells
  <2>2. /\ Added(low', s) <=> (m.type = "add" /\ m.sid = s) \/ (Added(low, s) /\ ~Withdraws(m, s))
        /\ Untouched(low', s) <=> Untouched(low, s) /\ ~Withdraws(m, s)
    BY <1>1, <2>1, AppendSays
  <2>3. ASSUME NEW x \in Sids, m = Tracker!Message("remove", x), announced' = announced \ {x}
        PROVE  s \notin FreeToAir => (s \in announced' <=> told(s)')
    <3>1. m.type = "remove" /\ m.sid = x
      BY <2>3, MessageIs
    <3>2. Withdraws(m, s) <=> x = s
      BY <3>1 DEF Withdraws
    <3> HIDE DEF told
    <3>3. told(s)' <=> x # s /\ told(s)
      BY <1>6, <1>7, <2>2, <3>1, <3>2 DEF told
    <3> QED BY <1>2, <2>3, <3>3
  <2>4. ASSUME NEW x \in Sids, m = Tracker!Message("add", x), announced' = announced \cup {x}
        PROVE  s \notin FreeToAir => (s \in announced' <=> told(s)')
    <3>1. m.type = "add" /\ m.sid = x
      BY <2>4, MessageIs
    <3>2. ~Withdraws(m, s)
      BY <3>1 DEF Withdraws
    <3> HIDE DEF told
    <3>3. told(s)' <=> x = s \/ told(s)
      BY <1>6, <1>7, <2>2, <3>1, <3>2 DEF told
    <3> QED BY <1>2, <2>4, <3>3
  <2> QED BY <1>2, <1>7, <2>3, <2>4 DEF Tells
<1>8. ASSUME Handle
      PROVE  /\ seen(s)' => s \notin FreeToAir
             /\ s \notin FreeToAir => (s \in announced' <=> told(s)')
  <2> DEFINE m == Head(low)
  <2>1. low # <<>> /\ low' = Tail(low) /\ announced' = announced
    BY <1>8 DEF Handle, Tracker!Take
  <2>2. m \in Tracker!MessageType
    BY <1>1, <2>1, HeadTailProperties
  <2>3. /\ Added(low, s) <=> (m.type = "add" /\ m.sid = s /\ Untouched(low', s)) \/ Added(low', s)
        /\ Untouched(low, s) <=> Untouched(low', s) /\ ~Withdraws(m, s)
    BY <1>1, <2>1, HeadSays
  <2>4. \/ m.type = "add" /\ AddSid(a, m.sid)
        \/ m.type = "remove" /\ RemoveSid(a, m.sid)
        \/ m.type = "reset" /\ ResetSid(a)
    BY <1>8 DEF Handle
  <2> HIDE DEF m
  <2>5. CASE m.type = "add" /\ AddSid(a, m.sid)
    <3>1. viewed' = IF m.sid \in FreeToAir THEN viewed ELSE viewed \cup {<<a, m.sid>>}
      BY <2>5 DEF AddSid, camVars
    <3>2. ~Withdraws(m, s)
      BY <2>5 DEF Withdraws
    <3>3. <<a, s>> \in viewed' <=> <<a, s>> \in viewed \/ (m.sid = s /\ s \notin FreeToAir)
      BY <3>1
    <3> QED BY <1>2, <1>6, <2>1, <2>3, <2>5, <3>2, <3>3
  <2>6. CASE m.type = "remove" /\ RemoveSid(a, m.sid)
    <3>1. viewed' = viewed \ {<<a, m.sid>>}
      BY <2>6 DEF RemoveSid
    <3>2. Withdraws(m, s) <=> m.sid = s
      BY <2>6 DEF Withdraws
    <3>3. <<a, s>> \in viewed' <=> <<a, s>> \in viewed /\ m.sid # s
      BY <3>1
    <3> QED BY <1>2, <1>6, <2>1, <2>3, <2>6, <3>2, <3>3
  <2>7. CASE m.type = "reset" /\ ResetSid(a)
    <3>1. <<a, s>> \notin viewed'
      BY <2>7 DEF ResetSid
    <3>2. Withdraws(m, s)
      BY <2>7 DEF Withdraws
    <3> QED BY <1>2, <1>6, <2>1, <2>3, <2>7, <3>1, <3>2
  <2> QED BY <2>4, <2>5, <2>6, <2>7
<1>9. CASE Tracking
  <2>1. viewed' = viewed
    BY <1>9 DEF Tracking, vars, camVars
  <2>2. UNCHANGED <<low, announced>> \/ Resets \/ \E m : Tells(m)
    BY <1>9, TrackerTells DEF Tracking
  <2> QED BY <1>4, <1>5, <1>7, <2>1, <2>2
<1>10. CASE Calls \/ UNCHANGED allVars
  <2>1. viewed' = viewed /\ UNCHANGED <<low, announced>>
    BY <1>10 DEF Calls, Perform, allVars, vars, camVars, trackerVars
  <2> QED BY <1>4, <2>1
<1> QED BY <1>8, <1>9, <1>10 DEF SystemNext

\* Once the queue is worked off, process_cam views exactly what is announced: no
\* message is missed, overtaken or taken off the queue wrongly.
THEOREM CamAgrees == ASSUME NEW a, Adapters = {a} PROVE System => []InAgreement
<1>1. SystemInit => Agreement
  <2> SUFFICES ASSUME SystemInit PROVE Agreement
    OBVIOUS
  <2>1. low = <<>> /\ announced = {} /\ viewed = {}
    BY DEF SystemInit, Init, CamInit, Tracker!Init
  <2>2. DOMAIN low = {}
    BY <2>1
  <2> QED BY <2>1, <2>2 DEF Agreement, Added
<1>2. Tracker!SidInv /\ Agreement /\ [SystemNext]_allVars => Agreement'
  BY AgreementStep
<1>3. Tracker!SidInv /\ Agreement => InAgreement
  <2> SUFFICES ASSUME Tracker!SidInv, Agreement, low = <<>>
               PROVE  {s \in Sids : <<a, s>> \in viewed} = announced \ FreeToAir
    BY DEF InAgreement
  <2>1. announced \subseteq Sids
    BY DEF Tracker!SidInv, Tracker!TypeOK
  <2>2. \A s : ~Added(low, s) /\ Untouched(low, s)
    BY DEF Added, Untouched
  <2>3. \A s \in Sids : /\ <<a, s>> \in viewed => s \notin FreeToAir
                        /\ s \notin FreeToAir => (s \in announced <=> <<a, s>> \in viewed)
    BY <2>2 DEF Agreement
  <2> QED BY <2>1, <2>3
<1> QED BY <1>1, <1>2, <1>3, SystemSid, PTL DEF System

-----------------------------------------------------------------------------
(* What the tracker has found is what the filters view.                    *)

\* Commands that are those of before, but for what was looked up, are of the same
\* services.
LEMMA EachOwnKept ==
  ASSUME Tracker!EachOwn,
         \A j \in DOMAIN cmdqueue' :
           \/ cmdqueue'[j].fd = None
           \/ \E m \in DOMAIN cmdqueue : /\ cmdqueue[m].fd = cmdqueue'[j].fd
                                         /\ cmdqueue[m].pid = cmdqueue'[j].pid
  PROVE  Tracker!EachOwn'
<1> SUFFICES ASSUME OneFilter, NEW i \in DOMAIN cmdqueue', NEW j \in DOMAIN cmdqueue',
                    cmdqueue'[i].fd # cmdqueue'[j].fd,
                    cmdqueue'[i].fd # None, cmdqueue'[j].fd # None
             PROVE  ~ \E s \in Sids : /\ Tracker!HasPid(s, cmdqueue'[i].pid)
                                      /\ Tracker!HasPid(s, cmdqueue'[j].pid)
  BY DEF Tracker!EachOwn, Tracker!HasPid
<1>1. PICK m \in DOMAIN cmdqueue : /\ cmdqueue[m].fd = cmdqueue'[i].fd
                                   /\ cmdqueue[m].pid = cmdqueue'[i].pid
  OBVIOUS
<1>2. PICK n \in DOMAIN cmdqueue : /\ cmdqueue[n].fd = cmdqueue'[j].fd
                                   /\ cmdqueue[n].pid = cmdqueue'[j].pid
  OBVIOUS
<1>3. ~ \E s \in Sids : /\ Tracker!HasPid(s, cmdqueue[m].pid)
                        /\ Tracker!HasPid(s, cmdqueue[n].pid)
  BY <1>1, <1>2 DEF Tracker!EachOwn
<1> QED BY <1>1, <1>2, <1>3

\* While the map stays, so does what was looked up in it.
LEMMA LookedUpKept ==
  ASSUME Tracker!LookedUp,
         \A j \in DOMAIN cmdqueue' : cmdqueue'[j].checked =>
           /\ \E m \in DOMAIN cmdqueue : cmdqueue[m] = cmdqueue'[j]
           /\ UNCHANGED <<sidlist, has_map>> /\ scan'.at \in {scan.at, "down"}
  PROVE  Tracker!LookedUp'
<1> SUFFICES ASSUME NEW j \in DOMAIN cmdqueue', cmdqueue'[j].checked
             PROVE  /\ has_map' /\ scan'.at \in {"idle", "down"}
                    /\ Tracker!FindPid(cmdqueue[j].pid)' = {cmdqueue'[j].sid} \ {None}
  BY DEF Tracker!LookedUp
<1>1. PICK m \in DOMAIN cmdqueue : cmdqueue[m] = cmdqueue'[j]
  OBVIOUS
<1>2. /\ UNCHANGED <<sidlist, has_map>> /\ scan'.at \in {scan.at, "down"}
      /\ has_map /\ scan.at \in {"idle", "down"}
      /\ Tracker!FindPid(cmdqueue[m].pid) = {cmdqueue[m].sid} \ {None}
  BY <1>1 DEF Tracker!LookedUp
<1>3. Tracker!FindPid(cmdqueue[j].pid)' = Tracker!FindPid(cmdqueue[m].pid)
  BY <1>1, <1>2 DEF Tracker!FindPid
<1> QED BY <1>1, <1>2, <1>3

\* A service that a command has has its pid.
LEMMA FoundHasPid ==
  ASSUME Tracker!SidInv, Tracker!LookedUp, NEW i \in DOMAIN cmdqueue, cmdqueue[i].sid # None
  PROVE  /\ cmdqueue[i].fd # None /\ cmdqueue[i].sid \in Sids
         /\ Tracker!HasPid(cmdqueue[i].sid, cmdqueue[i].pid)
<1>1. Tracker!TypeOK /\ Tracker!EndsReadSid /\ Tracker!NoDanglingSid
  BY DEF Tracker!SidInv
<1>2. cmdqueue[i].fd # None
  <2>1. cmdqueue[i] # Tracker!Terminator
    BY TerminatorIs
  <2> QED BY <1>1, <2>1 DEF Tracker!EndsReadSid
<1>3. Tracker!FindPid(cmdqueue[i].pid) = {cmdqueue[i].sid}
  <2>1. cmdqueue[i].checked
    BY <1>1 DEF Tracker!NoDanglingSid
  <2> QED BY <2>1 DEF Tracker!LookedUp
<1>4. PICK j \in DOMAIN sidlist : /\ Tracker!FindPid(cmdqueue[i].pid) = {sidlist[j]}
                                  /\ Tracker!HasPid(sidlist[j], cmdqueue[i].pid)
  BY <1>1, <1>3, FindPidIs
<1>5. sidlist[j] = cmdqueue[i].sid
  BY <1>3, <1>4
<1>6. sidlist[j] \in Sids
  BY <1>1, LenProperties, ElementOfSeq DEF Tracker!TypeOK
<1> QED BY <1>2, <1>4, <1>5, <1>6

\* What the filter of one file views, no other views.
LEMMA OthersViewOthers ==
  ASSUME Tracker!SidInv, Tracker!EachOwn, Tracker!LookedUp, OneFilter, NEW fd,
         NEW m \in DOMAIN cmdqueue, cmdqueue[m].fd # fd, cmdqueue[m].sid # None
  PROVE  cmdqueue[m].sid \notin {cmdqueue[i].sid : i \in Tracker!CommandsOf(fd)} \ {None}
<1> SUFFICES ASSUME NEW i \in Tracker!CommandsOf(fd), cmdqueue[i].sid = cmdqueue[m].sid
             PROVE  FALSE
  OBVIOUS
<1>1. i \in DOMAIN cmdqueue /\ cmdqueue[i].fd = fd
  BY DEF Tracker!CommandsOf
<1>2. /\ cmdqueue[i].fd # None /\ cmdqueue[i].sid \in Sids
      /\ Tracker!HasPid(cmdqueue[i].sid, cmdqueue[i].pid)
  BY <1>1, FoundHasPid
<1>3. cmdqueue[m].fd # None /\ Tracker!HasPid(cmdqueue[m].sid, cmdqueue[m].pid)
  BY FoundHasPid
<1> QED BY <1>1, <1>2, <1>3 DEF Tracker!EachOwn

\* set_demux and close_demux take a filter away, and what it views from what is
\* announced.
LEMMA FoundWithout ==
  ASSUME Tracker!SidInv, Tracker!FoundInv, NEW fd, NEW j \in DOMAIN Tracker!Without(fd)
  PROVE  LET c == Tracker!Without(fd)[j]
         IN /\ \E m \in DOMAIN cmdqueue : cmdqueue[m] = c /\ c.fd # fd
            /\ OneFilter /\ (tuned # None \/ tuning # None) /\ c.sid # None =>
                 c.sid \in announced \ ({cmdqueue[i].sid : i \in Tracker!CommandsOf(fd)} \ {None})
<1> DEFINE c == Tracker!Without(fd)[j]
<1>1. Tracker!TypeOK /\ Tracker!EachOwn /\ Tracker!LookedUp /\ Tracker!AllAnnounced
  BY DEF Tracker!SidInv, Tracker!FoundInv
<1>2. PICK m \in DOMAIN cmdqueue : c = cmdqueue[m] /\ cmdqueue[m].fd # fd
  BY <1>1, WithoutIs
<1> HIDE DEF c
<1>3. ASSUME OneFilter, tuned # None \/ tuning # None, c.sid # None
      PROVE  c.sid \in announced \ ({cmdqueue[i].sid : i \in Tracker!CommandsOf(fd)} \ {None})
  <2>1. cmdqueue[m].sid \in announced
    BY <1>1, <1>2, <1>3 DEF Tracker!AllAnnounced, Tracker!Viewed
  <2>2. cmdqueue[m].sid \notin {cmdqueue[i].sid : i \in Tracker!CommandsOf(fd)} \ {None}
    BY <1>1, <1>2, <1>3, OthersViewOthers
  <2> QED BY <1>2, <2>1, <2>2
<1> QED BY <1>2, <1>3 DEF c

LEMMA FoundSetDemux ==
  ASSUME Tracker!SidInv, Tracker!FoundInv, NEW fd \in Fds, NEW pid \in FilterPids,
         Tracker!SetDemux(fd, pid)
  PROVE  Tracker!FoundInv'
<1> DEFINE forget == NoCache /\ removed_sid
           old    == {cmdqueue[i].sid : i \in Tracker!CommandsOf(fd)} \ {None}
           gone   == IF forget THEN {} ELSE old
           w      == Tracker!Without(fd)
           v      == IF forget THEN Tracker!Unchecked(w) ELSE w
           c      == Tracker!Command(fd, pid)
           C      == Tracker!CommandType
<1>1. /\ cmdqueue' = Append(v, c) /\ announced' = announced \ gone
      /\ UNCHANGED <<tuned, tuning, scan>>
      /\ ~forget => UNCHANGED <<sidlist, has_map>>
      /\ OneFilter => \A i \in DOMAIN cmdqueue : cmdqueue[i].fd # fd =>
           ~ \E s \in Sids : Tracker!HasPid(s, pid) /\ Tracker!HasPid(s, cmdqueue[i].pid)
  BY DEF Tracker!SetDemux
<1>2. Tracker!TypeOK /\ Tracker!EachOwn /\ Tracker!LookedUp /\ fd # None
  BY ChannelCamAssumption DEF Tracker!SidInv, Tracker!FoundInv, Tracker!ConstantsFit
<1>3. /\ w \in Seq(C)
      /\ \A j \in DOMAIN w :
           /\ \E m \in DOMAIN cmdqueue : cmdqueue[m] = w[j] /\ w[j].fd # fd
           /\ OneFilter /\ (tuned # None \/ tuning # None) /\ w[j].sid # None =>
                w[j].sid \in announced \ old
  BY <1>2, WithoutIs, FoundWithout
<1>4. c.fd = fd /\ c.pid = pid /\ ~c.checked /\ c.sid = None /\ c \in C
  BY DEF Tracker!Command, Tracker!CommandType
<1> HIDE DEF w, c, C
<1>5. /\ v \in Seq(C) /\ DOMAIN v = DOMAIN w
      /\ ~forget => v = w
      /\ \A i \in DOMAIN w : v[i].fd = w[i].fd /\ v[i].pid = w[i].pid
      /\ forget => \A i \in DOMAIN w : ~v[i].checked /\ v[i].sid = None
  BY <1>3, UncheckedIs DEF C
<1> HIDE DEF v, forget, old
<1>6. /\ DOMAIN cmdqueue' = DOMAIN v \cup {Len(v) + 1}
      /\ \A i \in DOMAIN v : cmdqueue'[i] = v[i]
      /\ cmdqueue'[Len(v) + 1] = c
  BY <1>1, <1>4, <1>5, AppendStands
<1>7. Tracker!EachOwn'
  <2>1. \A j \in DOMAIN v : v[j].fd # fd /\ \E m \in DOMAIN cmdqueue :
          cmdqueue[m].fd = v[j].fd /\ cmdqueue[m].pid = v[j].pid
    BY <1>3, <1>5
  <2> SUFFICES ASSUME OneFilter, NEW i \in DOMAIN cmdqueue', NEW j \in DOMAIN cmdqueue',
                      cmdqueue'[i].fd # cmdqueue'[j].fd,
                      cmdqueue'[i].fd # None, cmdqueue'[j].fd # None
               PROVE  ~ \E s \in Sids : /\ Tracker!HasPid(s, cmdqueue'[i].pid)
                                        /\ Tracker!HasPid(s, cmdqueue'[j].pid)
    BY DEF Tracker!EachOwn, Tracker!HasPid
  <2>2. \A n \in DOMAIN v : ~ \E s \in Sids : Tracker!HasPid(s, pid) /\ Tracker!HasPid(s, v[n].pid)
    BY <1>1, <2>1
  <2>3. CASE i \in DOMAIN v /\ j \in DOMAIN v
    <3>1. PICK m \in DOMAIN cmdqueue : cmdqueue[m].fd = v[i].fd /\ cmdqueue[m].pid = v[i].pid
      BY <2>1, <2>3
    <3>2. PICK n \in DOMAIN cmdqueue : cmdqueue[n].fd = v[j].fd /\ cmdqueue[n].pid = v[j].pid
      BY <2>1, <2>3
    <3>3. cmdqueue[m].fd # cmdqueue[n].fd /\ cmdqueue[m].fd # None /\ cmdqueue[n].fd # None
      BY <1>6, <2>3, <3>1, <3>2
    <3>4. ~ \E s \in Sids : /\ Tracker!HasPid(s, cmdqueue[m].pid)
                            /\ Tracker!HasPid(s, cmdqueue[n].pid)
      BY <1>2, <3>3 DEF Tracker!EachOwn
    <3> QED BY <1>6, <2>3, <3>1, <3>2, <3>4
  <2>4. CASE i \in DOMAIN v /\ j \notin DOMAIN v
    BY <1>4, <1>6, <2>2, <2>4
  <2>5. CASE i \notin DOMAIN v /\ j \in DOMAIN v
    BY <1>4, <1>6, <2>2, <2>5
  <2>6. CASE i \notin DOMAIN v /\ j \notin DOMAIN v
    BY <1>6, <2>6
  <2> QED BY <2>3, <2>4, <2>5, <2>6
<1>8. Tracker!LookedUp'
  <2>1. ASSUME NEW j \in DOMAIN cmdqueue', cmdqueue'[j].checked
        PROVE  /\ \E m \in DOMAIN cmdqueue : cmdqueue[m] = cmdqueue'[j]
               /\ UNCHANGED <<sidlist, has_map>> /\ scan'.at \in {scan.at, "down"}
    <3>1. j \in DOMAIN w /\ ~forget /\ cmdqueue'[j] = w[j]
      BY <1>4, <1>5, <1>6, <2>1
    <3>2. \E m \in DOMAIN cmdqueue : cmdqueue[m] = cmdqueue'[j]
      BY <1>3, <3>1
    <3>3. UNCHANGED <<sidlist, has_map, scan>>
      BY <1>1, <3>1
    <3> QED BY <3>2, <3>3
  <2> QED BY <1>2, <2>1, LookedUpKept
<1>9. Tracker!AllAnnounced'
  <2> SUFFICES ASSUME OneFilter, tuned # None \/ tuning # None, NEW j \in DOMAIN cmdqueue',
                      cmdqueue'[j].sid # None
               PROVE  cmdqueue'[j].sid \in announced'
    <3>1. UNCHANGED <<tuned, tuning>>
      BY <1>1
    <3> QED BY <3>1 DEF Tracker!AllAnnounced, Tracker!Viewed
  <2>1. j \in DOMAIN w /\ ~forget /\ cmdqueue'[j] = w[j]
    BY <1>4, <1>5, <1>6
  <2> QED BY <1>1, <1>3, <2>1
<1> QED BY <1>7, <1>8, <1>9 DEF Tracker!FoundInv

LEMMA FoundCloseDemux ==
  ASSUME Tracker!SidInv, Tracker!FoundInv, NEW fd \in Fds, Tracker!CloseDemux(fd)
  PROVE  Tracker!FoundInv'
<1> DEFINE gone == {cmdqueue[i].sid : i \in Tracker!CommandsOf(fd)} \ {None}
           w    == Tracker!Without(fd)
<1>1. /\ cmdqueue' = w /\ announced' = announced \ gone
      /\ UNCHANGED <<tuned, tuning, sidlist, has_map, scan>>
  BY DEF Tracker!CloseDemux
<1>2. \A j \in DOMAIN w :
        /\ \E m \in DOMAIN cmdqueue : cmdqueue[m] = w[j] /\ w[j].fd # fd
        /\ OneFilter /\ (tuned # None \/ tuning # None) /\ w[j].sid # None =>
             w[j].sid \in announced \ gone
  BY FoundWithout
<1> HIDE DEF w, gone
<1>3. Tracker!EachOwn'
  BY <1>1, <1>2, EachOwnKept DEF Tracker!FoundInv
<1>4. Tracker!LookedUp'
  BY <1>1, <1>2, LookedUpKept DEF Tracker!FoundInv
<1>5. Tracker!AllAnnounced'
  BY <1>1, <1>2 DEF Tracker!AllAnnounced, Tracker!Viewed
<1> QED BY <1>3, <1>4, <1>5 DEF Tracker!FoundInv

LEMMA FoundShutdown ==
  ASSUME Tracker!SidInv, Tracker!FoundInv, Tracker!Shutdown
  PROVE  Tracker!FoundInv'
<1> DEFINE t == Tracker!Terminator
           C == Tracker!CommandType
<1>1. cmdqueue' = <<t>> \o cmdqueue /\ cmdqueue \in Seq(C)
      /\ UNCHANGED <<tuned, tuning, sidlist, has_map, scan, announced>>
  BY DEF Tracker!Shutdown, Tracker!SidInv, Tracker!TypeOK
<1>2. t \in C /\ t.fd = None /\ t.sid = None /\ ~t.checked
  BY TerminatorIs
<1> HIDE DEF t, C
<1>3. /\ DOMAIN cmdqueue' = 1 .. Len(cmdqueue) + 1
      /\ DOMAIN cmdqueue = 1 .. Len(cmdqueue) /\ Len(cmdqueue) \in Nat
      /\ cmdqueue'[1] = t /\ \A i \in 1 .. Len(cmdqueue) : cmdqueue'[i + 1] = cmdqueue[i]
  BY <1>1, <1>2, Prepended, LenProperties
<1>4. ASSUME NEW j \in DOMAIN cmdqueue'
      PROVE  cmdqueue'[j] = t \/ \E m \in DOMAIN cmdqueue : cmdqueue[m] = cmdqueue'[j]
  <2>1. CASE j = 1
    BY <1>3, <2>1
  <2>2. CASE j # 1
    <3>1. j - 1 \in DOMAIN cmdqueue /\ (j - 1) + 1 = j
      BY <1>3, <2>2
    <3> QED BY <1>3, <3>1
  <2> QED BY <2>1, <2>2
<1>5. Tracker!EachOwn'
  BY <1>2, <1>4, EachOwnKept DEF Tracker!FoundInv
<1>6. Tracker!LookedUp'
  BY <1>1, <1>2, <1>4, LookedUpKept DEF Tracker!FoundInv
<1>7. Tracker!AllAnnounced'
  BY <1>1, <1>2, <1>4 DEF Tracker!FoundInv, Tracker!AllAnnounced, Tracker!Viewed
<1> QED BY <1>5, <1>6, <1>7 DEF Tracker!FoundInv

LEMMA FoundLookUp ==
  ASSUME Tracker!SidInv, Tracker!FoundInv, Tracker!LookUp
  PROVE  Tracker!FoundInv'
<1> DEFINE c == Tracker!Chosen
           found == Tracker!FindPid(cmdqueue[c].pid)
           sid == IF found = {} THEN None ELSE CHOOSE s \in found : TRUE
           C == Tracker!CommandType
<1>1. /\ scan.at = "idle" /\ Tracker!Pending # {} /\ has_map
      /\ cmdqueue' = [cmdqueue EXCEPT ![c].checked = TRUE, ![c].sid = sid]
      /\ announced' = announced \cup found
      /\ UNCHANGED <<tuned, tuning, sidlist, has_map, scan>>
  BY DEF Tracker!LookUp
<1>2. Tracker!TypeOK /\ cmdqueue \in Seq(C) /\ None \notin Sids
  BY ChannelCamAssumption DEF Tracker!SidInv, Tracker!TypeOK, Tracker!ConstantsFit
<1>3. c \in DOMAIN cmdqueue /\ cmdqueue[c] \in C
  BY <1>1, <1>2, ChosenIs, LenProperties, ElementOfSeq
<1>4. found = {sid} \ {None}
  <2>1. \A j \in DOMAIN sidlist : sidlist[j] \in Sids
    BY <1>2, LenProperties, ElementOfSeq DEF Tracker!TypeOK
  <2>2. found = {} \/ \E j \in DOMAIN sidlist : found = {sidlist[j]}
    BY <1>2, FindPidIs
  <2> HIDE DEF found
  <2> QED BY <1>2, <2>1, <2>2
<1> HIDE DEF c, found, sid
<1>6. /\ DOMAIN cmdqueue' = DOMAIN cmdqueue
      /\ \A i \in DOMAIN cmdqueue : i # c => cmdqueue'[i] = cmdqueue[i]
      /\ cmdqueue'[c].fd = cmdqueue[c].fd /\ cmdqueue'[c].pid = cmdqueue[c].pid
      /\ cmdqueue'[c].sid = sid
  BY <1>1, <1>3 DEF Tracker!CommandType
<1>7. Tracker!EachOwn'
  BY <1>3, <1>6, EachOwnKept DEF Tracker!FoundInv
<1>8. Tracker!LookedUp'
  <2>0. ASSUME NEW j \in DOMAIN cmdqueue
        PROVE  Tracker!FindPid(cmdqueue[j].pid)' = Tracker!FindPid(cmdqueue'[j].pid)
    BY <1>1 DEF Tracker!FindPid
  <2> SUFFICES ASSUME NEW j \in DOMAIN cmdqueue, cmdqueue'[j].checked
               PROVE  Tracker!FindPid(cmdqueue'[j].pid) = {cmdqueue'[j].sid} \ {None}
    BY <1>1, <1>6, <2>0 DEF Tracker!LookedUp
  <2>1. CASE j = c
    BY <1>4, <1>6, <2>1 DEF found
  <2>2. CASE j # c
    BY <1>6, <2>2 DEF Tracker!FoundInv, Tracker!LookedUp
  <2> QED BY <2>1, <2>2
<1>9. Tracker!AllAnnounced'
  <2> SUFFICES ASSUME OneFilter, tuned # None \/ tuning # None, NEW j \in DOMAIN cmdqueue,
                      cmdqueue'[j].sid # None
               PROVE  cmdqueue'[j].sid \in announced'
    BY <1>1, <1>6 DEF Tracker!AllAnnounced, Tracker!Viewed
  <2>1. CASE j = c
    BY <1>1, <1>4, <1>6, <2>1
  <2>2. CASE j # c
    BY <1>1, <1>6, <2>2 DEF Tracker!FoundInv, Tracker!AllAnnounced, Tracker!Viewed
  <2> QED BY <2>1, <2>2
<1> QED BY <1>7, <1>8, <1>9 DEF Tracker!FoundInv

LEMMA FoundStep ==
  ASSUME Tracker!SidInv, Tracker!FoundInv, Tracker!Next \/ UNCHANGED trackerVars
  PROVE  Tracker!FoundInv'
<1>0. Tracker!TypeOK /\ Tracker!EachOwn /\ Tracker!LookedUp /\ Tracker!AllAnnounced
  BY DEF Tracker!SidInv, Tracker!FoundInv
<1>1. ASSUME NEW tp \in Transponders, Tracker!FeTune(tp) PROVE Tracker!FoundInv'
  <2>1. cmdqueue' = Tracker!Unchecked(cmdqueue) /\ cmdqueue \in Seq(Tracker!CommandType)
    BY <1>0, <1>1 DEF Tracker!FeTune, Tracker!TypeOK
  <2>2. /\ DOMAIN cmdqueue' = DOMAIN cmdqueue
        /\ \A i \in DOMAIN cmdqueue : /\ cmdqueue'[i].fd = cmdqueue[i].fd
                                      /\ cmdqueue'[i].pid = cmdqueue[i].pid
                                      /\ ~cmdqueue'[i].checked /\ cmdqueue'[i].sid = None
    BY <2>1, UncheckedIs
  <2>3. Tracker!EachOwn' /\ Tracker!LookedUp'
    BY <1>0, <2>2, EachOwnKept, LookedUpKept
  <2>4. Tracker!AllAnnounced'
    BY <2>2 DEF Tracker!AllAnnounced, Tracker!Viewed
  <2> QED BY <2>3, <2>4 DEF Tracker!FoundInv
<1>2. CASE /\ UNCHANGED <<cmdqueue, announced>>
           /\ tuned' # None \/ tuning' # None => tuned # None \/ tuning # None
           /\ \/ UNCHANGED <<sidlist, has_map>> /\ scan'.at \in {scan.at, "down"}
              \/ \A i \in DOMAIN cmdqueue : ~cmdqueue[i].checked
  <2>1. Tracker!EachOwn'
    BY <1>0, <1>2, EachOwnKept
  <2>2. Tracker!LookedUp'
    BY <1>0, <1>2, LookedUpKept
  <2>3. Tracker!AllAnnounced'
    BY <1>0, <1>2 DEF Tracker!AllAnnounced, Tracker!Viewed
  <2> QED BY <2>1, <2>2, <2>3 DEF Tracker!FoundInv
<1>3. CASE Tracker!RealTune \/ Tracker!Take \/ UNCHANGED trackerVars
  BY <1>2, <1>3 DEF Tracker!RealTune, Tracker!Take, trackerVars
<1>4. CASE Tracker!FeClose
  <2>1. tuned' = None /\ tuning' = None /\ UNCHANGED <<cmdqueue, sidlist, has_map, scan>>
    BY <1>4 DEF Tracker!FeClose
  <2>2. Tracker!EachOwn' /\ Tracker!LookedUp'
    BY <1>0, <2>1, EachOwnKept, LookedUpKept
  <2>3. Tracker!AllAnnounced'
    BY <2>1 DEF Tracker!AllAnnounced
  <2> QED BY <2>2, <2>3 DEF Tracker!FoundInv
<1>5. CASE Tracker!Terminate
  BY <1>2, <1>5 DEF Tracker!Terminate, Tracker!Idle, Tracker!ScanOnly
<1>6. ASSUME Tracker!ScanOnly, scan.at \notin {"idle", "down"} \/ ~has_map
      PROVE  Tracker!FoundInv'
  <2>1. \A i \in DOMAIN cmdqueue : ~cmdqueue[i].checked
    BY <1>0, <1>6 DEF Tracker!LookedUp
  <2> QED BY <1>2, <1>6, <2>1 DEF Tracker!ScanOnly
<1>7. CASE \/ Tracker!Unlock \/ Tracker!Start \/ Tracker!ReadPat \/ Tracker!FailPat
           \/ Tracker!ReadNit \/ (\E s \in Sids : Tracker!ReadPmt(s)) \/ Tracker!Return
           \/ Tracker!Settle
  BY <1>6, <1>7 DEF Tracker!Unlock, Tracker!Start, Tracker!ReadPat, Tracker!FailPat,
     Tracker!ReadNit, Tracker!ReadPmt, Tracker!Return, Tracker!Settle
<1> QED BY <1>1, <1>3, <1>4, <1>5, <1>7, FoundSetDemux, FoundCloseDemux, FoundShutdown,
           FoundLookUp
        DEF Tracker!Next, Tracker!Request, Tracker!ReadSid

LEMMA SystemFound == System => []Tracker!FoundInv
<1>1. SystemInit => Tracker!FoundInv
  <2> SUFFICES ASSUME SystemInit PROVE Tracker!FoundInv
    OBVIOUS
  <2>1. DOMAIN cmdqueue = {}
    BY DEF SystemInit, Tracker!Init
  <2> QED BY <2>1 DEF Tracker!FoundInv, Tracker!EachOwn, Tracker!LookedUp,
                      Tracker!AllAnnounced, Tracker!Viewed
<1>2. Tracker!SidInv /\ Tracker!FoundInv /\ [SystemNext]_allVars => Tracker!FoundInv'
  BY FoundStep, TrackerSteps
<1> QED BY <1>1, <1>2, SystemSid, PTL DEF System

\* What some filter views has been announced, and not withdrawn since, as long as a
\* transponder is received: fe_tune and the closing of other filters take nothing else
\* back.
THEOREM ViewedAreAnnounced == ASSUME OneFilter PROVE System => []Tracker!KeepsViewed
<1>1. Tracker!FoundInv => Tracker!KeepsViewed
  BY DEF Tracker!FoundInv, Tracker!AllAnnounced, Tracker!KeepsViewed
<1> QED BY <1>1, SystemFound, PTL

-----------------------------------------------------------------------------
(* What is told of is of the transponder that is received.                 *)

LEMMA AppendFresh ==
  ASSUME NEW q \in Seq(Notice), NEW m \in Notice
  PROVE  /\ Append(q, m) \in Seq(Notice)
         /\ Fresh(Append(q, m)) \subseteq Fresh(q) \cup {x \in {m.sid} : m.type = "add"}
         /\ m.type = "reset" => Fresh(Append(q, m)) = {}
         /\ NoReset(Append(q, m)) <=> NoReset(q) /\ m.type # "reset"
<1> DEFINE r == Append(q, m)
           n == Len(q) + 1
<1>1. /\ r \in Seq(Notice) /\ n \notin DOMAIN q /\ DOMAIN r = DOMAIN q \cup {n}
      /\ \A i \in DOMAIN q : r[i] = q[i]
      /\ r[n] = m
  BY AppendStands
<1>2. \A i \in DOMAIN q : i < n
  BY LenProperties
<1> HIDE DEF r, n
<1>3. ASSUME NEW x \in Fresh(r)
      PROVE  /\ m.type # "reset"
             /\ x \in Fresh(q) \/ (m.type = "add" /\ x = m.sid)
  <2>1. PICK i \in DOMAIN r : /\ r[i].sid = x /\ r[i].type = "add"
                              /\ \A j \in DOMAIN r : i < j => r[j].type # "reset"
    BY <1>3 DEF Fresh
  <2>2. CASE i = n
    BY <1>1, <2>1, <2>2
  <2>3. CASE i # n
    <3>1. i \in DOMAIN q /\ m.type # "reset" /\ q[i].sid = x /\ q[i].type = "add"
      BY <1>1, <1>2, <2>1, <2>3
    <3>2. \A j \in DOMAIN q : i < j => q[j].type # "reset"
      BY <1>1, <2>1
    <3> QED BY <3>1, <3>2 DEF Fresh
  <2> QED BY <2>2, <2>3
<1>4. NoReset(r) <=> NoReset(q) /\ m.type # "reset"
  BY <1>1 DEF NoReset
<1> QED BY <1>1, <1>3, <1>4 DEF r

LEMMA HeadFresh ==
  ASSUME NEW q \in Seq(Notice), q # <<>>
  PROVE  /\ Tail(q) \in Seq(Notice) /\ Head(q) \in Notice
         /\ Fresh(Tail(q)) \subseteq Fresh(q)
         /\ Head(q).type # "reset" /\ NoReset(Tail(q)) => NoReset(q)
         /\ Head(q).type = "add" /\ NoReset(q) => Head(q).sid \in Fresh(q)
<1> DEFINE r == Tail(q)
<1>1. /\ r \in Seq(Notice) /\ Head(q) = q[1] /\ 1 \in DOMAIN q /\ DOMAIN q = 1 .. Len(q)
      /\ DOMAIN r = 1 .. Len(r) /\ Len(q) \in Nat /\ Len(r) = Len(q) - 1 /\ Len(r) \in Nat
      /\ \A i \in DOMAIN r : i + 1 \in DOMAIN q /\ r[i] = q[i + 1]
      /\ \A i \in DOMAIN q : i = 1 \/ (i - 1 \in DOMAIN r /\ i \in Nat)
  BY TailStands, LenProperties
<1> HIDE DEF r
<1>2. Head(q) \in Notice
  BY <1>1, ElementOfSeq
<1>3. \A i \in DOMAIN q : i = 1 \/ (i - 1 \in DOMAIN r /\ q[i] = r[i - 1])
  <2> TAKE i \in DOMAIN q
  <2>1. CASE i # 1
    <3>1. i - 1 \in DOMAIN r /\ (i - 1) + 1 = i
      BY <1>1, <2>1
    <3> QED BY <1>1, <3>1
  <2> QED BY <2>1
<1>4. ASSUME NEW x \in Fresh(r) PROVE x \in Fresh(q)
  <2>1. PICK i \in DOMAIN r : /\ r[i].sid = x /\ r[i].type = "add"
                              /\ \A j \in DOMAIN r : i < j => r[j].type # "reset"
    BY <1>4 DEF Fresh
  <2>2. i + 1 \in DOMAIN q /\ q[i + 1].sid = x /\ q[i + 1].type = "add"
    BY <1>1, <2>1
  <2>3. ASSUME NEW j \in DOMAIN q, i + 1 < j PROVE q[j].type # "reset"
    <3>1. j - 1 \in DOMAIN r /\ i < j - 1 /\ q[j] = r[j - 1]
      BY <1>1, <1>3, <2>3
    <3> QED BY <2>1, <3>1
  <2> QED BY <2>2, <2>3 DEF Fresh
<1>5. ASSUME Head(q).type # "reset", NoReset(r), NEW i \in DOMAIN q
      PROVE  q[i].type # "reset"
  BY <1>1, <1>3, <1>5 DEF NoReset
<1>6. ASSUME Head(q).type = "add", NoReset(q) PROVE Head(q).sid \in Fresh(q)
  BY <1>1, <1>6 DEF NoReset, Fresh
<1> QED BY <1>1, <1>2, <1>4, <1>5, <1>6 DEF r, NoReset

LEMMA NoticeIs ==
  ASSUME NEW type \in {"add", "remove", "reset"}, NEW x \in Sids \cup {None},
         type = "reset" \/ x \in Sids
  PROVE  /\ Tracker!Message(type, x) \in Notice
         /\ Tracker!Message(type, x).type = type /\ Tracker!Message(type, x).sid = x
BY MessageIs DEF Notice

\* When fewer services are in play, they still are of one transponder.
LEMMA OfferKept ==
  ASSUME OneOffer, low' \in Seq(Notice), tuning' = tuning, tuned' \in {tuned, None},
         {sidlist'[i] : i \in DOMAIN sidlist'} \subseteq {sidlist[i] : i \in DOMAIN sidlist},
         Fresh(low') \subseteq InPlay,
         NoReset(low') => Live' \subseteq InPlay
  PROVE  OneOffer'
<1>1. InPlay' \subseteq InPlay
  <2>1. \A x \in InPlay' : \/ x \in {sidlist'[i] : i \in DOMAIN sidlist'}
                           \/ x \in Fresh(low')
                           \/ NoReset(low') /\ x \in Live'
    BY DEF InPlay, Fresh, NoReset
  <2>2. {sidlist[i] : i \in DOMAIN sidlist} \subseteq InPlay
    BY DEF InPlay
  <2> QED BY <2>1, <2>2
<1> HIDE DEF InPlay
<1>2. Apart(InPlay)'
  BY <1>1 DEF OneOffer, Apart, Epids
<1>3. /\ tuning' # None => InPlay' = {}
      /\ tuned' # None => InPlay' \subseteq Offers[tuned']
  BY <1>1 DEF OneOffer
<1> QED BY <1>2, <1>3 DEF OneOffer

\* Messages put behind the queue withdraw a service or tell of one of the map.
LEMMA SentFresh ==
  ASSUME OneOffer, NEW type \in {"add", "remove"}, NEW T,
         T = {} \/ \E x \in Sids : T = {x} /\ (type = "add" => x \in InPlay),
         low' = low \o Tracker!SetToSeq({Tracker!Message(type, s) : s \in T})
  PROVE  /\ low' \in Seq(Notice) /\ Fresh(low') \subseteq InPlay
         /\ NoReset(low') => NoReset(low)
<1> DEFINE M == {Tracker!Message(type, s) : s \in T}
<1>1. low \in Seq(Notice) /\ Fresh(low) \subseteq InPlay
  BY DEF OneOffer, InPlay
<1>2. low \in Seq(Tracker!MessageType)
  <2>1. Notice \subseteq Tracker!MessageType
    BY DEF Notice
  <2> HIDE DEF Notice
  <2> QED BY <1>1, <2>1, SeqMonotonic
<1>3. CASE T = {}
  <2>1. M = {}
    BY <1>3
  <2>2. low' = low
    BY <1>2, <2>1, MessagesAre
  <2> QED BY <1>1, <2>2
<1>4. ASSUME NEW x \in Sids, T = {x}, type = "add" => x \in InPlay
      PROVE  /\ low' \in Seq(Notice) /\ Fresh(low') \subseteq InPlay
             /\ NoReset(low') => NoReset(low)
  <2> DEFINE m == Tracker!Message(type, x)
  <2>1. M = {m}
    BY <1>4
  <2>2. m \in Notice /\ m.type = type /\ m.sid = x
    BY NoticeIs
  <2> HIDE DEF M, m
  <2>3. low' = Append(low, m)
    BY <1>2, <2>1, MessagesAre DEF M
  <2>4. /\ Append(low, m) \in Seq(Notice)
        /\ Fresh(Append(low, m)) \subseteq Fresh(low) \cup {y \in {m.sid} : m.type = "add"}
        /\ NoReset(Append(low, m)) => NoReset(low)
    BY <1>1, <2>2, AppendFresh
  <2> QED BY <1>1, <1>4, <2>2, <2>3, <2>4
<1> QED BY <1>3, <1>4

\* A tune or a close of the frontend leaves nothing on its way.
LEMMA ResetFresh ==
  ASSUME OneOffer, low' = Tracker!Reset(low)
  PROVE  low' \in Seq(Notice) /\ Fresh(low') = {} /\ ~NoReset(low')
<1> DEFINE m == Tracker!Message("reset", None)
<1>1. PICK p \in Seq(Notice) : low' = Append(p, m)
  BY ResetIs DEF OneOffer
<1>2. m \in Notice /\ m.type = "reset"
  BY NoticeIs
<1> HIDE DEF m
<1> QED BY <1>1, <1>2, AppendFresh

\* Threads of the tracker and the queue: nothing comes into play but the service of
\* a PMT, which is of the transponder received.
LEMMA OfferTracker ==
  ASSUME ~Late, \A tp \in Transponders : Apart(Offers[tp]),
         Tracker!SidInv, Tracker!MapInv, OneOffer, Live' = Live,
         Tracker!Request \/ Tracker!RealTune \/ Tracker!ReadSid
  PROVE  OneOffer' /\ (NoReset(low') => NoReset(low))
<1> DEFINE List == {sidlist[i] : i \in DOMAIN sidlist}
           Goal == OneOffer' /\ (NoReset(low') => NoReset(low))
<1>0. /\ Tracker!TypeOK /\ low \in Seq(Notice)
      /\ List \subseteq InPlay /\ Fresh(low) \subseteq InPlay
      /\ NoReset(low) => Live \subseteq InPlay
  BY DEF OneOffer, InPlay, Tracker!SidInv
<1>1. ASSUME tuning' = tuning, tuned' \in {tuned, None}, sidlist' \in {sidlist, <<>>},
             low' \in Seq(Notice), Fresh(low') \subseteq InPlay, NoReset(low') => NoReset(low)
      PROVE  Goal
  <2>1. {sidlist'[i] : i \in DOMAIN sidlist'} \subseteq List
    <3>1. CASE sidlist' = <<>>
      <4>1. DOMAIN sidlist' = {}
        BY <3>1
      <4> QED BY <4>1
    <3> QED BY <1>1, <3>1
  <2> QED BY <1>0, <1>1, <2>1, OfferKept
<1>2. ASSUME NEW tp \in Transponders, Tracker!FeTune(tp) PROVE Goal
  <2>1. /\ tuned' = tuned /\ tuning' = tp /\ sidlist' = <<>>
        /\ low' = Tracker!Reset(low)
    BY <1>2 DEF Tracker!FeTune
  <2>2. low' \in Seq(Notice) /\ Fresh(low') = {} /\ ~NoReset(low')
    BY <2>1, ResetFresh
  <2>3. DOMAIN sidlist' = {}
    BY <2>1
  <2>4. InPlay' = {}
    BY <2>2, <2>3 DEF InPlay, Fresh, NoReset
  <2> QED BY <2>2, <2>4 DEF OneOffer, Apart
<1>3. CASE Tracker!FeClose
  <2>1. tuned' = None /\ tuning' = tuning /\ sidlist' = sidlist /\ low' = Tracker!Reset(low)
    BY <1>3 DEF Tracker!FeClose
  <2>2. low' \in Seq(Notice) /\ Fresh(low') = {} /\ ~NoReset(low')
    BY <2>1, ResetFresh
  <2> QED BY <1>1, <2>1, <2>2
<1>4. ASSUME NEW fd \in Fds, NEW pid, Tracker!SetDemux(fd, pid) PROVE Goal
  <2> DEFINE old == {cmdqueue[i].sid : i \in Tracker!CommandsOf(fd)} \ {None}
             gone == IF NoCache /\ removed_sid THEN {} ELSE old
  <2>1. /\ low' = low \o Tracker!SetToSeq({Tracker!Message("remove", s) : s \in gone})
        /\ UNCHANGED <<tuned, tuning>> /\ sidlist' \in {sidlist, <<>>}
    BY <1>4 DEF Tracker!SetDemux
  <2>2. gone = {} \/ \E x \in Sids : gone = {x}
    BY <1>0, GoneIs
  <2> HIDE DEF gone
  <2>3. /\ low' \in Seq(Notice) /\ Fresh(low') \subseteq InPlay
        /\ NoReset(low') => NoReset(low)
    BY <2>1, <2>2, SentFresh
  <2> QED BY <1>1, <2>1, <2>3
<1>5. ASSUME NEW fd \in Fds, Tracker!CloseDemux(fd) PROVE Goal
  <2> DEFINE gone == {cmdqueue[i].sid : i \in Tracker!CommandsOf(fd)} \ {None}
  <2>1. /\ low' = low \o Tracker!SetToSeq({Tracker!Message("remove", s) : s \in gone})
        /\ UNCHANGED <<tuned, tuning, sidlist>>
    BY <1>5 DEF Tracker!CloseDemux
  <2>2. gone = {} \/ \E x \in Sids : gone = {x}
    BY <1>0, GoneIs
  <2> HIDE DEF gone
  <2>3. /\ low' \in Seq(Notice) /\ Fresh(low') \subseteq InPlay
        /\ NoReset(low') => NoReset(low)
    BY <2>1, <2>2, SentFresh
  <2> QED BY <1>1, <2>1, <2>3
<1>6. CASE Tracker!LookUp
  <2> DEFINE found == Tracker!FindPid(cmdqueue[Tracker!Chosen].pid)
  <2>1. /\ low' = low \o Tracker!SetToSeq({Tracker!Message("add", s) : s \in found})
        /\ UNCHANGED <<tuned, tuning, sidlist>>
    BY <1>6 DEF Tracker!LookUp
  <2>2. found = {} \/ \E j \in DOMAIN sidlist : found = {sidlist[j]}
    BY <1>0, FindPidIs
  <2>3. \A j \in DOMAIN sidlist : sidlist[j] \in Sids
    BY <1>0, LenProperties, ElementOfSeq DEF Tracker!TypeOK
  <2> HIDE DEF found
  <2>4. found = {} \/ \E x \in Sids : found = {x} /\ x \in InPlay
    BY <1>0, <2>2, <2>3
  <2>5. /\ low' \in Seq(Notice) /\ Fresh(low') \subseteq InPlay
        /\ NoReset(low') => NoReset(low)
    BY <2>1, <2>4, SentFresh
  <2> QED BY <1>1, <2>1, <2>5
<1>7. CASE Tracker!RealTune
  <2>1. /\ tuning # None /\ tuned' = tuning /\ tuning' = None
        /\ UNCHANGED <<sidlist, low>>
    BY <1>7 DEF Tracker!RealTune
  <2>2. InPlay = {}
    BY <2>1 DEF OneOffer
  <2>3. InPlay' = {}
    BY <2>1, <2>2 DEF InPlay, Fresh, NoReset
  <2> QED BY <1>0, <2>1, <2>3 DEF OneOffer, Apart
<1>8. ASSUME NEW s \in Sids, Tracker!ReadPmt(s) PROVE Goal
  <2>1. /\ scan.at = "pmt" /\ s \in scan.todo /\ scan.tp \in Tracker!Received /\ has_map
        /\ sidlist' = <<s>> \o sidlist /\ UNCHANGED <<tuned, tuning, low>>
    BY <1>8 DEF Tracker!ReadPmt, Tracker!ScanOnly
  <2>2. /\ tuning = None /\ tuned # None /\ scan.tp = tuned /\ s \in Offers[tuned]
        /\ tuned \in Transponders
    BY <1>0, <2>1 DEF Tracker!MapInv, Tracker!Received, Tracker!TypeOK
  <2>3. {sidlist'[i] : i \in DOMAIN sidlist'} \subseteq List \cup {s}
    <3>1. sidlist \in Seq(Sids)
      BY <1>0 DEF Tracker!TypeOK
    <3>2. /\ DOMAIN sidlist' = 1 .. Len(sidlist) + 1
          /\ DOMAIN sidlist = 1 .. Len(sidlist) /\ Len(sidlist) \in Nat
          /\ sidlist'[1] = s /\ \A i \in 1 .. Len(sidlist) : sidlist'[i + 1] = sidlist[i]
      BY <2>1, <3>1, Prepended, LenProperties
    <3>3. ASSUME NEW i \in DOMAIN sidlist', i # 1
          PROVE  i - 1 \in DOMAIN sidlist /\ sidlist'[i] = sidlist[i - 1]
      <4>1. i - 1 \in 1 .. Len(sidlist) /\ (i - 1) + 1 = i
        BY <3>2, <3>3
      <4> QED BY <3>2, <4>1
    <3> QED BY <3>2, <3>3
  <2>4. InPlay' \subseteq InPlay \cup {s}
    <3>1. \A x \in InPlay' : \/ x \in {sidlist'[i] : i \in DOMAIN sidlist'}
                             \/ x \in Fresh(low) \/ (NoReset(low) /\ x \in Live)
      BY <2>1 DEF InPlay, Fresh, NoReset
    <3> QED BY <1>0, <2>3, <3>1
  <2>5. InPlay' \subseteq Offers[tuned]
    BY <2>2, <2>4 DEF OneOffer
  <2>6. Apart(InPlay)'
    BY <2>2, <2>5 DEF Apart, Epids
  <2> QED BY <1>0, <2>1, <2>2, <2>5, <2>6 DEF OneOffer
<1>9. CASE Tracker!Settle
  <2>1. UNCHANGED <<tuned, tuning, low>> /\ sidlist' \in {sidlist, <<>>}
    BY <1>9 DEF Tracker!Settle, Tracker!ScanOnly
  <2> QED BY <1>0, <1>1, <2>1
<1>10. CASE UNCHANGED <<tuned, tuning, low, sidlist>>
  BY <1>0, <1>1, <1>10
<1>11. \/ Tracker!LookUp \/ (\E s \in Sids : Tracker!ReadPmt(s)) \/ Tracker!Settle
       \/ ~Tracker!ReadSid \/ UNCHANGED <<tuned, tuning, low, sidlist>>
  BY DEF Tracker!ReadSid, Tracker!Terminate, Tracker!Unlock, Tracker!Start,
         Tracker!ReadPat, Tracker!FailPat, Tracker!ReadNit, Tracker!Return, Tracker!ScanOnly
<1>12. Tracker!Shutdown => UNCHANGED <<tuned, tuning, low, sidlist>>
  BY DEF Tracker!Shutdown
<1>13. CASE Tracker!Request
  BY <1>2, <1>3, <1>4, <1>5, <1>10, <1>12, <1>13 DEF Tracker!Request
<1>14. CASE Tracker!ReadSid
  BY <1>6, <1>8, <1>9, <1>10, <1>11, <1>14
<1> QED BY <1>7, <1>13, <1>14

\* What process_cam adds to its services is the one of the message.
LEMMA LiveGrows ==
  ASSUME OneAdapter, CamTypeOK, NEW s
  PROVE  /\ AddSid(This, s) => Live' \subseteq Live \cup {s}
         /\ RemoveSid(This, s) => Live' = Live
         /\ ResetSid(This) => Live' = {}
<1>1. This \in Adapters /\ valid \in [Adapters -> BOOLEAN]
  BY DEF OneAdapter, CamTypeOK
<1>2. ASSUME AddSid(This, s) PROVE Live' \subseteq Live \cup {s}
  <2>1. CASE UNCHANGED camVars \/ GoodToGo(This, s)
    BY <2>1 DEF camVars, GoodToGo, Live
  <2>2. CASE AddNew(This, s)
    BY <2>2 DEF AddNew, KeptChannels, Live
  <2> QED BY <1>2, <2>1, <2>2 DEF AddSid
<1>3. RemoveSid(This, s) => Live' = Live
  BY DEF RemoveSid, Live
<1>4. ResetSid(This) => Live' = {}
  BY <1>1 DEF ResetSid, Live
<1> QED BY <1>2, <1>3, <1>4

\* Each message is one process_cam knows, and what it does stays within what is in
\* play.
LEMMA OfferHandle ==
  ASSUME OneAdapter, CamTypeOK, OneOffer, Handle
  PROVE  /\ OneOffer' /\ Message
         /\ ResetSid(This) \/ (NoReset(low') => NoReset(low) /\ Live' \subseteq InPlay)
<1> DEFINE m == Head(low)
<1>1. /\ low # <<>> /\ low' = Tail(low) /\ UNCHANGED <<tuned, tuning, sidlist, prg, mapped>>
      /\ \/ m.type = "add" /\ AddSid(This, m.sid)
         \/ m.type = "remove" /\ RemoveSid(This, m.sid)
         \/ m.type = "reset" /\ ResetSid(This)
  BY DEF Handle, Tracker!Take, OneAdapter
<1>2. /\ low' \in Seq(Notice) /\ m \in Notice
      /\ Fresh(low') \subseteq Fresh(low)
      /\ m.type # "reset" /\ NoReset(low') => NoReset(low)
      /\ m.type = "add" /\ NoReset(low) => m.sid \in Fresh(low)
  <2>1. low \in Seq(Notice)
    BY DEF OneOffer
  <2> QED BY <1>1, <2>1, HeadFresh
<1> HIDE DEF m
<1>3. Fresh(low) \subseteq InPlay /\ (NoReset(low) => Live \subseteq InPlay)
  BY DEF InPlay
<1>4. ResetSid(This) \/ (NoReset(low') => NoReset(low) /\ Live' \subseteq InPlay)
  <2>1. CASE m.type = "add" /\ AddSid(This, m.sid)
    <3>1. Live' \subseteq Live \cup {m.sid}
      BY <2>1, LiveGrows
    <3> QED BY <1>2, <1>3, <2>1, <3>1
  <2>2. CASE m.type = "remove" /\ RemoveSid(This, m.sid)
    <3>1. Live' = Live
      BY <2>2, LiveGrows
    <3> QED BY <1>2, <1>3, <2>2, <3>1
  <2> QED BY <1>1, <2>1, <2>2
<1>5. NoReset(low') => Live' \subseteq InPlay
  BY <1>4, LiveGrows
<1>6. OneOffer'
  BY <1>1, <1>2, <1>3, <1>5, OfferKept
<1>7. Message
  <2>1. This \in Adapters /\ (m.type # "reset" => m.sid \in Sids)
    BY <1>2 DEF OneAdapter, Notice
  <2> QED BY <1>1, <2>1 DEF Message
<1> QED BY <1>4, <1>6, <1>7

\* The invariants of the whole.
LEMMA ServesStep ==
  ASSUME OneAdapter, ~Late, \A tp \in Transponders : Apart(Offers[tp]),
         Tracker!SidInv, Tracker!MapInv, OneOffer, PidsInv, CamServes,
         [SystemNext]_allVars
  PROVE  [Next]_vars /\ OneOffer' /\ CamServes'
<1>1. CamTypeOK /\ Apart(InPlay) /\ (NoReset(low) => Live \subseteq InPlay)
  BY DEF PidsInv, CamInv, OneOffer, InPlay
<1>2. ASSUME [Next]_vars, NoReset(low') => NoReset(low) /\ Live' \subseteq InPlay
      PROVE  CamServes'
  <2>1. ASSUME NoReset(low') PROVE ServiceInv'
    <3>1. ServiceInv
      BY <1>2, <2>1 DEF CamServes
    <3>2. Apart(Live \cup Live')
      BY <1>1, <1>2, <2>1 DEF Apart
    <3> QED BY <1>2, <3>1, <3>2, ServiceKept
  <2> QED BY <2>1 DEF CamServes, NoReset
<1>3. CASE Tracking
  <2>1. UNCHANGED vars /\ Live' = Live
    BY <1>3 DEF Tracking, vars, camVars, Live
  <2>2. OneOffer' /\ (NoReset(low') => NoReset(low))
    BY <1>3, <2>1, OfferTracker DEF Tracking
  <2> QED BY <1>1, <1>2, <2>1, <2>2
<1>4. CASE Handle
  <2>1. /\ OneOffer' /\ Message
        /\ ResetSid(This) \/ (NoReset(low') => NoReset(low) /\ Live' \subseteq InPlay)
    BY <1>1, <1>4, OfferHandle
  <2>2. [Next]_vars
    BY <2>1 DEF Next
  <2>3. CASE ResetSid(This)
    <3>1. ServiceInv'
      BY <2>3, ResetSidServes DEF PidsInv
    <3> QED BY <2>1, <2>2, <3>1 DEF CamServes
  <2> QED BY <1>2, <2>1, <2>2, <2>3
<1>5. CASE Calls \/ UNCHANGED allVars
  <2>1. /\ [Next]_vars /\ UNCHANGED <<Channels, valid>>
        /\ UNCHANGED <<low, sidlist, tuned, tuning>>
    BY <1>5 DEF Calls, Next, Perform, allVars, vars, camVars, trackerVars
  <2>2. Live' = Live
    BY <2>1 DEF Live
  <2>3. OneOffer'
    <3>1. InPlay' = InPlay
      BY <2>1, <2>2 DEF InPlay, Fresh, NoReset
    <3> QED BY <2>1, <3>1 DEF OneOffer, Apart, Epids
  <2>4. NoReset(low') <=> NoReset(low)
    BY <2>1
  <2> QED BY <1>1, <1>2, <2>1, <2>2, <2>3, <2>4
<1> QED BY <1>3, <1>4, <1>5 DEF SystemNext

LEMMA ServesInitially == ASSUME OneAdapter PROVE SystemInit => OneOffer /\ PidsInv /\ CamServes
<1> SUFFICES ASSUME SystemInit PROVE OneOffer /\ PidsInv /\ CamServes
  OBVIOUS
<1>1. Init /\ low = <<>> /\ sidlist = <<>> /\ tuned = None /\ tuning = None
  BY DEF SystemInit, Tracker!Init
<1>2. DOMAIN low = {} /\ DOMAIN sidlist = {}
  BY <1>1
<1>3. InPlay = {}
  BY <1>1, <1>2 DEF InPlay, Fresh, Live, Init, CamInit, OneAdapter
<1>4. OneOffer
  BY <1>1, <1>3, EmptySeq DEF OneOffer, Apart
<1> QED BY <1>1, <1>4, PidsInitially, ServiceInitially DEF CamServes

LEMMA SystemServes ==
  ASSUME OneAdapter, ~Late, \A tp \in Transponders : Apart(Offers[tp])
  PROVE  System => [](OneOffer /\ PidsInv /\ CamServes)
<1> DEFINE Inv == OneOffer /\ PidsInv /\ CamServes
<1>1. SystemInit => Inv
  BY ServesInitially
<1>2. Tracker!SidInv /\ Tracker!MapInv /\ Inv /\ [SystemNext]_allVars => Inv'
  BY ServesStep, PidsKept
<1> HIDE DEF Inv
<1>3. System => []Inv
  BY <1>1, <1>2, SystemSid, SystemMap, PTL DEF System
<1> QED BY <1>3 DEF Inv

\* Unless a tune is still to be told of, what process_cam and the core do for one service
\* leaves those that stay viewed alone, call by call.  The services of a transponder
\* share no stream, those of different ones may.
THEOREM ViewedRunOnAir ==
  ASSUME OneAdapter, ~Late, \A tp \in Transponders : Apart(Offers[tp])
  PROVE  System => UndisturbedOnAir
<1>1. /\ Tracker!SidInv /\ Tracker!MapInv /\ OneOffer /\ PidsInv /\ CamServes
      /\ [SystemNext]_allVars
      => [NoReset(low) => LeavesViewed]_allVars
  <2> SUFFICES ASSUME Tracker!SidInv, Tracker!MapInv, OneOffer, PidsInv, CamServes,
                      [SystemNext]_allVars, NoReset(low)
               PROVE  LeavesViewed
    OBVIOUS
  <2>1. [Next]_vars /\ ServiceInv
    BY ServesStep DEF CamServes
  <2> QED BY <2>1, ViewedUndisturbed DEF LeavesViewed
<1> QED BY <1>1, SystemSid, SystemMap, SystemServes, PTL DEF System, UndisturbedOnAir

\* At rest, every service that a filter asks for is viewed.
LEMMA WantedIsViewed ==
  ASSUME OneFilter, NEW a, Adapters = {a}, Apart(Offers[tuned]),
         Tracker!SidInv, Tracker!FoundInv, MapIsTuned, InAgreement,
         low = <<>>, calls = <<>>, scan.at = "idle", Tracker!Pending = {},
         tuned # None, tuning = None, NEW s \in Wanted
  PROVE  <<a, s>> \in viewed
<1>1. PICK i \in DOMAIN cmdqueue : cmdqueue[i].pid \in Epids(s) \cap AvPids
  BY DEF Wanted
<1>2. /\ s \in Offers[tuned] /\ s \notin FreeToAir
      /\ \E j \in DOMAIN sidlist : sidlist[j] = s
  BY DEF Wanted
<1>3. /\ Tracker!TypeOK /\ Tracker!LookedUp /\ Tracker!AllAnnounced
  BY DEF Tracker!SidInv, Tracker!FoundInv
<1>4. cmdqueue[i].checked /\ has_map
  BY <1>3 DEF Tracker!Pending, Tracker!LookedUp
<1>5. \A t : Tracker!HasPid(t, cmdqueue[i].pid) <=> cmdqueue[i].pid \in Epids(t)
  BY DEF Tracker!HasPid, Epids
<1>6. Tracker!FindPid(cmdqueue[i].pid) # {}
  BY <1>1, <1>2, <1>3, <1>5, FindPidIs
<1>7. PICK j \in DOMAIN sidlist : /\ Tracker!FindPid(cmdqueue[i].pid) = {sidlist[j]}
                                  /\ Tracker!HasPid(sidlist[j], cmdqueue[i].pid)
  BY <1>3, <1>6, FindPidIs
<1>8. sidlist[j] \in Offers[tuned]
  BY <1>4 DEF MapIsTuned, Tracker!MapIsTuned, Tracker!ToSet
<1>9. sidlist[j] = s
  BY <1>1, <1>2, <1>5, <1>7, <1>8 DEF Apart
<1>10. cmdqueue[i].sid = s /\ s # None
  <2>1. {s} = {cmdqueue[i].sid} \ {None}
    BY <1>3, <1>4, <1>7, <1>9 DEF Tracker!LookedUp
  <2> QED BY <2>1
<1>11. s \in announced
  BY <1>3, <1>10 DEF Tracker!AllAnnounced, Tracker!Viewed
<1> QED BY <1>2, <1>11 DEF InAgreement

\* When nothing is left to do, every encrypted service that a filter asks for is served
\* by the core, and its pids are in the descrambler: from the filters through the map,
\* the queue and process_cam nothing is lost, however tunes, filters and scans come
\* between.
THEOREM FiltersAreServed ==
  ASSUME OneAdapter, OneFilter, ~Late, \A tp \in Transponders : Apart(Offers[tp])
  PROVE  System => []ServedAtRest
<1>1. Adapters = {This}
  BY DEF OneAdapter
<1>2. ASSUME Tracker!SidInv, Tracker!FoundInv, MapIsTuned, InAgreement, PidsInv, CamServes
      PROVE  ServedAtRest
  <2> SUFFICES ASSUME low = <<>>, calls = <<>>, scan.at = "idle", Tracker!Pending = {},
                      tuned # None, tuning = None, NEW s \in Wanted
               PROVE  prg[This][s] = Epids(s) /\ Epids(s) \subseteq mapped[This]
    BY <1>1 DEF ServedAtRest, Served
  <2>1. tuned \in Transponders
    BY <1>2 DEF Tracker!SidInv, Tracker!TypeOK
  <2>2. <<This, s>> \in viewed
    BY <1>1, <1>2, <2>1, WantedIsViewed
  <2>3. DOMAIN low = {}
    OBVIOUS
  <2>4. KeepsViewed
    BY <1>2, <2>3, ServedInvImplies DEF CamServes, NoReset
  <2> QED BY <2>2, <2>4 DEF KeepsViewed
<1>3. System => []InAgreement
  BY <1>1, CamAgrees
<1> QED BY <1>2, <1>3, SystemSid, SystemFound, MapFollowsTune, SystemServes, PTL
=============================================================================
