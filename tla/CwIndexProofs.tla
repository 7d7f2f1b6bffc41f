---------------------------- MODULE CwIndexProofs ----------------------------
(***************************************************************************)
(* What holds of the control word indices and of the pids the descrambler  *)
(* maps, for every number of indices and every set of services.            *)
(***************************************************************************)
EXTENDS CwIndex, SequenceLemmas

(* process_cam: what CamPids has the same, with the programs and the pids  *)
(* the core and the descrambler have.                                      *)

PrgMap    == [a \in Adapters |-> [s \in Sids |-> Prg(s)]]
MappedMap == [a \in Adapters |-> Mapped]

Cam == INSTANCE CamPidsProofs WITH prg <- PrgMap, mapped <- MappedMap

\* CamPids has the messages of process_cam, too.
LEMMA SameMessages ==
  ASSUME NEW a
  PROVE  /\ ResetSid(a) => Cam!ResetSid(a)
         /\ \A s : RemoveSid(a, s) => Cam!RemoveSid(a, s)
         /\ \A s : AddSid(a, s) => Cam!AddSid(a, s)
<1>1. ResetSid(a) => Cam!ResetSid(a)
  BY DEF ResetSid, DelPid, Call, Cam!ResetSid, Cam!DelPid, Cam!Call
<1>2. ASSUME NEW s PROVE RemoveSid(a, s) => Cam!RemoveSid(a, s)
  BY DEF RemoveSid, Cam!RemoveSid
<1>3. ASSUME NEW s PROVE GoodToGo(a, s) => Cam!GoodToGo(a, s)
  BY DEF GoodToGo, Cam!GoodToGo
<1>4. ASSUME NEW s PROVE AddNew(a, s) => Cam!AddNew(a, s)
  <2>1. Cam!KeptChannels = KeptChannels
    BY DEF Delayed, KeptChannels, Cam!Delayed, Cam!KeptChannels
  <2>2. Cam!DelayedSeq = DelayedSeq
    BY DEF DelayedSeq, Nth, Delayed, Cardinality, Cam!DelayedSeq, Cam!Nth,
           Cam!Delayed, Cam!Cardinality
  <2>3. Cam!KeptEntries = KeptEntries
    BY DEF KeptEntries, Nth, Delayed, Cardinality, Cam!KeptEntries, Cam!Nth,
           Cam!Delayed, Cam!Cardinality
  <2>4. Cam!NewEntries(s) = NewEntries(s) /\ Cam!Epids(s) = Epids(s)
    BY DEF NewEntries, Reverse, Epids, Cam!NewEntries, Cam!Reverse, Cam!Epids
  <2>5. /\ \A op, x, sid, pids : Cam!Call(op, x, sid, pids) = Call(op, x, sid, pids)
        /\ \A x, i, gone : Cam!DelPid(x, i, gone) = DelPid(x, i, gone)
    BY DEF Call, DelPid, Cam!Call, Cam!DelPid
  <2>6. Cam!CloseDelayed(a) = CloseDelayed(a)
    BY <2>2, <2>5 DEF CloseDelayed, Cam!CloseDelayed
  <2> QED BY <2>1, <2>2, <2>3, <2>4, <2>5, <2>6 DEF AddNew, Cam!AddNew
<1>5. ASSUME NEW s PROVE AddSid(a, s) => Cam!AddSid(a, s)
  BY <1>3, <1>4 DEF AddSid, Cam!AddSid, camVars, Cam!camVars
<1> QED BY <1>1, <1>2, <1>5

LEMMA SameAssumption ==
  /\ FreeToAir \subseteq Sids /\ NoSid \notin Sids
  /\ DOMAIN EpidList = Sids /\ \A s \in Sids : EpidList[s] \in Seq(Cam!Epids(s))
BY ProcessCamAssumption DEF Epids, Cam!Epids

LEMMA SameCamInv ==
  /\ CamInv <=> Cam!CamInv
  /\ CamInv' <=> (Cam!CamInv)'
BY DEF CamInv, CamTypeOK, Called, CallType, Pids, Epids, Cam!CamInv, Cam!CamTypeOK,
       Cam!Called, Cam!CallType, Cam!Pids, Cam!Epids

\* A message keeps the list, the channels and the calls well-formed.
LEMMA MessageTyped ==
  ASSUME CamInv, NEW a \in Adapters,
         ResetSid(a) \/ \E s \in Sids : RemoveSid(a, s) \/ AddSid(a, s)
  PROVE  CamInv'
<1>1. Cam!ResetSid(a) \/ \E s \in Sids : Cam!RemoveSid(a, s) \/ Cam!AddSid(a, s)
  BY SameMessages
<1>2. (Cam!CamInv)'
  BY <1>1, SameCamInv, SameAssumption, Cam!MessageTyped
<1> QED BY <1>2, SameCamInv

\* So does a call that is made.
LEMMA CalledTyped ==
  ASSUME CamInv, calls # <<>>, calls' = Tail(calls),
         UNCHANGED <<pid_list, Channels, valid, viewed>>
  PROVE  CamInv' /\ Head(calls) \in Called
<1>1. (Cam!CamInv)' /\ Head(calls) \in Cam!Called
  BY SameCamInv, SameAssumption, Cam!CalledTyped
<1> QED BY <1>1, SameCamInv DEF Called, CallType, Pids, Epids, Cam!Called, Cam!CallType,
                                Cam!Pids, Cam!Epids

-----------------------------------------------------------------------------
(* The handlers.                                                           *)

LEMMA HandlerOf ==
  ASSUME HandlersInv, NEW n \in DOMAIN handlerList
  PROVE  /\ handlerList[n] \in Handler
         /\ handlerList[n].cwIndex \in Idx /\ handlerList[n].cwIndex \in indexMap
         /\ handlerList[n].sid \in Services /\ handlerList[n].pids \in SUBSET Pids
<1> DEFINE H == Handler
<1>1. handlerList \in Seq(H)
  BY DEF HandlersInv
<1> HIDE DEF H
<1>2. handlerList[n] \in H
  BY <1>1, LenProperties, ElementOfSeq
<1> QED BY <1>2 DEF H, Handler, HandlersInv

LEMMA ListIs ==
  ASSUME HandlersInv
  PROVE  Len(handlerList) \in Nat /\ DOMAIN handlerList = 1 .. Len(handlerList)
<1> DEFINE H == Handler
<1>1. handlerList \in Seq(H)
  BY DEF HandlersInv
<1> HIDE DEF H
<1> QED BY <1>1, LenProperties

\* One handler is changed: it keeps its index or takes one that is free, and the
\* service it has is that of no other.
LEMMA HandlerChanged ==
  ASSUME HandlersInv, NEW n \in DOMAIN handlerList, NEW h \in Handler,
         h.cwIndex = handlerList[n].cwIndex \/ h.cwIndex \notin indexMap,
         h.sid = NoSid \/ \A m \in DOMAIN handlerList \ {n} : handlerList[m].sid # h.sid,
         handlerList' = [handlerList EXCEPT ![n] = h],
         indexMap' = (indexMap \ {handlerList[n].cwIndex}) \cup {h.cwIndex}
  PROVE  /\ HandlersInv' /\ DOMAIN handlerList' = DOMAIN handlerList
         /\ handlerList'[n] = h
         /\ \A m \in DOMAIN handlerList \ {n} : handlerList'[m] = handlerList[m]
<1> DEFINE H == Handler
           D == DOMAIN handlerList
<1>1. handlerList \in Seq(H) /\ h \in H
  BY DEF HandlersInv
<1>2. /\ D = 1 .. Len(handlerList) /\ handlerList \in [1 .. Len(handlerList) -> H]
  BY <1>1, LenProperties
<1>3. handlerList' \in Seq(H)
  <2> HIDE DEF H
  <2> QED BY <1>1, <1>2, ExceptSeq
<1>4. /\ DOMAIN handlerList' = D /\ handlerList'[n] = h
      /\ \A m \in D \ {n} : handlerList'[m] = handlerList[m]
  BY <1>2
<1>5. /\ indexMap = {handlerList[m].cwIndex : m \in D}
      /\ \A l, m \in D : handlerList[l].cwIndex = handlerList[m].cwIndex => l = m
      /\ \A l, m \in D : handlerList[l].sid = handlerList[m].sid
                           /\ handlerList[l].sid # NoSid => l = m
  BY DEF HandlersInv, OneHandlerPerSid
<1> HIDE DEF H, D
<1>6. indexMap' = {handlerList'[m].cwIndex : m \in D}
  <2>1. ASSUME NEW i \in indexMap' PROVE \E m \in D : handlerList'[m].cwIndex = i
    <3>1. CASE i = h.cwIndex
      BY <1>4, <3>1 DEF D
    <3>2. CASE i \in indexMap \ {handlerList[n].cwIndex}
      BY <1>4, <1>5, <3>2
    <3> QED BY <2>1, <3>1, <3>2
  <2>2. ASSUME NEW m \in D PROVE handlerList'[m].cwIndex \in indexMap'
    <3>1. CASE m = n
      BY <1>4, <3>1
    <3>2. CASE m # n
      BY <1>4, <1>5, <3>2 DEF D
    <3> QED BY <3>1, <3>2
  <2> QED BY <2>1, <2>2
<1>7. ASSUME NEW l \in D, NEW m \in D, handlerList'[l].cwIndex = handlerList'[m].cwIndex
      PROVE  l = m
  BY <1>4, <1>5, <1>7
<1>8. ASSUME NEW l \in D, NEW m \in D, handlerList'[l].sid = handlerList'[m].sid,
             handlerList'[l].sid # NoSid
      PROVE  l = m
  BY <1>4, <1>5, <1>8
<1>9. HandlersInv'
  BY <1>3, <1>4, <1>6, <1>7, <1>8 DEF HandlersInv, OneHandlerPerSid, H, D
<1> QED BY <1>4, <1>9 DEF D

\* A handler is added.
LEMMA HandlerAdded ==
  ASSUME HandlersInv, NEW h \in Handler, h.cwIndex \notin indexMap,
         \A m \in DOMAIN handlerList : handlerList[m].sid # h.sid,
         handlerList' = Append(handlerList, h), indexMap' = indexMap \cup {h.cwIndex}
  PROVE  /\ HandlersInv' /\ Len(handlerList') = Len(handlerList) + 1
         /\ DOMAIN handlerList' = DOMAIN handlerList \cup {Len(handlerList) + 1}
         /\ Len(handlerList) + 1 \notin DOMAIN handlerList
         /\ handlerList'[Len(handlerList) + 1] = h
         /\ \A m \in DOMAIN handlerList : handlerList'[m] = handlerList[m]
<1> DEFINE H == Handler
           D == DOMAIN handlerList
           n == Len(handlerList) + 1
<1>1. handlerList \in Seq(H) /\ h \in H
  BY DEF HandlersInv
<1>2. /\ handlerList' \in Seq(H) /\ DOMAIN handlerList' = D \cup {n} /\ n \notin D
      /\ handlerList'[n] = h /\ \A m \in D : handlerList'[m] = handlerList[m]
      /\ Len(handlerList') = Len(handlerList) + 1
  <2> HIDE DEF H
  <2> QED BY <1>1, AppendStands
<1>3. /\ indexMap = {handlerList[m].cwIndex : m \in D}
      /\ \A l, m \in D : handlerList[l].cwIndex = handlerList[m].cwIndex => l = m
      /\ \A l, m \in D : handlerList[l].sid = handlerList[m].sid
                           /\ handlerList[l].sid # NoSid => l = m
  BY DEF HandlersInv, OneHandlerPerSid
<1> HIDE DEF H, D, n
<1>4. indexMap' = {handlerList'[m].cwIndex : m \in D \cup {n}}
  <2>1. ASSUME NEW i \in indexMap' PROVE \E m \in D \cup {n} : handlerList'[m].cwIndex = i
    <3>1. CASE i = h.cwIndex
      BY <1>2, <3>1
    <3>2. CASE i \in indexMap
      BY <1>2, <1>3, <3>2
    <3> QED BY <2>1, <3>1, <3>2
  <2>2. ASSUME NEW m \in D \cup {n} PROVE handlerList'[m].cwIndex \in indexMap'
    BY <1>2, <1>3
  <2> DEFINE X == {handlerList'[m].cwIndex : m \in D \cup {n}}
  <2>3. indexMap' \subseteq X
    BY <2>1
  <2>4. X \subseteq indexMap'
    BY <2>2
  <2> QED BY <2>3, <2>4
<1>5. ASSUME NEW l \in D \cup {n}, NEW m \in D \cup {n},
             handlerList'[l].cwIndex = handlerList'[m].cwIndex
      PROVE  l = m
  BY <1>2, <1>3, <1>5
<1>6. ASSUME NEW l \in D \cup {n}, NEW m \in D \cup {n},
             handlerList'[l].sid = handlerList'[m].sid, handlerList'[l].sid # NoSid
      PROVE  l = m
  BY <1>2, <1>3, <1>6 DEF D
<1>7. HandlersInv'
  BY <1>2, <1>4, <1>5, <1>6 DEF HandlersInv, OneHandlerPerSid, H
<1> QED BY <1>2, <1>7 DEF D, n

\* A handler goes; the others keep their order.
LEMMA HandlerGone ==
  ASSUME HandlersInv, NEW n \in DOMAIN handlerList,
         handlerList' = RemoveAt(handlerList, n),
         indexMap' = indexMap \ {handlerList[n].cwIndex}
  PROVE  /\ HandlersInv' /\ Len(handlerList') = Len(handlerList) - 1
         /\ \A j \in DOMAIN handlerList' : \E m \in DOMAIN handlerList \ {n} :
              handlerList'[j] = handlerList[m]
         /\ \A m \in DOMAIN handlerList \ {n} : \E j \in DOMAIN handlerList' :
              handlerList'[j] = handlerList[m]
<1> DEFINE H == Handler
           D == DOMAIN handlerList
           r == RemoveAt(handlerList, n)
           to(j) == IF j < n THEN j ELSE j + 1
<1>1. handlerList \in Seq(H)
  BY DEF HandlersInv
<1>2. Len(handlerList) \in Nat /\ D = 1 .. Len(handlerList) /\ n \in 1 .. Len(handlerList)
  BY ListIs
<1>3. r \in Seq(H) /\ Len(r) = Len(handlerList) - 1
  <2> HIDE DEF H
  <2> QED BY <1>1, <1>2, RemovedAt
<1>4. DOMAIN r = 1 .. Len(handlerList) - 1
  <2> HIDE DEF H, r
  <2> QED BY <1>3, LenProperties
<1>5. \A j \in DOMAIN r : to(j) \in D \ {n} /\ r[j] = handlerList[to(j)]
  <2> HIDE DEF H
  <2> QED BY <1>1, <1>2, RemovedStands
<1>6. \A m \in D \ {n} : \E j \in DOMAIN r : to(j) = m
  <2> TAKE m \in D \ {n}
  <2> HIDE DEF r, D
  <2>1. CASE m < n
    <3>1. m \in DOMAIN r /\ to(m) = m
      BY <1>2, <1>4, <2>1
    <3> QED BY <3>1
  <2>2. CASE ~(m < n)
    <3>1. m - 1 \in DOMAIN r /\ to(m - 1) = m
      BY <1>2, <1>4, <2>2
    <3> QED BY <3>1
  <2> QED BY <2>1, <2>2
<1>7. \A j, k \in DOMAIN r : to(j) = to(k) => j = k
  <2> HIDE DEF r
  <2> QED BY <1>2, <1>4
<1>8. /\ indexMap = {handlerList[m].cwIndex : m \in D}
      /\ \A l, m \in D : handlerList[l].cwIndex = handlerList[m].cwIndex => l = m
      /\ \A l, m \in D : handlerList[l].sid = handlerList[m].sid
                           /\ handlerList[l].sid # NoSid => l = m
  BY DEF HandlersInv, OneHandlerPerSid
<1>9. handlerList' = r
  OBVIOUS
<1> HIDE DEF H, D, r, to
<1>10. indexMap' = {r[j].cwIndex : j \in DOMAIN r}
  <2>1. ASSUME NEW i \in indexMap' PROVE \E j \in DOMAIN r : r[j].cwIndex = i
    <3>1. PICK m \in D \ {n} : handlerList[m].cwIndex = i
      BY <1>8, <2>1
    <3> QED BY <1>5, <1>6, <3>1
  <2>2. ASSUME NEW j \in DOMAIN r PROVE r[j].cwIndex \in indexMap'
    BY <1>5, <1>8 DEF D
  <2> QED BY <2>1, <2>2
<1>11. ASSUME NEW l \in DOMAIN r, NEW m \in DOMAIN r, r[l].cwIndex = r[m].cwIndex
      PROVE  l = m
  BY <1>5, <1>7, <1>8, <1>11
<1>12. ASSUME NEW l \in DOMAIN r, NEW m \in DOMAIN r, r[l].sid = r[m].sid, r[l].sid # NoSid
      PROVE  l = m
  BY <1>5, <1>7, <1>8, <1>12
<1>13. HandlersInv'
  <2>1. handlerList' \in Seq(Handler)
    BY <1>3, <1>9 DEF H
  <2>2. indexMap' = {handlerList'[j].cwIndex : j \in DOMAIN handlerList'}
    BY <1>9, <1>10
  <2>3. OneHandlerPerSid'
    BY <1>9, <1>12 DEF OneHandlerPerSid
  <2>4. \A l, m \in DOMAIN handlerList' :
          handlerList'[l].cwIndex = handlerList'[m].cwIndex => l = m
    BY <1>9, <1>11
  <2> QED BY <2>1, <2>2, <2>3, <2>4 DEF HandlersInv
<1>14. /\ \A j \in DOMAIN r : \E m \in D \ {n} : r[j] = handlerList[m]
       /\ \A m \in D \ {n} : \E j \in DOMAIN r : r[j] = handlerList[m]
  BY <1>5, <1>6
<1> QED BY <1>3, <1>9, <1>13, <1>14 DEF D

-----------------------------------------------------------------------------
(* The descrambler.                                                        *)

LEMMA MapPidsTyped ==
  ASSUME DescramblerInv, NEW pids \in SUBSET Pids, NEW idx \in Idx, MapPids(pids, idx)
  PROVE  DescramblerInv' /\ Mapped' = Mapped \cup pids
<1>1. Mapped' = Mapped \cup pids /\ \A p \in Mapped' : pid_map'[p] \in Idx
  BY DEF MapPids, DescramblerInv, Mapped
<1>2. DOMAIN <<>> = {}
  OBVIOUS
<1>3. /\ DOMAIN keyindex' = Idx
      /\ \A i \in Idx : /\ DOMAIN keyindex'[i] = {"valid", "keys"}
                        /\ keyindex'[i].valid \in BOOLEAN
                        /\ DOMAIN keyindex'[i].keys \subseteq Parity
  <2>1. CASE keyindex' = keyindex
    BY <2>1 DEF DescramblerInv, Status
  <2>2. CASE keyindex' = [keyindex EXCEPT ![idx] = [valid |-> TRUE, keys |-> <<>>]]
    BY <1>2, <2>2 DEF DescramblerInv, Status
  <2> QED BY <2>1, <2>2 DEF MapPids
<1> QED BY <1>1, <1>3 DEF DescramblerInv, Status

LEMMA ClosePidTyped ==
  ASSUME DescramblerInv, NEW pids, ClosePid(pids)
  PROVE  DescramblerInv' /\ Mapped' = Mapped \ pids
<1>1. Mapped' = Mapped \ pids /\ \A p \in Mapped' : pid_map'[p] \in Idx
  BY DEF ClosePid, DescramblerInv, Mapped
<1>2. DOMAIN <<>> = {}
  OBVIOUS
<1>3. ASSUME NEW i \in Idx
      PROVE  /\ DOMAIN keyindex'[i] = {"valid", "keys"}
             /\ keyindex'[i].valid \in BOOLEAN
             /\ DOMAIN keyindex'[i].keys \subseteq Parity
  <2>1. \/ keyindex'[i] = keyindex[i]
        \/ keyindex'[i] = [keyindex[i] EXCEPT !.keys = <<>>]
    BY DEF ClosePid
  <2>2. CASE keyindex'[i] = keyindex[i]
    BY <2>2 DEF DescramblerInv, Status
  <2>3. CASE keyindex'[i] = [keyindex[i] EXCEPT !.keys = <<>>]
    BY <1>2, <2>3 DEF DescramblerInv, Status
  <2> QED BY <2>1, <2>2, <2>3
<1>4. DOMAIN keyindex' = Idx
  BY DEF ClosePid
<1> QED BY <1>1, <1>3, <1>4 DEF DescramblerInv, Status

LEMMA InvalidateTyped ==
  ASSUME DescramblerInv, Invalidate
  PROVE  DescramblerInv' /\ Mapped' = {}
<1>1. Mapped' = {}
  BY DEF Invalidate, Mapped
<1>2. ASSUME NEW i \in Idx
      PROVE  /\ DOMAIN keyindex'[i] = {"valid", "keys"}
             /\ keyindex'[i].valid \in BOOLEAN
             /\ DOMAIN keyindex'[i].keys \subseteq Parity
  <2>1. keyindex'[i] = [keyindex[i] EXCEPT !.valid = FALSE]
    BY DEF Invalidate
  <2> QED BY <2>1 DEF DescramblerInv, Status
<1>3. DOMAIN keyindex' = Idx
  BY DEF Invalidate
<1> QED BY <1>1, <1>2, <1>3 DEF DescramblerInv, Status

LEMMA WriteCWTyped ==
  ASSUME DescramblerInv, NEW idx \in Idx, NEW cw, NEW force, WriteCW(idx, cw, force),
         pid_map' = pid_map
  PROVE  DescramblerInv' /\ Mapped' = Mapped
<1>1. Mapped' = Mapped
  BY DEF Mapped
<1>2. PICK halves \in SUBSET Parity : SetKeys(idx, halves, cw)
  <2> DEFINE halves == {p \in Parity : force \/ lastCW[idx][p] # cw[p]}
  <2>1. halves \in SUBSET Parity /\ SetKeys(idx, halves, cw)
    BY DEF WriteCW
  <2> QED BY <2>1
<1>3. CASE keyindex' = keyindex
  BY <1>1, <1>3 DEF DescramblerInv, Status
<1>4. CASE keyindex' # keyindex
  <2> DEFINE k == [p \in Status(idx) \cup halves |->
                     IF p \in halves THEN cw[p] ELSE keyindex[idx].keys[p]]
  <2>1. keyindex' = [keyindex EXCEPT ![idx].keys = k]
    BY <1>2, <1>4 DEF SetKeys
  <2>2. DOMAIN k = Status(idx) \cup halves
    OBVIOUS
  <2> HIDE DEF k
  <2>3. DOMAIN k \subseteq Parity
    BY <2>2 DEF DescramblerInv
  <2> QED BY <1>1, <2>1, <2>3 DEF DescramblerInv, Status
<1> QED BY <1>3, <1>4

-----------------------------------------------------------------------------
(* Programs.                                                               *)

\* The program of a service is that of its handler.
LEMMA PrgIs ==
  ASSUME OneHandlerPerSid, NEW n \in DOMAIN handlerList, handlerList[n].sid # NoSid
  PROVE  WithSid(handlerList[n].sid) = {n} /\ Prg(handlerList[n].sid) = handlerList[n].pids
<1>1. WithSid(handlerList[n].sid) = {n}
  BY DEF OneHandlerPerSid, WithSid
<1> QED BY <1>1 DEF Prg

LEMMA NoPrg ==
  ASSUME NEW s, WithSid(s) = {}
  PROVE  Prg(s) = {}
BY DEF Prg

\* The lowest of some free indices.
LEMMA LowestIs ==
  ASSUME NEW S, S \subseteq Nat, S # {}
  PROVE  LowestOf(S) \in S
BY LeastExists DEF LowestOf

LEMMA SetPrgTyped ==
  ASSUME NEW h \in Handler, NEW to \in Idx, NEW s \in Sids, NEW pids \in SUBSET Pids
  PROVE  LET g == SetPrg(Shift(h, to), s, pids)
         IN g \in Handler /\ g.cwIndex = to /\ g.sid = s /\ g.pids = pids
<1> DEFINE k == Shift(h, to)
<1>1. k \in Handler /\ k.cwIndex = to
  BY DEF Shift, Handler
<1> HIDE DEF k
<1>2. s \in Services
  BY DEF Services
<1>3. (k.trigger \/ k.sid # s \/ pids # {}) \in BOOLEAN /\ (k.triggerMode \/ pids # {}) \in BOOLEAN
  OBVIOUS
<1>4. SetPrg(k, s, pids) = [k EXCEPT !.sid = s, !.pids = pids,
        !.trigger = (k.trigger \/ k.sid # s \/ pids # {}),
        !.triggerMode = (k.triggerMode \/ pids # {})]
  BY DEF SetPrg
<1> DEFINE a == (k.trigger \/ k.sid # s \/ pids # {})
           b == (k.triggerMode \/ pids # {})
<1>5. a \in BOOLEAN /\ b \in BOOLEAN
  OBVIOUS
<1> HIDE DEF a, b
<1>6. SetPrg(k, s, pids) = [k EXCEPT !.sid = s, !.pids = pids, !.trigger = a, !.triggerMode = b]
  BY <1>4 DEF a, b
<1>7. SetPrg(k, s, pids) \in Handler
  BY <1>1, <1>2, <1>5, <1>6 DEF Handler
<1>8. SetPrg(k, s, pids).cwIndex = to /\ SetPrg(k, s, pids).sid = s /\ SetPrg(k, s, pids).pids = pids
  BY <1>1, <1>6 DEF Handler
<1> QED BY <1>7, <1>8 DEF k

\* The index it then has.
LEMMA ToGiveIs ==
  ASSUME NEW h \in Handler, NEW pids
  PROVE  LET to == ToGive(h, pids)
         IN to \in Idx /\ (to = h.cwIndex \/ (h.cwIndex = 0 /\ to \notin indexMap))
<1> DEFINE to == ToGive(h, pids)
<1>1. CASE h.cwIndex = 0 /\ pids # {} /\ Free # {}
  <2>1. Free \subseteq Nat
    BY DEF Free, Idx
  <2>2. to \in Free
    BY <1>1, <2>1, LowestIs DEF ToGive
  <2> QED BY <1>1, <2>2 DEF Free
<1>2. CASE ~(h.cwIndex = 0 /\ pids # {} /\ Free # {})
  BY <1>2 DEF ToGive, Handler
<1> QED BY <1>1, <1>2

\* A handler that is given the program of a service that no other has.  One that
\* does not have index zero keeps its index.
LEMMA GiveTyped ==
  ASSUME HandlersInv, DescramblerInv, NEW s \in Sids, NEW pids \in SUBSET Pids,
         NEW n \in DOMAIN handlerList, handlerList[n].sid = s \/ WithSid(s) = {},
         Give(n, s, pids)
  PROVE  /\ HandlersInv' /\ DescramblerInv' /\ DOMAIN handlerList' = DOMAIN handlerList
         /\ handlerList'[n].sid = s /\ handlerList'[n].pids = pids
         /\ \A m \in DOMAIN handlerList \ {n} : handlerList'[m] = handlerList[m]
         /\ handlerList[n].cwIndex # 0 =>
              /\ indexMap' = indexMap
              /\ Mapped' = Mapped \cup
                   (pids \ (IF handlerList[n].sid = s THEN handlerList[n].pids ELSE {}))
<1> DEFINE h == handlerList[n]
           to == ToGive(h, pids)
           kept == IF h.sid = s THEN h.pids ELSE {}
           new == (pids \ kept) \cup (IF to = h.cwIndex THEN {} ELSE h.pids)
           g == SetPrg(Shift(h, to), s, pids)
<1>1. /\ h \in Handler /\ h.cwIndex \in Idx /\ h.cwIndex \in indexMap
      /\ h.pids \in SUBSET Pids
  BY HandlerOf
<1>2. /\ to \in Idx /\ (to = h.cwIndex \/ to \notin indexMap)
      /\ h.cwIndex # 0 => to = h.cwIndex
  BY <1>1, ToGiveIs
<1>3. /\ handlerList' = [handlerList EXCEPT ![n] = g]
      /\ indexMap' = (indexMap \ {h.cwIndex}) \cup {to}
      /\ MapPids(new, to)
  BY DEF Give
<1> HIDE DEF to
<1>4. g \in Handler /\ g.cwIndex = to /\ g.sid = s /\ g.pids = pids
  BY <1>1, <1>2, SetPrgTyped
<1>5. new \in SUBSET Pids
  BY <1>1
<1>6. DescramblerInv' /\ Mapped' = Mapped \cup new
  <2> HIDE DEF new
  <2> QED BY <1>2, <1>3, <1>5, MapPidsTyped
<1>7. \A m \in DOMAIN handlerList \ {n} : handlerList[m].sid # s
  <2>1. s # NoSid
    BY ProcessCamAssumption
  <2> QED BY <2>1 DEF HandlersInv, OneHandlerPerSid, WithSid
<1> HIDE DEF g
<1>8. /\ HandlersInv' /\ DOMAIN handlerList' = DOMAIN handlerList
      /\ handlerList'[n] = g
      /\ \A m \in DOMAIN handlerList \ {n} : handlerList'[m] = handlerList[m]
  BY <1>2, <1>3, <1>4, <1>7, HandlerChanged
<1>9. ASSUME h.cwIndex # 0
      PROVE  indexMap' = indexMap /\ new = pids \ kept
  BY <1>1, <1>2, <1>3, <1>9
<1> QED BY <1>4, <1>6, <1>8, <1>9

LEMMA NewHandlerTyped ==
  ASSUME NEW i \in Idx
  PROVE  NewHandler(i) \in Handler
BY DEF NewHandler, Handler, Services

\* A new handler, when an index is free.
LEMMA GiveNewTyped ==
  ASSUME HandlersInv, DescramblerInv, NEW s \in Sids, NEW pids \in SUBSET Pids,
         WithSid(s) = {}, Free # {}, GiveNew(s, pids)
  PROVE  /\ HandlersInv' /\ DescramblerInv'
         /\ LET n == Len(handlerList) + 1
            IN /\ DOMAIN handlerList' = DOMAIN handlerList \cup {n}
               /\ n \notin DOMAIN handlerList /\ Len(handlerList') = n
               /\ handlerList'[n].sid = s /\ handlerList'[n].pids = pids
         /\ \A m \in DOMAIN handlerList : handlerList'[m] = handlerList[m]
         /\ Mapped' = Mapped \cup pids
         /\ indexMap' = indexMap \cup {FreeIndex} /\ (Free # {0} => FreeIndex # 0)
<1> DEFINE i == FreeIndex
           g == SetPrg(NewHandler(i), s, pids)
<1>1. i \in Free /\ (Free # {0} => i # 0)
  <2>1. Free \subseteq Nat
    BY DEF Free, Idx
  <2>2. CASE Free = {0}
    BY <2>2, LowestIs DEF FreeIndex
  <2>3. CASE Free # {0}
    <3>1. Free \ {0} # {} /\ Free \ {0} \subseteq Nat
      BY <2>1, <2>3
    <3>2. LowestOf(Free \ {0}) \in Free \ {0}
      BY <3>1, LowestIs
    <3> QED BY <2>3, <3>2 DEF FreeIndex
  <2> QED BY <2>2, <2>3
<1>2. i \in Idx /\ i \notin indexMap
  BY <1>1 DEF Free
<1>3. /\ handlerList' = Append(handlerList, g) /\ indexMap' = indexMap \cup {i}
      /\ MapPids(pids, i)
  BY DEF GiveNew
<1> HIDE DEF i
<1>4. g \in Handler /\ g.cwIndex = i /\ g.sid = s /\ g.pids = pids
  <2>1. NewHandler(i) \in Handler
    BY <1>2, NewHandlerTyped
  <2>2. Shift(NewHandler(i), i) = NewHandler(i)
    BY DEF Shift, NewHandler
  <2> QED BY <1>2, <2>1, <2>2, SetPrgTyped
<1>5. \A m \in DOMAIN handlerList : handlerList[m].sid # s
  BY DEF WithSid
<1> HIDE DEF g
<1>6. DescramblerInv' /\ Mapped' = Mapped \cup pids
  BY <1>2, <1>3, MapPidsTyped
<1>7. /\ HandlersInv' /\ Len(handlerList') = Len(handlerList) + 1
      /\ DOMAIN handlerList' = DOMAIN handlerList \cup {Len(handlerList) + 1}
      /\ Len(handlerList) + 1 \notin DOMAIN handlerList
      /\ handlerList'[Len(handlerList) + 1] = g
      /\ \A m \in DOMAIN handlerList : handlerList'[m] = handlerList[m]
  BY <1>2, <1>3, <1>4, <1>5, HandlerAdded
<1> QED BY <1>1, <1>3, <1>4, <1>6, <1>7 DEF i

\* The handlers AddPrg takes.
LEMMA HandlerTaken ==
  ASSUME HandlersInv, NEW s \in Sids
  PROVE  /\ WithSid(s) # {} => /\ LastOf(WithSid(s)) \in DOMAIN handlerList
                               /\ handlerList[LastOf(WithSid(s))].sid = s
         /\ IdleOnes # {} => IdleHandler \in IdleOnes
<1>1. ASSUME WithSid(s) # {} PROVE LastOf(WithSid(s)) \in WithSid(s)
  <2>1. PICK n \in DOMAIN handlerList : handlerList[n].sid = s
    BY <1>1 DEF WithSid
  <2>2. s # NoSid /\ n \in Int
    BY ProcessCamAssumption, ListIs
  <2>3. WithSid(s) = {n}
    BY <2>1, <2>2, PrgIs DEF HandlersInv
  <2> QED BY <2>2, <2>3 DEF LastOf
<1>2. ASSUME IdleOnes # {} PROVE IdleHandler \in IdleOnes
  <2> DEFINE nonzero == {n \in IdleOnes : handlerList[n].cwIndex # 0}
             S == IF nonzero = {} THEN IdleOnes ELSE nonzero
  <2>1. S # {} /\ S \subseteq IdleOnes
    BY <1>2
  <2>2. IdleOnes \subseteq Nat
    BY ListIs DEF IdleOnes
  <2>3. IdleHandler = LowestOf(S)
    BY DEF IdleHandler
  <2> HIDE DEF S
  <2> QED BY <2>1, <2>2, <2>3, LowestIs
<1> QED BY <1>1, <1>2 DEF WithSid

LEMMA StopTyped ==
  ASSUME HandlersInv, Stop
  PROVE  /\ HandlersInv' /\ DOMAIN handlerList' = DOMAIN handlerList
         /\ \A n \in DOMAIN handlerList' : handlerList'[n].pids = {}
<1> DEFINE D == DOMAIN handlerList
           H == Handler
<1>1. Len(handlerList) \in Nat /\ D = 1 .. Len(handlerList)
  BY ListIs
<1>2. handlerList' = [n \in D |->
        IF IsIdle(handlerList[n]) /\ handlerList[n].sid = NoSid THEN handlerList[n]
        ELSE [handlerList[n] EXCEPT !.sid = NoSid, !.pids = {}, !.trigger = TRUE]]
  BY DEF Stop
<1>3. ASSUME NEW n \in D
      PROVE  /\ handlerList'[n] \in H /\ handlerList'[n].cwIndex = handlerList[n].cwIndex
             /\ handlerList'[n].sid = NoSid /\ handlerList'[n].pids = {}
  <2>1. handlerList[n] \in Handler
    BY HandlerOf
  <2>2. CASE IsIdle(handlerList[n]) /\ handlerList[n].sid = NoSid
    BY <1>2, <2>1, <2>2 DEF IsIdle
  <2>3. CASE ~(IsIdle(handlerList[n]) /\ handlerList[n].sid = NoSid)
    <3>1. handlerList'[n] =
            [handlerList[n] EXCEPT !.sid = NoSid, !.pids = {}, !.trigger = TRUE]
      BY <1>2, <2>3
    <3> QED BY <2>1, <3>1 DEF Handler, Services
  <2> QED BY <2>2, <2>3
<1>4. DOMAIN handlerList' = D /\ indexMap' = indexMap
  BY <1>2 DEF Stop
<1> HIDE DEF H
<1>5. handlerList' \in Seq(H)
  <2>1. handlerList' \in [1 .. Len(handlerList) -> H]
    BY <1>1, <1>2, <1>3
  <2> QED BY <1>1, <2>1
<1>6. indexMap' = {handlerList'[n].cwIndex : n \in D}
  BY <1>3, <1>4 DEF HandlersInv
<1>7. \A m, n \in D : handlerList'[m].cwIndex = handlerList'[n].cwIndex => m = n
  BY <1>3 DEF HandlersInv
<1>8. OneHandlerPerSid'
  BY <1>3, <1>4 DEF OneHandlerPerSid
<1>9. HandlersInv'
  BY <1>4, <1>5, <1>6, <1>7, <1>8 DEF HandlersInv, H
<1> QED BY <1>3, <1>4, <1>9

-----------------------------------------------------------------------------
(* The threads of the handlers.                                            *)

\* What a thread does to its handler: neither index nor program change.
ThreadStep(n, h) ==
  /\ h \in Handler /\ h.cwIndex = handlerList[n].cwIndex
  /\ h.sid = handlerList[n].sid /\ h.pids = handlerList[n].pids
  /\ handlerList' = [handlerList EXCEPT ![n] = h] /\ indexMap' = indexMap

SamePrograms ==
  /\ DOMAIN handlerList' = DOMAIN handlerList
  /\ \A m \in DOMAIN handlerList : /\ handlerList'[m].sid = handlerList[m].sid
                                   /\ handlerList'[m].pids = handlerList[m].pids

LEMMA HandlerStepped ==
  ASSUME HandlersInv, NEW n \in DOMAIN handlerList, NEW h, ThreadStep(n, h)
  PROVE  HandlersInv' /\ SamePrograms
<1>1. indexMap' = (indexMap \ {handlerList[n].cwIndex}) \cup {h.cwIndex}
  BY HandlerOf DEF ThreadStep
<1>2. h.sid = NoSid \/ \A m \in DOMAIN handlerList \ {n} : handlerList[m].sid # h.sid
  BY DEF ThreadStep, HandlersInv, OneHandlerPerSid
<1>3. /\ HandlersInv' /\ DOMAIN handlerList' = DOMAIN handlerList
      /\ handlerList'[n] = h
      /\ \A m \in DOMAIN handlerList \ {n} : handlerList'[m] = handlerList[m]
  BY <1>1, <1>2, HandlerChanged DEF ThreadStep
<1> QED BY <1>3 DEF ThreadStep, SamePrograms

LEMMA RestartTyped ==
  ASSUME NEW h \in Handler
  PROVE  /\ NoSync(h) \in Handler /\ Restart(h) \in Handler
         /\ NoSync(h).cwIndex = h.cwIndex /\ NoSync(h).sid = h.sid /\ NoSync(h).pids = h.pids
         /\ Restart(h).cwIndex = h.cwIndex /\ Restart(h).sid = h.sid
         /\ Restart(h).pids = h.pids
<1>1. /\ NoSync(h) \in Handler /\ NoSync(h).cwIndex = h.cwIndex /\ NoSync(h).sid = h.sid
      /\ NoSync(h).pids = h.pids
  BY DEF NoSync, Handler
<1> DEFINE k == NoSync(h)
           m == IF h.filterSid = NoSid \/ IsIdle(h) THEN "off" ELSE "find"
<1>2. Restart(h) = [k EXCEPT !.mode = m] /\ m \in {"off", "find", "ecm"}
  BY DEF Restart
<1> HIDE DEF k, m
<1>3. /\ [k EXCEPT !.mode = m] \in Handler /\ [k EXCEPT !.mode = m].cwIndex = k.cwIndex
      /\ [k EXCEPT !.mode = m].sid = k.sid /\ [k EXCEPT !.mode = m].pids = k.pids
  BY <1>1, <1>2 DEF k, Handler
<1> QED BY <1>1, <1>2, <1>3 DEF k

LEMMA CwIs ==
  ASSUME NEW s \in Services, NEW n \in 0 .. Periods - 1
  PROVE  Cw(s, n) \in [Parity -> Services \X (0 .. Periods - 1)] /\ n % 2 \in Parity
<1>1. Periods \in Nat \ {0}
  BY CwIndexAssumption
<1>2. (n + 1) % Periods \in 0 .. Periods - 1 /\ n % 2 \in {0, 1}
  BY <1>1
<1> QED BY <1>2 DEF Cw, Parity

\* Every step of a thread.
LEMMA ProcessTyped ==
  ASSUME HandlersInv, DescramblerInv, period \in 0 .. Periods - 1,
         NEW n \in DOMAIN handlerList, Process(n)
  PROVE  /\ HandlersInv' /\ SamePrograms /\ indexMap' = indexMap
         /\ DescramblerInv' /\ Mapped' = Mapped /\ period' = period
<1> DEFINE h == handlerList[n]
<1>1. /\ h \in Handler
      /\ h.cwIndex \in Idx /\ h.filterCwIndex \in Idx /\ h.filterSid \in Services
      /\ h.sid \in Services
  <2>1. h \in Handler
    BY HandlerOf
  <2> QED BY <2>1 DEF Handler
<1> DEFINE Same == keyindex' = keyindex /\ pid_map' = pid_map
           Others == indexMap' = indexMap /\ period' = period
<1>2. ASSUME Same PROVE DescramblerInv' /\ Mapped' = Mapped
  BY <1>2 DEF DescramblerInv, Mapped, Status
<1>3. CASE Triggered(n)
  <2> DEFINE t == [h EXCEPT !.trigger = FALSE, !.triggerMode = FALSE, !.filterSid = h.sid,
                            !.filterCwIndex = h.cwIndex]
             other == h.filterSid # h.sid
             g == IF other \/ (h.mode = "off" /\ h.triggerMode) THEN Restart(t) ELSE t
  <2>1. t \in Handler /\ t.cwIndex = h.cwIndex /\ t.sid = h.sid /\ t.pids = h.pids
    BY <1>1 DEF Handler
  <2>2. handlerList' = [handlerList EXCEPT ![n] = g] /\ Others /\ pid_map' = pid_map
    BY <1>3 DEF Triggered, Replace
  <2> HIDE DEF t
  <2>3. g \in Handler /\ g.cwIndex = h.cwIndex /\ g.sid = h.sid /\ g.pids = h.pids
    BY <2>1, RestartTyped
  <2> HIDE DEF g
  <2>4. ThreadStep(n, g)
    BY <2>2, <2>3 DEF ThreadStep
  <2>5. HandlersInv' /\ SamePrograms
    BY <2>4, HandlerStepped
  <2>6. DescramblerInv' /\ Mapped' = Mapped
    <3>1. Same \/ WriteCW(h.cwIndex, h.last, TRUE)
      BY <1>3, <2>2 DEF Triggered
    <3> QED BY <1>1, <1>2, <2>2, <3>1, WriteCWTyped
  <2> QED BY <2>2, <2>5, <2>6
<1>4. CASE FindEcm(n)
  <2> DEFINE g == [h EXCEPT !.mode = "ecm"]
  <2>1. g \in Handler /\ g.cwIndex = h.cwIndex /\ g.sid = h.sid /\ g.pids = h.pids
    BY <1>1 DEF Handler
  <2>2. handlerList' = [handlerList EXCEPT ![n] = g] /\ Others /\ Same
    BY <1>4 DEF FindEcm, Replace
  <2> HIDE DEF g
  <2>3. ThreadStep(n, g)
    BY <2>1, <2>2 DEF ThreadStep
  <2> QED BY <1>2, <2>2, <2>3, HandlerStepped
<1>5. CASE GiveUpFinding(n) \/ HoldExpires(n)
  <2>1. handlerList' = [handlerList EXCEPT ![n] = Restart(h)] /\ Others /\ Same
    BY <1>5 DEF GiveUpFinding, HoldExpires, Replace
  <2>2. ThreadStep(n, Restart(h))
    BY <1>1, <2>1, RestartTyped DEF ThreadStep
  <2> QED BY <1>2, <2>1, <2>2, HandlerStepped
<1>6. CASE TakeEcm(n)
  <2>1. PICK resend \in {FALSE, h.resend} :
          handlerList' = [handlerList EXCEPT ![n] =
            [h EXCEPT !.resend = h.resend /\ ~ resend,
                      !.job = [n |-> period, force |-> (resend /\ h.sync) \/ ~ h.sync]]]
    BY <1>6 DEF TakeEcm, Replace
  <2> DEFINE a == h.resend /\ ~ resend
             b == (resend /\ h.sync) \/ ~ h.sync
             g == [h EXCEPT !.resend = a, !.job = [n |-> period, force |-> b]]
  <2>2. a \in BOOLEAN /\ b \in BOOLEAN
    OBVIOUS
  <2>3. handlerList' = [handlerList EXCEPT ![n] = g] /\ Others /\ Same
    BY <1>6, <2>1 DEF TakeEcm
  <2> HIDE DEF a, b
  <2>4. g \in Handler /\ g.cwIndex = h.cwIndex /\ g.sid = h.sid /\ g.pids = h.pids
    BY <1>1, <2>2 DEF Handler
  <2> HIDE DEF g
  <2>5. ThreadStep(n, g)
    BY <2>3, <2>4 DEF ThreadStep
  <2> QED BY <1>2, <2>3, <2>5, HandlerStepped
<1>7. CASE Decoded(n)
  <2> DEFINE cw == Cw(h.filterSid, h.job.n)
             a == h.resend \/ ~ h.sync
             p == h.job.n % 2
             g == [h EXCEPT !.job = NoCw, !.parity = p, !.last = cw, !.sync = TRUE,
                            !.resend = a]
  <2>1. handlerList' = [handlerList EXCEPT ![n] = g] /\ Others /\ pid_map' = pid_map
        /\ WriteCW(h.filterCwIndex, cw, h.job.force) /\ h.job # NoCw
    BY <1>7 DEF Decoded, Replace
  <2>2. h.job.n \in 0 .. Periods - 1
    BY <1>1, <2>1 DEF Handler
  <2>3. cw \in [Parity -> Services \X (0 .. Periods - 1)] /\ p \in Parity
    BY <1>1, <2>2, CwIs
  <2>4. a \in BOOLEAN
    OBVIOUS
  <2> HIDE DEF cw, a, p
  <2>5. g \in Handler /\ g.cwIndex = h.cwIndex /\ g.sid = h.sid /\ g.pids = h.pids
    BY <1>1, <2>3, <2>4 DEF Handler
  <2> HIDE DEF g
  <2>6. ThreadStep(n, g)
    BY <2>1, <2>5 DEF ThreadStep
  <2>7. DescramblerInv' /\ Mapped' = Mapped
    BY <1>1, <2>1, WriteCWTyped
  <2> QED BY <2>1, <2>6, <2>7, HandlerStepped
<1>8. CASE Failed(n)
  <2> DEFINE t == [h EXCEPT !.job = NoCw, !.parity = NoCw]
  <2>1. t \in Handler /\ t.cwIndex = h.cwIndex /\ t.sid = h.sid /\ t.pids = h.pids
    BY <1>1 DEF Handler
  <2>2. /\ \/ handlerList' = [handlerList EXCEPT ![n] = t]
           \/ handlerList' = [handlerList EXCEPT ![n] = NoSync(t)]
        /\ Others /\ Same
    BY <1>8 DEF Failed, Replace
  <2> HIDE DEF t
  <2>3. ThreadStep(n, t) \/ ThreadStep(n, NoSync(t))
    BY <2>1, <2>2, RestartTyped DEF ThreadStep
  <2> QED BY <1>2, <2>2, <2>3, HandlerStepped
<1> QED BY <1>3, <1>4, <1>5, <1>6, <1>7, <1>8 DEF Process

-----------------------------------------------------------------------------
(* Indices and handlers.                                                   *)

LEMMA AddPrgKeeps ==
  ASSUME HandlersInv, DescramblerInv, NEW s \in Sids, NEW pids \in SUBSET Pids,
         AddPrg(s, pids)
  PROVE  HandlersInv' /\ DescramblerInv' /\ period' = period
<1>1. period' = period
  BY DEF AddPrg
<1>2. CASE WithSid(s) # {}
  <2>1. Give(LastOf(WithSid(s)), s, pids)
    BY <1>2 DEF AddPrg
  <2> QED BY <1>1, <1>2, <2>1, HandlerTaken, GiveTyped
<1>3. CASE WithSid(s) = {} /\ IdleOnes # {}
  <2>1. Give(IdleHandler, s, pids)
    BY <1>3 DEF AddPrg
  <2>2. IdleHandler \in DOMAIN handlerList
    BY <1>3, HandlerTaken DEF IdleOnes
  <2> QED BY <1>1, <1>3, <2>1, <2>2, GiveTyped
<1>4. CASE WithSid(s) = {} /\ IdleOnes = {} /\ Free # {}
  BY <1>1, <1>4, GiveNewTyped DEF AddPrg
<1>5. CASE WithSid(s) = {} /\ IdleOnes = {} /\ Free = {}
  BY <1>1, <1>5 DEF AddPrg, HandlersInv, OneHandlerPerSid, DescramblerInv, Mapped, Status
<1> QED BY <1>2, <1>3, <1>4, <1>5

LEMMA CwInvInitially == Init => CwInv
<1> SUFFICES ASSUME Init PROVE CwInv
  OBVIOUS
<1>1. DOMAIN <<>> = {} /\ <<>> \in Seq(Handler)
  BY EmptySeq
<1>2. CamInv
  <2>1. /\ pid_list = <<>> /\ calls = <<>> /\ Channels = {} /\ viewed = {}
        /\ valid = [a \in Adapters |-> FALSE]
    BY DEF Init, CamInit
  <2>2. /\ <<>> \in Seq(Called) /\ <<>> \in Seq(CallType)
        /\ <<>> \in Seq([epid : Pids, sid : Sids, delayclose : BOOLEAN])
    BY EmptySeq
  <2> QED BY <2>1, <2>2 DEF CamInv, CamTypeOK
<1>3. HandlersInv
  <2>1. handlerList = <<>> /\ indexMap = {} /\ DOMAIN handlerList = {}
    BY <1>1 DEF Init
  <2> QED BY <1>1, <2>1 DEF HandlersInv, OneHandlerPerSid
<1>4. DescramblerInv
  BY <1>1 DEF Init, DescramblerInv, Mapped, Status
<1>5. period \in 0 .. Periods - 1
  BY CwIndexAssumption DEF Init
<1> QED BY <1>2, <1>3, <1>4, <1>5 DEF CwInv

LEMMA SameCore ==
  ASSUME HandlersInv, DescramblerInv, UNCHANGED <<handlerList, indexMap, pid_map, keyindex>>
  PROVE  HandlersInv' /\ DescramblerInv' /\ Mapped' = Mapped
BY DEF HandlersInv, OneHandlerPerSid, DescramblerInv, Mapped, Status

LEMMA SameCam ==
  ASSUME CamInv, UNCHANGED camVars
  PROVE  CamInv'
BY DEF CamInv, CamTypeOK, camVars

LEMMA PerformKeeps ==
  ASSUME CwInv, Perform
  PROVE  CwInv'
<1> DEFINE c == Head(calls)
<1>1. CamInv' /\ c \in Called
  BY CalledTyped DEF CwInv, Perform
<1>2. c.pids \in SUBSET Pids /\ (c.op = "prg" => c.sid \in Sids)
  BY <1>1 DEF Called, CallType
<1>3. \/ c.op = "prg" /\ AddPrg(c.sid, c.pids)
      \/ Tune \/ Stop \/ ClosePid(c.pids) \/ Invalidate
  BY DEF Perform
<1> HIDE DEF c
<1>4. /\ HandlersInv /\ DescramblerInv /\ period \in 0 .. Periods - 1
  BY DEF CwInv
<1>5. ASSUME Stop PROVE HandlersInv' /\ DescramblerInv' /\ period' = period
  <2>1. UNCHANGED <<pid_map, keyindex, period>>
    BY <1>5 DEF Stop
  <2> QED BY <1>4, <1>5, <2>1, StopTyped DEF DescramblerInv, Mapped, Status
<1>6. ASSUME UNCHANGED coreVars PROVE HandlersInv' /\ DescramblerInv' /\ period' = period
  BY <1>4, <1>6, SameCore DEF coreVars
<1>7. ASSUME ClosePid(c.pids) \/ Invalidate
      PROVE  HandlersInv' /\ DescramblerInv' /\ period' = period
  <2>1. UNCHANGED <<handlerList, indexMap, period>>
    BY <1>7 DEF ClosePid, Invalidate
  <2>2. HandlersInv'
    BY <1>4, <2>1 DEF HandlersInv, OneHandlerPerSid
  <2> QED BY <1>4, <1>7, <2>1, <2>2, ClosePidTyped, InvalidateTyped
<1>8. HandlersInv' /\ DescramblerInv' /\ period' = period
  BY <1>2, <1>3, <1>4, <1>5, <1>6, <1>7, AddPrgKeeps DEF Tune
<1> QED BY <1>1, <1>4, <1>8 DEF CwInv

LEMMA CwInvKept == CwInv /\ [Next]_vars => CwInv'
<1> SUFFICES ASSUME CwInv, [Next]_vars PROVE CwInv'
  OBVIOUS
<1>1. CamInv /\ HandlersInv /\ DescramblerInv /\ period \in 0 .. Periods - 1
  BY DEF CwInv
<1>2. CASE Perform
  BY <1>2, PerformKeeps
<1>3. CASE AMessage
  <2>1. CamInv'
    BY <1>1, <1>3, MessageTyped DEF AMessage
  <2>2. UNCHANGED coreVars
    BY <1>3 DEF AMessage
  <2> QED BY <1>1, <2>1, <2>2, SameCore DEF coreVars, CwInv
<1>4. CASE KeepHouse
  <2>1. CamInv' /\ UNCHANGED <<pid_map, keyindex, period>>
    BY <1>1, <1>4, SameCam DEF KeepHouse, HouseKeeping
  <2>2. PICK n \in IdleOnes : /\ handlerList' = RemoveAt(handlerList, n)
                              /\ indexMap' = indexMap \ {handlerList[n].cwIndex}
    BY <1>4 DEF KeepHouse, HouseKeeping
  <2>3. HandlersInv'
    BY <1>1, <2>2, HandlerGone DEF IdleOnes
  <2> QED BY <1>1, <2>1, <2>3 DEF CwInv, DescramblerInv, Mapped, Status
<1>5. CASE Core
  <2>1. CamInv'
    BY <1>1, <1>5, SameCam DEF Core
  <2>2. CASE NextPeriod
    <3>1. UNCHANGED <<handlerList, indexMap, pid_map, keyindex>>
      BY <2>2 DEF NextPeriod
    <3>2. period' \in 0 .. Periods - 1
      <4>1. period' = (period + 1) % Periods /\ Periods \in Nat \ {0}
        BY <2>2, CwIndexAssumption DEF NextPeriod
      <4> QED BY <1>1, <4>1
    <3> QED BY <1>1, <2>1, <3>1, <3>2, SameCore DEF CwInv
  <2>3. ASSUME NEW n \in DOMAIN handlerList, Process(n) PROVE CwInv'
    BY <1>1, <2>1, <2>3, ProcessTyped DEF CwInv
  <2> QED BY <1>5, <2>2, <2>3 DEF Core
<1>6. CASE UNCHANGED vars
  BY <1>1, <1>6, SameCam, SameCore DEF vars, coreVars, CwInv
<1> QED BY <1>2, <1>3, <1>4, <1>5, <1>6 DEF Next

LEMMA CwInvImplies == CwInv => IndexesMatch /\ OneHandlerPerSid
<1> SUFFICES ASSUME CwInv PROVE IndexesMatch /\ OneHandlerPerSid
  OBVIOUS
<1>1. CamTypeOK /\ HandlersInv /\ DescramblerInv /\ period \in 0 .. Periods - 1
  BY DEF CwInv, CamInv
<1>2. indexMap \subseteq Idx
  BY <1>1, HandlerOf DEF HandlersInv
<1>3. ASSUME NEW n \in DOMAIN handlerList
      PROVE  LET h == handlerList[n]
             IN /\ h.cwIndex \in Idx /\ h.filterCwIndex \in Idx
                /\ h.sid \in Sids \cup {NoSid} /\ h.filterSid \in Sids \cup {NoSid}
                /\ h.pids \subseteq Pids /\ h.mode \in {"off", "find", "ecm"}
                /\ h.parity \in Parity \cup {NoCw}
                /\ {h.trigger, h.triggerMode, h.sync, h.resend} \subseteq BOOLEAN
  <2>1. handlerList[n] \in Handler
    BY <1>1, HandlerOf
  <2> QED BY <2>1 DEF Handler, Services
<1>4. TypeOK
  BY <1>1, <1>2, <1>3 DEF TypeOK, DescramblerInv
<1> QED BY <1>1, <1>4 DEF IndexesMatch, HandlersInv

\* Every variable has its type, the indices in use are those of the handlers and
\* no two handlers have the same: GetFreeIndex (cam.c:2663) never gives out an
\* index that somebody writes to, and none is lost.
THEOREM IndicesAreOwned == Spec => []IndexesMatch
<1>1. Init => CwInv
  BY CwInvInitially
<1>2. CwInv /\ [Next]_vars => CwInv'
  BY CwInvKept
<1>3. CwInv => IndexesMatch
  BY CwInvImplies
<1> QED BY <1>1, <1>2, <1>3, PTL DEF Spec

\* No service has two handlers: a program that is changed or given up is changed
\* or given up as a whole (GetHandler, cam.c:2673).
THEOREM ServiceHasOneHandler == Spec => []OneHandlerPerSid
<1>1. Init => CwInv
  BY CwInvInitially
<1>2. CwInv /\ [Next]_vars => CwInv'
  BY CwInvKept
<1>3. CwInv => OneHandlerPerSid
  BY CwInvImplies
<1> QED BY <1>1, <1>2, <1>3, PTL DEF Spec

-----------------------------------------------------------------------------
(* The keys of a service.                                                  *)

\* The keys of an index after a step.
WillBe(i, s) ==
  (\E p \in DOMAIN pid_map' : pid_map'[p] = i) =>
    \A q \in DOMAIN keyindex'[i].keys : keyindex'[i].keys[q][1] = s

LEMMA FitsNext ==
  ASSUME \A n \in DOMAIN handlerList' :
           LET h == handlerList'[n]
           IN WorksOn(h) /\ (h.sync /\ h.filterCwIndex # 0 => WillBe(h.filterCwIndex, h.filterSid))
  PROVE  KeysFit'
BY DEF KeysFit, WorksOn, WillBe, KeysAre, Used, Mapped, Status

\* The keys an index has are left alone or go.
LEMMA MapPidsKeys ==
  ASSUME DescramblerInv, KeysGo, NEW pids \in SUBSET Pids, NEW idx \in Idx, MapPids(pids, idx)
  PROVE  KeysGo' /\ \A i \in Idx : \A s : KeysAre(i, s) => WillBe(i, s)
<1>1. /\ Mapped' = Mapped \cup pids
      /\ \A p \in Mapped' : pid_map'[p] = IF p \in Mapped THEN pid_map[p] ELSE idx
  BY DEF MapPids, Mapped
<1>2. \A i \in Idx : Used(i) => Used(i)'
  BY <1>1 DEF Used
<1>3. \A i \in Idx : Used(i)' => Used(i) \/ (i = idx /\ ~(pids \subseteq Mapped))
  BY <1>1 DEF Used
<1>4. CASE pids \subseteq Mapped \/ keyindex[idx].valid
  <2>1. keyindex' = keyindex
    BY <1>4 DEF MapPids
  <2>2. \A i \in Idx : Used(i)' => Used(i) \/ (i = idx /\ keyindex[idx].valid)
    BY <1>3, <1>4
  <2>3. KeysGo'
    BY <1>2, <2>1, <2>2 DEF KeysGo, Status
  <2>4. ASSUME NEW i \in Idx, NEW s, KeysAre(i, s) PROVE WillBe(i, s)
    BY <2>1, <2>2, <2>4 DEF KeysGo, KeysAre, WillBe, Used, Mapped, Status
  <2> QED BY <2>3, <2>4
<1>5. CASE ~(pids \subseteq Mapped \/ keyindex[idx].valid)
  <2> DEFINE k == [valid |-> TRUE, keys |-> <<>>]
  <2>1. keyindex' = [keyindex EXCEPT ![idx] = k]
    BY <1>5 DEF MapPids
  <2>2. k.valid /\ DOMAIN k.keys = {}
    OBVIOUS
  <2> HIDE DEF k
  <2>3. keyindex'[idx] = k /\ \A i \in Idx \ {idx} : keyindex'[i] = keyindex[i]
    BY <2>1 DEF DescramblerInv
  <2>4. ASSUME NEW i \in Idx PROVE (IF Used(i) THEN keyindex[i].valid ELSE keyindex[i].valid => Status(i) = {})'
    <3>1. CASE i = idx
      BY <2>2, <2>3, <3>1 DEF Status
    <3>2. CASE i # idx
      <4>1. Used(i)' <=> Used(i)
        BY <1>2, <1>3, <3>2
      <4>2. keyindex'[i] = keyindex[i]
        BY <2>3, <3>2
      <4> QED BY <4>1, <4>2 DEF KeysGo, Status
    <3> QED BY <3>1, <3>2
  <2>5. KeysGo'
    BY <2>4 DEF KeysGo
  <2>6. ASSUME NEW i \in Idx, NEW s, KeysAre(i, s) PROVE WillBe(i, s)
    <3>1. CASE i = idx
      BY <2>2, <2>3, <3>1 DEF WillBe
    <3>2. CASE i # idx
      BY <1>3, <2>3, <2>6, <3>2 DEF KeysAre, WillBe, Used, Mapped, Status
    <3> QED BY <3>1, <3>2
  <2> QED BY <2>5, <2>6
<1> QED BY <1>4, <1>5

LEMMA ClosePidKeys ==
  ASSUME DescramblerInv, KeysGo, NEW pids, ClosePid(pids)
  PROVE  KeysGo' /\ \A i \in Idx : \A s : KeysAre(i, s) => WillBe(i, s)
<1>1. Mapped' = Mapped \ pids /\ \A p \in Mapped' : pid_map'[p] = pid_map[p]
  BY DEF ClosePid, Mapped
<1>2. \A i \in Idx : Used(i)' => Used(i)
  BY <1>1 DEF Used
<1>3. DOMAIN <<>> = {}
  OBVIOUS
<1>4. ASSUME NEW i \in Idx
      PROVE  \/ keyindex'[i] = keyindex[i] /\ (Used(i)' <=> Used(i))
             \/ keyindex'[i] = [keyindex[i] EXCEPT !.keys = <<>>] /\ ~Used(i)'
  <2> DEFINE goes == /\ \E p \in Mapped \cap pids : pid_map[p] = i
                     /\ \A p \in Mapped \ pids : pid_map[p] # i
  <2>1. keyindex'[i] = IF goes THEN [keyindex[i] EXCEPT !.keys = <<>>] ELSE keyindex[i]
    BY DEF ClosePid
  <2>2. goes => ~Used(i)'
    BY <1>1 DEF Used
  <2>3. ~goes => (Used(i)' <=> Used(i))
    BY <1>1 DEF Used
  <2> HIDE DEF goes
  <2> QED BY <2>1, <2>2, <2>3
<1>5. ASSUME NEW i \in Idx PROVE (IF Used(i) THEN keyindex[i].valid ELSE keyindex[i].valid => Status(i) = {})'
  <2>1. CASE keyindex'[i] = keyindex[i] /\ (Used(i)' <=> Used(i))
    BY <2>1 DEF KeysGo, Status
  <2>2. CASE keyindex'[i] = [keyindex[i] EXCEPT !.keys = <<>>] /\ ~Used(i)'
    BY <1>3, <2>2 DEF DescramblerInv, Status
  <2> QED BY <1>4, <2>1, <2>2
<1>6. ASSUME NEW i \in Idx, NEW s, KeysAre(i, s) PROVE WillBe(i, s)
  <2>1. CASE keyindex'[i] = keyindex[i] /\ (Used(i)' <=> Used(i))
    BY <1>6, <2>1 DEF KeysAre, WillBe, Used, Mapped, Status
  <2>2. CASE ~Used(i)'
    BY <2>2 DEF WillBe, Used, Mapped
  <2> QED BY <1>4, <2>1, <2>2
<1> QED BY <1>5, <1>6 DEF KeysGo

LEMMA InvalidateKeys ==
  ASSUME DescramblerInv, Invalidate
  PROVE  KeysGo' /\ \A i \in Idx : \A s : WillBe(i, s)
<1>1. DOMAIN pid_map' = {}
  BY DEF Invalidate
<1>2. \A i \in Idx : ~keyindex'[i].valid
  BY DEF Invalidate, DescramblerInv
<1>3. \A i \in Idx : ~Used(i)'
  BY <1>1 DEF Used, Mapped
<1>4. KeysGo'
  BY <1>2, <1>3 DEF KeysGo
<1> QED BY <1>1, <1>4 DEF WillBe

\* What is written is of the service, if the rest is or all of it is written.
LEMMA WriteCWKeys ==
  ASSUME DescramblerInv, KeysGo, NEW idx \in Idx, NEW cw, NEW force \in BOOLEAN,
         WriteCW(idx, cw, force), pid_map' = pid_map
  PROVE  /\ KeysGo' /\ \A i \in Idx \ {idx} : \A s : KeysAre(i, s) => WillBe(i, s)
         /\ \A s : (\A q \in Parity : cw[q][1] = s) /\ (force \/ KeysAre(idx, s)) => WillBe(idx, s)
<1>1. \A i \in Idx : Used(i)' <=> Used(i)
  BY DEF Used, Mapped
<1>2. CASE ~Used(idx)
  <2>1. keyindex' = keyindex
    BY <1>2 DEF WriteCW, SetKeys, Used
  <2>2. KeysGo'
    BY <1>1, <2>1 DEF KeysGo, Status
  <2> QED BY <1>2, <2>1, <2>2 DEF KeysAre, WillBe, Used, Mapped, Status
<1>3. CASE Used(idx)
  <2> DEFINE halves == {p \in Parity : force \/ lastCW[idx][p] # cw[p]}
             k == [p \in Status(idx) \cup halves |->
                     IF p \in halves THEN cw[p] ELSE keyindex[idx].keys[p]]
  <2>1. keyindex' = [keyindex EXCEPT ![idx].keys = k]
    BY <1>3 DEF WriteCW, SetKeys, Used
  <2>2. DOMAIN k = Status(idx) \cup halves /\ halves \subseteq Parity /\ Status(idx) \subseteq Parity
    BY DEF DescramblerInv
  <2>3. force => halves = Parity
    OBVIOUS
  <2>4. ASSUME NEW s, \A q \in Parity : cw[q][1] = s, force \/ KeysAre(idx, s)
        PROVE  \A q \in DOMAIN k : k[q][1] = s
    <3> SUFFICES ASSUME NEW q \in Status(idx) \cup halves PROVE k[q][1] = s
      OBVIOUS
    <3>1. CASE q \in halves
      BY <2>2, <2>4, <3>1
    <3>2. CASE q \notin halves
      <4>1. q \in Status(idx) /\ q \in Parity /\ ~force
        BY <2>2, <2>3, <3>2
      <4>2. keyindex[idx].keys[q][1] = s
        BY <1>3, <2>4, <4>1 DEF KeysAre
      <4> QED BY <3>2, <4>1, <4>2
    <3> QED BY <3>1, <3>2
  <2> HIDE DEF k, halves
  <2>5. /\ keyindex'[idx].keys = k /\ keyindex'[idx].valid = keyindex[idx].valid
        /\ \A i \in Idx \ {idx} : keyindex'[i] = keyindex[i]
    BY <2>1 DEF DescramblerInv
  <2>6. ASSUME NEW i \in Idx
        PROVE  (IF Used(i) THEN keyindex[i].valid ELSE keyindex[i].valid => Status(i) = {})'
    <3>1. CASE i = idx
      BY <1>1, <1>3, <2>5, <3>1 DEF KeysGo
    <3>2. CASE i # idx
      BY <1>1, <2>5, <3>2 DEF KeysGo, Status
    <3> QED BY <3>1, <3>2
  <2>7. \A i \in Idx \ {idx} : \A s : KeysAre(i, s) => WillBe(i, s)
    BY <2>5 DEF KeysAre, WillBe, Used, Mapped, Status
  <2>8. \A s : (\A q \in Parity : cw[q][1] = s) /\ (force \/ KeysAre(idx, s)) => WillBe(idx, s)
    BY <2>4, <2>5 DEF WillBe
  <2> QED BY <2>6, <2>7, <2>8 DEF KeysGo
<1> QED BY <1>2, <1>3

\* A handler that is given a program works with what it worked with before.
LEMMA SetPrgWorks ==
  ASSUME NEW h \in Handler, WorksOn(h), NEW to \in Idx, to = h.cwIndex \/ h.cwIndex = 0,
         NEW s, NEW pids
  PROVE  LET g == SetPrg(Shift(h, to), s, pids)
         IN /\ WorksOn(g) /\ (g.sync => h.sync)
            /\ g.filterCwIndex = h.filterCwIndex /\ g.filterSid = h.filterSid
<1> DEFINE k == Shift(h, to)
           a == k.trigger \/ k.sid # s \/ pids # {}
           b == k.triggerMode \/ pids # {}
           g == SetPrg(k, s, pids)
<1>1. /\ k \in Handler /\ k.cwIndex = to /\ k.sid = h.sid /\ k.filterSid = h.filterSid
      /\ k.filterCwIndex = h.filterCwIndex /\ k.last = h.last /\ k.job = h.job /\ k.mode = h.mode
      /\ (k.sync <=> h.sync) /\ (~k.trigger => ~h.trigger /\ to = h.cwIndex)
  <2>1. CASE h.cwIndex = to
    BY <2>1 DEF Shift
  <2>2. CASE h.cwIndex # to
    <3>1. k = [h EXCEPT !.cwIndex = to, !.trigger = TRUE]
      BY <2>2 DEF Shift
    <3> QED BY <3>1 DEF Handler
  <2> QED BY <2>1, <2>2
<1>2. g = [k EXCEPT !.sid = s, !.pids = pids, !.trigger = a, !.triggerMode = b]
  BY DEF SetPrg
<1>3. ~a => ~k.trigger /\ k.sid = s
  OBVIOUS
<1> HIDE DEF k, a, b, g
<1>4. /\ g.cwIndex = k.cwIndex /\ g.sid = s /\ g.trigger = a /\ g.filterSid = k.filterSid
      /\ g.filterCwIndex = k.filterCwIndex /\ g.last = k.last /\ g.job = k.job /\ g.mode = k.mode
      /\ g.sync = k.sync
  BY <1>1, <1>2 DEF Handler
<1>5. ~g.trigger => ~k.trigger /\ k.sid = s
  BY <1>3, <1>4
<1>6. g.sync <=> h.sync
  BY <1>1, <1>4
<1>7. WorksOn(g)
  BY <1>1, <1>4, <1>5, <1>6 DEF WorksOn
<1> QED BY <1>1, <1>4, <1>6, <1>7 DEF g, k

\* One handler changes, and of the indices only its own or index zero.
LEMMA OneFits ==
  ASSUME HandlersInv, KeysFit, NEW n \in DOMAIN handlerList, NEW g,
         DOMAIN handlerList' = DOMAIN handlerList, handlerList'[n] = g,
         \A m \in DOMAIN handlerList \ {n} : handlerList'[m] = handlerList[m],
         WorksOn(g), g.sync /\ g.filterCwIndex # 0 => WillBe(g.filterCwIndex, g.filterSid),
         \A i \in Idx \ {0, handlerList[n].cwIndex} : \A s : KeysAre(i, s) => WillBe(i, s)
  PROVE  KeysFit'
<1>1. ASSUME NEW m \in DOMAIN handlerList'
      PROVE  LET h == handlerList'[m]
             IN WorksOn(h) /\ (h.sync /\ h.filterCwIndex # 0 => WillBe(h.filterCwIndex, h.filterSid))
  <2>1. CASE m = n
    BY <2>1
  <2>2. CASE m # n
    <3> DEFINE h == handlerList[m]
    <3>1. handlerList'[m] = h /\ m \in DOMAIN handlerList
      BY <2>2
    <3>2. h.cwIndex \in Idx /\ h.cwIndex # handlerList[n].cwIndex
      BY <2>2, <3>1, HandlerOf DEF HandlersInv
    <3>3. WorksOn(h) /\ (h.sync /\ h.filterCwIndex # 0 => KeysAre(h.filterCwIndex, h.filterSid))
      BY <3>1 DEF KeysFit
    <3>4. h.filterCwIndex \in {h.cwIndex, 0}
      BY <3>3 DEF WorksOn
    <3> HIDE DEF h
    <3> QED BY <3>1, <3>2, <3>3, <3>4
  <2> QED BY <2>1, <2>2
<1> QED BY <1>1, FitsNext

\* ... and none of the handlers does.
LEMMA NoneFitsLess ==
  ASSUME HandlersInv, KeysFit, handlerList' = handlerList,
         \A i \in Idx : \A s : KeysAre(i, s) => WillBe(i, s)
  PROVE  KeysFit'
<1>1. ASSUME NEW m \in DOMAIN handlerList
      PROVE  LET h == handlerList[m]
             IN WorksOn(h) /\ (h.sync /\ h.filterCwIndex # 0 => WillBe(h.filterCwIndex, h.filterSid))
  <2> DEFINE h == handlerList[m]
  <2>1. WorksOn(h) /\ (h.sync /\ h.filterCwIndex # 0 => KeysAre(h.filterCwIndex, h.filterSid))
    BY DEF KeysFit
  <2>2. h.filterCwIndex \in Idx
    <3>1. h \in Handler
      BY HandlerOf
    <3> QED BY <3>1 DEF Handler
  <2> HIDE DEF h
  <2>3. WorksOn(h) /\ (h.sync /\ h.filterCwIndex # 0 => WillBe(h.filterCwIndex, h.filterSid))
    BY <2>1, <2>2
  <2> QED BY <2>3 DEF h
<1> QED BY <1>1, FitsNext

LEMMA SameKeys ==
  ASSUME UNCHANGED <<pid_map, keyindex>>
  PROVE  (KeysGo => KeysGo') /\ \A i, s : KeysAre(i, s) => WillBe(i, s)
BY DEF KeysGo, Used, Mapped, Status, KeysAre, WillBe

LEMMA GiveFits ==
  ASSUME HandlersInv, DescramblerInv, SyncInv, NEW s \in Sids, NEW pids \in SUBSET Pids,
         NEW n \in DOMAIN handlerList, handlerList[n].sid = s \/ WithSid(s) = {},
         Give(n, s, pids)
  PROVE  SyncInv'
<1> DEFINE h == handlerList[n]
           to == ToGive(h, pids)
           kept == IF h.sid = s THEN h.pids ELSE {}
           new == (pids \ kept) \cup (IF to = h.cwIndex THEN {} ELSE h.pids)
           g == SetPrg(Shift(h, to), s, pids)
<1>1. h \in Handler /\ h.pids \in SUBSET Pids /\ h.cwIndex \in Idx
  BY HandlerOf
<1>2. to \in Idx /\ (to = h.cwIndex \/ h.cwIndex = 0)
  BY <1>1, ToGiveIs
<1>3. handlerList' = [handlerList EXCEPT ![n] = g] /\ MapPids(new, to)
  BY DEF Give
<1>4. new \in SUBSET Pids
  BY <1>1
<1>5. /\ DOMAIN handlerList' = DOMAIN handlerList /\ handlerList'[n] = g
      /\ \A m \in DOMAIN handlerList \ {n} : handlerList'[m] = handlerList[m]
  BY <1>3
<1>6. WorksOn(h) /\ (h.sync /\ h.filterCwIndex # 0 => KeysAre(h.filterCwIndex, h.filterSid))
      /\ h.filterCwIndex \in Idx /\ KeysGo /\ KeysFit
  BY <1>1 DEF SyncInv, KeysFit, Handler
<1> HIDE DEF h, to, new
<1>7. KeysGo' /\ \A i \in Idx : \A t : KeysAre(i, t) => WillBe(i, t)
  BY <1>2, <1>3, <1>4, <1>6, MapPidsKeys
<1>8. /\ WorksOn(g) /\ (g.sync => h.sync)
      /\ g.filterCwIndex = h.filterCwIndex /\ g.filterSid = h.filterSid
  BY <1>1, <1>2, <1>6, SetPrgWorks
<1> HIDE DEF g
<1>9. g.sync /\ g.filterCwIndex # 0 => WillBe(g.filterCwIndex, g.filterSid)
  BY <1>6, <1>7, <1>8
<1>10. KeysFit'
  BY <1>5, <1>6, <1>7, <1>8, <1>9, OneFits
<1> QED BY <1>7, <1>10 DEF SyncInv

LEMMA GiveNewFits ==
  ASSUME HandlersInv, DescramblerInv, SyncInv, NEW s \in Sids, NEW pids \in SUBSET Pids,
         WithSid(s) = {}, Free # {}, GiveNew(s, pids)
  PROVE  SyncInv'
<1> DEFINE i == FreeIndex
           g == SetPrg(NewHandler(i), s, pids)
           D == DOMAIN handlerList
           new == Len(handlerList) + 1
<1>1. DOMAIN handlerList' = D \cup {new} /\ \A m \in D : handlerList'[m] = handlerList[m]
  BY GiveNewTyped
<1>2. i \in Idx
  <2>1. Free \subseteq Nat
    BY DEF Free, Idx
  <2>2. CASE Free = {0}
    BY <2>2, LowestIs DEF FreeIndex, Free
  <2>3. CASE Free # {0}
    <3>1. Free \ {0} # {} /\ Free \ {0} \subseteq Nat
      BY <2>1, <2>3
    <3> QED BY <2>3, <3>1, LowestIs DEF FreeIndex, Free
  <2> QED BY <2>2, <2>3
<1>3. handlerList' = Append(handlerList, g) /\ MapPids(pids, i)
  BY DEF GiveNew
<1>4. handlerList'[new] = g
  BY <1>3, ListIs
<1>5. KeysGo' /\ \A j \in Idx : \A t : KeysAre(j, t) => WillBe(j, t)
  BY <1>2, <1>3, MapPidsKeys DEF SyncInv
<1>6. WorksOn(g) /\ ~g.sync
  <2>1. NewHandler(i) \in Handler
    BY <1>2, NewHandlerTyped
  <2>2. Shift(NewHandler(i), i) = NewHandler(i) /\ NewHandler(i).cwIndex = i
    BY DEF Shift, NewHandler
  <2>3. WorksOn(NewHandler(i)) /\ ~NewHandler(i).sync
    BY DEF WorksOn, NewHandler
  <2> QED BY <1>2, <2>1, <2>2, <2>3, SetPrgWorks
<1> HIDE DEF g
<1>7. ASSUME NEW m \in D
      PROVE  LET h == handlerList[m]
             IN WorksOn(h) /\ (h.sync /\ h.filterCwIndex # 0 => WillBe(h.filterCwIndex, h.filterSid))
  <2> DEFINE h == handlerList[m]
  <2>1. WorksOn(h) /\ (h.sync /\ h.filterCwIndex # 0 => KeysAre(h.filterCwIndex, h.filterSid))
    BY DEF SyncInv, KeysFit
  <2>2. h.filterCwIndex \in Idx
    <3>1. h \in Handler
      BY HandlerOf
    <3> QED BY <3>1 DEF Handler
  <2> HIDE DEF h
  <2>3. WorksOn(h) /\ (h.sync /\ h.filterCwIndex # 0 => WillBe(h.filterCwIndex, h.filterSid))
    BY <1>5, <2>1, <2>2
  <2> QED BY <2>3 DEF h
<1>8. KeysFit'
  BY <1>1, <1>4, <1>6, <1>7, FitsNext
<1> QED BY <1>5, <1>8 DEF SyncInv

LEMMA AddPrgFits ==
  ASSUME HandlersInv, DescramblerInv, SyncInv, NEW s \in Sids, NEW pids \in SUBSET Pids,
         AddPrg(s, pids)
  PROVE  SyncInv'
<1>1. CASE WithSid(s) # {}
  <2>1. Give(LastOf(WithSid(s)), s, pids)
    BY <1>1 DEF AddPrg
  <2> QED BY <1>1, <2>1, HandlerTaken, GiveFits
<1>2. CASE WithSid(s) = {} /\ IdleOnes # {}
  <2>1. Give(IdleHandler, s, pids)
    BY <1>2 DEF AddPrg
  <2>2. IdleHandler \in DOMAIN handlerList
    BY <1>2, HandlerTaken DEF IdleOnes
  <2> QED BY <1>2, <2>1, <2>2, GiveFits
<1>3. CASE WithSid(s) = {} /\ IdleOnes = {} /\ Free # {}
  BY <1>3, GiveNewFits DEF AddPrg
<1>4. CASE WithSid(s) = {} /\ IdleOnes = {} /\ Free = {}
  <2>1. UNCHANGED <<handlerList, pid_map, keyindex>>
    BY <1>4 DEF AddPrg
  <2> QED BY <2>1, SameKeys, NoneFitsLess DEF SyncInv
<1> QED BY <1>1, <1>2, <1>3, <1>4

\* Restart and NoSync: nothing is in sync.
LEMMA RestartWorks ==
  ASSUME NEW h \in Handler, h.job = NoCw, h.filterCwIndex \in {h.cwIndex, 0},
         ~ h.trigger => h.filterSid = h.sid /\ h.filterCwIndex = h.cwIndex
  PROVE  WorksOn(NoSync(h)) /\ ~NoSync(h).sync /\ WorksOn(Restart(h)) /\ ~Restart(h).sync
<1> DEFINE k == NoSync(h)
           m == IF h.filterSid = NoSid \/ IsIdle(h) THEN "off" ELSE "find"
<1>1. /\ k \in Handler /\ k.job = NoCw /\ ~k.sync /\ k.cwIndex = h.cwIndex /\ k.sid = h.sid
      /\ k.filterSid = h.filterSid /\ k.filterCwIndex = h.filterCwIndex /\ k.trigger = h.trigger
  BY DEF NoSync, Handler
<1>2. Restart(h) = [k EXCEPT !.mode = m]
  BY DEF Restart
<1> HIDE DEF k, m
<1> DEFINE g == [k EXCEPT !.mode = m]
<1>3. /\ g.job = NoCw /\ ~g.sync /\ g.cwIndex = h.cwIndex /\ g.sid = h.sid
      /\ g.filterSid = h.filterSid /\ g.filterCwIndex = h.filterCwIndex /\ g.trigger = h.trigger
  BY <1>1 DEF Handler
<1> HIDE DEF g
<1>4. WorksOn(g) /\ WorksOn(k)
  BY <1>1, <1>3 DEF WorksOn
<1> QED BY <1>1, <1>2, <1>3, <1>4 DEF g, k

\* A thread changes its handler; the keys stay.
LEMMA ThreadFits ==
  ASSUME HandlersInv, SyncInv, NEW n \in DOMAIN handlerList, NEW g,
         handlerList' = [handlerList EXCEPT ![n] = g], UNCHANGED <<pid_map, keyindex>>,
         WorksOn(g),
         g.sync => /\ handlerList[n].sync /\ g.filterCwIndex = handlerList[n].filterCwIndex
                   /\ g.filterSid = handlerList[n].filterSid
  PROVE  SyncInv'
<1> DEFINE h == handlerList[n]
<1>1. KeysGo' /\ \A i, s : KeysAre(i, s) => WillBe(i, s)
  BY SameKeys DEF SyncInv
<1>2. h.sync /\ h.filterCwIndex # 0 => KeysAre(h.filterCwIndex, h.filterSid)
  BY DEF SyncInv, KeysFit
<1>3. g.sync /\ g.filterCwIndex # 0 => WillBe(g.filterCwIndex, g.filterSid)
  BY <1>1, <1>2
<1>4. /\ DOMAIN handlerList' = DOMAIN handlerList /\ handlerList'[n] = g
      /\ \A m \in DOMAIN handlerList \ {n} : handlerList'[m] = handlerList[m]
  OBVIOUS
<1>5. KeysFit'
  BY <1>1, <1>3, <1>4, OneFits DEF SyncInv
<1> QED BY <1>1, <1>5 DEF SyncInv

LEMMA TriggeredFits ==
  ASSUME HandlersInv, DescramblerInv, SyncInv, NEW n \in DOMAIN handlerList, Triggered(n)
  PROVE  SyncInv'
<1> DEFINE h == handlerList[n]
           t == [h EXCEPT !.trigger = FALSE, !.triggerMode = FALSE, !.filterSid = h.sid,
                          !.filterCwIndex = h.cwIndex]
           other == h.filterSid # h.sid
           g == IF other \/ (h.mode = "off" /\ h.triggerMode) THEN Restart(t) ELSE t
<1>1. /\ h \in Handler /\ h.cwIndex \in Idx /\ h.filterCwIndex \in {h.cwIndex, 0}
      /\ h.job = NoCw /\ WorksOn(h)
      /\ h.sync /\ h.filterCwIndex # 0 => KeysAre(h.filterCwIndex, h.filterSid)
  BY HandlerOf DEF SyncInv, KeysFit, WorksOn, Triggered
<1>2. /\ t \in Handler /\ t.job = NoCw /\ ~t.trigger /\ t.filterSid = h.sid /\ t.sid = h.sid
      /\ t.filterCwIndex = h.cwIndex /\ t.cwIndex = h.cwIndex /\ t.sync = h.sync
      /\ t.mode = h.mode /\ t.last = h.last
  BY <1>1 DEF Handler
<1>3. handlerList' = [handlerList EXCEPT ![n] = g] /\ pid_map' = pid_map
      /\ IF ~ other /\ h.filterCwIndex # h.cwIndex /\ h.mode = "ecm" /\ h.sync
         THEN WriteCW(h.cwIndex, h.last, TRUE) ELSE UNCHANGED keyindex
  BY DEF Triggered, Replace
<1> HIDE DEF h, t
<1>4. CASE other \/ (h.mode = "off" /\ h.triggerMode)
  <2>1. UNCHANGED keyindex /\ g = Restart(t)
    BY <1>3, <1>4
  <2>2. WorksOn(g) /\ ~g.sync
    BY <1>2, <2>1, RestartWorks
  <2> HIDE DEF g
  <2> QED BY <1>3, <2>1, <2>2, ThreadFits
<1>5. CASE ~other /\ ~(h.mode = "off" /\ h.triggerMode)
  <2>1. g = t /\ h.filterSid = h.sid
    BY <1>5
  <2>2. WorksOn(t)
    BY <1>1, <1>2, <2>1 DEF WorksOn
  <2> HIDE DEF g
  <2>3. CASE h.filterCwIndex # h.cwIndex /\ h.sync
    <3>1. h.mode = "ecm" /\ \A q \in Parity : h.last[q][1] = h.filterSid
      BY <1>1, <2>3 DEF WorksOn
    <3>2. WriteCW(h.cwIndex, h.last, TRUE)
      BY <1>3, <1>5, <2>3, <3>1
    <3>3. /\ KeysGo' /\ WillBe(h.cwIndex, h.filterSid)
          /\ \A i \in Idx \ {h.cwIndex} : \A s : KeysAre(i, s) => WillBe(i, s)
      BY <1>1, <1>3, <3>1, <3>2, WriteCWKeys DEF SyncInv
    <3>4. /\ DOMAIN handlerList' = DOMAIN handlerList /\ handlerList'[n] = t
          /\ \A m \in DOMAIN handlerList \ {n} : handlerList'[m] = handlerList[m]
      BY <1>3, <2>1
    <3>5. WillBe(t.filterCwIndex, t.filterSid)
      BY <1>2, <2>1, <3>3
    <3>6. \A i \in Idx \ {0, handlerList[n].cwIndex} : \A s : KeysAre(i, s) => WillBe(i, s)
      BY <3>3 DEF h
    <3>7. KeysFit'
      BY <2>2, <3>4, <3>5, <3>6, OneFits DEF SyncInv
    <3> QED BY <3>3, <3>7 DEF SyncInv
  <2>4. CASE ~(h.filterCwIndex # h.cwIndex /\ h.sync)
    <3>1. UNCHANGED <<pid_map, keyindex>> /\ handlerList' = [handlerList EXCEPT ![n] = t]
      BY <1>3, <2>1, <2>4
    <3>2. t.sync => h.sync /\ t.filterCwIndex = h.filterCwIndex /\ t.filterSid = h.filterSid
      BY <1>2, <2>1, <2>4
    <3> QED BY <2>2, <3>1, <3>2, ThreadFits DEF h
  <2> QED BY <2>3, <2>4
<1> QED BY <1>4, <1>5

LEMMA DecodedFits ==
  ASSUME HandlersInv, DescramblerInv, SyncInv, NEW n \in DOMAIN handlerList, Decoded(n)
  PROVE  SyncInv'
<1> DEFINE h == handlerList[n]
           cw == Cw(h.filterSid, h.job.n)
           a == h.resend \/ ~ h.sync
           p == h.job.n % 2
           g == [h EXCEPT !.job = NoCw, !.parity = p, !.last = cw, !.sync = TRUE, !.resend = a]
           i == h.filterCwIndex
<1>1. /\ h \in Handler /\ h.cwIndex \in Idx /\ i \in Idx /\ i \in {h.cwIndex, 0}
      /\ h.job # NoCw /\ WorksOn(h) /\ h.job.force \in BOOLEAN
      /\ h.sync /\ i # 0 => KeysAre(i, h.filterSid)
  <2>1. h \in Handler /\ h.job # NoCw
    BY HandlerOf DEF Decoded
  <2> QED BY <2>1 DEF SyncInv, KeysFit, WorksOn, Handler
<1>2. h.mode = "ecm" /\ (h.job.force \/ h.sync)
  BY <1>1 DEF WorksOn
<1>3. \A q \in Parity : cw[q][1] = h.filterSid
  BY DEF Cw
<1>4. handlerList' = [handlerList EXCEPT ![n] = g] /\ pid_map' = pid_map
      /\ WriteCW(i, cw, h.job.force)
  BY DEF Decoded, Replace
<1> HIDE DEF cw, a, p
<1>5. /\ g.job = NoCw /\ g.sync /\ g.last = cw /\ g.mode = "ecm" /\ g.cwIndex = h.cwIndex
      /\ g.filterCwIndex = i /\ g.filterSid = h.filterSid /\ g.sid = h.sid /\ g.trigger = h.trigger
  BY <1>1, <1>2 DEF Handler
<1>6. /\ DOMAIN handlerList' = DOMAIN handlerList /\ handlerList'[n] = g
      /\ \A m \in DOMAIN handlerList \ {n} : handlerList'[m] = handlerList[m]
  BY <1>4
<1> HIDE DEF h, g, i
<1>7. WorksOn(g)
  BY <1>1, <1>3, <1>5 DEF WorksOn, i
<1>8. /\ KeysGo' /\ \A j \in Idx \ {i} : \A s : KeysAre(j, s) => WillBe(j, s)
      /\ h.job.force \/ KeysAre(i, h.filterSid) => WillBe(i, h.filterSid)
  BY <1>1, <1>3, <1>4, WriteCWKeys DEF SyncInv
<1>9. g.filterCwIndex # 0 => WillBe(g.filterCwIndex, g.filterSid)
  BY <1>1, <1>2, <1>5, <1>8
<1>10. \A j \in Idx \ {0, handlerList[n].cwIndex} : \A s : KeysAre(j, s) => WillBe(j, s)
  BY <1>1, <1>8 DEF h
<1>11. KeysFit'
  BY <1>6, <1>7, <1>9, <1>10, OneFits DEF SyncInv
<1> QED BY <1>8, <1>11 DEF SyncInv

LEMMA ProcessFits ==
  ASSUME HandlersInv, DescramblerInv, SyncInv, NEW n \in DOMAIN handlerList, Process(n)
  PROVE  SyncInv'
<1> DEFINE h == handlerList[n]
<1>1. h \in Handler /\ WorksOn(h)
  BY HandlerOf DEF SyncInv, KeysFit
<1>2. CASE FindEcm(n)
  <2> DEFINE g == [h EXCEPT !.mode = "ecm"]
  <2>1. /\ handlerList' = [handlerList EXCEPT ![n] = g] /\ UNCHANGED <<pid_map, keyindex>>
        /\ h.job = NoCw /\ h.mode = "find"
    BY <1>2 DEF FindEcm, Replace
  <2>2. WorksOn(g) /\ ~g.sync
    BY <1>1, <2>1 DEF WorksOn, Handler
  <2> HIDE DEF g
  <2> QED BY <2>1, <2>2, ThreadFits
<1>3. CASE GiveUpFinding(n) \/ HoldExpires(n)
  <2>1. /\ handlerList' = [handlerList EXCEPT ![n] = Restart(h)] /\ UNCHANGED <<pid_map, keyindex>>
        /\ h.job = NoCw
    BY <1>3 DEF GiveUpFinding, HoldExpires, Replace
  <2>2. WorksOn(Restart(h)) /\ ~Restart(h).sync
    BY <1>1, <2>1, RestartWorks DEF WorksOn
  <2> QED BY <2>1, <2>2, ThreadFits
<1>4. CASE TakeEcm(n)
  <2>1. PICK resend \in {FALSE, h.resend} :
          handlerList' = [handlerList EXCEPT ![n] =
            [h EXCEPT !.resend = h.resend /\ ~ resend,
                      !.job = [n |-> period, force |-> (resend /\ h.sync) \/ ~ h.sync]]]
    BY <1>4 DEF TakeEcm, Replace
  <2> DEFINE a == h.resend /\ ~ resend
             b == (resend /\ h.sync) \/ ~ h.sync
             j == [n |-> period, force |-> b]
             g == [h EXCEPT !.resend = a, !.job = j]
  <2>2. UNCHANGED <<pid_map, keyindex>> /\ h.mode = "ecm"
        /\ handlerList' = [handlerList EXCEPT ![n] = g]
    BY <1>4, <2>1 DEF TakeEcm
  <2>3. j.force \/ h.sync
    OBVIOUS
  <2> HIDE DEF a, b, j
  <2>4. /\ g.job = j /\ g.sync = h.sync /\ g.last = h.last /\ g.mode = "ecm" /\ g.cwIndex = h.cwIndex
        /\ g.filterCwIndex = h.filterCwIndex /\ g.filterSid = h.filterSid /\ g.sid = h.sid
        /\ g.trigger = h.trigger
    BY <1>1, <2>2 DEF Handler
  <2> HIDE DEF g
  <2>5. WorksOn(g)
    BY <1>1, <2>3, <2>4 DEF WorksOn
  <2> QED BY <2>2, <2>4, <2>5, ThreadFits
<1>5. CASE Failed(n)
  <2> DEFINE t == [h EXCEPT !.job = NoCw, !.parity = NoCw]
  <2>1. /\ \/ handlerList' = [handlerList EXCEPT ![n] = t]
           \/ handlerList' = [handlerList EXCEPT ![n] = NoSync(t)]
        /\ UNCHANGED <<pid_map, keyindex>>
    BY <1>5 DEF Failed, Replace
  <2>2. /\ t \in Handler /\ t.job = NoCw /\ t.sync = h.sync /\ t.last = h.last /\ t.mode = h.mode
        /\ t.cwIndex = h.cwIndex /\ t.filterCwIndex = h.filterCwIndex /\ t.filterSid = h.filterSid
        /\ t.sid = h.sid /\ t.trigger = h.trigger
    BY <1>1 DEF Handler
  <2> HIDE DEF t
  <2>3. WorksOn(t)
    BY <1>1, <2>2 DEF WorksOn
  <2>4. WorksOn(NoSync(t)) /\ ~NoSync(t).sync
    BY <2>2, <2>3, RestartWorks DEF WorksOn
  <2> QED BY <2>1, <2>2, <2>3, <2>4, ThreadFits
<1> QED BY <1>2, <1>3, <1>4, <1>5, TriggeredFits, DecodedFits DEF Process

LEMMA PerformFits ==
  ASSUME CwInv, SyncInv, Perform
  PROVE  SyncInv'
<1> DEFINE c == Head(calls)
<1>1. c \in Called /\ HandlersInv /\ DescramblerInv /\ KeysGo /\ KeysFit
  BY CalledTyped DEF CwInv, Perform, SyncInv
<1>2. c.pids \in SUBSET Pids /\ (c.op = "prg" => c.sid \in Sids)
  BY <1>1 DEF Called, CallType
<1>3. \/ c.op = "prg" /\ AddPrg(c.sid, c.pids)
      \/ Stop \/ UNCHANGED coreVars \/ ClosePid(c.pids) \/ Invalidate
  BY DEF Perform, Tune
<1> HIDE DEF c
<1>4. CASE c.op = "prg" /\ AddPrg(c.sid, c.pids)
  BY <1>1, <1>2, <1>4, AddPrgFits
<1>5. CASE Stop
  <2>1. UNCHANGED <<pid_map, keyindex>>
    BY <1>5 DEF Stop
  <2>2. KeysGo' /\ \A i, s : KeysAre(i, s) => WillBe(i, s)
    BY <1>1, <2>1, SameKeys
  <2>3. ASSUME NEW m \in DOMAIN handlerList'
        PROVE  LET h == handlerList'[m]
               IN WorksOn(h) /\ (h.sync /\ h.filterCwIndex # 0 => WillBe(h.filterCwIndex, h.filterSid))
    <3> DEFINE h == handlerList[m]
               g == handlerList'[m]
    <3>1. m \in DOMAIN handlerList
      BY <1>5 DEF Stop
    <3>2. g = h \/ g = [h EXCEPT !.sid = NoSid, !.pids = {}, !.trigger = TRUE]
      BY <1>5, <3>1 DEF Stop
    <3>3. h \in Handler /\ WorksOn(h)
          /\ (h.sync /\ h.filterCwIndex # 0 => KeysAre(h.filterCwIndex, h.filterSid))
      BY <1>1, <3>1, HandlerOf DEF KeysFit
    <3> HIDE DEF h, g
    <3>4. /\ g.job = h.job /\ g.sync = h.sync /\ g.last = h.last /\ g.mode = h.mode
          /\ g.cwIndex = h.cwIndex /\ g.filterCwIndex = h.filterCwIndex
          /\ g.filterSid = h.filterSid /\ (g.trigger \/ g = h)
      BY <3>2, <3>3 DEF Handler
    <3>5. WorksOn(g)
      BY <3>3, <3>4 DEF WorksOn
    <3>6. g.sync /\ g.filterCwIndex # 0 => WillBe(g.filterCwIndex, g.filterSid)
      BY <2>2, <3>3, <3>4
    <3> QED BY <3>5, <3>6 DEF g
  <2>4. KeysFit'
    BY <2>3, FitsNext
  <2> QED BY <2>2, <2>4 DEF SyncInv
<1>6. CASE UNCHANGED coreVars
  BY <1>1, <1>6, SameKeys, NoneFitsLess DEF SyncInv, coreVars
<1>7. CASE ClosePid(c.pids) \/ Invalidate
  <2>1. handlerList' = handlerList
    BY <1>7 DEF ClosePid, Invalidate
  <2>2. KeysGo' /\ \A i \in Idx : \A s : KeysAre(i, s) => WillBe(i, s)
    BY <1>1, <1>7, ClosePidKeys, InvalidateKeys
  <2> QED BY <1>1, <2>1, <2>2, NoneFitsLess DEF SyncInv
<1> QED BY <1>3, <1>4, <1>5, <1>6, <1>7

LEMMA SyncInitially == Init => SyncInv
<1> SUFFICES ASSUME Init PROVE SyncInv
  OBVIOUS
<1>1. DOMAIN handlerList = {} /\ Mapped = {} /\ \A i \in Idx : ~keyindex[i].valid
  BY DEF Init, Mapped
<1> QED BY <1>1 DEF SyncInv, KeysFit, KeysGo, Used

LEMMA SyncKept == CwInv /\ SyncInv /\ [Next]_vars => SyncInv'
<1> SUFFICES ASSUME CwInv, SyncInv, [Next]_vars PROVE SyncInv'
  OBVIOUS
<1>1. HandlersInv /\ DescramblerInv /\ KeysGo /\ KeysFit
  BY DEF CwInv, SyncInv
<1>2. ASSUME UNCHANGED <<handlerList, pid_map, keyindex>> PROVE SyncInv'
  BY <1>1, <1>2, SameKeys, NoneFitsLess DEF SyncInv
<1>3. CASE Perform
  BY <1>3, PerformFits
<1>4. CASE AMessage
  BY <1>2, <1>4 DEF AMessage, coreVars
<1>5. CASE KeepHouse
  <2>1. UNCHANGED <<pid_map, keyindex>>
    BY <1>5 DEF KeepHouse, HouseKeeping
  <2>2. KeysGo' /\ \A i, s : KeysAre(i, s) => WillBe(i, s)
    BY <1>1, <2>1, SameKeys
  <2>3. PICK n \in IdleOnes : /\ handlerList' = RemoveAt(handlerList, n)
                              /\ indexMap' = indexMap \ {handlerList[n].cwIndex}
    BY <1>5 DEF KeepHouse, HouseKeeping
  <2>4. \A j \in DOMAIN handlerList' : \E m \in DOMAIN handlerList : handlerList'[j] = handlerList[m]
    BY <1>1, <2>3, HandlerGone DEF IdleOnes
  <2>5. ASSUME NEW j \in DOMAIN handlerList'
        PROVE  LET h == handlerList'[j]
               IN WorksOn(h) /\ (h.sync /\ h.filterCwIndex # 0 => WillBe(h.filterCwIndex, h.filterSid))
    <3>1. PICK m \in DOMAIN handlerList : handlerList'[j] = handlerList[m]
      BY <2>4
    <3> DEFINE h == handlerList[m]
    <3>2. WorksOn(h) /\ (h.sync /\ h.filterCwIndex # 0 => KeysAre(h.filterCwIndex, h.filterSid))
      BY <1>1 DEF KeysFit
    <3> HIDE DEF h
    <3>3. WorksOn(h) /\ (h.sync /\ h.filterCwIndex # 0 => WillBe(h.filterCwIndex, h.filterSid))
      BY <2>2, <3>2
    <3> QED BY <3>1, <3>3 DEF h
  <2>6. KeysFit'
    BY <2>5, FitsNext
  <2> QED BY <2>2, <2>6 DEF SyncInv
<1>6. CASE Core
  <2>1. CASE NextPeriod
    BY <1>2, <2>1 DEF NextPeriod
  <2>2. ASSUME NEW n \in DOMAIN handlerList, Process(n) PROVE SyncInv'
    BY <1>1, <2>2, ProcessFits
  <2> QED BY <1>6, <2>1, <2>2 DEF Core
<1>7. CASE UNCHANGED vars
  BY <1>2, <1>7 DEF vars, coreVars
<1> QED BY <1>3, <1>4, <1>5, <1>6, <1>7 DEF Next

\* The pids of an index are descrambled with the keys of the service its handler
\* is in sync with (cam.c, cEcmHandler::Process; update_keys), whatever programs
\* come and go, also those that share streams: a handler writes only to its own
\* index, or to index zero, and an index has no keys of the last one to use it.
THEOREM KeysMatchService == Spec => []KeysOfService
<1>1. Init => CwInv /\ SyncInv
  BY CwInvInitially, SyncInitially
<1>2. CwInv /\ SyncInv /\ [Next]_vars => (CwInv /\ SyncInv)'
  BY CwInvKept, SyncKept
<1>3. CwInv /\ SyncInv => KeysOfService
  <2> SUFFICES ASSUME SyncInv, NEW p \in Mapped, NEW n \in DOMAIN handlerList,
                      pid_map[p] # 0, handlerList[n].cwIndex = pid_map[p],
                      ~ handlerList[n].trigger, handlerList[n].sync
               PROVE  \A q \in Status(pid_map[p]) :
                        keyindex[pid_map[p]].keys[q][1] = handlerList[n].sid
    BY DEF KeysOfService
  <2>1. WorksOn(handlerList[n])
        /\ (handlerList[n].sync /\ handlerList[n].filterCwIndex # 0 =>
              KeysAre(handlerList[n].filterCwIndex, handlerList[n].filterSid))
    BY DEF SyncInv, KeysFit
  <2>2. handlerList[n].filterCwIndex = pid_map[p] /\ handlerList[n].filterSid = handlerList[n].sid
    BY <2>1 DEF WorksOn
  <2> QED BY <2>1, <2>2 DEF KeysAre, Used
<1> QED BY <1>1, <1>2, <1>3, PTL DEF Spec

-----------------------------------------------------------------------------
(* The core and the descrambler implement CamPids as long as index zero is *)
(* free: a handler that leaves it maps pids again that are being closed,   *)
(* and a program is lost when no index is free.                            *)

\* The program a list of handlers has for a service.
Served(l, s) == UNION {l[n].pids : n \in {m \in DOMAIN l : l[m].sid = s}}

LEMMA PrgServed ==
  ASSUME NEW s
  PROVE  Prg(s) = Served(handlerList, s) /\ Prg(s)' = Served(handlerList', s)
BY DEF Prg, Served, WithSid

LEMMA ServedByOne ==
  ASSUME NEW l, NEW s, NEW n \in DOMAIN l, l[n].sid = s,
         \A m \in DOMAIN l : l[m].sid = s => m = n
  PROVE  Served(l, s) = l[n].pids
BY DEF Served

LEMMA ServedAlike ==
  ASSUME NEW l, NEW r, NEW s,
         \A n \in DOMAIN l : l[n].sid = s /\ l[n].pids # {} =>
           \E m \in DOMAIN r : r[m].sid = s /\ r[m].pids = l[n].pids,
         \A n \in DOMAIN r : r[n].sid = s /\ r[n].pids # {} =>
           \E m \in DOMAIN l : l[m].sid = s /\ l[m].pids = r[n].pids
  PROVE  Served(l, s) = Served(r, s)
<1>1. ASSUME NEW p \in Served(l, s) PROVE p \in Served(r, s)
  <2>1. PICK n \in DOMAIN l : l[n].sid = s /\ p \in l[n].pids
    BY <1>1 DEF Served
  <2>2. PICK m \in DOMAIN r : r[m].sid = s /\ r[m].pids = l[n].pids
    BY <2>1
  <2> QED BY <2>1, <2>2 DEF Served
<1>2. ASSUME NEW p \in Served(r, s) PROVE p \in Served(l, s)
  <2>1. PICK n \in DOMAIN r : r[n].sid = s /\ p \in r[n].pids
    BY <1>2 DEF Served
  <2>2. PICK m \in DOMAIN l : l[m].sid = s /\ l[m].pids = r[n].pids
    BY <2>1
  <2> QED BY <2>1, <2>2 DEF Served
<1> QED BY <1>1, <1>2

LEMMA SameProgramsServe ==
  ASSUME SamePrograms, NEW s
  PROVE  Prg(s)' = Prg(s)
<1>1. Served(handlerList, s) = Served(handlerList', s)
  BY ServedAlike DEF SamePrograms
<1> QED BY <1>1, PrgServed

\* One handler gets the program of s, and had none of another service.
LEMMA GivenServes ==
  ASSUME NEW l, NEW r, NEW n \in DOMAIN r, NEW s, NEW pids, NEW t,
         r[n].sid = s, r[n].pids = pids,
         DOMAIN r = DOMAIN l \cup {n}, \A m \in DOMAIN l \ {n} : r[m] = l[m],
         \A m \in DOMAIN l \ {n} : l[m].sid # s,
         n \in DOMAIN l => l[n].sid = s \/ l[n].pids = {}
  PROVE  Served(r, t) = IF t = s THEN pids ELSE Served(l, t)
<1>1. CASE t = s
  <2>1. \A m \in DOMAIN r : r[m].sid = s => m = n
    OBVIOUS
  <2> QED BY <1>1, <2>1, ServedByOne
<1>2. CASE t # s
  <2>1. \A m \in DOMAIN l : l[m].sid = t /\ l[m].pids # {} =>
          \E k \in DOMAIN r : r[k].sid = t /\ r[k].pids = l[m].pids
    BY <1>2
  <2>2. \A m \in DOMAIN r : r[m].sid = t /\ r[m].pids # {} =>
          \E k \in DOMAIN l : l[k].sid = t /\ l[k].pids = r[m].pids
    BY <1>2
  <2>3. Served(l, t) = Served(r, t)
    BY <2>1, <2>2, ServedAlike
  <2> QED BY <1>2, <2>3
<1> QED BY <1>1, <1>2

\* AddPrg gives the service its program and maps what is new in it.
LEMMA AddPrgServes ==
  ASSUME HandlersInv, DescramblerInv, NEW s \in Sids, NEW pids \in SUBSET Pids,
         0 \notin indexMap, AddPrg(s, pids)
  PROVE  /\ \A t \in Sids : Prg(t)' = IF t = s THEN pids ELSE Prg(t)
         /\ Mapped' = Mapped \cup (pids \ Prg(s))
<1>0. s # NoSid /\ 0 \in Free
  BY ProcessCamAssumption, CwIndexAssumption DEF Free, Idx
<1>1. OneHandlerPerSid
  BY DEF HandlersInv
<1>2. CASE WithSid(s) # {}
  <2> DEFINE n == LastOf(WithSid(s))
  <2>1. n \in DOMAIN handlerList /\ handlerList[n].sid = s /\ Give(n, s, pids)
    BY <1>2, HandlerTaken DEF AddPrg
  <2> HIDE DEF n
  <2>2. handlerList[n].cwIndex # 0
    BY <2>1, HandlerOf
  <2>3. Prg(s) = handlerList[n].pids
    BY <1>0, <1>1, <2>1, PrgIs
  <2>4. /\ DOMAIN handlerList' = DOMAIN handlerList
        /\ handlerList'[n].sid = s /\ handlerList'[n].pids = pids
        /\ \A m \in DOMAIN handlerList \ {n} : handlerList'[m] = handlerList[m]
        /\ Mapped' = Mapped \cup (pids \ handlerList[n].pids)
    BY <2>1, <2>2, GiveTyped
  <2>5. \A m \in DOMAIN handlerList \ {n} : handlerList[m].sid # s
    BY <1>0, <1>1, <2>1 DEF OneHandlerPerSid
  <2>6. ASSUME NEW t \in Sids
        PROVE  Served(handlerList', t) = IF t = s THEN pids ELSE Served(handlerList, t)
    <3>1. /\ n \in DOMAIN handlerList'
          /\ DOMAIN handlerList' = DOMAIN handlerList \cup {n}
          /\ n \in DOMAIN handlerList =>
               handlerList[n].sid = s \/ handlerList[n].pids = {}
      BY <2>1, <2>4
    <3>2. /\ handlerList'[n].sid = s /\ handlerList'[n].pids = pids
          /\ \A m \in DOMAIN handlerList \ {n} : handlerList'[m] = handlerList[m]
      BY <2>4
    <3> QED BY <2>5, <3>1, <3>2, GivenServes
  <2> QED BY <2>3, <2>4, <2>6, PrgServed
<1>3. CASE WithSid(s) = {} /\ IdleOnes # {}
  <2> DEFINE n == IdleHandler
  <2>1. n \in DOMAIN handlerList /\ handlerList[n].pids = {} /\ Give(n, s, pids)
    BY <1>3, HandlerTaken DEF AddPrg, IdleOnes, IsIdle
  <2> HIDE DEF n
  <2>2. handlerList[n].cwIndex # 0
    BY <2>1, HandlerOf
  <2>3. Prg(s) = {}
    BY <1>3, NoPrg
  <2>4. /\ DOMAIN handlerList' = DOMAIN handlerList
        /\ handlerList'[n].sid = s /\ handlerList'[n].pids = pids
        /\ \A m \in DOMAIN handlerList \ {n} : handlerList'[m] = handlerList[m]
        /\ Mapped' = Mapped \cup pids
    <3>1. handlerList[n].sid # s /\ pids \ {} = pids
      BY <1>3, <2>1 DEF WithSid
    <3>2. /\ DOMAIN handlerList' = DOMAIN handlerList
          /\ handlerList'[n].sid = s /\ handlerList'[n].pids = pids
          /\ \A m \in DOMAIN handlerList \ {n} : handlerList'[m] = handlerList[m]
          /\ Mapped' = Mapped \cup
               (pids \ (IF handlerList[n].sid = s THEN handlerList[n].pids ELSE {}))
      BY <1>3, <2>1, <2>2, GiveTyped
    <3> QED BY <3>1, <3>2
  <2>5. \A m \in DOMAIN handlerList \ {n} : handlerList[m].sid # s
    BY <1>3 DEF WithSid
  <2>6. ASSUME NEW t \in Sids
        PROVE  Served(handlerList', t) = IF t = s THEN pids ELSE Served(handlerList, t)
    <3>1. /\ n \in DOMAIN handlerList'
          /\ DOMAIN handlerList' = DOMAIN handlerList \cup {n}
          /\ n \in DOMAIN handlerList =>
               handlerList[n].sid = s \/ handlerList[n].pids = {}
      BY <2>1, <2>4
    <3>2. /\ handlerList'[n].sid = s /\ handlerList'[n].pids = pids
          /\ \A m \in DOMAIN handlerList \ {n} : handlerList'[m] = handlerList[m]
      BY <2>4
    <3> QED BY <2>5, <3>1, <3>2, GivenServes
  <2> QED BY <2>3, <2>4, <2>6, PrgServed
<1>4. CASE WithSid(s) = {} /\ IdleOnes = {}
  <2> DEFINE n == Len(handlerList) + 1
  <2>1. GiveNew(s, pids)
    BY <1>0, <1>4 DEF AddPrg
  <2>2. /\ DOMAIN handlerList' = DOMAIN handlerList \cup {n} /\ n \notin DOMAIN handlerList
        /\ handlerList'[n].sid = s /\ handlerList'[n].pids = pids
        /\ \A m \in DOMAIN handlerList : handlerList'[m] = handlerList[m]
        /\ Mapped' = Mapped \cup pids
    BY <1>0, <1>4, <2>1, GiveNewTyped
  <2> HIDE DEF n
  <2>3. Prg(s) = {}
    BY <1>4, NoPrg
  <2>4. \A m \in DOMAIN handlerList \ {n} : handlerList[m].sid # s
    BY <1>4 DEF WithSid
  <2>5. ASSUME NEW t \in Sids
        PROVE  Served(handlerList', t) = IF t = s THEN pids ELSE Served(handlerList, t)
    <3>1. /\ n \in DOMAIN handlerList' /\ \A m \in DOMAIN handlerList \ {n} :
                                           handlerList'[m] = handlerList[m]
      BY <2>2
    <3> QED BY <2>2, <2>4, <3>1, GivenServes
  <2> QED BY <2>2, <2>3, <2>5, PrgServed
<1> QED BY <1>2, <1>3, <1>4

\* The programs and the pids as CamPids has them.
LEMMA MapsAre ==
  /\ PrgMap = [a \in Adapters |-> [s \in Sids |-> Prg(s)]]
  /\ PrgMap' = [a \in Adapters |-> [s \in Sids |-> Prg(s)']]
  /\ MappedMap' = [a \in Adapters |-> Mapped']
BY DEF PrgMap, MappedMap, Prg

LEMMA MapsUnchanged ==
  ASSUME \A s \in Sids : Prg(s)' = Prg(s), Mapped' = Mapped
  PROVE  PrgMap' = PrgMap /\ MappedMap' = MappedMap
BY MapsAre DEF MappedMap

LEMMA HouseKeepingServes ==
  ASSUME HandlersInv, HouseKeeping, NEW s \in Sids
  PROVE  Prg(s)' = Prg(s)
<1>1. PICK n \in IdleOnes : /\ handlerList' = RemoveAt(handlerList, n)
                            /\ indexMap' = indexMap \ {handlerList[n].cwIndex}
  BY DEF HouseKeeping
<1>2. n \in DOMAIN handlerList /\ handlerList[n].pids = {}
  BY <1>1 DEF IdleOnes, IsIdle
<1>3. /\ \A j \in DOMAIN handlerList' : \E m \in DOMAIN handlerList \ {n} :
           handlerList'[j] = handlerList[m]
      /\ \A m \in DOMAIN handlerList \ {n} : \E j \in DOMAIN handlerList' :
           handlerList'[j] = handlerList[m]
  BY <1>1, <1>2, HandlerGone
<1>4. \A m \in DOMAIN handlerList : handlerList[m].sid = s /\ handlerList[m].pids # {} =>
        \E j \in DOMAIN handlerList' :
          handlerList'[j].sid = s /\ handlerList'[j].pids = handlerList[m].pids
  BY <1>2, <1>3
<1>5. \A j \in DOMAIN handlerList' : handlerList'[j].sid = s /\ handlerList'[j].pids # {} =>
        \E m \in DOMAIN handlerList :
          handlerList[m].sid = s /\ handlerList[m].pids = handlerList'[j].pids
  BY <1>3
<1>6. Served(handlerList, s) = Served(handlerList', s)
  BY <1>4, <1>5, ServedAlike
<1> QED BY <1>6, PrgServed

LEMMA StopServes ==
  ASSUME HandlersInv, Stop, NEW s \in Sids
  PROVE  Prg(s)' = {}
<1>1. \A n \in DOMAIN handlerList' : handlerList'[n].pids = {}
  BY StopTyped
<1>2. Served(handlerList', s) = {}
  BY <1>1 DEF Served
<1> QED BY <1>2, PrgServed

\* A call does in the core and in the descrambler what CamPids says.
LEMMA PerformImplements ==
  ASSUME CwInv, 0 \notin indexMap, Perform
  PROVE  Cam!Perform
<1> DEFINE c == Head(calls)
<1>1. /\ CamInv' /\ c \in Called
  BY CalledTyped DEF CwInv, Perform
<1>2. /\ c.pids \in SUBSET Pids /\ (c.op = "prg" => c.sid \in Sids)
      /\ c.adapter = 0 /\ Adapters = {0}
  BY <1>1, CwIndexAssumption DEF Called, CallType
<1>3. /\ calls # <<>> /\ calls' = Tail(calls)
      /\ UNCHANGED <<pid_list, Channels, valid, viewed>>
      /\ \/ c.op = "prg" /\ AddPrg(c.sid, c.pids)
         \/ c.op = "tune" /\ Tune
         \/ c.op = "stop" /\ Stop
         \/ c.op = "C" /\ ClosePid(c.pids)
         \/ c.op = "I" /\ Invalidate
  BY DEF Perform
<1>4. HandlersInv /\ DescramblerInv
  BY DEF CwInv
<1> SUFFICES \/ c.op = "prg" /\ Cam!AddPrg(c.adapter, c.sid, c.pids)
             \/ c.op = "tune" /\ Cam!Tune(c.adapter)
             \/ c.op = "stop" /\ Cam!Stop(c.adapter)
             \/ c.op = "C" /\ Cam!ClosePid(c.adapter, c.pids)
             \/ c.op = "I" /\ Cam!Invalidate(c.adapter)
  BY <1>3 DEF Cam!Perform
<1> HIDE DEF c
<1>5. CASE c.op = "prg" /\ AddPrg(c.sid, c.pids)
  <2>1. /\ \A t \in Sids : Prg(t)' = IF t = c.sid THEN c.pids ELSE Prg(t)
        /\ Mapped' = Mapped \cup (c.pids \ Prg(c.sid)) /\ c.sid \in Sids
    BY <1>2, <1>4, <1>5, AddPrgServes
  <2>2. PrgMap' = [PrgMap EXCEPT ![c.adapter][c.sid] = c.pids]
    BY <1>2, <2>1, MapsAre
  <2>3. MappedMap' = [MappedMap EXCEPT ![c.adapter] =
                        @ \cup (c.pids \ PrgMap[c.adapter][c.sid])]
    BY <1>2, <2>1, MapsAre DEF MappedMap
  <2> QED BY <1>5, <2>2, <2>3 DEF Cam!AddPrg, PrgMap, MappedMap
<1>6. ASSUME Stop PROVE Cam!Stop(c.adapter)
  <2>1. Mapped' = Mapped
    BY <1>6 DEF Stop, Mapped
  <2>2. PrgMap' = [PrgMap EXCEPT ![c.adapter] = [s \in Sids |-> {}]]
    BY <1>2, <1>4, <1>6, MapsAre, StopServes
  <2>3. MappedMap' = MappedMap
    BY <2>1, MapsAre DEF MappedMap
  <2> QED BY <2>2, <2>3 DEF Cam!Stop, PrgMap, MappedMap
<1>7. ASSUME UNCHANGED coreVars PROVE Cam!Tune(c.adapter)
  <2>1. SamePrograms /\ Mapped' = Mapped
    BY <1>7 DEF SamePrograms, coreVars, Mapped
  <2>2. PrgMap' = PrgMap /\ MappedMap' = MappedMap
    BY <2>1, SameProgramsServe, MapsUnchanged
  <2> QED BY <2>2 DEF Cam!Tune, PrgMap, MappedMap
<1>8. CASE c.op = "tune" /\ Tune
  BY <1>6, <1>7, <1>8 DEF Tune, Cam!Tune
<1>9. ASSUME handlerList' = handlerList PROVE PrgMap' = PrgMap
  <2>1. SamePrograms
    BY <1>9 DEF SamePrograms
  <2> QED BY <2>1, SameProgramsServe, MapsAre
<1>10. CASE c.op = "C" /\ ClosePid(c.pids)
  <2>1. Mapped' = Mapped \ c.pids /\ handlerList' = handlerList
    BY <1>4, <1>10, ClosePidTyped DEF ClosePid
  <2>2. MappedMap' = [MappedMap EXCEPT ![c.adapter] = @ \ c.pids]
    BY <1>2, <2>1, MapsAre DEF MappedMap
  <2> QED BY <1>9, <1>10, <2>1, <2>2 DEF Cam!ClosePid, PrgMap, MappedMap
<1>11. CASE c.op = "I" /\ Invalidate
  <2>1. Mapped' = {} /\ handlerList' = handlerList
    BY <1>4, <1>11, InvalidateTyped DEF Invalidate
  <2>2. MappedMap' = [MappedMap EXCEPT ![c.adapter] = {}]
    BY <1>2, <2>1, MapsAre DEF MappedMap
  <2> QED BY <1>9, <1>11, <2>1, <2>2 DEF Cam!Invalidate, PrgMap, MappedMap
<1> QED BY <1>3, <1>5, <1>6, <1>8, <1>10, <1>11

\* Every other step is one of CamPids or leaves it as it is.
LEMMA NextImplements ==
  ASSUME CwInv, 0 \notin indexMap, [Next]_vars
  PROVE  [Cam!Next]_(Cam!vars)
<1>1. HandlersInv /\ DescramblerInv /\ period \in 0 .. Periods - 1
  BY DEF CwInv
<1>2. ASSUME \A s \in Sids : Prg(s)' = Prg(s), Mapped' = Mapped, UNCHANGED camVars
      PROVE  UNCHANGED Cam!vars
  <2>1. PrgMap' = PrgMap /\ MappedMap' = MappedMap
    BY <1>2, MapsUnchanged
  <2> QED BY <1>2, <2>1 DEF Cam!vars, Cam!camVars, camVars, PrgMap, MappedMap
<1>3. CASE Perform
  BY <1>3, PerformImplements DEF Cam!Next
<1>4. CASE AMessage
  <2>1. SamePrograms /\ Mapped' = Mapped
    BY <1>4 DEF AMessage, SamePrograms, coreVars, Mapped
  <2>2. PrgMap' = PrgMap /\ MappedMap' = MappedMap
    BY <2>1, SameProgramsServe, MapsUnchanged
  <2>3. \E a \in Adapters : \/ Cam!ResetSid(a)
                            \/ \E s \in Sids : Cam!RemoveSid(a, s) \/ Cam!AddSid(a, s)
    BY <1>4, SameMessages DEF AMessage
  <2>4. Cam!Message
    BY <2>2, <2>3 DEF Cam!Message, PrgMap, MappedMap
  <2> QED BY <2>4 DEF Cam!Next
<1>5. CASE KeepHouse
  <2>1. \A s \in Sids : Prg(s)' = Prg(s)
    BY <1>1, <1>5, HouseKeepingServes DEF KeepHouse
  <2> QED BY <1>2, <1>5, <2>1 DEF KeepHouse, HouseKeeping, Mapped
<1>6. CASE Core
  <2>1. UNCHANGED camVars /\ SamePrograms /\ Mapped' = Mapped
    <3>1. CASE NextPeriod
      BY <1>6, <3>1 DEF Core, NextPeriod, SamePrograms, Mapped
    <3>2. ASSUME NEW n \in DOMAIN handlerList, Process(n)
          PROVE  SamePrograms /\ Mapped' = Mapped
      BY <1>1, <3>2, ProcessTyped
    <3> QED BY <1>6, <3>1, <3>2 DEF Core
  <2> QED BY <1>2, <2>1, SameProgramsServe
<1>7. CASE UNCHANGED vars
  <2>1. UNCHANGED camVars /\ SamePrograms /\ Mapped' = Mapped
    BY <1>7 DEF vars, coreVars, SamePrograms, Mapped
  <2> QED BY <1>2, <2>1, SameProgramsServe
<1> QED BY <1>3, <1>4, <1>5, <1>6, <1>7 DEF Next

LEMMA InitImplements == Init => Cam!Init
<1> SUFFICES ASSUME Init PROVE Cam!Init
  OBVIOUS
<1>1. CamInit /\ handlerList = <<>> /\ pid_map = <<>> /\ DOMAIN handlerList = {} /\ Mapped = {}
  BY DEF Init, Mapped
<1>2. \A s \in Sids : WithSid(s) = {}
  BY <1>1 DEF WithSid
<1>3. PrgMap = [a \in Adapters |-> [s \in Sids |-> {}]]
  BY <1>2, MapsAre, NoPrg
<1>4. MappedMap = [a \in Adapters |-> {}]
  BY <1>1 DEF MappedMap
<1> QED BY <1>1, <1>3, <1>4 DEF Cam!Init, CamInit, Cam!CamInit, PrgMap, MappedMap

\* While no handler has index zero, which is given out last, the core and the
\* descrambler do what CamPids says of them: AddPrg (sasccam.cpp:113), Stop, Tune

\* The instance of CamPids that CwIndex has makes the same steps.
LEMMA SamePids == Cam!Spec => Implements
<1>1. Cam!Init => Pids0!Init
  BY DEF Pids0!Init, Pids0!CamInit, Cam!Init, Cam!CamInit, PrgMap, MappedMap
<1>2. ASSUME NEW a PROVE Cam!ResetSid(a) => Pids0!ResetSid(a)
  BY DEF Cam!ResetSid, Cam!DelPid, Cam!Call, Pids0!ResetSid, Pids0!DelPid, Pids0!Call
<1>3. ASSUME NEW a, NEW s PROVE Cam!RemoveSid(a, s) => Pids0!RemoveSid(a, s)
  BY DEF Cam!RemoveSid, Pids0!RemoveSid
<1>4. ASSUME NEW a, NEW s PROVE Cam!AddSid(a, s) => Pids0!AddSid(a, s)
  <2>1. /\ Pids0!KeptChannels = Cam!KeptChannels
        /\ Pids0!NewEntries(s) = Cam!NewEntries(s) /\ Pids0!Epids(s) = Cam!Epids(s)
    BY DEF Cam!Delayed, Cam!KeptChannels, Pids0!Delayed, Pids0!KeptChannels, Cam!NewEntries,
           Cam!Reverse, Cam!Epids, Pids0!NewEntries, Pids0!Reverse, Pids0!Epids
  <2>2. Pids0!DelayedSeq = Cam!DelayedSeq
    BY DEF Cam!DelayedSeq, Cam!Nth, Cam!Delayed, Cam!Cardinality, Pids0!DelayedSeq,
           Pids0!Nth, Pids0!Delayed, Pids0!Cardinality
  <2>3. Pids0!KeptEntries = Cam!KeptEntries
    BY DEF Cam!KeptEntries, Cam!Nth, Cam!Delayed, Cam!Cardinality, Pids0!KeptEntries,
           Pids0!Nth, Pids0!Delayed, Pids0!Cardinality
  <2>4. /\ \A op, x, sid, pids : Pids0!Call(op, x, sid, pids) = Cam!Call(op, x, sid, pids)
        /\ \A x, i, gone : Pids0!DelPid(x, i, gone) = Cam!DelPid(x, i, gone)
    BY DEF Cam!Call, Cam!DelPid, Pids0!Call, Pids0!DelPid
  <2>5. Pids0!CloseDelayed(a) = Cam!CloseDelayed(a)
    BY <2>2, <2>4 DEF Cam!CloseDelayed, Pids0!CloseDelayed
  <2>6. Cam!AddNew(a, s) => Pids0!AddNew(a, s)
    BY <2>1, <2>3, <2>4, <2>5 DEF Cam!AddNew, Pids0!AddNew
  <2>7. Cam!GoodToGo(a, s) => Pids0!GoodToGo(a, s)
    BY DEF Cam!GoodToGo, Pids0!GoodToGo
  <2> QED BY <2>6, <2>7 DEF Cam!AddSid, Pids0!AddSid, Cam!camVars, Pids0!camVars
<1>5. Cam!Message => Pids0!Message
  BY <1>2, <1>3, <1>4 DEF Cam!Message, Pids0!Message, PrgMap, MappedMap
<1>6. Cam!Perform => Pids0!Perform
  BY DEF Cam!Perform, Cam!AddPrg, Cam!Tune, Cam!Stop, Cam!ClosePid, Cam!Invalidate,
         Pids0!Perform, Pids0!AddPrg, Pids0!Tune, Pids0!Stop, Pids0!ClosePid,
         Pids0!Invalidate, PrgMap, MappedMap
<1>7. [Cam!Next]_(Cam!vars) => [Pids0!Next]_(Pids0!vars)
  BY <1>5, <1>6 DEF Cam!Next, Pids0!Next, Cam!vars, Pids0!vars, Cam!camVars,
                    Pids0!camVars, PrgMap, MappedMap
<1> QED BY <1>1, <1>7, PTL DEF Implements, Pids0!Spec, Cam!Spec

\* While no handler has index zero, which is given out last, the core and the
\* descrambler do what CamPids says of them: AddPrg (sasccam.cpp:113), Stop, Tune
\* and update_keys.
LEMMA CoreServes == Spec /\ [](0 \notin indexMap) => Cam!Spec
<1>1. Init => CwInv
  BY CwInvInitially
<1>2. CwInv /\ [Next]_vars => CwInv'
  BY CwInvKept
<1>3. Init => Cam!Init
  BY InitImplements
<1>4. CwInv /\ 0 \notin indexMap /\ [Next]_vars => [Cam!Next]_(Cam!vars)
  BY NextImplements
<1> QED BY <1>1, <1>2, <1>3, <1>4, PTL DEF Spec, Cam!Spec

THEOREM CoreImplements == Spec /\ [](0 \notin indexMap) => Implements
BY CoreServes, SamePids


LEMMA LenSame ==
  ASSUME HandlersInv, HandlersInv', DOMAIN handlerList' = DOMAIN handlerList
  PROVE  Len(handlerList') = Len(handlerList)
<1> DEFINE H == Handler
           a == Len(handlerList)
           b == Len(handlerList')
<1>1. handlerList \in Seq(H) /\ handlerList' \in Seq(H)
  BY DEF HandlersInv
<1> HIDE DEF H
<1>2. a \in Nat /\ b \in Nat /\ DOMAIN handlerList = 1 .. a /\ DOMAIN handlerList' = 1 .. b
  BY <1>1, LenProperties
<1>3. 1 .. a = 1 .. b
  BY <1>2
<1> HIDE DEF a, b
<1>4. a = b
  BY <1>2, <1>3
<1> QED BY <1>4 DEF a, b

LEMMA RoomForOneMore ==
  ASSUME ZeroFreeInv, IsFiniteSet(Sids), Cardinality(Sids) < MaxIdx,
         NEW s \in Sids, WithSid(s) = {}, IdleOnes = {}
  PROVE  Len(handlerList) + 1 <= Cardinality(Sids) /\ Free # {0}
<1> DEFINE D == DOMAIN handlerList
           len == Len(handlerList)
           sidOf == [n \in D |-> handlerList[n].sid]
           idxOf == [n \in D |-> handlerList[n].cwIndex]
           S == Sids \ {s}
<1>1. HandlersInv /\ len \in Nat /\ D = 1 .. len
  BY ListIs DEF ZeroFreeInv, CwInv
<1>2. IsFiniteSet(D) /\ Cardinality(D) = len
  <2>1. len \in Int /\ (IF 1 > len THEN 0 ELSE len - 1 + 1) = len
    BY <1>1
  <2> HIDE DEF len
  <2> QED BY <1>1, <2>1, FS_Interval
<1>3. IsFiniteSet(S) /\ Cardinality(S) = Cardinality(Sids) - 1 /\ Cardinality(Sids) \in Nat
  BY FS_RemoveElement, FS_CardinalityType
<1>4. sidOf \in [D -> S]
  <2>1. ASSUME NEW n \in D PROVE handlerList[n].sid \in S
    <3>1. handlerList[n].sid # NoSid /\ handlerList[n].sid # s
      BY DEF ZeroFreeInv, IdleOnes, WithSid
    <3> QED BY <1>1, <3>1, HandlerOf DEF Services
  <2> QED BY <2>1
<1>5. \A m, n \in D : sidOf[m] = sidOf[n] => m = n
  <2>1. \A m \in D : handlerList[m].sid # NoSid
    BY DEF ZeroFreeInv, IdleOnes
  <2> QED BY <1>1, <2>1 DEF HandlersInv, OneHandlerPerSid
<1>6. len + 1 <= Cardinality(Sids)
  <2> HIDE DEF D, S, len, sidOf
  <2>1. sidOf \in Injection(D, S)
    BY <1>4, <1>5 DEF Injection, IsInjective
  <2>2. Cardinality(D) <= Cardinality(S)
    BY <1>3, <2>1, FS_Injection
  <2> QED BY <1>1, <1>2, <1>3, <2>2
<1>7. IsFiniteSet(indexMap) /\ Cardinality(indexMap) <= len
  <2>1. idxOf \in Surjection(D, indexMap)
    BY <1>1 DEF Surjection, HandlersInv
  <2> HIDE DEF D, idxOf, len
  <2> QED BY <1>2, <2>1, FS_Surjection
<1>8. Free # {0}
  <2> SUFFICES ASSUME Free = {0} PROVE FALSE
    OBVIOUS
  <2> DEFINE U == indexMap \cup {0}
  <2>1. Idx \in SUBSET U
    BY DEF Free
  <2>2. IsFiniteSet(U) /\ Cardinality(U) <= Cardinality(indexMap) + 1
        /\ Cardinality(indexMap) \in Nat /\ Cardinality(U) \in Nat
    <3>1. /\ IsFiniteSet(U)
          /\ Cardinality(U) = IF 0 \in indexMap THEN Cardinality(indexMap)
                              ELSE Cardinality(indexMap) + 1
      BY <1>7, FS_AddElement
    <3>2. Cardinality(indexMap) \in Nat
      BY <1>7, FS_CardinalityType
    <3> QED BY <3>1, <3>2
  <2> HIDE DEF U
  <2>3. Cardinality(Idx) <= Cardinality(U)
    BY <2>1, <2>2, FS_Subset
  <2>4. Cardinality(Idx) = MaxIdx /\ MaxIdx \in Nat
    <3>1. MaxIdx \in Nat /\ MaxIdx - 1 \in Int /\ ~(0 > MaxIdx - 1) /\ MaxIdx - 1 - 0 + 1 = MaxIdx
      BY CwIndexAssumption
    <3> QED BY <3>1, FS_Interval DEF Idx
  <2> HIDE DEF len
  <2> QED BY <1>1, <1>3, <1>6, <1>7, <2>2, <2>3, <2>4
<1> QED BY <1>6, <1>8

LEMMA AddPrgLeavesZero ==
  ASSUME ZeroFreeInv, IsFiniteSet(Sids), Cardinality(Sids) < MaxIdx,
         NEW s \in Sids, NEW pids \in SUBSET Pids, AddPrg(s, pids)
  PROVE  /\ 0 \notin indexMap' /\ Len(handlerList') <= Cardinality(Sids)
         /\ \A n \in DOMAIN handlerList' :
              handlerList'[n].sid = NoSid => IsIdle(handlerList'[n])
<1>1. /\ HandlersInv /\ DescramblerInv /\ 0 \notin indexMap
      /\ Len(handlerList) <= Cardinality(Sids)
      /\ \A n \in DOMAIN handlerList : handlerList[n].sid = NoSid => IsIdle(handlerList[n])
  BY DEF ZeroFreeInv, CwInv
<1>2. s # NoSid /\ HandlersInv'
  BY <1>1, AddPrgKeeps, ProcessCamAssumption
<1>3. ASSUME NEW n \in DOMAIN handlerList, handlerList[n].sid = s \/ WithSid(s) = {},
             Give(n, s, pids)
      PROVE  /\ 0 \notin indexMap' /\ Len(handlerList') <= Cardinality(Sids)
             /\ \A m \in DOMAIN handlerList' :
                  handlerList'[m].sid = NoSid => IsIdle(handlerList'[m])
  <2>1. handlerList[n].cwIndex # 0
    BY <1>1, HandlerOf
  <2>2. /\ DOMAIN handlerList' = DOMAIN handlerList /\ handlerList'[n].sid = s
        /\ \A m \in DOMAIN handlerList \ {n} : handlerList'[m] = handlerList[m]
        /\ handlerList[n].cwIndex # 0 =>
             /\ indexMap' = indexMap
             /\ Mapped' = Mapped \cup
                  (pids \ (IF handlerList[n].sid = s THEN handlerList[n].pids ELSE {}))
    <3>1. HandlersInv /\ DescramblerInv
      BY <1>1
    <3> QED BY <1>3, <3>1, GiveTyped
  <2>3. Len(handlerList') = Len(handlerList)
    BY <1>1, <1>2, <2>2, LenSame
  <2> QED BY <1>1, <1>2, <2>1, <2>2, <2>3
<1>4. CASE WithSid(s) # {}
  BY <1>1, <1>3, <1>4, HandlerTaken DEF AddPrg
<1>5. CASE WithSid(s) = {} /\ IdleOnes # {}
  BY <1>1, <1>3, <1>5, HandlerTaken DEF AddPrg, IdleOnes
<1>6. CASE WithSid(s) = {} /\ IdleOnes = {}
  <2>1. Len(handlerList) + 1 <= Cardinality(Sids) /\ Free # {0}
    BY <1>6, RoomForOneMore
  <2>2. 0 \in Free
    BY <1>1, CwIndexAssumption DEF Free, Idx
  <2>3. GiveNew(s, pids)
    BY <1>6, <2>2 DEF AddPrg
  <2>4. /\ LET n == Len(handlerList) + 1
           IN /\ DOMAIN handlerList' = DOMAIN handlerList \cup {n} /\ Len(handlerList') = n
              /\ handlerList'[n].sid = s
        /\ \A m \in DOMAIN handlerList : handlerList'[m] = handlerList[m]
        /\ indexMap' = indexMap \cup {FreeIndex} /\ FreeIndex # 0
    BY <1>1, <1>6, <2>1, <2>2, <2>3, GiveNewTyped
  <2> QED BY <1>1, <1>2, <2>1, <2>4
<1> QED BY <1>4, <1>5, <1>6

LEMMA ZeroFreeInitially ==
  ASSUME IsFiniteSet(Sids), Init
  PROVE  ZeroFreeInv
<1>1. CwInv
  BY CwInvInitially
<1>2. handlerList = <<>> /\ indexMap = {} /\ Len(<<>>) = 0 /\ DOMAIN <<>> = {}
  BY DEF Init
<1>3. Cardinality(Sids) \in Nat
  BY FS_CardinalityType
<1> QED BY <1>1, <1>2, <1>3 DEF ZeroFreeInv

LEMMA CloseLeavesHandlers ==
  ASSUME NEW pids, ClosePid(pids)
  PROVE  handlerList' = handlerList /\ indexMap' = indexMap
BY DEF ClosePid

LEMMA InvalidateLeavesHandlers ==
  ASSUME Invalidate
  PROVE  handlerList' = handlerList /\ indexMap' = indexMap
BY DEF Invalidate

LEMMA TuneStops ==
  ASSUME Tune
  PROVE  Stop \/ (handlerList' = handlerList /\ indexMap' = indexMap)
BY DEF Tune, coreVars

LEMMA ZeroFreeKept ==
  ASSUME IsFiniteSet(Sids), Cardinality(Sids) < MaxIdx, ZeroFreeInv, [Next]_vars
  PROVE  ZeroFreeInv'
<1>1. /\ CwInv /\ HandlersInv /\ DescramblerInv /\ 0 \notin indexMap
      /\ Len(handlerList) <= Cardinality(Sids) /\ Len(handlerList) \in Nat
      /\ \A n \in DOMAIN handlerList : handlerList[n].sid = NoSid => IsIdle(handlerList[n])
      /\ period \in 0 .. Periods - 1 /\ Cardinality(Sids) \in Nat
  BY ListIs, FS_CardinalityType DEF ZeroFreeInv, CwInv
<1>2. CwInv' /\ HandlersInv'
  BY <1>1, CwInvKept DEF CwInv
<1> DEFINE Kept == /\ 0 \notin indexMap' /\ Len(handlerList') <= Cardinality(Sids)
                   /\ \A n \in DOMAIN handlerList' :
                        handlerList'[n].sid = NoSid => IsIdle(handlerList'[n])
<1> SUFFICES Kept
  BY <1>2 DEF ZeroFreeInv
<1>3. ASSUME SamePrograms, indexMap' = indexMap PROVE Kept
  <2>1. Len(handlerList') = Len(handlerList)
    BY <1>1, <1>2, <1>3, LenSame DEF SamePrograms
  <2> QED BY <1>1, <1>3, <2>1 DEF SamePrograms, IsIdle
<1>4. ASSUME handlerList' = handlerList, indexMap' = indexMap PROVE Kept
  BY <1>1, <1>4
<1>5. ASSUME Stop PROVE Kept
  <2>1. DOMAIN handlerList' = DOMAIN handlerList /\ indexMap' = indexMap
        /\ \A n \in DOMAIN handlerList' : handlerList'[n].pids = {}
    BY <1>1, <1>5, StopTyped DEF Stop
  <2>2. Len(handlerList') = Len(handlerList)
    BY <1>1, <1>2, <2>1, LenSame
  <2> QED BY <1>1, <2>1, <2>2 DEF IsIdle
<1>6. CASE Perform
  <2> DEFINE c == Head(calls)
  <2>1. c \in Called
    BY <1>1, <1>6, CalledTyped DEF CwInv, Perform
  <2>2. c.pids \in SUBSET Pids /\ (c.op = "prg" => c.sid \in Sids)
    BY <2>1 DEF Called, CallType
  <2>3. \/ c.op = "prg" /\ AddPrg(c.sid, c.pids)
        \/ Tune
        \/ Stop
        \/ ClosePid(c.pids)
        \/ Invalidate
    BY <1>6 DEF Perform
  <2> HIDE DEF c
  <2>4. CASE c.op = "prg" /\ AddPrg(c.sid, c.pids)
    BY <2>2, <2>4, AddPrgLeavesZero
  <2>5. CASE Tune
    BY <1>4, <1>5, <2>5, TuneStops
  <2>6. CASE Stop
    BY <1>5, <2>6
  <2>7. CASE ClosePid(c.pids)
    BY <1>4, <2>7, CloseLeavesHandlers
  <2>8. CASE Invalidate
    BY <1>4, <2>8, InvalidateLeavesHandlers
  <2> QED BY <2>3, <2>4, <2>5, <2>6, <2>7, <2>8
<1>7. CASE AMessage \/ UNCHANGED vars
  BY <1>4, <1>7 DEF AMessage, vars, coreVars
<1>8. CASE KeepHouse
  <2>1. PICK n \in IdleOnes : /\ handlerList' = RemoveAt(handlerList, n)
                              /\ indexMap' = indexMap \ {handlerList[n].cwIndex}
    BY <1>8 DEF KeepHouse, HouseKeeping
  <2>2. /\ Len(handlerList') = Len(handlerList) - 1
        /\ \A j \in DOMAIN handlerList' : \E m \in DOMAIN handlerList \ {n} :
             handlerList'[j] = handlerList[m]
    BY <1>1, <2>1, HandlerGone DEF IdleOnes
  <2> QED BY <1>1, <2>1, <2>2
<1>9. CASE Core
  <2>1. CASE NextPeriod
    BY <1>4, <2>1 DEF NextPeriod
  <2>2. ASSUME NEW n \in DOMAIN handlerList, Process(n) PROVE Kept
    <3>1. SamePrograms /\ indexMap' = indexMap
      BY <1>1, <2>2, ProcessTyped
    <3> QED BY <1>3, <3>1
  <2> QED BY <1>9, <2>1, <2>2 DEF Core
<1> QED BY <1>6, <1>7, <1>8, <1>9 DEF Next

\* With fewer services than indices no handler ever gets index zero, so that the
\* core and the descrambler always implement CamPids.
THEOREM IndexZeroStaysFree ==
  ASSUME IsFiniteSet(Sids), Cardinality(Sids) < MaxIdx
  PROVE  Spec => [](0 \notin indexMap) /\ Implements
<1>1. Init => ZeroFreeInv
  BY ZeroFreeInitially
<1>2. ZeroFreeInv /\ [Next]_vars => ZeroFreeInv'
  BY ZeroFreeKept
<1>3. ZeroFreeInv => 0 \notin indexMap
  BY DEF ZeroFreeInv
<1>4. Spec => [](0 \notin indexMap)
  BY <1>1, <1>2, <1>3, PTL DEF Spec
<1> QED BY <1>4, CoreImplements, PTL

-----------------------------------------------------------------------------
(* So what is proved of CamPids holds of the core and the descrambler.     *)

LEMMA AsAssumed ==
  ASSUME Pids0!PidsApart
  PROVE  Cam!OneAdapter /\ Cam!PidsApart
<1>1. \A s : Cam!Epids(s) = Pids0!Epids(s)
  BY DEF Cam!Epids, Pids0!Epids
<1>2. Cam!OneAdapter
  BY CwIndexAssumption DEF Cam!OneAdapter, Cam!This
<1> QED BY <1>1, <1>2 DEF Cam!PidsApart, Cam!Apart, Pids0!PidsApart, Pids0!Apart

\* While index zero is free, what is viewed is served with all of its streams
\* between two messages (plugin_cam.c:254), and what is done for other services
\* interrupts it at no moment, when no two services share a stream: closing the
\* pids of one would close those of the other (update_keys, 'C').
THEOREM ViewedStaysServed ==
  ASSUME Pids0!PidsApart
  PROVE  Spec /\ [](0 \notin indexMap) => []Pids0!KeepsViewed /\ Pids0!Undisturbed
<1>1. Cam!OneAdapter /\ Cam!PidsApart
  BY AsAssumed
<1>2. Cam!Spec => []Cam!KeepsViewed
  BY <1>1, SameAssumption, Cam!ViewedAreServed
<1>3. Cam!Spec => Cam!Undisturbed
  BY <1>1, SameAssumption, Cam!ViewedRunOn
<1>4. \A s : Cam!Epids(s) = Pids0!Epids(s)
  BY DEF Cam!Epids, Pids0!Epids
<1>5. Cam!KeepsViewed => Pids0!KeepsViewed
  BY <1>4 DEF Cam!KeepsViewed, Pids0!KeepsViewed, PrgMap, MappedMap
<1>6. [Cam!LeavesViewed]_(Cam!vars) => [Pids0!LeavesViewed]_(Pids0!vars)
  BY <1>4 DEF Cam!LeavesViewed, Pids0!LeavesViewed, Cam!vars, Pids0!vars, Cam!camVars,
              Pids0!camVars, PrgMap, MappedMap
<1>7. Cam!Undisturbed => Pids0!Undisturbed
  BY <1>6, PTL DEF Cam!Undisturbed, Pids0!Undisturbed
<1> QED BY <1>2, <1>3, <1>5, <1>7, CoreServes, PTL

\* While index zero is free: once a message has made its calls, what is not viewed
\* has no program and no pid of its own (plugin_cam.c:272-283).
THEOREM NothingElseIsLeft ==
  ASSUME Pids0!PidsApart
  PROVE  Spec /\ [](0 \notin indexMap) => Pids0!OnlyViewedLeft
<1>1. Cam!OneAdapter /\ Cam!PidsApart
  BY AsAssumed
<1>2. Cam!Spec => Cam!OnlyViewedLeft
  BY <1>1, SameAssumption, Cam!OthersAreGivenUp
<1>3. Cam!OnlyViewedLeft => Pids0!OnlyViewedLeft
  BY DEF Cam!OnlyViewedLeft, Pids0!OnlyViewedLeft, Cam!vars, Pids0!vars, Cam!camVars,
         Pids0!camVars, Cam!Epids, Pids0!Epids, PrgMap, MappedMap
<1> QED BY <1>2, <1>3, CoreServes

\* With fewer services than indices, index zero is never given, and all three hold
\* at any time.
THEOREM ServedWithinIndices ==
  ASSUME Pids0!PidsApart, IsFiniteSet(Sids), Cardinality(Sids) < MaxIdx
  PROVE  Spec => []Pids0!KeepsViewed /\ Pids0!Undisturbed /\ Pids0!OnlyViewedLeft
<1>1. Spec => [](0 \notin indexMap)
  BY IndexZeroStaysFree, PTL
<1> QED BY <1>1, ViewedStaysServed, NothingElseIsLeft, PTL
=============================================================================
