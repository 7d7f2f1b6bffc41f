----------------------------- MODULE ClientProofs -----------------------------
(***************************************************************************)
(* Proofs about the clients of the card servers.                           *)
(*                                                                         *)
(* The first part is about CardClients, for every number of systems, of    *)
(* clients and of entries in their caches, for every protocol and every    *)
(* announced list of system ids.  Its inductive invariant, IInv, ties      *)
(* three things together: an entry in work and the thread that will        *)
(* report its result, the exclusive use of a client and the thread that    *)
(* waits for its answer, and a request under way and the thread that has   *)
(* sent it.                                                                *)
(* LoopInv, at the end of CardClients, says which clients the loop over    *)
(* them has come to.                                                       *)
(*                                                                         *)
(* The second part is about CCcam2, for every number of reader threads,    *)
(* every set of shares and every bound on packets, keys and calls.  Stacks *)
(* says how the functions of the client nest and Fields and Buffers what   *)
(* they leave in its members; SessionInv ties an open socket to the        *)
(* reader that serves it, and AnswerInv ties the packets under way to the  *)
(* call they may still answer.                                             *)
(***************************************************************************)
EXTENDS CardClients, CCcam2, SequenceTheorems, WellFoundedInduction, TLAPS

\* A system that is busy with a client knows which, and has an ECM.
HasClient ==
  \A s \in Systems : /\ sys[s].at # "idle" => sys[s].ecm \in Ecms
                     /\ sys[s].at \in Busy => sys[s].cc \in Clients

\* The entry of a message in hand has not failed for good.
NotFailed ==
  \A s \in Systems : InHand(s) => cache[sys[s].cc].entry[sys[s].id].mode # FailN

\* Every entry in work has somebody who will report its result.
WorkHasOwner ==
  \A c \in Clients, i \in Slots : cache[c].entry[i].queued =>
    \E s \in Systems : InHand(s) /\ sys[s].cc = c /\ sys[s].id = i

\* Who waits for an answer has the client for himself.
Exclusive ==
  \A s \in Systems : sys[s].at = "answer" =>
    /\ con[sys[s].cc].busy
    /\ \A t \in Systems \ {s} : sys[t].at = "answer" => sys[t].cc # sys[s].cc

\* Numbers are not used twice, and a client that reconnects has no request
\* under way but the one it waits for.
RequestsKnown ==
  /\ \A c \in Clients : \A m \in sent[c] : Numbered(c) => m.num <= con[c].num
  /\ \A c \in Clients : Trusted(c) /\ ~Numbered(c) /\ ~con[c].busy => sent[c] = {}
  /\ \A s \in Systems : sys[s].at = "answer" /\ Trusted(sys[s].cc) =>
       \A m \in sent[sys[s].cc] :
         IF Numbered(sys[s].cc) THEN m.num = sys[s].num => m.ecm = sys[s].ecm
         ELSE m = [num |-> sys[s].num, ecm |-> sys[s].ecm]

Entries == EntriesOwned /\ NotFailed /\ WorkHasOwner /\ SleepersAreWoken

IInv == TypeOK /\ HasClient /\ Entries /\ Exclusive /\ RequestsKnown /\ OwnAnswer

-----------------------------------------------------------------------------
(* The operators of the model                                              *)

\* FindMsg finds at most one entry, and one of this message.
LEMMA FindMsgFinds ==
  ASSUME NEW c \in Cache(Ecms \cup {NoMsg}), NEW m
  PROVE  /\ FindMsg(c, m) \subseteq Slots
         /\ \A i \in FindMsg(c, m) : c.entry[i].hash = m
         /\ \A i, j \in FindMsg(c, m) : i = j
<1>1. ASSUME NEW k \in 1..NumCache PROVE Back(c, k) \in Slots
  <2>1. c.ptr + NumCache - k \in Int /\ NumCache \in Nat \ {0}
    BY NumCacheAssumption DEF Cache, Slots
  <2> QED BY <2>1 DEF Back, Slots
<1>2. ASSUME NEW i \in FindMsg(c, m)
      PROVE  \E k \in 1..NumCache : i = Back(c, k) /\ c.entry[Back(c, k)].hash = m
  BY DEF FindMsg
<1>3. ASSUME NEW i \in FindMsg(c, m), NEW j \in FindMsg(c, m) PROVE i = j
  <2> DEFINE Seen == {k \in 1..NumCache : \A l \in 1..k : ~Unused(c.entry[Back(c, l)])}
             Hits == {k \in Seen : c.entry[Back(c, k)].hash = m}
             First == {k \in Hits : \A l \in Hits : k <= l}
  <2>1. FindMsg(c, m) = {Back(c, k) : k \in First}
    BY DEF FindMsg
  <2>2. \A k, l \in First : k = l
    <3>1. First \subseteq Int
      BY NumCacheAssumption
    <3> QED BY <3>1
  <2> HIDE DEF First
  <2> QED BY <2>1, <2>2
<1> QED BY <1>1, <1>2, <1>3

\* One entry of a cache is replaced; the operators of the cache do that.
Replaced(c, i, e) == [c EXCEPT !.entry[i] = e]

LEMMA EntryReplaced ==
  ASSUME NEW M, NEW c \in Cache(M), NEW i \in Slots, NEW e \in Entry(M)
  PROVE  LET d == Replaced(c, i, e) IN
         /\ d \in Cache(M) /\ d.ptr = c.ptr /\ d.entry[i] = e
         /\ \A j \in Slots \ {i} : d.entry[j] = c.entry[j]
<1> DEFINE f == [c.entry EXCEPT ![i] = e]
<1>1. f \in [Slots -> Entry(M)] /\ f[i] = e /\ \A j \in Slots \ {i} : f[j] = c.entry[j]
  BY DEF Cache
<1>2. Replaced(c, i, e) = [c EXCEPT !.entry = f]
  BY DEF Replaced
<1> HIDE DEF f
<1> QED BY <1>1, <1>2 DEF Cache

LEMMA MarkedEntry ==
  ASSUME NEW M, NEW c \in Cache(M), NEW i \in Slots
  PROVE  LET d == Marked(c, i) IN
         /\ d \in Cache(M) /\ d.ptr = c.ptr
         /\ d.entry[i] = [c.entry[i] EXCEPT !.wait = TRUE]
         /\ \A j \in Slots \ {i} : d.entry[j] = c.entry[j]
<1> DEFINE e == [c.entry[i] EXCEPT !.wait = TRUE]
<1>1. e \in Entry(M)
  BY DEF Cache, Entry
<1>2. Marked(c, i) = Replaced(c, i, e)
  BY DEF Marked, Replaced
<1> HIDE DEF e
<1>3. /\ Marked(c, i) \in Cache(M) /\ Marked(c, i).ptr = c.ptr /\ Marked(c, i).entry[i] = e
      /\ \A j \in Slots \ {i} : Marked(c, i).entry[j] = c.entry[j]
  BY <1>1, <1>2, EntryReplaced
<1> QED BY <1>3 DEF e

LEMMA RequeuedEntry ==
  ASSUME NEW M, NEW c \in Cache(M), NEW i \in Slots
  PROVE  LET d == Requeued(c, i) IN
         /\ d \in Cache(M) /\ d.ptr = c.ptr
         /\ d.entry[i] = [c.entry[i] EXCEPT !.queued = TRUE]
         /\ \A j \in Slots \ {i} : d.entry[j] = c.entry[j]
<1> DEFINE e == [c.entry[i] EXCEPT !.queued = TRUE]
<1>1. e \in Entry(M)
  BY DEF Cache, Entry
<1>2. Requeued(c, i) = Replaced(c, i, e)
  BY DEF Requeued, Replaced
<1> HIDE DEF e
<1>3. /\ Requeued(c, i) \in Cache(M) /\ Requeued(c, i).ptr = c.ptr /\ Requeued(c, i).entry[i] = e
      /\ \A j \in Slots \ {i} : Requeued(c, i).entry[j] = c.entry[j]
  BY <1>1, <1>2, EntryReplaced
<1> QED BY <1>3 DEF e

\* A system's record is replaced.
LEMMA SystemReplaced ==
  ASSUME TypeOK, NEW s \in Systems, NEW r \in System, sys' = [sys EXCEPT ![s] = r]
  PROVE  /\ sys' \in [Systems -> System] /\ sys'[s] = r
         /\ \A t \in Systems \ {s} : sys'[t] = sys[t]
BY DEF TypeOK

LEMMA ClientReplaced ==
  ASSUME TypeOK, NEW c \in Clients, NEW r \in Connection, con' = [con EXCEPT ![c] = r]
  PROVE  /\ con' \in [Clients -> Connection] /\ con'[c] = r
         /\ \A d \in Clients \ {c} : con'[d] = con[d]
BY DEF TypeOK

LEMMA SentReplaced ==
  ASSUME TypeOK, NEW c \in Clients, NEW r \in SUBSET Request, sent' = [sent EXCEPT ![c] = r]
  PROVE  /\ sent' \in [Clients -> SUBSET Request] /\ sent'[c] = r
         /\ \A d \in Clients \ {c} : sent'[d] = sent[d]
BY DEF TypeOK

LEMMA IdleIsSystem == IdleSystem \in System
BY NumCacheAssumption DEF IdleSystem, System, Slots, NoClient

\* The next client in the list is a client or none.
LEMMA NextClient ==
  ASSUME NEW id, NEW c \in Clients \cup {NoClient}
  PROVE  FindBySysId(id, c) \in Clients \cup {NoClient}
<1> DEFINE after == {n \in Clients : n > c /\ CanHandle(n, id)}
<1>1. after \in SUBSET Nat /\ after \subseteq Clients
  BY DEF Clients
<1>2. CASE after = {}
  BY <1>2 DEF FindBySysId
<1>3. CASE after # {}
  <2> HIDE DEF after
  <2>1. \E n \in after : \A k \in after : n <= k
    <3>1. PICK n \in after : \A k \in after : <<k, n>> \notin OpToRel(<, Nat)
      BY <1>1, <1>3, NatLessThanWellFounded, WFMin, Zenon
    <3>2. \A k \in after : ~(k < n)
      BY <1>1, <3>1 DEF OpToRel
    <3> QED BY <1>1, <3>2
  <2>2. (CHOOSE n \in after : \A k \in after : n <= k) \in after
    BY <2>1
  <2> QED BY <1>1, <1>3, <2>2 DEF FindBySysId, after
<1> QED BY <1>2, <1>3

\* A client that has heard of another card, has logged in or failed to do so is
\* as busy as before and has counted no request.
LEMMA ClientSame ==
  ASSUME TypeOK, NEW c \in Clients, NEW r \in Heard(c) \cup LoggedIn(c) \cup LoginFailed(c)
  PROVE  r \in Connection /\ r.busy = con[c].busy /\ r.num = con[c].num
<1> USE DEF TypeOK, Connection
<1>1. con[c] \in Connection
  OBVIOUS
<1>2. \A a \in Announced[c] : a \in SUBSET CaIds
  BY DEF CaIds
<1>3. CASE r \in Heard(c)
  BY <1>1, <1>2, <1>3 DEF Heard
<1>4. CASE r \in LoggedIn(c)
  <2> DEFINE base == [con[c] EXCEPT !.up = TRUE, !.auth = TRUE, !.loginOK = TRUE,
                                    !.old = @ \/ c \in OldServers]
  <2>1. base \in Connection /\ base.busy = con[c].busy /\ base.num = con[c].num
    BY <1>1
  <2>2. \/ r = base
        \/ r \in {[base EXCEPT !.caids = IF Kind[c] = "Buffy" THEN @ \cup a ELSE a] :
                   a \in Announced[c]}
    BY <1>4 DEF LoggedIn
  <2> HIDE DEF base
  <2>3. ASSUME NEW a \in Announced[c],
               r = [base EXCEPT !.caids = IF Kind[c] = "Buffy" THEN @ \cup a ELSE a]
        PROVE  r \in Connection /\ r.busy = base.busy /\ r.num = base.num
    BY <1>2, <2>1, <2>3
  <2> QED BY <2>1, <2>2, <2>3
<1>5. CASE r \in LoginFailed(c)
  BY <1>1, <1>5 DEF LoginFailed, Disconnected
<1> QED BY <1>3, <1>4, <1>5

-----------------------------------------------------------------------------
(* Steps of one system that leave the cache, or the clients, alone         *)

\* A system that keeps its entry, or has none before and after, disturbs no
\* other.
LEMMA EntriesSame ==
  ASSUME IInv, NEW s \in Systems, cache' = cache,
         \A t \in Systems \ {s} : sys'[t] = sys[t],
         sys'[s].at \notin {"sleep", "sleep_room"},
         InHand(s)' <=> InHand(s),
         InHand(s) => /\ sys'[s].cc = sys[s].cc /\ sys'[s].id = sys[s].id
                      /\ sys'[s].ecm = sys[s].ecm
  PROVE  Entries'
<1> USE DEF IInv, Entries, InHand
<1>1. EntriesOwned'
  BY DEF EntriesOwned
<1>2. NotFailed'
  BY DEF NotFailed
<1>3. WorkHasOwner'
  BY DEF WorkHasOwner
<1>4. SleepersAreWoken'
  BY DEF SleepersAreWoken
<1> QED BY <1>1, <1>2, <1>3, <1>4

\* A system that neither begins nor ends to wait for an answer leaves who uses
\* the clients, and what is under way, as it was.
LEMMA ClientsSame ==
  ASSUME IInv, con' = con, sent' = sent,
         \A t \in Systems : /\ sys'[t].at = "answer" <=> sys[t].at = "answer"
                            /\ sys[t].at = "answer" => sys'[t] = sys[t]
  PROVE  Exclusive' /\ RequestsKnown'
<1> USE DEF IInv
<1>1. Exclusive'
  BY DEF Exclusive
<1>2. RequestsKnown'
  BY DEF RequestsKnown
<1> QED BY <1>1, <1>2

\* An answer that was right stays so, as long as nobody gets a new one.
LEMMA AnswersSame ==
  ASSUME IInv, cache' = cache,
         \A t \in Systems : sys'[t].at = "good" => sys'[t] = sys[t]
  PROVE  OwnAnswer'
BY DEF IInv, OwnAnswer, Trusted

-----------------------------------------------------------------------------
(* One lemma per action                                                    *)

LEMMA BeginInv ==
  ASSUME IInv, NEW s \in Systems, NEW e \in Ecms, Begin(s, e)
  PROVE  IInv'
<1> USE DEF IInv, Begin
<1>1. PICK c \in {NoClient} \cup IF sys[s].caid = Caid[e] THEN {sys[s].cc} ELSE {} :
        sys' = [sys EXCEPT ![s] = [IdleSystem EXCEPT
                  !.at = IF c = NoClient THEN "next" ELSE "get",
                  !.ecm = e, !.caid = Caid[e], !.cc = c, !.start = c]]
  OBVIOUS
<1>2. c \in Clients \cup {NoClient}
  BY DEF TypeOK, System
<1> DEFINE r == [IdleSystem EXCEPT !.at = IF c = NoClient THEN "next" ELSE "get",
                                  !.ecm = e, !.caid = Caid[e], !.cc = c, !.start = c]
<1>3. r \in System /\ r.at = (IF c = NoClient THEN "next" ELSE "get") /\ r.ecm = e /\ r.cc = c
  BY <1>2, IdleIsSystem DEF System
<1> HIDE DEF r
<1>4. /\ sys' \in [Systems -> System] /\ sys'[s] = r
      /\ \A t \in Systems \ {s} : sys'[t] = sys[t]
  BY <1>1, <1>3, SystemReplaced DEF r
<1>5. TypeOK' /\ HasClient'
  BY <1>2, <1>3, <1>4 DEF TypeOK, HasClient, Busy
<1>6. sys[s].at = "idle" /\ sys'[s].at \in {"next", "get"}
  BY <1>3, <1>4
<1>7. Entries'
  BY <1>4, <1>6, EntriesSame DEF InHand
<1>8. Exclusive' /\ RequestsKnown'
  BY <1>4, <1>6, ClientsSame
<1>9. OwnAnswer'
  BY <1>4, <1>6, AnswersSame
<1> QED BY <1>5, <1>7, <1>8, <1>9

LEMMA Next1Inv ==
  ASSUME IInv, NEW s \in Systems, Next1(s)
  PROVE  IInv'
<1> USE DEF IInv, Next1
<1> DEFINE new == FindBySysId(Caid[sys[s].ecm], sys[s].cc)
<1>1. new \in Clients \cup {NoClient} /\ sys[s].ecm \in Ecms
  BY NextClient DEF TypeOK, System, HasClient
<1> HIDE DEF new
<1> DEFINE r == IF new \in {sys[s].start, sys[s].cc} THEN Returned(sys[s], new)
                ELSE [sys[s] EXCEPT !.cc = new, !.at = IF new = NoClient THEN "next" ELSE "get"]
<1>2. sys' = [sys EXCEPT ![s] = r]
  BY DEF new
<1>3. /\ r \in System /\ r.at \in {"idle", "next", "get"}
      /\ r.at # "idle" => r.ecm = sys[s].ecm
      /\ r.at = "get" => r.cc \in Clients
  <2>1. sys[s] \in System
    BY DEF TypeOK
  <2>2. /\ Returned(sys[s], new) \in System
        /\ Returned(sys[s], new).at = "idle"
    BY <1>1, <2>1, IdleIsSystem DEF Returned, System, IdleSystem
  <2> QED BY <1>1, <2>1, <2>2 DEF System
<1> HIDE DEF r
<1>4. /\ sys' \in [Systems -> System] /\ sys'[s] = r
      /\ \A t \in Systems \ {s} : sys'[t] = sys[t]
  BY <1>2, <1>3, SystemReplaced
<1>5. TypeOK' /\ HasClient'
  BY <1>1, <1>3, <1>4 DEF TypeOK, HasClient, Busy
<1>6. sys[s].at = "next" /\ sys'[s].at \in {"idle", "next", "get"}
  BY <1>3, <1>4
<1>7. Entries'
  BY <1>4, <1>6, EntriesSame DEF InHand
<1>8. Exclusive' /\ RequestsKnown'
  BY <1>4, <1>6, ClientsSame
<1>9. OwnAnswer'
  BY <1>4, <1>6, AnswersSame
<1> QED BY <1>5, <1>7, <1>8, <1>9

\* To go to sleep is to set the flag of an entry in work, which has an owner.
LEMMA SleepInv ==
  ASSUME IInv, NEW s \in Systems, sys[s].at \in {"get", "room"},
         NEW i \in Slots, cache[sys[s].cc].entry[i].queued,
         cache' = [cache EXCEPT ![sys[s].cc] = Marked(@, i)],
         NEW place \in {"sleep", "sleep_room"},
         sys' = [sys EXCEPT ![s].at = place],
         UNCHANGED <<con, sent>>
  PROVE  IInv'
<1> USE DEF IInv, InHand
<1> DEFINE c == sys[s].cc
<1>1. c \in Clients /\ sys[s] \in System
  BY DEF HasClient, Busy, TypeOK
<1>2. /\ sys'[s] = [sys[s] EXCEPT !.at = place]
      /\ \A t \in Systems \ {s} : sys'[t] = sys[t]
  BY DEF TypeOK
<1>3. /\ cache'[c] = Marked(cache[c], i)
      /\ \A d \in Clients \ {c} : cache'[d] = cache[d]
  BY <1>1 DEF TypeOK
<1>4. /\ Marked(cache[c], i) \in Cache(Ecms \cup {NoMsg})
      /\ cache'[c].entry[i] = [cache[c].entry[i] EXCEPT !.wait = TRUE]
      /\ \A j \in Slots \ {i} : cache'[c].entry[j] = cache[c].entry[j]
  <2>1. cache[c] \in Cache(Ecms \cup {NoMsg})
    BY <1>1 DEF TypeOK
  <2> QED BY <2>1, <1>3, MarkedEntry
<1>5. \A d \in Clients, j \in Slots :
        LET e == cache[d].entry[j] IN
        /\ cache'[d].entry[j].hash = e.hash /\ cache'[d].entry[j].mode = e.mode
        /\ (cache'[d].entry[j].queued <=> e.queued) /\ cache'[d].entry[j].store = e.store
        /\ e.wait => cache'[d].entry[j].wait
  <2>1. cache[c].entry[i] \in Entry(Ecms \cup {NoMsg})
    BY <1>1 DEF TypeOK, Cache
  <2> QED BY <2>1, <1>3, <1>4 DEF Entry
<1>6. cache'[c].entry[i].wait
  <2>1. cache[c].entry[i] \in Entry(Ecms \cup {NoMsg})
    BY <1>1 DEF TypeOK, Cache
  <2> QED BY <2>1, <1>4 DEF Entry
<1>7. TypeOK' /\ HasClient'
  <2>1. cache' \in [Clients -> Cache(Ecms \cup {NoMsg})]
    BY <1>1, <1>4 DEF TypeOK
  <2>2. [sys[s] EXCEPT !.at = place] \in System
    BY <1>1 DEF System
  <2>3. sys' \in [Systems -> System]
    BY <2>2, SystemReplaced
  <2>4. HasClient'
    BY <1>2, <1>1 DEF HasClient, System, Busy
  <2> QED BY <2>1, <2>3, <2>4 DEF TypeOK
<1>8. \A t \in Systems : InHand(t)' <=> InHand(t)
  BY <1>1, <1>2 DEF System
<1>9. \A t \in Systems : InHand(t) => /\ sys'[t] = sys[t] /\ sys[t].cc \in Clients
                                      /\ sys[t].id \in Slots
  BY <1>2, <1>8 DEF HasClient, Busy, TypeOK, System
<1>10. EntriesOwned' /\ NotFailed'
  <2>1. EntriesOwned'
    <3> SUFFICES ASSUME NEW t \in Systems, InHand(t)'
                 PROVE  LET own == cache'[sys'[t].cc].entry[sys'[t].id]
                        IN /\ own.queued /\ own.hash = sys'[t].ecm
                           /\ \A u \in Systems \ {t} :
                                InHand(u)' /\ sys'[u].cc = sys'[t].cc => sys'[u].id # sys'[t].id
      BY DEF EntriesOwned
    <3>1. /\ cache[sys[t].cc].entry[sys[t].id].queued
          /\ cache[sys[t].cc].entry[sys[t].id].hash = sys[t].ecm
          /\ \A u \in Systems \ {t} :
               InHand(u) /\ sys[u].cc = sys[t].cc => sys[u].id # sys[t].id
      BY <1>8 DEF Entries, EntriesOwned
    <3>2. sys'[t] = sys[t] /\ sys[t].cc \in Clients /\ sys[t].id \in Slots
      BY <1>8, <1>9
    <3>3. LET own == cache'[sys[t].cc].entry[sys[t].id] IN own.queued /\ own.hash = sys[t].ecm
      BY <3>1, <3>2, <1>5
    <3>4. ASSUME NEW u \in Systems \ {t}, InHand(u)', sys'[u].cc = sys[t].cc
          PROVE  sys'[u].id # sys[t].id
      BY <3>1, <3>4, <1>8, <1>9
    <3> QED BY <3>2, <3>3, <3>4
  <2>2. NotFailed'
    BY <1>5, <1>8, <1>9 DEF Entries, NotFailed
  <2> QED BY <2>1, <2>2
<1>11. WorkHasOwner'
  BY <1>5, <1>8, <1>9 DEF Entries, WorkHasOwner
<1>12. SleepersAreWoken'
  <2> SUFFICES ASSUME NEW t \in Systems, sys'[t].at \in {"sleep", "sleep_room"}
               PROVE  \E u \in Systems : /\ InHand(u)' /\ sys'[u].cc = sys'[t].cc
                                         /\ cache'[sys'[t].cc].entry[sys'[u].id].wait
    BY DEF SleepersAreWoken, Wakes
  <2>1. CASE t = s
    <3>1. PICK u \in Systems : InHand(u) /\ sys[u].cc = c /\ sys[u].id = i
      BY <1>1 DEF Entries, WorkHasOwner
    <3>2. sys'[t].cc = c
      BY <2>1, <1>2, <1>1 DEF System
    <3> QED BY <3>1, <3>2, <1>6, <1>8, <1>9
  <2>2. CASE t # s
    <3>1. sys'[t] = sys[t]
      BY <2>2, <1>2
    <3>2. PICK u \in Systems : /\ InHand(u) /\ sys[u].cc = sys[t].cc
                               /\ cache[sys[t].cc].entry[sys[u].id].wait
      BY <3>1 DEF Entries, SleepersAreWoken, Wakes
    <3>3. cache'[sys[t].cc].entry[sys[u].id].wait
      BY <3>2, <1>5, <1>9
    <3> QED BY <3>1, <3>2, <3>3, <1>8, <1>9
  <2> QED BY <2>1, <2>2
<1>13. Exclusive' /\ RequestsKnown'
  <2>1. \A t \in Systems : /\ sys'[t].at = "answer" <=> sys[t].at = "answer"
                           /\ sys[t].at = "answer" => sys'[t] = sys[t]
    BY <1>1, <1>2 DEF System
  <2> QED BY <2>1, ClientsSame
<1>14. OwnAnswer'
  <2>1. \A t \in Systems : sys'[t].at = "good" => sys'[t] = sys[t]
    BY <1>1, <1>2 DEF System
  <2> QED BY <2>1, <1>5 DEF OwnAnswer, Trusted
<1> QED BY <1>7, <1>10, <1>11, <1>12, <1>13, <1>14 DEF Entries

LEMMA GetSleepInv ==
  ASSUME IInv, NEW s \in Systems, GetSame(s) \/ GetRoom(s)
  PROVE  IInv'
<1> DEFINE c == sys[s].cc
<1>1. sys[s].at \in {"get", "room"}
  BY DEF GetSame, GetRoom
<1>2. cache[c] \in Cache(Ecms \cup {NoMsg})
  BY <1>1 DEF IInv, HasClient, Busy, TypeOK
<1>3. CASE GetSame(s)
  <2>1. PICK i \in FindMsg(cache[c], sys[s].ecm) : cache' = [cache EXCEPT ![c] = Marked(@, i)]
    BY <1>3 DEF GetSame
  <2>2. PICK j \in FindMsg(cache[c], sys[s].ecm) : cache[c].entry[j].queued
    BY <1>3 DEF GetSame, InWork
  <2>3. i = j /\ i \in Slots
    BY <1>2, <2>1, <2>2, FindMsgFinds
  <2> QED BY <1>1, <1>3, <2>1, <2>2, <2>3, SleepInv DEF GetSame
<1>4. CASE GetRoom(s)
  BY <1>1, <1>2, <1>4, SleepInv DEF GetRoom, Cache
<1> QED BY <1>3, <1>4

\* System s takes entry i, which nobody works on, for its message: the entry is
\* overwritten, or it is the one of this message and is tried once more.
Takes(s, i) ==
  /\ sys[s].at \in {"get", "room"} /\ ~cache[sys[s].cc].entry[i].queued
  /\ cache'[sys[s].cc].entry[i].queued
  /\ cache'[sys[s].cc].entry[i].hash = sys[s].ecm
  /\ cache'[sys[s].cc].entry[i].mode \notin {FailN, Good}
  /\ \A d \in Clients, j \in Slots :
       d # sys[s].cc \/ j # i => cache'[d].entry[j] = cache[d].entry[j]
  /\ sys'[s].at = "ask" /\ sys'[s].id = i
  /\ sys'[s].cc = sys[s].cc /\ sys'[s].ecm = sys[s].ecm
  /\ \A t \in Systems \ {s} : sys'[t] = sys[t]
  /\ con' = con /\ sent' = sent

LEMMA TakeInv ==
  ASSUME IInv, TypeOK', NEW s \in Systems, NEW i \in Slots, Takes(s, i)
  PROVE  IInv'
<1> DEFINE c == sys[s].cc
<1>1. c \in Clients /\ sys[s].ecm \in Ecms
  BY DEF IInv, HasClient, Busy, Takes
<1>2. \A t \in Systems \ {s} : sys'[t] = sys[t]
  BY DEF Takes
<1>3. /\ ~InHand(s) /\ InHand(s)' /\ sys'[s].at = "ask" /\ sys'[s].id = i
      /\ sys'[s].cc = c /\ sys'[s].ecm = sys[s].ecm
  BY DEF Takes, InHand
<1>4. \A t \in Systems : InHand(t)' => t = s \/ InHand(t)
  BY <1>2 DEF InHand
<1>5. \A t \in Systems : InHand(t) => t # s /\ sys'[t] = sys[t] /\ InHand(t)'
  BY <1>2, <1>3 DEF InHand
<1>6. /\ ~cache[c].entry[i].queued /\ cache'[c].entry[i].queued
      /\ cache'[c].entry[i].hash = sys[s].ecm
      /\ cache'[c].entry[i].mode # FailN /\ cache'[c].entry[i].mode # Good
  BY DEF Takes
<1>7. \A d \in Clients, j \in Slots :
        d # c \/ j # i => cache'[d].entry[j] = cache[d].entry[j]
  BY DEF Takes
<1>8. \A t \in Systems : InHand(t) => sys[t].cc # c \/ sys[t].id # i
  BY <1>6 DEF IInv, Entries, EntriesOwned
<1>9. \A t \in Systems : InHand(t) =>
        cache'[sys[t].cc].entry[sys[t].id] = cache[sys[t].cc].entry[sys[t].id]
  <2>1. \A t \in Systems : InHand(t) => sys[t].cc \in Clients /\ sys[t].id \in Slots
    BY DEF IInv, InHand, HasClient, Busy, TypeOK, System
  <2> QED BY <2>1, <1>7, <1>8
<1>10. HasClient'
  BY <1>1, <1>2, <1>3 DEF IInv, HasClient
<1>11. EntriesOwned'
  <2> SUFFICES ASSUME NEW t \in Systems, InHand(t)'
               PROVE  LET own == cache'[sys'[t].cc].entry[sys'[t].id]
                      IN /\ own.queued /\ own.hash = sys'[t].ecm
                         /\ \A u \in Systems \ {t} :
                              InHand(u)' /\ sys'[u].cc = sys'[t].cc => sys'[u].id # sys'[t].id
    BY DEF EntriesOwned
  <2>1. CASE t = s
    <3>1. ASSUME NEW u \in Systems \ {s}, InHand(u)', sys'[u].cc = c PROVE sys'[u].id # i
      BY <3>1, <1>4, <1>5, <1>8
    <3> QED BY <2>1, <3>1, <1>3, <1>6
  <2>2. CASE t # s
    <3>1. InHand(t) /\ sys'[t] = sys[t]
      BY <2>2, <1>4, <1>5
    <3>2. LET own == cache[sys[t].cc].entry[sys[t].id] IN own.queued /\ own.hash = sys[t].ecm
      BY <3>1 DEF IInv, Entries, EntriesOwned
    <3>3. ASSUME NEW u \in Systems \ {t}, InHand(u)', sys'[u].cc = sys[t].cc
          PROVE  sys'[u].id # sys[t].id
      <4>1. CASE u = s
        BY <4>1, <3>1, <3>3, <1>3, <1>8
      <4>2. CASE u # s
        BY <4>2, <3>1, <3>3, <1>4, <1>5 DEF IInv, Entries, EntriesOwned
      <4> QED BY <4>1, <4>2
    <3>4. cache'[sys[t].cc].entry[sys[t].id] = cache[sys[t].cc].entry[sys[t].id]
      BY <3>1, <1>9
    <3> QED BY <3>1, <3>2, <3>3, <3>4
  <2> QED BY <2>1, <2>2
<1>12. NotFailed'
  <2> SUFFICES ASSUME NEW t \in Systems, InHand(t)'
               PROVE  cache'[sys'[t].cc].entry[sys'[t].id].mode # FailN
    BY DEF NotFailed
  <2>1. CASE t = s
    BY <2>1, <1>3, <1>6
  <2>2. CASE t # s
    BY <2>2, <1>4, <1>5, <1>9 DEF IInv, Entries, NotFailed
  <2> QED BY <2>1, <2>2
<1>13. WorkHasOwner'
  <2> SUFFICES ASSUME NEW d \in Clients, NEW j \in Slots, cache'[d].entry[j].queued
               PROVE  \E t \in Systems : InHand(t)' /\ sys'[t].cc = d /\ sys'[t].id = j
    BY DEF WorkHasOwner
  <2>1. CASE d = c /\ j = i
    BY <2>1, <1>3
  <2>2. CASE d # c \/ j # i
    <3>1. cache[d].entry[j].queued
      BY <2>2, <1>7
    <3>2. PICK t \in Systems : InHand(t) /\ sys[t].cc = d /\ sys[t].id = j
      BY <3>1 DEF IInv, Entries, WorkHasOwner
    <3> QED BY <3>2, <1>5
  <2> QED BY <2>1, <2>2
<1>14. SleepersAreWoken'
  <2> SUFFICES ASSUME NEW t \in Systems, sys'[t].at \in {"sleep", "sleep_room"}
               PROVE  \E u \in Systems : /\ InHand(u)' /\ sys'[u].cc = sys'[t].cc
                                         /\ cache'[sys'[t].cc].entry[sys'[u].id].wait
    BY DEF SleepersAreWoken, Wakes
  <2>1. sys'[t] = sys[t]
    BY <1>2, <1>3
  <2>2. PICK u \in Systems : /\ InHand(u) /\ sys[u].cc = sys[t].cc
                             /\ cache[sys[t].cc].entry[sys[u].id].wait
    BY <2>1 DEF IInv, Entries, SleepersAreWoken, Wakes
  <2>3. cache'[sys[t].cc].entry[sys[u].id].wait
    BY <2>2, <1>9
  <2> QED BY <2>1, <2>2, <2>3, <1>5
<1>15. Exclusive' /\ RequestsKnown'
  <2>1. \A t \in Systems : /\ sys'[t].at = "answer" <=> sys[t].at = "answer"
                           /\ sys[t].at = "answer" => sys'[t] = sys[t]
    BY <1>2, <1>3 DEF InHand
  <2>2. con' = con /\ sent' = sent
    BY DEF Takes
  <2> QED BY <2>1, <2>2, ClientsSame
<1>16. OwnAnswer'
  <2>1. \A t \in Systems : sys'[t].at = "good" => sys'[t] = sys[t]
    BY <1>2, <1>3
  <2>2. \A d \in Clients, j \in Slots : cache'[d].entry[j].mode = Good =>
          cache'[d].entry[j] = cache[d].entry[j]
    BY <1>6, <1>7
  <2>3. ASSUME NEW t \in Systems, sys'[t].at = "good", Trusted(sys'[t].cc)
        PROVE  sys'[t].cw = sys'[t].ecm
    BY <2>1, <2>3 DEF IInv, OwnAnswer
  <2>4. ASSUME NEW d \in Clients, NEW j \in Slots, Trusted(d), cache'[d].entry[j].mode = Good
        PROVE  cache'[d].entry[j].store = cache'[d].entry[j].hash
    BY <2>2, <2>4 DEF IInv, OwnAnswer
  <2> QED BY <2>3, <2>4 DEF OwnAnswer, Trusted
<1> QED BY <1>10, <1>11, <1>12, <1>13, <1>14, <1>15, <1>16 DEF IInv, Entries

LEMMA EnqueuedEntry ==
  ASSUME NEW M, NEW c \in Cache(M), NEW m \in M, NoMsg \in M
  PROVE  LET d == Enqueued(c, m) IN
         /\ d \in Cache(M) /\ c.ptr \in Slots
         /\ d.entry[c.ptr].hash = m /\ d.entry[c.ptr].queued /\ d.entry[c.ptr].mode = Free
         /\ \A j \in Slots \ {c.ptr} : d.entry[j] = c.entry[j]
<1> DEFINE e == [hash |-> m, mode |-> Free, queued |-> TRUE, wait |-> FALSE, store |-> NoMsg]
           f == [c.entry EXCEPT ![c.ptr] = e]
           n == (c.ptr + 1) % NumCache
<1>1. c.ptr \in Slots /\ c.entry \in [Slots -> Entry(M)]
  BY DEF Cache
<1>2. n \in Slots
  BY <1>1, NumCacheAssumption DEF Slots
<1>3. e \in Entry(M) /\ e.hash = m /\ e.queued /\ e.mode = Free
  BY DEF Entry, Free, Good
<1>4. Enqueued(c, m) = [ptr |-> n, entry |-> f]
  BY DEF Enqueued
<1> HIDE DEF e, n
<1>5. f \in [Slots -> Entry(M)] /\ f[c.ptr] = e /\ \A j \in Slots \ {c.ptr} : f[j] = c.entry[j]
  BY <1>1, <1>3
<1> HIDE DEF f
<1> QED BY <1>1, <1>2, <1>3, <1>4, <1>5 DEF Cache

\* The cache becomes k, in which the entry is taken.
TakesAs(s, i, k) ==
  /\ sys[s].at \in {"get", "room"} /\ ~cache[sys[s].cc].entry[i].queued
  /\ \A j \in Slots \ {i} : k.entry[j] = cache[sys[s].cc].entry[j]
  /\ k.entry[i].queued /\ k.entry[i].hash = sys[s].ecm
  /\ k.entry[i].mode \notin {FailN, Good}
  /\ cache' = [cache EXCEPT ![sys[s].cc] = k]
  /\ sys' = [sys EXCEPT ![s] = [@ EXCEPT !.at = "ask", !.id = i]]
  /\ con' = con /\ sent' = sent

LEMMA TakeStep ==
  ASSUME IInv, NEW s \in Systems, NEW i \in Slots, NEW k \in Cache(Ecms \cup {NoMsg}),
         TakesAs(s, i, k)
  PROVE  IInv'
<1> USE DEF TakesAs
<1> DEFINE c == sys[s].cc
           r == [sys[s] EXCEPT !.at = "ask", !.id = i]
<1>1. c \in Clients /\ sys[s] \in System
  BY DEF IInv, HasClient, Busy, TypeOK
<1>2. r \in System /\ r.at = "ask" /\ r.id = i /\ r.cc = c /\ r.ecm = sys[s].ecm
  BY <1>1 DEF System
<1>3. sys' = [sys EXCEPT ![s] = r]
  OBVIOUS
<1> HIDE DEF r
<1>4. /\ sys' \in [Systems -> System] /\ sys'[s] = r
      /\ \A t \in Systems \ {s} : sys'[t] = sys[t]
  BY <1>2, <1>3, SystemReplaced DEF IInv
<1>5. /\ cache' \in [Clients -> Cache(Ecms \cup {NoMsg})] /\ cache'[c] = k
      /\ \A d \in Clients \ {c} : cache'[d] = cache[d]
  BY <1>1 DEF IInv, TypeOK
<1>6. TypeOK'
  BY <1>4, <1>5 DEF IInv, TypeOK
<1>7. Takes(s, i)
  BY <1>1, <1>2, <1>4, <1>5 DEF Takes
<1> QED BY <1>6, <1>7, TakeInv

LEMMA GetNewInv ==
  ASSUME IInv, NEW s \in Systems, GetNew(s)
  PROVE  IInv'
<1> DEFINE c == sys[s].cc
           i == cache[c].ptr
           k == Enqueued(cache[c], sys[s].ecm)
           M == Ecms \cup {NoMsg}
<1>1. sys[s].at \in {"get", "room"} /\ cache[c] \in Cache(M) /\ sys[s].ecm \in Ecms
  BY DEF GetNew, IInv, HasClient, Busy, TypeOK
<1>2. /\ k \in Cache(M) /\ i \in Slots
      /\ k.entry[i].hash = sys[s].ecm /\ k.entry[i].queued /\ k.entry[i].mode = Free
      /\ \A j \in Slots \ {i} : k.entry[j] = cache[c].entry[j]
  BY <1>1, EnqueuedEntry
<1>3. /\ ~cache[c].entry[i].queued /\ cache' = [cache EXCEPT ![c] = k]
      /\ sys' = [sys EXCEPT ![s] = [@ EXCEPT !.at = "ask", !.id = i]]
      /\ con' = con /\ sent' = sent
  BY DEF GetNew, IInv, TypeOK
<1>4. Free \notin {FailN, Good}
  BY DEF Free, FailN, Good
<1> HIDE DEF i, k
<1>5. TakesAs(s, i, k)
  BY <1>1, <1>2, <1>3, <1>4 DEF TakesAs
<1> QED BY <1>2, <1>5, TakeStep

LEMMA GetKnownInv ==
  ASSUME IInv, NEW s \in Systems, GetKnown(s)
  PROVE  IInv'
<1> DEFINE c == sys[s].cc
           m == sys[s].ecm
           M == Ecms \cup {NoMsg}
<1>1. /\ sys[s].at = "get" /\ c \in Clients /\ sys[s] \in System /\ m \in Ecms
      /\ cache[c] \in Cache(M)
  BY DEF GetKnown, IInv, HasClient, Busy, TypeOK
<1>2. con' = con /\ sent' = sent
  BY DEF GetKnown
<1>3. CASE /\ IsRetry(cache[c], m)
           /\ \E i \in FindMsg(cache[c], m) :
                /\ cache' = [cache EXCEPT ![c] = Requeued(@, i)]
                /\ sys' = [sys EXCEPT ![s].at = "ask", ![s].id = i]
  <2>1. PICK i \in FindMsg(cache[c], m) :
          /\ cache' = [cache EXCEPT ![c] = Requeued(@, i)]
          /\ sys' = [sys EXCEPT ![s].at = "ask", ![s].id = i]
    BY <1>3
  <2> DEFINE k == Requeued(cache[c], i)
  <2>2. i \in Slots /\ cache[c].entry[i].hash = m
    BY <1>1, FindMsgFinds
  <2>3. ~cache[c].entry[i].queued
    BY DEF GetKnown, InWork
  <2>4. cache[c].entry[i].mode \notin {FailN, Good}
    <3>1. PICK j \in FindMsg(cache[c], m) : cache[c].entry[j].mode \notin {Free, FailN, Good}
      BY <1>3 DEF IsRetry
    <3>2. i = j
      BY <1>1, FindMsgFinds
    <3> QED BY <3>1, <3>2
  <2>5. /\ k \in Cache(M)
        /\ k.entry[i] = [cache[c].entry[i] EXCEPT !.queued = TRUE]
        /\ \A j \in Slots \ {i} : k.entry[j] = cache[c].entry[j]
    BY <1>1, <2>2, RequeuedEntry
  <2>6. k.entry[i].queued /\ k.entry[i].hash = m /\ k.entry[i].mode \notin {FailN, Good}
    <3>1. cache[c].entry[i] \in Entry(M)
      BY <1>1, <2>2 DEF Cache
    <3> QED BY <3>1, <2>2, <2>4, <2>5 DEF Entry
  <2>7. /\ cache' = [cache EXCEPT ![c] = k]
        /\ sys' = [sys EXCEPT ![s] = [@ EXCEPT !.at = "ask", !.id = i]]
    BY <2>1 DEF IInv, TypeOK
  <2> HIDE DEF k
  <2>8. TakesAs(s, i, k)
    BY <1>1, <1>2, <2>3, <2>5, <2>6, <2>7 DEF TakesAs
  <2> QED BY <2>2, <2>5, <2>8, TakeStep
<1>4. CASE /\ cache' = cache
           /\ \/ sys' = [sys EXCEPT ![s] = Returned(@, c)]
              \/ sys' = [sys EXCEPT ![s].at = "next", ![s].tried = @ \cup {c}]
  <2>1. /\ sys' \in [Systems -> System] /\ \A t \in Systems \ {s} : sys'[t] = sys[t]
        /\ sys'[s].at \in {"idle", "next"}
        /\ sys'[s].at = "next" => sys'[s].ecm = m
    <3>1. CASE sys' = [sys EXCEPT ![s] = Returned(@, c)]
      <4> DEFINE r == Returned(sys[s], c)
      <4>1. r \in System /\ r.at = "idle"
        BY <1>1, IdleIsSystem DEF Returned, System, IdleSystem
      <4>2. sys' = [sys EXCEPT ![s] = r]
        BY <3>1
      <4> HIDE DEF r
      <4> QED BY <4>1, <4>2, SystemReplaced DEF IInv
    <3>2. CASE sys' = [sys EXCEPT ![s].at = "next", ![s].tried = @ \cup {c}]
      <4> DEFINE r == [sys[s] EXCEPT !.at = "next", !.tried = @ \cup {c}]
      <4>1. r \in System /\ r.at = "next" /\ r.ecm = m
        BY <1>1 DEF System
      <4>2. sys' = [sys EXCEPT ![s] = r]
        BY <3>2 DEF IInv, TypeOK
      <4> HIDE DEF r
      <4> QED BY <4>1, <4>2, SystemReplaced DEF IInv
    <3> QED BY <1>4, <3>1, <3>2
  <2>2. TypeOK' /\ HasClient'
    BY <1>1, <1>2, <1>4, <2>1 DEF IInv, TypeOK, HasClient, Busy
  <2>3. Entries'
    BY <1>1, <1>4, <2>1, EntriesSame DEF InHand
  <2>4. Exclusive' /\ RequestsKnown'
    BY <1>1, <1>2, <2>1, ClientsSame
  <2>5. OwnAnswer'
    BY <1>4, <2>1, AnswersSame
  <2> QED BY <2>2, <2>3, <2>4, <2>5 DEF IInv
<1> QED BY <1>3, <1>4 DEF GetKnown

-----------------------------------------------------------------------------
(* Requests and answers                                                    *)

LEMMA AskInv ==
  ASSUME IInv, NEW s \in Systems, Ask(s)
  PROVE  IInv'
<1> DEFINE c == sys[s].cc
           e == sys[s].ecm
           n == Number(c)
<1>1. /\ sys[s].at = "ask" /\ c \in Clients /\ sys[s] \in System /\ e \in Ecms
      /\ con[c] \in Connection /\ sent[c] \in SUBSET Request
  BY DEF Ask, IInv, HasClient, Busy, TypeOK
<1>2. ~con[c].busy /\ cache' = cache
  BY DEF Ask
<1>3. PICK r \in Heard(c) \cup LoggedIn(c), flushed \in SUBSET sent[c] :
        /\ con' = [con EXCEPT ![c] = [r EXCEPT !.busy = TRUE, !.num = n]]
        /\ sent' = [sent EXCEPT ![c] = (@ \ flushed) \cup
                                       IF r.auth THEN {[num |-> n, ecm |-> e]} ELSE {}]
        /\ sys' = [sys EXCEPT ![s].at = "answer", ![s].num = n]
  BY DEF Ask
<1>4. n \in Nat /\ (Numbered(c) => n = con[c].num + 1)
  BY <1>1 DEF Number, Connection
<1> DEFINE new == [r EXCEPT !.busy = TRUE, !.num = n]
           under == (sent[c] \ flushed) \cup IF r.auth THEN {[num |-> n, ecm |-> e]} ELSE {}
           sr == [sys[s] EXCEPT !.at = "answer", !.num = n]
<1>5. new \in Connection /\ new.busy /\ new.num = n
  <2>1. r \in Connection
    BY <1>1, ClientSame DEF IInv
  <2> QED BY <2>1, <1>4 DEF Connection
<1>6. /\ under \in SUBSET Request
      /\ \A m \in under : m \in sent[c] \/ m = [num |-> n, ecm |-> e]
  BY <1>1, <1>4 DEF Request
<1>7. sr \in System /\ sr.at = "answer" /\ sr.num = n /\ sr.cc = c /\ sr.ecm = e /\ sr.id = sys[s].id
  BY <1>1, <1>4 DEF System
<1>8. /\ con' = [con EXCEPT ![c] = new] /\ sent' = [sent EXCEPT ![c] = under]
      /\ sys' = [sys EXCEPT ![s] = sr]
  BY <1>3 DEF IInv, TypeOK
<1> HIDE DEF new, under, sr, n
<1>9. /\ con' \in [Clients -> Connection] /\ con'[c] = new
      /\ \A d \in Clients \ {c} : con'[d] = con[d]
  BY <1>1, <1>5, <1>8, ClientReplaced DEF IInv
<1>10. /\ sent' \in [Clients -> SUBSET Request] /\ sent'[c] = under
       /\ \A d \in Clients \ {c} : sent'[d] = sent[d]
  BY <1>1, <1>6, <1>8, SentReplaced DEF IInv
<1>11. /\ sys' \in [Systems -> System] /\ sys'[s] = sr
       /\ \A t \in Systems \ {s} : sys'[t] = sys[t]
  BY <1>7, <1>8, SystemReplaced DEF IInv
<1>12. TypeOK' /\ HasClient'
  BY <1>1, <1>2, <1>7, <1>9, <1>10, <1>11 DEF IInv, TypeOK, HasClient
<1>13. Entries'
  BY <1>1, <1>2, <1>7, <1>11, EntriesSame DEF InHand
<1>14. \A t \in Systems \ {s} : sys[t].at = "answer" => sys[t].cc \in Clients \ {c}
  BY <1>2 DEF IInv, Exclusive, HasClient, Busy
<1>15. Exclusive'
  BY <1>5, <1>7, <1>9, <1>11, <1>14 DEF IInv, Exclusive
<1>16. RequestsKnown'
  <2>1. ASSUME NEW d \in Clients, NEW m \in sent'[d], Numbered(d) PROVE m.num <= con'[d].num
    <3>1. CASE d = c
      <4>1. m \in Request
        BY <3>1, <1>6, <1>10
      <4>2. CASE m \in sent[c]
        <5>1. m.num <= con[c].num
          BY <2>1, <3>1, <4>2 DEF IInv, RequestsKnown
        <5> QED BY <2>1, <3>1, <4>1, <5>1, <1>1, <1>4, <1>5, <1>9 DEF Request, Connection
      <4>3. CASE m = [num |-> n, ecm |-> e]
        BY <3>1, <4>3, <1>4, <1>5, <1>9
      <4> QED BY <3>1, <4>2, <4>3, <1>6, <1>10
    <3>2. CASE d # c
      BY <2>1, <3>2, <1>9, <1>10 DEF IInv, RequestsKnown
    <3> QED BY <3>1, <3>2
  <2>2. ASSUME NEW d \in Clients, Trusted(d), ~Numbered(d), ~con'[d].busy PROVE sent'[d] = {}
    BY <2>2, <1>5, <1>9, <1>10 DEF IInv, RequestsKnown
  <2>3. ASSUME NEW t \in Systems, sys'[t].at = "answer", Trusted(sys'[t].cc),
               NEW m \in sent'[sys'[t].cc]
        PROVE  IF Numbered(sys'[t].cc) THEN m.num = sys'[t].num => m.ecm = sys'[t].ecm
               ELSE m = [num |-> sys'[t].num, ecm |-> sys'[t].ecm]
    <3>1. CASE t = s
      <4>1. sys'[t].cc = c /\ sys'[t].num = n /\ sys'[t].ecm = e /\ m \in under /\ Trusted(c)
        BY <2>3, <3>1, <1>7, <1>10, <1>11
      <4>2. CASE m = [num |-> n, ecm |-> e]
        BY <4>1, <4>2
      <4>3. CASE m \in sent[c]
        <5>1. Numbered(c)
          BY <4>1, <4>3, <1>1, <1>2 DEF IInv, RequestsKnown
        <5>2. m.num <= con[c].num /\ m.num \in Int /\ con[c].num \in Int
          BY <4>3, <5>1, <1>1 DEF IInv, RequestsKnown, Request, Connection
        <5> QED BY <4>1, <5>1, <5>2, <1>4
      <4> QED BY <4>1, <4>2, <4>3, <1>6
    <3>2. CASE t # s
      <4>1. /\ sys'[t] = sys[t] /\ sys[t].cc \in Clients \ {c}
            /\ sent'[sys[t].cc] = sent[sys[t].cc]
        BY <2>3, <3>2, <1>10, <1>11, <1>14
      <4> QED BY <2>3, <4>1 DEF IInv, RequestsKnown
    <3> QED BY <3>1, <3>2
  <2> QED BY <2>1, <2>2, <2>3 DEF RequestsKnown, Trusted
<1>17. OwnAnswer'
  BY <1>2, <1>7, <1>11, AnswersSame
<1> QED BY <1>12, <1>13, <1>15, <1>16, <1>17 DEF IInv

LEMMA AskFailsInv ==
  ASSUME IInv, NEW s \in Systems, AskFails(s)
  PROVE  IInv'
<1> DEFINE c == sys[s].cc
<1>1. /\ sys[s].at = "ask" /\ c \in Clients /\ sys[s] \in System /\ sys[s].ecm \in Ecms
      /\ con[c] \in Connection /\ ~con[c].busy /\ cache' = cache
  BY DEF AskFails, IInv, HasClient, Busy, TypeOK
<1> DEFINE sr == [sys[s] EXCEPT !.at = "bad", !.num = 0]
<1>2. sr \in System /\ sr.at = "bad" /\ sr.cc = c /\ sr.id = sys[s].id /\ sr.ecm = sys[s].ecm
  BY <1>1 DEF System
<1>3. sys' = [sys EXCEPT ![s] = sr]
  BY DEF AskFails, IInv, TypeOK
<1> HIDE DEF sr
<1>4. /\ sys' \in [Systems -> System] /\ sys'[s] = sr
      /\ \A t \in Systems \ {s} : sys'[t] = sys[t]
  BY <1>2, <1>3, SystemReplaced DEF IInv
<1>5. \E r \in Connection :
        /\ con' = [con EXCEPT ![c] = r] /\ r.busy = con[c].busy /\ r.num = con[c].num
        /\ \/ sent' = sent
           \/ sent' = [sent EXCEPT ![c] = {}]
  <2>1. CASE con[c].up /\ con' = [con EXCEPT ![c] = Disconnected(@)] /\ sent' = [sent EXCEPT ![c] = {}]
    <3>1. /\ Disconnected(con[c]) \in Connection /\ Disconnected(con[c]).busy = con[c].busy
          /\ Disconnected(con[c]).num = con[c].num
      BY <1>1 DEF Disconnected, Connection
    <3> QED BY <2>1, <3>1
  <2>2. CASE ~con[c].up /\ (\E r \in LoginFailed(c) : con' = [con EXCEPT ![c] = r]) /\ sent' = sent
    <3>1. PICK r \in LoginFailed(c) : con' = [con EXCEPT ![c] = r]
      BY <2>2
    <3>2. r \in Connection /\ r.busy = con[c].busy /\ r.num = con[c].num
      BY <1>1, ClientSame DEF IInv
    <3> QED BY <2>2, <3>1, <3>2
  <2>3. CASE \E r \in IF con[c].up THEN Heard(c) ELSE LoggedIn(c) :
               /\ Refused(c, r, sys[s].ecm) /\ con' = [con EXCEPT ![c] = r] /\ sent' = sent
    <3>1. PICK r \in Heard(c) \cup LoggedIn(c) : con' = [con EXCEPT ![c] = r] /\ sent' = sent
      BY <2>3
    <3>2. r \in Connection /\ r.busy = con[c].busy /\ r.num = con[c].num
      BY <1>1, ClientSame DEF IInv
    <3> QED BY <3>1, <3>2
  <2> QED BY <2>1, <2>2, <2>3 DEF AskFails
<1>6. /\ con' \in [Clients -> Connection] /\ sent' \in [Clients -> SUBSET Request]
      /\ \A d \in Clients : /\ con'[d].busy = con[d].busy /\ con'[d].num = con[d].num
                            /\ sent'[d] = sent[d] \/ sent'[d] = {}
  <2>1. PICK r \in Connection :
          /\ con' = [con EXCEPT ![c] = r] /\ r.busy = con[c].busy /\ r.num = con[c].num
          /\ \/ sent' = sent
             \/ sent' = [sent EXCEPT ![c] = {}]
    BY <1>5
  <2>2. /\ con' \in [Clients -> Connection]
        /\ \A d \in Clients : con'[d].busy = con[d].busy /\ con'[d].num = con[d].num
    BY <2>1, <1>1, ClientReplaced DEF IInv
  <2>3. /\ sent' \in [Clients -> SUBSET Request]
        /\ \A d \in Clients : sent'[d] = sent[d] \/ sent'[d] = {}
    BY <2>1, <1>1 DEF IInv, TypeOK
  <2> QED BY <2>2, <2>3
<1>7. TypeOK' /\ HasClient'
  BY <1>1, <1>2, <1>4, <1>6 DEF IInv, TypeOK, HasClient
<1>8. Entries'
  BY <1>1, <1>2, <1>4, EntriesSame DEF InHand
<1>9. \A t \in Systems : sys'[t].at = "answer" => t # s /\ sys'[t] = sys[t] /\ sys[t].cc \in Clients
  BY <1>2, <1>4 DEF IInv, HasClient, Busy
<1>10. Exclusive'
  BY <1>6, <1>9 DEF IInv, Exclusive
<1>11. RequestsKnown'
  <2>1. ASSUME NEW d \in Clients, NEW m \in sent'[d], Numbered(d) PROVE m.num <= con'[d].num
    BY <2>1, <1>6 DEF IInv, RequestsKnown
  <2>2. ASSUME NEW d \in Clients, Trusted(d), ~Numbered(d), ~con'[d].busy PROVE sent'[d] = {}
    BY <2>2, <1>6 DEF IInv, RequestsKnown
  <2>3. ASSUME NEW t \in Systems, sys'[t].at = "answer", Trusted(sys'[t].cc),
               NEW m \in sent'[sys'[t].cc]
        PROVE  IF Numbered(sys'[t].cc) THEN m.num = sys'[t].num => m.ecm = sys'[t].ecm
               ELSE m = [num |-> sys'[t].num, ecm |-> sys'[t].ecm]
    BY <2>3, <1>6, <1>9 DEF IInv, RequestsKnown
  <2> QED BY <2>1, <2>2, <2>3 DEF RequestsKnown, Trusted
<1>12. OwnAnswer'
  BY <1>1, <1>2, <1>4, AnswersSame
<1> QED BY <1>7, <1>8, <1>10, <1>11, <1>12 DEF IInv

\* Somebody who waited for an answer stops to wait.
StopsWaiting(s, place) ==
  /\ sys[s].at = "answer" /\ place \in {"good", "bad"} /\ sys'[s].at = place
  /\ sys'[s].cc = sys[s].cc /\ sys'[s].id = sys[s].id /\ sys'[s].ecm = sys[s].ecm
  /\ \A t \in Systems \ {s} : sys'[t] = sys[t]
  /\ cache' = cache
  /\ ~con'[sys[s].cc].busy /\ con'[sys[s].cc].num = con[sys[s].cc].num
  /\ \A d \in Clients \ {sys[s].cc} : con'[d] = con[d] /\ sent'[d] = sent[d]
  /\ sent'[sys[s].cc] \subseteq sent[sys[s].cc]
  /\ Trusted(sys[s].cc) /\ ~Numbered(sys[s].cc) => sent'[sys[s].cc] = {}
  /\ place = "good" /\ Trusted(sys[s].cc) => sys'[s].cw = sys[s].ecm

LEMMA StopInv ==
  ASSUME IInv, TypeOK', NEW s \in Systems, NEW place, StopsWaiting(s, place)
  PROVE  IInv'
<1> DEFINE c == sys[s].cc
<1>1. c \in Clients /\ sys[s].ecm \in Ecms
  BY DEF StopsWaiting, IInv, HasClient, Busy
<1>2. /\ sys'[s].at = place /\ place \in {"good", "bad"} /\ sys'[s].cc = c
      /\ sys'[s].id = sys[s].id /\ sys'[s].ecm = sys[s].ecm
      /\ \A t \in Systems \ {s} : sys'[t] = sys[t]
  BY DEF StopsWaiting
<1>3. sys[s].at = "answer" /\ cache' = cache
  BY DEF StopsWaiting
<1>4. /\ ~con'[c].busy /\ con'[c].num = con[c].num
      /\ \A d \in Clients \ {c} : con'[d] = con[d] /\ sent'[d] = sent[d]
      /\ sent'[c] \subseteq sent[c]
      /\ Trusted(c) /\ ~Numbered(c) => sent'[c] = {}
  BY DEF StopsWaiting
<1>5. HasClient'
  BY <1>1, <1>2 DEF IInv, HasClient
<1>6. Entries'
  BY <1>2, <1>3, EntriesSame DEF InHand
<1>7. \A t \in Systems : sys'[t].at = "answer" =>
        t # s /\ sys'[t] = sys[t] /\ sys[t].cc \in Clients \ {c}
  BY <1>2, <1>3 DEF IInv, Exclusive, HasClient, Busy
<1>8. Exclusive'
  BY <1>4, <1>7 DEF IInv, Exclusive
<1>9. RequestsKnown'
  <2>1. ASSUME NEW d \in Clients, NEW m \in sent'[d], Numbered(d) PROVE m.num <= con'[d].num
    BY <2>1, <1>4 DEF IInv, RequestsKnown
  <2>2. ASSUME NEW d \in Clients, Trusted(d), ~Numbered(d), ~con'[d].busy PROVE sent'[d] = {}
    BY <2>2, <1>4 DEF IInv, RequestsKnown
  <2>3. ASSUME NEW t \in Systems, sys'[t].at = "answer", Trusted(sys'[t].cc),
               NEW m \in sent'[sys'[t].cc]
        PROVE  IF Numbered(sys'[t].cc) THEN m.num = sys'[t].num => m.ecm = sys'[t].ecm
               ELSE m = [num |-> sys'[t].num, ecm |-> sys'[t].ecm]
    BY <2>3, <1>4, <1>7 DEF IInv, RequestsKnown
  <2> QED BY <2>1, <2>2, <2>3 DEF RequestsKnown, Trusted
<1>10. OwnAnswer'
  <2>1. ASSUME NEW t \in Systems, sys'[t].at = "good", Trusted(sys'[t].cc)
        PROVE  sys'[t].cw = sys'[t].ecm
    <3>1. CASE t = s
      BY <2>1, <3>1, <1>2 DEF StopsWaiting
    <3>2. CASE t # s
      BY <2>1, <3>2, <1>2 DEF IInv, OwnAnswer
    <3> QED BY <3>1, <3>2
  <2> QED BY <2>1, <1>3 DEF IInv, OwnAnswer, Trusted
<1> QED BY <1>5, <1>6, <1>8, <1>9, <1>10 DEF IInv

LEMMA ReceiveInv ==
  ASSUME IInv, NEW s \in Systems, NEW m, NEW decoded \in BOOLEAN, Receive(s, m, decoded)
  PROVE  IInv'
<1> DEFINE c == sys[s].cc
<1>1. /\ sys[s].at = "answer" /\ c \in Clients /\ sys[s] \in System /\ sys[s].ecm \in Ecms
      /\ con[c] \in Connection /\ sent[c] \in SUBSET Request /\ m \in sent[c] /\ m \in Request
      /\ cache' = cache
  BY DEF Receive, IInv, HasClient, Busy, TypeOK
<1> DEFINE rest == sent[c] \ {m}
<1>2. sent' = [sent EXCEPT ![c] = rest] /\ rest \in SUBSET Request
  BY <1>1 DEF Receive
<1> HIDE DEF rest
<1>3. /\ sent' \in [Clients -> SUBSET Request] /\ sent'[c] = rest
      /\ \A d \in Clients \ {c} : sent'[d] = sent[d]
  BY <1>1, <1>2, SentReplaced DEF IInv
<1> USE DEF rest
<1>4. CASE Numbered(c) /\ m.num # sys[s].num
  <2>1. sys' = sys /\ con' = con
    BY <1>4 DEF Receive
  <2>2. TypeOK' /\ HasClient' /\ Exclusive'
    BY <2>1, <1>1, <1>3 DEF IInv, TypeOK, HasClient, Exclusive
  <2>3. Entries'
    BY <2>1, <1>1, EntriesSame DEF InHand
  <2>4. OwnAnswer'
    BY <2>1, <1>1, AnswersSame
  <2>5. RequestsKnown'
    <3>1. \A d \in Clients : sent'[d] \subseteq sent[d]
      BY <1>3
    <3>2. \A t \in Systems : sys[t].at = "answer" => sys[t].cc \in Clients
      BY DEF IInv, HasClient, Busy
    <3> QED BY <3>1, <3>2, <2>1 DEF IInv, RequestsKnown, Trusted
  <2> QED BY <2>2, <2>3, <2>4, <2>5 DEF IInv
<1>5. CASE ~(Numbered(c) /\ m.num # sys[s].num)
  <2> DEFINE place == IF decoded THEN "good" ELSE "bad"
             cr == [con[c] EXCEPT !.busy = FALSE]
             sr == [sys[s] EXCEPT !.at = place, !.cw = IF decoded THEN m.ecm ELSE @]
  <2>1. con' = [con EXCEPT ![c] = cr] /\ sys' = [sys EXCEPT ![s] = sr]
    BY <1>5 DEF Receive, IInv, TypeOK
  <2>2. cr \in Connection /\ ~cr.busy /\ cr.num = con[c].num
    BY <1>1 DEF Connection
  <2>3. /\ sr \in System /\ sr.at = place /\ sr.cc = c /\ sr.id = sys[s].id /\ sr.ecm = sys[s].ecm
        /\ sr.cw = IF decoded THEN m.ecm ELSE sys[s].cw
    BY <1>1 DEF System, Request
  <2> HIDE DEF cr, sr
  <2>4. /\ con' \in [Clients -> Connection] /\ con'[c] = cr
        /\ \A d \in Clients \ {c} : con'[d] = con[d]
    BY <2>1, <2>2, <1>1, ClientReplaced DEF IInv
  <2>5. /\ sys' \in [Systems -> System] /\ sys'[s] = sr
        /\ \A t \in Systems \ {s} : sys'[t] = sys[t]
    BY <2>1, <2>3, SystemReplaced DEF IInv
  <2>6. TypeOK'
    BY <1>1, <1>3, <2>4, <2>5 DEF IInv, TypeOK
  <2>7. Trusted(c) /\ ~Numbered(c) => sent'[c] = {}
    BY <1>1, <1>3 DEF IInv, RequestsKnown
  <2>8. Trusted(c) => m.ecm = sys[s].ecm
    BY <1>1, <1>5 DEF IInv, RequestsKnown
  <2>9. StopsWaiting(s, place)
    BY <1>1, <1>3, <2>2, <2>3, <2>4, <2>5, <2>7, <2>8 DEF StopsWaiting
  <2> QED BY <2>6, <2>9, StopInv
<1> QED BY <1>4, <1>5

LEMMA GiveUpInv ==
  ASSUME IInv, NEW s \in Systems, GiveUp(s)
  PROVE  IInv'
<1> DEFINE c == sys[s].cc
<1>1. /\ sys[s].at = "answer" /\ c \in Clients /\ sys[s] \in System /\ sys[s].ecm \in Ecms
      /\ con[c] \in Connection /\ cache' = cache
  BY DEF GiveUp, IInv, HasClient, Busy, TypeOK
<1> DEFINE sr == [sys[s] EXCEPT !.at = "bad", !.num = 0]
<1>2. sr \in System /\ sr.at = "bad" /\ sr.cc = c /\ sr.id = sys[s].id /\ sr.ecm = sys[s].ecm
  BY <1>1 DEF System
<1>3. sys' = [sys EXCEPT ![s] = sr]
  BY DEF GiveUp, IInv, TypeOK
<1> HIDE DEF sr
<1>4. /\ sys' \in [Systems -> System] /\ sys'[s] = sr
      /\ \A t \in Systems \ {s} : sys'[t] = sys[t]
  BY <1>2, <1>3, SystemReplaced DEF IInv
<1>5. \E r \in Connection :
        /\ con' = [con EXCEPT ![c] = r] /\ ~r.busy /\ r.num = con[c].num
        /\ \/ (~Reconnects(c) \/ Kind[c] = "Newcamd") /\ sent' = sent
           \/ sent' = [sent EXCEPT ![c] = {}]
  <2>1. CASE /\ ~Reconnects(c) \/ Kind[c] = "Newcamd"
             /\ con' = [con EXCEPT ![c].busy = FALSE] /\ sent' = sent
    <3>1. /\ [con[c] EXCEPT !.busy = FALSE] \in Connection
          /\ ~[con[c] EXCEPT !.busy = FALSE].busy
          /\ [con[c] EXCEPT !.busy = FALSE].num = con[c].num
      BY <1>1 DEF Connection
    <3> QED BY <2>1, <3>1
  <2>2. CASE /\ con' = [con EXCEPT ![c] = Disconnected([@ EXCEPT !.busy = FALSE])]
             /\ sent' = [sent EXCEPT ![c] = {}]
    <3> DEFINE r == Disconnected([con[c] EXCEPT !.busy = FALSE])
    <3>1. r \in Connection /\ ~r.busy /\ r.num = con[c].num
      BY <1>1 DEF Disconnected, Connection
    <3>2. con' = [con EXCEPT ![c] = r]
      BY <2>2
    <3> HIDE DEF r
    <3> QED BY <2>2, <3>1, <3>2
  <2> QED BY <2>1, <2>2 DEF GiveUp
<1>6. PICK r \in Connection :
        /\ con' = [con EXCEPT ![c] = r] /\ ~r.busy /\ r.num = con[c].num
        /\ \/ (~Reconnects(c) \/ Kind[c] = "Newcamd") /\ sent' = sent
           \/ sent' = [sent EXCEPT ![c] = {}]
  BY <1>5
<1>7. /\ con' \in [Clients -> Connection] /\ con'[c] = r
      /\ \A d \in Clients \ {c} : con'[d] = con[d]
  BY <1>1, <1>6, ClientReplaced DEF IInv
<1>8. /\ sent' \in [Clients -> SUBSET Request] /\ sent'[c] \subseteq sent[c]
      /\ \A d \in Clients \ {c} : sent'[d] = sent[d]
      /\ Reconnects(c) /\ ~Numbered(c) => sent'[c] = {}
  BY <1>1, <1>6 DEF IInv, TypeOK, Numbered
<1>9. TypeOK'
  BY <1>1, <1>4, <1>7, <1>8 DEF IInv, TypeOK
<1>10. StopsWaiting(s, "bad")
  BY <1>1, <1>2, <1>4, <1>6, <1>7, <1>8 DEF StopsWaiting, Trusted
<1> QED BY <1>9, <1>10, StopInv

-----------------------------------------------------------------------------
(* The result goes into the cache                                          *)

LEMMA FailureCounted ==
  ASSUME NEW mode \in Free..Good, mode # FailN, NEW maxFail
  PROVE  AfterFailure(mode, maxFail) \in Free..Good /\ AfterFailure(mode, maxFail) # Good
<1>1. CASE mode = Good
  BY <1>1 DEF AfterFailure, Free, Good, FailN
<1>2. CASE mode # Good
  <2>1. mode + 1 \in Free..Good /\ mode + 1 # Good
    BY <1>2 DEF Free, Good, FailN
  <2>2. FailN \in Free..Good /\ FailN # Good
    BY DEF Free, Good, FailN
  <2>3. AfterFailure(mode, maxFail) \in {mode + 1, FailN}
    BY <1>2 DEF AfterFailure
  <2> QED BY <2>1, <2>2, <2>3
<1> QED BY <1>1, <1>2

LEMMA CachedEntry ==
  ASSUME NEW M, NoMsg \in M, NEW c \in Cache(M), NEW i \in Slots, c.entry[i].mode # FailN,
         NEW good \in BOOLEAN, NEW result \in M, NEW maxFail
  PROVE  LET d == Cached(c, i, good, result, maxFail) IN
         /\ d \in Cache(M) /\ \A j \in Slots \ {i} : d.entry[j] = c.entry[j]
         /\ ~d.entry[i].queued /\ ~d.entry[i].wait /\ d.entry[i].hash = c.entry[i].hash
         /\ IF good THEN d.entry[i].store = result ELSE d.entry[i].mode # Good
<1> DEFINE e == IF good THEN [c.entry[i] EXCEPT !.mode = Good, !.queued = FALSE, !.wait = FALSE,
                                              !.store = result]
                ELSE [c.entry[i] EXCEPT !.mode = AfterFailure(c.entry[i].mode, maxFail),
                                        !.queued = FALSE, !.wait = FALSE, !.store = NoMsg]
<1>1. c.entry[i] \in Entry(M)
  BY DEF Cache
<1>2. Good \in Free..Good
  BY DEF Free, Good
<1>3. /\ AfterFailure(c.entry[i].mode, maxFail) \in Free..Good
      /\ AfterFailure(c.entry[i].mode, maxFail) # Good
  BY <1>1, FailureCounted DEF Entry
<1>4. /\ e \in Entry(M) /\ ~e.queued /\ ~e.wait /\ e.hash = c.entry[i].hash
      /\ IF good THEN e.store = result ELSE e.mode # Good
  BY <1>1, <1>2, <1>3 DEF Entry
<1>5. Cached(c, i, good, result, maxFail) = Replaced(c, i, e)
  BY DEF Cached, Replaced
<1> HIDE DEF e
<1>6. LET d == Replaced(c, i, e) IN
      /\ d \in Cache(M) /\ d.entry[i] = e /\ \A j \in Slots \ {i} : d.entry[j] = c.entry[j]
  BY <1>4, EntryReplaced
<1> QED BY <1>4, <1>5, <1>6

\* System s reports the result of its entry; the sleepers of the cache wake up
\* if the flag of the entry is set.
Reports(s) ==
  LET c == sys[s].cc
      i == sys[s].id
  IN /\ sys[s].at \in {"good", "bad"} /\ sys'[s].at \in {"idle", "next"}
     /\ \A t \in Systems \ {s} :
          /\ sys'[t].ecm = sys[t].ecm /\ sys'[t].cc = sys[t].cc /\ sys'[t].id = sys[t].id
          /\ sys'[t].num = sys[t].num /\ sys'[t].cw = sys[t].cw
          /\ \/ sys'[t].at = sys[t].at
             \/ sys[t].at \in {"sleep", "sleep_room"} /\ sys'[t].at \in {"get", "room"}
          /\ cache[c].entry[i].wait /\ sys[t].cc = c => sys'[t].at \notin {"sleep", "sleep_room"}
     /\ \A d \in Clients, j \in Slots :
          d # c \/ j # i => cache'[d].entry[j] = cache[d].entry[j]
     /\ ~cache'[c].entry[i].queued /\ ~cache'[c].entry[i].wait
     /\ cache'[c].entry[i].mode = Good /\ Trusted(c) =>
          cache'[c].entry[i].store = cache'[c].entry[i].hash
     /\ con' = con /\ sent' = sent

LEMMA ReportInv ==
  ASSUME IInv, TypeOK', HasClient', NEW s \in Systems, Reports(s)
  PROVE  IInv'
<1> DEFINE c == sys[s].cc
           i == sys[s].id
<1>1. /\ sys[s].at \in {"good", "bad"} /\ sys'[s].at \in {"idle", "next"}
      /\ InHand(s) /\ ~InHand(s)' /\ c \in Clients /\ i \in Slots
  BY DEF Reports, InHand, IInv, HasClient, Busy, TypeOK, System
<1>2. \A t \in Systems \ {s} :
        /\ sys'[t].ecm = sys[t].ecm /\ sys'[t].cc = sys[t].cc /\ sys'[t].id = sys[t].id
        /\ sys'[t].num = sys[t].num /\ sys'[t].cw = sys[t].cw
        /\ \/ sys'[t].at = sys[t].at
           \/ sys[t].at \in {"sleep", "sleep_room"} /\ sys'[t].at \in {"get", "room"}
  BY DEF Reports
<1>3. \A t \in Systems \ {s} : cache[c].entry[i].wait /\ sys[t].cc = c =>
                                 sys'[t].at \notin {"sleep", "sleep_room"}
  BY DEF Reports
<1>4. \A d \in Clients, j \in Slots :
        d # c \/ j # i => cache'[d].entry[j] = cache[d].entry[j]
  BY DEF Reports
<1>5. /\ ~cache'[c].entry[i].queued /\ ~cache'[c].entry[i].wait
      /\ cache'[c].entry[i].mode = Good /\ Trusted(c) =>
           cache'[c].entry[i].store = cache'[c].entry[i].hash
  BY DEF Reports
<1>6. \A t \in Systems : InHand(t)' => t # s /\ InHand(t)
  BY <1>1, <1>2 DEF InHand
<1>7. \A t \in Systems \ {s} : InHand(t) => InHand(t)'
  BY <1>2 DEF InHand
<1>8. \A t \in Systems \ {s} : InHand(t) =>
        cache'[sys[t].cc].entry[sys[t].id] = cache[sys[t].cc].entry[sys[t].id]
  <2>1. \A t \in Systems : InHand(t) => sys[t].cc \in Clients /\ sys[t].id \in Slots
    BY DEF IInv, InHand, HasClient, Busy, TypeOK, System
  <2>2. \A t \in Systems \ {s} : InHand(t) => sys[t].cc # c \/ sys[t].id # i
    BY <1>1 DEF IInv, Entries, EntriesOwned
  <2> QED BY <2>1, <2>2, <1>4
<1>9. EntriesOwned'
  <2> SUFFICES ASSUME NEW t \in Systems, InHand(t)'
               PROVE  LET own == cache'[sys'[t].cc].entry[sys'[t].id]
                      IN /\ own.queued /\ own.hash = sys'[t].ecm
                         /\ \A u \in Systems \ {t} :
                              InHand(u)' /\ sys'[u].cc = sys'[t].cc => sys'[u].id # sys'[t].id
    BY DEF EntriesOwned
  <2>1. t # s /\ InHand(t)
    BY <1>6
  <2>2. sys'[t].ecm = sys[t].ecm /\ sys'[t].cc = sys[t].cc /\ sys'[t].id = sys[t].id
    BY <2>1, <1>2
  <2>3. LET own == cache[sys[t].cc].entry[sys[t].id] IN own.queued /\ own.hash = sys[t].ecm
    BY <2>1 DEF IInv, Entries, EntriesOwned
  <2>4. cache'[sys[t].cc].entry[sys[t].id] = cache[sys[t].cc].entry[sys[t].id]
    BY <2>1, <1>8
  <2>5. ASSUME NEW u \in Systems \ {t}, InHand(u)', sys'[u].cc = sys[t].cc
        PROVE  sys'[u].id # sys[t].id
    <3>1. InHand(u) /\ sys'[u].cc = sys[u].cc /\ sys'[u].id = sys[u].id
      BY <2>5, <1>2, <1>6
    <3> QED BY <2>1, <2>5, <3>1 DEF IInv, Entries, EntriesOwned
  <2> QED BY <2>2, <2>3, <2>4, <2>5
<1>10. NotFailed'
  <2> SUFFICES ASSUME NEW t \in Systems, InHand(t)'
               PROVE  cache'[sys'[t].cc].entry[sys'[t].id].mode # FailN
    BY DEF NotFailed
  <2>1. t # s /\ InHand(t) /\ sys'[t].cc = sys[t].cc /\ sys'[t].id = sys[t].id
    BY <1>2, <1>6
  <2> QED BY <2>1, <1>8 DEF IInv, Entries, NotFailed
<1>11. WorkHasOwner'
  <2> SUFFICES ASSUME NEW d \in Clients, NEW j \in Slots, cache'[d].entry[j].queued
               PROVE  \E t \in Systems : InHand(t)' /\ sys'[t].cc = d /\ sys'[t].id = j
    BY DEF WorkHasOwner
  <2>1. d # c \/ j # i
    BY <1>5
  <2>2. cache[d].entry[j].queued
    BY <2>1, <1>4
  <2>3. PICK t \in Systems : InHand(t) /\ sys[t].cc = d /\ sys[t].id = j
    BY <2>2 DEF IInv, Entries, WorkHasOwner
  <2> QED BY <2>1, <2>3, <1>2, <1>7
<1>12. SleepersAreWoken'
  <2> SUFFICES ASSUME NEW t \in Systems, sys'[t].at \in {"sleep", "sleep_room"}
               PROVE  \E u \in Systems : /\ InHand(u)' /\ sys'[u].cc = sys'[t].cc
                                         /\ cache'[sys'[t].cc].entry[sys'[u].id].wait
    BY DEF SleepersAreWoken, Wakes
  <2>1. t # s /\ sys[t].at \in {"sleep", "sleep_room"} /\ sys'[t].cc = sys[t].cc
    BY <1>1, <1>2
  <2>2. PICK u \in Systems : /\ InHand(u) /\ sys[u].cc = sys[t].cc
                             /\ cache[sys[t].cc].entry[sys[u].id].wait
    BY <2>1 DEF IInv, Entries, SleepersAreWoken, Wakes
  <2>3. u # s
    BY <2>1, <2>2, <1>3
  <2>4. InHand(u)' /\ sys'[u].cc = sys[u].cc /\ sys'[u].id = sys[u].id
    BY <2>2, <2>3, <1>2, <1>7
  <2>5. cache'[sys[u].cc].entry[sys[u].id].wait
    BY <2>2, <2>3, <1>8
  <2> QED BY <2>1, <2>2, <2>4, <2>5
<1>13. Exclusive' /\ RequestsKnown'
  <2>1. \A t \in Systems : sys'[t].at = "answer" <=> sys[t].at = "answer"
    BY <1>1, <1>2
  <2>2. \A t \in Systems : sys[t].at = "answer" =>
          sys'[t].cc = sys[t].cc /\ sys'[t].num = sys[t].num /\ sys'[t].ecm = sys[t].ecm
    BY <1>1, <1>2
  <2>3. con' = con /\ sent' = sent
    BY DEF Reports
  <2>4. Exclusive'
    BY <2>1, <2>2, <2>3 DEF IInv, Exclusive
  <2>5. RequestsKnown'
    <3>1. ASSUME NEW t \in Systems, sys'[t].at = "answer", Trusted(sys'[t].cc),
                 NEW m \in sent'[sys'[t].cc]
          PROVE  IF Numbered(sys'[t].cc) THEN m.num = sys'[t].num => m.ecm = sys'[t].ecm
                 ELSE m = [num |-> sys'[t].num, ecm |-> sys'[t].ecm]
      BY <3>1, <2>1, <2>2, <2>3 DEF IInv, RequestsKnown
    <3> QED BY <3>1, <2>3 DEF IInv, RequestsKnown, Trusted
  <2> QED BY <2>4, <2>5
<1>14. OwnAnswer'
  <2>1. ASSUME NEW t \in Systems, sys'[t].at = "good", Trusted(sys'[t].cc)
        PROVE  sys'[t].cw = sys'[t].ecm
    BY <2>1, <1>1, <1>2 DEF IInv, OwnAnswer
  <2>2. ASSUME NEW d \in Clients, NEW j \in Slots, Trusted(d), cache'[d].entry[j].mode = Good
        PROVE  cache'[d].entry[j].store = cache'[d].entry[j].hash
    <3>1. CASE d = c /\ j = i
      BY <2>2, <3>1, <1>5
    <3>2. CASE d # c \/ j # i
      BY <2>2, <3>2, <1>4 DEF IInv, OwnAnswer
    <3> QED BY <3>1, <3>2
  <2> QED BY <2>1, <2>2 DEF OwnAnswer, Trusted
<1> QED BY <1>9, <1>10, <1>11, <1>12, <1>13, <1>14 DEF IInv, Entries

LEMMA DoneInv ==
  ASSUME IInv, NEW s \in Systems, CacheGood(s) \/ CacheBad(s)
  PROVE  IInv'
<1> DEFINE c == sys[s].cc
           i == sys[s].id
           M == Ecms \cup {NoMsg}
<1>1. PICK good \in BOOLEAN : Done(s, good) /\ sys[s].at = IF good THEN "good" ELSE "bad"
  BY DEF CacheGood, CacheBad
<1>2. /\ c \in Clients /\ i \in Slots /\ sys[s] \in System /\ InHand(s) /\ sys[s].ecm \in Ecms
      /\ cache[c] \in Cache(M)
  BY <1>1 DEF IInv, HasClient, Busy, TypeOK, System, InHand
<1>3. /\ cache[c].entry[i].mode # FailN /\ cache[c].entry[i].hash = sys[s].ecm
  BY <1>2 DEF IInv, Entries, EntriesOwned, NotFailed
<1> DEFINE k == Cached(cache[c], i, good, sys[s].cw, MaxFail)
           after(t) ==
             IF t = s
             THEN IF good THEN Returned(sys[t], c)
                  ELSE [IdleSystem EXCEPT !.at = "next", !.ecm = sys[t].ecm, !.caid = sys[t].caid,
                                     !.cc = c, !.start = sys[t].start,
                                     !.tried = sys[t].tried \cup {c}]
             ELSE IF cache[c].entry[i].wait /\ sys[t].cc = c /\ sys[t].at = "sleep"
             THEN [sys[t] EXCEPT !.at = "get"]
             ELSE IF cache[c].entry[i].wait /\ sys[t].cc = c /\ sys[t].at = "sleep_room"
             THEN [sys[t] EXCEPT !.at = "room"]
             ELSE sys[t]
<1>4. /\ k \in Cache(M) /\ \A j \in Slots \ {i} : k.entry[j] = cache[c].entry[j]
      /\ ~k.entry[i].queued /\ ~k.entry[i].wait /\ k.entry[i].hash = sys[s].ecm
      /\ IF good THEN k.entry[i].store = sys[s].cw ELSE k.entry[i].mode # Good
  <2> DEFINE before == cache[c]
             w == sys[s].cw
  <2>1. w \in M /\ NoMsg \in M
    BY <1>2 DEF System
  <2>2. before \in Cache(M) /\ before.entry[i].mode # FailN /\ i \in Slots
    BY <1>2, <1>3
  <2> HIDE DEF M, before, w
  <2>3. LET d == Cached(before, i, good, w, MaxFail) IN
        /\ d \in Cache(M) /\ \A j \in Slots \ {i} : d.entry[j] = before.entry[j]
        /\ ~d.entry[i].queued /\ ~d.entry[i].wait /\ d.entry[i].hash = before.entry[i].hash
        /\ IF good THEN d.entry[i].store = w ELSE d.entry[i].mode # Good
    BY <2>1, <2>2, CachedEntry
  <2> QED BY <2>3, <1>3 DEF before, w
<1>5. /\ cache' = [cache EXCEPT ![c] = k] /\ sys' = [t \in Systems |-> after(t)]
      /\ con' = con /\ sent' = sent
  BY <1>1 DEF Done, Wakes
<1> HIDE DEF k
<1>6. /\ cache' \in [Clients -> Cache(M)] /\ cache'[c] = k
      /\ \A d \in Clients \ {c} : cache'[d] = cache[d]
  BY <1>2, <1>4, <1>5 DEF IInv, TypeOK
<1>7. /\ after(s) \in System /\ after(s).at \in {"idle", "next"}
      /\ after(s).at = "next" => after(s).ecm = sys[s].ecm
  <2>1. Returned(sys[s], c) \in System /\ Returned(sys[s], c).at = "idle"
    BY <1>2, IdleIsSystem DEF Returned, System, IdleSystem
  <2> DEFINE n == [IdleSystem EXCEPT !.at = "next", !.ecm = sys[s].ecm, !.caid = sys[s].caid,
                                     !.cc = c, !.start = sys[s].start,
                                     !.tried = sys[s].tried \cup {c}]
  <2>2. n \in System /\ n.at = "next" /\ n.ecm = sys[s].ecm
    BY <1>2, IdleIsSystem DEF System, IdleSystem
  <2> QED BY <2>1, <2>2
<1>8. ASSUME NEW t \in Systems \ {s}
      PROVE  /\ after(t) \in System
             /\ after(t).ecm = sys[t].ecm /\ after(t).cc = sys[t].cc /\ after(t).id = sys[t].id
             /\ after(t).num = sys[t].num /\ after(t).cw = sys[t].cw
             /\ \/ after(t).at = sys[t].at
                \/ sys[t].at \in {"sleep", "sleep_room"} /\ after(t).at \in {"get", "room"}
             /\ cache[c].entry[i].wait /\ sys[t].cc = c => after(t).at \notin {"sleep", "sleep_room"}
  <2>1. sys[t] \in System
    BY DEF IInv, TypeOK
  <2>2. CASE cache[c].entry[i].wait /\ sys[t].cc = c /\ sys[t].at = "sleep"
    <3>1. after(t) = [sys[t] EXCEPT !.at = "get"]
      BY <2>2
    <3> HIDE DEF after
    <3> QED BY <2>1, <2>2, <3>1 DEF System
  <2>3. CASE cache[c].entry[i].wait /\ sys[t].cc = c /\ sys[t].at = "sleep_room"
    <3>1. after(t) = [sys[t] EXCEPT !.at = "room"]
      BY <2>3
    <3> HIDE DEF after
    <3> QED BY <2>1, <2>3, <3>1 DEF System
  <2>4. CASE ~(cache[c].entry[i].wait /\ sys[t].cc = c /\ sys[t].at \in {"sleep", "sleep_room"})
    <3>1. after(t) = sys[t]
      BY <2>4
    <3> HIDE DEF after
    <3> QED BY <2>1, <2>4, <3>1
  <2> QED BY <2>2, <2>3, <2>4
<1> HIDE DEF after
<1>9. /\ sys' \in [Systems -> System] /\ \A t \in Systems : sys'[t] = after(t)
  BY <1>5, <1>7, <1>8
<1>10. TypeOK'
  BY <1>5, <1>6, <1>9 DEF IInv, TypeOK
<1>11. HasClient'
  BY <1>2, <1>7, <1>8, <1>9 DEF IInv, HasClient, Busy
<1>12. Reports(s)
  <2>1. sys[s].at \in {"good", "bad"} /\ sys'[s].at \in {"idle", "next"}
    BY <1>1, <1>7, <1>9
  <2>2. \A t \in Systems \ {s} :
          /\ sys'[t].ecm = sys[t].ecm /\ sys'[t].cc = sys[t].cc /\ sys'[t].id = sys[t].id
          /\ sys'[t].num = sys[t].num /\ sys'[t].cw = sys[t].cw
          /\ \/ sys'[t].at = sys[t].at
             \/ sys[t].at \in {"sleep", "sleep_room"} /\ sys'[t].at \in {"get", "room"}
          /\ cache[c].entry[i].wait /\ sys[t].cc = c => sys'[t].at \notin {"sleep", "sleep_room"}
    BY <1>8, <1>9
  <2>3. \A d \in Clients, j \in Slots :
          d # c \/ j # i => cache'[d].entry[j] = cache[d].entry[j]
    BY <1>4, <1>6
  <2>4. cache'[c].entry[i].mode = Good /\ Trusted(c) =>
          cache'[c].entry[i].store = cache'[c].entry[i].hash
    BY <1>1, <1>4, <1>6 DEF IInv, OwnAnswer
  <2> QED BY <2>1, <2>2, <2>3, <2>4, <1>4, <1>5, <1>6 DEF Reports
<1> QED BY <1>10, <1>11, <1>12, ReportInv

-----------------------------------------------------------------------------
(* The theorems                                                            *)

LEMMA InitInv == Init => IInv
<1> SUFFICES ASSUME Init PROVE IInv
  OBVIOUS
<1>1. \A s \in Systems : sys[s] = IdleSystem
  BY DEF Init
<1>2. \A s \in Systems : sys[s].at = "idle"
  BY <1>1 DEF IdleSystem
<1>3. \A c \in Clients : sent[c] = {} /\ cache[c] = Cleared
  BY DEF Init
<1>4. \A c \in Clients, i \in Slots :
        cache[c].entry[i].queued = FALSE /\ cache[c].entry[i].mode = Free
  BY <1>3 DEF Cleared, EmptyEntry
<1>5. TypeOK
  <2>1. sys \in [Systems -> System]
    BY IdleIsSystem DEF Init
  <2>2. ASSUME NEW c \in Clients PROVE StartConnection(c) \subseteq Connection
    <3>1. \A a \in Announced[c] \cup {{}} : a \in SUBSET CaIds
      BY DEF CaIds
    <3>2. (c \notin ServerDown /\ Kind[c] # "Buffy") \in BOOLEAN
      OBVIOUS
    <3>3. \A a \in SUBSET CaIds, in \in BOOLEAN, old \in BOOLEAN :
            [up |-> in, auth |-> in, loginOK |-> in, old |-> old, busy |-> FALSE, num |-> 0,
             caids |-> a] \in Connection
      BY DEF Connection
    <3> QED BY <3>1, <3>2, <3>3 DEF StartConnection
  <2>3. con \in [Clients -> Connection]
    <3>1. /\ con \in [Clients -> UNION {StartConnection(c) : c \in Clients}]
          /\ \A c \in Clients : con[c] \in StartConnection(c)
      BY DEF Init
    <3> QED BY <2>2, <3>1
  <2>4. Cleared \in Cache(Ecms \cup {NoMsg})
    BY NumCacheAssumption DEF Cleared, Cache, Entry, EmptyEntry, Slots, Free, Good
  <2>5. cache \in [Clients -> Cache(Ecms \cup {NoMsg})]
    BY <2>4 DEF Init
  <2>6. sent \in [Clients -> SUBSET Request]
    BY DEF Init
  <2> QED BY <2>1, <2>3, <2>5, <2>6 DEF TypeOK
<1>6. HasClient /\ Exclusive
  BY <1>2 DEF HasClient, Busy, Exclusive
<1>7. Entries
  BY <1>2, <1>4
  DEF Entries, EntriesOwned, NotFailed, WorkHasOwner, SleepersAreWoken, InHand
<1>8. RequestsKnown
  BY <1>2, <1>3 DEF RequestsKnown
<1>9. OwnAnswer
  BY <1>2, <1>4 DEF OwnAnswer, Free, Good
<1> QED BY <1>5, <1>6, <1>7, <1>8, <1>9 DEF IInv

LEMMA StutterInv ==
  ASSUME IInv, UNCHANGED vars
  PROVE  IInv'
<1> USE DEF vars, IInv
<1>1. TypeOK' /\ HasClient'
  BY DEF TypeOK, HasClient
<1>2. EntriesOwned' /\ NotFailed' /\ WorkHasOwner'
  BY DEF Entries, EntriesOwned, NotFailed, WorkHasOwner, InHand
<1>3. SleepersAreWoken'
  BY DEF Entries, SleepersAreWoken, InHand
<1>4. Exclusive' /\ RequestsKnown' /\ OwnAnswer'
  BY DEF Exclusive, RequestsKnown, OwnAnswer, Trusted
<1> QED BY <1>1, <1>2, <1>3, <1>4 DEF Entries

LEMMA NextInv == IInv /\ [Next]_vars => IInv'
<1> SUFFICES ASSUME IInv, [Next]_vars PROVE IInv'
  OBVIOUS
<1>1. ASSUME NEW s \in Systems, NEW e \in Ecms, Begin(s, e) PROVE IInv'
  BY <1>1, BeginInv
<1>2. ASSUME NEW s \in Systems, Work(s) PROVE IInv'
  BY <1>2, Next1Inv, GetSleepInv, GetNewInv, GetKnownInv, AskInv, AskFailsInv, GiveUpInv,
     DoneInv DEF Work
<1>3. ASSUME NEW s \in Systems, NEW m \in UNION {sent[c] : c \in Clients},
             NEW decoded \in BOOLEAN, Receive(s, m, decoded)
      PROVE  IInv'
  BY <1>3, ReceiveInv
<1>4. CASE UNCHANGED vars
  BY <1>4, StutterInv
<1> QED BY <1>1, <1>2, <1>3, <1>4 DEF Next

THEOREM Invariant == Spec => []IInv
<1> QED BY InitInv, NextInv, PTL DEF Spec

\* The variables have their types: what a thread, a connection, a cache and a
\* message under way can be, in every reachable state of every instance.
THEOREM TypeCorrect == Spec => []TypeOK
<1>1. IInv => TypeOK
  BY DEF IInv
<1> QED BY <1>1, Invariant, PTL

\* An entry in work belongs to one thread, which will report its result
\* (system.c:528-532): neither a new message nor a second thread gets it, however
\* small the cache is.
THEOREM OwnedEntries == Spec => []EntriesOwned
<1>1. IInv => EntriesOwned
  BY DEF IInv, Entries
<1> QED BY <1>1, Invariant, PTL

\* Nobody sleeps in Get without somebody who will find the flag and wake him
\* (system.c:519, 561), however many threads wait for however few entries.
THEOREM WokenSleepers == Spec => []SleepersAreWoken
<1>1. IInv => SleepersAreWoken
  BY DEF IInv, Entries
<1> QED BY <1>1, Invariant, PTL

\* A client that numbers its requests, or reconnects after a timeout, returns
\* the control word of the ECM it was given, and the cache keeps it for that
\* ECM only (camd.c:728, newcamd.c:341, system.c:545).
THEOREM RightAnswer == Spec => []OwnAnswer
<1>1. IInv => OwnAnswer
  BY DEF IInv
<1> QED BY <1>1, Invariant, PTL

-----------------------------------------------------------------------------
(* The loop over the clients, when none of them learns a new system id.    *)

LEMMA SettledHandles ==
  ASSUME Settled, KnownCaids, NEW c \in Clients, NEW id
  PROVE  CanHandle(c, id) <=> id \in Configured[c]
<1>1. con[c].caids \in {{}} \cup IF Learns(c) THEN Announced[c] ELSE {}
  BY DEF KnownCaids
<1>2. CASE ~Learns(c)
  BY <1>1, <1>2 DEF CanHandle, Learns
<1>3. CASE Kind[c] \in {"Camd33", "Newcamd"} /\ Announced[c] \subseteq SUBSET Configured[c]
  BY <1>1, <1>3 DEF CanHandle
<1>4. CASE Kind[c] = "Radegast" /\ Announced[c] \subseteq {{}, Configured[c]}
  BY <1>1, <1>4 DEF CanHandle
<1> QED BY <1>2, <1>3, <1>4 DEF Settled

\* FindBySysId returns the first client after c that handles the id.
LEMMA FirstAfter ==
  ASSUME NEW id, NEW c \in Clients \cup {NoClient}
  PROVE  LET n == FindBySysId(id, c) IN
         /\ n = NoClient \/ (n \in Clients /\ n > c /\ CanHandle(n, id))
         /\ \A k \in Clients : k > c /\ CanHandle(k, id) => n # NoClient /\ n <= k
<1> DEFINE after == {n \in Clients : n > c /\ CanHandle(n, id)}
<1>1. after \in SUBSET Nat
  BY DEF Clients
<1>2. CASE after = {}
  BY <1>2 DEF FindBySysId
<1>3. CASE after # {}
  <2> HIDE DEF after
  <2>1. \E n \in after : \A k \in after : n <= k
    <3>1. PICK n \in after : \A k \in after : <<k, n>> \notin OpToRel(<, Nat)
      BY <1>1, <1>3, NatLessThanWellFounded, WFMin, Zenon
    <3>2. \A k \in after : ~(k < n)
      BY <1>1, <3>1 DEF OpToRel
    <3> QED BY <1>1, <3>2
  <2> DEFINE n == CHOOSE n \in after : \A k \in after : n <= k
  <2>2. n \in after /\ \A k \in after : n <= k
    BY <2>1
  <2>3. FindBySysId(id, c) = n
    BY <1>3 DEF FindBySysId, after
  <2> HIDE DEF n
  <2>4. n # NoClient
    BY <1>1, <2>2 DEF after, Clients, NoClient
  <2> QED BY <2>2, <2>3, <2>4 DEF after
<1> QED BY <1>2, <1>3

\* What a login, a failed login or a message leaves of the known system ids.
LEMMA CaidsLearnt ==
  ASSUME TypeOK, Settled, KnownCaids, NEW c \in Clients,
         NEW r \in Heard(c) \cup LoggedIn(c) \cup LoginFailed(c)
  PROVE  r.caids \in {{}} \cup IF Learns(c) THEN Announced[c] ELSE {}
<1> USE DEF TypeOK, Connection
<1>1. con[c] \in Connection /\ con[c].caids \in {{}} \cup IF Learns(c) THEN Announced[c] ELSE {}
  BY DEF KnownCaids
<1>2. Kind[c] = "Camd33" => Learns(c)
  BY DEF Learns
<1>3. Kind[c] = "Buffy" => ~Settled
  BY DEF Settled, Learns
<1>4. CASE r \in Heard(c)
  BY <1>1, <1>2, <1>4 DEF Heard
<1>5. CASE r \in LoggedIn(c)
  <2> DEFINE base == [con[c] EXCEPT !.up = TRUE, !.auth = TRUE, !.loginOK = TRUE,
                                    !.old = @ \/ c \in OldServers]
  <2>1. base \in Connection /\ base.caids = con[c].caids
    BY <1>1
  <2>2. \/ r = base
        \/ Learns(c) /\ r \in {[base EXCEPT !.caids = IF Kind[c] = "Buffy" THEN @ \cup a ELSE a] :
                                a \in Announced[c]}
    BY <1>5 DEF LoggedIn
  <2> HIDE DEF base
  <2> QED BY <1>1, <1>3, <2>1, <2>2
<1>6. CASE r \in LoginFailed(c)
  BY <1>1, <1>6 DEF LoginFailed, Disconnected
<1> QED BY <1>4, <1>5, <1>6

LEMMA KnownInitially == Init => KnownCaids
<1> SUFFICES ASSUME Init, NEW c \in Clients
             PROVE  con[c].caids \in {{}} \cup IF Learns(c) THEN Announced[c] ELSE {}
  BY DEF KnownCaids
<1> DEFINE in == c \notin ServerDown /\ Kind[c] # "Buffy"
           start(a) == [up |-> in, auth |-> in, loginOK |-> in,
                        old |-> in /\ c \in OldServers, busy |-> FALSE,
                        num |-> 0, caids |-> a]
<1>1. con[c] \in StartConnection(c)
  BY DEF Init
<1>2. PICK a \in IF in /\ Learns(c) THEN Announced[c] ELSE {{}} : con[c] = start(a)
  BY <1>1 DEF StartConnection
<1>3. con[c].caids = a
  BY <1>2
<1> QED BY <1>2, <1>3

LEMMA KnownKept ==
  ASSUME IInv, Settled, KnownCaids, [Next]_vars
  PROVE  KnownCaids'
<1> DEFINE Known(c, r) == r.caids \in {{}} \cup IF Learns(c) THEN Announced[c] ELSE {}
<1>1. TypeOK /\ HasClient /\ \A c \in Clients : Known(c, con[c])
  BY DEF IInv, KnownCaids
<1>2. ASSUME NEW c \in Clients, NEW r \in Connection, Known(c, r),
             con' = [con EXCEPT ![c] = r]
      PROVE  KnownCaids'
  <2>1. \A d \in Clients : con'[d] = IF d = c THEN r ELSE con[d]
    BY <1>1, <1>2, ClientReplaced
  <2> QED BY <1>1, <1>2, <2>1 DEF KnownCaids, Learns
<1>3. ASSUME con' = con PROVE KnownCaids'
  BY <1>1, <1>3 DEF KnownCaids, Learns
<1>4. ASSUME NEW s \in Systems, sys[s].at \in Busy PROVE sys[s].cc \in Clients
  BY <1>1, <1>4 DEF HasClient
<1>5. ASSUME NEW s \in Systems, Ask(s) PROVE KnownCaids'
  <2> DEFINE c == sys[s].cc
  <2>1. c \in Clients
    BY <1>4, <1>5 DEF Ask, Busy
  <2>2. PICK r \in Heard(c) \cup LoggedIn(c) :
          con' = [con EXCEPT ![c] = [r EXCEPT !.busy = TRUE, !.num = Number(c)]]
    BY <1>5 DEF Ask
  <2>3. r \in Connection /\ Known(c, r)
    BY <1>1, <2>1, <2>2, ClientSame, CaidsLearnt
  <2>4. con[c].num \in Nat
    BY <1>1, <2>1 DEF TypeOK, Connection
  <2>5. Number(c) \in Nat
    BY <2>4 DEF Number
  <2> DEFINE q == [r EXCEPT !.busy = TRUE, !.num = Number(c)]
  <2>6. q \in Connection /\ q.caids = r.caids
    BY <2>3, <2>5 DEF Connection
  <2> HIDE DEF c, q
  <2> QED BY <1>2, <2>1, <2>2, <2>3, <2>6 DEF q
<1>6. ASSUME NEW s \in Systems, AskFails(s) PROVE KnownCaids'
  <2> DEFINE c == sys[s].cc
  <2>1. c \in Clients
    BY <1>4, <1>6 DEF AskFails, Busy
  <2>2. \/ con' = [con EXCEPT ![c] = Disconnected(con[c])]
        \/ \E r \in Heard(c) \cup LoggedIn(c) \cup LoginFailed(c) : con' = [con EXCEPT ![c] = r]
    BY <1>6 DEF AskFails
  <2>3. con[c] \in Connection /\ Known(c, con[c])
    BY <1>1, <2>1 DEF TypeOK
  <2>4. Disconnected(con[c]) \in Connection /\ Known(c, Disconnected(con[c]))
    BY <2>3 DEF Disconnected, Connection
  <2>5. \A r \in Heard(c) \cup LoggedIn(c) \cup LoginFailed(c) : r \in Connection /\ Known(c, r)
    BY <1>1, <2>1, ClientSame, CaidsLearnt
  <2> HIDE DEF c, Known
  <2> QED BY <1>2, <2>1, <2>2, <2>4, <2>5
<1>7. ASSUME NEW s \in Systems, NEW m, NEW decoded, Receive(s, m, decoded) PROVE KnownCaids'
  <2> DEFINE c == sys[s].cc
             r == [con[c] EXCEPT !.busy = FALSE]
  <2>1. c \in Clients
    BY <1>4, <1>7 DEF Receive, Busy
  <2>2. con' = con \/ con' = [con EXCEPT ![c] = r]
    BY <1>7, <2>1, <1>1 DEF Receive, TypeOK
  <2>3. r \in Connection /\ Known(c, r)
    BY <1>1, <2>1 DEF TypeOK, Connection
  <2> HIDE DEF c, r, Known
  <2> QED BY <1>2, <1>3, <2>1, <2>2, <2>3
<1>8. ASSUME NEW s \in Systems, GiveUp(s) PROVE KnownCaids'
  <2> DEFINE c == sys[s].cc
             r == [con[c] EXCEPT !.busy = FALSE]
  <2>1. c \in Clients
    BY <1>4, <1>8 DEF GiveUp, Busy
  <2>2. con' = [con EXCEPT ![c] = r] \/ con' = [con EXCEPT ![c] = Disconnected(r)]
    BY <1>8, <2>1, <1>1 DEF GiveUp, TypeOK
  <2>3. r \in Connection /\ Known(c, r)
    BY <1>1, <2>1 DEF TypeOK, Connection
  <2>4. Disconnected(r) \in Connection /\ Known(c, Disconnected(r))
    BY <2>3 DEF Disconnected, Connection
  <2> HIDE DEF c, r, Known
  <2> QED BY <1>2, <2>1, <2>2, <2>3, <2>4
<1> HIDE DEF Known
<1>9. ASSUME NEW s \in Systems, Work(s) PROVE KnownCaids'
  BY <1>3, <1>5, <1>6, <1>8, <1>9
  DEF Work, Next1, GetSame, GetRoom, GetNew, GetKnown, CacheGood, CacheBad, Done
<1> QED BY <1>3, <1>7, <1>9 DEF Next, Begin, vars

\* What a step makes of the place of a system in the loop.
Passes(r, n) ==
  \/ n = r
  \/ /\ r.at \in Busy /\ n.at \in Busy
     /\ n.ecm = r.ecm /\ n.caid = r.caid /\ n.cc = r.cc /\ n.start = r.start /\ n.tried = r.tried
  \/ /\ r.at \in Busy /\ n.at = "next"
     /\ n.ecm = r.ecm /\ n.caid = r.caid /\ n.cc = r.cc /\ n.start = r.start
     /\ n.tried = r.tried \cup {r.cc}
  \/ r.at \in Busy /\ n = Returned(r, r.cc)
  \/ /\ r.at = "idle"
     /\ \E e \in Ecms : \E c \in {NoClient} \cup IF r.caid = Caid[e] THEN {r.cc} ELSE {} :
          n = [IdleSystem EXCEPT !.at = IF c = NoClient THEN "next" ELSE "get", !.ecm = e,
                                 !.caid = Caid[e], !.cc = c, !.start = c]
  \/ /\ r.at = "next"
     /\ LET new == FindBySysId(Caid[r.ecm], r.cc)
        IN n = IF new \in {r.start, r.cc} THEN Returned(r, new)
               ELSE [r EXCEPT !.cc = new, !.at = IF new = NoClient THEN "next" ELSE "get"]

LEMMA OnePasses ==
  ASSUME IInv, [Next]_vars, NEW t \in Systems
  PROVE  Passes(sys[t], sys'[t])
<1> DEFINE Goes(n) == Passes(sys[t], n)
<1>1. sys \in [Systems -> System]
  BY DEF IInv, TypeOK
<1>2. Goes(sys[t])
  BY DEF Passes
<1>3. ASSUME NEW s \in Systems, NEW n, sys' = [sys EXCEPT ![s] = n], s = t => Goes(n)
      PROVE  Goes(sys'[t])
  BY <1>1, <1>2, <1>3
<1>4. ASSUME NEW l \in Busy, sys[t].at \in Busy
      PROVE  Goes([sys[t] EXCEPT !.at = l])
  BY <1>1, <1>4 DEF Passes, System, Busy
<1>5. ASSUME NEW s \in Systems, NEW e \in Ecms, Begin(s, e) PROVE Goes(sys'[t])
  BY <1>3, <1>5 DEF Begin, Passes
<1>6. ASSUME NEW s \in Systems, Next1(s) PROVE Goes(sys'[t])
  <2> DEFINE new == FindBySysId(Caid[sys[s].ecm], sys[s].cc)
             n == IF new \in {sys[s].start, sys[s].cc} THEN Returned(sys[s], new)
                  ELSE [sys[s] EXCEPT !.cc = new, !.at = IF new = NoClient THEN "next" ELSE "get"]
  <2>1. sys[s].at = "next" /\ sys' = [sys EXCEPT ![s] = n]
    BY <1>1, <1>6 DEF Next1
  <2>2. s = t => Goes(n)
    BY <2>1 DEF Passes
  <2> HIDE DEF n
  <2> QED BY <1>3, <2>1, <2>2
<1>7. ASSUME NEW s \in Systems,
             GetSame(s) \/ GetRoom(s) \/ GetNew(s) \/ Ask(s) \/ AskFails(s) \/ GiveUp(s)
      PROVE  Goes(sys'[t])
  <2> DEFINE Stays(n) == /\ n.at \in Busy /\ n.ecm = sys[s].ecm /\ n.caid = sys[s].caid
                         /\ n.cc = sys[s].cc /\ n.start = sys[s].start /\ n.tried = sys[s].tried
             r == sys[s]
  <2>1. sys[s].at \in Busy
    BY <1>7 DEF GetSame, GetRoom, GetNew, Ask, AskFails, GiveUp, Busy
  <2>2. r \in System
    BY <1>1
  <2>3. \A l \in Busy : Stays([r EXCEPT !.at = l])
    BY <2>2 DEF System
  <2>4. \A l \in Busy : \A k :
          Stays([r EXCEPT !.at = l, !.id = k]) /\ Stays([r EXCEPT !.at = l, !.num = k])
    BY <2>2 DEF System
  <2>5. ASSUME NEW n, sys' = [sys EXCEPT ![s] = n], Stays(n) PROVE Goes(sys'[t])
    BY <1>3, <2>1, <2>5 DEF Passes
  <2>6. ASSUME NEW l \in Busy, sys' = [sys EXCEPT ![s].at = l] PROVE Goes(sys'[t])
    <3>1. sys' = [sys EXCEPT ![s] = [r EXCEPT !.at = l]]
      BY <1>1, <2>6
    <3> QED BY <2>3, <2>5, <3>1
  <2>7. ASSUME NEW l \in Busy, NEW k, sys' = [sys EXCEPT ![s].at = l, ![s].id = k]
        PROVE  Goes(sys'[t])
    <3>1. sys' = [sys EXCEPT ![s] = [r EXCEPT !.at = l, !.id = k]]
      BY <1>1, <2>7
    <3> QED BY <2>4, <2>5, <3>1
  <2>8. ASSUME NEW l \in Busy, NEW k, sys' = [sys EXCEPT ![s].at = l, ![s].num = k]
        PROVE  Goes(sys'[t])
    <3>1. sys' = [sys EXCEPT ![s] = [r EXCEPT !.at = l, !.num = k]]
      BY <1>1, <2>8
    <3> QED BY <2>4, <2>5, <3>1
  <2> HIDE DEF Stays
  <2>9. CASE GetSame(s) \/ GetRoom(s)
    BY <2>6, <2>9 DEF GetSame, GetRoom, Busy
  <2>10. CASE GetNew(s)
    BY <2>7, <2>10 DEF GetNew, Busy
  <2>11. CASE Ask(s) \/ AskFails(s) \/ GiveUp(s)
    BY <2>8, <2>11 DEF Ask, AskFails, GiveUp, Busy
  <2> QED BY <1>7, <2>9, <2>10, <2>11
<1>8. ASSUME NEW s \in Systems, GetKnown(s) PROVE Goes(sys'[t])
  <2> DEFINE r == sys[s]
  <2>1. r \in System /\ r.at = "get"
    BY <1>1, <1>8 DEF GetKnown
  <2>2. \/ sys' = [sys EXCEPT ![s] = Returned(r, r.cc)]
        \/ \E i : sys' = [sys EXCEPT ![s] = [r EXCEPT !.at = "ask", !.id = i]]
        \/ sys' = [sys EXCEPT ![s] = [r EXCEPT !.at = "next", !.tried = r.tried \cup {r.cc}]]
    BY <1>1, <1>8 DEF GetKnown
  <2>3. s = t => Goes(Returned(r, r.cc))
    BY <2>1 DEF Passes, Busy
  <2>4. s = t => \A i : Goes([r EXCEPT !.at = "ask", !.id = i])
    BY <2>1 DEF Passes, Busy, System
  <2>5. s = t => Goes([r EXCEPT !.at = "next", !.tried = r.tried \cup {r.cc}])
    BY <2>1 DEF Passes, Busy, System
  <2> HIDE DEF Goes, r
  <2>6. CASE sys' = [sys EXCEPT ![s] = Returned(r, r.cc)]
    BY <1>3, <2>3, <2>6
  <2>7. ASSUME NEW i, sys' = [sys EXCEPT ![s] = [r EXCEPT !.at = "ask", !.id = i]]
        PROVE  Goes(sys'[t])
    BY <1>3, <2>4, <2>7
  <2>8. CASE sys' = [sys EXCEPT ![s] = [r EXCEPT !.at = "next", !.tried = r.tried \cup {r.cc}]]
    BY <1>3, <2>5, <2>8
  <2> QED BY <2>2, <2>6, <2>7, <2>8
<1>9. ASSUME NEW s \in Systems, NEW m, NEW decoded, Receive(s, m, decoded) PROVE Goes(sys'[t])
  <2> DEFINE r == sys[s]
  <2>1. r \in System /\ r.at = "answer"
    BY <1>1, <1>9 DEF Receive
  <2> DEFINE w == IF decoded THEN m.ecm ELSE r.cw
             n == [r EXCEPT !.at = IF decoded THEN "good" ELSE "bad", !.cw = w]
  <2>2. sys' = sys \/ sys' = [sys EXCEPT ![s] = n]
    <3> DEFINE q == IF decoded THEN "good" ELSE "bad"
    <3>1. \/ sys' = sys
          \/ sys' = [sys EXCEPT ![s].at = q, ![s].cw = IF decoded THEN m.ecm ELSE @]
      BY <1>9 DEF Receive
    <3>2. [sys EXCEPT ![s].at = q, ![s].cw = IF decoded THEN m.ecm ELSE @] = [sys EXCEPT ![s] = n]
      <4> HIDE DEF q
      <4>1. [sys EXCEPT ![s].at = q][s] = [r EXCEPT !.at = q]
        BY <1>1
      <4>2. [r EXCEPT !.at = q].cw = r.cw
        BY <2>1 DEF System
      <4>3. n = [r EXCEPT !.at = q, !.cw = w]
        BY DEF q
      <4> QED BY <1>1, <4>1, <4>2, <4>3
    <3> QED BY <3>1, <3>2
  <2>3. s = t => Goes(n)
    <3> HIDE DEF w
    <3> QED BY <2>1 DEF Passes, Busy, System
  <2> HIDE DEF n
  <2> QED BY <1>2, <1>3, <2>2, <2>3
<1>10. ASSUME NEW s \in Systems, NEW good \in BOOLEAN, sys[s].at \in {"good", "bad"}, Done(s, good)
       PROVE  Goes(sys'[t])
  BY <1>1, <1>2, <1>4, <1>10, IdleIsSystem DEF Done, Passes, System, Busy
<1> HIDE DEF Goes
<1>11. ASSUME NEW s \in Systems, Work(s) PROVE Goes(sys'[t])
  BY <1>6, <1>7, <1>8, <1>10, <1>11 DEF Work, CacheGood, CacheBad
<1> QED BY <1>2, <1>5, <1>9, <1>11 DEF Next, vars, Goes

\* The loop goes on to the next client that handles the ECM, and ends only when
\* it has come to all of them.
LEMMA TurnNext ==
  ASSUME Settled, KnownCaids, NEW r \in System, r.at = "next", r.ecm \in Ecms, Turn(r),
         NEW new, new = FindBySysId(Caid[r.ecm], r.cc)
  PROVE  IF new \in {r.start, r.cc}
         THEN /\ Turn(Returned(r, new))
              /\ HandlersOf(r) \subseteq r.tried
         ELSE Turn([r EXCEPT !.cc = new, !.at = IF new = NoClient THEN "next" ELSE "get"])
<1> DEFINE H == HandlersOf(r)
<1>1. /\ r.cc \in Clients \cup {NoClient} /\ r.start \in Clients \cup {NoClient}
      /\ r.caid = Caid[r.ecm] /\ r.start \in H \cup {NoClient} /\ r.cc \in H \cup {NoClient}
      /\ r.tried = Before(r) \cup ({r.cc} \ {NoClient})
  BY DEF System, Turn
<1>2. /\ H \subseteq Clients /\ Clients \subseteq Nat /\ \A c \in Clients : c > NoClient
      /\ NoClient = 0
  BY DEF HandlersOf, Clients, NoClient
<1>3. \A c \in Clients : c \in H <=> CanHandle(c, Caid[r.ecm])
  BY SettledHandles DEF HandlersOf
<1>4. /\ new = NoClient \/ (new \in H /\ new > r.cc)
      /\ \A k \in H : k > r.cc => new # NoClient /\ new <= k
  BY <1>1, <1>2, <1>3, FirstAfter
<1>5. \A c \in H : c \in r.tried <=> \/ c = r.cc
                                     \/ IF r.start <= r.cc THEN r.start <= c /\ c < r.cc
                                        ELSE r.start <= c \/ c < r.cc
  BY <1>1, <1>2 DEF Before
<1>10. /\ r.tried \subseteq H /\ r.start \in Nat /\ r.cc \in Nat /\ new \in Nat
      /\ \A c \in H : c \in Nat /\ c > 0
  <2>1. Before(r) \subseteq H
    BY DEF Before
  <2> HIDE DEF H
  <2>2. \A c \in H : c \in Nat /\ c > 0
    BY <1>2
  <2>3. r.tried \subseteq H
    BY <1>1, <2>1
  <2>4. \A k \in Clients \cup {NoClient} : k \in Nat
    BY <1>2
  <2>5. new \in Nat
    <3>1. new = NoClient \/ new \in H
      BY <1>4
    <3>2. NoClient \in Nat /\ \A c \in H : c \in Nat
      BY <1>2, <2>2
    <3> QED BY <3>1, <3>2
  <2> QED BY <1>1, <2>2, <2>3, <2>4, <2>5
<1> HIDE DEF H
<1>6. ASSUME new \in {r.start, r.cc} PROVE H \subseteq r.tried
  <2> SUFFICES ASSUME NEW c \in H PROVE c \in r.tried
    OBVIOUS
  <2>1. CASE new = NoClient
    <3>1. r.start = NoClient \/ r.cc = NoClient
      BY <1>6, <2>1
    <3>2. ~(c > r.cc)
      BY <1>4, <2>1
    <3>3. r.cc # NoClient
      BY <1>2, <1>10, <3>2
    <3>4. r.start = 0 /\ c <= r.cc
      BY <1>2, <1>10, <3>1, <3>2, <3>3
    <3> QED BY <1>5, <1>10, <3>4
  <2>2. CASE new # NoClient
    <3>1. new = r.start /\ r.start > r.cc
      BY <1>4, <1>6, <1>10, <2>2
    <3>2. c > r.cc => r.start <= c
      BY <1>4, <3>1
    <3> QED BY <1>5, <1>10, <3>1, <3>2
  <2> QED BY <2>1, <2>2
<1>7. ASSUME new \in {r.start, r.cc} PROVE Turn(Returned(r, new))
  <2>1. new \in H \cup {NoClient}
    BY <1>1, <1>4
  <2>2. new # NoClient => r.caid \in Configured[new]
    BY <1>1, <2>1 DEF HandlersOf, H
  <2>3. /\ Returned(r, new).at = "idle" /\ Returned(r, new).cc = new
        /\ new # NoClient => Returned(r, new).caid = r.caid
    BY DEF Returned, IdleSystem
  <2> QED BY <2>2, <2>3 DEF Turn, Busy
<1>8. ASSUME new \notin {r.start, r.cc}
      PROVE  Turn([r EXCEPT !.cc = new, !.at = IF new = NoClient THEN "next" ELSE "get"])
  <2> DEFINE n == [r EXCEPT !.cc = new, !.at = IF new = NoClient THEN "next" ELSE "get"]
  <2>1. /\ n.at = (IF new = NoClient THEN "next" ELSE "get") /\ n.cc = new /\ n.start = r.start
        /\ n.ecm = r.ecm /\ n.caid = r.caid /\ n.tried = r.tried
    BY DEF System
  <2>2. HandlersOf(n) = H
    BY <2>1 DEF HandlersOf, H
  <2>3. Before(n) = {c \in H : IF r.start <= new THEN r.start <= c /\ c < new
                               ELSE r.start <= c \/ c < new}
    BY <2>1, <2>2 DEF Before
  <2> HIDE DEF n
  <2>4. r.tried = Before(n)
    <3>1. CASE new = NoClient
      <4>1. r.cc \in H /\ r.start \in H /\ \A c \in H : ~(c > r.cc)
        BY <1>1, <1>4, <1>8, <3>1
      <4>2. new = 0 /\ r.start > 0 /\ \A c \in H : c <= r.cc
        BY <1>2, <1>10, <3>1, <4>1
      <4> QED BY <1>5, <1>10, <2>3, <4>1, <4>2
    <3>2. CASE new # NoClient
      <4>1. new \in H /\ new > r.cc /\ \A c \in H : c > r.cc => new <= c
        BY <1>4, <3>2
      <4>2. r.start > r.cc => new < r.start
        BY <1>1, <1>2, <1>8, <1>10, <4>1
      <4>3. ASSUME NEW c \in H
            PROVE  c \in r.tried <=> IF r.start <= new THEN r.start <= c /\ c < new
                                     ELSE r.start <= c \/ c < new
        <5>1. c \in Nat /\ (c < new <=> c <= r.cc)
          BY <1>10, <4>1
        <5>2. r.start <= new <=> r.start <= r.cc
          BY <1>10, <4>1, <4>2
        <5> QED BY <1>5, <1>10, <5>1, <5>2
      <4> QED BY <1>10, <2>3, <4>3
    <3> QED BY <3>1, <3>2
  <2>5. new \in H \cup {NoClient}
    BY <1>4
  <2>6. n.cc \in HandlersOf(n) \cup {NoClient} /\ n.start \in HandlersOf(n) \cup {NoClient}
    BY <1>1, <2>1, <2>2, <2>5 DEF H
  <2>7. n.at = "next" => n.cc = NoClient
    BY <2>1
  <2>8. n.at \in {"next", "get"} /\ (n.at = "get" => n.cc # NoClient)
    BY <2>1
  <2>9. n.caid = Caid[n.ecm] /\ n.tried = Before(n)
    BY <1>1, <2>1, <2>4
  <2>10. n.at # "idle" /\ (n.at \in Busy => n.cc # NoClient)
    BY <2>8 DEF Busy
  <2>11. {n.start, n.cc} \subseteq HandlersOf(n) \cup {NoClient}
    BY <2>6
  <2>12. n.at = "next" => n.tried = Before(n) \cup ({n.cc} \ {NoClient})
    BY <2>7, <2>9
  <2>13. Turn(n)
    BY <2>9, <2>10, <2>11, <2>12 DEF Turn
  <2> QED BY <2>13 DEF n
<1> QED BY <1>6, <1>7, <1>8 DEF H

LEMMA TurnPasses ==
  ASSUME IInv, Settled, KnownCaids, NEW t \in Systems, Turn(sys[t]), Passes(sys[t], sys'[t])
  PROVE  Turn(sys'[t])
<1> DEFINE r == sys[t]
           n == sys'[t]
<1>1. r \in System /\ (r.at # "idle" => r.ecm \in Ecms) /\ (r.at \in Busy => r.cc \in Clients)
  BY DEF IInv, TypeOK, HasClient
<1>2. CASE /\ r.at \in Busy /\ n.at \in Busy \cup {"next"}
           /\ n.ecm = r.ecm /\ n.caid = r.caid /\ n.cc = r.cc /\ n.start = r.start
           /\ n.tried = IF n.at = "next" THEN r.tried \cup {r.cc} ELSE r.tried
  <2>1. HandlersOf(n) = HandlersOf(r) /\ Before(n) = Before(r)
    BY <1>2 DEF HandlersOf, Before
  <2>2. n.at # "idle" /\ r.at # "idle" /\ r.cc # NoClient /\ r.tried = Before(r)
    BY <1>2 DEF Turn, Busy
  <2>3. n.caid = Caid[n.ecm] /\ {n.start, n.cc} \subseteq HandlersOf(n) \cup {NoClient}
    BY <1>2, <2>1, <2>2 DEF Turn
  <2>4. n.at = "next" => n.tried = Before(n) \cup ({n.cc} \ {NoClient})
    BY <1>2, <2>1, <2>2
  <2>5. n.at \in Busy => n.cc # NoClient /\ n.tried = Before(n)
    BY <1>2, <2>1, <2>2 DEF Busy
  <2>6. Turn(n)
    <3> HIDE DEF n
    <3> QED BY <2>2, <2>3, <2>4, <2>5 DEF Turn
  <2> QED BY <2>6
<1>3. CASE r.at \in Busy /\ n = Returned(r, r.cc)
  <2>1. r.cc # NoClient /\ r.caid \in Configured[r.cc]
    BY <1>3 DEF Turn, Busy, HandlersOf
  <2>2. n.at = "idle" /\ n.cc = r.cc /\ n.caid = r.caid
    BY <1>3, <2>1 DEF Returned, IdleSystem
  <2> QED BY <2>1, <2>2 DEF Turn, Busy
<1>4. ASSUME r.at = "idle", NEW e \in Ecms,
             NEW c \in {NoClient} \cup IF r.caid = Caid[e] THEN {r.cc} ELSE {},
             n = [IdleSystem EXCEPT !.at = IF c = NoClient THEN "next" ELSE "get", !.ecm = e,
                                    !.caid = Caid[e], !.cc = c, !.start = c]
      PROVE  Turn(n)
  <2>1. /\ n.at = (IF c = NoClient THEN "next" ELSE "get") /\ n.ecm = e /\ n.caid = Caid[e]
        /\ n.cc = c /\ n.start = c /\ n.tried = {}
    BY <1>4 DEF IdleSystem
  <2>2. c \in Clients \cup {NoClient}
    BY <1>1 DEF System
  <2>3. c # NoClient => Caid[e] \in Configured[c]
    BY <1>4 DEF Turn
  <2>4. HandlersOf(n) \subseteq Clients /\ c \in HandlersOf(n) \cup {NoClient}
    BY <2>1, <2>2, <2>3 DEF HandlersOf
  <2>5. Before(n) = {}
    BY <2>1, <2>2, <2>4 DEF Before, Clients, NoClient
  <2> HIDE DEF n
  <2> QED BY <2>1, <2>4, <2>5 DEF Turn, Busy
<1>5. ASSUME r.at = "next"
      PROVE  LET new == FindBySysId(Caid[r.ecm], r.cc)
             IN n = (IF new \in {r.start, r.cc} THEN Returned(r, new)
                     ELSE [r EXCEPT !.cc = new, !.at = IF new = NoClient THEN "next" ELSE "get"])
                => Turn(n)
  <2> DEFINE new == FindBySysId(Caid[r.ecm], r.cc)
             q == [r EXCEPT !.cc = new, !.at = IF new = NoClient THEN "next" ELSE "get"]
  <2>1. IF new \in {r.start, r.cc} THEN Turn(Returned(r, new)) ELSE Turn(q)
    BY <1>1, <1>5, TurnNext
  <2>2. CASE new \in {r.start, r.cc}
    BY <2>1, <2>2
  <2>3. CASE new \notin {r.start, r.cc}
    BY <2>1, <2>3
  <2> QED BY <2>2, <2>3
<1>6. CASE r.at \in Busy /\ n.at \in Busy \cup {"next"}
  BY <1>2, <1>3, <1>6 DEF Passes, Busy, Returned, IdleSystem
<1>7. CASE n = r
  BY <1>7
<1>8. CASE r.at = "idle"
  BY <1>4, <1>7, <1>8 DEF Passes, Busy
<1>9. CASE r.at = "next"
  BY <1>5, <1>7, <1>9 DEF Passes, Busy
<1>10. CASE r.at \in Busy
  BY <1>3, <1>6, <1>7, <1>10 DEF Passes, Busy
<1> QED BY <1>1, <1>8, <1>9, <1>10 DEF System, Busy

LEMMA LoopKept == IInv /\ Settled /\ LoopInv /\ [Next]_vars => LoopInv'
BY KnownKept, OnePasses, TurnPasses DEF LoopInv

LEMMA LoopInitially == Init => LoopInv
<1> SUFFICES ASSUME Init PROVE \A s \in Systems : Turn(sys[s])
  BY KnownInitially DEF LoopInv
<1>1. \A s \in Systems : sys[s].at = "idle" /\ sys[s].cc = NoClient
  BY DEF Init, IdleSystem
<1> QED BY <1>1 DEF Turn, Busy

LEMMA LoopAlways == Settled /\ Spec => []LoopInv
<1>1. Settled => Settled'
  BY DEF Settled, Learns
<1> QED BY <1>1, LoopInitially, LoopKept, Invariant, PTL DEF Spec

\* No client is asked twice for an ECM before it is answered or given up
\* (cc.c:238), when the servers announce no system id that is not configured.
THEOREM TriedOnce == Settled /\ Spec => []TriesOnce
<1>1. LoopInv /\ IInv => TriesOnce
  <2> SUFFICES ASSUME LoopInv, IInv, NEW s \in Systems, sys[s].at = "get"
               PROVE  sys[s].cc \notin sys[s].tried
    BY DEF TriesOnce
  <2>1. sys[s].tried = Before(sys[s]) /\ sys[s].cc \in Clients
    BY DEF LoopInv, Turn, Busy, IInv, HasClient
  <2> QED BY <2>1 DEF Before, HandlersOf, Clients
<1> QED BY <1>1, LoopAlways, Invariant, PTL

\* And none that handles the ECM is passed over before it is given up: the loop
\* goes on from the beginning of the list to the client it started with
\* (cc.c:210-238), whatever the other systems do to the clients meanwhile.
THEOREM AllTried == Settled /\ Spec => TriesAll
<1> DEFINE Tries(s) == sys[s].at = "next" /\ sys'[s].at = "idle" =>
                         \A c \in Clients : CanHandle(c, Caid[sys[s].ecm]) => c \in sys[s].tried
<1>1. ASSUME Settled, IInv, LoopInv, [Next]_vars, NEW s \in Systems PROVE Tries(s)
  <2> SUFFICES ASSUME sys[s].at = "next", sys'[s].at = "idle",
                      NEW c \in Clients, CanHandle(c, Caid[sys[s].ecm])
               PROVE  c \in sys[s].tried
    OBVIOUS
  <2> DEFINE r == sys[s]
             new == FindBySysId(Caid[r.ecm], r.cc)
  <2>1. r \in System /\ r.ecm \in Ecms /\ Turn(r) /\ KnownCaids
    BY <1>1 DEF IInv, TypeOK, HasClient, LoopInv
  <2>2. sys'[s] = IF new \in {r.start, r.cc} THEN Returned(r, new)
                  ELSE [r EXCEPT !.cc = new, !.at = IF new = NoClient THEN "next" ELSE "get"]
    BY <1>1, OnePasses DEF Passes, Busy
  <2>3. new \in {r.start, r.cc}
    <3> HIDE DEF new
    <3> QED BY <2>1, <2>2 DEF System
  <2>4. HandlersOf(r) \subseteq r.tried
    BY <1>1, <2>1, <2>3, TurnNext
  <2>5. c \in HandlersOf(r)
    BY <1>1, <2>1, SettledHandles DEF HandlersOf
  <2> QED BY <2>4, <2>5
<1>2. Settled /\ IInv /\ LoopInv /\ [Next]_vars => [\A s \in Systems : Tries(s)]_vars
  BY <1>1
<1>3. TriesAll <=> [][\A s \in Systems : Tries(s)]_vars
  BY DEF TriesAll
<1>4. Settled => Settled'
  BY DEF Settled, Learns
<1> HIDE DEF Tries
<1> QED BY <1>2, <1>3, <1>4, Invariant, LoopAlways, PTL DEF Spec

-----------------------------------------------------------------------------
(***************************************************************************)
(* The CCcam client.                                                       *)
(***************************************************************************)

(* Stacks.                                                                 *)

LEMMA HeadOf ==
  ASSUME NEW S, NEW s \in Seq(S), s # <<>>
  PROVE  /\ Len(s) \in Nat \ {0} /\ Head(s) = s[1] /\ Head(s) \in S
         /\ Tail(s) \in Seq(S) /\ Len(Tail(s)) = Len(s) - 1
         /\ \A i \in 1 .. Len(s) - 1 : Tail(s)[i] = s[i + 1]
<1>1. Len(s) \in Nat \ {0} /\ 1 \in 1 .. Len(s)
  BY LenProperties, EmptySeq
<1>2. Head(s) = s[1] /\ Tail(s) \in Seq(S) /\ Len(Tail(s)) = Len(s) - 1
      /\ \A i \in 1 .. Len(Tail(s)) : Tail(s)[i] = s[i + 1]
  BY HeadTailProperties
<1> QED BY <1>1, <1>2, ElementOfSeq

\* Labels in the place of the first.
LEMMA InPlaceOfHead ==
  ASSUME NEW S, NEW s \in Seq(S), s # <<>>, NEW p \in Seq(S), p # <<>>,
         NEW n, n = p \o Tail(s)
  PROVE  /\ n \in Seq(S) /\ n # <<>> /\ Head(n) = p[1] /\ Len(n) = Len(s) + Len(p) - 1
         /\ \A i \in 1 .. Len(p) : n[i] = p[i]
         /\ \A i \in 2 .. Len(s) : n[i + Len(p) - 1] = s[i]
<1>1. /\ Len(s) \in Nat \ {0} /\ Tail(s) \in Seq(S) /\ Len(Tail(s)) = Len(s) - 1
      /\ \A i \in 1 .. Len(s) - 1 : Tail(s)[i] = s[i + 1]
  BY HeadOf
<1>2. Len(p) \in Nat \ {0}
  BY HeadOf
<1> DEFINE t == Tail(s)
<1>3. t \in Seq(S) /\ Len(t) = Len(s) - 1 /\ \A i \in 1 .. Len(s) - 1 : t[i] = s[i + 1]
  BY <1>1
<1>4. n = p \o t
  OBVIOUS
<1> HIDE DEF t
<1>9. /\ p \o t \in Seq(S) /\ Len(p \o t) = Len(p) + Len(t)
      /\ \A i \in 1 .. Len(p) + Len(t) :
           (p \o t)[i] = IF i <= Len(p) THEN p[i] ELSE t[i - Len(p)]
  BY <1>3, ConcatProperties
<1>5. /\ n \in Seq(S) /\ Len(n) = Len(p) + Len(t)
      /\ \A i \in 1 .. Len(p) + Len(t) : n[i] = IF i <= Len(p) THEN p[i] ELSE t[i - Len(p)]
  BY <1>4, <1>9
<1>6. Len(n) = Len(s) + Len(p) - 1 /\ \A i \in 1 .. Len(p) : n[i] = p[i]
  BY <1>1, <1>2, <1>3, <1>5
<1>7. ASSUME NEW i \in 2 .. Len(s) PROVE n[i + Len(p) - 1] = s[i]
  <2> DEFINE j == i + Len(p) - 1
  <2>1. j \in 1 .. Len(p) + Len(t) /\ ~(j <= Len(p)) /\ j - Len(p) = i - 1
        /\ i - 1 \in 1 .. Len(s) - 1 /\ (i - 1) + 1 = i
    BY <1>1, <1>2, <1>3
  <2> HIDE DEF j
  <2>2. n[j] = t[j - Len(p)]
    BY <1>5, <2>1
  <2>3. n[j] = s[i]
    BY <1>3, <2>1, <2>2
  <2> QED BY <2>3 DEF j
<1>8. n # <<>> /\ 1 \in 1 .. Len(p)
  BY <1>1, <1>2, <1>6, EmptySeq
<1> QED BY <1>5, <1>6, <1>7, <1>8, HeadOf

LEMMA GoesTo ==
  ASSUME NEW S, NEW s \in Seq(S), s # <<>>, NEW a \in S, NEW n, n = <<a>> \o Tail(s)
  PROVE  /\ n \in Seq(S) /\ n # <<>> /\ Head(n) = a /\ Len(n) = Len(s) /\ n[1] = a
         /\ \A i \in 2 .. Len(s) : n[i] = s[i]
<1>1. <<a>> \in Seq(S) /\ Len(<<a>>) = 1 /\ <<a>>[1] = a /\ <<a>> # <<>>
  OBVIOUS
<1>2. Len(s) \in Nat
  BY HeadOf
<1> DEFINE p == <<a>>
<1>3. n = p \o Tail(s) /\ p \in Seq(S) /\ p # <<>> /\ Len(p) = 1 /\ p[1] = a
  BY <1>1
<1> HIDE DEF p
<1>4. /\ n \in Seq(S) /\ n # <<>> /\ Head(n) = p[1] /\ Len(n) = Len(s) + Len(p) - 1
      /\ \A i \in 1 .. Len(p) : n[i] = p[i]
      /\ \A i \in 2 .. Len(s) : n[i + Len(p) - 1] = s[i]
  BY <1>3, InPlaceOfHead
<1> QED BY <1>2, <1>3, <1>4

LEMMA CallsAt ==
  ASSUME NEW S, NEW s \in Seq(S), s # <<>>, NEW a \in S, NEW b \in S,
         NEW n, n = <<a, b>> \o Tail(s)
  PROVE  /\ n \in Seq(S) /\ n # <<>> /\ Head(n) = a /\ Len(n) = Len(s) + 1
         /\ n[1] = a /\ n[2] = b
         /\ \A i \in 2 .. Len(s) : n[i + 1] = s[i]
<1> DEFINE p == <<a, b>>
<1>2. Len(s) \in Nat
  BY HeadOf
<1>3. n = p \o Tail(s) /\ p \in Seq(S) /\ p # <<>> /\ Len(p) = 2 /\ p[1] = a /\ p[2] = b
  OBVIOUS
<1> HIDE DEF p
<1>4. /\ n \in Seq(S) /\ n # <<>> /\ Head(n) = p[1] /\ Len(n) = Len(s) + Len(p) - 1
      /\ \A i \in 1 .. Len(p) : n[i] = p[i]
      /\ \A i \in 2 .. Len(s) : n[i + Len(p) - 1] = s[i]
  BY <1>3, InPlaceOfHead
<1> QED BY <1>2, <1>3, <1>4

LEMMA LogsIn ==
  ASSUME NEW S, NEW s \in Seq(S), s # <<>>, NEW a \in S, NEW b \in S, NEW c \in S,
         NEW n, n = <<a, b, c>> \o Tail(s)
  PROVE  /\ n \in Seq(S) /\ n # <<>> /\ Head(n) = a /\ Len(n) = Len(s) + 2
         /\ n[1] = a /\ n[2] = b /\ n[3] = c
         /\ \A i \in 2 .. Len(s) : n[i + 2] = s[i]
<1> DEFINE p == <<a, b, c>>
<1>2. Len(s) \in Nat
  BY HeadOf
<1>3. n = p \o Tail(s) /\ p \in Seq(S) /\ p # <<>> /\ Len(p) = 3
      /\ p[1] = a /\ p[2] = b /\ p[3] = c
  OBVIOUS
<1> HIDE DEF p
<1>4. /\ n \in Seq(S) /\ n # <<>> /\ Head(n) = p[1] /\ Len(n) = Len(s) + Len(p) - 1
      /\ \A i \in 1 .. Len(p) : n[i] = p[i]
      /\ \A i \in 2 .. Len(s) : n[i + Len(p) - 1] = s[i]
  BY <1>3, InPlaceOfHead
<1> QED BY <1>2, <1>3, <1>4

-----------------------------------------------------------------------------
(* The steps of one thread, of its stack alone.                            *)

LEMMA UnderOuts == \A l \in Outs : Under(l) = {"connect", "fail", "packet"}
BY DEF Under, Outs, Logins, Sending

LEMMA UnderLogins == \A l \in Logins : Under(l) = {"logged", "resend"}
BY DEF Under, Outs, Logins, Sending

LEMMA UnderSending == \A l \in Sending : Under(l) = {"asked", "emmSent", "loop", "packet"}
BY DEF Under, Outs, Logins, Sending

LEMMA UnderFail == Under("fail") = {"logged", "resend", "asked", "emmSent", "loop", "packet"}
BY DEF Under, Outs, Logins, Sending

LEMMA UnderOthers ==
  \A l : l \notin Outs \cup Logins \cup Sending \cup {"fail"} => Under(l) = {}
BY DEF Under

\* The first call may go on at l, which stands over what it stood over.
LEMMA NestedGoto ==
  ASSUME NEW s \in Seq(Labels), s # <<>>, Nested(s), NEW l \in Labels,
         Under(Head(s)) \subseteq Under(l), NEW n, n = <<l>> \o Tail(s)
  PROVE  Nested(n)
<1>1. /\ Len(n) = Len(s) /\ n[1] = l /\ (\A i \in 2 .. Len(s) : n[i] = s[i])
      /\ Len(s) \in Nat /\ Head(s) = s[1]
  BY GoesTo, HeadOf
<1>2. ASSUME NEW i \in 2 .. Len(s) PROVE n[i] \in Under(n[i - 1])
  <2>1. s[i] \in Under(s[i - 1]) /\ n[i] = s[i]
    BY <1>1 DEF Nested
  <2>2. CASE i = 2
    <3>1. i - 1 = 1
      BY <2>2
    <3> QED BY <1>1, <2>1, <3>1
  <2>3. CASE i # 2
    <3>1. i - 1 \in 2 .. Len(s)
      BY <1>1, <2>3
    <3> QED BY <1>1, <2>1, <3>1
  <2> QED BY <2>2, <2>3
<1> QED BY <1>1, <1>2 DEF Nested

LEMMA NestedReturn ==
  ASSUME NEW s \in Seq(Labels), s # <<>>, Nested(s)
  PROVE  /\ Tail(s) \in Seq(Labels) /\ Nested(Tail(s))
         /\ Tail(s) # <<>> => Len(s) > 1 /\ Head(Tail(s)) = s[2] /\ s[2] \in Under(Head(s))
<1> DEFINE n == Tail(s)
<1>1. /\ Len(s) \in Nat \ {0} /\ n \in Seq(Labels) /\ Len(n) = Len(s) - 1 /\ Head(s) = s[1]
      /\ \A i \in 1 .. Len(s) - 1 : n[i] = s[i + 1]
  BY HeadOf
<1> HIDE DEF n
<1>2. ASSUME NEW i \in 2 .. Len(n) PROVE n[i] \in Under(n[i - 1])
  <2>1. i \in 1 .. Len(s) - 1 /\ i - 1 \in 1 .. Len(s) - 1 /\ i + 1 \in 2 .. Len(s)
        /\ (i + 1) - 1 = i /\ (i - 1) + 1 = i
    BY <1>1
  <2> QED BY <1>1, <2>1 DEF Nested
<1>3. ASSUME n # <<>> PROVE Len(s) > 1 /\ Head(n) = s[2] /\ s[2] \in Under(Head(s))
  <2>1. Len(n) \in Nat \ {0} /\ Head(n) = n[1]
    BY <1>1, <1>3, HeadOf
  <2>2. 1 \in 1 .. Len(s) - 1 /\ 2 \in 2 .. Len(s) /\ 2 - 1 = 1 /\ 1 + 1 = 2 /\ Len(s) > 1
    BY <1>1, <2>1
  <2> QED BY <1>1, <2>1, <2>2 DEF Nested
<1> QED BY <1>1, <1>2, <1>3 DEF Nested, n

LEMMA NestedCall ==
  ASSUME NEW s \in Seq(Labels), s # <<>>, Nested(s), NEW a \in Labels, NEW b \in Labels,
         b \in Under(a), Under(Head(s)) \subseteq Under(b), NEW n, n = <<a, b>> \o Tail(s)
  PROVE  Nested(n)
<1>1. /\ Len(n) = Len(s) + 1 /\ n[1] = a /\ n[2] = b
      /\ (\A i \in 2 .. Len(s) : n[i + 1] = s[i]) /\ Len(s) \in Nat /\ Head(s) = s[1]
  BY CallsAt, HeadOf
<1>2. ASSUME NEW i \in 2 .. Len(s) + 1 PROVE n[i] \in Under(n[i - 1])
  <2>1. CASE i = 2
    <3>1. i - 1 = 1
      BY <2>1
    <3> QED BY <1>1, <2>1, <3>1
  <2>2. CASE i = 3
    <3>1. i - 1 = 2 /\ 2 \in 2 .. Len(s) /\ 2 + 1 = 3 /\ 2 - 1 = 1
      BY <1>1, <2>2
    <3>2. s[2] \in Under(s[1])
      BY <3>1 DEF Nested
    <3> QED BY <1>1, <2>2, <3>1, <3>2
  <2>3. CASE i > 3
    <3>1. /\ i - 1 \in 2 .. Len(s) /\ i - 2 \in 2 .. Len(s) /\ (i - 1) + 1 = i
          /\ (i - 2) + 1 = i - 1 /\ (i - 1) - 1 = i - 2
      BY <1>1, <2>3
    <3>2. s[i - 1] \in Under(s[i - 2])
      BY <3>1 DEF Nested
    <3> QED BY <1>1, <3>1, <3>2
  <2> QED BY <2>1, <2>2, <2>3
<1> QED BY <1>1, <1>2 DEF Nested

LEMMA NestedLogin ==
  ASSUME NEW s \in Seq(Labels), s # <<>>, Nested(s), NEW a \in Labels, NEW b \in Labels,
         NEW c \in Labels, b \in Under(a), c \in Under(b), Under(Head(s)) \subseteq Under(c),
         NEW n, n = <<a, b, c>> \o Tail(s)
  PROVE  Nested(n)
<1>1. /\ Len(n) = Len(s) + 2 /\ n[1] = a /\ n[2] = b /\ n[3] = c
      /\ (\A i \in 2 .. Len(s) : n[i + 2] = s[i]) /\ Len(s) \in Nat /\ Head(s) = s[1]
  BY LogsIn, HeadOf
<1>2. ASSUME NEW i \in 2 .. Len(s) + 2 PROVE n[i] \in Under(n[i - 1])
  <2>1. CASE i \in {2, 3}
    <3>1. (i = 2 => i - 1 = 1) /\ (i = 3 => i - 1 = 2)
      BY <2>1
    <3> QED BY <1>1, <2>1, <3>1
  <2>2. CASE i = 4
    <3>1. i - 1 = 3 /\ 2 \in 2 .. Len(s) /\ 2 + 2 = 4 /\ 2 - 1 = 1
      BY <1>1, <2>2
    <3>2. s[2] \in Under(s[1])
      BY <3>1 DEF Nested
    <3> QED BY <1>1, <2>2, <3>1, <3>2
  <2>3. CASE i > 4
    <3>1. /\ i - 2 \in 2 .. Len(s) /\ i - 3 \in 2 .. Len(s) /\ (i - 2) + 2 = i
          /\ (i - 3) + 2 = i - 1 /\ (i - 2) - 1 = i - 3
      BY <1>1, <2>3
    <3>2. s[i - 2] \in Under(s[i - 3])
      BY <3>1 DEF Nested
    <3> QED BY <1>1, <3>1, <3>2
  <2> QED BY <1>1, <2>1, <2>2, <2>3
<1> QED BY <1>1, <1>2 DEF Nested

\* One stack of them changes.
LEMMA StackOf ==
  ASSUME Stacks, NEW t \in Threads, NEW n \in Seq(Labels), Nested(n),
         stack' = [stack EXCEPT ![t] = n], ok' \in [Threads -> BOOLEAN]
  PROVE  /\ Stacks' /\ stack'[t] = n
         /\ \A u \in Threads \ {t} : stack'[u] = stack[u]
<1>1. DOMAIN stack = Threads /\ stack' = [u \in Threads |-> IF u = t THEN n ELSE stack[u]]
  BY DEF Stacks
<1>2. stack' \in [Threads -> Seq(Labels)] /\ \A u \in Threads : Nested(stack'[u])
  BY <1>1 DEF Stacks
<1> QED BY <1>1, <1>2 DEF Stacks

\* What is known of a thread at a label.
LEMMA AtIs ==
  ASSUME Stacks, NEW t \in Threads, NEW l, At(t, l)
  PROVE  /\ stack[t] \in Seq(Labels) /\ stack[t] # <<>> /\ Nested(stack[t])
         /\ Head(stack[t]) = l /\ Top(stack[t]) = l
BY DEF At, Top, Stacks

LEMMA GotoIs ==
  ASSUME Stacks, NEW t \in Threads, NEW h, At(t, h), NEW l \in Labels,
         Under(h) \subseteq Under(l), Goto(t, l)
  PROVE  /\ Stacks' /\ stack'[t] # <<>> /\ Head(stack'[t]) = l /\ Top(stack'[t]) = l
         /\ Len(stack'[t]) = Len(stack[t])
         /\ \A i \in 2 .. Len(stack[t]) : stack'[t][i] = stack[t][i]
         /\ ok' = ok /\ \A u \in Threads \ {t} : stack'[u] = stack[u]
<1> DEFINE s == stack[t]
           n == <<l>> \o Tail(s)
<1>1. s \in Seq(Labels) /\ s # <<>> /\ Nested(s) /\ Head(s) = h
  BY AtIs
<1>2. stack' = [stack EXCEPT ![t] = n] /\ ok' = ok
  BY DEF Goto
<1> HIDE DEF s
<1>3. /\ n \in Seq(Labels) /\ n # <<>> /\ Head(n) = l /\ Len(n) = Len(s)
      /\ \A i \in 2 .. Len(s) : n[i] = s[i]
  BY <1>1, GoesTo
<1>4. Nested(n)
  BY <1>1, NestedGoto
<1> HIDE DEF n
<1>5. ok' \in [Threads -> BOOLEAN]
  BY <1>2 DEF Stacks
<1>6. Stacks' /\ stack'[t] = n /\ \A u \in Threads \ {t} : stack'[u] = stack[u]
  BY <1>2, <1>3, <1>4, <1>5, StackOf
<1> QED BY <1>2, <1>3, <1>6 DEF s, Top

LEMMA InvokeIs ==
  ASSUME Stacks, NEW t \in Threads, NEW h, At(t, h), NEW a \in Labels, NEW b \in Labels,
         b \in Under(a), Under(h) \subseteq Under(b), Invoke(t, a, b)
  PROVE  /\ Stacks' /\ stack'[t] # <<>> /\ Head(stack'[t]) = a /\ Top(stack'[t]) = a
         /\ Len(stack'[t]) = Len(stack[t]) + 1 /\ stack'[t][2] = b
         /\ \A i \in 2 .. Len(stack[t]) : stack'[t][i + 1] = stack[t][i]
         /\ ok' = ok /\ \A u \in Threads \ {t} : stack'[u] = stack[u]
<1> DEFINE s == stack[t]
           n == <<a, b>> \o Tail(s)
<1>1. s \in Seq(Labels) /\ s # <<>> /\ Nested(s) /\ Head(s) = h
  BY AtIs
<1>2. stack' = [stack EXCEPT ![t] = n] /\ ok' = ok
  BY DEF Invoke
<1> HIDE DEF s
<1>3. /\ n \in Seq(Labels) /\ n # <<>> /\ Head(n) = a /\ Len(n) = Len(s) + 1 /\ n[2] = b
      /\ \A i \in 2 .. Len(s) : n[i + 1] = s[i]
  BY <1>1, CallsAt
<1>4. Nested(n)
  BY <1>1, NestedCall
<1> HIDE DEF n
<1>5. ok' \in [Threads -> BOOLEAN]
  BY <1>2 DEF Stacks
<1>6. Stacks' /\ stack'[t] = n /\ \A u \in Threads \ {t} : stack'[u] = stack[u]
  BY <1>2, <1>3, <1>4, <1>5, StackOf
<1> QED BY <1>2, <1>3, <1>6 DEF s, Top

LEMMA LoginIs ==
  ASSUME Stacks, NEW t \in Threads, NEW h, At(t, h), NEW c \in {"logged", "resend"},
         Under(h) \subseteq Under(c), Login(t, c)
  PROVE  /\ Stacks' /\ stack'[t] # <<>> /\ Head(stack'[t]) = "logout"
         /\ Top(stack'[t]) = "logout" /\ Len(stack'[t]) = Len(stack[t]) + 2
         /\ stack'[t][2] = "connect" /\ stack'[t][3] = c
         /\ \A i \in 2 .. Len(stack[t]) : stack'[t][i + 2] = stack[t][i]
         /\ ok' = ok /\ \A u \in Threads \ {t} : stack'[u] = stack[u]
<1> DEFINE s == stack[t]
           n == <<"logout", "connect", c>> \o Tail(s)
<1>1. s \in Seq(Labels) /\ s # <<>> /\ Nested(s) /\ Head(s) = h
  BY AtIs
<1>2. stack' = [stack EXCEPT ![t] = n] /\ ok' = ok
  BY DEF Login
<1> HIDE DEF s
<1>7. /\ "logout" \in Labels /\ "connect" \in Labels /\ c \in Labels
      /\ "connect" \in Under("logout") /\ c \in Under("connect")
  BY UnderOuts, UnderLogins DEF Labels, Outs, Logins
<1>3. /\ n \in Seq(Labels) /\ n # <<>> /\ Head(n) = "logout" /\ Len(n) = Len(s) + 2
      /\ n[2] = "connect" /\ n[3] = c
      /\ \A i \in 2 .. Len(s) : n[i + 2] = s[i]
  BY <1>1, <1>7, LogsIn
<1>4. Nested(n)
  BY <1>1, <1>7, NestedLogin
<1> HIDE DEF n
<1>5. ok' \in [Threads -> BOOLEAN]
  BY <1>2 DEF Stacks
<1>6. Stacks' /\ stack'[t] = n /\ \A u \in Threads \ {t} : stack'[u] = stack[u]
  BY <1>2, <1>3, <1>4, <1>5, StackOf
<1> QED BY <1>2, <1>3, <1>6 DEF s, Top

LEMMA ReturnIs ==
  ASSUME Stacks, NEW t \in Threads, NEW h, At(t, h), NEW v \in BOOLEAN, Return(t, v)
  PROVE  /\ Stacks' /\ stack'[t] = Tail(stack[t])
         /\ stack'[t] # <<>> => /\ Len(stack[t]) > 1 /\ stack[t][2] \in Under(h)
                                /\ Head(stack'[t]) = stack[t][2] /\ Top(stack'[t]) = stack[t][2]
         /\ Len(stack'[t]) = Len(stack[t]) - 1
         /\ \A i \in 1 .. Len(stack[t]) - 1 : stack'[t][i] = stack[t][i + 1]
         /\ ok' = [ok EXCEPT ![t] = v] /\ ok'[t] = v
         /\ \A u \in Threads \ {t} : stack'[u] = stack[u] /\ ok'[u] = ok[u]
<1> DEFINE s == stack[t]
           n == Tail(s)
<1>1. s \in Seq(Labels) /\ s # <<>> /\ Nested(s) /\ Head(s) = h
  BY AtIs
<1>2. stack' = [stack EXCEPT ![t] = n] /\ ok' = [ok EXCEPT ![t] = v]
  BY DEF Return
<1> HIDE DEF s
<1>3. Len(n) = Len(s) - 1 /\ \A i \in 1 .. Len(s) - 1 : n[i] = s[i + 1]
  BY <1>1, HeadOf
<1>4. /\ n \in Seq(Labels) /\ Nested(n)
      /\ n # <<>> => Len(s) > 1 /\ Head(n) = s[2] /\ s[2] \in Under(h)
  BY <1>1, NestedReturn
<1> HIDE DEF n
<1>5. ok' \in [Threads -> BOOLEAN] /\ ok'[t] = v /\ \A u \in Threads \ {t} : ok'[u] = ok[u]
  BY <1>2 DEF Stacks
<1>6. Stacks' /\ stack'[t] = n /\ \A u \in Threads \ {t} : stack'[u] = stack[u]
  BY <1>2, <1>4, <1>5, StackOf
<1> QED BY <1>2, <1>3, <1>4, <1>5, <1>6 DEF s, n, Top

\* A class of labels is left for one of its own.
LEMMA SameUnder ==
  /\ \A l, m \in Outs : Under(l) \subseteq Under(m)
  /\ \A l, m \in Logins : Under(l) \subseteq Under(m)
  /\ \A l, m \in Sending : Under(l) \subseteq Under(m)
  /\ \A l \in Sending \cup Logins : Under(l) \subseteq Under("fail")
  /\ \A l \in Sending : Under(l) \subseteq Under("resend")
BY UnderOuts, UnderLogins, UnderSending, UnderFail DEF Sending

Resting == {"ecm", "logged", "shares", "next", "pending", "asked", "waiting", "emm", "emmSent",
            "begin", "loop", "packet", "counted", "cw", "no", "deliver"}

LEMMA UnderResting == \A l \in Resting : Under(l) = {}
BY UnderOthers DEF Resting, Outs, Logins, Sending

LEMMA LabelsAre == Labels = Outs \cup Logins \cup Sending \cup Resting \cup {"fail"}
BY DEF Labels, Outs, Logins, Sending, Resting

LEMMA ThreadStacks ==
  ASSUME Stacks, NEW t \in Threads, ThreadStep(t)
  PROVE  Stacks'
<1> USE SameUnder, LabelsAre DEF Outs, Logins, Sending
<1>1. CASE LogoutBegins(t) \/ Joined(t) \/ Cancels(t) \/ Detach(t) \/ Close(t)
  <2>1. PICK h \in Outs, l \in Outs : At(t, h) /\ Goto(t, l)
    BY <1>1 DEF LogoutBegins, Joined, Cancels, Detach, Close
  <2> QED BY <2>1, GotoIs
<1>2. CASE Clear(t) \/ Fails(t) \/ DisconnectAfterConnect(t) \/ Writes(t)
  <2>1. PICK h \in Labels, v \in BOOLEAN : At(t, h) /\ Return(t, v)
    BY <1>2 DEF Clear, Fails, DisconnectAfterConnect, Writes
  <2> QED BY <2>1, ReturnIs
<1>3. CASE Connect(t) \/ DisconnectInConnect(t) \/ Connected(t) \/ ConnectFails(t)
           \/ Up(t) \/ Welcomed(t)
  <2>1. PICK h \in Logins, l \in Logins : At(t, h) /\ Goto(t, l)
    BY <1>3 DEF Connect, DisconnectInConnect, Connected, ConnectFails, Up, Welcomed
  <2> QED BY <2>1, GotoIs
<1>4. CASE NotWelcomed(t) \/ WriteFails(t)
  <2>1. PICK h \in Sending \cup Logins : At(t, h) /\ Invoke(t, "logout", "fail")
    BY <1>4 DEF NotWelcomed, WriteFails
  <2>2. "fail" \in Under("logout")
    BY UnderOuts
  <2> QED BY <2>1, <2>2, InvokeIs
<1>5. CASE Start(t)
  <2> DEFINE s == stack[t]
             n == Tail(s)
  <2>1. s \in Seq(Labels) /\ s # <<>> /\ Nested(s)
    BY <1>5, AtIs DEF Start
  <2>2. PICK r \in Readers : stack[r] = <<>> /\ stack' = [stack EXCEPT ![t] = n, ![r] = <<"begin">>]
    BY <1>5 DEF Start
  <2> HIDE DEF s
  <2>3. n \in Seq(Labels) /\ Nested(n)
    BY <2>1, NestedReturn
  <2> HIDE DEF n
  <2>4. <<"begin">> \in Seq(Labels) /\ Nested(<<"begin">>)
    <3>1. "begin" \in Labels /\ Len(<<"begin">>) = 1
      BY DEF Resting
    <3> QED BY <3>1 DEF Nested
  <2>5. stack' \in [Threads -> Seq(Labels)] /\ \A u \in Threads : Nested(stack'[u])
    BY <2>2, <2>3, <2>4 DEF Stacks, Threads
  <2>6. ok' \in [Threads -> BOOLEAN]
    BY <1>5 DEF Start, Stacks
  <2> QED BY <2>5, <2>6 DEF Stacks
<1>6. CASE Encrypts(t)
  BY <1>6, GotoIs DEF Encrypts
<1>7. CASE Sends(t) \/ Resends(t)
  <2>1. PICK h \in Sending : At(t, h) /\ (Goto(t, "write") \/ Login(t, "resend") \/ Return(t, FALSE))
    BY <1>7 DEF Sends, Resends
  <2>2. CASE Goto(t, "write")
    BY <2>1, <2>2, GotoIs
  <2>3. CASE Login(t, "resend")
    BY <2>1, <2>3, LoginIs
  <2>4. CASE Return(t, FALSE)
    BY <2>1, <2>4, ReturnIs
  <2> QED BY <2>1, <2>2, <2>3, <2>4
<1> QED BY <1>1, <1>2, <1>3, <1>4, <1>5, <1>6, <1>7 DEF ThreadStep

\* A procedure that nothing is under may be left for any label.
LEMMA RestingIs ==
  ASSUME Stacks, NEW t \in Threads, NEW h \in Resting, At(t, h), NEW l \in Labels, Goto(t, l)
  PROVE  Stacks'
BY UnderResting, GotoIs

LEMMA StacksInitially == ClientInit => Stacks
<1> SUFFICES ASSUME ClientInit PROVE Stacks
  OBVIOUS
<1>1. <<>> \in Seq(Labels) /\ Len(<<>>) = 0
  BY EmptySeq
<1>2. Nested(<<>>)
  BY <1>1 DEF Nested
<1> QED BY <1>1, <1>2 DEF ClientInit, Stacks

LEMMA StacksKept == Stacks /\ Buffers /\ [ClientNext]_clientVars => Stacks'
<1> SUFFICES ASSUME Stacks, Buffers, [ClientNext]_clientVars PROVE Stacks'
  OBVIOUS
<1> USE LabelsAre DEF Resting
<1>1. Caller \in Threads /\ Readers \subseteq Threads
  BY DEF Threads
<1>2. CASE UNCHANGED <<stack, ok>>
  BY <1>2 DEF Stacks
<1>3. CASE ProcessECM \/ ProcessEMM
  <2>1. PICK l \in Labels : stack' = [stack EXCEPT ![Caller] = <<l>>] /\ ok' = ok
    BY <1>3 DEF ProcessECM, ProcessEMM
  <2>2. <<l>> \in Seq(Labels) /\ Nested(<<l>>)
    <3>1. Len(<<l>>) = 1
      OBVIOUS
    <3> QED BY <3>1 DEF Nested
  <2> DEFINE n == <<l>>
  <2> HIDE DEF n
  <2>3. n \in Seq(Labels) /\ Nested(n) /\ stack' = [stack EXCEPT ![Caller] = n]
    BY <2>1, <2>2 DEF n
  <2>4. ok' \in [Threads -> BOOLEAN]
    BY <2>1 DEF Stacks
  <2> QED BY <1>1, <2>3, <2>4, StackOf
<1>4. ASSUME NEW t \in Threads, ThreadStep(t) PROVE Stacks'
  BY <1>4, ThreadStacks
<1>5. ASSUME NEW t \in Threads, NEW h \in Resting, At(t, h), NEW l \in Labels, Goto(t, l)
      PROVE  Stacks'
  BY <1>5, RestingIs
<1>6. ASSUME NEW t \in Threads, NEW h \in Resting, At(t, h), NEW v \in BOOLEAN, Return(t, v)
      PROVE  Stacks'
  BY <1>6, ReturnIs
<1>7. ASSUME NEW t \in Threads, NEW h \in Resting, At(t, h), NEW a \in Labels, NEW b \in Under(a),
             b \in Labels, Invoke(t, a, b)
      PROVE  Stacks'
  BY <1>7, UnderResting, InvokeIs
<1>8. CASE ChecksLogin
  <2>1. At(Caller, "ecm") /\ (Goto(Caller, "shares") \/ Login(Caller, "logged"))
    BY <1>8 DEF ChecksLogin
  <2>2. Under("ecm") = {}
    BY UnderResting
  <2>3. CASE Goto(Caller, "shares")
    BY <1>1, <1>5, <2>1, <2>3
  <2>4. CASE Login(Caller, "logged")
    BY <1>1, <2>1, <2>2, <2>4, LoginIs
  <2> QED BY <2>1, <2>3, <2>4
<1>9. CASE LoginReturns \/ SendsEcm \/ SendsEmm
  <2>1. PICK h \in Resting :
          /\ At(Caller, h)
          /\ \/ Goto(Caller, "shares") \/ Goto(Caller, "emmSent")
             \/ Invoke(Caller, "logout", "fail") \/ Invoke(Caller, "crypt", "asked")
             \/ Invoke(Caller, "crypt", "emmSent")
    BY <1>9 DEF LoginReturns, SendsEcm, SendsEmm
  <2>2. "fail" \in Under("logout") /\ "asked" \in Under("crypt") /\ "emmSent" \in Under("crypt")
    BY UnderOuts, UnderSending DEF Outs, Sending
  <2>3. CASE Goto(Caller, "shares") \/ Goto(Caller, "emmSent")
    BY <1>1, <1>5, <2>1, <2>3
  <2>4. CASE Invoke(Caller, "logout", "fail")
    BY <1>1, <1>7, <2>1, <2>2, <2>4 DEF Outs
  <2>5. CASE Invoke(Caller, "crypt", "asked") \/ Invoke(Caller, "crypt", "emmSent")
    BY <1>1, <1>7, <2>1, <2>2, <2>5 DEF Sending
  <2> QED BY <2>1, <2>3, <2>4, <2>5
<1>10. CASE GetShares \/ NextShare \/ NoMoreShares \/ StartsToWait \/ WakesUp \/ TimesOut \/ EmmSent
  <2>1. PICK h \in Resting, l \in Labels, v \in BOOLEAN :
          At(Caller, h) /\ (Goto(Caller, l) \/ Return(Caller, v))
    BY <1>10 DEF GetShares, NextShare, NoMoreShares, StartsToWait, WakesUp, TimesOut, EmmSent
  <2> QED BY <1>1, <1>5, <1>6, <2>1
<1>11. ASSUME NEW r \in Readers, ReaderBegins(r) \/ Reads(r) \/ SeesAnswer(r) \/ Unscrambles(r)
                                 \/ CannotDecode(r) \/ EndOfBuffer(r)
       PROVE  Stacks'
  <2>1. PICK h \in Resting, l \in Labels : At(r, h) /\ Goto(r, l)
    BY <1>11 DEF ReaderBegins, Reads, SeesAnswer, Unscrambles, CannotDecode, EndOfBuffer, Polls
  <2> QED BY <1>1, <1>5, <2>1
<1>12. ASSUME NEW r \in Readers, ReadsEof(r) \/ Pings(r) \/ Answers(r) \/ Delivers(r)
       PROVE  Stacks'
  <2>1. PICK h \in Resting :
          /\ At(r, h)
          /\ \/ Invoke(r, "logout", "packet") \/ Invoke(r, "crypt", "loop")
             \/ Invoke(r, "crypt", "packet") \/ Goto(r, "packet")
    BY <1>12 DEF ReadsEof, Pings, Answers, Delivers, Polls, Packet
  <2>2. "packet" \in Under("logout") /\ "loop" \in Under("crypt") /\ "packet" \in Under("crypt")
    BY UnderOuts, UnderSending DEF Outs, Sending
  <2>3. CASE Goto(r, "packet")
    BY <1>1, <1>5, <2>1, <2>3
  <2>4. CASE Invoke(r, "logout", "packet")
    BY <1>1, <1>7, <2>1, <2>2, <2>4 DEF Outs
  <2>5. CASE Invoke(r, "crypt", "loop") \/ Invoke(r, "crypt", "packet")
    BY <1>1, <1>7, <2>1, <2>2, <2>5 DEF Sending
  <2> QED BY <2>1, <2>3, <2>4, <2>5
<1>13. ASSUME NEW r \in Readers, Counts(r) PROVE Stacks'
  <2>1. At(r, "counted") /\ Goto(r, Head(rd[r].buf).cmd)
    BY <1>13 DEF Counts
  <2>2. Top(stack[r]) = "counted"
    BY <1>1, <2>1, AtIs
  <2>3. Head(rd[r].buf).cmd \in {"cw", "no"}
    BY <2>2 DEF Buffers, IsAnswer
  <2> QED BY <1>1, <1>5, <2>1, <2>3
<1>14. ASSUME NEW r \in Readers, ReaderEnds(r) \/ Dies(r) PROVE Stacks'
  <2> DEFINE n == <<>>
  <2>1. stack' = [stack EXCEPT ![r] = n] /\ ok' = ok
    BY <1>14 DEF ReaderEnds, Dies
  <2>2. n \in Seq(Labels) /\ Nested(n)
    <3>1. Len(n) = 0
      OBVIOUS
    <3> QED BY <3>1 DEF Nested
  <2>3. ok' \in [Threads -> BOOLEAN]
    BY <2>1 DEF Stacks
  <2> HIDE DEF n
  <2> QED BY <1>1, <2>1, <2>2, <2>3, StackOf
<1>15. ASSUME NEW r \in Readers, ReaderStep(r) \/ Pings(r) PROVE Stacks'
  <2>1. CASE AddShare(r) \/ DelShare(r)
    BY <1>2, <2>1 DEF AddShare, DelShare
  <2>2. CASE ~(AddShare(r) \/ DelShare(r))
    BY <1>1, <1>4, <1>11, <1>12, <1>13, <1>14, <1>15, <2>2 DEF ReaderStep
  <2> QED BY <2>1, <2>2
<1>16. CASE WatcherStep \/ Announces \/ Questions \/ Replies \/ ServerCloses \/ UNCHANGED clientVars
  BY <1>2, <1>16 DEF WatcherStep, WatcherLocks, WatcherLooks, Announces, Questions, Replies,
                     ServerCloses, Pushes, clientVars
<1>17. CASE CallerStep
  BY <1>1, <1>4, <1>8, <1>9, <1>10, <1>17 DEF CallerStep
<1> QED BY <1>3, <1>15, <1>16, <1>17 DEF ClientNext

-----------------------------------------------------------------------------
(* Fields and packets.                                                     *)

\* The packets in a buffer.
LEMMA PacketIs ==
  ASSUME NEW ps \in Seq(Packets), ps # <<>>
  PROVE  /\ Head(ps) \in Packets /\ Tail(ps) \in Seq(Packets)
         /\ Head(ps).cmd \in {"add", "del"} => Head(ps).share \in Shares
         /\ IsAnswer(Head(ps)) => Head(ps).ecm \in Nat /\ Head(ps).share \in Shares \cup {NoOne}
<1>1. Head(ps) \in Packets /\ Tail(ps) \in Seq(Packets)
  BY HeadOf
<1> DEFINE p == Head(ps)
<1>2. p \in Packets
  BY <1>1
<1> HIDE DEF p
<1>3. /\ p.cmd \in {"add", "del"} => p.share \in Shares
      /\ IsAnswer(p) => p.ecm \in Nat /\ p.share \in Shares \cup {NoOne}
  BY <1>2 DEF Packets, IsAnswer
<1> QED BY <1>1, <1>3 DEF p

\* What a step takes of the bounds.
LEMMA TakeIs ==
  ASSUME left \in [Kinds -> Nat], NEW kind \in Kinds, Take(kind)
  PROVE  left' \in [Kinds -> Nat]
<1>1. left[kind] \in Nat /\ left[kind] > 0 /\ left' = [left EXCEPT ![kind] = left[kind] - 1]
  BY DEF Take
<1>2. left[kind] - 1 \in Nat
  BY <1>1
<1> QED BY <1>1, <1>2

LEMMA FieldsInitially == ClientInit => Fields /\ Buffers
<1> SUFFICES ASSUME ClientInit PROVE Fields /\ Buffers
  OBVIOUS
<1>1. <<>> \in Seq(Packets)
  BY EmptySeq
<1>2. left \in [Kinds -> Nat]
  BY ReadersAssumption DEF ClientInit, Kinds
<1>3. Fields
  BY <1>1, <1>2 DEF ClientInit, Fields, NoSession, NoCall
<1>4. \A r \in Readers : stack[r] = <<>> /\ rd[r] = NoPacket
  BY DEF ClientInit, Threads
<1>5. \A r \in Readers : Top(stack[r]) = "none"
  BY <1>4 DEF Top
<1>6. Buffers
  BY <1>1, <1>4, <1>5 DEF ClientInit, Buffers, NoPacket
<1> QED BY <1>3, <1>6

LEMMA ThreadFields ==
  ASSUME Fields, NEW t \in Threads, ThreadStep(t)
  PROVE  Fields'
<1>1. CASE Joined(t) \/ Fails(t) \/ NotWelcomed(t) \/ Sends(t) \/ Resends(t) \/ WriteFails(t)
  BY <1>1 DEF Joined, Fails, NotWelcomed, Sends, Resends, WriteFails, Fields
<1>2. CASE LogoutBegins(t)
  BY <1>2 DEF LogoutBegins, Fields
<1>3. CASE Cancels(t)
  BY <1>3 DEF Cancels, Fields
<1>4. CASE Detach(t)
  BY <1>4 DEF Detach, Fields
<1>5. CASE Start(t)
  BY <1>5 DEF Start, Fields
<1>6. CASE Close(t)
  BY <1>6, EmptySeq DEF Close, Fields, NoSession
<1>7. CASE DisconnectInConnect(t)
  BY <1>7, EmptySeq DEF DisconnectInConnect, Fields, NoSession
<1>8. CASE DisconnectAfterConnect(t)
  BY <1>8, EmptySeq DEF DisconnectAfterConnect, Fields, NoSession
<1>9. CASE Welcomed(t)
  BY <1>9, EmptySeq DEF Welcomed, Fields, NoSession
<1>10. CASE Clear(t)
  BY <1>10 DEF Clear, Fields
<1>11. CASE Connect(t) \/ Connected(t) \/ ConnectFails(t) \/ Up(t)
  BY <1>11 DEF Connect, Connected, ConnectFails, Up, Fields
<1>12. CASE Encrypts(t)
  BY <1>12 DEF Encrypts, Fields
<1>13. CASE Writes(t)
  <2> DEFINE q == [ecm |-> call.ecm, share |-> cl.shareid]
  <2>1. q \in Requests
    BY DEF Fields, Requests
  <2>2. /\ net' = [net EXCEPT !.enc = net'.enc, !.garbled = net'.garbled, !.asked = net'.asked]
        /\ net'.asked \in {net.asked, net.asked \cup {q}}
    BY <1>13 DEF Writes, Fields
  <2>3. call' = call \/ (call.kind = "ecm" /\ call' = [call EXCEPT !.clean = ~Outstanding])
    BY <1>13 DEF Writes
  <2>4. UNCHANGED <<cl, th, so, shares, left>>
    BY <1>13 DEF Writes
  <2> HIDE DEF q
  <2> QED BY <2>1, <2>2, <2>3, <2>4 DEF Fields
<1> QED BY <1>1, <1>2, <1>3, <1>4, <1>5, <1>6, <1>7, <1>8, <1>9, <1>10, <1>11, <1>12, <1>13
        DEF ThreadStep

LEMMA FieldsKept == Fields /\ Buffers /\ [ClientNext]_clientVars => Fields'
<1> SUFFICES ASSUME Fields, Buffers, [ClientNext]_clientVars PROVE Fields'
  OBVIOUS
<1> USE TakeIs DEF Kinds
<1>1. CASE CallerStep
  <2>1. CASE ThreadStep(Caller)
    BY <2>1, ThreadFields DEF Threads
  <2>2. CASE ChecksLogin \/ LoginReturns
    BY <2>2 DEF ChecksLogin, LoginReturns, Fields
  <2>3. CASE GetShares
    <3>1. call' = [call EXCEPT !.todo = shares.list] /\ UNCHANGED <<cl, th, so, shares, net, left>>
      BY <2>3 DEF GetShares
    <3>2. shares.list \subseteq Shares
      BY DEF Fields
    <3> QED BY <3>1, <3>2 DEF Fields
  <2>4. CASE NextShare
    <3>1. PICK s \in call.todo :
            /\ cl' = [cl EXCEPT !.shareid = s]
            /\ call' = [call EXCEPT !.todo = @ \ {s}, !.tried = TRUE, !.pending = cl.pending]
      BY <2>4 DEF NextShare
    <3>2. s \in Shares
      BY DEF Fields
    <3>3. UNCHANGED <<th, so, shares, net, left>>
      BY <2>4 DEF NextShare
    <3> QED BY <3>1, <3>2, <3>3 DEF Fields
  <2>5. CASE NoMoreShares \/ TimesOut
    <3>1. call' = NoCall /\ UNCHANGED <<cl, th, so, shares, net, left>>
      BY <2>5 DEF NoMoreShares, TimesOut
    <3> QED BY <3>1 DEF Fields, NoCall
  <2>6. CASE WakesUp
    <3>1. call' = NoCall \/ call' = call
      BY <2>6 DEF WakesUp
    <3>2. UNCHANGED <<cl, th, so, shares, net, left>>
      BY <2>6 DEF WakesUp
    <3>3. CASE call' = NoCall
      BY <3>2, <3>3 DEF Fields, NoCall
    <3>4. CASE call' = call
      BY <3>2, <3>4 DEF Fields
    <3> QED BY <3>1, <3>3, <3>4
  <2>7. CASE SendsEcm
    BY <2>7 DEF SendsEcm, Fields
  <2>8. CASE StartsToWait
    BY <2>8 DEF StartsToWait, Fields
  <2>9. CASE SendsEmm \/ EmmSent
    BY <2>9 DEF SendsEmm, EmmSent, Fields
  <2> QED BY <1>1, <2>1, <2>2, <2>3, <2>4, <2>5, <2>6, <2>7, <2>8, <2>9 DEF CallerStep
<1>2. ASSUME NEW r \in Readers, ReaderStep(r) \/ Pings(r) PROVE Fields'
  <2>0. rd[r].buf \in Seq(Packets)
    BY DEF Buffers
  <2>1. CASE ThreadStep(r)
    BY <2>1, ThreadFields DEF Threads
  <2>2. CASE ReadsEof(r) \/ SeesAnswer(r) \/ Unscrambles(r) \/ EndOfBuffer(r)
    BY <2>2 DEF ReadsEof, SeesAnswer, Unscrambles, EndOfBuffer, Fields
  <2>3. CASE ReaderBegins(r)
    BY <2>3 DEF ReaderBegins, Fields
  <2>4. CASE Reads(r)
    BY <2>4, EmptySeq DEF Reads, Fields
  <2>5. CASE AddShare(r)
    <3>1. Head(rd[r].buf).share \in Shares
      BY <2>0, <2>5, PacketIs DEF AddShare, Packet
    <3> QED BY <2>5, <3>1 DEF AddShare, Fields
  <2>6. CASE DelShare(r)
    BY <2>6 DEF DelShare, Fields
  <2>7. CASE Answers(r) \/ Counts(r)
    BY <2>7 DEF Answers, Counts, Fields
  <2>8. CASE Delivers(r)
    BY <2>8 DEF Delivers, Broadcast, Fields
  <2>9. CASE CannotDecode(r)
    BY <2>9 DEF CannotDecode, Broadcast, Fields
  <2>10. CASE ReaderEnds(r)
    BY <2>10 DEF ReaderEnds, Fields
  <2>11. CASE Dies(r)
    BY <2>11 DEF Dies, Fields
  <2>12. CASE Pings(r)
    BY <2>12 DEF Pings, Fields
  <2> QED BY <1>2, <2>1, <2>2, <2>3, <2>4, <2>5, <2>6, <2>7, <2>8, <2>9, <2>10, <2>11, <2>12
          DEF ReaderStep
<1>3. CASE ProcessECM \/ ProcessEMM
  <2>1. left["ecm"] \in Nat /\ left' \in [Kinds -> Nat]
    <3>1. left["ecm"] \in Nat
      BY DEF Fields
    <3> QED BY <1>3, <3>1 DEF ProcessECM, ProcessEMM, Fields
  <2>2. call' = [NoCall EXCEPT !.kind = "ecm", !.ecm = left["ecm"]]
        \/ call' = [NoCall EXCEPT !.kind = "emm"]
    BY <1>3 DEF ProcessECM, ProcessEMM
  <2>3. UNCHANGED <<cl, th, so, shares, net>>
    BY <1>3 DEF ProcessECM, ProcessEMM
  <2>4. CASE call' = [NoCall EXCEPT !.kind = "ecm", !.ecm = left["ecm"]]
    BY <2>1, <2>3, <2>4 DEF Fields, NoCall
  <2>5. CASE call' = [NoCall EXCEPT !.kind = "emm"]
    BY <2>1, <2>3, <2>5 DEF Fields, NoCall
  <2> QED BY <2>2, <2>4, <2>5
<1>4. CASE WatcherStep
  BY <1>4 DEF WatcherStep, WatcherLocks, WatcherLooks, Fields
<1>5. ASSUME NEW p \in Packets, Pushes(p), left' \in [Kinds -> Nat] PROVE Fields'
  <2>1. /\ net' = [net EXCEPT !.in = Append(@, p), !.asked = net'.asked, !.told = net'.told]
        /\ net'.asked \subseteq net.asked
    BY <1>5 DEF Pushes, Fields
  <2>2. Append(net.in, p) \in Seq(Packets)
    BY AppendProperties DEF Fields
  <2>3. UNCHANGED <<cl, th, so, shares, call>>
    BY <1>5 DEF Pushes
  <2> QED BY <1>5, <2>1, <2>2, <2>3 DEF Fields
<1>6. CASE Announces
  <2>1. PICK s \in Shares, c \in {"add", "del"} : Take("share") /\ Pushes([cmd |-> c, share |-> s])
    BY <1>6 DEF Announces
  <2>2. [cmd |-> c, share |-> s] \in Packets
    BY DEF Packets
  <2> QED BY <1>5, <2>1, <2>2 DEF Fields
<1>7. CASE Questions
  <2>1. PICK known \in BOOLEAN : Take("ask") /\ Pushes([cmd |-> "ask", known |-> known])
    BY <1>7 DEF Questions
  <2>2. [cmd |-> "ask", known |-> known] \in Packets
    BY DEF Packets
  <2> QED BY <1>5, <2>1, <2>2 DEF Fields
<1>8. CASE Replies
  <2>1. PICK q \in net.asked, c \in {"cw", "no"} :
          Pushes([cmd |-> c, ecm |-> q.ecm, share |-> q.share]) /\ left' = left
    BY <1>8 DEF Replies
  <2>2. [cmd |-> c, ecm |-> q.ecm, share |-> q.share] \in Packets
    BY DEF Fields, Packets, Requests
  <2> QED BY <1>5, <2>1, <2>2 DEF Fields
<1>9. CASE ServerCloses
  BY <1>9 DEF ServerCloses, Fields
<1>10. CASE UNCHANGED clientVars
  BY <1>10 DEF clientVars, Fields
<1> QED BY <1>1, <1>2, <1>3, <1>4, <1>6, <1>7, <1>8, <1>9, <1>10 DEF ClientNext

Answering == {"counted", "cw", "no", "deliver"}

\* The steps of a thread that threads have in common.
LEMMA ThreadTop ==
  ASSUME Stacks, NEW t \in Threads, ThreadStep(t)
  PROVE  /\ rd' = rd /\ Top(stack'[t]) \notin Answering
         /\ \A u \in Threads \ {t} : stack'[u] = stack[u] \/ (u \in Readers /\ stack'[u] = <<"begin">>)
<1> USE SameUnder, LabelsAre DEF Outs, Logins, Sending, Answering
<1>1. CASE LogoutBegins(t) \/ Joined(t) \/ Cancels(t) \/ Detach(t) \/ Close(t)
  <2>1. PICK h \in Outs, l \in Outs : At(t, h) /\ Goto(t, l)
    BY <1>1 DEF LogoutBegins, Joined, Cancels, Detach, Close
  <2>2. rd' = rd
    BY <1>1 DEF LogoutBegins, Joined, Cancels, Detach, Close
  <2> QED BY <2>1, <2>2, GotoIs
<1>2. CASE Clear(t) \/ Fails(t) \/ DisconnectAfterConnect(t) \/ Writes(t)
  <2>1. PICK h \in Outs \cup Logins \cup Sending \cup {"fail"}, v \in BOOLEAN : At(t, h) /\ Return(t, v)
    BY <1>2 DEF Clear, Fails, DisconnectAfterConnect, Writes
  <2>2. rd' = rd
    BY <1>2 DEF Clear, Fails, DisconnectAfterConnect, Writes
  <2>3. Under(h) \cap Answering = {}
    BY UnderOuts, UnderLogins, UnderSending, UnderFail
  <2>4. /\ stack'[t] # <<>> => stack[t][2] \in Under(h) /\ Top(stack'[t]) = stack[t][2]
        /\ \A u \in Threads \ {t} : stack'[u] = stack[u]
    BY <2>1, ReturnIs
  <2>5. stack'[t] = <<>> => Top(stack'[t]) = "none"
    BY DEF Top
  <2> QED BY <2>2, <2>3, <2>4, <2>5
<1>3. CASE Connect(t) \/ DisconnectInConnect(t) \/ Connected(t) \/ ConnectFails(t)
           \/ Up(t) \/ Welcomed(t)
  <2>1. PICK h \in Logins, l \in Logins : At(t, h) /\ Goto(t, l)
    BY <1>3 DEF Connect, DisconnectInConnect, Connected, ConnectFails, Up, Welcomed
  <2>2. rd' = rd
    BY <1>3 DEF Connect, DisconnectInConnect, Connected, ConnectFails, Up, Welcomed
  <2> QED BY <2>1, <2>2, GotoIs
<1>4. CASE NotWelcomed(t) \/ WriteFails(t)
  <2>1. PICK h \in Sending \cup Logins : At(t, h) /\ Invoke(t, "logout", "fail")
    BY <1>4 DEF NotWelcomed, WriteFails
  <2>2. "fail" \in Under("logout")
    BY UnderOuts
  <2>3. rd' = rd
    BY <1>4 DEF NotWelcomed, WriteFails
  <2> QED BY <2>1, <2>2, <2>3, InvokeIs
<1>5. CASE Start(t)
  <2> DEFINE s == stack[t]
             n == Tail(s)
  <2>1. s \in Seq(Labels) /\ s # <<>> /\ Nested(s) /\ Head(s) = "start"
    BY <1>5, AtIs DEF Start
  <2>2. PICK r \in Readers : stack[r] = <<>> /\ stack' = [stack EXCEPT ![t] = n, ![r] = <<"begin">>]
    BY <1>5 DEF Start
  <2> HIDE DEF s
  <2>3. n # <<>> => Head(n) \in {"logged", "resend"}
    BY <2>1, NestedReturn, UnderLogins
  <2> HIDE DEF n
  <2>4. r \in Threads /\ r # t /\ stack \in [Threads -> Seq(Labels)]
    BY <2>1, <2>2 DEF Threads, Stacks, s
  <2>5. stack'[t] = n /\ \A u \in Threads \ {t} : stack'[u] = stack[u] \/ (u \in Readers /\ stack'[u] = <<"begin">>)
    BY <2>2, <2>4
  <2>6. rd' = rd
    BY <1>5 DEF Start
  <2> QED BY <2>3, <2>5, <2>6 DEF Top
<1>6. CASE Encrypts(t)
  BY <1>6, GotoIs DEF Encrypts
<1>7. CASE Sends(t) \/ Resends(t)
  <2>1. PICK h \in Sending : At(t, h) /\ (Goto(t, "write") \/ Login(t, "resend") \/ Return(t, FALSE))
    BY <1>7 DEF Sends, Resends
  <2>9. rd' = rd
    BY <1>7 DEF Sends, Resends
  <2>2. CASE Goto(t, "write")
    BY <2>1, <2>2, <2>9, GotoIs
  <2>3. CASE Login(t, "resend")
    BY <2>1, <2>3, <2>9, LoginIs
  <2>4. CASE Return(t, FALSE)
    <3>1. /\ stack'[t] # <<>> => stack[t][2] \in Under(h) /\ Top(stack'[t]) = stack[t][2]
          /\ \A u \in Threads \ {t} : stack'[u] = stack[u]
      BY <2>1, <2>4, ReturnIs
    <3>2. stack'[t] = <<>> => Top(stack'[t]) = "none"
      BY DEF Top
    <3> QED BY <2>9, <3>1, <3>2, UnderSending
  <2> QED BY <2>1, <2>2, <2>3, <2>4
<1> QED BY <1>1, <1>2, <1>3, <1>4, <1>5, <1>6, <1>7 DEF ThreadStep

\* A buffer is what it was, and its reader does not begin with an answer.
LEMMA BuffersLeft ==
  ASSUME Buffers, rd' = rd,
         \A r \in Readers : stack'[r] = stack[r] \/ Top(stack'[r]) \notin Answering
  PROVE  Buffers'
BY DEF Buffers, Answering, Top

\* One reader deals with its buffer.
LEMMA BuffersOf ==
  ASSUME Buffers, NEW r \in Readers, \A q \in Readers \ {r} : stack'[q] = stack[q],
         NEW p, rd' = [rd EXCEPT ![r] = p],
         p = [buf |-> p.buf, pending |-> p.pending, take |-> p.take, cw |-> p.cw],
         p.buf \in Seq(Packets),
         Top(stack'[r]) \in Answering => p.buf # <<>> /\ IsAnswer(Head(p.buf))
  PROVE  Buffers'
<1>1. rd'[r] = p /\ \A q \in Readers \ {r} : rd'[q] = rd[q]
  BY DEF Buffers
<1>2. rd' = [q \in Readers |-> rd'[q]]
  BY DEF Buffers
<1>3. ASSUME NEW q \in Readers
      PROVE  /\ rd'[q] = [buf |-> rd'[q].buf, pending |-> rd'[q].pending, take |-> rd'[q].take,
                         cw |-> rd'[q].cw]
             /\ rd'[q].buf \in Seq(Packets)
             /\ Top(stack'[q]) \in Answering => rd'[q].buf # <<>> /\ IsAnswer(Head(rd'[q].buf))
  <2>1. CASE q = r
    BY <1>1, <2>1
  <2>2. CASE q # r
    BY <1>1, <2>2 DEF Buffers, Answering, Top
  <2> QED BY <2>1, <2>2
<1> QED BY <1>2, <1>3 DEF Buffers, Answering

\* The stacks of the others stay, whatever a thread does with its own.
LEMMA OthersStay ==
  ASSUME Stacks, NEW t \in Threads
  PROVE  /\ \A l : Goto(t, l) => \A u \in Threads \ {t} : stack'[u] = stack[u]
         /\ \A a, b : Invoke(t, a, b) => \A u \in Threads \ {t} : stack'[u] = stack[u]
         /\ \A c : Login(t, c) => \A u \in Threads \ {t} : stack'[u] = stack[u]
         /\ \A v : Return(t, v) => \A u \in Threads \ {t} : stack'[u] = stack[u]
BY DEF Stacks, Goto, Invoke, Login, Return

\* What a reader keeps, with another buffer.
LEMMA WithBuffer ==
  ASSUME NEW p, p = [buf |-> p.buf, pending |-> p.pending, take |-> p.take, cw |-> p.cw],
         NEW b, NEW n, n = [p EXCEPT !.buf = b]
  PROVE  n = [buf |-> n.buf, pending |-> n.pending, take |-> n.take, cw |-> n.cw] /\ n.buf = b
OBVIOUS

\* A procedure that nothing is under goes on, and calls another.
LEMMA RestingGoto ==
  ASSUME Stacks, NEW t \in Threads, NEW h \in Resting, At(t, h), NEW l \in Labels, Goto(t, l)
  PROVE  Top(stack'[t]) = l /\ \A u \in Threads \ {t} : stack'[u] = stack[u]
BY UnderResting, GotoIs

LEMMA RestingInvoke ==
  ASSUME Stacks, NEW t \in Threads, NEW h \in Resting, At(t, h), NEW b \in {"fail", "packet", "loop"},
         NEW a \in {"logout", "crypt"}, b \in Under(a), Invoke(t, a, b)
  PROVE  Top(stack'[t]) = a /\ \A u \in Threads \ {t} : stack'[u] = stack[u]
<1>1. a \in Labels /\ b \in Labels
  BY DEF Labels
<1>2. Under(h) \subseteq Under(b)
  BY UnderResting
<1> QED BY <1>1, <1>2, InvokeIs

LEMMA BuffersKept == Stacks /\ Fields /\ Buffers /\ [ClientNext]_clientVars => Buffers'
<1> SUFFICES ASSUME Stacks, Fields, Buffers, [ClientNext]_clientVars PROVE Buffers'
  OBVIOUS
<1> USE LabelsAre DEF Resting
<1>0. "packet" \in Under("logout") /\ "packet" \in Under("crypt") /\ "loop" \in Under("crypt")
  BY UnderOuts, UnderSending DEF Outs, Sending
<1>1. Caller \in Threads /\ Readers \subseteq Threads \ {Caller}
  BY ReadersAssumption DEF Threads, Caller
<1>2. CASE UNCHANGED <<stack, rd>>
  BY <1>2, BuffersLeft
<1>3. CASE ProcessECM \/ ProcessEMM
  <2>1. rd' = rd /\ \A r \in Readers : stack'[r] = stack[r]
    BY <1>1, <1>3 DEF ProcessECM, ProcessEMM, Stacks
  <2> QED BY <2>1, BuffersLeft
<1>4. ASSUME NEW t \in Threads, ThreadStep(t) PROVE Buffers'
  <2>1. Top(<<"begin">>) = "begin"
    BY DEF Top
  <2>2. "begin" \notin Answering
    BY DEF Answering
  <2>3. \A r \in Readers : stack'[r] = stack[r] \/ Top(stack'[r]) \notin Answering
    BY <1>1, <1>4, <2>1, <2>2, ThreadTop
  <2> QED BY <1>4, <2>3, ThreadTop, BuffersLeft
<1>5. CASE CallerStep
  <2>1. CASE ~ThreadStep(Caller)
    <3>1. rd' = rd
      BY <1>5, <2>1 DEF CallerStep, ChecksLogin, LoginReturns, GetShares, NextShare, NoMoreShares,
         SendsEcm, StartsToWait, WakesUp, TimesOut, SendsEmm, EmmSent
    <3>2. \/ \E l : Goto(Caller, l)
          \/ \E a, b : Invoke(Caller, a, b)
          \/ \E c : Login(Caller, c)
          \/ \E v : Return(Caller, v)
      BY <1>5, <2>1 DEF CallerStep, ChecksLogin, LoginReturns, GetShares, NextShare, NoMoreShares,
         SendsEcm, StartsToWait, WakesUp, TimesOut, SendsEmm, EmmSent
    <3> QED BY <1>1, <3>1, <3>2, OthersStay, BuffersLeft
  <2> QED BY <1>1, <1>4, <2>1
<1>6. ASSUME NEW r \in Readers, ReaderStep(r) \/ Pings(r) PROVE Buffers'
  <2>0. r \in Threads /\ Readers \ {r} \subseteq Threads \ {r}
    BY <1>1
  <2>1. /\ rd[r] = [buf |-> rd[r].buf, pending |-> rd[r].pending, take |-> rd[r].take,
                   cw |-> rd[r].cw]
        /\ rd[r].buf \in Seq(Packets) /\ rd = [q \in Readers |-> rd[q]]
    BY DEF Buffers
  <2>2. CASE ReaderBegins(r) \/ EndOfBuffer(r)
    <3>1. PICK h \in {"begin", "packet"} : At(r, h) /\ Goto(r, "loop") /\ rd' = rd
      BY <2>2 DEF ReaderBegins, EndOfBuffer
    <3>2. Top(stack'[r]) = "loop" /\ \A q \in Readers \ {r} : stack'[q] = stack[q]
      BY <2>0, <3>1, RestingGoto
    <3> QED BY <3>1, <3>2, BuffersLeft DEF Answering
  <2>3. CASE ReadsEof(r) \/ Pings(r)
    <3>1. rd' = rd
      BY <2>3 DEF ReadsEof, Pings
    <3>2. \E h \in {"loop", "packet"} :
            At(r, h) /\ (Invoke(r, "logout", "packet") \/ Invoke(r, "crypt", "loop"))
      BY <2>3 DEF ReadsEof, Pings, Polls
    <3>3. Top(stack'[r]) \in {"logout", "crypt"} /\ \A q \in Readers \ {r} : stack'[q] = stack[q]
      BY <2>0, <3>2, <1>0, RestingInvoke
    <3> QED BY <3>1, <3>3, BuffersLeft DEF Answering
  <2>4. CASE Reads(r)
    <3>1. At(r, "loop") /\ Goto(r, "packet") /\ rd' = [rd EXCEPT ![r].buf = net.in]
      BY <2>4 DEF Reads, Polls
    <3>2. Top(stack'[r]) = "packet" /\ \A q \in Readers \ {r} : stack'[q] = stack[q]
      BY <2>0, <3>1, RestingGoto
    <3> DEFINE p == [rd[r] EXCEPT !.buf = net.in]
    <3>3. rd' = [rd EXCEPT ![r] = p] /\ net.in \in Seq(Packets)
      BY <3>1 DEF Fields
    <3>4. p = [buf |-> p.buf, pending |-> p.pending, take |-> p.take, cw |-> p.cw] /\ p.buf = net.in
      BY <2>1
    <3> HIDE DEF p
    <3> QED BY <3>2, <3>3, <3>4, BuffersOf DEF Answering
  <2>5. CASE AddShare(r) \/ DelShare(r) \/ Answers(r)
    <3>1. At(r, "packet") /\ rd[r].buf # <<>> /\ rd' = Popped(r)
          /\ (stack' = stack \/ Invoke(r, "crypt", "packet"))
      BY <2>5 DEF AddShare, DelShare, Answers, Packet
    <3>2. Top(stack[r]) = "packet"
      BY <2>0, <3>1, AtIs
    <3>3. Top(stack'[r]) \in {"packet", "crypt"} /\ \A q \in Readers \ {r} : stack'[q] = stack[q]
      <4>1. CASE stack' = stack
        BY <3>2, <4>1
      <4>2. CASE Invoke(r, "crypt", "packet")
        BY <2>0, <3>1, <4>2, <1>0, RestingInvoke
      <4> QED BY <3>1, <4>1, <4>2
    <3>4. PICK tl \in Seq(Packets) : rd' = [rd EXCEPT ![r].buf = tl]
      <4>1. Tail(rd[r].buf) \in Seq(Packets)
        BY <2>1, <3>1, PacketIs
      <4> QED BY <3>1, <4>1 DEF Popped
    <3> DEFINE p == [rd[r] EXCEPT !.buf = tl]
    <3>5. rd' = [rd EXCEPT ![r] = p]
      BY <3>4
    <3>6. p = [buf |-> p.buf, pending |-> p.pending, take |-> p.take, cw |-> p.cw] /\ p.buf = tl
      BY <2>1, WithBuffer
    <3> HIDE DEF p
    <3> QED BY <3>3, <3>5, <3>6, BuffersOf DEF Answering
  <2>6. CASE SeesAnswer(r)
    <3>1. At(r, "packet") /\ rd[r].buf # <<>> /\ IsAnswer(Head(rd[r].buf)) /\ Goto(r, "counted")
          /\ rd' = [rd EXCEPT ![r].pending = cl.pending]
      BY <2>6 DEF SeesAnswer
    <3>2. \A q \in Readers \ {r} : stack'[q] = stack[q]
      BY <2>0, <3>1, RestingGoto
    <3> DEFINE p == [rd[r] EXCEPT !.pending = cl.pending]
    <3>4. rd' = [rd EXCEPT ![r] = p]
      BY <2>1, <3>1
    <3>5. p = [buf |-> p.buf, pending |-> p.pending, take |-> p.take, cw |-> p.cw]
          /\ p.buf = rd[r].buf
      BY <2>1
    <3> HIDE DEF p
    <3> QED BY <2>1, <3>1, <3>2, <3>4, <3>5, BuffersOf
  <2>7. CASE Counts(r)
    <3>1. At(r, "counted") /\ Goto(r, Head(rd[r].buf).cmd) /\ rd' = rd
      BY <2>7 DEF Counts
    <3>2. rd[r].buf # <<>> /\ IsAnswer(Head(rd[r].buf))
      BY <2>0, <3>1, AtIs DEF Buffers
    <3>3. \A q \in Readers \ {r} : stack'[q] = stack[q]
      BY <2>0, <3>1, OthersStay
    <3>4. \A q \in Readers : Top(stack'[q]) \in Answering => rd[q].buf # <<>> /\ IsAnswer(Head(rd[q].buf))
      BY <3>2, <3>3 DEF Buffers, Answering
    <3> QED BY <3>1, <3>4 DEF Buffers, Answering
  <2>8. CASE Unscrambles(r)
    <3>1. At(r, "cw") /\ Goto(r, "deliver")
      BY <2>8 DEF Unscrambles
    <3>2. rd[r].buf # <<>> /\ IsAnswer(Head(rd[r].buf))
      BY <2>0, <3>1, AtIs DEF Buffers
    <3>3. \A q \in Readers \ {r} : stack'[q] = stack[q]
      BY <2>0, <3>1, OthersStay
    <3>4. PICK cw, take : rd' = [rd EXCEPT ![r].cw = cw, ![r].take = take]
      BY <2>8 DEF Unscrambles
    <3> DEFINE o == [rd[r] EXCEPT !.cw = cw]
    <3>5. o = [buf |-> o.buf, pending |-> o.pending, take |-> o.take, cw |-> o.cw]
          /\ o.buf = rd[r].buf
      BY <2>1
    <3>6. [rd EXCEPT ![r].cw = cw] = [rd EXCEPT ![r] = o]
      OBVIOUS
    <3>7. rd' = [rd EXCEPT ![r] = [o EXCEPT !.take = take]]
      BY <2>1, <3>4, <3>6
    <3> HIDE DEF o
    <3> DEFINE p == [o EXCEPT !.take = take]
    <3>8. p = [buf |-> p.buf, pending |-> p.pending, take |-> p.take, cw |-> p.cw]
          /\ p.buf = rd[r].buf
      BY <3>5
    <3>9. rd' = [rd EXCEPT ![r] = p]
      BY <3>7
    <3> HIDE DEF p
    <3> QED BY <2>1, <3>2, <3>3, <3>8, <3>9, BuffersOf
  <2>9. CASE Delivers(r) \/ CannotDecode(r)
    <3>1. /\ At(r, "deliver") \/ At(r, "no")
          /\ Goto(r, "packet") \/ Invoke(r, "logout", "packet")
          /\ rd' = [rd EXCEPT ![r] = [NoPacket EXCEPT !.buf = Tail(rd[r].buf)]]
      BY <2>9 DEF Delivers, CannotDecode
    <3>2. rd[r].buf # <<>>
      BY <2>0, <3>1, AtIs DEF Buffers
    <3>3. Top(stack'[r]) \in {"packet", "logout"} /\ \A q \in Readers \ {r} : stack'[q] = stack[q]
      BY <2>0, <3>1, <1>0, RestingGoto, RestingInvoke
    <3>4. PICK tl \in Seq(Packets) : rd' = [rd EXCEPT ![r] = [NoPacket EXCEPT !.buf = tl]]
      <4>1. Tail(rd[r].buf) \in Seq(Packets)
        BY <2>1, <3>2, PacketIs
      <4> QED BY <3>1, <4>1
    <3> DEFINE p == [NoPacket EXCEPT !.buf = tl]
    <3>5. rd' = [rd EXCEPT ![r] = p]
      BY <3>4
    <3>6. p = [buf |-> p.buf, pending |-> p.pending, take |-> p.take, cw |-> p.cw] /\ p.buf = tl
      <4>1. NoPacket = [buf |-> NoPacket.buf, pending |-> NoPacket.pending, take |-> NoPacket.take,
                        cw |-> NoPacket.cw]
        BY DEF NoPacket
      <4> QED BY <4>1, WithBuffer
    <3> HIDE DEF p
    <3> QED BY <3>3, <3>5, <3>6, BuffersOf DEF Answering
  <2>10. CASE ReaderEnds(r) \/ Dies(r)
    <3>1. stack' = [stack EXCEPT ![r] = <<>>] /\ (rd' = rd \/ rd' = [rd EXCEPT ![r] = NoPacket])
      BY <2>10 DEF ReaderEnds, Dies
    <3>2. stack'[r] = <<>> /\ \A q \in Readers \ {r} : stack'[q] = stack[q]
      BY <2>0, <3>1 DEF Stacks
    <3>3. Top(stack'[r]) \notin Answering
      BY <3>2 DEF Top, Answering
    <3>4. NoPacket = [buf |-> NoPacket.buf, pending |-> NoPacket.pending, take |-> NoPacket.take,
                      cw |-> NoPacket.cw] /\ NoPacket.buf \in Seq(Packets)
      BY EmptySeq DEF NoPacket
    <3>5. CASE rd' = rd
      BY <3>2, <3>3, <3>5, BuffersLeft
    <3>6. CASE rd' = [rd EXCEPT ![r] = NoPacket]
      BY <3>2, <3>3, <3>4, <3>6, BuffersOf
    <3> QED BY <3>1, <3>5, <3>6
  <2> QED BY <1>4, <1>6, <2>0, <2>2, <2>3, <2>4, <2>5, <2>6, <2>7, <2>8, <2>9, <2>10 DEF ReaderStep
<1>7. CASE WatcherStep \/ Announces \/ Questions \/ Replies \/ ServerCloses \/ UNCHANGED clientVars
  BY <1>2, <1>7 DEF WatcherStep, WatcherLocks, WatcherLooks, Announces, Questions, Replies,
                    ServerCloses, Pushes, clientVars
<1> QED BY <1>3, <1>5, <1>6, <1>7 DEF ClientNext

LEMMA ShapesAlways == ClientSpec => [](Stacks /\ Fields /\ Buffers)
<1>1. ClientInit => Stacks /\ Fields /\ Buffers
  BY StacksInitially, FieldsInitially
<1>2. (Stacks /\ Fields /\ Buffers) /\ [ClientNext]_clientVars => (Stacks /\ Fields /\ Buffers)'
  BY StacksKept, FieldsKept, BuffersKept
<1> QED BY <1>1, <1>2, PTL DEF ClientSpec

-----------------------------------------------------------------------------
(* The shape of the stack of a reader.                                     *)

\* A reader is in a login only where it waits for its own end.
LEMMA NoLoginUnder ==
  ASSUME NEW s \in Seq(Labels), s # <<>>, ReaderShape(s), Head(s) \notin {"logout", "join"}
  PROVE  \A i \in 2 .. Len(s) : s[i] \in {"fail", "loop", "packet"}
<1>1. Len(s) \in Nat
  BY HeadOf
<1>2. ASSUME 2 \in 2 .. Len(s) PROVE s[2] # "connect"
  BY <1>2 DEF ReaderShape
<1>3. ASSUME NEW i \in 2 .. Len(s) PROVE s[i] \in {"fail", "loop", "packet"}
  <2>1. 2 \in 2 .. Len(s)
    BY <1>1
  <2> QED BY <1>2, <2>1 DEF ReaderShape
<1> QED BY <1>3

LEMMA ShapeGoto ==
  ASSUME NEW s \in Seq(Labels), s # <<>>, ReaderShape(s), NEW n, Len(n) = Len(s),
         \A i \in 2 .. Len(s) : n[i] = s[i], Head(n) \notin Logins \cup {"resend"},
         \/ Head(n) \in {"logout", "join"}
         \/ Head(s) \notin {"logout", "join"}
         \/ ~(Len(s) > 1 /\ s[2] = "connect"),
         Under(Head(n)) = {} \/ Under(Head(s)) # {}, n # <<>>, n \in Seq(Labels)
  PROVE  ReaderShape(n)
<1>1. Len(s) \in Nat \ {0} /\ Head(s) = s[1] /\ Head(n) = n[1]
  BY HeadOf
<1>2. ASSUME NEW i \in 2 .. Len(n)
      PROVE  \/ n[i] \in {"fail", "loop", "packet"}
             \/ i = 2 /\ n[i] = "connect" /\ Head(n) \in {"logout", "join"}
             \/ i = 3 /\ n[i] = "resend" /\ n[2] = "connect"
  <2>1. n[i] = s[i] /\ 2 \in 2 .. Len(s) /\ n[2] = s[2] /\ Len(s) > 1
    BY <1>1
  <2>2. CASE s[i] \in {"fail", "loop", "packet"}
    BY <2>1, <2>2
  <2>3. CASE i = 2 /\ s[i] = "connect" /\ Head(s) \in {"logout", "join"}
    BY <2>1, <2>3
  <2>4. CASE i = 3 /\ s[i] = "resend" /\ s[2] = "connect"
    BY <2>1, <2>4
  <2> QED BY <2>2, <2>3, <2>4 DEF ReaderShape
<1>3. Under(n[Len(n)]) = {}
  <2>1. Under(s[Len(s)]) = {}
    BY DEF ReaderShape
  <2>2. CASE Len(s) = 1
    BY <1>1, <2>1, <2>2
  <2>3. CASE Len(s) # 1
    <3>1. Len(s) \in 2 .. Len(s)
      BY <1>1, <2>3
    <3> QED BY <2>1, <3>1
  <2> QED BY <2>2, <2>3
<1> QED BY <1>2, <1>3 DEF ReaderShape

LEMMA ShapeReturn ==
  ASSUME NEW s \in Seq(Labels), s # <<>>, ReaderShape(s), Head(s) \notin {"logout", "join"},
         NEW n, Len(n) = Len(s) - 1, \A i \in 1 .. Len(s) - 1 : n[i] = s[i + 1],
         Len(s) > 1, Head(n) = s[2]
  PROVE  /\ ReaderShape(n) /\ Head(n) \in {"fail", "loop", "packet"}
         /\ ~(Len(n) > 1 /\ n[2] = "connect")
<1>1. Len(s) \in Nat /\ \A i \in 2 .. Len(s) : s[i] \in {"fail", "loop", "packet"}
  BY HeadOf, NoLoginUnder
<1>2. Head(n) \in {"fail", "loop", "packet"}
  BY <1>1
<1>3. ASSUME NEW i \in 2 .. Len(n) PROVE n[i] \in {"fail", "loop", "packet"}
  <2>1. i \in 1 .. Len(s) - 1 /\ i + 1 \in 2 .. Len(s)
    BY <1>1
  <2> QED BY <1>1, <2>1
<1>4. Len(n) > 1 => n[2] \in {"fail", "loop", "packet"}
  BY <1>1, <1>3
<1>5. Under(n[Len(n)]) = {}
  <2>1. Under(s[Len(s)]) = {}
    BY DEF ReaderShape
  <2>2. Len(n) \in 1 .. Len(s) - 1 /\ Len(n) + 1 = Len(s)
    BY <1>1
  <2> QED BY <2>1, <2>2
<1> QED BY <1>2, <1>3, <1>4, <1>5 DEF ReaderShape, Logins

LEMMA ShapeInvoke ==
  ASSUME NEW s \in Seq(Labels), s # <<>>, ReaderShape(s), Head(s) \notin {"logout", "join"},
         NEW n, Len(n) = Len(s) + 1, n[2] \in {"fail", "loop", "packet"},
         \A i \in 2 .. Len(s) : n[i + 1] = s[i], Head(n) \notin Logins \cup {"resend"},
         Under(n[2]) = {} \/ Under(Head(s)) # {}
  PROVE  ReaderShape(n)
<1>1. Len(s) \in Nat \ {0} /\ Head(s) = s[1] /\ \A i \in 2 .. Len(s) : s[i] \in {"fail", "loop", "packet"}
  BY HeadOf, NoLoginUnder
<1>2. ASSUME NEW i \in 2 .. Len(n) PROVE n[i] \in {"fail", "loop", "packet"}
  <2>1. CASE i = 2
    BY <2>1
  <2>2. CASE i # 2
    <3>1. i - 1 \in 2 .. Len(s) /\ (i - 1) + 1 = i
      BY <1>1, <2>2
    <3> QED BY <1>1, <3>1
  <2> QED BY <2>1, <2>2
<1>3. Under(n[Len(n)]) = {}
  <2>1. Under(s[Len(s)]) = {}
    BY DEF ReaderShape
  <2>2. CASE Len(s) = 1
    BY <1>1, <2>1, <2>2
  <2>3. CASE Len(s) # 1
    <3>1. Len(s) \in Nat \ {0}
      BY HeadOf
    <3>2. \A k \in Nat \ {0} : k # 1 => k \in 2 .. k
      OBVIOUS
    <3>3. Len(s) \in 2 .. Len(s)
      BY <2>3, <3>1, <3>2
    <3> QED BY <2>1, <3>3
  <2> QED BY <2>2, <2>3
<1> QED BY <1>2, <1>3 DEF ReaderShape

LEMMA ShapeLogin ==
  ASSUME NEW s \in Seq(Labels), s # <<>>, ReaderShape(s), Head(s) \notin {"logout", "join"},
         NEW n, Len(n) = Len(s) + 2, n[2] = "connect", n[3] = "resend", Head(n) = "logout",
         \A i \in 2 .. Len(s) : n[i + 2] = s[i], Under(Head(s)) # {}
  PROVE  ReaderShape(n)
<1>1. Len(s) \in Nat \ {0} /\ Head(s) = s[1] /\ \A i \in 2 .. Len(s) : s[i] \in {"fail", "loop", "packet"}
  BY HeadOf, NoLoginUnder
<1>2. ASSUME NEW i \in 2 .. Len(n), i # 2, i # 3 PROVE n[i] \in {"fail", "loop", "packet"}
  <2>1. i - 2 \in 2 .. Len(s) /\ (i - 2) + 2 = i
    BY <1>1, <1>2
  <2> QED BY <1>1, <2>1
<1>3. Under(n[Len(n)]) = {}
  <2>1. Under(s[Len(s)]) = {}
    BY DEF ReaderShape
  <2>2. Len(s) \in 2 .. Len(s)
    BY <1>1, <2>1
  <2> QED BY <2>1, <2>2
<1> QED BY <1>2, <1>3 DEF ReaderShape, Logins

-----------------------------------------------------------------------------
(* The session.                                                            *)

Session == SocketInv /\ \A r \in Readers : ReaderInv(r)

\* What Session does not look at.
LEMMA GoodLeft ==
  ASSUME Session, UNCHANGED <<stack, th>>, so'.up = so.up, so'.lock = so.lock
  PROVE  Session'
BY DEF Session, SocketInv, ReaderInv, Top

\* A reader that is not cancelled is the one there is.
LEMMA TheReader ==
  ASSUME Session, NEW r \in Readers, stack[r] # <<>>, r \notin th.cancelled
  PROVE  th.active /\ th.child = r /\ ReaderShape(stack[r])
BY DEF Session, ReaderInv

LEMMA CallerMoves ==
  ASSUME Session, Fields, \A u \in Readers : stack'[u] = stack[u], th' = th,
         so'.up = so.up, so'.lock = so.lock,
         Top(stack[Caller]) \notin {"logout", "join", "detach", "close"} \cup Logins,
         Top(stack'[Caller]) \notin {"detach", "close", "clear"} \cup Logins
  PROVE  Session'
<1>1. th.active => th.child \in Readers
  BY DEF Fields
<1>2. SocketInv'
  BY <1>1 DEF Session, SocketInv, Logins, Top
<1>3. ASSUME NEW r \in Readers PROVE ReaderInv(r)'
  BY <1>3 DEF Session, ReaderInv, Top
<1> QED BY <1>2, <1>3 DEF Session

LEMMA ReaderMoves ==
  ASSUME Session, Fields, NEW r \in Readers, r \notin th.cancelled, stack[r] # <<>>,
         Head(stack[r]) \notin {"join", "detach", "close"},
         \A u \in Threads \ {r} : stack'[u] = stack[u],
         stack'[r] # <<>>, ReaderShape(stack'[r]), Head(stack'[r]) \notin {"close", "begin"},
         th.tid = r => ~(Len(stack'[r]) > 1 /\ stack'[r][2] = "connect"),
         th' = th, so'.up = so.up, so'.lock = so.lock
  PROVE  Session'
<1>1. th.active /\ th.child = r
  BY TheReader
<1>2. Caller \in Threads \ {r} /\ \A q \in Readers \ {r} : q \in Threads \ {r}
  BY ReadersAssumption DEF Threads, Caller
<1>3. Top(stack[r]) = Head(stack[r])
  BY DEF Top
<1>4. SocketInv'
  BY <1>1, <1>2, <1>3 DEF Session, SocketInv, Top
<1>5. ReaderInv(r)'
  BY <1>1 DEF Session, ReaderInv
<1>6. ASSUME NEW q \in Readers \ {r} PROVE ReaderInv(q)'
  BY <1>2, <1>6 DEF Session, ReaderInv, Top
<1> QED BY <1>4, <1>5, <1>6 DEF Session

\* A reader goes on, calls and returns.
LEMMA ReaderGoes ==
  ASSUME Stacks, Fields, Session, NEW r \in Readers, r \notin th.cancelled, NEW h, At(r, h),
         h \notin {"logout", "join", "detach", "close"}, NEW l \in Labels, Under(h) \subseteq Under(l),
         Under(l) = {} \/ Under(h) # {}, l \notin Logins \cup {"resend", "close", "begin"}, Goto(r, l), UNCHANGED th,
         so'.up = so.up, so'.lock = so.lock
  PROVE  Session'
<1> DEFINE s == stack[r]
<1>1. r \in Threads
  BY DEF Threads
<1>2. s \in Seq(Labels) /\ s # <<>> /\ Head(s) = h
  BY <1>1, AtIs
<1>3. /\ stack'[r] # <<>> /\ Head(stack'[r]) = l
      /\ Len(stack'[r]) = Len(s) /\ \A i \in 2 .. Len(s) : stack'[r][i] = s[i]
      /\ \A u \in Threads \ {r} : stack'[u] = stack[u]
  BY <1>1, GotoIs
<1>8. stack'[r] \in Seq(Labels)
  BY <1>1, GotoIs DEF Stacks
<1>4. ReaderShape(s)
  BY <1>2 DEF Session, ReaderInv
<1> HIDE DEF s
<1>5. ReaderShape(stack'[r])
  BY <1>2, <1>3, <1>4, <1>8, ShapeGoto
<1>6. Len(s) \in Nat /\ \A i \in 2 .. Len(s) : s[i] \in {"fail", "loop", "packet"}
  BY <1>2, <1>4, HeadOf, NoLoginUnder
<1>7. ~(Len(stack'[r]) > 1 /\ stack'[r][2] = "connect")
  <2>1. Len(s) > 1 => 2 \in 2 .. Len(s)
    BY <1>6
  <2> QED BY <1>3, <1>6, <2>1
<1> QED BY <1>2, <1>3, <1>5, <1>7, ReaderMoves DEF s

LEMMA ReaderCalls ==
  ASSUME Stacks, Fields, Session, NEW r \in Readers, r \notin th.cancelled, NEW h, At(r, h),
         h \notin {"logout", "join", "detach", "close"}, NEW a \in {"logout", "crypt"},
         NEW b \in {"fail", "loop", "packet"}, b \in Under(a), Under(h) \subseteq Under(b),
         Under(b) = {} \/ Under(h) # {},
         Invoke(r, a, b), UNCHANGED th, so'.up = so.up, so'.lock = so.lock
  PROVE  Session'
<1> DEFINE s == stack[r]
<1>1. r \in Threads /\ a \in Labels /\ b \in Labels /\ a \notin Logins \cup {"resend", "close", "begin"}
  BY DEF Threads, Labels, Logins
<1>2. s \in Seq(Labels) /\ s # <<>> /\ Head(s) = h
  BY <1>1, AtIs
<1>3. /\ stack'[r] # <<>> /\ Head(stack'[r]) = a
      /\ Len(stack'[r]) = Len(s) + 1 /\ stack'[r][2] = b
      /\ \A i \in 2 .. Len(s) : stack'[r][i + 1] = s[i]
      /\ \A u \in Threads \ {r} : stack'[u] = stack[u]
  BY <1>1, InvokeIs
<1>4. ReaderShape(s)
  BY <1>2 DEF Session, ReaderInv
<1> HIDE DEF s
<1>5. ReaderShape(stack'[r])
  BY <1>1, <1>2, <1>3, <1>4, ShapeInvoke
<1> QED BY <1>1, <1>2, <1>3, <1>5, ReaderMoves DEF s

LEMMA ReaderReturns ==
  ASSUME Stacks, Fields, Session, NEW r \in Readers, r \notin th.cancelled,
         NEW h \in {"clear", "fail", "write"}, At(r, h), NEW v \in BOOLEAN, Return(r, v),
         UNCHANGED th, so'.up = so.up, so'.lock = so.lock
  PROVE  Session'
<1> DEFINE s == stack[r]
<1>1. r \in Threads
  BY DEF Threads
<1>2. s \in Seq(Labels) /\ s # <<>> /\ Head(s) = h /\ Nested(s)
  BY <1>1, AtIs
<1>3. /\ stack'[r] # <<>> => Len(s) > 1 /\ Head(stack'[r]) = s[2]
      /\ Len(stack'[r]) = Len(s) - 1 /\ \A i \in 1 .. Len(s) - 1 : stack'[r][i] = s[i + 1]
      /\ \A u \in Threads \ {r} : stack'[u] = stack[u]
  BY <1>1, ReturnIs
<1>4. ReaderShape(s)
  BY <1>2 DEF Session, ReaderInv
<1> HIDE DEF s
<1>5. stack'[r] # <<>> /\ Len(s) > 1
  <2>1. Under(h) # {}
    BY UnderOuts, UnderSending, UnderFail DEF Outs, Sending
  <2>2. Len(s) \in Nat \ {0} /\ Head(s) = s[1] /\ Under(s[Len(s)]) = {}
    BY <1>2, <1>4, HeadOf DEF ReaderShape
  <2>3. Len(s) > 1
    BY <1>2, <2>1, <2>2
  <2>4. Len(<<>>) = 0
    OBVIOUS
  <2> QED BY <1>3, <2>2, <2>3, <2>4
<1>6. /\ ReaderShape(stack'[r]) /\ Head(stack'[r]) \in {"fail", "loop", "packet"}
      /\ ~(Len(stack'[r]) > 1 /\ stack'[r][2] = "connect")
  BY <1>2, <1>3, <1>4, <1>5, ShapeReturn
<1> QED BY <1>2, <1>3, <1>5, <1>6, ReaderMoves DEF s

\* Steps of a reader that it has in common with the caller.
LEMMA ReaderThread ==
  ASSUME Stacks, Fields, Session, NEW r \in Readers, ThreadStep(r)
  PROVE  Session' \/ th'.own
<1> DEFINE s == stack[r]
<1>1. r \in Threads /\ r # Caller /\ Caller \in Threads \ {r}
  BY ReadersAssumption DEF Threads, Caller
<1>2. s # <<>> /\ s \in Seq(Labels) /\ Nested(s)
  BY <1>1, AtIs DEF ThreadStep, LogoutBegins, Joined, Cancels, Detach, Close, Clear, Fails, Connect,
     DisconnectInConnect, Connected, ConnectFails, DisconnectAfterConnect, Up, Welcomed, NotWelcomed,
     Start, Encrypts, Sends, Resends, Writes, WriteFails, At
<1>3. Top(s) = Head(s) /\ ReaderShape(s)
  BY <1>2 DEF Session, ReaderInv, Top
<1>4. Head(s) \notin Logins \cup {"resend"}
  BY <1>3 DEF ReaderShape
<1>5. \A l : At(r, l) => Head(s) = l
  BY DEF At
<1>6. r \in th.cancelled => Head(s) \in {"write", "join"}
  BY <1>3 DEF Session, ReaderInv
<1>7. r \notin th.cancelled
  <2> SUFFICES ASSUME r \in th.cancelled PROVE FALSE
    OBVIOUS
  <2>1. Head(s) \in {"write", "join"}
    BY <1>6
  <2>2. ~At(r, "write") /\ ~At(r, "join")
    BY <1>5, <2>1 DEF ThreadStep, LogoutBegins, Joined, Cancels, Detach, Close, Clear, Fails, Connect,
     DisconnectInConnect, Connected, ConnectFails, DisconnectAfterConnect, Up, Welcomed, NotWelcomed,
     Start, Encrypts, Sends, Resends, Writes, WriteFails
  <2> QED BY <1>2, <2>1, <2>2 DEF At
<1>8. th.active /\ th.child = r
  BY <1>2, <1>7, TheReader
<1>9. th.tid = r => Head(s) # "close" /\ ~(Len(s) > 1 /\ s[2] = "connect") /\ so.up
  BY <1>2, <1>7 DEF Session, ReaderInv
<1>10. \A q \in Readers \ {r} : q \in Threads \ {r} /\ (stack[q] # <<>> => q \in th.cancelled)
  BY <1>8, TheReader DEF Threads
<1> HIDE DEF s
<1>11. CASE LogoutBegins(r)
  <2>1. PICK l \in {"join", "detach"} :
          /\ At(r, "logout") /\ Goto(r, l)
          /\ l = IF th.active /\ r # th.tid THEN "join" ELSE "detach"
    BY <1>11 DEF LogoutBegins
  <2>2. th' = [th EXCEPT !.running = FALSE] /\ so' = so
    BY <1>11 DEF LogoutBegins
  <2>3. Head(s) = "logout"
    BY <1>5, <2>1
  <2>11. Under("logout") # {}
    BY UnderOuts DEF Outs
  <2>4. Under("logout") \subseteq Under(l)
    BY UnderOuts DEF Outs
  <2>5. /\ stack'[r] # <<>> /\ Head(stack'[r]) = l /\ Top(stack'[r]) = l
        /\ Len(stack'[r]) = Len(s) /\ \A i \in 2 .. Len(s) : stack'[r][i] = s[i]
        /\ stack'[r] \in Seq(Labels)
        /\ \A u \in Threads \ {r} : stack'[u] = stack[u]
    BY <1>1, <2>1, <2>4, GotoIs DEF s, Labels, Stacks
  <2>6. ReaderShape(stack'[r])
    <3>1. l \in {"logout", "join"} \/ ~(Len(s) > 1 /\ s[2] = "connect")
      BY <1>8, <1>9, <2>1
    <3>2. l \notin Logins \cup {"resend"}
      BY DEF Logins
    <3> QED BY <1>2, <1>3, <2>3, <2>5, <2>11, <3>1, <3>2, ShapeGoto
  <2>7. /\ th'.active = th.active /\ th'.child = th.child /\ th'.tid = th.tid
        /\ th'.cancelled = th.cancelled
    BY <2>2 DEF Fields
  <2>8. SocketInv'
    BY <1>1, <1>8, <2>2, <2>5, <2>7 DEF Session, SocketInv, Top
  <2>9. ReaderInv(r)'
    <3>1. th.tid = r => ~(Len(stack'[r]) > 1 /\ stack'[r][2] = "connect")
      <4>1. Len(s) \in Nat
        BY <1>2, HeadOf
      <4>2. Len(s) > 1 => 2 \in 2 .. Len(s)
        BY <4>1
      <4> QED BY <1>9, <2>5, <4>2
    <3> QED BY <1>7, <1>8, <1>9, <2>2, <2>5, <2>6, <2>7, <3>1 DEF ReaderInv
  <2>10. ASSUME NEW q \in Readers \ {r} PROVE ReaderInv(q)'
    BY <1>10, <2>2, <2>5, <2>7 DEF Session, ReaderInv, Top
  <2> QED BY <2>8, <2>9, <2>10 DEF Session
<1>12. CASE Joined(r)
  BY <1>8, <1>12 DEF Joined
<1>13. CASE Cancels(r)
  BY <1>8, <1>13 DEF Cancels, Fields
<1>14. CASE Detach(r)
  <2>1. At(r, "detach") /\ Goto(r, "close")
    BY <1>14 DEF Detach
  <2>2. th' = [th EXCEPT !.tid = NoOne] /\ so' = [so EXCEPT !.listed = FALSE]
    BY <1>14 DEF Detach
  <2>3. Head(s) = "detach"
    BY <1>5, <2>1
  <2>11. Under("detach") # {}
    BY UnderOuts DEF Outs
  <2>4. Under("detach") \subseteq Under("close")
    BY UnderOuts DEF Outs
  <2>5. /\ stack'[r] # <<>> /\ Head(stack'[r]) = "close" /\ Top(stack'[r]) = "close"
        /\ Len(stack'[r]) = Len(s) /\ \A i \in 2 .. Len(s) : stack'[r][i] = s[i]
        /\ stack'[r] \in Seq(Labels)
        /\ \A u \in Threads \ {r} : stack'[u] = stack[u]
    BY <1>1, <2>1, <2>4, GotoIs DEF s, Labels, Stacks
  <2>6. ReaderShape(stack'[r])
    <3>1. "close" \notin Logins \cup {"resend"}
      BY DEF Logins
    <3> QED BY <1>2, <1>3, <2>3, <2>5, <2>11, <3>1, ShapeGoto
  <2>7. /\ th'.active = th.active /\ th'.child = th.child /\ th'.tid = NoOne
        /\ th'.cancelled = th.cancelled /\ th'.running = th.running
        /\ so'.up = so.up /\ so'.lock = so.lock
    BY <2>2 DEF Fields
  <2>8. SocketInv'
    BY <1>1, <1>3, <1>8, <2>3, <2>5, <2>7 DEF Session, SocketInv, Top, s
  <2>9. ReaderInv(r)'
    BY <1>7, <1>8, <2>5, <2>6, <2>7, ReadersAssumption DEF ReaderInv
  <2>10. ASSUME NEW q \in Readers \ {r} PROVE ReaderInv(q)'
    BY <1>10, <2>5, <2>7 DEF Session, ReaderInv, Top
  <2> QED BY <2>8, <2>9, <2>10 DEF Session
<1>15. CASE Close(r)
  <2>1. At(r, "close") /\ Goto(r, "clear") /\ th' = th /\ so' = [so EXCEPT !.up = FALSE]
    BY <1>15 DEF Close
  <2>3. Head(s) = "close"
    BY <1>5, <2>1
  <2>11. Under("close") # {}
    BY UnderOuts DEF Outs
  <2>4. Under("close") \subseteq Under("clear")
    BY UnderOuts DEF Outs
  <2>5. /\ stack'[r] # <<>> /\ Head(stack'[r]) = "clear" /\ Top(stack'[r]) = "clear"
        /\ Len(stack'[r]) = Len(s) /\ \A i \in 2 .. Len(s) : stack'[r][i] = s[i]
        /\ stack'[r] \in Seq(Labels)
        /\ \A u \in Threads \ {r} : stack'[u] = stack[u]
    BY <1>1, <2>1, <2>4, GotoIs DEF s, Labels, Stacks
  <2>6. ReaderShape(stack'[r])
    <3>1. "clear" \notin Logins \cup {"resend"}
      BY DEF Logins
    <3> QED BY <1>2, <1>3, <2>3, <2>5, <2>11, <3>1, ShapeGoto
  <2>7. so'.up = FALSE /\ so'.lock = so.lock
    BY <2>1 DEF Fields
  <2>8. SocketInv'
    BY <1>1, <1>8, <2>1, <2>5, <2>7 DEF Session, SocketInv, Top, Logins
  <2>9. ReaderInv(r)'
    BY <1>7, <1>8, <1>9, <2>1, <2>3, <2>5, <2>6, <2>7 DEF ReaderInv
  <2>10. ASSUME NEW q \in Readers \ {r} PROVE ReaderInv(q)'
    BY <1>10, <2>1, <2>5, <2>7 DEF Session, ReaderInv, Top
  <2> QED BY <2>8, <2>9, <2>10 DEF Session
<1>16. CASE Clear(r) \/ Fails(r) \/ Writes(r)
  <2>1. PICK h \in {"clear", "fail", "write"}, v \in BOOLEAN : At(r, h) /\ Return(r, v)
    BY <1>16 DEF Clear, Fails, Writes
  <2>2. UNCHANGED <<th, so>>
    BY <1>16 DEF Clear, Fails, Writes
  <2> QED BY <1>1, <1>2, <1>3, <1>5, <1>7, <2>1, <2>2, ReaderReturns DEF s
<1>17. CASE Encrypts(r) \/ (Sends(r) /\ so.up)
  <2>1. PICK h \in {"crypt", "send"}, l \in {"send", "write"} : At(r, h) /\ Goto(r, l)
    BY <1>17 DEF Encrypts, Sends
  <2>2. UNCHANGED <<th, so>>
    BY <1>17 DEF Encrypts, Sends
  <2>3. Under(h) \subseteq Under(l) /\ Under(h) # {} /\ h \notin {"logout", "join", "detach", "close"}
        /\ l \notin Logins \cup {"resend", "close", "begin"}
    BY UnderSending DEF Sending, Logins
  <2> QED BY <1>1, <1>2, <1>3, <1>5, <1>7, <2>1, <2>2, <2>3, ReaderGoes DEF s, Labels
<1>18. CASE Sends(r) /\ ~so.up
  <2>1. At(r, "send") /\ Login(r, "resend") /\ UNCHANGED <<th, so>>
    BY <1>18 DEF Sends
  <2>2. Under("send") \subseteq Under("resend") /\ Under("send") # {}
    BY SameUnder, UnderSending DEF Sending
  <2>3. Head(s) = "send"
    BY <1>5, <2>1
  <2>5. /\ stack'[r] # <<>> /\ Head(stack'[r]) = "logout"
        /\ Len(stack'[r]) = Len(s) + 2 /\ stack'[r][2] = "connect" /\ stack'[r][3] = "resend"
        /\ \A i \in 2 .. Len(s) : stack'[r][i + 2] = s[i]
        /\ \A u \in Threads \ {r} : stack'[u] = stack[u]
    BY <1>1, <2>1, <2>2, LoginIs DEF s
  <2>6. ReaderShape(stack'[r])
    BY <1>2, <1>3, <2>2, <2>3, <2>5, ShapeLogin
  <2>7. th.tid # r
    BY <1>9, <1>18
  <2> QED BY <1>1, <1>2, <1>7, <2>1, <2>3, <2>5, <2>6, <2>7, ReaderMoves DEF s
<1>19. CASE WriteFails(r)
  <2>1. At(r, "write") /\ Invoke(r, "logout", "fail") /\ UNCHANGED <<th, so>>
    BY <1>19 DEF WriteFails
  <2>2. Under("write") \subseteq Under("fail") /\ "fail" \in Under("logout") /\ Under("write") # {}
    BY SameUnder, UnderOuts, UnderSending DEF Sending, Outs
  <2> QED BY <1>1, <1>2, <1>3, <1>5, <1>7, <2>1, <2>2, ReaderCalls DEF s
<1>20. ~(Connect(r) \/ DisconnectInConnect(r) \/ Connected(r) \/ ConnectFails(r)
         \/ DisconnectAfterConnect(r) \/ Up(r) \/ Welcomed(r) \/ NotWelcomed(r) \/ Start(r)
         \/ Resends(r))
  BY <1>4, <1>5 DEF Connect, DisconnectInConnect, Connected, ConnectFails, DisconnectAfterConnect, Up,
     Welcomed, NotWelcomed, Start, Resends, Logins
<1> QED BY <1>11, <1>12, <1>13, <1>14, <1>15, <1>16, <1>17, <1>18, <1>19, <1>20 DEF ThreadStep

\* Any step of a reader.
LEMMA ReaderSteps ==
  ASSUME Stacks, Fields, Buffers, Session, NEW r \in Readers, ReaderStep(r) \/ Pings(r)
  PROVE  Session' \/ th'.own
<1> DEFINE s == stack[r]
<1> USE LabelsAre DEF Resting
<1>1. r \in Threads /\ Caller \in Threads \ {r} /\ \A q \in Readers \ {r} : q \in Threads \ {r}
  BY ReadersAssumption DEF Threads, Caller
<1>2. \A l : At(r, l) => Head(s) = l /\ s # <<>> /\ Top(s) = l
  BY DEF At, Top
<1>3. \A l : At(r, l) /\ l \notin {"write", "join"} => r \notin th.cancelled
  BY <1>2 DEF Session, ReaderInv
<1> HIDE DEF s
<1>4. \A h, l \in Resting : Under(h) \subseteq Under(l) /\ Under(l) = {}
  BY UnderResting
<1>5. \A l \in {"loop", "packet", "counted", "cw", "no", "deliver"} :
        l \notin Logins \cup {"resend", "close", "begin"}
  BY DEF Logins
<1>6. "packet" \in Under("logout") /\ "packet" \in Under("crypt") /\ "loop" \in Under("crypt")
  BY UnderOuts, UnderSending DEF Outs, Sending
<1>7. CASE ReaderBegins(r)
  <2>1. At(r, "begin") /\ Goto(r, "loop") /\ th' = [th EXCEPT !.tid = r] /\ so' = so
    BY <1>7 DEF ReaderBegins
  <2>2. s \in Seq(Labels) /\ s # <<>> /\ Nested(s) /\ Head(s) = "begin" /\ r \notin th.cancelled
    BY <1>1, <1>3, <2>1, AtIs DEF s
  <2>3. th.active /\ th.child = r /\ ReaderShape(s) /\ so.up
    BY <2>2, TheReader DEF s, Session, ReaderInv
  <2>4. /\ stack'[r] # <<>> /\ Head(stack'[r]) = "loop" /\ Top(stack'[r]) = "loop"
        /\ Len(stack'[r]) = Len(s) /\ \A i \in 2 .. Len(s) : stack'[r][i] = s[i]
        /\ stack'[r] \in Seq(Labels) /\ \A u \in Threads \ {r} : stack'[u] = stack[u]
    BY <1>1, <1>4, <2>1, GotoIs DEF s, Stacks
  <2>5. ReaderShape(stack'[r])
    <3>1. Under("loop") = {}
      BY <1>4
    <3> QED BY <1>5, <2>2, <2>3, <2>4, <3>1, ShapeGoto
  <2>6. ~(Len(stack'[r]) > 1 /\ stack'[r][2] = "connect")
    <3>1. Len(s) \in Nat \ {0} /\ \A i \in 2 .. Len(s) : s[i] \in {"fail", "loop", "packet"}
      BY <2>2, <2>3, HeadOf, NoLoginUnder
    <3>2. Len(s) > 1 => 2 \in 2 .. Len(s)
      BY <3>1
    <3> QED BY <2>4, <3>1, <3>2
  <2>7. /\ th'.active = th.active /\ th'.child = th.child /\ th'.tid = r
        /\ th'.cancelled = th.cancelled /\ th'.running = th.running
    BY <2>1 DEF Fields
  <2>8. SocketInv'
    BY <1>1, <1>2, <2>1, <2>3, <2>4, <2>7 DEF Session, SocketInv, Top, s
  <2>9. ReaderInv(r)'
    BY <2>1, <2>2, <2>3, <2>4, <2>5, <2>6, <2>7 DEF ReaderInv
  <2>10. ASSUME NEW q \in Readers \ {r} PROVE ReaderInv(q)'
    BY <1>1, <2>1, <2>4, <2>7, <2>10 DEF Session, ReaderInv, Top
  <2> QED BY <2>8, <2>9, <2>10 DEF Session
<1>8. CASE Reads(r) \/ SeesAnswer(r) \/ Unscrambles(r) \/ CannotDecode(r) \/ EndOfBuffer(r)
           \/ (Delivers(r) /\ Goto(r, "packet"))
  <2>1. PICK h \in {"loop", "packet", "cw", "no", "deliver"},
             l \in {"loop", "packet", "counted", "deliver"} : At(r, h) /\ Goto(r, l)
    BY <1>8 DEF Reads, SeesAnswer, Unscrambles, CannotDecode, EndOfBuffer, Delivers, Polls
  <2>2. UNCHANGED <<th, so>>
    BY <1>8 DEF Reads, SeesAnswer, Unscrambles, CannotDecode, EndOfBuffer, Delivers
  <2> QED BY <1>3, <1>4, <1>5, <2>1, <2>2, ReaderGoes
<1>9. CASE Counts(r)
  <2>1. At(r, "counted") /\ Goto(r, Head(rd[r].buf).cmd) /\ UNCHANGED <<th, so>>
    BY <1>9 DEF Counts
  <2>2. IsAnswer(Head(rd[r].buf))
    BY <1>2, <2>1 DEF Buffers, s
  <2>3. PICK l \in {"cw", "no"} : Goto(r, l)
    BY <2>1, <2>2 DEF IsAnswer
  <2> QED BY <1>3, <1>4, <1>5, <2>1, <2>3, ReaderGoes
<1>10. CASE ReadsEof(r) \/ Pings(r) \/ Answers(r) \/ (Delivers(r) /\ Invoke(r, "logout", "packet"))
  <2>1. PICK h \in {"loop", "packet", "deliver"}, a \in {"logout", "crypt"}, b \in {"loop", "packet"} :
          At(r, h) /\ Invoke(r, a, b) /\ (a = "logout" => b = "packet")
    BY <1>10 DEF ReadsEof, Pings, Answers, Delivers, Polls, Packet
  <2>2. UNCHANGED <<th, so>>
    BY <1>10 DEF ReadsEof, Pings, Answers, Delivers
  <2>3. b \in Under(a) /\ b \in Resting /\ h \in Resting
    BY <1>6, <2>1
  <2>4. r \notin th.cancelled
    BY <1>3, <2>1
  <2> QED BY <1>4, <2>1, <2>2, <2>3, <2>4, ReaderCalls
<1>11. CASE AddShare(r) \/ DelShare(r)
  BY <1>11, GoodLeft DEF AddShare, DelShare
<1>12. CASE ReaderEnds(r)
  <2>1. /\ At(r, "loop") /\ (~th.running \/ ~so.up) /\ r \notin th.cancelled /\ so' = so
        /\ th' = [th EXCEPT !.running = FALSE, !.active = FALSE, !.tid = NoOne]
        /\ stack' = [stack EXCEPT ![r] = <<>>]
    BY <1>12 DEF ReaderEnds
  <2>2. th.active /\ th.child = r
    BY <1>2, <2>1, TheReader DEF s
  <2>3. /\ ~th'.running /\ ~th'.active /\ th'.tid = NoOne /\ th'.cancelled = th.cancelled
    BY <2>1 DEF Fields
  <2>4. stack'[r] = <<>> /\ \A u \in Threads \ {r} : stack'[u] = stack[u]
    BY <1>1, <2>1 DEF Stacks
  <2>5. Top(stack[r]) = "loop"
    BY <1>2, <2>1 DEF s
  <2>6. SocketInv'
    BY <1>1, <2>1, <2>2, <2>3, <2>4, <2>5 DEF Session, SocketInv, Top, Logins
  <2>7. ReaderInv(r)'
    BY <2>1, <2>3, <2>4 DEF ReaderInv
  <2>8. ASSUME NEW q \in Readers \ {r} PROVE ReaderInv(q)'
    <3>1. stack'[q] = stack[q] /\ (stack[q] # <<>> => q \in th.cancelled)
      BY <1>1, <2>2, <2>4, TheReader
    <3> QED BY <2>3, <3>1 DEF Session, ReaderInv, Top
  <2> QED BY <2>6, <2>7, <2>8 DEF Session
<1>13. CASE Dies(r)
  <2>1. /\ r \in th.cancelled /\ stack[r] # <<>>
        /\ th' = [th EXCEPT !.cancelled = @ \ {r}]
        /\ stack' = [stack EXCEPT ![r] = <<>>]
        /\ so' = [so EXCEPT !.lock = IF @ = r THEN Dead ELSE @]
    BY <1>13 DEF Dies
  <2>2. so.lock # r
    BY <1>1, ReadersAssumption DEF Session, SocketInv
  <2>3. so'.up = so.up /\ so'.lock = so.lock
    BY <2>1, <2>2 DEF Fields
  <2>4. /\ th'.running = th.running /\ th'.active = th.active /\ th'.tid = th.tid
        /\ th'.child = th.child /\ th'.cancelled = th.cancelled \ {r}
    BY <2>1 DEF Fields
  <2>5. stack'[r] = <<>> /\ \A u \in Threads \ {r} : stack'[u] = stack[u]
    BY <1>1, <2>1 DEF Stacks
  <2>6. th.active => th.child \in Threads \ {r} /\ th.child \notin th.cancelled
    BY <1>1, <2>1 DEF Session, SocketInv, Fields
  <2>7. SocketInv'
    BY <1>1, <2>3, <2>4, <2>5, <2>6 DEF Session, SocketInv, Top
  <2>8. ReaderInv(r)'
    BY <2>4, <2>5 DEF ReaderInv
  <2>9. ASSUME NEW q \in Readers \ {r} PROVE ReaderInv(q)'
    BY <1>1, <2>3, <2>4, <2>5, <2>9 DEF Session, ReaderInv, Top
  <2> QED BY <2>7, <2>8, <2>9 DEF Session
<1>14. Delivers(r) => Goto(r, "packet") \/ Invoke(r, "logout", "packet")
  BY DEF Delivers
<1>15. CASE ThreadStep(r)
  BY <1>15, ReaderThread
<1> QED BY <1>7, <1>8, <1>9, <1>10, <1>11, <1>12, <1>13, <1>14, <1>15 DEF ReaderStep

\* Steps of the caller that it has in common with a reader.
LEMMA CallerThread ==
  ASSUME Stacks, Fields, Session, ThreadStep(Caller)
  PROVE  Session' \/ Doomed'
<1> DEFINE s == stack[Caller]
<1>1. Caller \in Threads /\ \A q \in Readers : q \in Threads \ {Caller} /\ q # Caller
  BY ReadersAssumption DEF Threads, Caller
<1>2. \A l : At(Caller, l) => s # <<>> /\ Top(s) = l
  BY DEF At, Top
<1> HIDE DEF s
<1>3. \A l, n : At(Caller, l) /\ l \in Labels /\ n \in Labels /\ Under(l) \subseteq Under(n)
                 /\ Goto(Caller, n)
        => Top(stack'[Caller]) = n /\ \A q \in Readers : stack'[q] = stack[q]
  BY <1>1, GotoIs
<1>4. ~th.active => \A q \in Readers : stack[q] # <<>> => q \in th.cancelled
  BY TheReader
<1>5. ASSUME \A q \in Readers : stack'[q] = stack[q], \A q \in Readers : stack[q] # <<>> => q \in th.cancelled,
             th'.cancelled = th.cancelled
      PROVE  \A q \in Readers : ReaderInv(q)'
  BY <1>5 DEF Session, ReaderInv, Top
<1>6. th.active => th.child \in Readers
  BY DEF Fields
<1>7. ASSUME NEW h, At(Caller, h), Under(h) \subseteq Under("fail"), Invoke(Caller, "logout", "fail")
      PROVE  Top(stack'[Caller]) = "logout" /\ \A q \in Readers : stack'[q] = stack[q]
  <2>1. "logout" \in Labels /\ "fail" \in Labels /\ "fail" \in Under("logout")
    BY UnderOuts DEF Labels, Outs
  <2> QED BY <1>1, <1>7, <2>1, InvokeIs
<1> USE DEF Outs, Logins, Labels
<1>10. CASE LogoutBegins(Caller)
  <2>1. PICK n \in {"join", "detach"} :
          /\ At(Caller, "logout") /\ Goto(Caller, n)
          /\ n = IF th.active /\ Caller # th.tid THEN "join" ELSE "detach"
    BY <1>10 DEF LogoutBegins
  <2>2. th' = [th EXCEPT !.running = FALSE] /\ so' = so
    BY <1>10 DEF LogoutBegins
  <2>3. Top(s) = "logout" /\ Top(stack'[Caller]) = n /\ \A q \in Readers : stack'[q] = stack[q]
    BY <1>2, <1>3, <2>1, UnderOuts
  <2>4. /\ th'.active = th.active /\ th'.child = th.child /\ th'.tid = th.tid
        /\ th'.cancelled = th.cancelled
    BY <2>2 DEF Fields
  <2>5. th.active => n = "join"
    BY <2>1, ReadersAssumption DEF Caller, Fields
  <2>6. SocketInv'
    BY <1>1, <1>6, <2>1, <2>2, <2>3, <2>4, <2>5 DEF Session, SocketInv, Top, s
  <2>7. ASSUME NEW q \in Readers PROVE ReaderInv(q)'
    BY <2>2, <2>3, <2>4 DEF Session, ReaderInv, Top
  <2> QED BY <2>6, <2>7 DEF Session
<1>11. CASE Joined(Caller)
  <2>1. At(Caller, "join") /\ Goto(Caller, "detach") /\ ~th.active /\ UNCHANGED <<th, so>>
    BY <1>11 DEF Joined
  <2>2. Top(s) = "join" /\ Top(stack'[Caller]) = "detach" /\ \A q \in Readers : stack'[q] = stack[q]
    BY <1>2, <1>3, <2>1, UnderOuts
  <2>3. SocketInv'
    BY <2>1, <2>2 DEF Session, SocketInv, s
  <2> QED BY <1>4, <1>5, <2>1, <2>2, <2>3 DEF Session
<1>12. CASE Cancels(Caller)
  <2>1. At(Caller, "join") /\ Goto(Caller, "detach") /\ th.active /\ Slow(th.child)
        /\ UNCHANGED <<so, shares>>
    BY <1>12 DEF Cancels
  <2>2. Top(s) = "join" /\ Top(stack'[Caller]) = "detach" /\ \A q \in Readers : stack'[q] = stack[q]
    BY <1>2, <1>3, <2>1, UnderOuts
  <2>3. /\ th'.running = th.running /\ ~th'.active /\ th'.tid = th.tid /\ th'.child = NoOne
        /\ th'.cancelled = th.cancelled \cup {th.child}
    BY <1>12 DEF Cancels, Fields
  <2>4. th.child \in Readers /\ stack[th.child] # <<>> /\ th.child \notin th.cancelled
    BY <1>6, <2>1 DEF Session, SocketInv
  <2>5. ReaderShape(stack[th.child]) /\ Top(stack[th.child]) = Head(stack[th.child])
    BY <2>4, TheReader DEF Top
  <2>6. Head(stack[th.child]) \notin Logins
    BY <2>5 DEF ReaderShape
  <2>7. so.lock = NoOne
    BY <2>2 DEF Session, SocketInv, s
  <2>8. \/ Head(stack[th.child]) \in {"write", "join"}
        \/ shares.held
    BY <2>1, <2>6, <2>7 DEF Slow, SocketFree
  <2>9. CASE shares.held
    BY <2>1, <2>2, <2>9 DEF Doomed
  <2>10. CASE Head(stack[th.child]) \in {"write", "join"}
    <3>1. SocketInv'
      BY <2>1, <2>2, <2>3, <2>7 DEF Session, SocketInv
    <3>2. ASSUME NEW q \in Readers PROVE ReaderInv(q)'
      <4>1. CASE q = th.child
        BY <2>2, <2>3, <2>5, <2>10, <4>1 DEF ReaderInv, Top
      <4>2. CASE q # th.child
        <5>1. stack[q] # <<>> => q \in th.cancelled
          BY <4>2, TheReader
        <5> QED BY <2>2, <2>3, <5>1, <4>2 DEF Session, ReaderInv, Top
      <4> QED BY <4>1, <4>2
    <3> QED BY <3>1, <3>2 DEF Session
  <2> QED BY <2>8, <2>9, <2>10
<1>13. CASE Detach(Caller)
  <2>1. At(Caller, "detach") /\ Goto(Caller, "close") /\ th' = [th EXCEPT !.tid = NoOne]
        /\ so' = [so EXCEPT !.listed = FALSE]
    BY <1>13 DEF Detach
  <2>2. Top(s) = "detach" /\ Top(stack'[Caller]) = "close" /\ \A q \in Readers : stack'[q] = stack[q]
    BY <1>2, <1>3, <2>1, UnderOuts
  <2>3. /\ th'.active = th.active /\ th'.child = th.child /\ th'.running = th.running
        /\ th'.cancelled = th.cancelled /\ so'.up = so.up /\ so'.lock = so.lock
    BY <2>1 DEF Fields
  <2>4. ~th.active
    BY <2>2 DEF Session, SocketInv, s
  <2>5. SocketInv'
    BY <2>2, <2>3, <2>4 DEF Session, SocketInv, s
  <2> QED BY <1>4, <1>5, <2>2, <2>3, <2>4, <2>5 DEF Session
<1>14. CASE Close(Caller)
  <2>1. At(Caller, "close") /\ Goto(Caller, "clear") /\ th' = th /\ so' = [so EXCEPT !.up = FALSE]
    BY <1>14 DEF Close
  <2>2. Top(s) = "close" /\ Top(stack'[Caller]) = "clear" /\ \A q \in Readers : stack'[q] = stack[q]
    BY <1>2, <1>3, <2>1, UnderOuts
  <2>3. ~so'.up /\ so'.lock = so.lock
    BY <2>1 DEF Fields
  <2>4. ~th.active
    BY <2>2 DEF Session, SocketInv, s
  <2>5. SocketInv'
    BY <2>1, <2>2, <2>3, <2>4 DEF Session, SocketInv, s
  <2> QED BY <1>4, <1>5, <2>1, <2>2, <2>3, <2>4, <2>5 DEF Session
<1>15. CASE Clear(Caller)
  <2>1. At(Caller, "clear") /\ Return(Caller, TRUE) /\ UNCHANGED <<th, so>>
    BY <1>15 DEF Clear
  <2>2. Top(s) = "clear" /\ Top(stack'[Caller]) \in {"none", "connect", "fail", "packet"}
        /\ \A q \in Readers : stack'[q] = stack[q]
    <3>1. stack'[Caller] = <<>> => Top(stack'[Caller]) = "none"
      BY DEF Top
    <3>2. /\ stack'[Caller] # <<>> => stack[Caller][2] \in Under("clear")
                                      /\ Top(stack'[Caller]) = stack[Caller][2]
          /\ \A u \in Threads \ {Caller} : stack'[u] = stack[u]
      BY <1>1, <2>1, ReturnIs
    <3> QED BY <1>1, <1>2, <2>1, <3>1, <3>2, UnderOuts
  <2>3. ~th.active /\ ~so.up /\ so.lock = NoOne
    BY <2>2 DEF Session, SocketInv, s
  <2>4. SocketInv'
    BY <2>1, <2>2, <2>3, ReadersAssumption DEF Session, SocketInv, Caller
  <2> QED BY <1>4, <1>5, <2>1, <2>2, <2>3, <2>4 DEF Session
<1>16. CASE Fails(Caller) \/ Writes(Caller) \/ (Resends(Caller) /\ Return(Caller, FALSE))
  <2>1. PICK h \in Sending \cup {"fail"}, v \in BOOLEAN : At(Caller, h) /\ Return(Caller, v)
    BY <1>16 DEF Fails, Writes, Resends, Sending
  <2>2. UNCHANGED <<th, so>>
    BY <1>16 DEF Fails, Writes, Resends
  <2>3. /\ Top(s) = h
        /\ Top(stack'[Caller]) \in {"none", "logged", "resend", "asked", "emmSent", "loop", "packet"}
        /\ \A q \in Readers : stack'[q] = stack[q]
    <3>1. stack'[Caller] = <<>> => Top(stack'[Caller]) = "none"
      BY DEF Top
    <3>2. /\ stack'[Caller] # <<>> => stack[Caller][2] \in Under(h)
                                      /\ Top(stack'[Caller]) = stack[Caller][2]
          /\ \A u \in Threads \ {Caller} : stack'[u] = stack[u]
      BY <1>1, <2>1, ReturnIs
    <3> QED BY <1>1, <1>2, <2>1, <3>1, <3>2, UnderSending, UnderFail
  <2> QED BY <2>1, <2>2, <2>3, CallerMoves DEF Sending, s
<1>17. CASE Connect(Caller)
  <2>1. At(Caller, "connect") /\ Goto(Caller, "nested") /\ th' = th /\ so' = [so EXCEPT !.lock = Caller]
    BY <1>17 DEF Connect
  <2>2. Top(s) = "connect" /\ Top(stack'[Caller]) = "nested" /\ \A q \in Readers : stack'[q] = stack[q]
    BY <1>2, <1>3, <2>1, UnderLogins
  <2>3. so'.up = so.up /\ so'.lock = Caller
    BY <2>1 DEF Fields
  <2>4. ~th.active
    BY <2>2 DEF Session, SocketInv, s
  <2>5. SocketInv'
    BY <2>1, <2>2, <2>3, <2>4 DEF Session, SocketInv, s
  <2> QED BY <1>4, <1>5, <2>1, <2>2, <2>4, <2>5 DEF Session
<1>18. CASE DisconnectInConnect(Caller)
  <2>1. At(Caller, "nested") /\ Goto(Caller, "dial") /\ th' = th
        /\ so' = [so EXCEPT !.listed = FALSE, !.up = FALSE]
    BY <1>18 DEF DisconnectInConnect
  <2>2. Top(s) = "nested" /\ Top(stack'[Caller]) = "dial" /\ \A q \in Readers : stack'[q] = stack[q]
    BY <1>2, <1>3, <2>1, UnderLogins
  <2>3. ~so'.up /\ so'.lock = so.lock
    BY <2>1 DEF Fields
  <2>4. ~th.active
    BY <2>2 DEF Session, SocketInv, s
  <2>5. SocketInv'
    BY <2>1, <2>2, <2>3, <2>4 DEF Session, SocketInv, s
  <2> QED BY <1>4, <1>5, <2>1, <2>2, <2>4, <2>5 DEF Session
<1>19. CASE Connected(Caller)
  <2>1. At(Caller, "dial") /\ Goto(Caller, "up") /\ th' = th
        /\ so' = [so EXCEPT !.up = TRUE, !.lock = NoOne]
    BY <1>19 DEF Connected
  <2>2. Top(s) = "dial" /\ Top(stack'[Caller]) = "up" /\ \A q \in Readers : stack'[q] = stack[q]
    BY <1>2, <1>3, <2>1, UnderLogins
  <2>3. so'.up /\ so'.lock = NoOne
    BY <2>1 DEF Fields
  <2>4. ~th.active
    BY <2>2 DEF Session, SocketInv, s
  <2>5. SocketInv'
    BY <2>1, <2>2, <2>3, <2>4, ReadersAssumption DEF Session, SocketInv, Caller
  <2> QED BY <1>4, <1>5, <2>1, <2>2, <2>4, <2>5 DEF Session
<1>20. CASE ConnectFails(Caller)
  <2>1. At(Caller, "dial") /\ Goto(Caller, "undo") /\ th' = th /\ so' = [so EXCEPT !.lock = NoOne]
    BY <1>20 DEF ConnectFails
  <2>2. Top(s) = "dial" /\ Top(stack'[Caller]) = "undo" /\ \A q \in Readers : stack'[q] = stack[q]
    BY <1>2, <1>3, <2>1, UnderLogins
  <2>3. so'.up = so.up /\ so'.lock = NoOne
    BY <2>1 DEF Fields
  <2>4. ~th.active /\ ~so.up
    BY <2>2 DEF Session, SocketInv, s
  <2>5. SocketInv'
    BY <2>1, <2>2, <2>3, <2>4, ReadersAssumption DEF Session, SocketInv, Caller
  <2> QED BY <1>4, <1>5, <2>1, <2>2, <2>4, <2>5 DEF Session
<1>21. CASE DisconnectAfterConnect(Caller)
  <2>1. At(Caller, "undo") /\ Return(Caller, FALSE) /\ th' = th
        /\ so' = [so EXCEPT !.listed = FALSE, !.up = FALSE]
    BY <1>21 DEF DisconnectAfterConnect
  <2>2. Top(s) = "undo" /\ Top(stack'[Caller]) \in {"none", "logged", "resend"}
        /\ \A q \in Readers : stack'[q] = stack[q]
    <3>1. stack'[Caller] = <<>> => Top(stack'[Caller]) = "none"
      BY DEF Top
    <3>2. /\ stack'[Caller] # <<>> => stack[Caller][2] \in Under("undo")
                                      /\ Top(stack'[Caller]) = stack[Caller][2]
          /\ \A u \in Threads \ {Caller} : stack'[u] = stack[u]
      BY <1>1, <2>1, ReturnIs
    <3> QED BY <1>1, <1>2, <2>1, <3>1, <3>2, UnderLogins
  <2>3. ~so'.up /\ so'.lock = so.lock
    BY <2>1 DEF Fields
  <2>4. ~th.active /\ so.lock = NoOne
    BY <2>2 DEF Session, SocketInv, s
  <2>5. SocketInv'
    BY <2>1, <2>2, <2>3, <2>4, ReadersAssumption DEF Session, SocketInv, Caller
  <2> QED BY <1>4, <1>5, <2>1, <2>2, <2>4, <2>5 DEF Session
<1>22. CASE Up(Caller) \/ Welcomed(Caller)
  <2>1. PICK h \in {"up", "hello"}, l \in {"hello", "start"} : At(Caller, h) /\ Goto(Caller, l)
    BY <1>22 DEF Up, Welcomed
  <2>2. Top(s) = h /\ Top(stack'[Caller]) = l /\ \A q \in Readers : stack'[q] = stack[q]
    BY <1>2, <1>3, <2>1, UnderLogins
  <2>3. th' = th /\ so'.up = so.up /\ so'.lock = so.lock
    BY <1>22 DEF Up, Welcomed, Fields
  <2>4. ~th.active /\ so.up /\ so.lock = NoOne
    BY <2>1, <2>2 DEF Session, SocketInv, s
  <2>5. SocketInv'
    BY <2>1, <2>2, <2>3, <2>4, ReadersAssumption DEF Session, SocketInv, Caller
  <2> QED BY <1>4, <1>5, <2>2, <2>3, <2>4, <2>5 DEF Session
<1>23. CASE NotWelcomed(Caller) \/ WriteFails(Caller)
  <2>1. PICK h \in {"hello", "write"} : At(Caller, h) /\ Invoke(Caller, "logout", "fail")
    BY <1>23 DEF NotWelcomed, WriteFails
  <2>2. UNCHANGED <<th, so>>
    BY <1>23 DEF NotWelcomed, WriteFails
  <2>3. Top(s) = h /\ Top(stack'[Caller]) = "logout" /\ \A q \in Readers : stack'[q] = stack[q]
    <3>1. Under(h) \subseteq Under("fail")
      BY SameUnder DEF Sending
    <3>2. Top(s) = h
      BY <1>2, <2>1
    <3> QED BY <1>7, <2>1, <3>1, <3>2
  <2>4. h = "hello" => ~th.active /\ so.lock = NoOne
    BY <2>3 DEF Session, SocketInv, s
  <2>5. CASE h = "hello"
    <3>1. SocketInv'
      BY <2>2, <2>3, <2>4, <2>5, ReadersAssumption DEF Session, SocketInv, Caller
    <3> QED BY <1>4, <1>5, <2>2, <2>3, <2>4, <2>5, <3>1 DEF Session
  <2>6. CASE h = "write"
    BY <2>2, <2>3, <2>6, CallerMoves DEF s
  <2> QED BY <2>1, <2>5, <2>6
<1>24. CASE Start(Caller)
  <2>1. PICK r \in Readers :
          /\ At(Caller, "start") /\ ~th.running /\ ~th.active /\ stack[r] = <<>>
          /\ stack' = [stack EXCEPT ![Caller] = Tail(@), ![r] = <<"begin">>]
          /\ th' = [th EXCEPT !.running = TRUE, !.active = TRUE, !.child = r] /\ so' = so
    BY <1>24 DEF Start
  <2>2. s \in Seq(Labels) /\ s # <<>> /\ Nested(s) /\ Head(s) = "start" /\ Top(s) = "start"
    BY <1>1, <2>1, AtIs DEF s
  <2>3. Tail(s) # <<>> => Head(Tail(s)) \in {"logged", "resend"}
    BY <2>2, NestedReturn, UnderLogins
  <2>4. stack'[Caller] = Tail(s) /\ stack'[r] = <<"begin">> /\ \A q \in Readers \ {r} : stack'[q] = stack[q]
    BY <1>1, <2>1 DEF Stacks, s
  <2>5. Top(stack'[Caller]) \in {"none", "logged", "resend"} /\ Top(stack'[r]) = "begin"
    BY <2>3, <2>4 DEF Top
  <2>6. so.up /\ so.lock = NoOne
    BY <2>2 DEF Session, SocketInv, s
  <2>7. /\ th'.running /\ th'.active /\ th'.child = r /\ th'.tid = th.tid
        /\ th'.cancelled = th.cancelled
    BY <2>1 DEF Fields
  <2>8. r \notin th.cancelled
    BY <2>1 DEF Session, ReaderInv, Top
  <2>9. SocketInv'
    <3>1. stack'[r] # <<>>
      BY <2>4
    <3> QED BY <2>1, <2>5, <2>6, <2>7, <2>8, <3>1, ReadersAssumption DEF SocketInv, Caller
  <2>10. ReaderInv(r)'
    <3> DEFINE b == <<"begin">>
    <3>1. b # <<>> /\ Head(b) = "begin" /\ Len(b) = 1 /\ b[1] = "begin" /\ stack'[r] = b
      BY <2>4
    <3> HIDE DEF b
    <3>2. Under("begin") = {}
      BY UnderResting DEF Resting
    <3>3. ReaderShape(b)
      BY <3>1, <3>2 DEF ReaderShape
    <3> QED BY <2>1, <2>6, <2>7, <2>8, <3>1, <3>3 DEF ReaderInv
  <2>11. ASSUME NEW q \in Readers \ {r} PROVE ReaderInv(q)'
    <3>1. stack[q] # <<>> => q \in th.cancelled
      BY <1>4, <2>1
    <3> QED BY <2>4, <2>7, <3>1 DEF Session, ReaderInv, Top
  <2> QED BY <2>9, <2>10, <2>11 DEF Session
<1>25. CASE Encrypts(Caller) \/ Sends(Caller) \/ (Resends(Caller) /\ Goto(Caller, "write"))
  <2>1. PICK h \in Sending : At(Caller, h)
          /\ (Goto(Caller, "send") \/ Goto(Caller, "write") \/ Login(Caller, "resend"))
    BY <1>25 DEF Encrypts, Sends, Resends, Sending
  <2>2. UNCHANGED <<th, so>>
    BY <1>25 DEF Encrypts, Sends, Resends
  <2>3. /\ Top(s) = h /\ Top(stack'[Caller]) \in {"send", "write", "logout"}
        /\ \A q \in Readers : stack'[q] = stack[q]
    <3>1. /\ Under(h) \subseteq Under("send") /\ Under(h) \subseteq Under("write")
          /\ Under(h) \subseteq Under("resend") /\ h \in Labels
      BY SameUnder DEF Sending
    <3>2. CASE Goto(Caller, "send") \/ Goto(Caller, "write")
      BY <1>2, <1>3, <2>1, <3>1, <3>2
    <3>3. CASE Login(Caller, "resend")
      BY <1>1, <1>2, <2>1, <3>1, <3>3, LoginIs
    <3> QED BY <2>1, <3>2, <3>3
  <2> QED BY <2>1, <2>2, <2>3, CallerMoves DEF Sending, s
<1>26. Resends(Caller) => Goto(Caller, "write") \/ Return(Caller, FALSE)
  BY DEF Resends
<1> QED BY <1>10, <1>11, <1>12, <1>13, <1>14, <1>15, <1>16, <1>17, <1>18, <1>19, <1>20, <1>21, <1>22,
           <1>23, <1>24, <1>25, <1>26 DEF ThreadStep

\* The steps that are the caller's own.
CallSteps ==
  \/ ChecksLogin \/ LoginReturns \/ GetShares \/ NextShare \/ NoMoreShares \/ SendsEcm
  \/ StartsToWait \/ WakesUp \/ TimesOut \/ SendsEmm \/ EmmSent

LEMMA CallerRests ==
  ASSUME Stacks, CallSteps
  PROVE  /\ Top(stack[Caller]) \in Resting
         /\ Top(stack'[Caller]) \in {"none", "logout", "crypt"} \cup Resting
         /\ \A q \in Readers : stack'[q] = stack[q]
         /\ UNCHANGED <<th, so>>
<1>1. Caller \in Threads /\ \A q \in Readers : q \in Threads \ {Caller}
  BY ReadersAssumption DEF Threads, Caller
<1>2. UNCHANGED <<th, so>>
  BY DEF CallSteps, ChecksLogin, LoginReturns, GetShares, NextShare, NoMoreShares, SendsEcm,
         StartsToWait, WakesUp, TimesOut, SendsEmm, EmmSent
<1>3. PICK h \in Resting :
        /\ At(Caller, h)
        /\ \/ \E l \in Resting : Goto(Caller, l)
           \/ \E v \in BOOLEAN : Return(Caller, v)
           \/ Login(Caller, "logged") \/ Invoke(Caller, "logout", "fail")
           \/ Invoke(Caller, "crypt", "asked") \/ Invoke(Caller, "crypt", "emmSent")
  BY DEF CallSteps, ChecksLogin, LoginReturns, GetShares, NextShare, NoMoreShares, SendsEcm,
         StartsToWait, WakesUp, TimesOut, SendsEmm, EmmSent, Resting
<1>4. Under(h) = {} /\ Top(stack[Caller]) = h
  BY <1>1, <1>3, UnderResting, AtIs
<1>5. Resting \subseteq Labels /\ "logout" \in Labels /\ "crypt" \in Labels /\ "fail" \in Labels
      /\ "asked" \in Labels /\ "emmSent" \in Labels
  BY DEF Resting, Labels
<1>6. "fail" \in Under("logout") /\ "asked" \in Under("crypt") /\ "emmSent" \in Under("crypt")
  BY UnderOuts, UnderSending DEF Outs, Sending
<1>7. CASE \E l \in Resting : Goto(Caller, l)
  BY <1>1, <1>2, <1>3, <1>4, <1>5, <1>7, GotoIs
<1>8. CASE \E v \in BOOLEAN : Return(Caller, v)
  <2>1. PICK v \in BOOLEAN : Return(Caller, v)
    BY <1>8
  <2>2. /\ stack'[Caller] # <<>> => stack[Caller][2] \in Under(h)
        /\ \A u \in Threads \ {Caller} : stack'[u] = stack[u]
    BY <1>1, <1>3, <2>1, ReturnIs
  <2> QED BY <1>1, <1>2, <1>4, <2>2 DEF Top
<1>9. CASE Login(Caller, "logged")
  BY <1>1, <1>2, <1>3, <1>4, <1>9, LoginIs
<1>10. CASE Invoke(Caller, "logout", "fail")
  BY <1>1, <1>2, <1>3, <1>4, <1>5, <1>6, <1>10, InvokeIs
<1>11. CASE Invoke(Caller, "crypt", "asked")
  BY <1>1, <1>2, <1>3, <1>4, <1>5, <1>6, <1>11, InvokeIs
<1>12. CASE Invoke(Caller, "crypt", "emmSent")
  BY <1>1, <1>2, <1>3, <1>4, <1>5, <1>6, <1>12, InvokeIs
<1> QED BY <1>3, <1>7, <1>8, <1>9, <1>10, <1>11, <1>12

LEMMA OwnStays == Fields /\ th.own /\ [ClientNext]_clientVars => th'.own
<1> SUFFICES ASSUME Fields, th.own, [ClientNext]_clientVars PROVE th'.own
  OBVIOUS
<1>1. CASE UNCHANGED th
  BY <1>1
<1>2. ASSUME NEW t \in Threads, ThreadStep(t) PROVE th'.own
  <2>1. CASE LogoutBegins(t) \/ Cancels(t) \/ Detach(t) \/ Start(t)
    BY <2>1 DEF LogoutBegins, Cancels, Detach, Start, Fields
  <2> QED BY <1>1, <1>2, <2>1 DEF ThreadStep, Joined, Close, Clear, Fails, Connect, DisconnectInConnect,
       Connected, ConnectFails, DisconnectAfterConnect, Up, Welcomed, NotWelcomed, Encrypts, Sends,
       Resends, Writes, WriteFails
<1>3. ASSUME NEW r \in Readers, ReaderStep(r) \/ Pings(r) PROVE th'.own
  <2>1. CASE ReaderBegins(r) \/ ReaderEnds(r) \/ Dies(r)
    BY <2>1 DEF ReaderBegins, ReaderEnds, Dies, Fields
  <2>2. CASE ThreadStep(r)
    BY <1>2, <2>2 DEF Threads
  <2> QED BY <1>1, <1>3, <2>1, <2>2 DEF ReaderStep, Reads, ReadsEof, AddShare, DelShare, Answers,
       SeesAnswer, Counts, Unscrambles, Delivers, CannotDecode, EndOfBuffer, Pings
<1>4. CASE CallerStep
  <2>1. CASE ThreadStep(Caller)
    BY <1>2, <2>1 DEF Threads
  <2> QED BY <1>1, <1>4, <2>1 DEF CallerStep, ChecksLogin, LoginReturns, GetShares, NextShare,
       NoMoreShares, SendsEcm, StartsToWait, WakesUp, TimesOut, SendsEmm, EmmSent
<1> QED BY <1>1, <1>3, <1>4 DEF ClientNext, ProcessECM, ProcessEMM, WatcherStep, WatcherLocks,
      WatcherLooks, Announces, Questions, Replies, ServerCloses, Pushes, clientVars

\* The caller that waits for its own lock: there is no way out.
LEMMA DoomedStays == Stacks /\ Fields /\ Doomed /\ [ClientNext]_clientVars => Doomed'
<1> SUFFICES ASSUME Stacks, Fields, Doomed, [ClientNext]_clientVars PROVE Doomed'
  OBVIOUS
<1> DEFINE h == Top(stack[Caller])
<1>1. Caller \in Threads /\ Caller \notin Readers /\ \A q \in Readers : q \in Threads /\ q # Caller
  BY ReadersAssumption DEF Threads, Caller
<1>2. shares.held /\ h \in {"detach", "close", "clear"}
  BY DEF Doomed
<1>3. \A l : At(Caller, l) => h = l
  BY DEF At, Top
<1> HIDE DEF h
<1>4. CASE shares' = shares /\ stack'[Caller] = stack[Caller]
  BY <1>4 DEF Doomed, Top
<1>5. CASE ThreadStep(Caller)
  <2>1. Detach(Caller) \/ Close(Caller)
    BY <1>2, <1>3, <1>5 DEF ThreadStep, LogoutBegins, Joined, Cancels, Clear, Fails, Connect,
       DisconnectInConnect, Connected, ConnectFails, DisconnectAfterConnect, Up, Welcomed, NotWelcomed,
       Start, Encrypts, Sends, Resends, Writes, WriteFails
  <2>2. PICK l \in {"detach", "close"}, n \in {"close", "clear"} :
          At(Caller, l) /\ Goto(Caller, n) /\ shares' = shares
    BY <2>1 DEF Detach, Close
  <2>3. Under(l) \subseteq Under(n)
    BY UnderOuts DEF Outs
  <2>4. Top(stack'[Caller]) = n
    BY <1>1, <2>2, <2>3, GotoIs DEF Labels
  <2> QED BY <1>2, <2>2, <2>4 DEF Doomed
<1>6. CASE CallSteps
  <2>1. h \in Resting
    BY <1>6, CallerRests DEF h
  <2> QED BY <1>2, <2>1 DEF Resting
<1>7. CASE CallerStep
  BY <1>5, <1>6, <1>7 DEF CallerStep, CallSteps
<1>8. ASSUME NEW r \in Readers, ReaderStep(r) \/ Pings(r) PROVE Doomed'
  <2>1. CASE ThreadStep(r)
    <3>1. stack'[Caller] = stack[Caller]
      BY <1>1, <2>1, ThreadTop
    <3>2. shares' = shares
      BY <1>2, <2>1 DEF ThreadStep, LogoutBegins, Joined, Cancels, Detach, Close, Clear, Fails, Connect,
       DisconnectInConnect, Connected, ConnectFails, DisconnectAfterConnect, Up, Welcomed, NotWelcomed,
       Start, Encrypts, Sends, Resends, Writes, WriteFails
    <3> QED BY <1>4, <3>1, <3>2
  <2>2. CASE ~ThreadStep(r)
    <3>1. shares' = shares
      BY <1>2, <1>8, <2>2 DEF ReaderStep, ReaderBegins, Reads, ReadsEof, AddShare, DelShare, Answers,
       SeesAnswer, Counts, Unscrambles, Delivers, CannotDecode, EndOfBuffer, Pings, ReaderEnds, Dies
    <3>2. \/ stack' = stack \/ stack' = [stack EXCEPT ![r] = <<>>]
          \/ \E l : Goto(r, l)
          \/ \E a, b : Invoke(r, a, b)
      BY <1>2, <1>8, <2>2 DEF ReaderStep, ReaderBegins, Reads, ReadsEof, AddShare, DelShare, Answers,
       SeesAnswer, Counts, Unscrambles, Delivers, CannotDecode, EndOfBuffer, Pings, ReaderEnds, Dies
    <3>3. stack'[Caller] = stack[Caller]
      <4>1. CASE stack' = stack \/ stack' = [stack EXCEPT ![r] = <<>>]
        BY <1>1, <4>1 DEF Stacks
      <4>2. CASE \/ \E l : Goto(r, l)
                 \/ \E a, b : Invoke(r, a, b)
        BY <1>1, <4>2, OthersStay
      <4> QED BY <3>2, <4>1, <4>2
    <3> QED BY <1>4, <3>1, <3>3
  <2> QED BY <2>1, <2>2
<1>9. ~ProcessECM /\ ~ProcessEMM
  <2>1. ~Idle
    BY <1>2 DEF Idle, h, Top
  <2> QED BY <2>1 DEF ProcessECM, ProcessEMM
<1> QED BY <1>4, <1>7, <1>8, <1>9 DEF ClientNext, WatcherStep, WatcherLocks,
      WatcherLooks, Announces, Questions, Replies, ServerCloses, Pushes, clientVars

LEMMA SessionKept ==
  Stacks /\ Fields /\ Buffers /\ SessionInv /\ [ClientNext]_clientVars => SessionInv'
<1> SUFFICES ASSUME Stacks, Fields, Buffers, SessionInv, [ClientNext]_clientVars PROVE SessionInv'
  OBVIOUS
<1>1. th.own \/ Doomed \/ Session
  BY DEF SessionInv, Session
<1>2. Session' \/ th'.own \/ Doomed' => SessionInv'
  BY DEF SessionInv, Session
<1>3. CASE th.own
  BY <1>2, <1>3, OwnStays
<1>4. CASE Doomed
  BY <1>2, <1>4, DoomedStays
<1>5. CASE Session
  <2>1. CASE CallSteps
    <3>1. Session'
      BY <1>5, <2>1, CallerRests, CallerMoves DEF Resting, Logins
    <3> QED BY <1>2, <3>1
  <2>2. CASE CallerStep
    BY <1>2, <1>5, <2>1, <2>2, CallerThread DEF CallerStep, CallSteps
  <2>3. ASSUME NEW r \in Readers, ReaderStep(r) \/ Pings(r) PROVE SessionInv'
    BY <1>2, <1>5, <2>3, ReaderSteps
  <2>4. CASE ProcessECM \/ ProcessEMM
    <3>1. PICK l \in {"ecm", "emm"} : stack' = [stack EXCEPT ![Caller] = <<l>>]
      BY <2>4 DEF ProcessECM, ProcessEMM
    <3>2. stack[Caller] = <<>> /\ UNCHANGED <<th, so>>
      BY <2>4 DEF ProcessECM, ProcessEMM, Idle
    <3>3. stack'[Caller] = <<l>> /\ \A q \in Readers : stack'[q] = stack[q]
      BY <3>1, ReadersAssumption DEF Stacks, Threads, Caller
    <3>4. Top(stack'[Caller]) = l /\ Top(stack[Caller]) = "none"
      BY <3>2, <3>3 DEF Top
    <3>5. Session'
      BY <1>5, <3>2, <3>3, <3>4, CallerMoves DEF Logins
    <3> QED BY <1>2, <3>5
  <2>5. CASE WatcherStep \/ Announces \/ Questions \/ Replies \/ ServerCloses \/ UNCHANGED clientVars
    <3>1. UNCHANGED <<stack, th>> /\ so'.up = so.up /\ so'.lock = so.lock
      BY <2>5 DEF WatcherStep, WatcherLocks, WatcherLooks, Announces, Questions, Replies, ServerCloses,
                  Pushes, clientVars, Fields
    <3>2. Session'
      BY <1>5, <3>1, GoodLeft
    <3> QED BY <1>2, <3>2
  <2> QED BY <2>2, <2>3, <2>4, <2>5 DEF ClientNext
<1> QED BY <1>1, <1>3, <1>4, <1>5

LEMMA SessionInitially == ClientInit => SessionInv
<1> SUFFICES ASSUME ClientInit PROVE SessionInv
  OBVIOUS
<1>1. stack[Caller] = <<>> /\ \A r \in Readers : stack[r] = <<>>
  BY DEF ClientInit, Threads
<1>2. Top(stack[Caller]) = "none"
  BY <1>1 DEF Top
<1>3. SocketInv
  BY <1>2, ReadersAssumption DEF ClientInit, SocketInv, Caller, Logins
<1>4. \A r \in Readers : ReaderInv(r)
  BY <1>1 DEF ClientInit, ReaderInv
<1> QED BY <1>3, <1>4 DEF SessionInv

-----------------------------------------------------------------------------
\* Between two calls a connected socket has a reader (cccam2.c: Login starts one,
\* and Logout closes the socket before its caller returns).
THEOREM HasReaderAlways == ClientSpec => []HasReader
<1> DEFINE Inv == Stacks /\ Fields /\ Buffers /\ SessionInv
<1>1. ClientInit => Inv
  BY StacksInitially, FieldsInitially, SessionInitially
<1>2. Inv /\ [ClientNext]_clientVars => Inv'
  BY StacksKept, FieldsKept, BuffersKept, SessionKept
<1>3. Inv => HasReader
  <2> SUFFICES ASSUME SessionInv, Idle, so.up, ~th.own PROVE th.active
    BY DEF HasReader
  <2>1. Top(stack[Caller]) = "none"
    BY DEF Idle, Top
  <2> QED BY <2>1 DEF SessionInv, SocketInv, Doomed
<1> QED BY <1>1, <1>2, <1>3, PTL DEF ClientSpec

-----------------------------------------------------------------------------
(* The key of the call.                                                    *)

\* The caller waits for the answer to a request that was the only one ...
Waits ==
  /\ call.clean /\ Top(stack[Caller]) \in {"asked", "waiting"}
  /\ Top(stack[Caller]) = "asked" => ok[Caller]
\* ... and so is whatever may still become a key.
Clean ==
  /\ \A q \in net.asked : q.ecm = call.ecm /\ q.share = cl.shareid
  /\ OnlyOwn(net.in) /\ \A r \in Readers : OnlyOwn(rd[r].buf)
  /\ \A r \in Readers : Top(stack[r]) = "deliver" /\ rd[r].take => rd[r].cw = call.ecm
  /\ Top(stack[Caller]) = "waiting" /\ cl.newcw => cl.cw = call.ecm

LEMMA AnswerInvIs == AnswerInv <=> (Waits => Clean)
BY DEF AnswerInv, Waits, Clean

\* What nothing was asked for, and what of it is dealt with, is of no other call.
LEMMA OwnPackets ==
  ASSUME NEW ps \in Seq(Packets)
  PROVE  /\ OnlyOwn(<<>>)
         /\ ~HasAnswer(ps) => OnlyOwn(ps)
         /\ ps # <<>> /\ OnlyOwn(ps) => OnlyOwn(Tail(ps))
         /\ ps # <<>> /\ OnlyOwn(ps) /\ IsAnswer(Head(ps)) =>
              Head(ps).ecm = call.ecm /\ Head(ps).share = cl.shareid
         /\ ps # <<>> /\ IsAnswer(Head(ps)) => HasAnswer(ps)
         /\ \A p \in Packets :
              /\ OnlyOwn(ps)
              /\ IsAnswer(p) => p.ecm = call.ecm /\ p.share = cl.shareid
              => OnlyOwn(Append(ps, p))
<1>1. OnlyOwn(<<>>)
  BY DEF OnlyOwn
<1>2. ~HasAnswer(ps) => OnlyOwn(ps)
  BY DEF OnlyOwn, HasAnswer
<1>3. ASSUME ps # <<>>
      PROVE  /\ OnlyOwn(ps) => OnlyOwn(Tail(ps))
             /\ OnlyOwn(ps) /\ IsAnswer(Head(ps)) => Head(ps).ecm = call.ecm /\ Head(ps).share = cl.shareid
             /\ IsAnswer(Head(ps)) => HasAnswer(ps)
  <2> DEFINE tl == Tail(ps)
  <2>1. /\ Len(ps) \in Nat \ {0} /\ Head(ps) = ps[1] /\ Len(tl) = Len(ps) - 1
        /\ \A i \in 1 .. Len(ps) - 1 : tl[i] = ps[i + 1]
    BY <1>3, HeadOf
  <2> HIDE DEF tl
  <2>2. 1 \in 1 .. Len(ps)
    BY <2>1
  <2>3. ASSUME OnlyOwn(ps), NEW i \in 1 .. Len(tl), IsAnswer(tl[i])
        PROVE  tl[i].ecm = call.ecm /\ tl[i].share = cl.shareid
    <3>1. i \in 1 .. Len(ps) - 1 /\ i + 1 \in 1 .. Len(ps)
      BY <2>1
    <3> QED BY <2>1, <2>3, <3>1 DEF OnlyOwn
  <2>4. OnlyOwn(ps) => OnlyOwn(tl)
    BY <2>3 DEF OnlyOwn
  <2> QED BY <2>1, <2>2, <2>4 DEF OnlyOwn, HasAnswer, tl
<1>4. ASSUME NEW p \in Packets, OnlyOwn(ps),
             IsAnswer(p) => p.ecm = call.ecm /\ p.share = cl.shareid
      PROVE  OnlyOwn(Append(ps, p))
  <2> DEFINE n == Append(ps, p)
  <2>1. /\ Len(ps) \in Nat /\ Len(n) = Len(ps) + 1 /\ n[Len(ps) + 1] = p
        /\ \A i \in 1 .. Len(ps) : n[i] = ps[i]
    BY AppendProperties, LenProperties
  <2> HIDE DEF n
  <2>2. ASSUME NEW i \in 1 .. Len(n), IsAnswer(n[i])
        PROVE  n[i].ecm = call.ecm /\ n[i].share = cl.shareid
    <3>1. CASE i = Len(ps) + 1
      BY <1>4, <2>1, <2>2, <3>1
    <3>2. CASE i # Len(ps) + 1
      <4>1. i \in 1 .. Len(ps)
        BY <2>1, <3>2
      <4> QED BY <1>4, <2>1, <2>2, <4>1 DEF OnlyOwn
    <3> QED BY <3>1, <3>2
  <2>3. OnlyOwn(n)
    BY <2>2 DEF OnlyOwn
  <2> QED BY <2>3 DEF n
<1> QED BY <1>1, <1>2, <1>3, <1>4

\* The caller begins to wait by sending its request, or by waiting on.
LEMMA CallerBegins ==
  ASSUME Stacks, CallerStep, Waits'
  PROVE  Writes(Caller) \/ StartsToWait
<1> SUFFICES ASSUME ~Writes(Caller), ~StartsToWait PROVE FALSE
  OBVIOUS
<1>1. Caller \in Threads
  BY DEF Threads
<1>20. ASSUME NEW h, At(Caller, h), Under(h) \subseteq Under("fail"), Invoke(Caller, "logout", "fail")
       PROVE  Top(stack'[Caller]) = "logout"
  <2>1. "logout" \in Labels /\ "fail" \in Labels /\ "fail" \in Under("logout")
    BY UnderOuts DEF Labels, Outs
  <2> QED BY <1>1, <1>20, <2>1, InvokeIs
<1>21. ASSUME NEW h, At(Caller, h), Under(h) = {}, NEW b \in {"asked", "emmSent"},
              Invoke(Caller, "crypt", b)
       PROVE  Top(stack'[Caller]) = "crypt"
  <2>1. "crypt" \in Labels /\ b \in Labels /\ b \in Under("crypt") /\ Under(h) \subseteq Under(b)
    BY <1>21, UnderSending DEF Labels, Sending
  <2> QED BY <1>1, <1>21, <2>1, InvokeIs
<1>22. ASSUME NEW h \in Sending, At(Caller, h),
              Goto(Caller, "send") \/ Goto(Caller, "write") \/ Login(Caller, "resend")
       PROVE  Top(stack'[Caller]) \in {"send", "write", "logout"}
  <2>1. /\ Under(h) \subseteq Under("send") /\ Under(h) \subseteq Under("write")
        /\ Under(h) \subseteq Under("resend") /\ "send" \in Labels /\ "write" \in Labels
    BY SameUnder DEF Sending, Labels
  <2>2. CASE Goto(Caller, "send")
    BY <1>1, <1>22, <2>1, <2>2, GotoIs
  <2>3. CASE Goto(Caller, "write")
    BY <1>1, <1>22, <2>1, <2>3, GotoIs
  <2>4. CASE Login(Caller, "resend")
    BY <1>1, <1>22, <2>1, <2>4, LoginIs
  <2> QED BY <1>22, <2>2, <2>3, <2>4
<1> USE LabelsAre DEF Outs, Logins, Sending, Resting
<1>2. Top(stack'[Caller]) \in {"asked", "waiting"} /\ (Top(stack'[Caller]) = "asked" => ok'[Caller])
  BY DEF Waits
<1>3. stack'[Caller] # <<>>
  BY <1>2 DEF Top
<1>4. CASE LogoutBegins(Caller) \/ Joined(Caller) \/ Cancels(Caller) \/ Detach(Caller) \/ Close(Caller)
  <2>1. PICK h \in Outs, l \in Outs : At(Caller, h) /\ Goto(Caller, l)
    BY <1>4 DEF LogoutBegins, Joined, Cancels, Detach, Close
  <2>2. Under(h) \subseteq Under(l)
    BY <2>1, SameUnder
  <2> QED BY <1>1, <1>2, <2>1, <2>2, GotoIs
<1>5. CASE Connect(Caller) \/ DisconnectInConnect(Caller) \/ Connected(Caller) \/ ConnectFails(Caller)
           \/ Up(Caller) \/ Welcomed(Caller)
  <2>1. PICK h \in Logins, l \in Logins : At(Caller, h) /\ Goto(Caller, l)
    BY <1>5 DEF Connect, DisconnectInConnect, Connected, ConnectFails, Up, Welcomed
  <2>2. Under(h) \subseteq Under(l)
    BY <2>1, SameUnder
  <2> QED BY <1>1, <1>2, <2>1, <2>2, GotoIs
<1>6. CASE Clear(Caller)
  <2>1. At(Caller, "clear") /\ Return(Caller, TRUE)
    BY <1>6 DEF Clear
  <2>2. Top(stack'[Caller]) = stack[Caller][2] /\ stack[Caller][2] \in Under("clear")
    BY <1>1, <1>3, <2>1, ReturnIs
  <2>3. Under("clear") = {"connect", "fail", "packet"}
    BY UnderOuts
  <2> QED BY <1>2, <2>2, <2>3
<1>7. CASE Return(Caller, FALSE) /\ \E h \in Sending \cup Logins \cup {"fail"} : At(Caller, h)
  <2>1. PICK h \in Sending \cup Logins \cup {"fail"} : At(Caller, h) /\ Return(Caller, FALSE)
    BY <1>7
  <2>2. ok'[Caller] = FALSE /\ Top(stack'[Caller]) = stack[Caller][2] /\ stack[Caller][2] \in Under(h)
    BY <1>1, <1>3, <2>1, ReturnIs
  <2>3. "waiting" \notin Under(h)
    BY <2>1, UnderSending, UnderLogins, UnderFail
  <2> QED BY <1>2, <2>2, <2>3
<1>8. CASE \E h \in Sending \cup Logins : At(Caller, h) /\ Invoke(Caller, "logout", "fail")
  <2>1. PICK h \in Sending \cup Logins : At(Caller, h) /\ Invoke(Caller, "logout", "fail")
    BY <1>8
  <2>2. Under(h) \subseteq Under("fail")
    BY SameUnder
  <2>3. Top(stack'[Caller]) = "logout"
    BY <1>20, <2>1, <2>2
  <2> QED BY <1>2, <2>3
<1>9. CASE Start(Caller)
  <2>1. PICK r \in Readers :
          At(Caller, "start") /\ stack' = [stack EXCEPT ![Caller] = Tail(@), ![r] = <<"begin">>]
    BY <1>9 DEF Start
  <2>2. stack[Caller] \in Seq(Labels) /\ stack[Caller] # <<>> /\ Nested(stack[Caller])
        /\ Head(stack[Caller]) = "start"
    BY <1>1, <2>1, AtIs
  <2>3. Tail(stack[Caller]) # <<>> => Head(Tail(stack[Caller])) \in {"logged", "resend"}
    BY <2>2, NestedReturn, UnderLogins
  <2>4. stack'[Caller] = Tail(stack[Caller])
    BY <1>1, <2>1, ReadersAssumption DEF Stacks, Caller
  <2> QED BY <1>2, <1>3, <2>3, <2>4 DEF Top
<1>10. CASE Encrypts(Caller) \/ ((Sends(Caller) \/ Resends(Caller)) /\ ~Return(Caller, FALSE))
  <2>1. PICK h \in Sending : At(Caller, h)
          /\ (Goto(Caller, "send") \/ Goto(Caller, "write") \/ Login(Caller, "resend"))
    BY <1>10 DEF Encrypts, Sends, Resends
  <2>3. Top(stack'[Caller]) \in {"send", "write", "logout"}
    BY <1>22, <2>1
  <2> QED BY <1>2, <2>3
<1>11. CASE CallSteps
  <2>1. PICK h \in Resting :
        /\ At(Caller, h)
        /\ \/ \E l \in {"shares", "next", "pending", "emmSent"} : Goto(Caller, l)
           \/ \E v \in BOOLEAN : Return(Caller, v)
           \/ Login(Caller, "logged") \/ Invoke(Caller, "logout", "fail")
           \/ Invoke(Caller, "crypt", "asked") \/ Invoke(Caller, "crypt", "emmSent")
    BY <1>11 DEF CallSteps, ChecksLogin, LoginReturns, GetShares, NextShare, NoMoreShares, SendsEcm,
           WakesUp, TimesOut, SendsEmm, EmmSent
  <2>2. Under(h) = {}
    BY <2>1, UnderResting
  <2>3. ~(\E v \in BOOLEAN : Return(Caller, v))
    BY <1>1, <1>3, <2>1, <2>2, ReturnIs
  <2>5. CASE \E l \in {"shares", "next", "pending", "emmSent"} : Goto(Caller, l)
    BY <1>1, <1>2, <2>1, <2>2, <2>5, GotoIs
  <2>6. CASE Login(Caller, "logged")
    BY <1>1, <1>2, <2>1, <2>2, <2>6, LoginIs
  <2>7. CASE Invoke(Caller, "logout", "fail") \/ Invoke(Caller, "crypt", "asked")
             \/ Invoke(Caller, "crypt", "emmSent")
    <3>1. Top(stack'[Caller]) \in {"logout", "crypt"}
      BY <1>20, <1>21, <2>1, <2>2, <2>7
    <3> QED BY <1>2, <3>1
  <2> QED BY <2>1, <2>3, <2>5, <2>6, <2>7
<1>12. Fails(Caller) \/ DisconnectAfterConnect(Caller) \/ (Resends(Caller) /\ Return(Caller, FALSE)) =>
         Return(Caller, FALSE) /\ \E h \in Sending \cup Logins \cup {"fail"} : At(Caller, h)
  BY DEF Fails, DisconnectAfterConnect, Resends
<1>13. NotWelcomed(Caller) \/ WriteFails(Caller) =>
         \E h \in Sending \cup Logins : At(Caller, h) /\ Invoke(Caller, "logout", "fail")
  BY DEF NotWelcomed, WriteFails
<1>14. Sends(Caller) /\ Return(Caller, FALSE) => FALSE
  <2> SUFFICES ASSUME Sends(Caller), Return(Caller, FALSE) PROVE FALSE
    OBVIOUS
  <2>1. At(Caller, "send") /\ (Goto(Caller, "write") \/ Login(Caller, "resend"))
    BY DEF Sends
  <2>3. Top(stack'[Caller]) \in {"send", "write", "logout"}
    BY <1>22, <2>1
  <2> QED BY <1>2, <2>3
<1> HIDE DEF Outs, Logins, Sending, Resting
<1>15. ~(NotWelcomed(Caller) \/ WriteFails(Caller))
  BY <1>8, <1>13
<1>16. ~(Fails(Caller) \/ DisconnectAfterConnect(Caller) \/ Sends(Caller) \/ Resends(Caller))
  BY <1>7, <1>10, <1>12, <1>14
<1>17. CASE ThreadStep(Caller)
  BY <1>4, <1>5, <1>6, <1>9, <1>10, <1>15, <1>16, <1>17 DEF ThreadStep
<1> QED BY <1>11, <1>17 DEF CallerStep, CallSteps

\* A thread step of a reader spoils nothing.
LEMMA ReaderLeaves ==
  ASSUME Stacks, Fields, NEW r \in Readers, ThreadStep(r)
  PROVE  /\ call' = call /\ ok'[Caller] = ok[Caller] /\ stack'[Caller] = stack[Caller] /\ rd' = rd
         /\ cl'.shareid = cl.shareid /\ cl'.newcw = cl.newcw /\ cl'.cw = cl.cw
         /\ net'.in \in {net.in, <<>>} /\ net'.asked \subseteq net.asked
         /\ \A q \in Readers : stack'[q] = stack[q] \/ Top(stack'[q]) # "deliver"
<1>1. r \in Threads /\ r # Caller /\ Caller \in Threads \ {r} /\ Caller \notin Readers
      /\ \A q \in Readers \ {r} : q \in Threads \ {r}
  BY ReadersAssumption DEF Threads, Caller
<1>2. rd' = rd /\ stack'[Caller] = stack[Caller]
      /\ \A q \in Readers : stack'[q] = stack[q] \/ Top(stack'[q]) # "deliver"
  <2>1. Top(<<"begin">>) = "begin"
    BY DEF Top
  <2> QED BY <1>1, <2>1, ThreadTop DEF Answering
<1>3. ok'[Caller] = ok[Caller]
  <2>1. ok' = ok \/ \E v : ok' = [ok EXCEPT ![r] = v]
    BY DEF ThreadStep, LogoutBegins, Joined, Cancels, Detach, Close, Clear, Fails, Connect,
       DisconnectInConnect, Connected, ConnectFails, DisconnectAfterConnect, Up, Welcomed, NotWelcomed,
       Start, Encrypts, Sends, Resends, Writes, WriteFails, Goto, Invoke, Return, Login
  <2> QED BY <1>1, <2>1 DEF Stacks
<1>4. call' = call
  BY <1>1 DEF ThreadStep, LogoutBegins, Joined, Cancels, Detach, Close, Clear, Fails, Connect,
       DisconnectInConnect, Connected, ConnectFails, DisconnectAfterConnect, Up, Welcomed, NotWelcomed,
       Start, Encrypts, Sends, Resends, Writes, WriteFails
<1>5. cl'.shareid = cl.shareid /\ cl'.newcw = cl.newcw /\ cl'.cw = cl.cw
  <2>1. CASE UNCHANGED cl
    BY <2>1
  <2>2. CASE LogoutBegins(r) \/ Clear(r) \/ Welcomed(r)
    BY <2>2 DEF LogoutBegins, Clear, Welcomed, Fields
  <2> QED BY <2>1, <2>2 DEF ThreadStep, Joined, Cancels, Detach, Close, Fails, Connect,
       DisconnectInConnect, Connected, ConnectFails, DisconnectAfterConnect, Up, NotWelcomed,
       Start, Encrypts, Sends, Resends, Writes, WriteFails
<1>6. net'.in \in {net.in, <<>>} /\ net'.asked \subseteq net.asked
  <2>1. CASE UNCHANGED net
    BY <2>1
  <2>2. CASE net' = NoSession \/ net' = [NoSession EXCEPT !.open = TRUE]
    BY <2>2 DEF NoSession
  <2>3. CASE Encrypts(r)
    BY <2>3 DEF Encrypts, Fields
  <2>4. CASE Writes(r)
    BY <1>1, <2>4 DEF Writes, Fields
  <2> QED BY <2>1, <2>2, <2>3, <2>4 DEF ThreadStep, LogoutBegins, Joined, Cancels, Detach, Close, Clear,
       Fails, Connect, DisconnectInConnect, Connected, ConnectFails, DisconnectAfterConnect, Up, Welcomed,
       NotWelcomed, Start, Sends, Resends, WriteFails
<1> QED BY <1>2, <1>3, <1>4, <1>5, <1>6

\* What nobody spoils.
LEMMA CleanLeft ==
  ASSUME Buffers, Clean, stack'[Caller] = stack[Caller], rd' = rd, call'.ecm = call.ecm,
         cl'.shareid = cl.shareid, cl'.newcw => cl.newcw /\ cl'.cw = cl.cw,
         OnlyOwn(net'.in), \A q \in net'.asked : q.ecm = call.ecm /\ q.share = cl.shareid,
         \A q \in Readers : stack'[q] = stack[q] \/ Top(stack'[q]) # "deliver"
  PROVE  Clean'
<1>1. \A q \in net'.asked : q.ecm = call'.ecm /\ q.share = cl'.shareid
  BY DEF Clean
<1>2. OnlyOwn(net.in)' /\ \A q \in Readers : OnlyOwn(rd[q].buf)'
  BY DEF Clean, OnlyOwn
<1>3. \A q \in Readers : Top(stack'[q]) = "deliver" /\ rd'[q].take => rd'[q].cw = call'.ecm
  BY DEF Clean, Top
<1>4. Top(stack'[Caller]) = "waiting" /\ cl'.newcw => cl'.cw = call'.ecm
  BY DEF Clean, Top
<1> QED BY <1>1, <1>2, <1>3, <1>4 DEF Clean

\* One reader deals with its buffer.
LEMMA CleanOf ==
  ASSUME Buffers, Clean, NEW r \in Readers, stack'[Caller] = stack[Caller],
         \A q \in Readers \ {r} : stack'[q] = stack[q],
         NEW p, rd' = [rd EXCEPT ![r] = p], OnlyOwn(p.buf),
         Top(stack'[r]) = "deliver" /\ p.take => p.cw = call.ecm,
         call'.ecm = call.ecm, cl'.shareid = cl.shareid,
         cl'.newcw => cl'.cw = call.ecm \/ (cl.newcw /\ cl'.cw = cl.cw),
         OnlyOwn(net'.in), net'.asked = net.asked
  PROVE  Clean'
<1>1. rd'[r] = p /\ \A q \in Readers \ {r} : rd'[q] = rd[q]
  BY DEF Buffers
<1>2. OnlyOwn(net.in)' /\ \A q \in net'.asked : q.ecm = call'.ecm /\ q.share = cl'.shareid
  BY DEF Clean, OnlyOwn
<1>3. ASSUME NEW q \in Readers
      PROVE  /\ OnlyOwn(rd[q].buf)'
             /\ Top(stack'[q]) = "deliver" /\ rd'[q].take => rd'[q].cw = call'.ecm
  <2>1. CASE q = r
    BY <1>1, <2>1 DEF OnlyOwn
  <2>2. CASE q # r
    BY <1>1, <2>2 DEF Clean, OnlyOwn, Top
  <2> QED BY <2>1, <2>2
<1>4. Top(stack'[Caller]) = "waiting" /\ cl'.newcw => cl'.cw = call'.ecm
  BY DEF Clean, Top
<1> QED BY <1>2, <1>3, <1>4 DEF Clean

LEMMA CallerClean ==
  ASSUME Stacks, Fields, Buffers, AnswerInv, CallerStep, Waits'
  PROVE  Clean'
<1>1. Caller \in Threads /\ \A q \in Readers : q \in Threads \ {Caller}
  BY ReadersAssumption DEF Threads, Caller
<1>2. CASE Writes(Caller)
  <2> DEFINE q == [ecm |-> call.ecm, share |-> cl.shareid]
  <2>1. At(Caller, "write") /\ Return(Caller, TRUE) /\ UNCHANGED <<cl, rd>>
    BY <1>2 DEF Writes
  <2>2. Top(stack'[Caller]) # "waiting" /\ \A r \in Readers : stack'[r] = stack[r]
    <3>1. /\ stack'[Caller] # <<>> => stack[Caller][2] \in Under("write")
                                      /\ Top(stack'[Caller]) = stack[Caller][2]
          /\ \A u \in Threads \ {Caller} : stack'[u] = stack[u]
      BY <1>1, <2>1, ReturnIs
    <3>2. "waiting" \notin Under("write")
      BY UnderSending DEF Sending
    <3> QED BY <1>1, <3>1, <3>2 DEF Top
  <2>3. call.kind = "ecm" /\ call' = [call EXCEPT !.clean = ~Outstanding]
    BY <1>2 DEF Writes, Waits, Fields
  <2>4. call'.ecm = call.ecm /\ ~Outstanding
    BY <2>3 DEF Waits, Fields
  <2>5. net'.in = net.in /\ net'.asked \subseteq net.asked \cup {q}
    BY <1>2 DEF Writes, Fields
  <2>6. net.asked = {} /\ ~HasAnswer(net.in) /\ \A r \in Readers : ~HasAnswer(rd[r].buf)
    BY <2>4 DEF Outstanding
  <2>7. OnlyOwn(net.in) /\ \A r \in Readers : OnlyOwn(rd[r].buf)
    BY <2>6, OwnPackets DEF Fields, Buffers
  <2>8. \A r \in Readers : Top(stack[r]) # "deliver"
    <3> SUFFICES ASSUME NEW r \in Readers, Top(stack[r]) = "deliver" PROVE FALSE
      OBVIOUS
    <3>1. rd[r].buf \in Seq(Packets) /\ rd[r].buf # <<>> /\ IsAnswer(Head(rd[r].buf))
      BY DEF Buffers
    <3> QED BY <2>6, <3>1, OwnPackets
  <2>9. OnlyOwn(net.in)' /\ \A r \in Readers : OnlyOwn(rd[r].buf)'
    BY <2>1, <2>4, <2>5, <2>7 DEF OnlyOwn
  <2>10. \A p \in net'.asked : p.ecm = call'.ecm /\ p.share = cl'.shareid
    BY <2>1, <2>4, <2>5, <2>6
  <2> HIDE DEF q
  <2>11. \A r \in Readers : Top(stack'[r]) # "deliver"
    BY <2>2, <2>8 DEF Top
  <2> QED BY <2>2, <2>9, <2>10, <2>11 DEF Clean
<1>3. CASE StartsToWait
  <2>1. At(Caller, "asked") /\ UNCHANGED <<net, rd>>
    BY <1>3 DEF StartsToWait
  <2>2. ok[Caller]
    <3> SUFFICES ASSUME ~ok[Caller] PROVE FALSE
      OBVIOUS
    <3>1. Return(Caller, FALSE)
      BY <1>3 DEF StartsToWait
    <3>2. Under("asked") = {}
      BY UnderResting DEF Resting
    <3>3. stack'[Caller] = <<>>
      BY <1>1, <2>1, <3>1, <3>2, ReturnIs
    <3> QED BY <3>3 DEF Waits, Top
  <2>3. /\ cl' = [cl EXCEPT !.newcw = FALSE] /\ call' = [call EXCEPT !.woken = FALSE]
        /\ Goto(Caller, "waiting")
    BY <1>3, <2>2 DEF StartsToWait
  <2>4. ~cl'.newcw /\ cl'.shareid = cl.shareid /\ call'.ecm = call.ecm /\ call'.clean = call.clean
    BY <2>3 DEF Fields
  <2>5. Top(stack[Caller]) = "asked"
    BY <1>1, <2>1, AtIs
  <2>6. Clean
    BY <2>2, <2>4, <2>5, AnswerInvIs DEF Waits
  <2>7. \A r \in Readers : stack'[r] = stack[r]
    BY <1>1, <2>3, OthersStay
  <2>8. OnlyOwn(net.in)' /\ \A r \in Readers : OnlyOwn(rd[r].buf)'
    BY <2>1, <2>4, <2>6 DEF OnlyOwn, Clean
  <2> QED BY <2>1, <2>4, <2>6, <2>7, <2>8 DEF Clean, Top
<1> QED BY <1>2, <1>3, CallerBegins

\* What the others do while the caller waits.
LEMMA WaitsOn ==
  ASSUME AnswerInv, Waits', stack'[Caller] = stack[Caller], ok'[Caller] = ok[Caller],
         call'.clean = call.clean
  PROVE  Clean
BY AnswerInvIs DEF Waits, Top

LEMMA ReaderCallClean ==
  ASSUME Stacks, Fields, Buffers, AnswerInv, Waits', NEW r \in Readers, ThreadStep(r)
  PROVE  Clean'
<1>1. Clean
  <2>1. call' = call
    BY ReaderLeaves
  <2>2. call'.clean = call.clean
    BY <2>1
  <2>3. ok'[Caller] = ok[Caller]
    BY ReaderLeaves
  <2>4. stack'[Caller] = stack[Caller]
    BY ReaderLeaves
  <2> QED BY <2>2, <2>3, <2>4, WaitsOn
<1>2. OnlyOwn(net.in) /\ OnlyOwn(<<>>)
  <2>1. net.in \in Seq(Packets)
    BY DEF Fields
  <2> QED BY <1>1, <2>1, OwnPackets DEF Clean
<1>3. OnlyOwn(net'.in)
  BY <1>2, ReaderLeaves
<1>4. \A q \in net'.asked : q.ecm = call.ecm /\ q.share = cl.shareid
  BY <1>1, ReaderLeaves DEF Clean
<1> QED BY <1>1, <1>3, <1>4, ReaderLeaves, CleanLeft

LEMMA ReaderClean ==
  ASSUME Stacks, Fields, Buffers, AnswerInv, Waits', NEW r \in Readers, ReaderStep(r) \/ Pings(r)
  PROVE  Clean'
<1> DEFINE buf == rd[r].buf
<1> USE LabelsAre DEF Resting
<1>1. r \in Threads /\ Caller \in Threads \ {r} /\ \A q \in Readers \ {r} : q \in Threads \ {r}
  BY ReadersAssumption DEF Threads, Caller
<1>2. /\ buf \in Seq(Packets) /\ rd = [rd EXCEPT ![r] = rd[r]]
      /\ rd[r] = [buf |-> rd[r].buf, pending |-> rd[r].pending, take |-> rd[r].take, cw |-> rd[r].cw]
      /\ Top(stack[r]) \in Answering => buf # <<>> /\ IsAnswer(Head(buf))
  <2>1. rd = [q \in Readers |-> rd[q]]
    BY DEF Buffers
  <2> QED BY <2>1 DEF Buffers, Answering
<1>3. CASE ThreadStep(r)
  BY <1>3, ReaderCallClean
<1>4. CASE ~ThreadStep(r)
  <2>1. /\ call'.clean = call.clean /\ call'.ecm = call.ecm
    BY <1>4 DEF ReaderStep, ReaderBegins, Reads, ReadsEof, AddShare, DelShare, Answers, SeesAnswer,
       Counts, Unscrambles, Delivers, CannotDecode, EndOfBuffer, Pings, ReaderEnds, Dies, Broadcast,
       Fields
  <2>2. ok' = ok
    BY <1>4 DEF ReaderStep, ReaderBegins, Reads, ReadsEof, AddShare, DelShare, Answers, SeesAnswer,
       Counts, Unscrambles, Delivers, CannotDecode, EndOfBuffer, Pings, ReaderEnds, Dies, Goto, Invoke
  <2>3. stack'[Caller] = stack[Caller] /\ \A q \in Readers \ {r} : stack'[q] = stack[q]
    <3>1. \/ stack' = stack \/ stack' = [stack EXCEPT ![r] = <<>>]
          \/ \E l : Goto(r, l)
          \/ \E a, b : Invoke(r, a, b)
      BY <1>4 DEF ReaderStep, ReaderBegins, Reads, ReadsEof, AddShare, DelShare, Answers,
       SeesAnswer, Counts, Unscrambles, Delivers, CannotDecode, EndOfBuffer, Pings, ReaderEnds, Dies
    <3>2. CASE stack' = stack \/ stack' = [stack EXCEPT ![r] = <<>>]
      BY <1>1, <3>2 DEF Stacks
    <3>3. CASE \/ \E l : Goto(r, l)
               \/ \E a, b : Invoke(r, a, b)
      BY <1>1, <3>3, OthersStay
    <3> QED BY <3>1, <3>2, <3>3
  <2>4. Clean
    BY <2>1, <2>2, <2>3, WaitsOn
  <2>5. /\ OnlyOwn(net.in) /\ OnlyOwn(<<>>) /\ OnlyOwn(buf) /\ net.in \in Seq(Packets)
        /\ buf # <<>> => OnlyOwn(Tail(buf))
        /\ buf # <<>> /\ IsAnswer(Head(buf)) => Head(buf).ecm = call.ecm /\ Head(buf).share = cl.shareid
    BY <1>2, <2>4, OwnPackets DEF Clean, Fields
  <2>6. cl'.shareid = cl.shareid
    BY <1>4 DEF ReaderStep, ReaderBegins, Reads, ReadsEof, AddShare, DelShare, Answers, SeesAnswer,
       Counts, Unscrambles, Delivers, CannotDecode, EndOfBuffer, Pings, ReaderEnds, Dies, Fields
  <2>7. net'.in \in {net.in, <<>>} /\ net'.asked = net.asked
    BY <1>4 DEF ReaderStep, ReaderBegins, Reads, ReadsEof, AddShare, DelShare, Answers, SeesAnswer,
       Counts, Unscrambles, Delivers, CannotDecode, EndOfBuffer, Pings, ReaderEnds, Dies, Fields
  <2>8. OnlyOwn(net'.in)
    BY <2>5, <2>7
  <2>9. Delivers(r) \/ (cl'.newcw => cl.newcw /\ cl'.cw = cl.cw)
    BY <1>4 DEF ReaderStep, ReaderBegins, Reads, ReadsEof, AddShare, DelShare, Answers, SeesAnswer,
       Counts, Unscrambles, CannotDecode, EndOfBuffer, Pings, ReaderEnds, Dies, Fields
  <2> HIDE DEF buf
  \* A buffer whose answers are of the call, and no key of another.
  <2>10. ASSUME NEW p, rd' = [rd EXCEPT ![r] = p], OnlyOwn(p.buf), ~Delivers(r),
                Top(stack'[r]) = "deliver" /\ p.take => p.cw = call.ecm
         PROVE  Clean'
    BY <2>1, <2>3, <2>4, <2>6, <2>7, <2>8, <2>9, <2>10, CleanOf
  <2>11. CASE ~Delivers(r) /\ ~Unscrambles(r)
    <3>1. stack'[r] = stack[r] \/ Top(stack'[r]) # "deliver"
      <4>1. CASE \E h \in Resting, l \in Resting \ {"deliver"} : At(r, h) /\ Goto(r, l)
        BY <1>1, <4>1, RestingGoto
      <4>2. CASE \E h \in Resting, a \in {"logout", "crypt"}, b \in {"packet", "loop"} :
                   At(r, h) /\ b \in Under(a) /\ Invoke(r, a, b)
        BY <1>1, <4>2, RestingInvoke
      <4>3. CASE stack' = [stack EXCEPT ![r] = <<>>]
        BY <1>1, <4>3 DEF Stacks, Top
      <4>4. CASE Counts(r)
        <5>1. At(r, "counted") /\ Goto(r, Head(rd[r].buf).cmd)
          BY <4>4 DEF Counts
        <5>2. IsAnswer(Head(rd[r].buf))
          BY <1>1, <1>2, <5>1, AtIs DEF Answering, buf
        <5>3. Head(rd[r].buf).cmd \in Resting \ {"deliver"}
          BY <5>2 DEF IsAnswer
        <5> QED BY <4>1, <5>1, <5>3
      <4>5. "packet" \in Under("logout") /\ "packet" \in Under("crypt") /\ "loop" \in Under("crypt")
        BY UnderOuts, UnderSending DEF Outs, Sending
      <4>6. CASE ReaderBegins(r) \/ Reads(r) \/ SeesAnswer(r) \/ CannotDecode(r) \/ EndOfBuffer(r)
        <5>1. \E h \in Resting, l \in Resting \ {"deliver"} : At(r, h) /\ Goto(r, l)
          BY <4>6 DEF ReaderBegins, Reads, SeesAnswer, CannotDecode, EndOfBuffer, Polls
        <5> QED BY <4>1, <5>1
      <4>7. CASE ReadsEof(r) \/ Answers(r) \/ Pings(r)
        <5>1. \E h \in Resting : At(r, h) /\ (Invoke(r, "logout", "packet") \/ Invoke(r, "crypt", "packet")
                                              \/ Invoke(r, "crypt", "loop"))
          BY <4>7 DEF ReadsEof, Answers, Pings, Polls, Packet
        <5> QED BY <4>2, <4>5, <5>1
      <4>8. CASE AddShare(r) \/ DelShare(r)
        BY <4>8 DEF AddShare, DelShare
      <4>9. CASE ReaderEnds(r) \/ Dies(r)
        BY <4>3, <4>9 DEF ReaderEnds, Dies
      <4> QED BY <1>4, <2>11, <4>4, <4>6, <4>7, <4>8, <4>9 DEF ReaderStep
    <3>2. Top(stack'[r]) = "deliver" /\ rd[r].take => rd[r].cw = call.ecm
      BY <2>4, <3>1 DEF Clean, Top
    <3>3. CASE rd' = rd
      <4>1. rd' = [rd EXCEPT ![r] = rd[r]] /\ OnlyOwn(rd[r].buf)
        BY <1>2, <2>5, <3>3 DEF buf
      <4> QED BY <2>10, <2>11, <3>2, <4>1
    <3>4. CASE Reads(r)
      <4> DEFINE p == [rd[r] EXCEPT !.buf = net.in]
      <4>1. rd' = [rd EXCEPT ![r] = p]
        BY <3>4 DEF Reads
      <4>2. p.buf = net.in /\ p.take = rd[r].take /\ p.cw = rd[r].cw
        BY <1>2
      <4> HIDE DEF p
      <4> QED BY <2>5, <2>10, <2>11, <3>2, <4>1, <4>2
    <3>5. CASE AddShare(r) \/ DelShare(r) \/ Answers(r)
      <4>1. buf # <<>> /\ rd' = [rd EXCEPT ![r].buf = Tail(buf)]
        BY <3>5 DEF AddShare, DelShare, Answers, Packet, Popped, buf
      <4>2. PICK tl : tl = Tail(buf)
        OBVIOUS
      <4> DEFINE p == [rd[r] EXCEPT !.buf = tl]
      <4>3. rd' = [rd EXCEPT ![r] = p] /\ OnlyOwn(tl)
        BY <2>5, <4>1, <4>2
      <4>4. p.buf = tl /\ p.take = rd[r].take /\ p.cw = rd[r].cw
        BY <1>2
      <4> HIDE DEF p
      <4> QED BY <2>10, <2>11, <3>2, <4>3, <4>4
    <3>6. CASE SeesAnswer(r)
      <4> DEFINE p == [rd[r] EXCEPT !.pending = cl.pending]
      <4>1. rd' = [rd EXCEPT ![r] = p]
        BY <3>6 DEF SeesAnswer
      <4>2. p.buf = buf /\ p.take = rd[r].take /\ p.cw = rd[r].cw
        BY <1>2 DEF buf
      <4> HIDE DEF p
      <4> QED BY <2>5, <2>10, <2>11, <3>2, <4>1, <4>2
    <3>7. CASE CannotDecode(r)
      <4>1. At(r, "no") /\ rd' = [rd EXCEPT ![r] = [NoPacket EXCEPT !.buf = Tail(buf)]]
        BY <3>7 DEF CannotDecode, buf
      <4>2. Top(stack[r]) = "no"
        BY <1>1, <4>1, AtIs
      <4>3. buf # <<>>
        BY <1>2, <4>2 DEF Answering
      <4>4. PICK tl : tl = Tail(buf)
        OBVIOUS
      <4> DEFINE p == [NoPacket EXCEPT !.buf = tl]
      <4>5. rd' = [rd EXCEPT ![r] = p] /\ OnlyOwn(tl)
        BY <2>5, <4>1, <4>3, <4>4
      <4>6. p.buf = tl /\ p.take = FALSE
        BY DEF NoPacket
      <4> HIDE DEF p
      <4> QED BY <2>10, <2>11, <4>5, <4>6
    <3>8. CASE Dies(r)
      <4>1. rd' = [rd EXCEPT ![r] = NoPacket]
        BY <3>8 DEF Dies
      <4>2. OnlyOwn(NoPacket.buf) /\ NoPacket.take = FALSE
        BY <2>5 DEF NoPacket
      <4> QED BY <2>10, <2>11, <4>1, <4>2
    <3>9. \/ rd' = rd \/ Reads(r) \/ AddShare(r) \/ DelShare(r) \/ Answers(r) \/ SeesAnswer(r)
          \/ CannotDecode(r) \/ Dies(r)
      BY <1>4, <2>11 DEF ReaderStep, ReaderBegins, ReadsEof, Counts, EndOfBuffer, Pings, ReaderEnds
    <3> QED BY <3>3, <3>4, <3>5, <3>6, <3>7, <3>8, <3>9
  <2>12. CASE Unscrambles(r)
    <3>1. At(r, "cw")
      BY <2>12 DEF Unscrambles
    <3>2. Top(stack[r]) = "cw"
      BY <1>1, <3>1, AtIs
    <3>3. Head(rd[r].buf).ecm = call.ecm /\ Head(rd[r].buf).share = cl.shareid
      BY <1>2, <2>5, <3>2 DEF Answering, buf
    <3>4. rd' = [rd EXCEPT ![r].cw = call.ecm, ![r].take = TRUE]
      BY <2>12, <3>3 DEF Unscrambles
    <3> DEFINE o == [rd[r] EXCEPT !.cw = call.ecm]
    <3>5. o = [buf |-> o.buf, pending |-> o.pending, take |-> o.take, cw |-> o.cw]
          /\ o.buf = buf /\ o.cw = call.ecm
      BY <1>2 DEF buf
    <3>6. rd = [q \in Readers |-> rd[q]] /\ [rd EXCEPT ![r].cw = call.ecm] = [rd EXCEPT ![r] = o]
      BY DEF Buffers
    <3>7. rd' = [rd EXCEPT ![r] = [o EXCEPT !.take = TRUE]]
      BY <3>4, <3>6
    <3> HIDE DEF o
    <3> DEFINE p == [o EXCEPT !.take = TRUE]
    <3>8. p.buf = buf /\ p.cw = call.ecm
      BY <3>5
    <3>9. rd' = [rd EXCEPT ![r] = p]
      BY <3>7
    <3> HIDE DEF p
    <3>10. ~Delivers(r)
      BY <3>1 DEF Delivers, At
    <3> QED BY <2>5, <2>10, <3>8, <3>9, <3>10
  <2>13. CASE Delivers(r)
    <3>1. At(r, "deliver") /\ rd' = [rd EXCEPT ![r] = [NoPacket EXCEPT !.buf = Tail(buf)]]
      BY <2>13 DEF Delivers, buf
    <3>2. Top(stack[r]) = "deliver"
      BY <1>1, <3>1, AtIs
    <3>3. buf # <<>>
      BY <1>2, <3>2 DEF Answering
    <3>4. rd[r].take => rd[r].cw = call.ecm
      BY <2>4, <3>2 DEF Clean
    <3>5. cl'.newcw => cl'.cw = call.ecm \/ (cl.newcw /\ cl'.cw = cl.cw)
      BY <2>13, <3>4 DEF Delivers, Fields
    <3>6. PICK tl : tl = Tail(buf)
      OBVIOUS
    <3> DEFINE p == [NoPacket EXCEPT !.buf = tl]
    <3>7. rd' = [rd EXCEPT ![r] = p] /\ OnlyOwn(tl)
      BY <2>5, <3>1, <3>3, <3>6
    <3>8. p.buf = tl /\ p.take = FALSE
      BY DEF NoPacket
    <3> HIDE DEF p
    <3> QED BY <2>1, <2>3, <2>4, <2>6, <2>7, <2>8, <3>5, <3>7, <3>8, CleanOf
  <2> QED BY <2>11, <2>12, <2>13
<1> QED BY <1>3, <1>4

LEMMA AnswersKept ==
  Stacks /\ Fields /\ Buffers /\ AnswerInv /\ [ClientNext]_clientVars => AnswerInv'
<1> SUFFICES ASSUME Stacks, Fields, Buffers, AnswerInv, [ClientNext]_clientVars, Waits'
             PROVE  Clean'
  BY AnswerInvIs DEF AnswerInv, Waits, Clean
<1>1. CASE CallerStep
  BY <1>1, CallerClean
<1>2. ASSUME NEW r \in Readers, ReaderStep(r) \/ Pings(r) PROVE Clean'
  BY <1>2, ReaderClean
<1>3. CASE ProcessECM \/ ProcessEMM
  <2>1. call'.clean = FALSE
    BY <1>3 DEF ProcessECM, ProcessEMM, NoCall
  <2> QED BY <2>1 DEF Waits
<1>4. ASSUME NEW p \in Packets, Pushes(p),
             IsAnswer(p) => [ecm |-> p.ecm, share |-> p.share] \in net.asked
      PROVE  Clean'
  <2>1. UNCHANGED <<stack, ok, cl, rd, call>>
    BY <1>4 DEF Pushes
  <2>2. Clean
    BY <2>1, WaitsOn
  <2>3. IsAnswer(p) => p.ecm = call.ecm /\ p.share = cl.shareid
    BY <1>4, <2>2 DEF Clean
  <2>4. net'.in = Append(net.in, p) /\ net'.asked \subseteq net.asked
    BY <1>4 DEF Pushes, Fields
  <2>5. OnlyOwn(net'.in)
    BY <2>2, <2>3, <2>4, OwnPackets DEF Clean, Fields
  <2>6. \A q \in net'.asked : q.ecm = call.ecm /\ q.share = cl.shareid
    BY <2>2, <2>4 DEF Clean
  <2> QED BY <2>1, <2>2, <2>5, <2>6, CleanLeft
<1>5. CASE Announces
  <2>1. PICK s \in Shares, c \in {"add", "del"} : Pushes([cmd |-> c, share |-> s])
    BY <1>5 DEF Announces
  <2>2. [cmd |-> c, share |-> s] \in Packets /\ ~IsAnswer([cmd |-> c, share |-> s])
    BY DEF Packets, IsAnswer
  <2> QED BY <1>4, <2>1, <2>2
<1>6. CASE Questions
  <2>1. PICK known \in BOOLEAN : Pushes([cmd |-> "ask", known |-> known])
    BY <1>6 DEF Questions
  <2>2. [cmd |-> "ask", known |-> known] \in Packets /\ ~IsAnswer([cmd |-> "ask", known |-> known])
    BY DEF Packets, IsAnswer
  <2> QED BY <1>4, <2>1, <2>2
<1>7. CASE Replies
  <2>1. PICK q \in net.asked, c \in {"cw", "no"} :
          Pushes([cmd |-> c, ecm |-> q.ecm, share |-> q.share])
    BY <1>7 DEF Replies
  <2> DEFINE p == [cmd |-> c, ecm |-> q.ecm, share |-> q.share]
  <2>2. q \in Requests
    BY DEF Fields
  <2>3. p \in Packets /\ [ecm |-> p.ecm, share |-> p.share] = q
    BY <2>2 DEF Packets, Requests
  <2>4. Pushes(p)
    BY <2>1
  <2> HIDE DEF p
  <2> QED BY <1>4, <2>3, <2>4
<1>8. CASE ServerCloses
  <2>1. UNCHANGED <<stack, ok, cl, rd, call>> /\ net'.in = net.in /\ net'.asked = {}
    BY <1>8 DEF ServerCloses, Fields
  <2>2. Clean
    BY <2>1, WaitsOn
  <2>3. OnlyOwn(net'.in)
    BY <2>1, <2>2 DEF Clean
  <2> QED BY <2>1, <2>2, <2>3, CleanLeft
<1>9. CASE WatcherStep \/ UNCHANGED clientVars
  <2>1. UNCHANGED <<stack, ok, cl, rd, call, net>>
    BY <1>9 DEF WatcherStep, WatcherLocks, WatcherLooks, clientVars
  <2>2. Clean
    BY <2>1, WaitsOn
  <2> QED BY <2>1, <2>2, CleanLeft DEF Clean
<1> QED BY <1>1, <1>2, <1>3, <1>5, <1>6, <1>7, <1>8, <1>9 DEF ClientNext

\* The key with which ProcessECM returns is that of its own ECM if no earlier
\* request could still be answered when it sent its own (cccam2.c:1187).
THEOREM OwnKeyAlways == ClientSpec => OwnKey
<1> DEFINE Inv == Stacks /\ Fields /\ Buffers /\ AnswerInv
<1>1. ClientInit => Inv
  <2>1. ClientInit => ~call.clean
    BY DEF ClientInit, NoCall
  <2> QED BY <2>1, StacksInitially, FieldsInitially DEF AnswerInv
<1>2. Inv /\ [ClientNext]_clientVars => Inv'
  BY StacksKept, FieldsKept, BuffersKept, AnswersKept
<1>3. Inv /\ [ClientNext]_clientVars =>
        [At(Caller, "waiting") /\ Idle' /\ ok'[Caller] /\ call.clean => cl.cw = call.ecm]_clientVars
  <2> SUFFICES ASSUME Inv, ClientNext, At(Caller, "waiting"), Idle', ok'[Caller], call.clean
               PROVE  cl.cw = call.ecm
    OBVIOUS
  <2>1. Top(stack[Caller]) = "waiting" /\ stack[Caller] # <<>> /\ stack'[Caller] = <<>>
    BY DEF At, Top, Idle
  <2>2. Caller \in Threads /\ Caller \notin Readers /\ \A q \in Readers : q \in Threads
    BY ReadersAssumption DEF Threads, Caller
  <2>3. CallerStep
    <3>1. ASSUME NEW r \in Readers, ReaderStep(r) \/ Pings(r) PROVE FALSE
      <4>1. CASE ThreadStep(r)
        <5>1. stack'[Caller] = stack[Caller]
          BY <2>2, <4>1, ThreadTop
        <5> QED BY <2>1, <5>1
      <4>2. CASE ~ThreadStep(r)
        <5>1. \/ stack' = stack \/ stack' = [stack EXCEPT ![r] = <<>>]
              \/ \E l : Goto(r, l)
              \/ \E a, b : Invoke(r, a, b)
          BY <3>1, <4>2 DEF ReaderStep, ReaderBegins, Reads, ReadsEof, AddShare, DelShare, Answers,
           SeesAnswer, Counts, Unscrambles, Delivers, CannotDecode, EndOfBuffer, Pings, ReaderEnds, Dies
        <5>2. CASE stack' = stack \/ stack' = [stack EXCEPT ![r] = <<>>]
          BY <2>1, <2>2, <5>2 DEF Stacks
        <5>3. CASE \/ \E l : Goto(r, l)
                   \/ \E a, b : Invoke(r, a, b)
          BY <2>1, <2>2, <5>3, OthersStay
        <5> QED BY <5>1, <5>2, <5>3
      <4> QED BY <4>1, <4>2
    <3>2. ~ProcessECM /\ ~ProcessEMM
      BY <2>1 DEF ProcessECM, ProcessEMM, Idle
    <3> QED BY <2>1, <3>1, <3>2 DEF ClientNext, WatcherStep, WatcherLocks,
      WatcherLooks, Announces, Questions, Replies, ServerCloses, Pushes
  <2>4. \A l : At(Caller, l) => l = "waiting"
    BY DEF At
  <2>5. WakesUp \/ TimesOut
    BY <2>3, <2>4 DEF CallerStep, ThreadStep, LogoutBegins, Joined, Cancels, Detach, Close, Clear,
       Fails, Connect, DisconnectInConnect, Connected, ConnectFails, DisconnectAfterConnect, Up, Welcomed,
       NotWelcomed, Start, Encrypts, Sends, Resends, Writes, WriteFails, ChecksLogin, LoginReturns,
       GetShares, NextShare, NoMoreShares, SendsEcm, StartsToWait, SendsEmm, EmmSent
  <2>6. ~Return(Caller, FALSE)
    <3> SUFFICES ASSUME Return(Caller, FALSE) PROVE FALSE
      OBVIOUS
    <3>1. ok'[Caller] = FALSE
      BY <2>2 DEF Return, Stacks
    <3> QED BY <3>1
  <2>7. ~Goto(Caller, "next")
    <3> SUFFICES ASSUME Goto(Caller, "next") PROVE FALSE
      OBVIOUS
    <3>1. Under("waiting") = {}
      BY UnderResting DEF Resting
    <3>2. stack'[Caller] # <<>>
      BY <2>2, <3>1, GotoIs DEF Labels
    <3> QED BY <2>1, <3>2
  <2>8. cl.newcw
    BY <2>5, <2>6, <2>7 DEF WakesUp, TimesOut
  <2> QED BY <2>1, <2>8, AnswerInvIs DEF Waits, Clean
<1> QED BY <1>1, <1>2, <1>3, PTL DEF ClientSpec, OwnKey

=============================================================================
