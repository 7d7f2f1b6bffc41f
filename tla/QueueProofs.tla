----------------------------- MODULE QueueProofs -----------------------------
(***************************************************************************)
(* Proofs about what lies between two threads.                             *)
(*                                                                         *)
(* First what holds of a message queue for all keys, any number of cells,  *)
(* any period and any time; then what holds of the DVR ring buffer and its *)
(* descrambler for every size of packets, of the ring, of its reserved     *)
(* area and of the clusters.                                               *)
(***************************************************************************)
EXTENDS MsgQueue, DvrRing, SequenceLemmas

(* A message queue: the order of messages on the list.                     *)

\* A sequence that follows another one has no element twice.
LEMMA FollowsInjective ==
  ASSUME NEW S, NEW s \in Seq(S), NEW t \in Seq(S), Follows(s, t)
  PROVE  IsInjective(s)
<1> SUFFICES ASSUME NEW i \in DOMAIN s, NEW j \in DOMAIN s, s[i] = s[j] PROVE i = j
  BY DEF IsInjective
<1>0. i \in Int /\ j \in Int /\ \A a \in DOMAIN t : a \in Int
  BY LenProperties
<1>1. PICK a \in DOMAIN t : s[i] = t[a]
  BY DEF Follows, ToSet
<1>2. (i < j \/ j < i) => a < a
  BY <1>1 DEF Follows
<1> QED BY <1>0, <1>1, <1>2

\* An element taken out of both.
LEMMA FollowsRemoved ==
  ASSUME NEW S, NEW s \in Seq(S), NEW t \in Seq(S), Follows(s, t), IsInjective(t),
         NEW i \in 1 .. Len(t)
  PROVE  Follows(RemoveFirst(s, t[i]), RemoveAt(t, i))
<1> DEFINE q == RemoveFirst(s, t[i])
           r == RemoveAt(t, i)
<1>1. IsInjective(s)
  BY FollowsInjective
<1>2. /\ q \in Seq(S) /\ ToSet(q) = ToSet(s) \ {t[i]}
      /\ q = s \/ \E n \in 1 .. Len(s) : q = RemoveAt(s, n)
  BY <1>1, RemovedFirst
<1>3. r \in Seq(S) /\ ToSet(r) = ToSet(t) \ {t[i]}
  BY RemovedAt, RemovedFrom
<1>4. ToSet(q) \subseteq ToSet(r)
  BY <1>2, <1>3 DEF Follows
<1>5. \A j, k \in DOMAIN q : j < k =>
        \E m, n \in DOMAIN s : m < n /\ q[j] = s[m] /\ q[k] = s[n]
  <2> SUFFICES ASSUME NEW j \in DOMAIN q, NEW k \in DOMAIN q, j < k
               PROVE  \E m, n \in DOMAIN s : m < n /\ q[j] = s[m] /\ q[k] = s[n]
    OBVIOUS
  <2>1. CASE q = s
    BY <2>1
  <2>2. ASSUME NEW p \in 1 .. Len(s), q = RemoveAt(s, p)
        PROVE  \E m, n \in DOMAIN s : m < n /\ q[j] = s[m] /\ q[k] = s[n]
    <3> DEFINE m(l) == IF l < p THEN l ELSE l + 1
    <3>1. j \in Int /\ k \in Int /\ p \in Int
      BY <1>2, LenProperties
    <3>2. m(j) \in DOMAIN s /\ m(k) \in DOMAIN s /\ q[j] = s[m(j)] /\ q[k] = s[m(k)]
      BY <2>2, RemovedStands
    <3>3. m(j) < m(k)
      BY <3>1
    <3> QED BY <3>2, <3>3
  <2> QED BY <1>2, <2>1, <2>2
<1>6. ASSUME NEW j \in DOMAIN q, NEW k \in DOMAIN q, NEW a \in DOMAIN r,
             NEW b \in DOMAIN r, j < k, q[j] = r[a], q[k] = r[b]
      PROVE  a < b
  <2> DEFINE m(l) == IF l < i THEN l ELSE l + 1
  <2>1. /\ m(a) \in DOMAIN t /\ m(b) \in DOMAIN t
        /\ r[a] = t[m(a)] /\ r[b] = t[m(b)]
    BY RemovedStands
  <2>2. m(a) < m(b)
    <3>1. PICK x \in DOMAIN s, y \in DOMAIN s : x < y /\ q[j] = s[x] /\ q[k] = s[y]
      BY <1>5, <1>6
    <3> HIDE DEF q, r, m
    <3> QED BY <1>6, <2>1, <3>1 DEF Follows
  <2>3. a \in Int /\ b \in Int /\ i \in Int
    BY <1>3, LenProperties
  <2> QED BY <2>2, <2>3
<1> HIDE DEF q, r
<1>7. Follows(q, r)
  BY <1>4, <1>6 DEF Follows
<1> QED BY <1>7 DEF q, r

\* An element more at the end of the longer one.
LEMMA FollowsAppended ==
  ASSUME NEW S, NEW s \in Seq(S), NEW t \in Seq(S), Follows(s, t),
         NEW c \in S, c \notin ToSet(t)
  PROVE  Follows(s, Append(t, c)) /\ Follows(Append(s, c), Append(t, c))
<1> DEFINE q == Append(s, c)
           r == Append(t, c)
<1>1. /\ q \in Seq(S) /\ Len(q) = Len(s) + 1 /\ \A i \in 1 .. Len(s) : q[i] = s[i]
      /\ q[Len(s) + 1] = c
  BY AppendProperties
<1>2. /\ r \in Seq(S) /\ Len(r) = Len(t) + 1 /\ \A i \in 1 .. Len(t) : r[i] = t[i]
      /\ r[Len(t) + 1] = c
  BY AppendProperties
<1> HIDE DEF q, r
<1>3. /\ Len(s) \in Nat /\ DOMAIN s = 1 .. Len(s) /\ DOMAIN q = 1 .. Len(s) + 1
      /\ Len(t) \in Nat /\ DOMAIN t = 1 .. Len(t) /\ DOMAIN r = 1 .. Len(t) + 1
  BY <1>1, <1>2, LenProperties
<1>4. /\ \A i \in DOMAIN q : i \in DOMAIN s \/ i = Len(s) + 1
      /\ \A a \in DOMAIN r : a \in DOMAIN t \/ a = Len(t) + 1
      /\ DOMAIN t \subseteq DOMAIN r /\ Len(t) + 1 \in DOMAIN r
  BY <1>3
<1>5. \A i \in DOMAIN s : s[i] # c
  BY DEF Follows, ToSet
<1>6. ToSet(s) \subseteq ToSet(r) /\ ToSet(q) \subseteq ToSet(r)
  <2>1. \A i \in DOMAIN s : \E a \in DOMAIN r : s[i] = r[a]
    <3> TAKE i \in DOMAIN s
    <3>1. PICK a \in DOMAIN t : s[i] = t[a]
      BY DEF Follows, ToSet
    <3> QED BY <1>2, <1>3, <1>4, <3>1
  <2>2. \A i \in DOMAIN q : \E a \in DOMAIN r : q[i] = r[a]
    <3> TAKE i \in DOMAIN q
    <3>1. CASE i \in DOMAIN s
      BY <1>1, <1>3, <2>1, <3>1
    <3>2. CASE i = Len(s) + 1
      BY <1>1, <1>2, <1>4, <3>2
    <3> QED BY <1>4, <3>1, <3>2
  <2> QED BY <2>1, <2>2 DEF ToSet
<1>7. ASSUME NEW i \in DOMAIN s, NEW j \in DOMAIN s, NEW a \in DOMAIN r,
             NEW b \in DOMAIN r, i < j, s[i] = r[a], s[j] = r[b]
      PROVE  a < b
  <2>1. a \in DOMAIN t /\ b \in DOMAIN t
    BY <1>2, <1>4, <1>5, <1>7
  <2>2. r[a] = t[a] /\ r[b] = t[b]
    BY <1>2, <1>3, <2>1
  <2> QED BY <1>7, <2>1, <2>2 DEF Follows
<1>8. ASSUME NEW i \in DOMAIN q, NEW j \in DOMAIN q, NEW a \in DOMAIN r,
             NEW b \in DOMAIN r, i < j, q[i] = r[a], q[j] = r[b]
      PROVE  a < b
  <2>1. i \in DOMAIN s
    BY <1>3, <1>8
  <2>2. a \in DOMAIN t
    BY <1>1, <1>2, <1>3, <1>4, <1>5, <1>8, <2>1
  <2>3. CASE j \in DOMAIN s
    BY <1>1, <1>3, <1>7, <1>8, <2>1, <2>3
  <2>4. CASE j = Len(s) + 1
    <3>1. b \notin DOMAIN t
      BY <1>1, <1>2, <1>3, <1>8, <2>4 DEF ToSet
    <3> QED BY <1>3, <1>4, <2>2, <3>1
  <2> QED BY <1>4, <2>3, <2>4
<1>9. Follows(s, r) /\ Follows(q, r)
  BY <1>6, <1>7, <1>8 DEF Follows
<1> QED BY <1>9 DEF q, r

\* An element more at the head of the longer one.
LEMMA FollowsPrepended ==
  ASSUME NEW S, NEW s \in Seq(S), NEW t \in Seq(S), Follows(s, t),
         NEW c \in S, c \notin ToSet(t)
  PROVE  Follows(s, <<c>> \o t)
<1> DEFINE r == <<c>> \o t
<1>1. /\ r \in Seq(S) /\ DOMAIN r = 1 .. Len(t) + 1 /\ r[1] = c
      /\ \A i \in 1 .. Len(t) : r[i + 1] = t[i]
  BY Prepended
<1> HIDE DEF r
<1>2. Len(t) \in Nat /\ DOMAIN t = 1 .. Len(t)
  BY LenProperties
<1>3. ToSet(s) \subseteq ToSet(r)
  <2>1. \A i \in DOMAIN t : i + 1 \in DOMAIN r
    BY <1>1, <1>2
  <2>2. ToSet(t) \subseteq ToSet(r)
    BY <1>1, <1>2, <2>1 DEF ToSet
  <2> QED BY <2>2 DEF Follows
<1>4. ASSUME NEW i \in DOMAIN s, NEW j \in DOMAIN s, NEW a \in DOMAIN r,
             NEW b \in DOMAIN r, i < j, s[i] = r[a], s[j] = r[b]
      PROVE  a < b
  <2>1. s[i] # c /\ s[j] # c
    BY DEF Follows, ToSet
  <2>2. /\ a - 1 \in DOMAIN t /\ (a - 1) + 1 = a
        /\ b - 1 \in DOMAIN t /\ (b - 1) + 1 = b
    BY <1>1, <1>2, <1>4, <2>1
  <2>3. r[a] = t[a - 1] /\ r[b] = t[b - 1]
    BY <1>1, <1>2, <2>2
  <2>4. a - 1 < b - 1
    BY <1>4, <2>2, <2>3 DEF Follows
  <2> QED BY <1>2, <2>2, <2>4
<1>5. Follows(s, r)
  BY <1>3, <1>4 DEF Follows
<1> QED BY <1>5 DEF r

-----------------------------------------------------------------------------
(* Steps.                                                                  *)

LEMMA MadeAreCells ==
  ASSUME QueueTypeOK
  PROVE  1 .. made \subseteq Cells
<1>1. made \in Preallocated .. MaxCells
  BY DEF QueueTypeOK
<1> QED BY <1>1, QueueAssumption DEF Cells

\* Everything starts empty.
LEMMA QueueInitially == QueueInit => QueueInv
<1> SUFFICES ASSUME QueueInit PROVE QueueInv
  OBVIOUS
<1> USE QueueAssumption DEF QueueInit
<1>1. ToSet(msglist) = {} /\ ToSet(order) = {} /\ ToSet(empty) = 1 .. Preallocated
  BY DEF ToSet
<1>2. QueueTypeOK
  <2>1. empty \in Seq(Cells)
    BY DEF Cells
  <2>2. msg \in [Cells -> Message]
    <3>1. Blank \in Message
      BY DEF Blank, Message
    <3> QED BY <3>1
  <2>3. made \in Preallocated .. MaxCells /\ now \in 0 .. MaxTime /\ ts \in Nat
    OBVIOUS
  <2>4. /\ msglist \in Seq(Cells) /\ order \in Seq(Cells)
        /\ owed \in [Keys -> Data \cup {"none"}]
    OBVIOUS
  <2> QED BY <2>1, <2>2, <2>3, <2>4 DEF QueueTypeOK
<1>3. CellsPlaced
  BY <1>1 DEF CellsPlaced, IsInjective, None
<1>4. KeysListed /\ SentInOrder /\ SentLatest /\ WakesInTime
  BY <1>1 DEF KeysListed, SentInOrder, Follows, SentLatest, WakesInTime, OnList, Keys
<1>5. KeepsRecurring
  BY DEF KeepsRecurring, Blank, Cells
<1> QED BY <1>2, <1>3, <1>4, <1>5 DEF QueueInv

\* A cell for a message is nowhere else.
LEMMA FreshCell ==
  ASSUME QueueTypeOK, CellsPlaced, NEW c \in Cells, Fresh(c)
  PROVE  /\ empty' \in Seq(Cells) /\ IsInjective(empty')
         /\ made' \in Preallocated .. MaxCells /\ 1 .. made' = (1 .. made) \cup {c}
         /\ ToSet(empty') = ToSet(empty) \ {c}
         /\ c \notin ToSet(msglist) /\ c # hand
<1> USE QueueAssumption
<1>1. CASE empty # <<>> /\ c = Head(empty) /\ empty' = Tail(empty) /\ UNCHANGED made
  <2>1. /\ Head(empty) \in ToSet(empty) /\ Tail(empty) \in Seq(Cells)
        /\ IsInjective(Tail(empty)) /\ ToSet(Tail(empty)) = ToSet(empty) \ {Head(empty)}
    BY <1>1, TailOf DEF QueueTypeOK, CellsPlaced
  <2> QED BY <1>1, <2>1 DEF QueueTypeOK, CellsPlaced
<1>2. CASE empty = <<>> /\ made < MaxCells /\ c = made + 1 /\ made' = made + 1
           /\ UNCHANGED empty
  <2>1. made \in Nat /\ c \notin 1 .. made /\ c # None
    BY <1>2 DEF QueueTypeOK, None
  <2>2. ToSet(empty) = {}
    BY <1>2 DEF ToSet
  <2>3. made' \in Preallocated .. MaxCells /\ 1 .. made' = (1 .. made) \cup {c}
    BY <1>2, <2>1 DEF QueueTypeOK
  <2> QED BY <1>2, <2>1, <2>2, <2>3 DEF QueueTypeOK, CellsPlaced
<1> QED BY <1>1, <1>2 DEF Fresh

\* It goes to the list.
LEMMA FreshListed ==
  ASSUME QueueInv, NEW c \in Cells, Fresh(c), UNCHANGED hand,
         lpc' = lpc,
         msglist' = Append(msglist, c) \/ msglist' = <<c>> \o msglist
  PROVE  /\ CellsPlaced' /\ msglist' \in Seq(Cells)
         /\ ToSet(msglist') = ToSet(msglist) \cup {c}
<1>1. /\ empty' \in Seq(Cells) /\ IsInjective(empty')
      /\ 1 .. made' = (1 .. made) \cup {c} /\ ToSet(empty') = ToSet(empty) \ {c}
      /\ c \notin ToSet(msglist) /\ c # hand
  BY FreshCell DEF QueueInv
<1>2. msglist \in Seq(Cells) /\ IsInjective(msglist)
  BY DEF QueueInv, QueueTypeOK, CellsPlaced
<1>3. /\ msglist' \in Seq(Cells) /\ IsInjective(msglist')
      /\ ToSet(msglist') = ToSet(msglist) \cup {c}
  <2>1. CASE msglist' = Append(msglist, c)
    BY <1>1, <1>2, <2>1, Appended
  <2>2. CASE msglist' = <<c>> \o msglist
    BY <1>1, <1>2, <2>2, PrependedTo
  <2> QED BY <2>1, <2>2
<1>4. CellsPlaced'
  BY <1>1, <1>3 DEF QueueInv, CellsPlaced
<1> QED BY <1>3, <1>4

\* A message is put at the end of the list.
LEMMA AddCellInv ==
  ASSUME QueueInv, NEW k \in Keys, NEW d \in Data, NEW period \in {0, Period},
         period > 0 <=> k \in Recurring, k \in Replaced => OnList(k) = {},
         AddCell(k, d, period), owed' = [owed EXCEPT ![k] = d],
         UNCHANGED <<loop, now>>, signalled' \in BOOLEAN,
         lpc = "wait" => signalled'
  PROVE  QueueInv'
<1> USE QueueAssumption
<1> DEFINE m == [key |-> k, data |-> d, recurring |-> period,
                 next_run |-> IF period > 0 THEN now + period ELSE 0]
<1>1. PICK c \in Cells :
        /\ Fresh(c) /\ msglist' = Append(msglist, c) /\ msg' = [msg EXCEPT ![c] = m]
        /\ order' = IF period > 0 THEN order ELSE Append(order, c)
  BY DEF AddCell
<1>2. UNCHANGED <<lpc, hand, orig, ts, now>>
  BY DEF loop
<1>3. /\ empty' \in Seq(Cells) /\ made' \in Preallocated .. MaxCells
      /\ 1 .. made' = (1 .. made) \cup {c} /\ c \notin ToSet(msglist) /\ c # hand
  BY <1>1, FreshCell DEF QueueInv
<1>4. /\ CellsPlaced' /\ msglist' \in Seq(Cells)
      /\ ToSet(msglist') = ToSet(msglist) \cup {c}
  BY <1>1, <1>2, FreshListed
<1>5. /\ msglist \in Seq(Cells) /\ order \in Seq(Cells) /\ now \in 0 .. MaxTime
      /\ Follows(order, msglist) /\ ToSet(order) \subseteq ToSet(msglist)
  BY DEF QueueInv, QueueTypeOK, SentInOrder, Follows
<1>6. m.key = k /\ m.data = d /\ m.recurring = period
      /\ (period = 0 => m.next_run = 0)
      /\ m \in Message
  BY <1>5 DEF Message
<1> HIDE DEF m
<1>7. msg'[c] = m /\ \A e \in Cells \ {c} : msg'[e] = msg[e]
  BY <1>1 DEF QueueInv, QueueTypeOK
<1>8. \A e \in ToSet(msglist) : e \in Cells \ {c}
  BY <1>3, <1>5 DEF ToSet
<1>9. /\ order' \in Seq(Cells)
      /\ period > 0 => order' = order
      /\ period = 0 => order' = Append(order, c) /\ ToSet(order') = ToSet(order) \cup {c}
  <2>1. Append(order, c) \in Seq(Cells) /\ ToSet(Append(order, c)) = ToSet(order) \cup {c}
    <3>1. IsInjective(order) /\ c \notin ToSet(order)
      BY <1>3, <1>5, FollowsInjective
    <3> QED BY <1>5, <3>1, Appended
  <2> QED BY <1>1, <1>5, <2>1
<1>10. QueueTypeOK'
  <2>1. msg' \in [Cells -> Message]
    BY <1>1, <1>6 DEF QueueInv, QueueTypeOK
  <2>2. owed' \in [Keys -> Data \cup {"none"}]
    BY DEF QueueInv, QueueTypeOK
  <2> QED BY <1>2, <1>3, <1>4, <1>9, <2>1, <2>2 DEF QueueInv, QueueTypeOK
<1>11. KeysListed'
  BY <1>4, <1>6, <1>7, <1>8 DEF QueueInv, KeysListed
<1>12. SentInOrder'
  <2>1. Follows(order', msglist')
    BY <1>1, <1>3, <1>5, FollowsAppended
  <2>2. \A e \in ToSet(order') : msg'[e].next_run = 0
    <3>1. \A e \in ToSet(order) : msg'[e].next_run = 0
      BY <1>5, <1>7, <1>8 DEF QueueInv, SentInOrder
    <3> QED BY <1>6, <1>7, <1>9, <3>1
  <2> QED BY <2>1, <2>2 DEF SentInOrder
<1>13. SentLatest'
  <2> SUFFICES ASSUME NEW l \in Replaced
               PROVE  /\ \A a, b \in OnList(l)' : a = b
                      /\ owed'[l] # "none" => \E e \in OnList(l)' : msg'[e].data = owed'[l]
    BY DEF SentLatest
  <2>1. l \in Keys /\ owed' [l] = IF l = k THEN d ELSE owed[l]
    BY DEF QueueInv, QueueTypeOK, Keys
  <2>2. OnList(l)' = OnList(l) \cup (IF l = k THEN {c} ELSE {})
    BY <1>4, <1>6, <1>7, <1>8 DEF OnList
  <2>3. CASE l = k
    BY <1>6, <1>7, <2>1, <2>2, <2>3
  <2>4. CASE l # k
    <3>1. OnList(l)' = OnList(l) /\ \A e \in OnList(l) : msg'[e] = msg[e]
      BY <1>7, <1>8, <2>2, <2>4 DEF OnList
    <3> QED BY <2>1, <2>4, <3>1 DEF QueueInv, SentLatest
  <2> QED BY <2>3, <2>4
<1>14. KeepsRecurring'
  <2> SUFFICES ASSUME NEW e \in 1 .. made', msg'[e].recurring > 0
               PROVE  \/ e \in ToSet(msglist)' /\ msg'[e].key \in Recurring
                      \/ e = hand' /\ orig' \in Recurring
    BY DEF KeepsRecurring
  <2>1. CASE e = c
    BY <1>4, <1>6, <1>7, <2>1
  <2>2. CASE e # c
    <3>1. e \in 1 .. made /\ e \in Cells
      BY <1>3, <2>2, MadeAreCells DEF QueueInv
    <3> QED BY <1>2, <1>4, <1>7, <2>2, <3>1 DEF QueueInv, KeepsRecurring
  <2> QED BY <2>1, <2>2
<1>15. WakesInTime'
  BY <1>2 DEF WakesInTime
<1> QED BY <1>4, <1>10, <1>11, <1>12, <1>13, <1>14, <1>15 DEF QueueInv

\* The data of the message on the list is replaced.
LEMMA ReplaceInv ==
  ASSUME QueueInv, NEW k \in Replaced, NEW d \in Data, NEW c \in OnList(k),
         msg' = [msg EXCEPT ![c].data = d], owed' = [owed EXCEPT ![k] = d],
         UNCHANGED <<queues, order, loop, now>>, signalled' \in BOOLEAN,
         lpc = "wait" => signalled'
  PROVE  QueueInv'
<1> USE QueueAssumption
<1>1. UNCHANGED <<msglist, empty, made, order, lpc, hand, orig, ts, now>>
  BY DEF loop, queues
<1>2. c \in Cells /\ msglist \in Seq(Cells) /\ c \in ToSet(msglist)
  BY DEF QueueInv, QueueTypeOK, OnList, ToSet
<1>3. /\ \A e \in Cells : /\ msg'[e].key = msg[e].key
                          /\ msg'[e].recurring = msg[e].recurring
                          /\ msg'[e].next_run = msg[e].next_run
                          /\ msg'[e].data = IF e = c THEN d ELSE msg[e].data
      /\ \A e \in ToSet(msglist) : e \in Cells
      /\ ToSet(order) \subseteq ToSet(msglist)
      /\ 1 .. made \subseteq Cells
  <2>1. 1 .. made \subseteq Cells
    BY MadeAreCells DEF QueueInv
  <2>2. \A e \in ToSet(msglist) : e \in Cells
    BY <1>2 DEF ToSet
  <2>3. ToSet(order) \subseteq ToSet(msglist)
    BY DEF QueueInv, SentInOrder, Follows
  <2> QED BY <1>2, <2>1, <2>2, <2>3 DEF QueueInv, QueueTypeOK
<1>4. QueueTypeOK'
  <2>1. msg' \in [Cells -> Message]
    <3>1. msg \in [Cells -> Message] /\ msg[c] \in Message
      BY <1>2 DEF QueueInv, QueueTypeOK
    <3>2. [msg[c] EXCEPT !.data = d] \in Message
      BY <3>1 DEF Message
    <3>3. msg' = [msg EXCEPT ![c] = [msg[c] EXCEPT !.data = d]]
      BY <1>2, <3>1
    <3> QED BY <1>2, <3>1, <3>2, <3>3
  <2>2. owed' \in [Keys -> Data \cup {"none"}]
    BY DEF QueueInv, QueueTypeOK
  <2> QED BY <1>1, <2>1, <2>2 DEF QueueInv, QueueTypeOK
<1>5. CellsPlaced' /\ KeysListed' /\ SentInOrder' /\ WakesInTime'
  BY <1>1, <1>3 DEF QueueInv, CellsPlaced, KeysListed, SentInOrder, WakesInTime
<1>6. KeepsRecurring'
  BY <1>1, <1>3 DEF QueueInv, KeepsRecurring
<1>7. SentLatest'
  <2>1. \A l \in Replaced : OnList(l)' = OnList(l)
    BY <1>1, <1>3 DEF OnList
  <2>2. \A l \in Replaced : owed'[l] = IF l = k THEN d ELSE owed[l]
    BY DEF QueueInv, QueueTypeOK, Keys
  <2>3. msg[c].key = k /\ \A l \in Replaced : \A e \in OnList(l) :
          e \in Cells /\ msg[e].key = l
    BY <1>3 DEF OnList
  <2> QED BY <1>3, <2>1, <2>2, <2>3 DEF QueueInv, SentLatest
<1> QED BY <1>4, <1>5, <1>6, <1>7 DEF QueueInv

\* MSG_TERMINATE is put at the head of the list.
LEMMA TerminateInv ==
  ASSUME QueueInv, PutTerminate, UNCHANGED <<loop, now, ghosts>>
  PROVE  QueueInv'
<1> USE QueueAssumption
<1> DEFINE m == [Blank EXCEPT !.key = "terminate"]
<1>1. PICK c \in Cells :
        Fresh(c) /\ msglist' = <<c>> \o msglist /\ msg' = [msg EXCEPT ![c] = m]
  BY DEF PutTerminate
<1>2. /\ UNCHANGED <<lpc, hand, orig, ts, now, owed, order>>
      /\ signalled' \in BOOLEAN /\ (lpc = "wait" => signalled')
  BY DEF loop, ghosts, PutTerminate, QueueInv, QueueTypeOK
<1>3. /\ empty' \in Seq(Cells) /\ made' \in Preallocated .. MaxCells
      /\ 1 .. made' = (1 .. made) \cup {c} /\ c \notin ToSet(msglist)
  BY <1>1, FreshCell DEF QueueInv
<1>4. /\ CellsPlaced' /\ msglist' \in Seq(Cells)
      /\ ToSet(msglist') = ToSet(msglist) \cup {c}
  BY <1>1, <1>2, FreshListed
<1>5. /\ msglist \in Seq(Cells) /\ order \in Seq(Cells)
      /\ Follows(order, msglist) /\ ToSet(order) \subseteq ToSet(msglist)
  BY DEF QueueInv, QueueTypeOK, SentInOrder, Follows
<1>6. m.key = "terminate" /\ m.recurring = 0
      /\ m \in Message
  <2>1. 0 \in 0 .. MaxTime + Period
    OBVIOUS
  <2> QED BY <2>1 DEF Blank, Message
<1> HIDE DEF m
<1>7. msg'[c] = m /\ \A e \in Cells \ {c} : msg'[e] = msg[e]
  BY <1>1 DEF QueueInv, QueueTypeOK
<1>8. \A e \in ToSet(msglist) : e \in Cells \ {c}
  BY <1>3, <1>5 DEF ToSet
<1>9. QueueTypeOK'
  <2>1. msg' \in [Cells -> Message]
    BY <1>1, <1>6 DEF QueueInv, QueueTypeOK
  <2> QED BY <1>2, <1>3, <1>4, <2>1 DEF QueueInv, QueueTypeOK
<1>10. KeysListed'
  BY <1>4, <1>6, <1>7, <1>8 DEF QueueInv, KeysListed
<1>11. SentInOrder'
  <2>1. Follows(order, msglist')
    BY <1>1, <1>3, <1>5, FollowsPrepended
  <2>2. \A e \in ToSet(order) : msg'[e].next_run = 0
    BY <1>5, <1>7, <1>8 DEF QueueInv, SentInOrder
  <2> QED BY <1>2, <2>1, <2>2 DEF SentInOrder
<1>12. SentLatest'
  <2>1. \A l \in Replaced : l # "terminate"
    BY DEF Keys
  <2>2. \A l \in Replaced : OnList(l)' = OnList(l)
    BY <1>4, <1>6, <1>7, <1>8, <2>1 DEF OnList
  <2>3. \A l \in Replaced : \A e \in OnList(l) : msg'[e] = msg[e]
    BY <1>7, <1>8 DEF OnList
  <2> QED BY <1>2, <2>2, <2>3 DEF QueueInv, SentLatest
<1>13. KeepsRecurring'
  <2> SUFFICES ASSUME NEW e \in 1 .. made', msg'[e].recurring > 0
               PROVE  \/ e \in ToSet(msglist)' /\ msg'[e].key \in Recurring
                      \/ e = hand' /\ orig' \in Recurring
    BY DEF KeepsRecurring
  <2>1. e # c
    BY <1>6, <1>7
  <2>2. e \in 1 .. made /\ e \in Cells
    BY <1>3, <2>1, MadeAreCells DEF QueueInv
  <2> QED BY <1>2, <1>4, <1>7, <2>1, <2>2 DEF QueueInv, KeepsRecurring
<1>14. WakesInTime'
  BY <1>2 DEF WakesInTime
<1> QED BY <1>4, <1>9, <1>10, <1>11, <1>12, <1>13, <1>14 DEF QueueInv

\* What a message taken off the list leaves.
LEMMA TakenOff ==
  ASSUME QueueInv, NEW i \in 1 .. Len(msglist), msglist' = RemoveAt(msglist, i),
         order' = RemoveFirst(order, msglist[i]), UNCHANGED msg
  PROVE  /\ msglist' \in Seq(Cells) /\ IsInjective(msglist')
         /\ msglist[i] \in ToSet(msglist) /\ msglist[i] \in Cells
         /\ ToSet(msglist') = ToSet(msglist) \ {msglist[i]}
         /\ order' \in Seq(Cells) /\ SentInOrder' /\ KeysListed'
<1>1. /\ msglist \in Seq(Cells) /\ order \in Seq(Cells)
      /\ Follows(order, msglist) /\ IsInjective(msglist) /\ Len(msglist) \in Nat
  BY LenProperties DEF QueueInv, QueueTypeOK, SentInOrder, CellsPlaced
<1>2. /\ msglist' \in Seq(Cells) /\ IsInjective(msglist')
      /\ ToSet(msglist') = ToSet(msglist) \ {msglist[i]}
  BY <1>1, RemovedAt, RemovedFrom
<1>3. msglist[i] \in ToSet(msglist) /\ msglist[i] \in Cells
  BY <1>1, LenProperties DEF ToSet
<1>4. order' \in Seq(Cells) /\ ToSet(order') = ToSet(order) \ {msglist[i]}
  <2>1. IsInjective(order)
    BY <1>1, FollowsInjective
  <2> QED BY <1>1, <2>1, RemovedFirst
<1>5. Follows(order', msglist')
  BY <1>1, FollowsRemoved
<1>6. SentInOrder' /\ KeysListed'
  BY <1>2, <1>4, <1>5 DEF QueueInv, SentInOrder, KeysListed
<1> QED BY <1>2, <1>3, <1>4, <1>6

\* The first message with this key is removed.
LEMMA RemoveTypeInv ==
  ASSUME QueueInv, NEW k \in Plain \cup Replaced, RemoveType(k)
  PROVE  QueueInv'
<1> USE QueueAssumption
<1> DEFINE I == {j \in 1 .. Len(msglist) : msg[msglist[j]].key = k}
           i == SelectInSeq(msglist, LAMBDA c : msg[c].key = k)
           c == msglist[i]
<1>1. I # {}
  <2>1. PICK e \in ToSet(msglist) : msg[e].key = k
    BY DEF RemoveType, OnList
  <2>2. DOMAIN msglist = 1 .. Len(msglist)
    BY LenProperties DEF QueueInv, QueueTypeOK
  <2> QED BY <2>1, <2>2 DEF ToSet
<1>2. i \in 1 .. Len(msglist) /\ msg[c].key = k
  <2>1. i = Min(I)
    BY <1>1 DEF SelectInSeq
  <2>2. I \subseteq Nat
    BY LenProperties DEF QueueInv, QueueTypeOK
  <2>3. i \in I
    <3> HIDE DEF I, i
    <3> QED BY <1>1, <2>1, <2>2, MinIsLeast
  <2> QED BY <2>3
<1>3. /\ msglist' = RemoveAt(msglist, i) /\ empty' = <<c>> \o empty
      /\ order' = RemoveFirst(order, c)
      /\ owed' = [owed EXCEPT ![k] = IF Cardinality(OnList(k)) = 1 THEN "none" ELSE owed[k]]
      /\ UNCHANGED <<msg, made, lpc, hand, orig, ts, signalled, now>>
  BY DEF RemoveType, loop
<1> HIDE DEF I, i
<1>4. /\ msglist' \in Seq(Cells) /\ IsInjective(msglist')
      /\ c \in ToSet(msglist) /\ c \in Cells
      /\ ToSet(msglist') = ToSet(msglist) \ {c}
      /\ order' \in Seq(Cells) /\ SentInOrder' /\ KeysListed'
  BY <1>2, <1>3, TakenOff
<1> HIDE DEF c
<1>5. /\ empty' \in Seq(Cells) /\ IsInjective(empty')
      /\ ToSet(empty') = ToSet(empty) \cup {c}
  <2>1. c \notin ToSet(empty) /\ empty \in Seq(Cells) /\ IsInjective(empty)
    BY <1>4 DEF QueueInv, CellsPlaced, QueueTypeOK
  <2> QED BY <1>3, <1>4, <2>1, PrependedTo
<1>6. QueueTypeOK'
  <2>1. owed' \in [Keys -> Data \cup {"none"}]
    BY <1>3 DEF QueueInv, QueueTypeOK
  <2> QED BY <1>3, <1>4, <1>5, <2>1 DEF QueueInv, QueueTypeOK
<1>7. CellsPlaced'
  BY <1>3, <1>4, <1>5 DEF QueueInv, CellsPlaced
<1>8. SentLatest'
  <2> SUFFICES ASSUME NEW l \in Replaced
               PROVE  /\ \A a, b \in OnList(l)' : a = b
                      /\ owed'[l] # "none" => \E e \in OnList(l)' : msg'[e].data = owed'[l]
    BY DEF SentLatest
  <2>1. OnList(l)' = OnList(l) \ {c}
    BY <1>3, <1>4 DEF OnList
  <2>2. \A a, b \in OnList(l) : a = b
    BY DEF QueueInv, SentLatest
  <2>3. CASE l = k
    <3>1. c \in OnList(k)
      BY <1>2, <1>4 DEF OnList
    <3>2. OnList(k) = {c}
      BY <2>2, <2>3, <3>1
    <3>3. Cardinality(OnList(k)) = 1
      BY <3>2, FS_Singleton
    <3>4. owed'[l] = "none"
      BY <1>3, <2>3, <3>3 DEF QueueInv, QueueTypeOK, Keys
    <3> QED BY <2>1, <2>2, <3>4
  <2>4. CASE l # k
    <3>1. c \notin OnList(l) /\ owed'[l] = owed[l]
      BY <1>2, <1>3, <2>4 DEF OnList, QueueInv, QueueTypeOK, Keys
    <3> QED BY <1>3, <2>1, <3>1 DEF QueueInv, SentLatest
  <2> QED BY <2>3, <2>4
<1>9. KeepsRecurring'
  <2>1. k \notin Recurring
    OBVIOUS
  <2> QED BY <1>2, <1>3, <1>4, <2>1 DEF QueueInv, KeepsRecurring
<1>10. WakesInTime'
  BY <1>3, <1>4 DEF QueueInv, WakesInTime
<1> QED BY <1>4, <1>6, <1>7, <1>8, <1>9, <1>10 DEF QueueInv

\* The loop waits for the earliest message.
LEMMA EarliestIsFirst ==
  ASSUME QueueTypeOK
  PROVE  /\ Earliest(now + Hour) \in Nat
         /\ \A c \in ToSet(msglist) : Earliest(now + Hour) <= msg[c].next_run
<1> USE QueueAssumption
<1> DEFINE T == {msg[c].next_run : c \in ToSet(msglist)} \cup {now + Hour}
<1>1. T \subseteq Nat
  <2>1. \A c \in ToSet(msglist) : msg[c].next_run \in 0 .. MaxTime + Period
    BY DEF QueueTypeOK, ToSet, Message
  <2>2. now + Hour \in Nat
    BY DEF QueueTypeOK
  <2> QED BY <2>1, <2>2
<1>2. Earliest(now + Hour) = CHOOSE t \in T : \A u \in T : t <= u
  BY DEF Earliest
<1>3. \A c \in ToSet(msglist) : msg[c].next_run \in T
  OBVIOUS
<1>4. T # {}
  OBVIOUS
<1> HIDE DEF T
<1>5. Earliest(now + Hour) \in T /\ \A u \in T : Earliest(now + Hour) <= u
  BY <1>1, <1>2, <1>4, LeastExists
<1> QED BY <1>1, <1>3, <1>5

\* The message the loop takes is due, and none before it is.
LEMMA FirstDue ==
  ASSUME QueueTypeOK, \E c \in ToSet(msglist) : Due(c)
  PROVE  LET i == SelectInSeq(msglist, LAMBDA m : Due(m))
         IN /\ i \in 1 .. Len(msglist) /\ Due(msglist[i])
            /\ \A j \in 1 .. Len(msglist) : Due(msglist[j]) => i <= j
<1> DEFINE I == {j \in 1 .. Len(msglist) : Due(msglist[j])}
           i == SelectInSeq(msglist, LAMBDA m : Due(m))
<1>0. Len(msglist) \in Nat /\ DOMAIN msglist = 1 .. Len(msglist)
  BY LenProperties DEF QueueTypeOK
<1>1. I # {}
  BY <1>0 DEF ToSet
<1>2. i = Min(I)
  BY <1>1 DEF SelectInSeq
<1>3. I \subseteq Nat
  BY <1>0
<1>4. i \in I /\ \A j \in I : i <= j
  <2> HIDE DEF I, i
  <2> QED BY <1>1, <1>2, <1>3, MinIsLeast
<1> QED BY <1>4

\* The loop looks for a message.
LEMMA ScanInv ==
  ASSUME QueueInv, Scan
  PROVE  QueueInv'
<1> USE QueueAssumption
<1>0. /\ lpc = "scan" /\ signalled' = FALSE /\ UNCHANGED <<empty, made, msg, now>>
      /\ hand = None
  BY DEF Scan, QueueInv, CellsPlaced
<1>1. CASE /\ \E e \in ToSet(msglist) : Due(e)
           /\ LET i == SelectInSeq(msglist, LAMBDA m : Due(m))
                  c == msglist[i]
              IN /\ msglist' = RemoveAt(msglist, i)
                 /\ hand' = c /\ orig' = msg[c].key
                 /\ lpc' = IF msg[c].key = "terminate" THEN "returned" ELSE "handle"
                 /\ owed' = [k \in Keys |-> IF /\ k = msg[c].key
                                               /\ owed[k] = msg[c].data
                                            THEN "none" ELSE owed[k]]
                 /\ order' = RemoveFirst(order, c)
           /\ UNCHANGED ts
  <2> DEFINE i == SelectInSeq(msglist, LAMBDA m : Due(m))
             c == msglist[i]
  <2>1. i \in 1 .. Len(msglist)
    BY <1>1, FirstDue DEF QueueInv
  <2>2. /\ msglist' = RemoveAt(msglist, i) /\ hand' = c /\ orig' = msg[c].key
        /\ lpc' = IF msg[c].key = "terminate" THEN "returned" ELSE "handle"
        /\ owed' = [k \in Keys |-> IF k = msg[c].key /\ owed[k] = msg[c].data
                                   THEN "none" ELSE owed[k]]
        /\ order' = RemoveFirst(order, c) /\ UNCHANGED ts
    BY <1>1
  <2> HIDE DEF i
  <2>3. /\ msglist' \in Seq(Cells) /\ IsInjective(msglist')
        /\ c \in ToSet(msglist) /\ c \in Cells
        /\ ToSet(msglist') = ToSet(msglist) \ {c}
        /\ order' \in Seq(Cells) /\ SentInOrder' /\ KeysListed'
    BY <1>0, <2>1, <2>2, TakenOff
  <2> HIDE DEF c
  <2>4. msg[c].key \in Keys \cup {"terminate"} /\ c # None
    BY <2>3 DEF QueueInv, KeysListed, Cells, None
  <2>5. QueueTypeOK'
    <3>1. owed' \in [Keys -> Data \cup {"none"}]
      BY <2>2 DEF QueueInv, QueueTypeOK
    <3> QED BY <1>0, <2>2, <2>3, <2>4, <3>1 DEF QueueInv, QueueTypeOK
  <2>6. CellsPlaced'
    BY <1>0, <2>2, <2>3, <2>4 DEF QueueInv, CellsPlaced
  <2>7. SentLatest'
    <3> SUFFICES ASSUME NEW l \in Replaced
                 PROVE  /\ \A a, b \in OnList(l)' : a = b
                        /\ owed'[l] # "none" => \E e \in OnList(l)' : msg'[e].data = owed'[l]
      BY DEF SentLatest
    <3>1. OnList(l)' = OnList(l) \ {c}
      BY <1>0, <2>3 DEF OnList
    <3>2. /\ \A a, b \in OnList(l) : a = b
          /\ owed[l] # "none" => \E e \in OnList(l) : msg[e].data = owed[l]
      BY DEF QueueInv, SentLatest
    <3>3. owed'[l] = IF l = msg[c].key /\ owed[l] = msg[c].data THEN "none" ELSE owed[l]
      BY <2>2 DEF Keys
    <3>4. c \in OnList(l) <=> msg[c].key = l
      BY <2>3 DEF OnList
    <3> QED BY <1>0, <3>1, <3>2, <3>3, <3>4
  <2>7a. KeepsRecurring'
    BY <1>0, <2>2, <2>3 DEF QueueInv, KeepsRecurring, CellsPlaced
  <2>8. WakesInTime'
    BY <2>2 DEF WakesInTime
  <2> QED BY <2>3, <2>5, <2>6, <2>7, <2>7a, <2>8 DEF QueueInv
<1>2. CASE /\ ts' = Earliest(now + Hour) /\ lpc' = "wait"
           /\ UNCHANGED <<msglist, hand, orig, ghosts>>
  <2>1. UNCHANGED <<msglist, hand, orig, owed, order>>
    BY <1>2 DEF ghosts
  <2>2. ts' \in Nat /\ \A c \in ToSet(msglist) : ts' <= msg[c].next_run
    BY <1>2, EarliestIsFirst DEF QueueInv
  <2>3. QueueTypeOK'
    BY <1>0, <1>2, <2>1, <2>2 DEF QueueInv, QueueTypeOK
  <2>4. CellsPlaced' /\ KeysListed' /\ SentInOrder' /\ SentLatest' /\ KeepsRecurring'
    BY <1>0, <1>2, <2>1 DEF QueueInv, CellsPlaced, KeysListed, SentInOrder, SentLatest,
                            OnList, KeepsRecurring
  <2>5. WakesInTime'
    BY <1>0, <2>1, <2>2 DEF WakesInTime
  <2> QED BY <2>3, <2>4, <2>5 DEF QueueInv
<1> QED BY <1>1, <1>2 DEF Scan

\* What was handled goes back.
LEMMA PutBackInv ==
  ASSUME QueueInv, PutBack
  PROVE  QueueInv'
<1> USE QueueAssumption
<1>0. /\ lpc = "handle" /\ lpc' = "scan" /\ hand' = None /\ orig' = "fresh"
      /\ UNCHANGED <<made, ts, signalled, now, owed, order>>
      /\ hand \in Cells /\ hand \in 1 .. made
      /\ hand \notin ToSet(msglist) /\ hand \notin ToSet(empty)
      /\ ToSet(msglist) \cup ToSet(empty) \cup {hand} = 1 .. made
      /\ ToSet(msglist) \cap ToSet(empty) = {} /\ None \notin 1 .. made
  <2>1. /\ lpc = "handle" /\ lpc' = "scan" /\ hand' = None /\ orig' = "fresh"
        /\ UNCHANGED <<made, ts, signalled, now, owed, order>>
    BY DEF PutBack, ghosts
  <2>2. /\ hand # None /\ hand \in Cells \cup {None}
        /\ hand \notin ToSet(msglist) /\ hand \notin ToSet(empty)
        /\ ToSet(msglist) \cup ToSet(empty) \cup {hand} = 1 .. made
        /\ ToSet(msglist) \cap ToSet(empty) = {}
    BY <2>1 DEF QueueInv, QueueTypeOK, CellsPlaced
  <2>3. None \notin 1 .. made
    BY MadeAreCells DEF QueueInv, Cells, None
  <2> QED BY <2>1, <2>2, <2>3
<1>1. /\ msglist \in Seq(Cells) /\ IsInjective(msglist)
      /\ empty \in Seq(Cells) /\ IsInjective(empty)
      /\ order \in Seq(Cells) /\ Follows(order, msglist)
      /\ \A e \in ToSet(msglist) : e \in Cells \ {hand}
      /\ ToSet(order) \subseteq ToSet(msglist)
  <2>1. /\ msglist \in Seq(Cells) /\ IsInjective(msglist)
        /\ empty \in Seq(Cells) /\ IsInjective(empty)
        /\ order \in Seq(Cells) /\ Follows(order, msglist)
    BY DEF QueueInv, QueueTypeOK, CellsPlaced, SentInOrder
  <2>2. \A e \in ToSet(msglist) : e \in Cells \ {hand}
    BY <1>0, <2>1 DEF ToSet
  <2> QED BY <2>1, <2>2 DEF Follows
<1>2. CASE msg[hand].recurring > 0 /\ Again /\ UNCHANGED empty
  <2>1. msg[hand].recurring = Period /\ orig \in Recurring
    <3>1. msg[hand].recurring \in {0, Period}
      BY <1>0 DEF QueueInv, QueueTypeOK, Message
    <3> QED BY <1>0, <1>2, <3>1 DEF QueueInv, KeepsRecurring
  <2>2. /\ msg' = [msg EXCEPT ![hand].next_run = now + Period, ![hand].key = orig]
        /\ msglist' = Append(msglist, hand)
    BY <1>2, <2>1 DEF Again
  <2>3. /\ msglist' \in Seq(Cells) /\ IsInjective(msglist')
        /\ ToSet(msglist') = ToSet(msglist) \cup {hand}
    BY <1>0, <1>1, <2>2, Appended
  <2>4. /\ msg'[hand].key = orig
        /\ \A e \in Cells \ {hand} : msg'[e] = msg[e]
        /\ \A e \in Cells : msg'[e].recurring = msg[e].recurring
    BY <1>0, <2>2 DEF QueueInv, QueueTypeOK
  <2>5. QueueTypeOK'
    <3>1. now + Period \in 0 .. MaxTime + Period
      BY DEF QueueInv, QueueTypeOK
    <3>2. orig \in Keys \cup {"terminate", "processed", "fresh"}
      BY <2>1 DEF Keys
    <3>3. msg' \in [Cells -> Message]
      <4>1. msg \in [Cells -> Message]
        BY DEF QueueInv, QueueTypeOK
      <4>2. [msg[hand] EXCEPT !.next_run = now + Period, !.key = orig] \in Message
        <5>1. msg[hand] \in Message
          BY <1>0, <4>1
        <5> QED BY <3>1, <3>2, <5>1 DEF Message
      <4>3. msg' = [msg EXCEPT ![hand] =
                      [msg[hand] EXCEPT !.next_run = now + Period, !.key = orig]]
        BY <1>0, <2>2, <4>1
      <4> QED BY <1>0, <4>1, <4>2, <4>3
    <3> QED BY <1>0, <1>2, <2>3, <3>3 DEF QueueInv, QueueTypeOK
  <2>6. CellsPlaced'
    BY <1>0, <1>2, <2>3 DEF QueueInv, CellsPlaced
  <2>7. KeysListed'
    BY <1>1, <2>1, <2>3, <2>4 DEF QueueInv, KeysListed, Keys
  <2>8. SentInOrder'
    <3>1. Follows(order, msglist')
      BY <1>0, <1>1, <2>2, FollowsAppended
    <3> QED BY <1>0, <1>1, <2>4, <3>1 DEF QueueInv, SentInOrder
  <2>9. SentLatest'
    <3>1. \A l \in Replaced : l # orig
      BY <2>1
    <3>2. \A l \in Replaced : OnList(l)' = OnList(l)
      BY <1>1, <2>3, <2>4, <3>1 DEF OnList
    <3>3. \A l \in Replaced : \A e \in OnList(l) : msg'[e] = msg[e]
      BY <1>1, <2>4 DEF OnList
    <3> QED BY <1>0, <3>2, <3>3 DEF QueueInv, SentLatest
  <2>10. KeepsRecurring'
    <3> SUFFICES ASSUME NEW e \in 1 .. made, msg'[e].recurring > 0
                 PROVE  e \in ToSet(msglist)' /\ msg'[e].key \in Recurring
      BY <1>0 DEF KeepsRecurring
    <3>1. CASE e = hand
      BY <2>1, <2>3, <2>4, <3>1
    <3>2. CASE e # hand
      <4>1. e \in Cells
        BY MadeAreCells DEF QueueInv
      <4> QED BY <2>3, <2>4, <3>2, <4>1 DEF QueueInv, KeepsRecurring
    <3> QED BY <3>1, <3>2
  <2>11. WakesInTime'
    BY <1>0 DEF WakesInTime
  <2> QED BY <2>5, <2>6, <2>7, <2>8, <2>9, <2>10, <2>11 DEF QueueInv
<1>3. CASE /\ msg[hand].recurring = 0
           /\ empty' = <<hand>> \o empty /\ UNCHANGED <<msg, msglist>>
  <2>1. /\ empty' \in Seq(Cells) /\ IsInjective(empty')
        /\ ToSet(empty') = ToSet(empty) \cup {hand}
    BY <1>0, <1>1, <1>3, PrependedTo
  <2>2. QueueTypeOK'
    BY <1>0, <1>3, <2>1 DEF QueueInv, QueueTypeOK
  <2>3. CellsPlaced'
    BY <1>0, <1>3, <2>1 DEF QueueInv, CellsPlaced
  <2>4. KeysListed' /\ SentInOrder' /\ SentLatest'
    BY <1>0, <1>3 DEF QueueInv, KeysListed, SentInOrder, SentLatest, OnList
  <2>5. KeepsRecurring' /\ WakesInTime'
    BY <1>0, <1>3 DEF QueueInv, KeepsRecurring, WakesInTime
  <2> QED BY <2>2, <2>3, <2>4, <2>5 DEF QueueInv
<1> QED BY <1>2, <1>3 DEF PutBack

\* A plugin marks the message as processed.
LEMMA HandleInv ==
  ASSUME QueueInv, Handle
  PROVE  QueueInv'
<1> USE QueueAssumption
<1>0. /\ lpc = "handle" /\ msg' = [msg EXCEPT ![hand].key = "processed"]
      /\ UNCHANGED <<msglist, empty, made, lpc, hand, orig, ts, signalled, now, owed, order>>
      /\ hand \in Cells /\ hand \notin ToSet(msglist)
  BY DEF Handle, queues, loop, ghosts, QueueInv, QueueTypeOK, CellsPlaced
<1>1. /\ \A e \in Cells \ {hand} : msg'[e] = msg[e]
      /\ \A e \in Cells : msg'[e].recurring = msg[e].recurring
      /\ \A e \in ToSet(msglist) : e \in Cells \ {hand}
      /\ ToSet(order) \subseteq ToSet(msglist)
  <2>1. /\ \A e \in Cells \ {hand} : msg'[e] = msg[e]
        /\ \A e \in Cells : msg'[e].recurring = msg[e].recurring
    BY <1>0 DEF QueueInv, QueueTypeOK
  <2>2. \A e \in ToSet(msglist) : e \in Cells \ {hand}
    BY <1>0 DEF QueueInv, QueueTypeOK, ToSet
  <2> QED BY <2>1, <2>2 DEF QueueInv, SentInOrder, Follows
<1>2. QueueTypeOK'
  <2>1. msg' \in [Cells -> Message]
    BY <1>0 DEF QueueInv, QueueTypeOK, Message
  <2> QED BY <1>0, <2>1 DEF QueueInv, QueueTypeOK
<1>3. CellsPlaced' /\ KeysListed' /\ SentInOrder' /\ WakesInTime'
  BY <1>0, <1>1 DEF QueueInv, CellsPlaced, KeysListed, SentInOrder, WakesInTime
<1>4. SentLatest'
  <2>1. \A l \in Replaced : OnList(l)' = OnList(l)
    BY <1>0, <1>1 DEF OnList
  <2>2. \A l \in Replaced : \A e \in OnList(l) : msg'[e] = msg[e]
    BY <1>1 DEF OnList
  <2> QED BY <1>0, <2>1, <2>2 DEF QueueInv, SentLatest
<1>5. KeepsRecurring'
  <2> SUFFICES ASSUME NEW e \in 1 .. made, msg'[e].recurring > 0
               PROVE  \/ e \in ToSet(msglist) /\ msg'[e].key \in Recurring
                      \/ e = hand /\ orig \in Recurring
    BY <1>0 DEF KeepsRecurring
  <2>1. e \in Cells
    BY MadeAreCells DEF QueueInv
  <2> QED BY <1>0, <1>1, <2>1 DEF QueueInv, KeepsRecurring
<1> QED BY <1>2, <1>3, <1>4, <1>5 DEF QueueInv

\* The steps that leave the messages alone.
LEMMA ClockInv ==
  ASSUME QueueInv, UNCHANGED <<queues, msg, hand, orig, ts, ghosts>>,
         \/ lpc' = lpc /\ now' \in 0 .. MaxTime /\ signalled' = signalled
         \/ lpc' = "scan" /\ lpc \in {"start", "wait"} /\ now' = now /\ signalled' \in BOOLEAN
         \/ lpc' = "stuck" /\ now' = now /\ signalled' = signalled
  PROVE  QueueInv'
<1>1. UNCHANGED <<msglist, empty, made, owed, order>>
  BY DEF queues, ghosts
<1>2. QueueTypeOK'
  BY <1>1 DEF QueueInv, QueueTypeOK
<1>3. CellsPlaced' /\ KeysListed' /\ SentInOrder' /\ SentLatest'
  BY <1>1 DEF QueueInv, CellsPlaced, KeysListed, SentInOrder, SentLatest, OnList
<1>4. KeepsRecurring' /\ WakesInTime'
  BY <1>1 DEF QueueInv, KeepsRecurring, WakesInTime
<1> QED BY <1>2, <1>3, <1>4 DEF QueueInv

\* The invariant is kept by every step.
LEMMA QueueKept == QueueInv /\ [QueueNext]_queueVars => QueueInv'
<1> SUFFICES ASSUME QueueInv, [QueueNext]_queueVars PROVE QueueInv'
  OBVIOUS
<1> USE QueueAssumption
<1>0. signalled \in BOOLEAN /\ now \in 0 .. MaxTime /\ 0 \in {0, Period}
  BY DEF QueueInv, QueueTypeOK
<1>1. ASSUME NEW k \in Plain \cup Replaced, NEW d \in Data, MsgSend(k, d) PROVE QueueInv'
  <2>1. /\ Add(k, d, 0) /\ signalled' = (signalled \/ lpc = "wait")
        /\ owed' = [owed EXCEPT ![k] = d] /\ UNCHANGED <<loop, now>>
    BY <1>1 DEF MsgSend
  <2>2. signalled' \in BOOLEAN /\ (lpc = "wait" => signalled')
    BY <1>0, <2>1
  <2>3. k \in Keys /\ k \notin Recurring
    BY DEF Keys
  <2>4. CASE k \in Replaced /\ OnList(k) # {}
    BY <2>1, <2>2, <2>4, ReplaceInv DEF Add
  <2>5. CASE k \notin Replaced \/ OnList(k) = {}
    <3>1. AddCell(k, d, 0)
      BY <2>1, <2>5 DEF Add
    <3>2. 0 > 0 <=> k \in Recurring
      BY <2>3
    <3>3. k \in Replaced => OnList(k) = {}
      BY <2>5
    <3> QED BY <1>0, <2>1, <2>2, <2>3, <3>1, <3>2, <3>3, AddCellInv
  <2> QED BY <2>4, <2>5
<1>2. ASSUME NEW k \in Recurring, SendRecurring(k) PROVE QueueInv'
  <2>1. PICK d \in Data : Add(k, d, Period) /\ owed' = [owed EXCEPT ![k] = d]
    BY <1>2 DEF SendRecurring
  <2>2. /\ k \in Keys /\ k \notin Replaced /\ (Period > 0 <=> k \in Recurring)
        /\ Period \in {0, Period}
    BY DEF Keys
  <2>3. lpc = "start" /\ UNCHANGED <<loop, now, signalled>>
    BY <1>2 DEF SendRecurring
  <2>4. AddCell(k, d, Period)
    BY <2>1, <2>2 DEF Add
  <2>5. signalled' \in BOOLEAN /\ (lpc = "wait" => signalled')
    BY <1>0, <2>3
  <2>6. k \in Replaced => OnList(k) = {}
    BY <2>2
  <2> QED BY <2>1, <2>2, <2>3, <2>4, <2>5, <2>6, AddCellInv
<1>3. ASSUME NEW k \in Plain \cup Replaced, RemoveType(k) PROVE QueueInv'
  BY <1>3, RemoveTypeInv
<1>4. CASE Terminate
  BY <1>4, TerminateInv DEF Terminate
<1>5. CASE ExitHandler
  <2>1. CASE PutTerminate /\ UNCHANGED lpc
    BY <1>5, <2>1, TerminateInv DEF ExitHandler, loop
  <2>2. CASE lpc' = "stuck" /\ UNCHANGED <<queues, msg, signalled>>
    BY <1>5, <2>2, ClockInv DEF ExitHandler
  <2> QED BY <1>5, <2>1, <2>2 DEF ExitHandler
<1>6. CASE LoopStep
  <2>1. CASE Start
    BY <1>0, <2>1, ClockInv DEF Start
  <2>2. CASE Wake
    BY <1>0, <2>2, ClockInv DEF Wake
  <2> QED BY <1>6, <2>1, <2>2, ScanInv, HandleInv, PutBackInv DEF LoopStep
<1>7. CASE Tick
  <2>1. now' \in 0 .. MaxTime
    BY <1>0, <1>7 DEF Tick
  <2> QED BY <1>7, <2>1, ClockInv DEF Tick, loop
<1>8. CASE UNCHANGED queueVars
  BY <1>0, <1>8, ClockInv DEF queueVars, loop
<1> QED BY <1>1, <1>2, <1>3, <1>4, <1>5, <1>6, <1>7, <1>8 DEF QueueNext

LEMMA QueueStands == QueueSpec => []QueueInv
BY QueueInitially, QueueKept, PTL DEF QueueSpec

-----------------------------------------------------------------------------
\* Cells hold messages, whatever is sent, removed and handled.
THEOREM QueueTyped == QueueSpec => []QueueTypeOK
<1>1. QueueInv => QueueTypeOK
  BY DEF QueueInv
<1> QED BY <1>1, QueueStands, PTL

\* No cell is lost or in two places: the list, the empty cells and the hand
\* of the loop hold each cell once.
THEOREM CellsAreConserved == QueueSpec => []CellsConserved
<1>1. QueueInv => CellsConserved
  <2> SUFFICES ASSUME QueueInv PROVE CellsConserved
    OBVIOUS
  <2> DEFINE h == IF hand = None THEN <<>> ELSE <<hand>>
             p == msglist \o empty
             q == p \o h
  <2>1. /\ h \in Seq(Cells) /\ IsInjective(h) /\ ToSet(h) = {hand} \ {None}
    <3>1. CASE hand = None
      BY <3>1 DEF IsInjective, ToSet
    <3>2. CASE hand # None
      <4>1. h = <<hand>> /\ hand \in Cells /\ DOMAIN h = {1} /\ h[1] = hand
        BY <3>2 DEF QueueInv, QueueTypeOK
      <4> QED BY <3>2, <4>1 DEF IsInjective, ToSet
    <3> QED BY <3>1, <3>2
  <2>2. /\ p \in Seq(Cells) /\ IsInjective(p)
        /\ ToSet(p) = ToSet(msglist) \cup ToSet(empty)
    BY Concatenated DEF QueueInv, QueueTypeOK, CellsPlaced
  <2>3. ToSet(p) \cap ToSet(h) = {}
    BY <2>1, <2>2 DEF QueueInv, CellsPlaced
  <2> HIDE DEF p, h
  <2>4. /\ q \in Seq(Cells) /\ IsInjective(q) /\ ToSet(q) = ToSet(p) \cup ToSet(h)
    BY <2>1, <2>2, <2>3, Concatenated
  <2> HIDE DEF q
  <2>5. ToSet(q) = 1 .. made
    BY <2>1, <2>2, <2>4 DEF QueueInv, CellsPlaced
  <2>6. Len(q) \in Nat /\ DOMAIN q = 1 .. Len(q) /\ q \in [1 .. Len(q) -> Cells]
    BY <2>4, LenProperties
  <2>7. made \in Nat
    <3>1. made \in Preallocated .. MaxCells
      BY DEF QueueInv, QueueTypeOK
    <3> QED BY <3>1, QueueAssumption
  <2>8. ExistsBijection(1 .. Len(q), 1 .. made)
    <3>1. q \in [1 .. Len(q) -> 1 .. made] /\ \A x \in 1 .. made : \E i \in 1 .. Len(q) : q[i] = x
      BY <2>5, <2>6 DEF ToSet
    <3>2. q \in Bijection(1 .. Len(q), 1 .. made)
      BY <2>4, <3>1 DEF Bijection, Injection, Surjection, IsInjective
    <3> QED BY <3>2 DEF ExistsBijection
  <2>9. Len(q) = made
    <3>1. /\ IsFiniteSet(1 .. Len(q))
          /\ Cardinality(1 .. Len(q)) = IF 1 > Len(q) THEN 0 ELSE Len(q) - 1 + 1
          /\ Cardinality(1 .. made) = IF 1 > made THEN 0 ELSE made - 1 + 1
      BY <2>6, <2>7, FS_Interval
    <3>2. Cardinality(1 .. made) = Cardinality(1 .. Len(q))
      <4> DEFINE A == 1 .. Len(q)
                 B == 1 .. made
      <4>1. IsFiniteSet(A) /\ ExistsBijection(A, B)
        BY <2>8, <3>1
      <4> HIDE DEF A, B
      <4>2. Cardinality(B) = Cardinality(A)
        BY <4>1, FS_Bijection
      <4>3. Cardinality(1 .. made) = Cardinality(1 .. Len(q))
        BY ONLY <4>2 DEF A, B
      <4> QED BY ONLY <4>3
    <3>3. Cardinality(1 .. Len(q)) = Len(q) /\ Cardinality(1 .. made) = made
      BY <2>6, <2>7, <3>1
    <3> QED BY ONLY <3>2, <3>3
  <2> QED BY <2>5, <2>9 DEF CellsConserved, q, p, h
<1> QED BY <1>1, QueueStands, PTL

\* The data last sent for a key is delivered, and once, for messages that
\* replace one another.
THEOREM LatestIsDelivered == QueueSpec => []LatestDelivered
<1>1. QueueInv => LatestDelivered
  <2> SUFFICES ASSUME QueueInv, NEW k \in Replaced PROVE Cardinality(OnList(k)) <= 1
    BY DEF LatestDelivered, QueueInv, SentLatest
  <2>1. \A a, b \in OnList(k) : a = b
    BY DEF QueueInv, SentLatest
  <2>2. CASE OnList(k) = {}
    BY <2>2, FS_EmptySet
  <2>3. ASSUME NEW c \in OnList(k) PROVE Cardinality(OnList(k)) <= 1
    <3> DEFINE L == OnList(k)
    <3>1. c \in L /\ \A a \in L : a = c
      BY <2>1
    <3> HIDE DEF L
    <3>2. L = {c}
      BY <3>1
    <3>3. Cardinality(L) = 1
      BY <3>2, FS_Singleton
    <3> QED BY <3>3 DEF L
  <2> QED BY <2>2, <2>3
<1> QED BY <1>1, QueueStands, PTL

\* The loop never sleeps longer than until the first message is to run.
THEOREM WokenInTime == QueueSpec => []WakesInTime
<1>1. QueueInv => WakesInTime
  BY DEF QueueInv
<1> QED BY <1>1, QueueStands, PTL

\* A recurring message is on the list or in the hand, as what it was.
THEOREM RecurringIsKept == QueueSpec => []KeepsRecurring
<1>1. QueueInv => KeepsRecurring
  BY DEF QueueInv
<1> QED BY <1>1, QueueStands, PTL

\* Of the messages to run at once, the one sent first is taken first.
THEOREM HandlesInOrder == QueueSpec => InOrder
<1>1. QueueInv /\ [QueueNext]_queueVars =>
        [hand = None /\ hand' \in ToSet(order) => hand' = Head(order)]_queueVars
  <2> SUFFICES ASSUME QueueInv, QueueNext, hand = None, hand' \in ToSet(order)
               PROVE  hand' = Head(order)
    BY DEF queueVars
  <2>0. /\ msglist \in Seq(Cells) /\ order \in Seq(Cells) /\ now \in 0 .. MaxTime
        /\ Follows(order, msglist) /\ \A c \in ToSet(order) : msg[c].next_run = 0
        /\ DOMAIN msglist = 1 .. Len(msglist) /\ DOMAIN order = 1 .. Len(order)
        /\ Len(msglist) \in Nat /\ Len(order) \in Nat
    BY LenProperties DEF QueueInv, QueueTypeOK, SentInOrder
  <2>1. hand' # None
    <3>1. hand' \in Cells
      BY <2>0 DEF ToSet
    <3> QED BY <3>1, QueueAssumption DEF Cells, None
  <2>2. Scan /\ \E e \in ToSet(msglist) : Due(e)
    <3>1. hand' # hand
      BY <2>1
    <3>2. Scan
      BY <2>1, <3>1 DEF QueueNext, MsgSend, SendRecurring, RemoveType, Terminate, ExitHandler,
                        LoopStep, Start, Handle, PutBack, Wake, Tick, loop
    <3> QED BY <3>1, <3>2 DEF Scan
  <2> DEFINE i == SelectInSeq(msglist, LAMBDA m : Due(m))
  <2>3. /\ i \in 1 .. Len(msglist) /\ \A j \in 1 .. Len(msglist) : Due(msglist[j]) => i <= j
    BY <2>2, FirstDue DEF QueueInv
  <2>4. hand' = msglist[i]
    BY <2>2 DEF Scan
  <2> HIDE DEF i
  <2>5. PICK n \in DOMAIN order : order[n] = msglist[i]
    BY <2>4 DEF ToSet
  <2>6. 1 \in DOMAIN order /\ Head(order) = order[1]
    BY <2>0, <2>5
  <2>7. PICK j \in DOMAIN msglist : order[1] = msglist[j]
    BY <2>6 DEF Follows, ToSet, SentInOrder, QueueInv
  <2>8. Due(msglist[j])
    <3>1. msg[order[1]].next_run = 0
      BY <2>0, <2>6 DEF ToSet
    <3> QED BY <2>0, <2>7, <3>1 DEF Due
  <2>9. i <= j
    BY <2>0, <2>3, <2>8
  <2>10. 1 < n => j < i
    BY <2>0, <2>3, <2>5, <2>6, <2>7 DEF Follows
  <2>11. n = 1
    BY <2>0, <2>3, <2>9, <2>10
  <2> QED BY <2>4, <2>5, <2>6, <2>11
<1> QED BY <1>1, QueueStands, PTL DEF InOrder, QueueSpec

-----------------------------------------------------------------------------
(* The ring buffer: remainders.                                            *)

LEMMA Quotient ==
  ASSUME NEW n \in Nat \ {0}, NEW a \in Int
  PROVE  /\ a % n \in 0 .. n - 1 /\ a \div n \in Int
         /\ a = n * (a \div n) + (a % n)
OBVIOUS

LEMMA RemainderIn ==
  ASSUME NEW n \in Nat \ {0}, NEW a \in Int
  PROVE  a % n \in 0 .. n - 1 /\ a % n \in Int
OBVIOUS

LEMMA Remainder ==
  ASSUME NEW n \in Nat \ {0}, NEW q \in Int, NEW r \in 0 .. n - 1,
         NEW a \in Int, a = n * q + r
  PROVE  a % n = r
OBVIOUS

LEMMA Distributes ==
  ASSUME NEW n \in Int, NEW a \in Int, NEW b \in Int
  PROVE  n * a + n * b = n * (a + b)
OBVIOUS

\* The remainder under a name of its own: the provers match it as a whole.
Mod(a, n) == a % n

\* A number and its remainder may stand for each other in a sum.
LEMMA SameRemainder ==
  ASSUME NEW n \in Nat \ {0}, NEW a \in Int, NEW x \in Int, NEW y \in Int,
         y - x = a - Mod(a, n)
  PROVE  Mod(x, n) = Mod(y, n)
<1>1. PICK p \in Int : a - (a % n) = n * p
  <2>1. /\ a = n * (a \div n) + (a % n) /\ a \div n \in Int
        /\ n * (a \div n) \in Int /\ a % n \in Int
    BY Quotient
  <2>2. a - (a % n) = n * (a \div n)
    BY <2>1
  <2> QED
    BY <2>1, <2>2
<1>2. PICK q \in Int, t \in 0 .. n - 1 : x = n * q + t /\ x % n = t
  BY Quotient
<1>3. n * q + n * p = n * (q + p)
  BY Distributes
<1>4. PICK s \in Int : s = q + p
  OBVIOUS
<1>5. y = n * s + t
  BY <1>1, <1>2, <1>3, <1>4 DEF Mod
<1>6. y % n = t
  BY ONLY n \in Nat \ {0}, t \in 0 .. n - 1, s \in Int, y \in Int, <1>5,
          Remainder
<1> QED
  BY <1>2, <1>6 DEF Mod

LEMMA ModIn ==
  ASSUME NEW n \in Nat \ {0}, NEW a \in Int
  PROVE  Mod(a, n) \in 0 .. n - 1 /\ Mod(a, n) \in Int
BY DEF Mod

LEMMA ModOfSum ==
  ASSUME NEW n \in Nat \ {0}, NEW a \in Int, NEW b \in Int
  PROVE  Mod(Mod(a, n) + b, n) = Mod(a + b, n)
<1>1. PICK x \in Int : x = Mod(a, n) + b
  BY ModIn
<1>2. PICK y \in Int : y = a + b
  OBVIOUS
<1>3. y - x = a - Mod(a, n)
  BY <1>1, <1>2, ModIn
<1> QED
  BY <1>1, <1>2, <1>3, SameRemainder

-----------------------------------------------------------------------------
(* Distances in the ring.                                                  *)

LEMMA Sizes ==
  /\ Size \in Nat /\ Packet \in Nat /\ Reserved \in Nat /\ Cluster \in Nat
  /\ 0 < Packet /\ 2 * Packet < Size /\ Packet \in Nat \ {0}
BY ConstantsAssumption

LEMMA Distance ==
  ASSUME NEW r \in 0 .. Size, NEW w \in 0 .. Size - 1
  PROVE  (w - r) % Size = IF r <= w THEN w - r ELSE w - r + Size
BY Sizes

LEMMA UnreadIs ==
  ASSUME TypeOK
  PROVE  /\ Unread = IF rdPtr <= wrPtr THEN wrPtr - rdPtr
                                       ELSE wrPtr - rdPtr + Size
         /\ Unread \in 0 .. Size - 1
<1>1. rdPtr \in 0 .. Size /\ wrPtr \in 0 .. Size - 1
  BY DEF TypeOK
<1>2. Unread = IF rdPtr <= wrPtr THEN wrPtr - rdPtr ELSE wrPtr - rdPtr + Size
  BY <1>1, Distance DEF Unread
<1> QED
  BY <1>1, <1>2, Sizes

\* What may be filled leaves a packet of room, and stays in the allocation.
LEMMA RoomIs ==
  ASSUME TypeOK
  PROVE  /\ MaxFree \in Int
         /\ MaxFree + Unread <= Size - Packet
         /\ wrPtr + MaxFree <= Size + Reserved - Packet
         /\ rdPtr > wrPtr => wrPtr + MaxFree < rdPtr
         /\ rdPtr <= wrPtr => wrPtr + MaxFree < Size + rdPtr
<1>1. rdPtr \in 0 .. Size /\ wrPtr \in 0 .. Size - 1
  BY DEF TypeOK
<1> QED
  BY <1>1, UnreadIs, Sizes DEF MaxFree, Lesser

\* A fill of k bytes: they follow what was unread.
LEMMA StoreFills ==
  ASSUME TypeOK, StreamInOrder, NEW k \in Nat, 0 < k, k <= MaxFree,
         Store(k), UNCHANGED <<rdPtr, given>>
  PROVE  /\ wrPtr' \in 0 .. Size - 1
         /\ content' \in [0 .. Size + Reserved - 1 -> 0 .. Numbers - 1]
         /\ Unread' = Unread + k
         /\ StreamInOrder'
<1> DEFINE num(i) == (given + Unread + i - wrPtr) % Numbers
           new    == wrPtr .. wrPtr + k - 1
           D      == 0 .. Size + Reserved - 1
<1> USE Sizes
<1>1. /\ rdPtr \in 0 .. Size /\ wrPtr \in 0 .. Size - 1
      /\ content \in [D -> 0 .. Numbers - 1] /\ given \in 0 .. Numbers - 1
      /\ Size \in Nat /\ Packet \in Nat /\ Packet > 0 /\ Reserved \in Nat
      /\ Size > 2 * Packet
  BY DEF TypeOK
<1>2. /\ Unread = IF rdPtr <= wrPtr THEN wrPtr - rdPtr
                                    ELSE wrPtr - rdPtr + Size
      /\ Unread \in 0 .. Size - 1
  BY UnreadIs
<1>3. /\ MaxFree \in Int /\ MaxFree + Unread <= Size - Packet
      /\ wrPtr + MaxFree <= Size + Reserved - Packet
      /\ rdPtr > wrPtr => wrPtr + MaxFree < rdPtr
      /\ rdPtr <= wrPtr => wrPtr + MaxFree < Size + rdPtr
  BY RoomIs
<1>4. wrPtr' = IF wrPtr + k >= Size THEN wrPtr + k - Size ELSE wrPtr + k
  BY DEF Store
<1>5. wrPtr' \in 0 .. Size - 1
  BY <1>1, <1>2, <1>3, <1>4
<1>6. content' = [i \in D |-> IF i + Size \in new THEN num(i + Size)
                              ELSE IF i \in new THEN num(i) ELSE content[i]]
  <2>1. DOMAIN content = D
    BY <1>1
  <2> QED
    BY <2>1 DEF Store
<1>7. \A i \in Int : num(i) \in 0 .. Numbers - 1
  <2>1. Numbers \in Nat \ {0}
    BY <1>1 DEF Numbers
  <2>2. \A i \in Int : given + Unread + i - wrPtr \in Int
    BY <1>1, <1>2, <2>1
  <2> QED
    BY <2>1, <2>2, Quotient
<1>8. content' \in [D -> 0 .. Numbers - 1]
  <2> HIDE DEF num, new
  <2>1. \A i \in D : i \in Int /\ i + Size \in Int
    BY <1>1
  <2> HIDE DEF D
  <2> QED
    BY <1>1, <1>6, <1>7, <2>1
<1>9. Unread' = Unread + k
  <2>1. Unread' = IF rdPtr <= wrPtr' THEN wrPtr' - rdPtr
                                     ELSE wrPtr' - rdPtr + Size
    BY <1>1, <1>5, Distance DEF Unread
  <2> QED
    BY <1>1, <1>2, <1>3, <1>4, <2>1
<1>10. wrPtr' + MaxFree' <= Size + Reserved
  <2>1. MaxFree' = IF wrPtr' >= rdPtr
                   THEN Size - wrPtr' + Lesser(rdPtr, Reserved) - Packet
                   ELSE rdPtr - wrPtr' - Packet
    BY DEF MaxFree, Lesser
  <2>2. Lesser(rdPtr, Reserved) \in Int /\ Lesser(rdPtr, Reserved) <= Reserved
    BY <1>1 DEF Lesser
  <2>3. /\ rdPtr \in Int /\ wrPtr' \in Int /\ rdPtr <= Size
        /\ Packet \in Int /\ Packet > 0 /\ Size \in Int /\ Reserved \in Int
        /\ Reserved >= 0
    BY <1>1, <1>5
  <2> QED
    BY ONLY <2>1, <2>2, <2>3
<1>11. ASSUME NEW i \in 0 .. Unread + k - 1
       PROVE  content'[Position(i)] = (given + i) % Numbers
  <2> DEFINE p == Position(i)
  <2>1. /\ p = IF rdPtr + i < Size THEN rdPtr + i ELSE rdPtr + i - Size
        /\ p \in D /\ i \in Nat
    BY <1>1, <1>2, <1>3 DEF Position
  <2>4. p \in Int
    BY <2>1, <1>1
  <2>2. CASE i < Unread
    <3>1. p \notin new /\ p + Size \notin new
      BY <1>1, <1>2, <1>3, <2>1, <2>2
    <3>2. content'[p] = content[p]
      BY <1>6, <2>1, <3>1
    <3>3. content[p] = (given + i) % Numbers
      BY <1>2, <2>2 DEF StreamInOrder
    <3> QED
      BY <3>2, <3>3
  <2>3. CASE i >= Unread
    <3> DEFINE j == wrPtr + i - Unread
    <3>1. j \in new /\ (p = j \/ (p = j - Size /\ p \in Nat)) /\ j \in Int
      BY <1>1, <1>2, <1>3, <2>1, <2>3
    <3>2. given + Unread + j - wrPtr = given + i
      BY <1>1, <1>2, <2>1
    <3>3. num(j) = (given + i) % Numbers
      BY <3>2
    <3>4. CASE p = j
      <4>1. j + Size \notin new
        BY <1>1, <1>2, <1>3, <3>1
      <4>2. content'[p] = num(p)
        <5> HIDE DEF num, new, p, D
        <5> QED
          BY <1>6, <2>1, <3>1, <3>4, <4>1
      <4> QED
        BY <3>3, <3>4, <4>2
    <3>5. CASE p = j - Size
      <4>1. p + Size = j
        <5> HIDE DEF p, j
        <5> QED
          BY <2>4, <3>1, <3>5
      <4>2. content'[p] = num(p + Size)
        <5> HIDE DEF num, new, p, D
        <5> QED
          BY <1>6, <2>1, <3>1, <4>1
      <4> QED
        BY <3>3, <4>1, <4>2
    <3> QED
      BY <3>1, <3>4, <3>5
  <2> QED
    <3> HIDE DEF p
    <3>1. i \in Int /\ Unread \in Int
      BY <1>2
    <3> QED
      BY <2>2, <2>3, <3>1 DEF p
<1>12. StreamInOrder'
  <2>1. \A i \in 0 .. Unread' - 1 :
          content'[IF rdPtr' + i < Size THEN rdPtr' + i ELSE rdPtr' + i - Size]
            = (given' + i) % Numbers
    <3> SUFFICES ASSUME NEW i \in 0 .. Unread' - 1
                 PROVE  content'[IF rdPtr' + i < Size THEN rdPtr' + i
                                                 ELSE rdPtr' + i - Size]
                          = (given' + i) % Numbers
      OBVIOUS
    <3>1. i \in 0 .. Unread + k - 1
      BY <1>2, <1>9
    <3>2. content'[Position(i)] = (given + i) % Numbers
      BY <1>11, <3>1
    <3> QED
      BY <3>2 DEF Position
  <2> QED
    BY <1>10, <2>1 DEF StreamInOrder, Position
<1> QED
  BY <1>5, <1>8, <1>9, <1>12

\* n bytes are taken: what is left begins n bytes later.
LEMMA GetTakes ==
  ASSUME TypeOK, StreamInOrder, NEW n \in 0 .. Unread, Get(n)
  PROVE  /\ rdPtr' \in 0 .. Size /\ given' \in 0 .. Numbers - 1
         /\ Unread' = Unread - n
         /\ StreamInOrder'
<1>1. /\ rdPtr \in 0 .. Size /\ wrPtr \in 0 .. Size - 1 /\ given \in Nat
      /\ Size \in Nat /\ Packet \in Nat /\ Packet > 0 /\ Reserved \in Nat
      /\ Size > 2 * Packet /\ Numbers \in Nat \ {0}
  BY Sizes DEF TypeOK, Numbers
<1>2. /\ Unread = IF rdPtr <= wrPtr THEN wrPtr - rdPtr
                                    ELSE wrPtr - rdPtr + Size
      /\ Unread \in 0 .. Size - 1 /\ n \in Nat
  BY UnreadIs, Sizes
<1>3. /\ rdPtr' = IF rdPtr + n > Size THEN rdPtr + n - Size ELSE rdPtr + n
      /\ wrPtr' = wrPtr /\ content' = content
      /\ given' = (given + n) % Numbers
  BY DEF Get, store
<1>4. rdPtr' \in 0 .. Size
  BY <1>1, <1>2, <1>3
<1>5. given' \in 0 .. Numbers - 1
  <2>1. given + n \in Int
    BY <1>1, <1>2
  <2> QED
    BY <1>1, <1>3, <2>1, Quotient
<1>6. Unread' = Unread - n
  <2>1. Unread' = IF rdPtr' <= wrPtr THEN wrPtr - rdPtr'
                                     ELSE wrPtr - rdPtr' + Size
    BY <1>1, <1>3, <1>4, Distance DEF Unread
  <2> QED
    BY <1>1, <1>2, <1>3, <2>1
<1>7. wrPtr' + MaxFree' <= Size + Reserved
  <2>1. MaxFree' = IF wrPtr >= rdPtr'
                   THEN Size - wrPtr + Lesser(rdPtr', Reserved) - Packet
                   ELSE rdPtr' - wrPtr - Packet
    BY <1>3 DEF MaxFree, Lesser
  <2>2. Lesser(rdPtr', Reserved) \in Int /\ Lesser(rdPtr', Reserved) <= Reserved
    BY <1>1, <1>4 DEF Lesser
  <2> QED
    BY <1>1, <1>3, <1>4, <2>1, <2>2
<1>8. ASSUME NEW i \in 0 .. Unread' - 1
      PROVE  content'[IF rdPtr' + i < Size THEN rdPtr' + i
                                           ELSE rdPtr' + i - Size]
               = (given' + i) % Numbers
  <2>1. i \in Nat /\ n + i \in 0 .. Unread - 1
    BY <1>2, <1>6
  <2>2. content[Position(n + i)] = (given + (n + i)) % Numbers
    BY <2>1 DEF StreamInOrder
  <2>3. (given' + i) % Numbers = (given + n + i) % Numbers
    <3>1. given + n \in Int
      BY <1>1, <1>2
    <3>2. PICK g \in Int : g = given + n
      BY <3>1
    <3>3. Mod(Mod(g, Numbers) + i, Numbers) = Mod(g + i, Numbers)
      BY <1>1, <2>1, <3>2, ModOfSum
    <3> QED
      BY <1>3, <3>2, <3>3 DEF Mod
  <2>4. Position(n + i) = IF rdPtr' + i < Size THEN rdPtr' + i
                                               ELSE rdPtr' + i - Size
    BY <1>1, <1>2, <1>3, <2>1 DEF Position
  <2>5. given + (n + i) = given + n + i
    BY <1>1, <1>2, <2>1
  <2> QED
    BY <1>3, <2>2, <2>3, <2>4, <2>5
<1>9. StreamInOrder'
  BY <1>7, <1>8 DEF StreamInOrder, Position
<1> QED
  BY <1>4, <1>5, <1>6, <1>9

\* What leaves pointers, bytes and their numbers alone.
LEMMA StreamStays ==
  ASSUME StreamInOrder, UNCHANGED <<rdPtr, store, given>>
  PROVE  /\ StreamInOrder' /\ Unread' = Unread /\ MaxFree' = MaxFree
BY DEF StreamInOrder, store, Unread, MaxFree, Position, Lesser

-----------------------------------------------------------------------------
(* Messages.                                                               *)

Messages == {"buf", "close"}

LEMMA SendIs ==
  ASSUME NEW q \in Seq(Messages), NEW m \in Messages
  PROVE  Send(q, m) \in Seq(Messages)
BY DEF Send

LEMMA TakeIs ==
  ASSUME NEW q \in Seq(Messages), q # <<>>
  PROVE  Head(q) \in Messages /\ Tail(q) \in Seq(Messages)
BY HeadTailProperties DEF Messages

LEMMA LesserIs ==
  ASSUME NEW a \in Int, NEW b \in Int
  PROVE  Lesser(a, b) \in Int /\ Lesser(a, b) <= a /\ Lesser(a, b) <= b
         /\ (Lesser(a, b) = a \/ Lesser(a, b) = b)
BY DEF Lesser

-----------------------------------------------------------------------------
(* The stream in order.                                                    *)

LEMMA RingInit == Init => RingInv
<1> SUFFICES ASSUME Init PROVE RingInv
  OBVIOUS
<1>1. Numbers \in Nat \ {0}
  BY Sizes DEF Numbers
<1>2. TypeOK
  <2>1. content \in [0 .. Size + Reserved - 1 -> 0 .. Numbers - 1]
    BY <1>1 DEF Init
  <2>2. queue \in Seq(Messages)
    BY DEF Init
  <2>3. /\ 0 \in 0 .. Size /\ 0 \in 0 .. Size - 1 /\ 0 \in 0 .. Numbers - 1
    BY Sizes, <1>1
  <2>4. rpc \in Readers
    BY DEF Init, Readers
  <2>5. /\ rbstate \in {"closed", "open", "closing"}
        /\ cstate \in {"clear", "not_ready", "ready"}
        /\ mode \in {"block", "nonblock"}
        /\ fpc \in {"idle", "buf", "close", "call", "work", "abort"}
        /\ want \in Nat /\ try \in Nat /\ got \in Nat /\ avail \in Int
    BY DEF Init
  <2>7. /\ csarb \in BOOLEAN /\ plain \in BOOLEAN /\ mapped \in BOOLEAN
        /\ keys \in BOOLEAN /\ force \in BOOLEAN
    BY DEF Init
  <2>6. /\ rdPtr \in 0 .. Size /\ wrPtr \in 0 .. Size - 1
        /\ csaPtr \in 0 .. Size /\ bytes \in 0 .. Size /\ at \in 0 .. Size
        /\ given \in 0 .. Numbers - 1
    BY <2>3 DEF Init
  <2> QED
    BY <2>1, <2>2, <2>4, <2>5, <2>6, <2>7 DEF TypeOK, Messages
<1>3. Unread = 0
  BY <1>2, UnreadIs, Sizes DEF Init
<1>4. StreamInOrder
  BY <1>2, <1>3, RoomIs, Sizes DEF StreamInOrder, Init
<1> QED
  BY <1>2, <1>4 DEF RingInv, TakesUnread, Init

\* What the steps that leave the buffer alone keep.
LEMMA BufferStays ==
  ASSUME RingInv, UNCHANGED <<rdPtr, store, given>>
  PROVE  /\ StreamInOrder' /\ Unread' = Unread
         /\ rdPtr' \in 0 .. Size /\ wrPtr' \in 0 .. Size - 1
         /\ content' \in [0 .. Size + Reserved - 1 -> 0 .. Numbers - 1]
         /\ given' \in 0 .. Numbers - 1
<1>1. StreamInOrder' /\ Unread' = Unread
  BY StreamStays DEF RingInv
<1> QED
  BY <1>1 DEF RingInv, TypeOK, store

\* What the steps that leave the descrambler alone keep.
LEMMA WorkerStays ==
  ASSUME RingInv, UNCHANGED <<worker, mapped, keys>>
  PROVE  /\ fpc' \in {"idle", "buf", "close", "call", "work", "abort"}
         /\ bytes' \in 0 .. Size /\ force' \in BOOLEAN /\ at' \in 0 .. Size
         /\ mapped' \in BOOLEAN /\ keys' \in BOOLEAN
BY DEF RingInv, TypeOK, worker

LEMMA AlignedIs ==
  ASSUME TypeOK
  PROVE  Aligned \in 0 .. Size
<1>1. /\ rdPtr \in 0 .. Size /\ Size \in Nat /\ Packet \in Nat \ {0}
      /\ 2 * Packet < Size
  BY Sizes DEF TypeOK
<1>2. Mod(rdPtr, Packet) \in 0 .. Packet - 1
  BY <1>1, ModIn
<1> QED
  BY <1>1, <1>2 DEF Aligned, Mod

LEMMA CheckStateTypes ==
  ASSUME RingInv, CheckState
  PROVE  /\ csaPtr' \in 0 .. Size /\ csarb' \in BOOLEAN /\ plain' \in BOOLEAN
         /\ cstate' \in {"clear", "not_ready", "ready"}
BY AlignedIs DEF RingInv, CheckState, csa, TypeOK

\* Less than the room is asked of the device.
LEMMA DeliverableIs ==
  ASSUME NEW n \in Int, NEW k \in Deliverable(n)
  PROVE  k \in Nat /\ 0 < k /\ k <= n
BY DEF Deliverable

LEMMA FillRing ==
  ASSUME RingInv, Fill
  PROVE  RingInv'
<1>0. TypeOK /\ StreamInOrder /\ MaxFree \in Int
  BY RoomIs DEF RingInv
<1>1. /\ rpc \in {"fill", "fill_poll"} /\ rpc' \in {"idle", "avail_poll"}
      /\ UNCHANGED <<rbstate, rdPtr, csa, mapped, keys, mode, want, try, got,
                     avail, worker, given>>
  BY DEF Fill
<1>2. /\ queue' \in Seq({"buf", "close"}) /\ StreamInOrder'
      /\ rdPtr' \in 0 .. Size /\ wrPtr' \in 0 .. Size - 1
      /\ content' \in [0 .. Size + Reserved - 1 -> 0 .. Numbers - 1]
      /\ given' \in 0 .. Numbers - 1
  <2>1. CASE /\ \E k \in Deliverable(MaxFree - (MaxFree % Packet)) : Store(k)
             /\ queue' = Send(queue, "buf")
    <3>1. PICK k \in Deliverable(MaxFree - (MaxFree % Packet)) : Store(k)
      BY <2>1
    <3>2. Mod(MaxFree, Packet) \in Nat
      <4>1. Mod(MaxFree, Packet) \in 0 .. Packet - 1
        BY <1>0, Sizes, ModIn
      <4> QED
        BY <4>1, Sizes
    <3>3. k \in Nat /\ 0 < k /\ k <= MaxFree
      <4>1. PICK n \in Int : n = MaxFree - Mod(MaxFree, Packet)
        BY <1>0, <3>2
      <4>2. k \in Deliverable(n)
        BY <4>1 DEF Mod
      <4> QED
        BY <1>0, <3>2, <4>1, <4>2, DeliverableIs
    <3>4. UNCHANGED <<rdPtr, given>>
      BY <1>1
    <3>5. queue' \in Seq({"buf", "close"})
      BY <1>0, <2>1, SendIs DEF TypeOK, Messages
    <3> QED
      BY <1>0, <1>1, <3>1, <3>3, <3>4, <3>5, StoreFills DEF TypeOK
  <2>2. CASE UNCHANGED <<store, queue>>
    BY <1>0, <1>1, <2>2, BufferStays DEF TypeOK
  <2> QED
    BY <2>1, <2>2 DEF Fill
<1>3. TypeOK'
  BY <1>0, <1>1, <1>2, WorkerStays DEF TypeOK, Readers, csa
<1>4. TakesUnread'
  BY <1>1 DEF TakesUnread
<1> QED
  BY <1>2, <1>3, <1>4 DEF RingInv

LEMMA BlockReadRing ==
  ASSUME RingInv, BlockRead
  PROVE  RingInv'
<1>0. TypeOK /\ StreamInOrder /\ MaxFree \in Int
  BY RoomIs DEF RingInv
<1>1. /\ rpc \in {"block", "block_again"}
      /\ UNCHANGED <<rbstate, rdPtr, csa, mapped, keys, queue, mode, rpc, want,
                     try, avail, worker, given>>
  BY DEF BlockRead
<1>2. PICK k \in Deliverable(MaxFree) : Store(k) /\ got' = got + k
  BY DEF BlockRead
<1>3. k \in Nat /\ 0 < k /\ k <= MaxFree
  BY <1>0, DeliverableIs
<1>4. /\ StreamInOrder'
      /\ wrPtr' \in 0 .. Size - 1
      /\ content' \in [0 .. Size + Reserved - 1 -> 0 .. Numbers - 1]
  BY <1>0, <1>1, <1>2, <1>3, StoreFills
<1>5. got' \in Nat
  BY <1>0, <1>2, <1>3 DEF TypeOK
<1>6. TypeOK'
  BY <1>0, <1>1, <1>4, <1>5, WorkerStays DEF TypeOK, Readers, csa
<1>7. TakesUnread'
  BY <1>1 DEF TakesUnread
<1> QED
  BY <1>4, <1>6, <1>7 DEF RingInv

\* What was asked for: some bytes.
LEMMA WantIs ==
  ASSUME NEW w \in Counts
  PROVE  w \in Nat /\ 0 < w
BY ConstantsAssumption

\* The bytes up to the descrambler's pointer are unread ones.
LEMMA ProcessedIs ==
  ASSUME TypeOK, NEW c \in 0 .. Size
  PROVE  /\ Processed(c) \in 0 .. Size
         /\ Between(c) <=> Processed(c) <= Unread
<1>1. rdPtr \in 0 .. Size /\ wrPtr \in 0 .. Size - 1
  BY DEF TypeOK
<1> QED
  BY <1>1, UnreadIs, Sizes DEF Processed, Between

\* Without a descrambler all unread bytes but a packet are offered.
LEMMA RawAvailIs ==
  ASSUME TypeOK
  PROVE  RawAvail \in Int /\ RawAvail <= Unread
<1>1. rdPtr \in 0 .. Size /\ wrPtr \in 0 .. Size - 1
  BY DEF TypeOK
<1> QED
  BY <1>1, UnreadIs, Sizes DEF RawAvail

AvailPlaces == {"avail_poll", "avail", "avail_need", "avail_again"}

\* The reader goes on to take bytes only when there are enough of them.
LEMMA AfterAvailIs ==
  ASSUME TypeOK, rpc \in AvailPlaces, NEW n \in Int
  PROVE  /\ AfterAvail(n) \in Readers \ {"abort"}
         /\ AfterAvail(n) = "get" =>
              rpc = "avail" /\ 0 < n /\ (mode = "block" => want <= n)
         /\ AfterAvail(n) = "get_again" => rpc = "avail_again" /\ want <= n
<1>1. mode \in {"block", "nonblock"} /\ want \in Nat
  BY DEF TypeOK
<1>2. CASE rpc = "avail_poll"
  BY <1>2 DEF AfterAvail, Readers
<1>3. CASE rpc = "avail"
  BY <1>1, <1>3 DEF AfterAvail, Readers
<1>4. CASE rpc = "avail_need"
  BY <1>4 DEF AfterAvail, Readers
<1>5. CASE rpc = "avail_again"
  BY <1>1, <1>5 DEF AfterAvail, Readers
<1> QED
  BY <1>2, <1>3, <1>4, <1>5 DEF AvailPlaces

LEMMA AvailRing ==
  ASSUME RingInv, Avail
  PROVE  RingInv'
<1>0. TypeOK /\ StreamInOrder /\ Unread \in Int
  BY UnreadIs DEF RingInv
<1>1. /\ rpc \in AvailPlaces
      /\ UNCHANGED <<rbstate, rdPtr, store, mapped, keys, mode, want, got,
                     worker, given>>
      /\ try' = IF rpc = "avail_again" THEN Packet ELSE try
  BY DEF Avail, AvailPlaces
<1>2. /\ StreamInOrder' /\ Unread' = Unread
      /\ rdPtr' \in 0 .. Size /\ wrPtr' \in 0 .. Size - 1
      /\ content' \in [0 .. Size + Reserved - 1 -> 0 .. Numbers - 1]
      /\ given' \in 0 .. Numbers - 1
  BY <1>1, BufferStays
<1>3. try' \in Nat
  BY <1>0, <1>1, Sizes DEF TypeOK
<1>4. /\ csaPtr' \in 0 .. Size /\ csarb' \in BOOLEAN /\ plain' \in BOOLEAN
      /\ cstate' \in {"clear", "not_ready", "ready"}
      /\ rpc' \in Readers /\ avail' \in Int
      /\ queue' \in Seq({"buf", "close"})
      /\ TakesUnread'
  <2>1. CASE RawAvail # 0 /\ RawAvail >= Need /\ Encrypted
    <3>1. CheckState
      BY <2>1 DEF Avail
    <3>2. /\ csaPtr' \in 0 .. Size /\ csarb' \in BOOLEAN /\ plain' \in BOOLEAN
          /\ cstate' \in {"clear", "not_ready", "ready"}
      BY <3>1, CheckStateTypes
    <3>3. CASE ~csarb' \/ ~Between(csaPtr')
      <4>1. rpc' = "abort" /\ UNCHANGED <<avail, queue>>
        BY <2>1, <3>3 DEF Avail
      <4> QED
        BY <1>0, <3>2, <4>1 DEF TypeOK, Readers, TakesUnread
    <3>4. CASE csarb' /\ Between(csaPtr')
      <4> DEFINE n == Processed(csaPtr')
                 waits == n < Need
      <4>1. n \in Int /\ n <= Unread
        BY <1>0, <3>2, <3>4, ProcessedIs
      <4>2. /\ avail' = IF rpc = "avail" THEN n ELSE 0
            /\ rpc' = IF waits THEN "wait" ELSE AfterAvail(n)
            /\ queue' = IF waits THEN Send(queue, "buf") ELSE queue
        BY <2>1, <3>4 DEF Avail
      <4> HIDE DEF n, waits
      <4>3. queue' \in Seq({"buf", "close"})
        BY <1>0, <4>2, SendIs DEF TypeOK, Messages
      <4>4. rpc' \in Readers /\ avail' \in Int
        BY <1>0, <1>1, <4>1, <4>2, AfterAvailIs DEF Readers
      <4>5. TakesUnread'
        <5>1. mode' = mode /\ want' = want /\ want \in Nat
          BY <1>0, <1>1 DEF TypeOK
        <5>2. ASSUME rpc' = "get"
              PROVE  0 < n /\ (mode = "block" => want <= n) /\ avail' = n
          BY <1>0, <1>1, <4>1, <4>2, <5>2, AfterAvailIs
        <5>3. ASSUME rpc' = "get_again" PROVE want <= n
          BY <1>0, <1>1, <4>1, <4>2, <5>3, AfterAvailIs
        <5> QED
          BY <1>0, <1>2, <4>1, <5>1, <5>2, <5>3 DEF TakesUnread
      <4> QED
        BY <3>2, <4>3, <4>4, <4>5
    <3> QED
      BY <3>3, <3>4
  <2>2. CASE ~(RawAvail # 0 /\ RawAvail >= Need /\ Encrypted)
    <3>1. /\ avail' = IF rpc = "avail" THEN RawAvail ELSE 0
          /\ rpc' = AfterAvail(RawAvail)
          /\ UNCHANGED <<csa, queue>>
      BY <2>2 DEF Avail
    <3>2. RawAvail \in Int /\ RawAvail <= Unread
      BY <1>0, RawAvailIs
    <3>3. rpc' \in Readers /\ avail' \in Int
      BY <1>0, <1>1, <3>1, <3>2, AfterAvailIs
    <3>4. TakesUnread'
      <4>1. mode' = mode /\ want' = want /\ want \in Nat
        BY <1>0, <1>1 DEF TypeOK
      <4>2. ASSUME rpc' = "get"
            PROVE  /\ 0 < RawAvail /\ (mode = "block" => want <= RawAvail)
                   /\ avail' = RawAvail
        BY <1>0, <1>1, <3>1, <3>2, <4>2, AfterAvailIs
      <4>3. ASSUME rpc' = "get_again" PROVE want <= RawAvail
        BY <1>0, <1>1, <3>1, <3>2, <4>3, AfterAvailIs
      <4> QED
        BY <1>0, <1>2, <3>2, <4>1, <4>2, <4>3 DEF TakesUnread
    <3> QED
      BY <1>0, <3>1, <3>3, <3>4 DEF TypeOK, csa
  <2> QED
    BY <2>1, <2>2
<1>5. TypeOK'
  BY <1>0, <1>1, <1>2, <1>3, <1>4, WorkerStays DEF TypeOK
<1> QED
  BY <1>2, <1>4, <1>5 DEF RingInv

LEMMA GetRing ==
  ASSUME RingInv, GetBytes
  PROVE  RingInv'
<1>0. /\ TypeOK /\ StreamInOrder /\ TakesUnread /\ Unread \in 0 .. Size - 1
      /\ Size \in Nat /\ want \in Nat /\ avail \in Int /\ try \in Nat
      /\ mode \in {"block", "nonblock"}
  BY UnreadIs, Sizes DEF RingInv, TypeOK
<1>1. PICK n \in 0 .. Unread : Get(n)
  <2>1. CASE rpc = "get" /\ mode = "nonblock" /\ Get(Lesser(avail, want))
    <3>1. Lesser(avail, want) \in 0 .. Unread
      BY <1>0, <2>1 DEF TakesUnread, Lesser
    <3> QED
      BY <2>1, <3>1
  <2>2. CASE rpc = "get" /\ mode = "block" /\ Get(want)
    <3>1. want \in 0 .. Unread
      BY <1>0, <2>2 DEF TakesUnread
    <3> QED
      BY <2>2, <3>1
  <2>3. CASE rpc = "get_again" /\ Get(want)
    <3>1. want \in 0 .. Unread
      BY <1>0, <2>3 DEF TakesUnread
    <3> QED
      BY <2>3, <3>1
  <2> QED
    BY <2>1, <2>2, <2>3 DEF GetBytes
<1>2. /\ rdPtr' \in 0 .. Size /\ given' \in 0 .. Numbers - 1
      /\ StreamInOrder'
  BY <1>0, <1>1, GetTakes
<1>3. /\ UNCHANGED <<rbstate, store, csa, mapped, keys, queue, mode, want, got,
                     worker>>
      /\ avail' = 0
  BY <1>1 DEF Get
<1>4. rpc' \in {"fill", "block", "idle"} /\ try' \in Nat
  <2>1. want \div 4 \in Nat /\ want \div 2 \in Nat
    BY <1>0
  <2>2. Refill \in Nat
    BY <1>0, <2>1 DEF Refill
  <2> QED
    BY <1>0, <2>2 DEF GetBytes
<1>5. TypeOK'
  BY <1>0, <1>2, <1>3, <1>4, WorkerStays DEF TypeOK, Readers, csa, store
<1>6. TakesUnread'
  BY <1>4 DEF TakesUnread
<1> QED
  BY <1>2, <1>5, <1>6 DEF RingInv

\* Choose, BlockEnd, the calls and the key commands.
LEMMA OtherReaderRing ==
  ASSUME RingInv, Choose \/ BlockEnd \/ BlockAbort \/ CloseCall \/ PollCall
                  \/ ReadCall
  PROVE  RingInv'
<1>0. TypeOK /\ queue \in Seq(Messages)
  BY DEF RingInv, TypeOK, Messages
<1>1. UNCHANGED <<rdPtr, store, csa, mapped, keys, mode, worker, given>>
  BY DEF Choose, BlockEnd, BlockAbort, CloseCall, PollCall, ReadCall
<1>2. /\ StreamInOrder'
      /\ rdPtr' \in 0 .. Size /\ wrPtr' \in 0 .. Size - 1
      /\ content' \in [0 .. Size + Reserved - 1 -> 0 .. Numbers - 1]
      /\ given' \in 0 .. Numbers - 1
  BY <1>1, BufferStays
<1>3. /\ rpc' \in Readers \ {"get", "get_again"}
      /\ rbstate' \in {"closed", "open", "closing"}
      /\ queue' \in Seq(Messages)
      /\ want' \in Nat /\ try' \in Nat /\ got' \in Nat /\ avail' \in Int
  <2>1. CASE Choose
    BY <1>0, <2>1 DEF Choose, TypeOK, Readers
  <2>2. CASE BlockEnd
    BY <1>0, <2>2, SendIs DEF BlockEnd, AfterBlock, TypeOK, Readers, Messages
  <2>3. CASE BlockAbort
    BY <1>0, <2>3 DEF BlockAbort, TypeOK, Readers
  <2>4. CASE CloseCall
    BY <1>0, <2>4, SendIs DEF CloseCall, Reads, reader, TypeOK, Readers, Messages
  <2>5. CASE PollCall
    BY <1>0, <2>5 DEF PollCall, TypeOK, Readers
  <2>6. CASE ReadCall
    <3>1. /\ want' \in Nat /\ 0 < want'
          /\ try' = IF want' % Packet = 0 THEN want'
                    ELSE want' + Packet - (want' % Packet)
      BY <2>6, WantIs DEF ReadCall
    <3>2. Mod(want', Packet) \in 0 .. Packet - 1
      BY <3>1, Sizes, ModIn
    <3>3. try' \in Nat
      <4>1. try' \in {want', want' + Packet - Mod(want', Packet)}
        BY <3>1 DEF Mod
      <4>2. want' + Packet - Mod(want', Packet) \in Nat
        BY <3>1, <3>2, Sizes
      <4> QED
        BY <3>1, <4>1, <4>2
    <3> QED
      BY <1>0, <2>6, <3>1, <3>3 DEF ReadCall, TypeOK, Readers
  <2> QED
    BY <2>1, <2>2, <2>3, <2>4, <2>5, <2>6
<1>4. TypeOK'
  BY <1>0, <1>1, <1>2, <1>3, WorkerStays DEF TypeOK, csa, Messages
<1>5. TakesUnread'
  BY <1>3 DEF TakesUnread
<1> QED
  BY <1>2, <1>4, <1>5 DEF RingInv

LEMMA OpenRing ==
  ASSUME RingInv, OpenCall
  PROVE  RingInv'
<1>0. TypeOK /\ Numbers \in Nat \ {0}
  BY Sizes DEF RingInv, Numbers
<1>1. /\ rpc = "idle" /\ rbstate' = "open" /\ rdPtr' = 0 /\ wrPtr' = 0
      /\ given' = 0 /\ mode' \in {"block", "nonblock"}
      /\ UNCHANGED <<csa, mapped, keys, queue, reader, worker, content>>
  BY ConstantsAssumption DEF OpenCall
<1>2. 0 \in 0 .. Size /\ 0 \in 0 .. Size - 1 /\ 0 \in 0 .. Numbers - 1
  BY <1>0, Sizes
<1>3. Unread' = 0
  BY <1>1, <1>2, Distance DEF Unread
<1>4. wrPtr' + MaxFree' <= Size + Reserved
  <2>1. MaxFree' = Size - 0 + Lesser(0, Reserved) - Packet
    BY <1>1 DEF MaxFree, Lesser
  <2>2. Lesser(0, Reserved) \in Int /\ Lesser(0, Reserved) <= Reserved
    BY Sizes DEF Lesser
  <2> QED
    BY <1>1, <2>1, <2>2, Sizes
<1>5. StreamInOrder'
  BY <1>3, <1>4 DEF StreamInOrder
<1>6. TypeOK'
  BY <1>0, <1>1, <1>2, WorkerStays DEF RingInv, TypeOK, csa, reader
<1>7. TakesUnread'
  BY <1>1 DEF TakesUnread, reader
<1> QED
  BY <1>5, <1>6, <1>7 DEF RingInv

LEMMA WorkerRing ==
  ASSUME RingInv, WorkerStep
  PROVE  RingInv'
<1>0. TypeOK /\ TakesUnread /\ queue \in Seq(Messages) /\ Unread \in Int
  BY UnreadIs DEF RingInv, TypeOK, Messages
<1>1. UNCHANGED <<rdPtr, store, mapped, keys, mode, want, try, got, avail, given>>
  BY DEF WorkerStep, Take, RingBuf, Call, Done, RingClose, reader
<1>2. /\ StreamInOrder' /\ Unread' = Unread
      /\ rdPtr' \in 0 .. Size /\ wrPtr' \in 0 .. Size - 1
      /\ content' \in [0 .. Size + Reserved - 1 -> 0 .. Numbers - 1]
      /\ given' \in 0 .. Numbers - 1
  BY <1>1, BufferStays
<1>3. /\ rpc' = rpc \/ rpc' = "avail_again"
      /\ rbstate' \in {"closed", "open", "closing"}
      /\ queue' \in Seq(Messages)
      /\ csaPtr' \in 0 .. Size
      /\ cstate' \in {"clear", "not_ready", "ready"}
      /\ csarb' \in BOOLEAN /\ plain' \in BOOLEAN
      /\ fpc' \in {"idle", "buf", "close", "call", "work", "abort"}
      /\ bytes' \in 0 .. Size /\ force' \in BOOLEAN /\ at' \in 0 .. Size
  <2>1. CASE Take
    <3>1. fpc' \in Messages /\ queue' \in Seq(Messages)
      BY <1>0, <2>1, TakeIs DEF Take
    <3> QED
      BY <1>0, <2>1, <3>1 DEF Take, csa, reader, TypeOK, Messages
  <2>2. CASE RingBuf
    <3>1. CASE Encrypted
      <4>1. CheckState
        BY <2>2, <3>1 DEF RingBuf
      <4>2. /\ csaPtr' \in 0 .. Size /\ csarb' \in BOOLEAN /\ plain' \in BOOLEAN
            /\ cstate' \in {"clear", "not_ready", "ready"}
        BY <4>1, CheckStateTypes
      <4>3. /\ fpc' \in {"call", "abort"} /\ force' = (csaPtr' > wrPtr)
            /\ bytes' = IF csaPtr' > wrPtr THEN Size - csaPtr'
                                           ELSE wrPtr - csaPtr'
        BY <2>2, <3>1 DEF RingBuf
      <4>4. force' \in BOOLEAN
        BY <4>3
      <4>5. bytes' \in 0 .. Size
        <5>1. wrPtr \in 0 .. Size - 1
          BY <1>0 DEF TypeOK
        <5>2. PICK c \in 0 .. Size : c = csaPtr'
          BY <4>2
        <5>3. (IF c > wrPtr THEN Size - c ELSE wrPtr - c) \in 0 .. Size
          BY <5>1, Sizes
        <5> QED
          BY <4>3, <5>2, <5>3
      <4> QED
        BY <1>0, <2>2, <4>2, <4>3, <4>4, <4>5 DEF RingBuf, reader, TypeOK
    <3>2. CASE ~Encrypted
      BY <1>0, <2>2, <3>2 DEF RingBuf, csa, reader, TypeOK
    <3> QED
      BY <3>1, <3>2
  <2>3. CASE Call
    BY <1>0, <2>3 DEF Call, csa, reader, TypeOK
  <2>4. CASE Done
    <3>1. PICK ret \in Work :
            IF csaPtr + ret > Size
            THEN fpc' = "abort" /\ UNCHANGED <<csaPtr, plain, rpc, queue>>
            ELSE /\ csaPtr' = IF csaPtr + ret = Size THEN 0 ELSE csaPtr + ret
                 /\ plain' = Descrambles(ret)
                 /\ rpc' = IF ret > 0 /\ mode = "block" /\ rpc = "wait"
                           THEN "avail_again" ELSE rpc
                 /\ queue' = IF ret > 0 THEN Send(queue, "buf") ELSE queue
                 /\ fpc' = "idle"
      BY <2>4 DEF Done
    <3>2. ret \in Nat
      BY Sizes DEF Work, TypeOK
    <3>3. csaPtr' \in 0 .. Size
      <4>1. csaPtr \in 0 .. Size
        BY <1>0 DEF TypeOK
      <4> QED
        BY <3>1, <3>2, <4>1, Sizes
    <3>4. /\ plain' \in BOOLEAN /\ fpc' \in {"idle", "abort"}
          /\ rpc' = rpc \/ rpc' = "avail_again"
      BY <1>0, <3>1 DEF TypeOK, Descrambles
    <3>5. queue' \in Seq(Messages)
      BY <1>0, <3>1, SendIs DEF Messages
    <3>6. /\ UNCHANGED <<rbstate, cstate, csarb>>
          /\ bytes' = 0 /\ force' = FALSE /\ at' = 0
      BY <2>4 DEF Done
    <3>7. csarb' \in BOOLEAN /\ force' \in BOOLEAN
      BY <1>0, <3>6 DEF TypeOK
    <3>8. /\ rbstate' \in {"closed", "open", "closing"}
          /\ cstate' \in {"clear", "not_ready", "ready"}
      BY <1>0, <3>6 DEF TypeOK
    <3>9. bytes' \in 0 .. Size /\ at' \in 0 .. Size
      BY <3>6, Sizes
    <3> QED
      BY <3>3, <3>4, <3>5, <3>7, <3>8, <3>9
  <2>5. CASE RingClose
    <3>1. /\ rpc' = rpc /\ queue' = <<>> /\ rbstate' = "closed"
          /\ cstate' \in {cstate, "not_ready"} /\ csarb' = FALSE /\ fpc' = "idle"
          /\ UNCHANGED <<csaPtr, plain, bytes, force, at>>
      BY <2>5 DEF RingClose, reader
    <3>2. csarb' \in BOOLEAN /\ plain' \in BOOLEAN /\ force' \in BOOLEAN
      BY <1>0, <3>1 DEF TypeOK
    <3>3. /\ cstate' \in {"clear", "not_ready", "ready"}
          /\ csaPtr' \in 0 .. Size /\ bytes' \in 0 .. Size /\ at' \in 0 .. Size
      BY <1>0, <3>1 DEF TypeOK
    <3>4. queue' \in Seq(Messages)
      BY <3>1
    <3> QED
      BY <3>1, <3>2, <3>3, <3>4
  <2> QED
    BY <2>1, <2>2, <2>3, <2>4, <2>5 DEF WorkerStep
<1>4. TypeOK'
  BY <1>0, <1>1, <1>2, <1>3 DEF TypeOK, Readers, Messages
<1>5. TakesUnread'
  BY <1>0, <1>1, <1>2, <1>3 DEF TakesUnread
<1> QED
  BY <1>2, <1>4, <1>5 DEF RingInv

LEMMA KeyRing ==
  ASSUME RingInv, KeyStep
  PROVE  RingInv'
<1>0. TypeOK /\ TakesUnread
  BY DEF RingInv
<1>1. UNCHANGED <<rbstate, rdPtr, store, csaPtr, csarb, plain, queue, mode,
                  reader, worker, given>>
  BY DEF KeyStep, KeyCommand, AddPid, SetKeys, ClosePid, Invalidate, OtherIndex
<1>2. /\ StreamInOrder' /\ Unread' = Unread
      /\ rdPtr' \in 0 .. Size /\ wrPtr' \in 0 .. Size - 1
      /\ content' \in [0 .. Size + Reserved - 1 -> 0 .. Numbers - 1]
      /\ given' \in 0 .. Numbers - 1
  BY <1>1, BufferStays
<1>3. /\ mapped' \in BOOLEAN /\ keys' \in BOOLEAN
      /\ cstate' \in {"clear", "not_ready", "ready"}
  <2>1. CASE AddPid
    BY <1>0, <2>1 DEF AddPid, TypeOK
  <2>2. CASE SetKeys
    BY <1>0, <2>2 DEF SetKeys, TypeOK
  <2>3. CASE ClosePid \/ Invalidate
    BY <2>3 DEF ClosePid, Invalidate
  <2>4. CASE OtherIndex
    BY <1>0, <2>4 DEF OtherIndex, TypeOK
  <2> QED
    BY <2>1, <2>2, <2>3, <2>4 DEF KeyStep
<1>4. TypeOK'
  BY <1>0, <1>1, <1>2, <1>3 DEF TypeOK, reader, worker, Readers
<1>5. TakesUnread'
  BY <1>0, <1>1, <1>2 DEF TakesUnread, reader
<1> QED
  BY <1>2, <1>4, <1>5 DEF RingInv

LEMMA RingNext == RingInv /\ [Next]_vars => RingInv'
<1> SUFFICES ASSUME RingInv, [Next]_vars PROVE RingInv'
  OBVIOUS
<1>1. CASE ReaderStep
  BY <1>1, FillRing, AvailRing, GetRing, OtherReaderRing, BlockReadRing
     DEF ReaderStep
<1>2. CASE WorkerStep
  BY <1>2, WorkerRing
<1>3. CASE KeyStep
  BY <1>3, KeyRing
<1>4. CASE AppStep
  BY <1>4, OpenRing, OtherReaderRing DEF AppStep
<1>5. CASE UNCHANGED vars
  <2>1. UNCHANGED <<rdPtr, store, given>>
    BY <1>5 DEF vars
  <2>2. StreamInOrder' /\ Unread' = Unread
    BY <2>1, BufferStays
  <2>3. TypeOK' /\ TakesUnread'
    BY <1>5, <2>2 DEF RingInv, TypeOK, TakesUnread, vars, store, csa, reader,
                      worker, Readers
  <2> QED
    BY <2>2, <2>3 DEF RingInv
<1> QED
  BY <1>1, <1>2, <1>3, <1>4, <1>5 DEF Next

\* Pointers stay in the buffer, whatever the device and the applications do.
THEOREM TypeCorrect == Spec => []TypeOK
<1>1. RingInv => TypeOK
  BY DEF RingInv
<1> QED
  BY <1>1, RingInit, RingNext, PTL DEF Spec

\* The application reads the device's stream in order, and no fill overwrites
\* what is unread or passes the end of the allocation, also when fills end
\* inside packets and keys change at any time.
THEOREM ReadsInOrder == Spec => []StreamInOrder
<1>1. RingInv => StreamInOrder
  BY DEF RingInv
<1> QED
  BY <1>1, RingInit, RingNext, PTL DEF Spec

-----------------------------------------------------------------------------
(* The pointer of the descrambler.  The distances once more, for any        *)
(* places of the reader (r), the writer (w) and the descrambler (c).        *)

Room(r, w)      == IF r <= w THEN w - r ELSE w - r + Size
Passed(r, c)    == IF r <= c THEN c - r ELSE Size - r + c
Inside(r, w, c) == \/ r <= c /\ c <= w
                   \/ w < r /\ (r <= c \/ c <= w)

LEMMA InsideIs ==
  ASSUME NEW r \in 0 .. Size, NEW w \in 0 .. Size - 1, NEW c \in 0 .. Size
  PROVE  /\ Room(r, w) \in 0 .. Size - 1 /\ Passed(r, c) \in 0 .. Size
         /\ Inside(r, w, c) <=> Passed(r, c) <= Room(r, w)
BY Sizes DEF Room, Passed, Inside

\* The reader takes n bytes of those the descrambler has passed.
LEMMA ReaderMoves ==
  ASSUME NEW r \in 0 .. Size, NEW c \in 0 .. Size, NEW n \in 0 .. Passed(r, c)
  PROVE  LET s == IF r + n > Size THEN r + n - Size ELSE r + n
         IN  s \in 0 .. Size /\ Passed(s, c) = Passed(r, c) - n
BY Sizes DEF Passed

\* The descrambler advances over n bytes that are unread.
LEMMA DescramblerMoves ==
  ASSUME NEW r \in 0 .. Size, NEW w \in 0 .. Size - 1, NEW c \in 0 .. Size,
         NEW n \in Nat, c + n <= Size, Passed(r, c) + n <= Room(r, w)
  PROVE  LET d == IF c + n = Size THEN 0 ELSE c + n
         IN  d \in 0 .. Size /\ Passed(r, d) = Passed(r, c) + n
BY Sizes DEF Passed, Room

\* The bytes up to the writer, or to the end of the buffer, are unread.
LEMMA StretchIs ==
  ASSUME NEW r \in 0 .. Size, NEW w \in 0 .. Size - 1, NEW c \in 0 .. Size,
         Inside(r, w, c)
  PROVE  LET b == IF c > w THEN Size - c ELSE w - c
         IN  b \in 0 .. Size /\ c + b <= Size /\ Passed(r, c) + b <= Room(r, w)
BY Sizes DEF Passed, Room, Inside

\* Sums and differences of whole packets.
LEMMA Multiples ==
  ASSUME NEW n \in Nat \ {0}, NEW a \in Int, NEW b \in Int,
         Mod(a, n) = 0, Mod(b, n) = 0
  PROVE  /\ Mod(a + b, n) = 0 /\ Mod(a - b, n) = 0
         /\ a < b => a + n <= b
<1>1. PICK p \in Int : a = n * p
  <2>1. /\ a = n * (a \div n) + (a % n) /\ a \div n \in Int
        /\ n * (a \div n) \in Int
    BY Quotient
  <2>2. a % n = 0
    BY DEF Mod
  <2>3. a = n * (a \div n)
    BY <2>1, <2>2
  <2> QED
    BY <2>1, <2>3
<1>2. PICK q \in Int : b = n * q
  <2>1. /\ b = n * (b \div n) + (b % n) /\ b \div n \in Int
        /\ n * (b \div n) \in Int
    BY Quotient
  <2>2. b % n = 0
    BY DEF Mod
  <2>3. b = n * (b \div n)
    BY <2>1, <2>2
  <2> QED
    BY <2>1, <2>3
<1>3. PICK s \in Int, d \in Int : s = p + q /\ d = p - q
  OBVIOUS
<1>4. n * p + n * q = n * s /\ n * p - n * q = n * d
  BY <1>3
<1>5. 0 \in 0 .. n - 1
  OBVIOUS
<1>6. Mod(a + b, n) = 0
  <2>1. PICK x \in Int : x = a + b
    OBVIOUS
  <2>2. x = n * s + 0
    BY <1>1, <1>2, <1>4, <2>1
  <2>3. x % n = 0
    BY ONLY n \in Nat \ {0}, <1>5, s \in Int, x \in Int, <2>2, Remainder
  <2> QED
    BY <2>1, <2>3 DEF Mod
<1>7. Mod(a - b, n) = 0
  <2>1. PICK x \in Int : x = a - b
    OBVIOUS
  <2>2. x = n * d + 0
    BY <1>1, <1>2, <1>4, <2>1
  <2>3. x % n = 0
    BY ONLY n \in Nat \ {0}, <1>5, d \in Int, x \in Int, <2>2, Remainder
  <2> QED
    BY <2>1, <2>3 DEF Mod
<1>8. ASSUME a < b PROVE a + n <= b
  <2>1. b - a = n * (q - p)
    BY <1>1, <1>2
  <2>2. q - p > 0
    BY <1>8, <2>1
  <2> QED
    BY <2>1, <2>2
<1> QED
  BY <1>6, <1>7, <1>8

LEMMA WholePackets ==
  /\ Packet \in Nat \ {0} /\ Mod(Size, Packet) = 0 /\ Mod(0, Packet) = 0
<1>1. Mod(0, Packet) = 0
  BY Sizes DEF Mod
<1> QED
  BY <1>1, ConstantsAssumption DEF Mod

\* The first whole packet that is unread lies between reader and writer.
LEMMA AlignedInside ==
  ASSUME TypeOK, Mod(wrPtr, Packet) = 0
  PROVE  /\ Aligned \in 0 .. Size /\ Mod(Aligned, Packet) = 0
         /\ Inside(rdPtr, wrPtr, Aligned)
<1>1. /\ rdPtr \in 0 .. Size /\ wrPtr \in 0 .. Size - 1 /\ Size \in Nat
      /\ Packet \in Nat \ {0}
  BY Sizes DEF TypeOK
<1>2. PICK m \in 0 .. Packet - 1 : m = Mod(rdPtr, Packet)
  BY <1>1, ModIn
<1>3. CASE m = 0
  <2>1. Aligned = rdPtr
    BY <1>2, <1>3 DEF Aligned, Mod
  <2>2. Mod(rdPtr, Packet) = 0
    BY <1>2, <1>3
  <2>3. Inside(rdPtr, wrPtr, rdPtr)
    BY <1>1 DEF Inside
  <2> QED
    BY <1>1, <2>1, <2>2, <2>3
<1>4. CASE m # 0
  <2>1. PICK f \in Int : f = rdPtr - m
    BY <1>1
  <2>2. Mod(f, Packet) = 0
    <3>1. rdPtr - f = m
      BY <1>1, <2>1
    <3>2. Mod(m, Packet) = m
      BY <1>1, <1>2 DEF Mod
    <3>3. PICK q \in Int : rdPtr = Packet * q + m
      <4>1. rdPtr = Packet * (rdPtr \div Packet) + (rdPtr % Packet)
            /\ rdPtr \div Packet \in Int
        BY <1>1, Quotient
      <4> QED
        BY <1>2, <4>1 DEF Mod
    <3>4. f = Packet * q + 0
      BY <1>1, <2>1, <3>3
    <3>5. 0 \in 0 .. Packet - 1 /\ Packet \in Nat \ {0}
      BY <1>1
    <3>6. f % Packet = 0
      BY ONLY <3>5, q \in Int, f \in Int, <3>4, Remainder
    <3> QED
      BY <3>6 DEF Mod
  <2>3. PICK c \in Int : c = f + Packet
    BY <1>1
  <2>4. Mod(c, Packet) = 0
    <3>1. Mod(Packet, Packet) = 0
      BY <1>1 DEF Mod
    <3> QED
      BY <1>1, <2>2, <2>3, <3>1, Multiples
  <2>5. f < rdPtr /\ rdPtr < c
    BY <1>1, <1>2, <1>4, <2>1, <2>3
  <2>6. c <= Size
    BY <1>1, <2>2, <2>3, <2>5, Multiples, WholePackets
  <2>7. rdPtr <= wrPtr => c <= wrPtr
    BY <1>1, <2>2, <2>3, <2>5, Multiples
  <2>8. Aligned = c
    <3>1. rdPtr % Packet = m
      BY <1>2 DEF Mod
    <3>2. rdPtr + Packet - m = c
      BY <1>1, <1>2, <2>1, <2>3
    <3>3. rdPtr + Packet - (rdPtr % Packet) = c
      BY <3>1, <3>2
    <3>4. rdPtr % Packet # 0
      BY <1>4, <3>1
    <3>5. Aligned = IF c > Size THEN c - Size ELSE c
      BY <3>3, <3>4, Zenon DEF Aligned
    <3> QED
      BY <1>1, <2>3, <2>6, <3>5
  <2> QED
    BY <1>1, <2>4, <2>5, <2>6, <2>7, <2>8 DEF Inside
<1> QED
  BY <1>3, <1>4

-----------------------------------------------------------------------------
(* Calls, messages and the state of the buffer.                            *)

LEMMA ContainsIs ==
  ASSUME NEW q \in Seq(Messages), NEW m \in Messages
  PROVE  /\ Contains(Send(q, m), "close") => Contains(q, "close") \/ m = "close"
         /\ Send(q, m) # <<>>
         /\ q # <<>> => Contains(q, Head(q))
         /\ q # <<>> /\ Contains(Tail(q), "close") => Contains(q, "close")
         /\ ~Contains(<<>>, "close")
<1>1. Contains(Send(q, m), "close") => Contains(q, "close") \/ m = "close"
  BY DEF Send, Contains
<1>2. Send(q, m) # <<>>
  BY DEF Send, Contains
<1>3. q # <<>> => Contains(q, Head(q))
  BY DEF Contains
<1>4. q # <<>> /\ Contains(Tail(q), "close") => Contains(q, "close")
  BY DEF Contains
<1>5. ~Contains(<<>>, "close")
  BY DEF Contains
<1> QED
  BY <1>1, <1>2, <1>3, <1>4, <1>5

Serving == {"fill", "avail", "avail_need", "avail_again", "get", "get_again",
            "choose", "block", "block_again", "wait"}

LEMMA ReaderPhases ==
  ASSUME RingInv, RingInv', Phases, ReaderStep
  PROVE  Phases'
<1>0. TypeOK /\ TypeOK' /\ queue \in Seq(Messages)
  BY DEF RingInv, TypeOK, Messages
<1>1. /\ rpc \notin {"idle", "abort"} /\ rbstate' = rbstate /\ fpc' = fpc
      /\ want' = want /\ queue' \in {queue, Send(queue, "buf")}
  BY DEF ReaderStep, Fill, Avail, GetBytes, Get, Choose, BlockRead, BlockEnd, csa,
         worker
<1>2. rbstate = "open" /\ fpc # "close" /\ ~Contains(queue, "close")
  BY <1>1 DEF Phases
<1>3. ~Contains(queue', "close")
  BY <1>0, <1>1, <1>2, ContainsIs DEF Messages
<1>4. rpc' \in {"idle", "abort", "fill_poll", "avail_poll"} \/ 0 < want
  <2>1. CASE 0 < want
    BY <2>1
  <2>2. CASE ~(0 < want)
    <3>1. rpc \in {"fill_poll", "avail_poll"}
      BY <1>1, <2>2 DEF Phases
    <3>2. CASE rpc = "fill_poll"
      BY <3>2 DEF ReaderStep, Fill, Avail, GetBytes, Choose, BlockRead, BlockEnd
    <3>3. CASE rpc = "avail_poll"
      <4>1. Avail
        BY <3>3 DEF ReaderStep, Fill, GetBytes, Choose, BlockRead, BlockEnd
      <4>2. Need = 0 /\ \A n : AfterAvail(n) = "idle"
        BY <3>3 DEF Need, AfterAvail
      <4>3. CASE RawAvail # 0 /\ RawAvail >= Need /\ Encrypted
        <5>1. CASE ~csarb' \/ ~Between(csaPtr')
          BY <4>1, <4>3, <5>1 DEF Avail
        <5>2. CASE csarb' /\ Between(csaPtr')
          <6>1. rpc' = IF Processed(csaPtr') < Need THEN "wait"
                       ELSE AfterAvail(Processed(csaPtr'))
            BY <4>1, <4>3, <5>2 DEF Avail
          <6>2. PICK p \in 0 .. Size : p = Processed(csaPtr')
            BY <1>0, ProcessedIs DEF TypeOK
          <6>3. ~(p < 0)
            BY Sizes
          <6> QED
            BY <4>2, <6>1, <6>2, <6>3
        <5> QED
          BY <5>1, <5>2
      <4>4. CASE ~(RawAvail # 0 /\ RawAvail >= Need /\ Encrypted)
        BY <4>1, <4>2, <4>4 DEF Avail
      <4> QED
        BY <4>3, <4>4
    <3> QED
      BY <3>1, <3>2, <3>3
  <2> QED
    BY <2>1, <2>2
<1> QED
  BY <1>1, <1>2, <1>3, <1>4 DEF Phases

LEMMA AppPhases ==
  ASSUME RingInv, Phases, AppStep
  PROVE  Phases'
<1>0. queue \in Seq(Messages)
  BY DEF RingInv, TypeOK, Messages
<1>1. CASE OpenCall
  <2>1. /\ rbstate = "closed" /\ rbstate' = "open" /\ rpc' = "idle"
        /\ queue' = queue /\ fpc' = fpc
    BY <1>1 DEF OpenCall, reader, worker
  <2>2. queue' = <<>> /\ fpc' = "idle" /\ ~Contains(queue', "close")
    BY <2>1, ContainsIs DEF Phases, Messages
  <2> QED
    BY <2>1, <2>2 DEF Phases
<1>2. CASE CloseCall
  <2>1. rbstate' = "closing" /\ rpc' = "idle"
    BY <1>2 DEF CloseCall, Reads, reader
  <2> QED
    BY <2>1 DEF Phases
<1>3. CASE PollCall \/ ReadCall \/ BlockAbort
  <2>1. /\ rbstate = "open" /\ rbstate' = rbstate /\ queue' = queue /\ fpc' = fpc
    BY <1>3 DEF PollCall, ReadCall, BlockAbort, Reads, worker, Phases
  <2>2. rpc' \in {"idle", "fill_poll", "avail_poll"} \/ 0 < want'
    BY <1>3, WantIs DEF PollCall, ReadCall, BlockAbort
  <2> QED
    BY <2>1, <2>2 DEF Phases
<1> QED
  BY <1>1, <1>2, <1>3 DEF AppStep

LEMMA WorkerPhases ==
  ASSUME RingInv, Phases, WorkerStep
  PROVE  Phases'
<1>0. queue \in Seq(Messages)
  BY DEF RingInv, TypeOK, Messages
<1>1. want' = want
  BY DEF WorkerStep, Take, RingBuf, Call, Done, RingClose, reader
<1>2. CASE Take
  <2>1. /\ fpc = "idle" /\ queue # <<>> /\ fpc' = Head(queue)
        /\ queue' = Tail(queue) /\ rpc' = rpc /\ rbstate' = rbstate
    BY <1>2 DEF Take, reader
  <2>2. rbstate # "closed"
    BY <2>1 DEF Phases
  <2>3. fpc' = "close" \/ Contains(queue', "close") => Contains(queue, "close")
    BY <1>0, <2>1, ContainsIs DEF Messages
  <2> QED
    BY <1>1, <2>1, <2>2, <2>3 DEF Phases
<1>3. CASE RingBuf \/ Call
  <2>1. /\ fpc # "idle" /\ fpc' # "close" /\ queue' = queue /\ rpc' = rpc
        /\ rbstate' = rbstate
    BY <1>3 DEF RingBuf, Call, reader
  <2> QED
    BY <1>1, <2>1 DEF Phases
<1>4. CASE Done
  <2>1. /\ fpc = "work" /\ fpc' \in {"idle", "abort"} /\ rbstate' = rbstate
        /\ queue' \in {queue, Send(queue, "buf")}
        /\ rpc' = rpc \/ (rpc = "wait" /\ rpc' = "avail_again")
    BY <1>4 DEF Done
  <2>2. rbstate # "closed"
    BY <2>1 DEF Phases
  <2>3. Contains(queue', "close") => Contains(queue, "close")
    BY <1>0, <2>1, ContainsIs DEF Messages
  <2> QED
    BY <1>1, <2>1, <2>2, <2>3 DEF Phases
<1>5. CASE RingClose
  <2>1. /\ fpc = "close" /\ queue' = <<>> /\ rbstate' = "closed" /\ fpc' = "idle"
        /\ cstate' # "ready" /\ rpc' = rpc
    BY <1>5 DEF RingClose, reader
  <2>2. rpc \in {"idle", "abort"}
    BY <2>1 DEF Phases
  <2>3. ~Contains(queue', "close")
    BY <2>1 DEF Contains
  <2> QED
    BY <2>1, <2>2, <2>3 DEF Phases
<1> QED
  BY <1>2, <1>3, <1>4, <1>5 DEF WorkerStep

\* A key command does not make the stream ready.
LEMMA KeyIs ==
  ASSUME KeyStep
  PROVE  /\ UNCHANGED <<rbstate, rdPtr, store, csaPtr, csarb, plain, queue, mode,
                        reader, worker, given>>
         /\ cstate' = "ready" => cstate = "ready"
         /\ "busy" \notin Moments =>
              rbstate = "closed" \/ (rpc = "idle" /\ fpc = "idle")
BY DEF KeyStep, KeyCommand, AddPid, SetKeys, ClosePid, Invalidate, OtherIndex

LEMMA KeyPhases ==
  ASSUME Phases, KeyStep
  PROVE  Phases'
BY KeyIs DEF Phases, reader, worker

-----------------------------------------------------------------------------
(* The descrambler's pointer, for streams whose keys stay during a read and *)
(* whose fills end between packets.                                         *)

CsaPart == BetweenPackets /\ CsaBetween /\ HasStretch /\ TakesProcessed

LEMMA PlacesAre ==
  ASSUME RingInv
  PROVE  /\ rdPtr \in 0 .. Size /\ wrPtr \in 0 .. Size - 1 /\ csaPtr \in 0 .. Size
         /\ Unread = Room(rdPtr, wrPtr)
         /\ Processed(csaPtr) = Passed(rdPtr, csaPtr)
         /\ Between(csaPtr) <=> Inside(rdPtr, wrPtr, csaPtr)
         /\ Between(csaPtr) <=> Processed(csaPtr) <= Unread
         /\ Unread \in Nat /\ Processed(csaPtr) \in 0 .. Size
<1>1. TypeOK
  BY DEF RingInv
<1>2. rdPtr \in 0 .. Size /\ wrPtr \in 0 .. Size - 1 /\ csaPtr \in 0 .. Size
  BY <1>1 DEF TypeOK
<1>3. Unread = Room(rdPtr, wrPtr) /\ Unread \in Nat
  BY <1>1, UnreadIs, Sizes DEF Room
<1> QED
  BY <1>1, <1>2, <1>3, ProcessedIs DEF Passed, Processed, Inside, Between

LEMMA PlacesWillBe ==
  ASSUME RingInv'
  PROVE  /\ rdPtr' \in 0 .. Size /\ wrPtr' \in 0 .. Size - 1
         /\ csaPtr' \in 0 .. Size
         /\ Unread' = Room(rdPtr', wrPtr')
         /\ Processed(csaPtr)' = Passed(rdPtr', csaPtr')
         /\ Between(csaPtr)' <=> Inside(rdPtr', wrPtr', csaPtr')
<1>1. /\ rdPtr' \in 0 .. Size /\ wrPtr' \in 0 .. Size - 1
      /\ csaPtr' \in 0 .. Size
  BY DEF RingInv, TypeOK
<1>2. Unread' = Room(rdPtr', wrPtr')
  BY <1>1, Distance DEF Unread, Room
<1> QED
  BY <1>1, <1>2 DEF Passed, Processed, Inside, Between

\* Fills, and what moves no pointer.
LEMMA CsaGrows ==
  ASSUME CsaInv, RingInv', ~Aborted, ~Aborted',
         UNCHANGED <<rdPtr, csa, worker>>, Unread <= Unread',
         wrPtr' % Packet = 0, rbstate' \in {rbstate, "closing"},
         rpc' \notin {"get", "get_again"}
  PROVE  CsaPart'
<1>1. /\ RingInv /\ CsaBetween /\ HasStretch /\ BetweenPackets
      /\ csaPtr' = csaPtr /\ cstate' = cstate /\ csarb' = csarb /\ rdPtr' = rdPtr
      /\ fpc' = fpc /\ bytes' = bytes /\ at' = at
  BY DEF CsaInv, csa, worker
<1>2. BetweenPackets'
  BY <1>1 DEF BetweenPackets
<1>3. PICK r \in 0 .. Size, w \in 0 .. Size - 1, c \in 0 .. Size,
           v \in 0 .. Size - 1 :
        r = rdPtr /\ w = wrPtr /\ c = csaPtr /\ v = wrPtr'
  BY <1>1, PlacesAre, PlacesWillBe
<1>4. Room(r, w) <= Room(r, v)
  BY <1>1, <1>3, PlacesAre, PlacesWillBe
<1>5. Inside(r, w, c) => Inside(r, v, c)
  BY <1>4, InsideIs
<1>6. CsaBetween'
  BY <1>1, <1>3, <1>5, PlacesAre, PlacesWillBe DEF CsaBetween
<1>7. HasStretch'
  <2>1. ASSUME bytes \in Nat, Passed(r, c) + bytes <= Room(r, w)
        PROVE  Passed(r, c) + bytes <= Room(r, v)
    BY <1>4, <2>1, InsideIs
  <2>2. bytes \in Nat
    BY <1>1 DEF RingInv, TypeOK
  <2>3. /\ Processed(csaPtr)' = Passed(r, c) /\ Processed(csaPtr) = Passed(r, c)
        /\ Unread' = Room(r, v) /\ Unread = Room(r, w)
    BY <1>1, <1>3, PlacesAre, PlacesWillBe
  <2> QED
    BY <1>1, <2>1, <2>2, <2>3 DEF HasStretch
<1>8. TakesProcessed'
  BY DEF TakesProcessed
<1> QED
  BY <1>2, <1>6, <1>7, <1>8 DEF CsaPart

\* A fill that ends between packets.
LEMMA StoreAligned ==
  ASSUME RingInv, BetweenPackets, "flood" \notin Faults, NEW n \in Int,
         NEW k \in Deliverable(n), Store(k)
  PROVE  wrPtr' % Packet = 0
<1>1. /\ k \in Nat /\ (wrPtr + k) % Packet = 0 /\ wrPtr \in Nat /\ Size \in Nat
  BY DeliverableIs, Sizes DEF Deliverable, RingInv, TypeOK
<1>2. PICK e \in Nat : e = wrPtr + k /\ Mod(e, Packet) = 0
  BY <1>1 DEF Mod
<1>3. wrPtr' = IF e >= Size THEN e - Size ELSE e
  <2>1. wrPtr' = IF wrPtr + k >= Size THEN wrPtr + k - Size ELSE wrPtr + k
    BY DEF Store
  <2>2. wrPtr + k - Size = e - Size
    BY <1>1, <1>2
  <2> QED
    BY <1>1, <1>2, <2>1, <2>2
<1>4. Mod(e - Size, Packet) = 0
  <2>1. e \in Int /\ Size \in Int
    BY <1>1, <1>2
  <2> QED
    BY ONLY <1>2, <2>1, WholePackets, Multiples
<1> QED
  BY <1>2, <1>3, <1>4 DEF Mod

LEMMA FillCsa ==
  ASSUME CsaInv, Calm, RingInv', ~Aborted, Fill \/ BlockRead
  PROVE  CsaPart'
<1>0. RingInv /\ BetweenPackets /\ TypeOK /\ StreamInOrder /\ "flood" \notin Faults
      /\ MaxFree \in Int /\ Unread \in Nat
  BY PlacesAre, RoomIs DEF CsaInv, RingInv, Calm
<1>1. /\ UNCHANGED <<rdPtr, csa, worker, rbstate, given>>
      /\ rpc' \in Readers \ {"get", "get_again", "abort"}
  BY DEF Fill, BlockRead, Readers
<1>2. ~Aborted'
  BY <1>1 DEF Aborted, worker
<1>3. wrPtr' % Packet = 0 /\ Unread <= Unread'
  <2>1. CASE UNCHANGED store
    BY <1>0, <1>1, <2>1, StreamStays DEF BetweenPackets, store
  <2>2. ASSUME NEW n \in Int, n <= MaxFree, NEW k \in Deliverable(n), Store(k)
        PROVE  wrPtr' % Packet = 0 /\ Unread <= Unread'
    <3>1. k \in Nat /\ 0 < k /\ k <= n
      BY DeliverableIs
    <3>2. k <= MaxFree
      BY <1>0, <2>2, <3>1
    <3>3. Unread' = Unread + k
      BY <1>0, <1>1, <2>2, <3>1, <3>2, StoreFills
    <3> QED
      BY <1>0, <2>2, <3>1, <3>3, StoreAligned
  <2>3. PICK n \in Int : n = MaxFree - (MaxFree % Packet) /\ n <= MaxFree
    <3>1. Mod(MaxFree, Packet) \in 0 .. Packet - 1
      BY <1>0, Sizes, ModIn
    <3>2. PICK m \in Nat : m = Mod(MaxFree, Packet)
      BY <3>1, Sizes
    <3> QED
      BY <1>0, <3>2 DEF Mod
  <2>4. CASE Fill
    <3>1. CASE \E k \in Deliverable(MaxFree - (MaxFree % Packet)) : Store(k)
      BY <2>2, <2>3, <3>1
    <3> QED
      BY <2>1, <2>4, <3>1 DEF Fill
  <2>5. CASE BlockRead
    BY <1>0, <2>2, <2>5 DEF BlockRead
  <2> QED
    BY <2>4, <2>5
<1> QED
  BY <1>1, <1>2, <1>3, CsaGrows

LEMMA OtherReaderCsa ==
  ASSUME CsaInv, RingInv', ~Aborted,
         Choose \/ BlockEnd \/ BlockAbort \/ CloseCall \/ PollCall \/ ReadCall
  PROVE  CsaPart'
<1>0. BetweenPackets /\ StreamInOrder /\ RingInv
  BY DEF CsaInv, RingInv
<1>1. /\ UNCHANGED <<rdPtr, store, csa, worker, given>>
      /\ rbstate' \in {rbstate, "closing"}
  BY DEF Choose, BlockEnd, BlockAbort, CloseCall, PollCall, ReadCall
<1>2. rpc' \notin {"get", "get_again", "abort"}
  BY DEF Choose, BlockEnd, BlockAbort, CloseCall, PollCall, ReadCall, Reads,
         AfterBlock, reader
<1>3. ~Aborted'
  BY <1>1, <1>2 DEF Aborted, worker
<1>4. wrPtr' % Packet = 0 /\ Unread <= Unread'
  BY <1>0, <1>1, StreamStays, PlacesAre DEF BetweenPackets, store
<1> QED
  BY <1>1, <1>2, <1>3, <1>4, CsaGrows

\* What moves no pointer of the buffer, and gives the descrambler no more work.
LEMMA CsaStays ==
  ASSUME CsaInv, ~Aborted, UNCHANGED <<rdPtr, store, csaPtr, csarb>>,
         rbstate' = rbstate, cstate' = "ready" => cstate = "ready"
  PROVE  /\ BetweenPackets' /\ CsaBetween'
         /\ cstate' = "ready" => csarb'
         /\ Unread' = Unread /\ Processed(csaPtr)' = Processed(csaPtr)
BY DEF CsaInv, BetweenPackets, CsaBetween, HasStretch, Between, store, Unread,
       Processed

LEMMA KeyCsa ==
  ASSUME CsaInv, Calm, ~Aborted, KeyStep
  PROVE  CsaPart'
<1>1. /\ UNCHANGED <<rbstate, rdPtr, store, csaPtr, csarb, reader, worker>>
      /\ cstate' = "ready" => cstate = "ready"
      /\ rbstate = "closed" \/ (rpc = "idle" /\ fpc = "idle")
  BY KeyIs DEF Calm
<1>2. rpc \in {"idle", "abort"} /\ fpc = "idle"
  BY <1>1 DEF CsaInv, Phases
<1>3. BetweenPackets' /\ CsaBetween' /\ (cstate' = "ready" => csarb')
  BY <1>1, CsaStays
<1> QED
  BY <1>1, <1>2, <1>3 DEF CsaPart, HasStretch, TakesProcessed, reader, worker

LEMMA OpenCsa ==
  ASSUME CsaInv, OpenCall
  PROVE  CsaPart'
<1>1. /\ rpc' = "idle" /\ fpc' = fpc /\ cstate' = cstate /\ wrPtr' = 0
      /\ csaPtr' = csaPtr /\ rbstate = "closed"
  BY DEF OpenCall, reader, worker, csa
<1>2. fpc = "idle" /\ cstate # "ready"
  BY <1>1 DEF CsaInv, Phases
<1>3. BetweenPackets'
  BY <1>1, WholePackets DEF CsaInv, BetweenPackets, Mod
<1> QED
  BY <1>1, <1>2, <1>3 DEF CsaPart, CsaBetween, HasStretch, TakesProcessed

LEMMA TakeCsa ==
  ASSUME CsaInv, ~Aborted, Take
  PROVE  CsaPart'
<1>1. /\ UNCHANGED <<rbstate, rdPtr, store, csa, mapped, reader>>
      /\ fpc' = Head(queue) /\ queue # <<>>
  BY DEF Take
<1>2. fpc' \in {"buf", "close"}
  BY <1>1, TakeIs DEF CsaInv, RingInv, TypeOK, Messages
<1>3. /\ BetweenPackets' /\ CsaBetween' /\ (cstate' = "ready" => csarb')
      /\ Processed(csaPtr)' = Processed(csaPtr)
  BY <1>1, CsaStays DEF csa
<1>4. TakesProcessed'
  BY <1>1, <1>3 DEF CsaInv, TakesProcessed, reader, csa
<1> QED
  BY <1>2, <1>3, <1>4 DEF CsaPart, HasStretch

LEMMA CallCsa ==
  ASSUME CsaInv, ~Aborted, Call
  PROVE  CsaPart'
<1>1. /\ UNCHANGED <<rbstate, rdPtr, store, csa, mapped, reader>>
      /\ fpc = "call" /\ fpc' = "work" /\ at' = csaPtr /\ bytes' = bytes
  BY DEF Call
<1>2. /\ BetweenPackets' /\ CsaBetween' /\ (cstate' = "ready" => csarb')
      /\ Processed(csaPtr)' = Processed(csaPtr) /\ Unread' = Unread
  BY <1>1, CsaStays DEF csa
<1>3. TakesProcessed'
  BY <1>1, <1>2 DEF CsaInv, TakesProcessed, reader, csa
<1>4. HasStretch'
  BY <1>1, <1>2 DEF CsaInv, HasStretch, csa
<1> QED
  BY <1>2, <1>3, <1>4 DEF CsaPart

LEMMA RingCloseCsa ==
  ASSUME CsaInv, RingClose
  PROVE  CsaPart'
<1>1. /\ fpc = "close" /\ fpc' = "idle" /\ cstate' # "ready" /\ rpc' = rpc
      /\ UNCHANGED <<wrPtr, csaPtr>>
  BY DEF RingClose, reader, store
<1>2. rpc \in {"idle", "abort"}
  BY <1>1 DEF CsaInv, Phases
<1> QED
  BY <1>1, <1>2 DEF CsaInv, CsaPart, BetweenPackets, CsaBetween, HasStretch,
                    TakesProcessed

\* The reader takes bytes the descrambler has passed.
LEMMA GetCsa ==
  ASSUME CsaInv, RingInv', ~Aborted, GetBytes
  PROVE  CsaPart'
<1>0. /\ RingInv /\ TypeOK /\ StreamInOrder /\ TakesUnread /\ Unread \in Nat
      /\ want \in Nat /\ avail \in Int /\ csaPtr \in 0 .. Size
      /\ Processed(csaPtr) \in 0 .. Size /\ mode \in {"block", "nonblock"}
  BY PlacesAre DEF CsaInv, RingInv, TypeOK
<1>1. rbstate = "open" /\ rpc \in {"get", "get_again"}
  BY DEF GetBytes, CsaInv, Phases
<1>2. PICK n \in 0 .. Unread : Get(n) /\ (cstate = "ready" => n <= Processed(csaPtr))
  <2>1. CASE rpc = "get" /\ mode = "nonblock" /\ Get(Lesser(avail, want))
    <3>1. Lesser(avail, want) \in 0 .. Unread
      BY <1>0, <2>1 DEF TakesUnread, Lesser
    <3>2. cstate = "ready" => Lesser(avail, want) <= Processed(csaPtr)
      BY <1>0, <2>1 DEF CsaInv, TakesProcessed, Lesser
    <3> QED
      BY <2>1, <3>1, <3>2
  <2>2. CASE rpc = "get" /\ mode = "block" /\ Get(want)
    <3>1. want \in 0 .. Unread
      BY <1>0, <2>2 DEF TakesUnread
    <3>2. cstate = "ready" => want <= Processed(csaPtr)
      BY <1>0, <2>2 DEF CsaInv, TakesProcessed, TakesUnread
    <3> QED
      BY <2>2, <3>1, <3>2
  <2>3. CASE rpc = "get_again" /\ Get(want)
    <3>1. want \in 0 .. Unread
      BY <1>0, <2>3 DEF TakesUnread
    <3>2. cstate = "ready" => want <= Processed(csaPtr)
      BY <1>0, <2>3 DEF CsaInv, TakesProcessed
    <3> QED
      BY <2>3, <3>1, <3>2
  <2> QED
    BY <2>1, <2>2, <2>3 DEF GetBytes
<1>3. Unread' = Unread - n
  BY <1>0, <1>2, GetTakes
<1>4. /\ UNCHANGED <<rbstate, store, csa, mapped, worker>>
      /\ rdPtr' = IF rdPtr + n > Size THEN rdPtr + n - Size ELSE rdPtr + n
  BY <1>2 DEF Get
<1>5. rpc' \in {"fill", "block", "idle"}
  BY DEF GetBytes
<1>6. BetweenPackets' /\ TakesProcessed'
  BY <1>4, <1>5 DEF CsaInv, BetweenPackets, TakesProcessed, store, csa
<1>7. CASE cstate = "ready"
  <2>1. /\ csarb /\ Between(csaPtr) /\ HasStretch
    BY <1>1, <1>7 DEF CsaInv, HasStretch, CsaBetween
  <2>2. PICK r \in 0 .. Size, c \in 0 .. Size, w \in 0 .. Size - 1,
             s \in 0 .. Size :
          /\ r = rdPtr /\ c = csaPtr /\ w = wrPtr /\ s = rdPtr'
    BY <1>0, PlacesAre, PlacesWillBe
  <2>3. n \in 0 .. Passed(r, c)
    <3>1. Processed(csaPtr) = Passed(r, c)
      BY <1>0, <2>2, PlacesAre
    <3> QED
      BY <1>0, <1>2, <1>7, <3>1, InsideIs
  <2>4. s = IF r + n > Size THEN r + n - Size ELSE r + n
    BY <1>4, <2>2
  <2>5. Passed(s, c) = Passed(r, c) - n
    BY <2>3, <2>4, ReaderMoves
  <2>6. wrPtr' = w /\ csaPtr' = c
    BY <1>4, <2>2 DEF store, csa
  <2>7. /\ Processed(csaPtr)' = Passed(s, c) /\ Processed(csaPtr) = Passed(r, c)
        /\ Unread' = Room(s, w) /\ Unread = Room(r, w)
        /\ Between(csaPtr)' <=> Inside(s, w, c)
        /\ Passed(r, c) <= Room(r, w)
    BY <1>0, <2>1, <2>2, <2>6, PlacesAre, PlacesWillBe
  <2>8. Room(s, w) = Room(r, w) - n
    BY <1>3, <2>7
  <2>9. Inside(s, w, c)
    BY <2>3, <2>5, <2>7, <2>8, InsideIs
  <2>10. CsaBetween'
    BY <2>7, <2>9 DEF CsaBetween
  <2>11. HasStretch'
    <3>1. ASSUME bytes \in Nat, Passed(r, c) + bytes <= Room(r, w)
          PROVE  Passed(s, c) + bytes <= Room(s, w)
      BY <2>3, <2>5, <2>8, <3>1, InsideIs
    <3>2. bytes \in Nat
      BY <1>0 DEF TypeOK
    <3>3. /\ fpc' = fpc /\ bytes' = bytes /\ at' = at /\ cstate' = cstate
          /\ csarb' = csarb /\ csaPtr' = csaPtr /\ rbstate' = rbstate
      BY <1>4 DEF worker, csa
    <3> QED
      BY <2>1, <2>7, <3>1, <3>2, <3>3 DEF HasStretch
  <2> QED
    BY <1>6, <2>10, <2>11 DEF CsaPart
<1>8. CASE cstate # "ready"
  <2>1. cstate' # "ready" /\ fpc' = fpc
    BY <1>4, <1>8 DEF csa, worker
  <2>2. fpc \notin {"call", "work"}
    BY <1>8 DEF CsaInv, HasStretch
  <2> QED
    BY <1>6, <2>1, <2>2 DEF CsaPart, CsaBetween, HasStretch
<1> QED
  BY <1>7, <1>8

\* The first look at an encrypted stream puts the pointer at a whole packet
\* that is unread, a later look moves nothing.
LEMMA CheckStateCsa ==
  ASSUME CsaInv, ~Aborted, RingInv', Encrypted, CheckState,
         UNCHANGED <<rbstate, rdPtr, store>>
  PROVE  /\ cstate' = "ready" /\ (rbstate = "open" => csarb')
         /\ BetweenPackets' /\ CsaBetween' /\ Unread' = Unread
         /\ fpc \in {"call", "work"} => UNCHANGED csa
         /\ cstate = "ready" =>
              UNCHANGED csa /\ csarb /\ Processed(csaPtr)' = Processed(csaPtr)
<1>0. RingInv /\ TypeOK /\ BetweenPackets /\ Mod(wrPtr, Packet) = 0
  BY DEF CsaInv, RingInv, BetweenPackets, Mod
<1>1. CASE cstate = "ready"
  <2>1. UNCHANGED csa /\ csarb
    BY <1>1 DEF CheckState, CsaInv, HasStretch
  <2>2. /\ BetweenPackets' /\ CsaBetween' /\ Unread' = Unread
        /\ Processed(csaPtr)' = Processed(csaPtr)
    BY <2>1, CsaStays DEF csa
  <2> QED
    BY <1>1, <2>1, <2>2 DEF csa
<1>2. CASE cstate = "not_ready" /\ mapped
  <2>1. /\ cstate' = "ready"
        /\ rbstate = "open" => csarb' = TRUE /\ csaPtr' = Aligned
        /\ rbstate # "open" => csaPtr' = csaPtr
    BY <1>2 DEF CheckState
  <2>2. fpc \notin {"call", "work"}
    BY <1>2 DEF CsaInv, HasStretch
  <2>3. Unread' = Unread /\ wrPtr' = wrPtr /\ rdPtr' = rdPtr
    BY DEF Unread, store
  <2>4. CASE rbstate = "open"
    <3>1. /\ Aligned \in 0 .. Size /\ Mod(Aligned, Packet) = 0
          /\ Inside(rdPtr, wrPtr, Aligned)
      BY <1>0, AlignedInside
    <3>2. BetweenPackets'
      BY <1>0, <2>1, <2>3, <2>4, <3>1 DEF BetweenPackets, Mod
    <3>3. CsaBetween'
      BY <2>1, <2>3, <2>4, <3>1, PlacesWillBe DEF CsaBetween
    <3> QED
      BY <1>2, <2>1, <2>2, <2>3, <2>4, <3>2, <3>3
  <2>5. CASE rbstate # "open"
    <3>1. BetweenPackets' /\ CsaBetween'
      BY <1>0, <2>1, <2>3, <2>5 DEF BetweenPackets, CsaBetween
    <3> QED
      BY <1>2, <2>1, <2>2, <2>3, <2>5, <3>1
  <2> QED
    BY <2>4, <2>5
<1> QED
  BY <1>1, <1>2 DEF Encrypted

LEMMA AvailCsa ==
  ASSUME CsaInv, RingInv', ~Aborted, Avail
  PROVE  CsaPart'
<1>0. /\ RingInv /\ TypeOK /\ HasStretch /\ BetweenPackets /\ RawAvail \in Int
      /\ want \in Nat
  BY RawAvailIs DEF CsaInv, RingInv, TypeOK
<1>1. /\ UNCHANGED <<rbstate, rdPtr, store, mapped, mode, want, worker>>
      /\ rpc \in AvailPlaces
  BY DEF Avail, AvailPlaces
<1>2. rbstate = "open" /\ (rpc # "avail_poll" => 0 < want)
  BY <1>1 DEF CsaInv, Phases, AvailPlaces
<1>3. CASE RawAvail # 0 /\ RawAvail >= Need /\ Encrypted
  <2>1. CheckState
    BY <1>3 DEF Avail
  <2>2. /\ cstate' = "ready" /\ csarb' /\ BetweenPackets' /\ CsaBetween'
        /\ Unread' = Unread
        /\ fpc \in {"call", "work"} => UNCHANGED csa
        /\ cstate = "ready" => Processed(csaPtr)' = Processed(csaPtr)
    BY <1>1, <1>2, <1>3, <2>1, CheckStateCsa
  <2>3. HasStretch'
    BY <1>0, <1>1, <2>2 DEF HasStretch, worker, csa
  <2>4. Between(csaPtr') /\ Processed(csaPtr)' = Processed(csaPtr')
    BY <1>1, <1>2, <2>2 DEF CsaBetween, Between, Processed, store
  <2>5. PICK n \in 0 .. Size : n = Processed(csaPtr')
    BY <1>0, ProcessedIs DEF TypeOK, RingInv
  <2>6. /\ avail' = IF rpc = "avail" THEN n ELSE 0
        /\ rpc' = IF n < Need THEN "wait" ELSE AfterAvail(n)
    BY <1>3, <2>2, <2>4, <2>5 DEF Avail
  <2>7. rpc' = "get" => avail' = n
    BY <1>0, <1>1, <2>5, <2>6, AfterAvailIs
  <2>8. rpc' = "get_again" => want <= n
    BY <1>0, <1>1, <2>5, <2>6, AfterAvailIs
  <2>9. TakesProcessed'
    BY <1>1, <2>2, <2>4, <2>5, <2>7, <2>8 DEF TakesProcessed
  <2> QED
    BY <2>2, <2>3, <2>9 DEF CsaPart
<1>4. CASE ~(RawAvail # 0 /\ RawAvail >= Need /\ Encrypted)
  <2>1. rpc' = AfterAvail(RawAvail) /\ UNCHANGED csa
    BY <1>4 DEF Avail
  <2>2. ~Aborted'
    BY <1>0, <1>1, <2>1, AfterAvailIs DEF Aborted, worker
  <2>3. /\ BetweenPackets' /\ CsaBetween' /\ (cstate' = "ready" => csarb')
        /\ Unread' = Unread /\ Processed(csaPtr)' = Processed(csaPtr)
    BY <1>1, <2>1, CsaStays DEF csa
  <2>4. HasStretch'
    BY <1>0, <1>1, <2>1, <2>3 DEF HasStretch, worker, csa
  <2>5. ASSUME rpc' \in {"get", "get_again"}
        PROVE  ~Encrypted
    <3>1. /\ AfterAvail(RawAvail) = "get" => rpc = "avail" /\ 0 < RawAvail
          /\ AfterAvail(RawAvail) = "get_again" =>
               rpc = "avail_again" /\ want <= RawAvail
      BY <1>0, <1>1, AfterAvailIs
    <3>2. 0 < RawAvail /\ rpc # "avail_need"
      BY <1>0, <1>2, <2>1, <2>5, <3>1
    <3>3. Need = 0
      BY <3>2 DEF Need
    <3> QED
      BY <1>0, <1>4, <3>2, <3>3
  <2>6. TakesProcessed'
    BY <1>1, <2>1, <2>5 DEF TakesProcessed, Encrypted, csa
  <2> QED
    BY <2>3, <2>4, <2>6 DEF CsaPart
<1> QED
  BY <1>3, <1>4

LEMMA RingBufCsa ==
  ASSUME CsaInv, RingInv', ~Aborted, RingBuf
  PROVE  CsaPart'
<1>0. RingInv /\ TypeOK /\ HasStretch /\ BetweenPackets
  BY DEF CsaInv, RingInv
<1>1. /\ UNCHANGED <<rbstate, rdPtr, store, mapped, reader>>
      /\ fpc = "buf"
  BY DEF RingBuf
<1>2. CASE Encrypted
  <2>1. /\ CheckState /\ fpc' = IF csarb' THEN "call" ELSE "abort"
        /\ bytes' = IF csaPtr' > wrPtr THEN Size - csaPtr' ELSE wrPtr - csaPtr'
    BY <1>2 DEF RingBuf
  <2>2. /\ cstate' = "ready" /\ BetweenPackets' /\ CsaBetween'
        /\ Unread' = Unread
        /\ cstate = "ready" => /\ UNCHANGED csa
                               /\ Processed(csaPtr)' = Processed(csaPtr)
    BY <1>1, <1>2, <2>1, CheckStateCsa
  <2>3. TakesProcessed'
    <3>1. CASE cstate = "ready"
      BY <1>1, <2>2, <3>1 DEF CsaInv, TakesProcessed, reader, csa
    <3>2. CASE cstate # "ready"
      BY <1>1, <1>2, <3>2 DEF CsaInv, TakesProcessed, Encrypted, reader
    <3> QED
      BY <3>1, <3>2
  <2>4. PICK r \in 0 .. Size, w \in 0 .. Size - 1, c \in 0 .. Size,
             b \in 0 .. Size :
          r = rdPtr /\ w = wrPtr /\ c = csaPtr' /\ b = bytes'
    BY <1>0 DEF RingInv, TypeOK
  <2>5. b = IF c > w THEN Size - c ELSE w - c
    BY <2>1, <2>4
  <2>6. Mod(b, Packet) = 0 /\ c + b <= Size
    <3>1. Mod(w, Packet) = 0 /\ Mod(c, Packet) = 0
      BY <1>0, <2>2, <2>4 DEF BetweenPackets, Mod
    <3>2. w \in Int /\ c \in Int /\ Size \in Int
      BY Sizes
    <3>3. Mod(Size - c, Packet) = 0 /\ Mod(w - c, Packet) = 0
      BY <3>1, <3>2, WholePackets, Multiples
    <3> QED
      BY <2>5, <3>2, <3>3
  <2>7. rbstate = "open" /\ csarb' =>
          Processed(csaPtr)' + bytes' <= Unread'
    <3>1. SUFFICES ASSUME rbstate = "open", csarb'
                   PROVE  Processed(csaPtr)' + bytes' <= Unread'
      OBVIOUS
    <3>2. /\ Processed(csaPtr)' = Passed(r, c) /\ Unread' = Room(r, w)
          /\ Inside(r, w, c)
      BY <1>1, <2>2, <2>4, <3>1, PlacesWillBe DEF CsaBetween, store
    <3>3. Passed(r, c) + b <= Room(r, w)
      BY <2>5, <3>2, StretchIs
    <3> QED
      BY <2>4, <3>2, <3>3
  <2>8. HasStretch'
    BY <1>1, <2>1, <2>2, <2>4, <2>6, <2>7 DEF HasStretch, Aborted, Mod
  <2> QED
    BY <2>2, <2>3, <2>8 DEF CsaPart
<1>3. CASE ~Encrypted
  <2>1. fpc' = "idle" /\ UNCHANGED csa
    BY <1>3 DEF RingBuf
  <2>2. /\ BetweenPackets' /\ CsaBetween' /\ (cstate' = "ready" => csarb')
        /\ Processed(csaPtr)' = Processed(csaPtr)
    BY <1>1, <2>1, CsaStays DEF csa
  <2>3. TakesProcessed'
    BY <1>1, <2>1, <2>2 DEF CsaInv, TakesProcessed, reader, csa
  <2> QED
    BY <2>1, <2>2, <2>3 DEF CsaPart, HasStretch
<1> QED
  BY <1>2, <1>3

\* The descrambler never advances past the part it was given, although a last
\* packet that ends behind it is counted whole.
LEMMA ReturnsAtMost ==
  ASSUME RingInv, bytes % Packet = 0, NEW ret \in Work
  PROVE  ret \in Nat /\ ret <= bytes /\ Mod(ret, Packet) = 0
<1>1. /\ bytes \in Nat /\ ret \in Nat /\ ret < bytes + Packet
      /\ Packet \in Nat \ {0}
  BY Sizes DEF Work, RingInv, TypeOK
<1>2. Mod(bytes, Packet) = 0 /\ Mod(ret, Packet) = 0
  BY DEF Mod, Work
<1>3. bytes < ret => bytes + Packet <= ret
  BY <1>1, <1>2, Multiples
<1> QED
  BY <1>1, <1>2, <1>3

LEMMA DoneCsa ==
  ASSUME CsaInv, RingInv', ~Aborted, Done
  PROVE  CsaPart'
<1>0. /\ RingInv /\ TypeOK /\ BetweenPackets /\ Processed(csaPtr) \in 0 .. Size
      /\ avail \in Int /\ want \in Nat /\ csaPtr \in Nat /\ bytes \in Nat
      /\ Size \in Nat
  <2>1. RingInv /\ TypeOK /\ BetweenPackets
    BY DEF CsaInv, RingInv
  <2>2. Processed(csaPtr) \in 0 .. Size
    BY <2>1, PlacesAre
  <2> QED
    BY <2>1, <2>2, Sizes DEF TypeOK
<1>1. /\ cstate = "ready" /\ csarb /\ bytes % Packet = 0
      /\ csaPtr + bytes <= Size
      /\ rbstate = "open" /\ bytes > 0 => Processed(csaPtr) + bytes <= Unread
  BY DEF Done, CsaInv, HasStretch
<1>2. PICK ret \in Work :
        IF csaPtr + ret > Size
        THEN fpc' = "abort"
        ELSE /\ csaPtr' = IF csaPtr + ret = Size THEN 0 ELSE csaPtr + ret
             /\ rpc' \in {rpc, "avail_again"}
             /\ fpc' = "idle"
  BY DEF Done
<1>3. ret \in Nat /\ ret <= bytes /\ Mod(ret, Packet) = 0
  BY <1>0, <1>1, ReturnsAtMost
<1>4. /\ csaPtr' = IF csaPtr + ret = Size THEN 0 ELSE csaPtr + ret
      /\ rpc' \in {rpc, "avail_again"} /\ fpc' = "idle"
  BY <1>0, <1>1, <1>2, <1>3
<1>5. UNCHANGED <<rbstate, rdPtr, store, cstate, csarb, mapped, want, avail>>
  BY DEF Done
<1>6. BetweenPackets'
  <2>1. PICK d \in Nat : d = csaPtr + ret
    BY <1>0, <1>3
  <2>2. Mod(csaPtr, Packet) = 0
    BY <1>0 DEF BetweenPackets, Mod
  <2>3. Mod(d, Packet) = 0
    BY <1>0, <1>3, <2>1, <2>2, WholePackets, Multiples
  <2>4. csaPtr' = IF d = Size THEN 0 ELSE d
    BY <1>4, <2>1
  <2> QED
    BY <1>0, <1>5, <2>3, <2>4, WholePackets DEF BetweenPackets, store, Mod
<1>7. HasStretch'
  BY <1>1, <1>4, <1>5 DEF HasStretch
<1>8. CASE rbstate = "open"
  <2>1. PICK r \in 0 .. Size, w \in 0 .. Size - 1, c \in 0 .. Size,
             d \in 0 .. Size :
          r = rdPtr /\ w = wrPtr /\ c = csaPtr /\ d = csaPtr'
    BY <1>0 DEF RingInv, TypeOK
  <2>2. /\ Processed(csaPtr) = Passed(r, c) /\ Unread = Room(r, w)
        /\ Passed(r, c) <= Room(r, w)
    BY <1>0, <1>1, <1>8, <2>1, PlacesAre DEF CsaInv, CsaBetween
  <2>3. Passed(r, c) + ret <= Room(r, w)
    <3>1. Passed(r, c) \in Nat /\ Room(r, w) \in Nat
      BY InsideIs
    <3>2. CASE bytes = 0
      BY <1>3, <2>2, <3>1, <3>2
    <3>3. CASE bytes > 0
      <4>1. Passed(r, c) + bytes <= Room(r, w)
        BY <1>1, <1>8, <2>2, <3>3
      <4> QED
        BY <1>0, <1>3, <3>1, <4>1
    <3> QED
      BY <1>0, <3>2, <3>3
  <2>4. d = IF c + ret = Size THEN 0 ELSE c + ret
    BY <1>4, <2>1
  <2>5. c + ret <= Size
    BY <1>0, <1>1, <1>3, <2>1
  <2>6. Passed(r, d) = Passed(r, c) + ret
    BY <1>3, <2>3, <2>4, <2>5, DescramblerMoves
  <2>7. /\ Processed(csaPtr)' = Passed(r, d)
        /\ Between(csaPtr)' <=> Inside(r, w, d)
    BY <1>5, <2>1, PlacesWillBe DEF store
  <2>8. CsaBetween'
    BY <2>3, <2>6, <2>7, InsideIs DEF CsaBetween
  <2>9. PICK p \in Nat, q \in Nat :
          p = Processed(csaPtr) /\ q = Processed(csaPtr)' /\ p <= q
    <3>1. Passed(r, c) \in Nat
      BY InsideIs
    <3> QED
      BY <1>3, <2>2, <2>6, <2>7, <3>1
  <2>10. TakesProcessed'
    <3>1. ASSUME rpc' = "get" PROVE rpc = "get" /\ avail <= q
      BY <1>0, <1>1, <1>4, <2>9, <3>1 DEF CsaInv, TakesProcessed
    <3>2. ASSUME rpc' = "get_again" PROVE rpc = "get_again" /\ want <= q
      BY <1>0, <1>1, <1>4, <2>9, <3>2 DEF CsaInv, TakesProcessed
    <3> QED
      BY <1>1, <1>5, <2>9, <3>1, <3>2 DEF TakesProcessed
  <2> QED
    BY <1>6, <1>7, <2>8, <2>10 DEF CsaPart
<1>9. CASE rbstate # "open"
  <2>1. rpc' \notin {"get", "get_again"}
    BY <1>4, <1>9 DEF CsaInv, Phases
  <2> QED
    BY <1>5, <1>6, <1>7, <1>9, <2>1 DEF CsaPart, CsaBetween, TakesProcessed
<1> QED
  BY <1>8, <1>9

LEMMA CsaInit == Init => CsaInv
<1> SUFFICES ASSUME Init PROVE CsaInv
  OBVIOUS
<1>1. RingInv
  BY RingInit
<1>2. BetweenPackets
  BY WholePackets DEF Init, BetweenPackets, Mod
<1>3. Phases
  BY DEF Init, Phases, Contains
<1>4. CsaBetween /\ HasStretch /\ TakesProcessed
  BY DEF Init, CsaBetween, HasStretch, TakesProcessed
<1> QED
  BY <1>1, <1>2, <1>3, <1>4 DEF CsaInv

LEMMA CsaNext ==
  ASSUME Calm, CsaInv, [Next]_vars
  PROVE  CsaInv'
<1>0. RingInv /\ RingInv' /\ Phases
  BY RingNext DEF CsaInv
<1>1. CASE ~Aborted /\ ReaderStep
  <2>1. Phases'
    BY <1>0, <1>1, ReaderPhases
  <2>2. CsaPart'
    BY <1>0, <1>1, FillCsa, AvailCsa, GetCsa, OtherReaderCsa DEF ReaderStep
  <2> QED
    BY <1>0, <2>1, <2>2 DEF CsaInv, CsaPart
<1>2. CASE ~Aborted /\ WorkerStep
  <2>1. Phases'
    BY <1>0, <1>2, WorkerPhases
  <2>2. CsaPart'
    BY <1>0, <1>2, TakeCsa, RingBufCsa, CallCsa, DoneCsa, RingCloseCsa
       DEF WorkerStep
  <2> QED
    BY <1>0, <2>1, <2>2 DEF CsaInv, CsaPart
<1>3. CASE ~Aborted /\ KeyStep
  <2>1. Phases' /\ CsaPart'
    BY <1>0, <1>3, KeyPhases, KeyCsa
  <2> QED
    BY <1>0, <2>1 DEF CsaInv, CsaPart
<1>4. CASE ~Aborted /\ AppStep
  <2>1. Phases'
    BY <1>0, <1>4, AppPhases
  <2>2. CsaPart'
    BY <1>0, <1>4, OpenCsa, OtherReaderCsa DEF AppStep
  <2> QED
    BY <1>0, <2>1, <2>2 DEF CsaInv, CsaPart
<1>5. CASE UNCHANGED vars
  <2>1. /\ Phases' /\ BetweenPackets' /\ CsaBetween'
        /\ Unread' = Unread /\ Processed(csaPtr)' = Processed(csaPtr)
        /\ UNCHANGED <<csaPtr, cstate, csarb, mapped, fpc, bytes, at, rbstate,
                       rpc, want, avail>>
    BY <1>5 DEF vars, store, csa, reader, worker, CsaInv, Phases,
       BetweenPackets, CsaBetween, Between, Unread, Processed
  <2>2. HasStretch' /\ TakesProcessed'
    BY <2>1 DEF CsaInv, HasStretch, TakesProcessed, Aborted
  <2> QED
    BY <1>0, <2>1, <2>2 DEF CsaInv
<1> QED
  BY <1>1, <1>2, <1>3, <1>4, <1>5 DEF Next

\* The assertions on csaPtr hold: it lies between reader and writer, when keys
\* do not change during a read and fills end between packets.
THEOREM CsaStaysBetween ==
  ASSUME Calm
  PROVE  Spec => []CsaBetween
<1>1. Init => CsaInv
  BY CsaInit
<1>2. CsaInv /\ [Next]_vars => CsaInv'
  BY CsaNext
<1>3. CsaInv => CsaBetween
  BY DEF CsaInv
<1> QED
  BY <1>1, <1>2, <1>3, PTL DEF Spec

\* What the descrambler writes to, outside all locks, is neither filled nor
\* given away meanwhile, under the same conditions.
THEOREM DescramblesUnread ==
  ASSUME Calm
  PROVE  Spec => []WorksOnUnread
<1>1. Init => CsaInv
  BY CsaInit
<1>2. CsaInv /\ [Next]_vars => CsaInv'
  BY CsaNext
<1>3. CsaInv => WorksOnUnread
  <2> SUFFICES ASSUME CsaInv, fpc = "work", rbstate = "open", bytes # 0
               PROVE  /\ Between(at) /\ at < Size
                      /\ Processed(at) + bytes <= Unread
    BY DEF WorksOnUnread
  <2>1. bytes \in Nat /\ bytes > 0 /\ csaPtr \in Nat /\ Size \in Nat
    BY Sizes DEF CsaInv, RingInv, TypeOK
  <2>2. /\ cstate = "ready" /\ csarb /\ at = csaPtr /\ csaPtr + bytes <= Size
        /\ Processed(csaPtr) + bytes <= Unread
    BY <2>1 DEF CsaInv, HasStretch
  <2>3. Between(csaPtr)
    BY <2>2 DEF CsaInv, CsaBetween
  <2> QED
    BY <2>1, <2>2, <2>3
<1> QED
  BY <1>1, <1>2, <1>3, PTL DEF Spec
=============================================================================
