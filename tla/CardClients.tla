----------------------------- MODULE CardClients ------------------------------
(***************************************************************************)
(* Card servers asked over the network (sc/PLUGINS/src/systems/cardclient: *)
(* cc.c, camd.c, newcamd.c, radegast.c, gbox.c).  Every ECM handler has a  *)
(* system, which asks one client after the other; the clients and their    *)
(* caches of messages are shared.                                          *)
(*                                                                         *)
(* A Camd33 or Camd35 client gives its mutex up while it waits for the     *)
(* answer and keeps others out with "exclusive"; the others hold the mutex *)
(* throughout.  Camd35 and Newcamd number their requests.                  *)
(***************************************************************************)
EXTENDS MsgCache

CONSTANTS Systems,    \* systems of ECM handlers, each with its thread
          NumClients, \* clients in the order of cardclient.conf
          Kind,       \* the protocol of a client
          Ecms,
          Caid,       \* the system id of an ECM
          Configured, \* the system ids a client has in its configuration
          Announced,  \* what a server may announce for a client: sets of system ids
          ServerDown, \* the clients whose server cannot be reached at the start
          OldServers, \* the Newcamd servers that speak the old protocol (520)
          MaxNum,     \* bound: requests sent by one client
          MaxFail     \* cMsgCache::maxFail, 2 unless set

VARIABLES sys,   \* system -> where its ProcessECM is
          con,   \* client -> connection and session
          cache, \* client -> msECM
          sent   \* client -> requests that the server may still answer

vars == <<sys, con, cache, sent>>

NoClient == 0
Clients == 1..NumClients

Shared(c) == Kind[c] \in {"Camd33", "Camd35"}
Numbered(c) == Kind[c] \in {"Camd35", "Newcamd"}
\* A blocking read that times out ends in Logout.
Reconnects(c) == Kind[c] \in {"Newcamd", "Radegast"}
\* No late answer can be taken for the one that is waited for.
Trusted(c) == Numbered(c) \/ Reconnects(c)
\* CAIDs are learnt from the server, in Login or later.
Learns(c) == Kind[c] \in {"Camd33", "Newcamd", "Radegast", "Buffy"}

CanHandle(c, id) ==
  CASE Kind[c] = "Buffy"    -> id \in con[c].caids
    [] Kind[c] = "Radegast" -> id \in IF con[c].caids = {} THEN Configured[c]
                                      ELSE con[c].caids
    [] OTHER                -> id \in con[c].caids \cup Configured[c]

\* FindBySysId: the next client after c that can handle id, or none.
FindBySysId(id, c) ==
  LET after == {n \in Clients : n > c /\ CanHandle(n, id)}
  IN IF after = {} THEN NoClient ELSE CHOOSE n \in after : \A k \in after : n <= k

Disconnected(r) == [r EXCEPT !.up = FALSE, !.auth = FALSE]

\* What a connected client knows when it sends: HandleEMMRequest of Camd33 may
\* have got the announcement of another card while it flushed.
Heard(c) ==
  {con[c]} \cup IF Kind[c] = "Camd33" THEN {[con[c] EXCEPT !.caids = a] : a \in Announced[c]}
               ELSE {}

\* Login of a client by its protocol.  A Newcamd login that is refused leaves
\* the socket connected; unless a login succeeded before, it falls back to
\* the old protocol and stays with it.
LoggedIn(c) ==
  LET r == con[c]
      base == [r EXCEPT !.up = TRUE, !.auth = TRUE, !.loginOK = TRUE,
                        !.old = @ \/ c \in OldServers]
  IN IF \/ r.old /\ c \notin OldServers
        \/ c \in OldServers /\ r.loginOK /\ ~r.old
     THEN {}
     ELSE IF ~Learns(c) THEN {base}
     ELSE {[base EXCEPT !.caids = IF Kind[c] = "Buffy" THEN @ \cup a ELSE a] :
             a \in Announced[c]}
LoginFailed(c) ==
  LET r == IF Kind[c] \in {"Newcamd", "Radegast"} THEN [con[c] EXCEPT !.caids = {}]
           ELSE con[c]
      old == [r EXCEPT !.old = @ \/ (Kind[c] = "Newcamd" /\ ~r.loginOK)]
  IN {Disconnected(old)} \cup
     IF Kind[c] = "Newcamd" THEN {[old EXCEPT !.up = TRUE, !.auth = FALSE]} ELSE {}

-----------------------------------------------------------------------------
IdleSystem == [at |-> "idle", ecm |-> NoMsg, caid |-> NoMsg, cc |-> NoClient, start |-> NoClient,
               id |-> 0, num |-> 0, cw |-> NoMsg, tried |-> {}]

\* ParseLinePlain logs a client in when it is read, if the server is there
\* and the client is Immediate (not Buffy, and Camd33 only with EMMs).
StartConnection(c) ==
  LET in == c \notin ServerDown /\ Kind[c] # "Buffy"
  IN {[up |-> in, auth |-> in, loginOK |-> in, old |-> in /\ c \in OldServers, busy |-> FALSE,
       num |-> 0, caids |-> a] : a \in IF in /\ Learns(c) THEN Announced[c] ELSE {{}}}

Init ==
  /\ sys = [s \in Systems |-> IdleSystem]
  /\ con \in {f \in [Clients -> UNION {StartConnection(c) : c \in Clients}] :
                \A c \in Clients : f[c] \in StartConnection(c)}
  /\ cache = [c \in Clients |-> Cleared]
  /\ sent = [c \in Clients |-> {}]

\* ProcessECM returns; cc stays with the system.
Returned(r, cc) ==
  [IdleSystem EXCEPT !.cc = cc, !.caid = IF cc = NoClient THEN NoMsg ELSE r.caid]

\* cSystemCardClient::ProcessECM is called.  cc is the client that answered
\* last; a handler that changes to another system id has a new system
\* (cam.c:1447).
Begin(s, e) ==
  /\ sys[s].at = "idle"
  /\ \E c \in {NoClient} \cup IF sys[s].caid = Caid[e] THEN {sys[s].cc} ELSE {} :
       sys' = [sys EXCEPT ![s] = [IdleSystem EXCEPT !.at = IF c = NoClient THEN "next" ELSE "get",
                                                    !.ecm = e, !.caid = Caid[e],
                                                    !.cc = c, !.start = c]]
  /\ UNCHANGED <<con, cache, sent>>

\* Mutant: the loop ends at the end of the list.
Next1NoWrap(s) ==
  LET old == sys[s].cc
      new == FindBySysId(Caid[sys[s].ecm], old)
  IN /\ sys[s].at = "next"
     /\ sys' = [sys EXCEPT ![s] =
                  IF new \in {sys[s].start, old, NoClient} THEN Returned(@, new)
                  ELSE [@ EXCEPT !.cc = new, !.at = "get"]]
     /\ UNCHANGED <<con, cache, sent>>

\* The loop goes on to the next client, or ends where it began.
Next1(s) ==
  LET old == sys[s].cc
      new == FindBySysId(Caid[sys[s].ecm], old)
  IN /\ sys[s].at = "next"
     /\ sys' = [sys EXCEPT ![s] =
                  IF new \in {sys[s].start, old} THEN Returned(@, new)
                  ELSE [@ EXCEPT !.cc = new, !.at = IF new = NoClient THEN "next" ELSE "get"]]
     /\ UNCHANGED <<con, cache, sent>>

-----------------------------------------------------------------------------
(* msECM.Get, one pass of its loops at a time.                             *)

\* The message is in work: sleep until it is done.
GetSame(s) ==
  LET c == sys[s].cc
      m == sys[s].ecm
  IN /\ sys[s].at = "get" /\ InWork(cache[c], m)
     /\ \E i \in FindMsg(cache[c], m) : cache' = [cache EXCEPT ![c] = Marked(@, i)]
     /\ sys' = [sys EXCEPT ![s].at = "sleep"]
     /\ UNCHANGED <<con, sent>>

\* The entry to be overwritten is in work: sleep until it is free.
GetRoom(s) ==
  LET c == sys[s].cc
  IN /\ \/ sys[s].at = "get" /\ FindMsg(cache[c], sys[s].ecm) = {}
        \/ sys[s].at = "room"
     /\ cache[c].entry[cache[c].ptr].queued
     /\ cache' = [cache EXCEPT ![c] = Marked(@, cache[c].ptr)]
     /\ sys' = [sys EXCEPT ![s].at = "sleep_room"]
     /\ UNCHANGED <<con, sent>>

\* Mutant: the entry is taken although it is in work.
GetNewAnyway(s) ==
  LET c == sys[s].cc
  IN /\ \/ sys[s].at = "get" /\ FindMsg(cache[c], sys[s].ecm) = {}
        \/ sys[s].at = "room"
     /\ cache' = [cache EXCEPT ![c] = Enqueued(@, sys[s].ecm)]
     /\ sys' = [sys EXCEPT ![s].at = "ask", ![s].id = cache[c].ptr]
     /\ UNCHANGED <<con, sent>>

\* The message is new and takes the entry at ptr.
GetNew(s) ==
  LET c == sys[s].cc
  IN /\ \/ sys[s].at = "get" /\ FindMsg(cache[c], sys[s].ecm) = {}
        \/ sys[s].at = "room"
     /\ ~cache[c].entry[cache[c].ptr].queued
     /\ cache' = [cache EXCEPT ![c] = Enqueued(@, sys[s].ecm)]
     /\ sys' = [sys EXCEPT ![s].at = "ask", ![s].id = cache[c].ptr]
     /\ UNCHANGED <<con, sent>>

\* The message is known: its result is stored, it may be tried once more, or
\* it has failed too often.
GetKnown(s) ==
  LET c == sys[s].cc
      m == sys[s].ecm
  IN /\ sys[s].at = "get" /\ FindMsg(cache[c], m) # {} /\ ~InWork(cache[c], m)
     /\ \/ /\ IsGood(cache[c], m)
           /\ sys' = [sys EXCEPT ![s] = Returned(@, c)]
           /\ UNCHANGED cache
        \/ /\ IsRetry(cache[c], m)
           /\ \E i \in FindMsg(cache[c], m) :
                /\ cache' = [cache EXCEPT ![c] = Requeued(@, i)]
                /\ sys' = [sys EXCEPT ![s].at = "ask", ![s].id = i]
        \/ /\ IsFailed(cache[c], m)
           /\ sys' = [sys EXCEPT ![s].at = "next", ![s].tried = @ \cup {c}]
           /\ UNCHANGED cache
     /\ UNCHANGED <<con, sent>>

-----------------------------------------------------------------------------
(* ProcessECM of a client.                                                 *)

Refused(c, r, e) ==
  CASE Kind[c] = "Camd35" -> FALSE
    [] Kind[c] = "Camd33" -> r.caids # {} /\ Caid[e] \notin r.caids \cup Configured[c]
    [] Kind[c] = "Buffy"  -> FALSE
    [] Kind[c] = "Radegast" /\ r.caids # {} -> Caid[e] \notin r.caids
    [] OTHER -> Caid[e] \notin r.caids \cup Configured[c]

\* The number of the next request.  A Newcamd session counts from its login;
\* as nothing of an earlier session arrives, counting on is the same.
Number(c) == IF Numbered(c) THEN con[c].num + 1 ELSE con[c].num

\* The client is free: connect if need be, flush what has arrived, send.
Ask(s) ==
  LET c == sys[s].cc
      e == sys[s].ecm
  IN /\ sys[s].at = "ask" /\ ~con[c].busy
     /\ \E r \in IF con[c].up THEN Heard(c) ELSE LoggedIn(c) :
          /\ ~Refused(c, r, e) /\ r.num < MaxNum
          /\ con' = [con EXCEPT ![c] = [r EXCEPT !.busy = TRUE, !.num = Number(c)]]
          /\ \E flushed \in SUBSET sent[c] :
               sent' = [sent EXCEPT ![c] =
                          (@ \ flushed) \cup
                          IF r.auth THEN {[num |-> Number(c), ecm |-> e]} ELSE {}]
          /\ sys' = [sys EXCEPT ![s].at = "answer", ![s].num = Number(c)]
     /\ UNCHANGED cache

\* No connection, a refused login, or a system the client does not handle.
AskFails(s) ==
  LET c == sys[s].cc
  IN /\ sys[s].at = "ask" /\ ~con[c].busy
     /\ \/ /\ con[c].up
           /\ con' = [con EXCEPT ![c] = Disconnected(@)]
           /\ sent' = [sent EXCEPT ![c] = {}]
        \/ /\ ~con[c].up
           /\ \E r \in LoginFailed(c) : con' = [con EXCEPT ![c] = r]
           /\ UNCHANGED sent
        \/ \E r \in IF con[c].up THEN Heard(c) ELSE LoggedIn(c) :
             /\ Refused(c, r, sys[s].ecm)
             /\ con' = [con EXCEPT ![c] = r]
             /\ UNCHANGED sent
     /\ sys' = [sys EXCEPT ![s].at = "bad", ![s].num = 0]
     /\ UNCHANGED cache

\* Mutant: the number of the answer is not looked at.
ReceiveAny(s, m, decoded) ==
  LET c == sys[s].cc
  IN /\ sys[s].at = "answer" /\ m \in sent[c]
     /\ sent' = [sent EXCEPT ![c] = @ \ {m}]
     /\ con' = [con EXCEPT ![c].busy = FALSE]
     /\ sys' = [sys EXCEPT ![s].at = IF decoded THEN "good" ELSE "bad",
                           ![s].cw = IF decoded THEN m.ecm ELSE @]
     /\ UNCHANGED cache

\* A message arrives.  One with another number is ignored; the clients that
\* do not number take what they get.
Receive(s, m, decoded) ==
  LET c == sys[s].cc
  IN /\ sys[s].at = "answer" /\ m \in sent[c]
     /\ sent' = [sent EXCEPT ![c] = @ \ {m}]
     /\ IF Numbered(c) /\ m.num # sys[s].num THEN UNCHANGED <<sys, con>>
        ELSE /\ con' = [con EXCEPT ![c].busy = FALSE]
             /\ sys' = [sys EXCEPT ![s].at = IF decoded THEN "good" ELSE "bad",
                                   ![s].cw = IF decoded THEN m.ecm ELSE @]
     /\ UNCHANGED cache

\* Nothing comes in time or something unreadable comes, and the connection
\* is kept; or it is lost or given up.  Newcamd keeps it when a message is too
\* long or its checksum is wrong.
GiveUp(s) ==
  LET c == sys[s].cc
  IN /\ sys[s].at = "answer"
     /\ sys' = [sys EXCEPT ![s].at = "bad", ![s].num = 0]
     /\ \/ /\ ~Reconnects(c) \/ Kind[c] = "Newcamd"
           /\ con' = [con EXCEPT ![c].busy = FALSE]
           /\ UNCHANGED sent
        \/ /\ con' = [con EXCEPT ![c] = Disconnected([@ EXCEPT !.busy = FALSE])]
           /\ sent' = [sent EXCEPT ![c] = {}]
     /\ UNCHANGED cache

-----------------------------------------------------------------------------
(* msECM.Cache: the entry is done and the sleepers of the cache wake up.   *)

Done(s, ok) ==
  LET c == sys[s].cc
      i == sys[s].id
      Woken(t) == Wakes(cache[c], i) /\ sys[t].cc = c
  IN /\ cache' = [cache EXCEPT ![c] = Cached(@, i, ok, sys[s].cw, MaxFail)]
     /\ sys' = [t \in Systems |->
                  IF t = s
                  THEN IF ok THEN Returned(sys[t], c)
                       ELSE [IdleSystem EXCEPT !.at = "next", !.ecm = sys[t].ecm, !.caid = sys[t].caid,
                                          !.cc = c, !.start = sys[t].start,
                                          !.tried = sys[t].tried \cup {c}]
                  ELSE IF Woken(t) /\ sys[t].at = "sleep"
                  THEN [sys[t] EXCEPT !.at = "get"]
                  ELSE IF Woken(t) /\ sys[t].at = "sleep_room"
                  THEN [sys[t] EXCEPT !.at = "room"]
                  ELSE sys[t]]
     /\ UNCHANGED <<con, sent>>

\* Mutant: a failed request leaves its entry in work.
CacheBadForgotten(s) ==
  /\ sys[s].at = "bad"
  /\ sys' = [sys EXCEPT ![s].at = "next", ![s].tried = @ \cup {sys[s].cc}]
  /\ UNCHANGED <<con, cache, sent>>

CacheGood(s) == sys[s].at = "good" /\ Done(s, TRUE)
CacheBad(s) == sys[s].at = "bad" /\ Done(s, FALSE)

-----------------------------------------------------------------------------
Work(s) ==
  \/ Next1(s) \/ GetSame(s) \/ GetRoom(s) \/ GetNew(s) \/ GetKnown(s) \/ Ask(s)
  \/ AskFails(s) \/ GiveUp(s) \/ CacheGood(s) \/ CacheBad(s)

Next ==
  \E s \in Systems :
    \/ \E e \in Ecms : Begin(s, e)
    \/ Work(s)
    \/ \E m \in UNION {sent[c] : c \in Clients}, decoded \in BOOLEAN : Receive(s, m, decoded)

Spec == Init /\ [][Next]_vars

-----------------------------------------------------------------------------
(* Properties.                                                             *)

CaIds == UNION {UNION Announced[c] : c \in Clients}

System ==
  [at : {"idle", "next", "get", "sleep", "room", "sleep_room", "ask", "answer", "good", "bad"},
   ecm : Ecms \cup {NoMsg}, caid : {Caid[e] : e \in Ecms} \cup {NoMsg},
   cc : Clients \cup {NoClient}, start : Clients \cup {NoClient}, id : Slots, num : Nat,
   cw : Ecms \cup {NoMsg}, tried : SUBSET Clients]
Connection ==
  [up : BOOLEAN, auth : BOOLEAN, loginOK : BOOLEAN, old : BOOLEAN, busy : BOOLEAN,
   num : Nat, caids : SUBSET CaIds]
Request == [num : Nat, ecm : Ecms]

TypeOK ==
  /\ sys \in [Systems -> System] /\ con \in [Clients -> Connection]
  /\ cache \in [Clients -> Cache(Ecms \cup {NoMsg})]
  /\ sent \in [Clients -> SUBSET Request]

\* The control word a client returns is the one of the ECM it was given, and
\* the one a cache gives out is the one of the message it is asked for: no
\* answer to a request that was given up, and no result of an entry that was
\* taken over, gets in between (camd.c:728, newcamd.c:341, system.c:545).
\* Clients that neither number nor reconnect are left out: they take what comes.
OwnAnswer ==
  /\ \A s \in Systems : sys[s].at = "good" /\ Trusted(sys[s].cc) => sys[s].cw = sys[s].ecm
  /\ \A c \in Clients, i \in Slots :
       Trusted(c) /\ cache[c].entry[i].mode = Good =>
         cache[c].entry[i].store = cache[c].entry[i].hash

\* Not so of a Camd33 or Gbox client: an answer that comes after the timeout is
\* taken for the answer to the next request (camd.c:430, gbox.c:140).
OwnAnswerOfAll ==
  \A s \in Systems : sys[s].at = "good" => sys[s].cw = sys[s].ecm

InHand(s) == sys[s].at \in {"ask", "answer", "good", "bad"}

\* An entry in work belongs to the one thread that will report its result:
\* it is neither overwritten nor taken by another (system.c:528-532).
EntriesOwned ==
  \A s \in Systems : InHand(s) =>
    LET own == cache[sys[s].cc].entry[sys[s].id]
    IN /\ own.queued /\ own.hash = sys[s].ecm
       /\ \A t \in Systems \ {s} : InHand(t) /\ sys[t].cc = sys[s].cc => sys[t].id # sys[s].id

\* A system gives an ECM up only when every client that handles its system id
\* has failed it, the ones before the client it started with too (cc.c:210-238).
TriesAll ==
  [][\A s \in Systems :
       sys[s].at = "next" /\ sys'[s].at = "idle" =>
         \A c \in Clients : CanHandle(c, Caid[sys[s].ecm]) => c \in sys[s].tried]_vars

\* A thread that sleeps in Get has somebody to wake it: the request it waits
\* for is in the hands of another, who will find the flag (system.c:519, 561).
SleepersAreWoken ==
  \A s \in Systems : sys[s].at \in {"sleep", "sleep_room"} =>
    \E t \in Systems : /\ InHand(t) /\ sys[t].cc = sys[s].cc
                       /\ Wakes(cache[sys[s].cc], sys[t].id)

\* No client is asked for the same ECM twice: the loop over the clients ends
\* (cc.c:238).
TriesOnce == \A s \in Systems : sys[s].at = "get" => sys[s].cc \notin sys[s].tried

\* Not so after one failure to connect: a Newcamd client speaks the old
\* protocol only to a server that does (newcamd.c).
FallsBackForOld == \A c \in Clients : con[c].old => c \in OldServers

-----------------------------------------------------------------------------
(* The invariant of the loop over the clients.                             *)

Busy == {"get", "sleep", "room", "sleep_room", "ask", "answer", "good", "bad"}

\* No server announces a system id that the configuration of its client does
\* not have: a login changes nothing about which clients handle an ECM.
Settled ==
  \A c \in Clients :
    \/ ~Learns(c)
    \/ Kind[c] \in {"Camd33", "Newcamd"} /\ Announced[c] \subseteq SUBSET Configured[c]
    \/ Kind[c] = "Radegast" /\ Announced[c] \subseteq {{}, Configured[c]}

\* The clients that handle the ECM a system has, in that case.
HandlersOf(r) == {c \in Clients : Caid[r.ecm] \in Configured[c]}

\* Those the loop has come to before the client it is at: it went from start
\* to the end of the list, and then on from its beginning.
Before(r) ==
  {c \in HandlersOf(r) : IF r.start <= r.cc THEN r.start <= c /\ c < r.cc
                         ELSE r.start <= c \/ c < r.cc}

\* A client knows no more than a server has announced.
KnownCaids ==
  \A c \in Clients : con[c].caids \in {{}} \cup IF Learns(c) THEN Announced[c] ELSE {}

\* The clients tried are exactly those that the loop has passed.
Turn(r) ==
  /\ r.at = "idle" /\ r.cc # NoClient => r.caid \in Configured[r.cc]
  /\ r.at # "idle" => /\ r.caid = Caid[r.ecm]
                      /\ {r.start, r.cc} \subseteq HandlersOf(r) \cup {NoClient}
  /\ r.at \in Busy => r.cc # NoClient /\ r.tried = Before(r)
  /\ r.at = "next" => r.tried = Before(r) \cup ({r.cc} \ {NoClient})

\* Kept when the clients are settled; TLC checks it on such an instance.
LoopInv == KnownCaids /\ \A s \in Systems : Turn(sys[s])

===============================================================================
