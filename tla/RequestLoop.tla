----------------------------- MODULE RequestLoop -----------------------------
(***************************************************************************)
(* The two threads of a device in the daemon (process_req.c): forward_data *)
(* executes the requests of the kernel device, one at a time; poll_loop    *)
(* waits for data on the files whose poll was answered with "nothing yet"  *)
(* and reports them with DVBLB_CMD_ASYNC.                                  *)
(*                                                                         *)
(* Every critical section of poll_mutex is one step, poll_mutex is never   *)
(* held across a wait.  entry->poll and kernfd are written without it.     *)
(***************************************************************************)
EXTENDS Integers, Sequences, FiniteSets, SequencesExt, FiniteSetsExt

CONSTANTS Files,      \* files applications have open on the looped device
          MaxEntries, \* DVBLB_MAXFD, how many entries there are
          Fds,        \* numbers of open files of the process
          None

Entries == 0 .. MaxEntries - 1

ASSUME RequestLoopAssumption ==
  /\ MaxEntries \in Nat /\ IsFiniteSet(Files) /\ Cardinality(Files) <= MaxEntries
  /\ None \notin Files \cup Fds \cup Entries

VARIABLES
  realfd_ll,   \* the entries
  used_list,   \* entries in use, the newest first
  ufd,         \* array handed to poll: [fd, of (the file it resolves to), revents]
  pollthread,  \* place of poll_loop
  main,        \* place of forward_data
  fdptr,       \* entry it works on
  realfd,      \* numbers of the process: file of the real device
  data,        \* files with data on the real device
  opened, waiting, \* kernel device: open files, bits of poll_waiting
  sleeping,    \* files in whose poll an application sleeps
  requested, since \* ghosts: files polled and not reported; that had data then

poller == <<ufd, pollthread>>
server == <<main, fdptr>>
apps   == <<opened, waiting, sleeping, requested, since>>
loopVars == <<realfd_ll, used_list, poller, server, realfd, data, apps>>

Entry == [kernfd : Files \cup {None}, fd : Fds \cup {None}, poll : BOOLEAN, pfd : 0 .. MaxEntries]
\* A file that was closed while it was polled.
Gone == <<"gone">>

find_free == Min({s \in Entries : realfd_ll[s].kernfd = None})
find_pos(f) == CHOOSE s \in ToSet(used_list) : realfd_ll[s].kernfd = f

LoopTypeOK ==
  /\ realfd_ll \in [Entries -> Entry] /\ used_list \in Seq(Entries)
  /\ ufd \in Seq([fd : Fds, of : Files \cup {None, Gone}, revents : BOOLEAN])
  /\ pollthread \in {"cond_wait", "unlocked", "polling", "interrupted", "returned"}
  /\ main \in {"poll", "close", "mark", "answer"}
  /\ fdptr \in Entries \cup {None} /\ ((main = "poll") <=> (fdptr = None))
  /\ realfd \in [Fds -> Files \cup {None}]
  /\ waiting \cup sleeping \cup data \subseteq Files
  /\ since \subseteq requested /\ requested \subseteq opened

LoopInit ==
  /\ realfd_ll = [s \in Entries |-> [kernfd |-> None, fd |-> None, poll |-> FALSE, pfd |-> 0]]
  /\ used_list = <<>> /\ ufd = <<>> /\ pollthread = "cond_wait"
  /\ main = "poll" /\ fdptr = None
  /\ realfd = [d \in Fds |-> None] /\ data = {}
  /\ opened = {} /\ waiting = {} /\ sleeping = {} /\ requested = {} /\ since = {}

-----------------------------------------------------------------------------
(* poll_loop                                                               *)

\* The k-th smallest of a set of positions.
Nth(P, k) == CHOOSE i \in P : Cardinality({j \in P : j < i}) = k - 1

\* The entries that are to be polled, in the order of the list.
Polled == LET P == {i \in DOMAIN used_list : realfd_ll[used_list[i]].poll}
          IN [k \in 1 .. Cardinality(P) |-> used_list[Nth(P, k)]]

\* The array is made anew from the entries that are to be polled.  Without
\* any, the loop is left with nothing to report.
Rebuild ==
  LET p == Polled IN
  /\ realfd_ll' = [s \in Entries |-> IF s \in ToSet(p)
                     THEN [realfd_ll[s] EXCEPT !.pfd = CHOOSE i \in DOMAIN p : p[i] = s]
                     ELSE realfd_ll[s]]
  /\ ufd' = [i \in DOMAIN p |-> [fd |-> realfd_ll[p[i]].fd, of |-> None, revents |-> FALSE]]
  /\ pollthread' = (IF p = <<>> THEN "cond_wait" ELSE "unlocked")

\* poll resolves the numbers; one that is not open is reported at once.
PollEnter ==
  /\ pollthread = "unlocked"
  /\ ufd' = [i \in DOMAIN ufd |-> [ufd[i] EXCEPT !.of = realfd[ufd[i].fd]]]
  /\ pollthread' = "polling"
  /\ UNCHANGED <<realfd_ll, used_list, server, realfd, data, apps>>

Ready(u) == u.of \in data \cup {None}

PollDone ==
  /\ pollthread = "polling" /\ \E i \in DOMAIN ufd : Ready(ufd[i])
  /\ ufd' = [i \in DOMAIN ufd |-> [ufd[i] EXCEPT !.revents = Ready(ufd[i])]]
  /\ pollthread' = "returned"
  /\ UNCHANGED <<realfd_ll, used_list, server, realfd, data, apps>>

PollAgain ==
  /\ pollthread = "interrupted" /\ Rebuild
  /\ UNCHANGED <<used_list, server, realfd, data, apps>>

Reported == {s \in ToSet(used_list) :
  LET e == realfd_ll[s]
  IN e.pfd # 0 /\ e.kernfd # None /\ e.poll /\ ufd[e.pfd].revents}

\* The files of DVBLB_CMD_ASYNC.
Msg == {realfd_ll[s].kernfd : s \in Reported}

Forgets(e) == [e EXCEPT !.poll = FALSE, !.pfd = 0]

\* The files are reported and their polls forgotten; then the thread waits for
\* the condition, also when entries are left that are to be polled.
Report ==
  /\ pollthread = "returned" /\ pollthread' = "cond_wait" /\ ufd' = <<>>
  /\ realfd_ll' = [s \in Entries |-> IF s \in Reported
                                       THEN Forgets(realfd_ll[s]) ELSE realfd_ll[s]]
  /\ waiting' = waiting \ Msg /\ sleeping' = sleeping \ Msg
  /\ requested' = requested \ Msg /\ since' = since \ Msg
  /\ UNCHANGED <<used_list, server, realfd, data, opened>>

\* Mutant: the signal is ignored.
SigpollIgnored == UNCHANGED pollthread

\* SIGPOLL ends a poll that has nothing to return; at any other place nothing
\* comes of it.
Sigpoll == IF pollthread = "polling" /\ ~ \E i \in DOMAIN ufd : Ready(ufd[i])
           THEN pollthread' = "interrupted" ELSE UNCHANGED pollthread

-----------------------------------------------------------------------------
(* The requests of applications, as the kernel device hands them over: one *)
(* at a time.  A handler is cut where the poll thread may see or do         *)
(* something in between.                                                   *)

\* Mutant: the entry keeps what its last user left.
NewEntryKeeps(f, d) == [realfd_ll[find_free] EXCEPT !.kernfd = f, !.fd = d]

\* The entry as open leaves it.
NewEntry(f, d) == [kernfd |-> f, fd |-> d, poll |-> FALSE, pfd |-> 0]

\* An open forgets the waiting polls of all files.  The poll thread sees
\* nothing of the entry before it is in the list.
Open(f) ==
  /\ main = "poll" /\ f \notin opened
  /\ \E d \in {x \in Fds : realfd[x] = None} :
       /\ realfd' = [realfd EXCEPT ![d] = f]
       /\ realfd_ll' = [realfd_ll EXCEPT ![find_free] = NewEntry(f, d)]
  /\ used_list' = <<find_free>> \o used_list
  /\ opened' = opened \cup {f} /\ waiting' = {}
  /\ UNCHANGED <<poller, server, data, sleeping, requested, since>>

\* The request of file f is taken up.
Takes(f, place) ==
  /\ main = "poll" /\ f \in opened /\ main' = place
  /\ fdptr' = find_pos(f)

\* close: the entry leaves the list and the poll thread is signalled, ...
CloseTaken(f) ==
  /\ f \notin sleeping /\ Takes(f, "close") /\ Sigpoll
  /\ used_list' = RemoveFirst(used_list, fdptr')
  /\ UNCHANGED <<realfd_ll, ufd, realfd, data, apps>>

\* ... then the file is closed.  A poll that is under way keeps it, and no
\* data comes for it.
Close ==
  LET f == realfd_ll[fdptr].kernfd IN
  /\ main = "close" /\ main' = "poll" /\ fdptr' = None
  /\ realfd' = [realfd EXCEPT ![realfd_ll[fdptr].fd] = None]
  /\ ufd' = [i \in DOMAIN ufd |-> IF ufd[i].of = f THEN [ufd[i] EXCEPT !.of = Gone] ELSE ufd[i]]
  /\ realfd_ll' = [realfd_ll EXCEPT ![fdptr].kernfd = None, ![fdptr].fd = None]
  /\ data' = data \ {f} /\ opened' = opened \ {f} /\ waiting' = {}
  /\ requested' = requested \ {f} /\ since' = since \ {f}
  /\ UNCHANGED <<used_list, pollthread, sleeping>>

\* A read takes all there is.
Read(f) ==
  /\ main = "poll" /\ f \in data \ sleeping /\ data' = data \ {f}
  /\ UNCHANGED <<realfd_ll, used_list, poller, server, realfd, apps>>

\* poll of a file for which one waits already, that of an application that gave
\* up: it sleeps on that one.
PollWaiting(f) ==
  /\ f \in waiting \ sleeping
  /\ fdptr # None => realfd_ll[fdptr].kernfd # f
  /\ sleeping' = sleeping \cup {f}
  /\ UNCHANGED <<realfd_ll, used_list, poller, server, realfd, data, opened,
                 waiting, requested, since>>

\* poll: with data it is over at once; ...
PollTaken(f) ==
  /\ f \notin data \cup waiting /\ Takes(f, "mark")
  /\ waiting' = waiting \cup {f}
  /\ UNCHANGED <<realfd_ll, used_list, poller, realfd, data, opened, sleeping,
                 requested, since>>

\* ... otherwise the entry is marked without the mutex, ...
Mark ==
  LET f == realfd_ll[fdptr].kernfd IN
  /\ main = "mark" /\ main' = "answer"
  /\ realfd_ll' = [realfd_ll EXCEPT ![fdptr].poll = TRUE]
  /\ requested' = requested \cup {f} /\ since' = since \cup ({f} \cap data)
  /\ UNCHANGED <<used_list, poller, fdptr, realfd, data, opened, waiting, sleeping>>

\* ... and the answer "nothing yet" is given.  The poll is restarted, or the
\* thread is woken.
PollSignal == IF pollthread = "cond_wait" THEN Rebuild
              ELSE Sigpoll /\ UNCHANGED <<realfd_ll, ufd>>

\* A report that came before the answer has woken the application already.
Answer ==
  LET f == realfd_ll[fdptr].kernfd IN
  /\ main = "answer" /\ main' = "poll" /\ fdptr' = None
  /\ PollSignal
  /\ sleeping' = sleeping \cup ({f} \cap waiting)
  /\ UNCHANGED <<used_list, realfd, data, opened, waiting, requested, since>>

\* The time of an application's poll is over.
Timeout(f) ==
  /\ f \in sleeping /\ sleeping' = sleeping \ {f}
  /\ UNCHANGED <<realfd_ll, used_list, poller, server, realfd, data, opened,
                 waiting, requested, since>>

Arrive(f) ==
  /\ f \in opened \ data /\ data' = data \cup {f}
  /\ since' = since \cup ({f} \cap requested)
  /\ UNCHANGED <<realfd_ll, used_list, poller, server, realfd, opened,
                 waiting, sleeping, requested>>

-----------------------------------------------------------------------------
Poller == PollEnter \/ PollDone \/ PollAgain \/ Report
Server == Close \/ Mark \/ Answer
Application == \E f \in Files : \/ Open(f) \/ CloseTaken(f) \/ Read(f)
                                \/ PollWaiting(f) \/ PollTaken(f) \/ Timeout(f)
                                \/ Arrive(f)

LoopNext == Poller \/ Server \/ Application

\* Both threads are scheduled; applications and the device do as they like.
LoopSpec == LoopInit /\ [][LoopNext]_loopVars /\ WF_loopVars(Poller) /\ WF_loopVars(Server)

-----------------------------------------------------------------------------
\* A report is about a file that an application has polled without success, and
\* that had data after that: an entry that is used anew, a number the process
\* got again, or a place in an array of an earlier round is not reported.
ReportsNews == [][ Report => Msg \subseteq since ]_loopVars

\* While polls with no result keep coming, a file with data on which an
\* application sleeps does not stay unreported, whatever signals were lost.
KeepsReporting ==
  []<>(main = "answer")
    => \A f \in Files : (f \in sleeping /\ f \in data) ~> (f \notin sleeping \/ f \notin data)

\* When the thread looks at what poll returned, the place an entry has noted is
\* in the array of this round, and is the place of its file.
PfdInArray ==
  pollthread = "returned" =>
    \A s \in ToSet(used_list) : realfd_ll[s].pfd # 0 =>
      /\ realfd_ll[s].pfd \in DOMAIN ufd
      /\ ufd[realfd_ll[s].pfd].fd = realfd_ll[s].fd

\* forward_data restarts the poll if the thread is polling already: what is to
\* be polled, and was signalled, is in the array that is polled.
RestartsPoll ==
  \A s \in ToSet(used_list) :
    (pollthread = "polling" /\ realfd_ll[s].poll /\ main = "poll")
      => \E i \in DOMAIN ufd : ufd[i].fd = realfd_ll[s].fd

\* The same of a thread that waits: nothing is to be polled then.
NothingLeft ==
  \A s \in ToSet(used_list) :
    (pollthread = "cond_wait" /\ main = "poll") => ~ realfd_ll[s].poll

-----------------------------------------------------------------------------
(* The inductive invariant.                                                *)

Live(s) == realfd_ll[s].kernfd # None

\* An entry with a file is in the list, except while the file is closed; its
\* number is that of its file, and no two have the same file.
EntriesInv ==
  /\ IsInjective(used_list)
  /\ \A s \in ToSet(used_list) : Live(s)
  /\ \A s \in Entries :
       Live(s) => /\ s \in ToSet(used_list) <=> (main = "close" => s # fdptr)
                  /\ realfd_ll[s].fd \in Fds /\ realfd[realfd_ll[s].fd] = realfd_ll[s].kernfd
                  /\ \A t \in Entries : realfd_ll[t].kernfd = realfd_ll[s].kernfd => t = s
  /\ main = "close" => Live(fdptr)
  /\ main \in {"mark", "answer"} => fdptr \in ToSet(used_list)
  /\ opened = {realfd_ll[s].kernfd : s \in {t \in Entries : Live(t)}}
  /\ requested = {realfd_ll[s].kernfd : s \in {t \in Entries : Live(t) /\ realfd_ll[t].poll}}

\* A place that is noted in the list is one of this round, with the number and,
\* once poll has looked, the file of the entry.  What poll returned is news.
ArrayInv ==
  /\ requested \cap data \subseteq since
  /\ \A s \in ToSet(used_list) :
       LET e == realfd_ll[s]
           u == ufd[e.pfd]
       IN e.pfd # 0 =>
            /\ e.poll
            /\ pollthread # "cond_wait" => e.pfd \in DOMAIN ufd /\ u.fd = e.fd
            /\ pollthread \in {"polling", "returned"} => u.of = e.kernfd
            /\ pollthread = "returned" /\ u.revents => e.kernfd \in since
=============================================================================
