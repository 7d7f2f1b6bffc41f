------------------------------- MODULE MsgCache -------------------------------
(***************************************************************************)
(* cMsgCache (sc/PLUGINS/src/system.c): a ring of messages that are being  *)
(* worked on, are known to fail, or have a stored result.  The operators   *)
(* are the effects of Get and Cache under the cache's mutex; who sleeps    *)
(* in wait.Wait is the business of the modules that use it.                *)
(***************************************************************************)
EXTENDS Integers, FiniteSets

CONSTANTS NumCache, \* entries in the ring
          NoMsg     \* no message

ASSUME NumCacheAssumption == NumCache \in Nat \ {0}

Slots == 0..(NumCache - 1)

\* The modes of an entry; a number in between counts failures.
Free == 0
FailN == 62
Good == 63

\* An entry: the hash of the message, its mode, the flags QUEUED and WAIT,
\* and what is stored with it.
EmptyEntry == [hash |-> NoMsg, mode |-> Free, queued |-> FALSE, wait |-> FALSE,
               store |-> NoMsg]
Entry(messages) == [hash : messages, mode : Free..Good, queued : BOOLEAN, wait : BOOLEAN,
                    store : messages]
Cache(messages) == [ptr : Slots, entry : [Slots -> Entry(messages)]]
Cleared == [ptr |-> 0, entry |-> [i \in Slots |-> EmptyEntry]]

Unused(e) == e.mode = Free /\ ~e.queued /\ ~e.wait

\* The k-th entry before ptr.
Back(c, k) == (c.ptr + NumCache - k) % NumCache

\* FindMsg: the newest entry of m before the first unused one; none or one.
FindMsg(c, m) ==
  LET Seen == {k \in 1..NumCache :
                 \A j \in 1..k : ~Unused(c.entry[Back(c, j)])}
      Hits == {k \in Seen : c.entry[Back(c, k)].hash = m}
  IN {Back(c, k) : k \in {h \in Hits : \A g \in Hits : h <= g}}

\* Get, by what it finds.
InWork(c, m) == \E i \in FindMsg(c, m) : c.entry[i].queued
IsGood(c, m) == \E i \in FindMsg(c, m) : c.entry[i].mode = Good
IsFailed(c, m) == \E i \in FindMsg(c, m) : c.entry[i].mode = FailN
IsRetry(c, m) == \E i \in FindMsg(c, m) : c.entry[i].mode \notin {Free, FailN, Good}

Stored(c, m) == c.entry[CHOOSE i \in FindMsg(c, m) : TRUE].store
Marked(c, i) == [c EXCEPT !.entry[i].wait = TRUE]
Requeued(c, i) == [c EXCEPT !.entry[i].queued = TRUE]

\* A message that is not in the ring takes the entry at ptr; what was stored
\* there is not read again.
Enqueued(c, m) ==
  [ptr   |-> (c.ptr + 1) % NumCache,
   entry |-> [c.entry EXCEPT ![c.ptr] = [hash |-> m, mode |-> Free, queued |-> TRUE,
                                         wait |-> FALSE, store |-> NoMsg]]]

\* Cache: the entry leaves work with a result or with one failure more.
AfterFailure(mode, maxFail) ==
  LET n == IF mode = Good THEN 1 ELSE mode + 1
  IN IF n < maxFail THEN n ELSE FailN

Cached(c, i, ok, result, maxFail) ==
  LET e == c.entry[i]
  IN [c EXCEPT !.entry[i] =
        IF ok THEN [e EXCEPT !.mode = Good, !.queued = FALSE, !.wait = FALSE,
                             !.store = result]
        ELSE IF e.mode = FailN THEN e
        ELSE [e EXCEPT !.mode = AfterFailure(e.mode, maxFail), !.queued = FALSE,
                       !.wait = FALSE, !.store = NoMsg]]

\* Whether Cache wakes the threads that sleep in Get.
Wakes(c, i) == c.entry[i].wait
===============================================================================
