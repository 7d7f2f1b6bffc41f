------------------------------ MODULE MsgQueue ------------------------------
(***************************************************************************)
(* One of the two message queues of the daemon (msg_passing.c): the low    *)
(* priority one is served by the main thread, the high priority one by a   *)
(* thread of its own.  Any thread sends to it, removes from it and ends    *)
(* it, all under its mutex; the loop gives the mutex up while it handles a *)
(* message and while it waits.                                             *)
(*                                                                         *)
(* A message lives in a cell, and cells are never freed: one is on the     *)
(* list, on the queue of empty ones, or in the hand of the loop.           *)
(***************************************************************************)
EXTENDS Integers, Sequences, FiniteSets, SequencesExt

CONSTANTS
  Plain,          \* keys (type and id) that are sent with msg_send
  Replaced,       \* keys that are sent with msg_replace
  Recurring,      \* keys that are sent once, MSG_RECURRING
  Data,           \* what a message carries
  Period,         \* the delay of a recurring message, in seconds
  Hour,           \* the longest wait
  Preallocated,   \* cells made by msg_loop_init
  MaxCells,       \* bound: cells ever made
  MaxTime,        \* bound: the clock
  Ends            \* who ends the loop: subset of {"thread", "signal"}

Keys == Plain \cup Replaced \cup Recurring

ASSUME QueueAssumption ==
  /\ Plain \cap Replaced = {} /\ Recurring \cap (Plain \cup Replaced) = {}
  /\ Period \in Nat \ {0} /\ Hour \in Nat \ {0} /\ MaxTime \in Nat
  /\ Preallocated \in Nat /\ MaxCells \in Nat /\ Preallocated <= MaxCells
  /\ Ends \subseteq {"thread", "signal"}
  /\ "none" \notin Data /\ {"terminate", "processed", "fresh"} \cap Keys = {}

Cells == 1 .. MaxCells
None  == 0

VARIABLES
  msglist, empty,   \* sequences of cells
  made,             \* how many cells there are
  msg,              \* what a cell holds: key, data, recurring, next_run
  lpc,              \* the loop: start, scan, handle, wait, returned, stuck
  hand, orig,       \* its message, and the key it was taken with
  ts,               \* when it stops waiting
  signalled,        \* the condition variable was signalled
  now,              \* time(NULL)
  owed,             \* ghost: the data last sent for a key and not yet handled
  order             \* ghost: messages to run at once, in the order sent

queues == <<msglist, empty, made>>
loop   == <<lpc, hand, orig, ts>>
ghosts == <<owed, order>>
queueVars == <<queues, msg, loop, signalled, now, ghosts>>

Blank == [key |-> "fresh", data |-> "none", recurring |-> 0, next_run |-> 0]

QueueInit ==
  /\ msglist = <<>> /\ empty = [i \in 1 .. Preallocated |-> i]
  /\ made = Preallocated /\ msg = [c \in Cells |-> Blank]
  /\ lpc = "start" /\ hand = None /\ orig = "fresh" /\ ts = 0
  /\ signalled = FALSE /\ now = 0
  /\ owed = [k \in Keys |-> "none"] /\ order = <<>>

OnList(k) == {c \in ToSet(msglist) : msg[c].key = k}

-----------------------------------------------------------------------------
(* The mutex is free unless the loop scans (or hangs in its own handler).  *)
Unlocked == lpc \notin {"scan", "stuck"}

\* A cell from the empty queue, or a new one.
Fresh(c) == \/ empty # <<>> /\ c = Head(empty)
               /\ empty' = Tail(empty) /\ UNCHANGED made
            \/ empty = <<>> /\ made < MaxCells /\ c = made + 1
               /\ made' = made + 1 /\ UNCHANGED empty

\* Mutant: the newest message goes first.
AddCellFirst(k, d, period) ==
  \E c \in Cells :
    /\ Fresh(c) /\ msglist' = <<c>> \o msglist
    /\ msg' = [msg EXCEPT ![c] = [key |-> k, data |-> d, recurring |-> period,
                                  next_run |-> IF period > 0 THEN now + period
                                               ELSE 0]]
    /\ order' = IF period > 0 THEN order ELSE Append(order, c)

\* Mutant: the time of the next run is taken for the period.
AddCellWrongPeriod(k, d, period) ==
  \E c \in Cells :
    /\ Fresh(c) /\ msglist' = Append(msglist, c)
    /\ LET next == IF period > 0 THEN now + period ELSE 0
       IN msg' = [msg EXCEPT ![c] = [key |-> k, data |-> d, recurring |-> next,
                                     next_run |-> next]]
    /\ order' = IF period > 0 THEN order ELSE Append(order, c)

\* A new cell at the end of the list.
AddCell(k, d, period) ==
  \E c \in Cells :
    /\ Fresh(c) /\ msglist' = Append(msglist, c)
    /\ msg' = [msg EXCEPT ![c] = [key |-> k, data |-> d, recurring |-> period,
                                  next_run |-> IF period > 0 THEN now + period
                                               ELSE 0]]
    /\ order' = IF period > 0 THEN order ELSE Append(order, c)

\* Mutant: the data of the message that is on the list stays.
AddKeepsData(k, d, period) ==
  \/ /\ k \in Replaced /\ OnList(k) # {}
     /\ UNCHANGED <<queues, msg, order>>
  \/ /\ k \notin Replaced \/ OnList(k) = {}
     /\ AddCell(k, d, period)

\* msg_add_type_to_list, and what msg_send_replace fills in.
Add(k, d, period) ==
  \/ /\ k \in Replaced /\ OnList(k) # {}
     /\ \E c \in OnList(k) : msg' = [msg EXCEPT ![c].data = d]
     /\ UNCHANGED <<queues, order>>
  \/ /\ k \notin Replaced \/ OnList(k) = {}
     /\ AddCell(k, d, period)

\* Mutant: the loop is not woken.
SendSilent(k, d) ==
  /\ Unlocked /\ Add(k, d, 0)
  /\ owed' = [owed EXCEPT ![k] = d]
  /\ UNCHANGED <<loop, now, signalled>>

\* msg_send and msg_replace.
MsgSend(k, d) ==
  /\ Unlocked /\ Add(k, d, 0)
  /\ signalled' = (signalled \/ lpc = "wait")
  /\ owed' = [owed EXCEPT ![k] = d]
  /\ UNCHANGED <<loop, now>>

\* msg_send_replace with MSG_RECURRING, at launch, before the loop runs.
SendRecurring(k) ==
  /\ lpc = "start" /\ OnList(k) = {}
  /\ \E d \in Data : Add(k, d, Period) /\ owed' = [owed EXCEPT ![k] = d]
  /\ UNCHANGED <<loop, now, signalled>>

\* Mutant: the cell stays on the list.
RemoveTypeKeepsCell(k) ==
  /\ Unlocked /\ OnList(k) # {}
  /\ LET i == SelectInSeq(msglist, LAMBDA c : msg[c].key = k)
     IN /\ empty' = <<msglist[i]>> \o empty
        /\ order' = RemoveFirst(order, msglist[i])
  /\ owed' = [owed EXCEPT ![k] = "none"]
  /\ UNCHANGED <<msg, made, loop, signalled, now, msglist>>

\* msg_remove_type_from_list: the first message of this key.
RemoveType(k) ==
  /\ Unlocked /\ OnList(k) # {}
  /\ LET i == SelectInSeq(msglist, LAMBDA c : msg[c].key = k)
     IN /\ msglist' = RemoveAt(msglist, i)
        /\ empty' = <<msglist[i]>> \o empty
        /\ order' = RemoveFirst(order, msglist[i])
  /\ owed' = [owed EXCEPT ![k] = IF Cardinality(OnList(k)) = 1 THEN "none"
                                 ELSE owed[k]]
  /\ UNCHANGED <<msg, made, loop, signalled, now>>

\* msg_terminate: at the head of the list.
PutTerminate ==
  /\ \E c \in Cells :
       /\ Fresh(c) /\ msglist' = <<c>> \o msglist
       /\ msg' = [msg EXCEPT ![c] = [Blank EXCEPT !.key = "terminate"]]
  /\ signalled' = (signalled \/ lpc = "wait")

Terminate ==
  /\ "thread" \in Ends /\ Unlocked /\ OnList("terminate") = {}
  /\ PutTerminate
  /\ UNCHANGED <<loop, now, ghosts>>

\* exit_handler, on the main thread wherever it is: where that thread holds
\* the mutex, scanning or sending, the handler waits for its own thread.
ExitHandler ==
  /\ "signal" \in Ends /\ OnList("terminate") = {}
  /\ \/ lpc \in {"start", "handle", "wait"} /\ PutTerminate /\ UNCHANGED lpc
     \/ lpc \in {"scan", "handle"} /\ lpc' = "stuck" /\ UNCHANGED <<queues, msg, signalled>>
  /\ UNCHANGED <<hand, orig, ts, now, ghosts>>

-----------------------------------------------------------------------------
(* The loop.                                                               *)

Due(c) == msg[c].next_run <= now

\* The earliest of the times the messages on the list wait for.
Earliest(limit) ==
  LET times == {msg[c].next_run : c \in ToSet(msglist)} \cup {limit}
  IN CHOOSE t \in times : \A u \in times : t <= u

\* The first message that is due is taken; without one the loop waits.
Scan ==
  /\ lpc = "scan"
  /\ \/ /\ \E c \in ToSet(msglist) : Due(c)
        /\ LET i == SelectInSeq(msglist, LAMBDA m : Due(m))
               c == msglist[i]
           IN /\ msglist' = RemoveAt(msglist, i)
              /\ hand' = c /\ orig' = msg[c].key
              /\ lpc' = IF msg[c].key = "terminate" THEN "returned" ELSE "handle"
              /\ owed' = [k \in Keys |-> IF /\ k = msg[c].key
                                            /\ owed[k] = msg[c].data
                                         THEN "none" ELSE owed[k]]
              /\ order' = RemoveFirst(order, c)
        /\ UNCHANGED ts
     \/ /\ \A c \in ToSet(msglist) : ~Due(c)
        /\ ts' = Earliest(now + Hour) /\ lpc' = "wait"
        /\ UNCHANGED <<msglist, hand, orig, ghosts>>
  /\ signalled' = FALSE
  /\ UNCHANGED <<empty, made, msg, now>>

\* A plugin has processed the message, or none has.
Handle ==
  /\ lpc = "handle" /\ msg[hand].key = orig
  /\ msg' = [msg EXCEPT ![hand].key = "processed"]
  /\ UNCHANGED <<queues, loop, signalled, now, ghosts>>

\* Mutant: the type of a recurring message stays MSG_PROCESSED.
AgainProcessed ==
  /\ msg' = [msg EXCEPT ![hand].next_run = now + msg[hand].recurring]
  /\ msglist' = Append(msglist, hand)

\* A recurring message goes back to the list, as the type it was.
Again ==
  /\ msg' = [msg EXCEPT ![hand].next_run = now + msg[hand].recurring,
                        ![hand].key = orig]
  /\ msglist' = Append(msglist, hand)

\* Handled: the cell goes to one of the queues, under the mutex again.
PutBack ==
  /\ lpc = "handle"
  /\ \/ msg[hand].recurring > 0 /\ Again /\ UNCHANGED empty
     \/ /\ msg[hand].recurring = 0
        /\ empty' = <<hand>> \o empty /\ UNCHANGED <<msg, msglist>>
  /\ lpc' = "scan" /\ hand' = None /\ orig' = "fresh"
  /\ UNCHANGED <<made, ts, signalled, now, ghosts>>

\* pthread_cond_timedwait returns: a signal, or the time.
Wake ==
  /\ lpc = "wait" /\ (signalled \/ ts <= now)
  /\ lpc' = "scan" /\ signalled' = FALSE
  /\ UNCHANGED <<queues, msg, hand, orig, ts, now, ghosts>>

Tick ==
  /\ now < MaxTime /\ now' = now + 1
  /\ UNCHANGED <<queues, msg, loop, signalled, ghosts>>

-----------------------------------------------------------------------------
Start == /\ lpc = "start" /\ lpc' = "scan"
         /\ UNCHANGED <<queues, msg, hand, orig, ts, signalled, now, ghosts>>

LoopStep == Start \/ Scan \/ Handle \/ PutBack \/ Wake

QueueNext ==
  \/ \E k \in Plain \cup Replaced, d \in Data : MsgSend(k, d)
  \/ \E k \in Recurring : SendRecurring(k)
  \/ \E k \in Plain \cup Replaced : RemoveType(k)
  \/ Terminate
  \/ ExitHandler
  \/ LoopStep
  \/ Tick

QueueSpec == QueueInit /\ [][QueueNext]_queueVars

\* The thread of the loop runs.
FairQueueSpec == QueueSpec /\ WF_queueVars(LoopStep)

-----------------------------------------------------------------------------
(* Properties.                                                             *)

Message == [key : Keys \cup {"terminate", "processed", "fresh"},
            data : Data \cup {"none"}, recurring : {0, Period},
            next_run : 0 .. MaxTime + Period]

QueueTypeOK ==
  /\ msglist \in Seq(Cells) /\ empty \in Seq(Cells)
  /\ made \in Preallocated .. MaxCells
  /\ msg \in [Cells -> Message]
  /\ lpc \in {"start", "scan", "handle", "wait", "returned", "stuck"}
  /\ hand \in Cells \cup {None} /\ orig \in Keys \cup {"terminate", "fresh"}
  /\ ts \in Nat /\ signalled \in BOOLEAN /\ now \in 0 .. MaxTime
  /\ owed \in [Keys -> Data \cup {"none"}] /\ order \in Seq(Cells)

\* No cell is in two places, and none is lost: what a handler works on can
\* not be given to another sender meanwhile.
CellsConserved ==
  LET places == msglist \o empty \o (IF hand = None THEN <<>> ELSE <<hand>>)
  IN Len(places) = made /\ ToSet(places) = 1 .. made

\* The last data sent for a key is what will be handled for it, and once: a
\* message sent while its predecessor is being handled is not swallowed, and
\* one that replaces is never queued next to the one it replaces.
LatestDelivered ==
  \A k \in Replaced :
    /\ Cardinality(OnList(k)) <= 1
    /\ owed[k] # "none" => \E c \in OnList(k) : msg[c].data = owed[k]

\* The loop never oversleeps: whatever is on the list while it waits without
\* a signal is to run later than the wait ends.
WakesInTime ==
  lpc = "wait" /\ ~signalled => \A c \in ToSet(msglist) : ts <= msg[c].next_run

\* Messages are handled in the order they were sent, whatever is removed,
\* recurs or is waited for in between; a cell that is used again does not
\* overtake.
InOrder ==
  [][hand = None /\ hand' \in ToSet(order) => hand' = Head(order)]_queueVars

\* A recurring message recurs: it is on the list or in the hand, as itself.
KeepsRecurring ==
  \A c \in 1 .. made : msg[c].recurring > 0 =>
    \/ c \in ToSet(msglist) /\ msg[c].key \in Recurring
    \/ c = hand /\ orig \in Recurring

\* What is sent is handled or removed, unless the loop has ended or the main
\* thread hangs in its own signal handler; and MSG_TERMINATE ends the loop,
\* whatever is queued or waited for.
SentIsHandled ==
  /\ \A k \in Replaced : owed[k] # "none" ~>
       (owed[k] = "none" \/ lpc \in {"returned", "stuck"})
  /\ (OnList("terminate") # {}) ~> (lpc = "returned")

\* "take care of main message handler.  Main thread will do the rest": the
\* signal handler ends the loop.
ExitEnds == (lpc = "stuck") ~> (lpc = "returned")

-----------------------------------------------------------------------------
(* The inductive invariant.                                                *)

\* A cell is on the list, empty, or in the hand, and there once.
CellsPlaced ==
  /\ IsInjective(msglist) /\ IsInjective(empty)
  /\ ToSet(msglist) \cap ToSet(empty) = {}
  /\ hand \notin ToSet(msglist) \cup ToSet(empty)
  /\ ToSet(msglist) \cup ToSet(empty) \cup ({hand} \ {None}) = 1 .. made
  /\ lpc \in {"start", "scan", "wait"} => hand = None
  /\ lpc = "handle" => hand # None

\* The elements of s stand in t, in the same order.
Follows(s, t) ==
  /\ ToSet(s) \subseteq ToSet(t)
  /\ \A i, j \in DOMAIN s, a, b \in DOMAIN t :
       i < j /\ s[i] = t[a] /\ s[j] = t[b] => a < b

\* What is to run at once stands on the list in the order it was sent.
SentInOrder ==
  /\ Follows(order, msglist)
  /\ \A c \in ToSet(order) : msg[c].next_run = 0

\* A message that replaces is alone on the list, with the data last sent.
SentLatest ==
  \A k \in Replaced :
    /\ \A a, b \in OnList(k) : a = b
    /\ owed[k] # "none" => \E c \in OnList(k) : msg[c].data = owed[k]

KeysListed == \A c \in ToSet(msglist) : msg[c].key \in Keys \cup {"terminate"}

QueueInv == /\ QueueTypeOK /\ CellsPlaced /\ KeysListed
            /\ SentInOrder /\ SentLatest /\ KeepsRecurring /\ WakesInTime

=============================================================================
