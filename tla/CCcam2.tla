-------------------------------- MODULE CCcam2 ---------------------------------
(***************************************************************************)
(* The CCcam client (sc/PLUGINS/src/systems/cardclient/cccam2.c) on its    *)
(* socket (network.c) and with its reader thread (thread.cpp).             *)
(*                                                                         *)
(* ProcessECM and ProcessEMM hold the mutex of the client throughout: one  *)
(* Caller stands for every thread that calls them.  The reader takes no    *)
(* such mutex; it logs out, sends and even logs in on its own.  A thread   *)
(* is the stack of the calls it is in, innermost first.                    *)
(*                                                                         *)
(* The watcher of idle sockets takes the lock of its list, then that of    *)
(* the socket; Connect takes them the other way round.                     *)
(***************************************************************************)
EXTENDS Naturals, Sequences, FiniteSets

CONSTANTS Readers,  \* threads that cThread::Start can create
          Shares,   \* share ids a server may announce
          KeyLimit, \* keys a server that asked unknown questions gives (50)
          Bounds,   \* bounds: instances of how often the environment does what,
                    \* and of whether writes time out ("late")
          MaxIn,    \* bound: packets on their way to the client
          NoOne

ASSUME ReadersAssumption ==
  /\ NoOne \notin Readers \cup {"caller"} /\ "caller" \notin Readers
  /\ KeyLimit \in Nat
  /\ \A b \in Bounds :
       b \in [{"ecm", "emm", "share", "ask", "ping", "close", "watch", "late"} -> Nat]

VARIABLES stack,  \* thread -> labels of its calls
          ok,     \* thread -> what its last call returned
          cl,     \* fields of the client
          th,     \* fields of cThread, the threads with a cancel pending, and (history)
                  \* whether the reader has waited for its own end
          so,     \* the socket: connected, on the watcher's list; both locks
          shares, \* the shares, and whether the EMM loop holds them for reading
          net,    \* the session with the server
          rd,     \* reader -> its buffer, and what it computed from the packet
          call,   \* the call of the Caller
          watch,  \* the watcher
          left    \* what the bounds leave

clientVars == <<stack, ok, cl, th, so, shares, net, rd, call, watch, left>>

Caller == "caller"
Threads == {Caller} \cup Readers
Dead == "dead" \* holds a lock for ever
Garbage == 0 \* no key of any ECM
Kinds == {"ecm", "emm", "share", "ask", "ping", "close", "watch", "late"}

At(t, label) == stack[t] # <<>> /\ Head(stack[t]) = label
Idle == stack[Caller] = <<>>

\* Control: to another label of the same procedure, into a call that continues
\* at a label, and out of the procedure.
Goto(t, label) ==
  stack' = [stack EXCEPT ![t] = <<label>> \o Tail(@)] /\ UNCHANGED ok
Invoke(t, proc, next) ==
  stack' = [stack EXCEPT ![t] = <<proc, next>> \o Tail(@)] /\ UNCHANGED ok
Return(t, value) ==
  stack' = [stack EXCEPT ![t] = Tail(@)] /\ ok' = [ok EXCEPT ![t] = value]

NoSession == [open |-> FALSE, told |-> {}, asked |-> {}, in |-> <<>>,
              enc |-> <<>>, garbled |-> FALSE]
NoCall == [kind |-> "none", ecm |-> 0, todo |-> {}, pending |-> 0,
           tried |-> FALSE, clean |-> FALSE, woken |-> FALSE]
NoPacket == [buf |-> <<>>, pending |-> 0, take |-> FALSE, cw |-> Garbage]

ClientInit ==
  /\ stack = [t \in Threads |-> <<>>]
  /\ ok = [t \in Threads |-> FALSE]
  /\ cl = [login |-> FALSE, shareid |-> NoOne, pending |-> 0, limit |-> 0,
           emm |-> FALSE, newcw |-> FALSE, cw |-> Garbage]
  /\ th = [running |-> FALSE, active |-> FALSE, child |-> NoOne, tid |-> NoOne,
           cancelled |-> {}, own |-> FALSE]
  /\ so = [up |-> FALSE, listed |-> FALSE, lock |-> NoOne, list |-> NoOne]
  /\ shares = [list |-> {}, held |-> FALSE]
  /\ net = NoSession
  /\ rd = [r \in Readers |-> NoPacket]
  /\ call = NoCall
  /\ watch = "asleep"
  /\ left \in Bounds

SocketFree(t) == so.lock \in {NoOne, t}
ListFree == so.list = NoOne

(***************************************************************************)
(* Logout: the thread is told to end, and waited for unless it is the one  *)
(* that logs out; then the socket is closed and the shares are cleared.    *)
(***************************************************************************)
\* More than two seconds may pass before r looks at running again: it waits for
\* the network, or for a lock that somebody keeps meanwhile.
Slow(r) ==
  \/ Head(stack[r]) \in {"write", "hello", "dial", "join"}
  \/ Head(stack[r]) \in {"close", "connect", "undo"} /\ ~SocketFree(r)
  \/ Head(stack[r]) \in {"detach", "nested", "up"} /\ ~ListFree /\ so.lock # NoOne
  \/ Head(stack[r]) \in {"packet", "clear"} /\ shares.held

LogoutBegins(t) ==
  /\ At(t, "logout")
  /\ cl' = [cl EXCEPT !.login = FALSE]
  /\ th' = [th EXCEPT !.running = FALSE]
  /\ Goto(t, IF th.active /\ t # th.tid THEN "join" ELSE "detach")
  /\ UNCHANGED <<so, shares, net, rd, call, watch, left>>

\* Cancel(2): the end of the thread is awaited for two seconds.
Joined(t) ==
  /\ At(t, "join") /\ ~th.active /\ t \notin th.cancelled
  /\ Goto(t, "detach")
  /\ UNCHANGED <<cl, th, so, shares, net, rd, call, watch, left>>

Cancels(t) ==
  /\ At(t, "join") /\ th.active /\ Slow(th.child) /\ t \notin th.cancelled
  /\ th' = [th EXCEPT !.active = FALSE, !.child = NoOne,
                      !.cancelled = @ \cup {th.child},
                      !.own = @ \/ t = th.child]
  /\ Goto(t, "detach")
  /\ UNCHANGED <<cl, so, shares, net, rd, call, watch, left>>

\* A thread that is to be cancelled ends in close(), before anything is closed.
EndsInClose(t) == t \in th.cancelled /\ so.up

\* Mutant: the socket stays on the list of the watcher.
DetachListed(t) ==
  /\ At(t, "detach") /\ ListFree
  /\ th' = [th EXCEPT !.tid = NoOne]
  /\ Goto(t, "close")
  /\ UNCHANGED <<cl, so, shares, net, rd, call, watch, left>>

\* cNetSocket::Disconnect: first off the list of the watcher, then closed.
Detach(t) ==
  /\ At(t, "detach") /\ ListFree
  /\ th' = [th EXCEPT !.tid = NoOne]
  /\ so' = [so EXCEPT !.listed = FALSE]
  /\ Goto(t, "close")
  /\ UNCHANGED <<cl, shares, net, rd, call, watch, left>>

Close(t) ==
  /\ At(t, "close") /\ SocketFree(t) /\ ~EndsInClose(t)
  /\ so' = [so EXCEPT !.up = FALSE]
  /\ net' = NoSession
  /\ Goto(t, "clear")
  /\ UNCHANGED <<cl, th, shares, rd, call, watch, left>>

Clear(t) ==
  /\ At(t, "clear") /\ ~shares.held
  /\ shares' = [shares EXCEPT !.list = {}]
  /\ cl' = [cl EXCEPT !.emm = FALSE, !.pending = 0, !.limit = 0]
  /\ Return(t, TRUE)
  /\ UNCHANGED <<th, so, net, rd, call, watch, left>>

Fails(t) ==
  /\ At(t, "fail")
  /\ Return(t, FALSE)
  /\ UNCHANGED <<cl, th, so, shares, net, rd, call, watch, left>>

(***************************************************************************)
(* Login: log out, connect, exchange the seeds of the ciphers, start the   *)
(* reader.  Connect locks the socket and disconnects inside the lock.      *)
(***************************************************************************)
Login(t, next) ==
  stack' = [stack EXCEPT ![t] = <<"logout", "connect", next>> \o Tail(@)] /\ UNCHANGED ok

Connect(t) ==
  /\ At(t, "connect") /\ SocketFree(t)
  /\ so' = [so EXCEPT !.lock = t]
  /\ Goto(t, "nested")
  /\ UNCHANGED <<cl, th, shares, net, rd, call, watch, left>>

DisconnectInConnect(t) ==
  /\ At(t, "nested") /\ ListFree /\ ~EndsInClose(t)
  /\ so' = [so EXCEPT !.listed = FALSE, !.up = FALSE]
  /\ net' = NoSession
  /\ Goto(t, "dial")
  /\ UNCHANGED <<cl, th, shares, rd, call, watch, left>>

Connected(t) ==
  /\ At(t, "dial") /\ t \notin th.cancelled
  /\ so' = [so EXCEPT !.up = TRUE, !.lock = NoOne]
  /\ Goto(t, "up")
  /\ UNCHANGED <<cl, th, shares, net, rd, call, watch, left>>

ConnectFails(t) ==
  /\ At(t, "dial") /\ t \notin th.cancelled
  /\ so' = [so EXCEPT !.lock = NoOne]
  /\ Goto(t, "undo")
  /\ UNCHANGED <<cl, th, shares, net, rd, call, watch, left>>

DisconnectAfterConnect(t) ==
  /\ At(t, "undo") /\ ListFree /\ SocketFree(t)
  /\ so' = [so EXCEPT !.listed = FALSE, !.up = FALSE]
  /\ net' = NoSession
  /\ Return(t, FALSE)
  /\ UNCHANGED <<cl, th, shares, rd, call, watch, left>>

Up(t) ==
  /\ At(t, "up") /\ ListFree
  /\ so' = [so EXCEPT !.listed = TRUE]
  /\ Goto(t, "hello")
  /\ UNCHANGED <<cl, th, shares, net, rd, call, watch, left>>

\* Welcome, user name, password and client info are exchanged; or the server
\* is gone, silent or refuses.
Welcomed(t) ==
  /\ At(t, "hello") /\ SocketFree(t) /\ t \notin th.cancelled
  /\ net' = [NoSession EXCEPT !.open = TRUE]
  /\ cl' = [cl EXCEPT !.login = TRUE]
  /\ Goto(t, "start")
  /\ UNCHANGED <<th, so, shares, rd, call, watch, left>>

NotWelcomed(t) ==
  /\ At(t, "hello") /\ SocketFree(t) /\ t \notin th.cancelled
  /\ Invoke(t, "logout", "fail")
  /\ UNCHANGED <<cl, th, so, shares, net, rd, call, watch, left>>

\* cThread::Start; Logout has seen to it that no thread is active.
Start(t) ==
  /\ At(t, "start") /\ ~th.running /\ ~th.active
  /\ \E r \in Readers :
       /\ stack[r] = <<>>
       /\ stack' = [stack EXCEPT ![t] = Tail(@), ![r] = <<"begin">>]
       /\ th' = [th EXCEPT !.running = TRUE, !.active = TRUE, !.child = r]
  /\ ok' = [ok EXCEPT ![t] = TRUE]
  /\ UNCHANGED <<cl, so, shares, net, rd, call, watch, left>>

(***************************************************************************)
(* CryptSend encrypts with the state of the session there is now; SendMsg  *)
(* then logs in again if need be, and writes.                              *)
(***************************************************************************)
Encrypts(t) ==
  /\ At(t, "crypt")
  /\ net' = [net EXCEPT !.enc = Append(@, t)]
  /\ Goto(t, "send")
  /\ UNCHANGED <<cl, th, so, shares, rd, call, watch, left>>

Sends(t) ==
  /\ At(t, "send")
  /\ IF so.up THEN Goto(t, "write") ELSE Login(t, "resend")
  /\ UNCHANGED <<cl, th, so, shares, net, rd, call, watch, left>>

Resends(t) ==
  /\ At(t, "resend")
  /\ IF ok[t] THEN Goto(t, "write") ELSE Return(t, FALSE)
  /\ UNCHANGED <<cl, th, so, shares, net, rd, call, watch, left>>

IsAnswer(p) == p.cmd \in {"cw", "no"}
HasAnswer(ps) == \E i \in 1..Len(ps) : IsAnswer(ps[i])
\* Requests of the session that may still be answered, or whose answer has not
\* been dealt with.
Outstanding ==
  net.asked # {} \/ HasAnswer(net.in) \/ \E r \in Readers : HasAnswer(rd[r].buf)

\* The server deciphers a message only if it is the next that was encrypted.
Writes(t) ==
  LET inOrder == ~net.garbled /\ net.enc # <<>> /\ Head(net.enc) = t
      asks == t = Caller /\ call.kind = "ecm"
  IN /\ At(t, "write") /\ so.up /\ SocketFree(t) /\ t \notin th.cancelled
     /\ net' = [net EXCEPT
                  !.enc = SelectSeq(@, LAMBDA u : u # t),
                  !.garbled = ~inOrder,
                  !.asked = IF inOrder /\ asks /\ net.open
                            THEN @ \cup {[ecm |-> call.ecm, share |-> cl.shareid]}
                            ELSE @]
     /\ call' = IF asks THEN [call EXCEPT !.clean = ~Outstanding] ELSE call
     /\ Return(t, TRUE)
     /\ UNCHANGED <<cl, th, so, shares, rd, watch, left>>

\* There is no connection, the server has closed it, or the time is over with
\* the message not written: then it stays in net.enc, as nothing that is
\* written to this session after it can be deciphered.
WriteFails(t) ==
  /\ At(t, "write") /\ SocketFree(t) /\ t \notin th.cancelled
  /\ ~so.up \/ ~net.open \/ left["late"] > 0
  /\ Invoke(t, "logout", "fail")
  /\ UNCHANGED <<cl, th, so, shares, net, rd, call, watch, left>>

(***************************************************************************)
(* ProcessECM: the shares for the ECM are tried in turn.  Every call has an *)
(* ECM of its own, named by its number.                                    *)
(***************************************************************************)
Take(kind) == left[kind] > 0 /\ left' = [left EXCEPT ![kind] = @ - 1]

ProcessECM ==
  /\ Idle /\ Take("ecm")
  /\ call' = [NoCall EXCEPT !.kind = "ecm", !.ecm = left.ecm]
  /\ stack' = [stack EXCEPT ![Caller] = <<"ecm">>]
  /\ UNCHANGED <<ok, cl, th, so, shares, net, rd, watch>>

ChecksLogin ==
  /\ At(Caller, "ecm")
  /\ IF so.up THEN Goto(Caller, "shares") ELSE Login(Caller, "logged")
  /\ UNCHANGED <<cl, th, so, shares, net, rd, call, watch, left>>

LoginReturns ==
  /\ At(Caller, "logged")
  /\ IF ok[Caller] THEN Goto(Caller, "shares") ELSE Invoke(Caller, "logout", "fail")
  /\ UNCHANGED <<cl, th, so, shares, net, rd, call, watch, left>>

\* CanHandle and GetShares: a copy of the shares there are for the ECM.
GetShares ==
  /\ At(Caller, "shares")
  /\ call' = [call EXCEPT !.todo = shares.list]
  /\ IF shares.list = {} THEN Return(Caller, FALSE) ELSE Goto(Caller, "next")
  /\ UNCHANGED <<cl, th, so, shares, net, rd, watch, left>>

\* pendingDCW++ reads and writes; pendingDCW-- of the reader may be in between.
NextShare ==
  /\ At(Caller, "next")
  /\ \E s \in call.todo :
       /\ cl' = [cl EXCEPT !.shareid = s]
       /\ call' = [call EXCEPT !.todo = @ \ {s}, !.tried = TRUE, !.pending = cl.pending]
  /\ Goto(Caller, "pending")
  /\ UNCHANGED <<th, so, shares, net, rd, watch, left>>

\* No share is left, or MAX_ECM_TIME is over.
NoMoreShares ==
  /\ At(Caller, "next") /\ call.tried
  /\ Return(Caller, FALSE)
  /\ call' = NoCall
  /\ UNCHANGED <<cl, th, so, shares, net, rd, watch, left>>

SendsEcm ==
  /\ At(Caller, "pending")
  /\ cl' = [cl EXCEPT !.pending = call.pending + 1]
  /\ Invoke(Caller, "crypt", "asked")
  /\ UNCHANGED <<th, so, shares, net, rd, call, watch, left>>

StartsToWait ==
  /\ At(Caller, "asked")
  /\ IF ok[Caller]
     THEN /\ cl' = [cl EXCEPT !.newcw = FALSE]
          /\ call' = [call EXCEPT !.woken = FALSE]
          /\ Goto(Caller, "waiting")
     ELSE Return(Caller, FALSE) /\ UNCHANGED <<cl, call>>
  /\ UNCHANGED <<th, so, shares, net, rd, watch, left>>

\* Mutant: whoever is woken takes the key there is.
WakesUpAlways ==
  /\ At(Caller, "waiting") /\ call.woken
  /\ Return(Caller, TRUE)
  /\ call' = NoCall
  /\ UNCHANGED <<cl, th, so, shares, net, rd, watch, left>>

WakesUp ==
  /\ At(Caller, "waiting") /\ call.woken
  /\ IF cl.newcw THEN Return(Caller, TRUE) /\ call' = NoCall
                 ELSE Goto(Caller, "next") /\ UNCHANGED call
  /\ UNCHANGED <<cl, th, so, shares, net, rd, watch, left>>

\* MAXLAG has passed, and with it MAX_ECM_TIME.
TimesOut ==
  /\ At(Caller, "waiting") /\ ~call.woken
  /\ Return(Caller, FALSE)
  /\ call' = NoCall
  /\ UNCHANGED <<cl, th, so, shares, net, rd, watch, left>>

(***************************************************************************)
(* ProcessEMM: sends while it holds the list of shares.                    *)
(***************************************************************************)
ProcessEMM ==
  /\ Idle /\ cl.emm /\ Take("emm")
  /\ call' = [NoCall EXCEPT !.kind = "emm"]
  /\ stack' = [stack EXCEPT ![Caller] = <<"emm">>]
  /\ UNCHANGED <<ok, cl, th, so, shares, net, rd, watch>>

SendsEmm ==
  /\ At(Caller, "emm")
  /\ shares' = [shares EXCEPT !.held = TRUE]
  /\ IF shares.list = {} THEN Goto(Caller, "emmSent")
                         ELSE Invoke(Caller, "crypt", "emmSent")
  /\ UNCHANGED <<cl, th, so, net, rd, call, watch, left>>

EmmSent ==
  /\ At(Caller, "emmSent")
  /\ shares' = [shares EXCEPT !.held = FALSE]
  /\ Return(Caller, TRUE)
  /\ UNCHANGED <<cl, th, so, net, rd, call, watch, left>>

(***************************************************************************)
(* The reader: Action and PacketAnalyzer.                                  *)
(***************************************************************************)
ReaderBegins(r) ==
  /\ At(r, "begin")
  /\ th' = [th EXCEPT !.tid = r]
  /\ Goto(r, "loop")
  /\ UNCHANGED <<cl, so, shares, net, rd, call, watch, left>>

Polls(r) == At(r, "loop") /\ th.running /\ so.up /\ r \notin th.cancelled

Reads(r) ==
  /\ Polls(r) /\ SocketFree(r) /\ net.in # <<>>
  /\ rd' = [rd EXCEPT ![r].buf = net.in]
  /\ net' = [net EXCEPT !.in = <<>>]
  /\ Goto(r, "packet")
  /\ UNCHANGED <<cl, th, so, shares, call, watch, left>>

\* Mutant: the reader ends, but nobody logs out.
ReadsEofLeaves(r) ==
  /\ Polls(r) /\ SocketFree(r) /\ net.in = <<>> /\ ~net.open
  /\ th' = [th EXCEPT !.running = FALSE]
  /\ Goto(r, "packet")
  /\ UNCHANGED <<cl, so, shares, net, rd, call, watch, left>>

\* Mutant: the end of the stream is taken for no data.
ReadsEofSilent(r) ==
  /\ Polls(r) /\ SocketFree(r) /\ net.in = <<>> /\ ~net.open
  /\ Goto(r, "packet")
  /\ UNCHANGED <<cl, th, so, shares, net, rd, call, watch, left>>

\* RecvMsg finds the end of the stream and logs out.
ReadsEof(r) ==
  /\ Polls(r) /\ SocketFree(r) /\ net.in = <<>> /\ ~net.open
  /\ Invoke(r, "logout", "packet")
  /\ UNCHANGED <<cl, th, so, shares, net, rd, call, watch, left>>

\* Two minutes after the last message: with packets or without, after Logout too.
Pings(r) ==
  /\ \/ Polls(r) /\ net.in = <<>> /\ net.open
     \/ At(r, "packet") /\ rd[r].buf = <<>>
  /\ Take("ping")
  /\ Invoke(r, "crypt", "loop")
  /\ UNCHANGED <<cl, th, so, shares, net, rd, call, watch>>

Packet(r, cmd) ==
  At(r, "packet") /\ rd[r].buf # <<>> /\ Head(rd[r].buf).cmd = cmd
Popped(r) == [rd EXCEPT ![r].buf = Tail(@)]

AddShare(r) ==
  /\ Packet(r, "add") /\ ~shares.held
  /\ shares' = [shares EXCEPT !.list = @ \cup {Head(rd[r].buf).share}]
  /\ cl' = [cl EXCEPT !.emm = TRUE]
  /\ rd' = Popped(r)
  /\ UNCHANGED <<stack, ok, th, so, net, call, watch, left>>

DelShare(r) ==
  LET rest == shares.list \ {Head(rd[r].buf).share}
  IN /\ Packet(r, "del") /\ ~shares.held
     /\ shares' = [shares EXCEPT !.list = rest]
     /\ cl' = [cl EXCEPT !.emm = @ /\ rest # {}]
     /\ rd' = Popped(r)
     /\ UNCHANGED <<stack, ok, th, so, net, call, watch, left>>

\* Commands 05 and 0b are answered; a question in an unknown mode limits the
\* keys the server will give.
Answers(r) ==
  /\ Packet(r, "ask")
  /\ cl' = [cl EXCEPT !.limit = IF Head(rd[r].buf).known THEN 0
                                ELSE IF @ = 0 THEN KeyLimit ELSE @]
  /\ rd' = Popped(r)
  /\ Invoke(r, "crypt", "packet")
  /\ UNCHANGED <<th, so, shares, net, call, watch, left>>

\* pendingDCW--, read ...
SeesAnswer(r) ==
  /\ At(r, "packet") /\ rd[r].buf # <<>> /\ IsAnswer(Head(rd[r].buf))
  /\ rd' = [rd EXCEPT ![r].pending = cl.pending]
  /\ Goto(r, "counted")
  /\ UNCHANGED <<cl, th, so, shares, net, call, watch, left>>

\* ... and written.
Counts(r) ==
  /\ At(r, "counted")
  /\ cl' = IF rd[r].pending > 0 THEN [cl EXCEPT !.pending = rd[r].pending - 1] ELSE cl
  /\ Goto(r, Head(rd[r].buf).cmd)
  /\ UNCHANGED <<th, so, shares, net, rd, call, watch, left>>

\* cwwait.Broadcast()
Broadcast == call' = [call EXCEPT !.woken = At(Caller, "waiting")]

\* The key is unscrambled with the share asked last: another one spoils it, and
\* its checksum.  With nothing pending the checksum does not matter.
Unscrambles(r) ==
  LET p == Head(rd[r].buf)
      good == p.share = cl.shareid
  IN /\ At(r, "cw")
     /\ rd' = [rd EXCEPT ![r].cw = IF good THEN p.ecm ELSE Garbage,
                         ![r].take = good \/ cl.pending = 0]
     /\ Goto(r, "deliver")
     /\ UNCHANGED <<cl, th, so, shares, net, call, watch, left>>

\* Then if(maxecmcount>0 && --maxecmcount<2) Logout(); the rest of the buffer
\* follows all the same.
Delivers(r) ==
  /\ At(r, "deliver")
  /\ cl' = [cl EXCEPT !.newcw = @ \/ rd[r].take,
                      !.cw = IF rd[r].take THEN rd[r].cw ELSE @,
                      !.limit = IF @ > 0 THEN @ - 1 ELSE 0]
  /\ IF rd[r].take THEN Broadcast ELSE UNCHANGED call
  /\ rd' = [rd EXCEPT ![r] = [NoPacket EXCEPT !.buf = Tail(rd[r].buf)]]
  /\ IF cl.limit \in 1..2 THEN Invoke(r, "logout", "packet") ELSE Goto(r, "packet")
  /\ UNCHANGED <<th, so, shares, net, watch, left>>

CannotDecode(r) ==
  /\ At(r, "no")
  /\ cl' = [cl EXCEPT !.newcw = FALSE]
  /\ Broadcast
  /\ rd' = [rd EXCEPT ![r] = [NoPacket EXCEPT !.buf = Tail(rd[r].buf)]]
  /\ Goto(r, "packet")
  /\ UNCHANGED <<th, so, shares, net, watch, left>>

EndOfBuffer(r) ==
  /\ At(r, "packet") /\ rd[r].buf = <<>>
  /\ Goto(r, "loop")
  /\ UNCHANGED <<cl, th, so, shares, net, rd, call, watch, left>>

\* Action returns and StartThread ends, whichever thread is the current one.
ReaderEnds(r) ==
  /\ At(r, "loop") /\ (~th.running \/ ~so.up) /\ r \notin th.cancelled
  /\ th' = [th EXCEPT !.running = FALSE, !.active = FALSE, !.tid = NoOne]
  /\ stack' = [stack EXCEPT ![r] = <<>>]
  /\ UNCHANGED <<ok, cl, so, shares, net, rd, call, watch, left>>

\* A cancelled thread ends where it next sleeps, connects, reads or writes; a
\* cMutexLock is undone, the lock that Connect took is not.
Dies(r) ==
  /\ r \in th.cancelled /\ stack[r] # <<>>
  /\ \/ Head(stack[r]) \in {"loop", "write", "hello", "dial", "join"}
     \/ Head(stack[r]) \in {"close", "nested"} /\ so.up
  /\ stack' = [stack EXCEPT ![r] = <<>>]
  /\ th' = [th EXCEPT !.cancelled = @ \ {r}]
  /\ so' = [so EXCEPT !.lock = IF @ = r THEN Dead ELSE @]
  /\ rd' = [rd EXCEPT ![r] = NoPacket]
  /\ UNCHANGED <<ok, cl, shares, net, call, watch, left>>

(***************************************************************************)
(* cNetWatcher::Action.  A reader polls all the time, which is activity:   *)
(* the watcher never finds the socket idle, and only takes its locks.      *)
(***************************************************************************)
WatcherLocks ==
  /\ watch = "asleep" /\ ListFree /\ so.listed /\ Take("watch")
  /\ so' = [so EXCEPT !.list = "watcher"]
  /\ watch' = "socket"
  /\ UNCHANGED <<stack, ok, cl, th, shares, net, rd, call>>

WatcherLooks ==
  /\ watch = "socket" /\ so.lock = NoOne
  /\ so' = [so EXCEPT !.list = NoOne]
  /\ watch' = "asleep"
  /\ UNCHANGED <<stack, ok, cl, th, shares, net, rd, call, left>>

(***************************************************************************)
(* The server: announces and withdraws shares, asks, answers in any order  *)
(* or not at all, and closes.                                              *)
(***************************************************************************)
Pushes(p) ==
  /\ net.open /\ ~net.garbled /\ Len(net.in) < MaxIn
  /\ net' = [net EXCEPT !.in = Append(@, p),
                        !.asked = IF IsAnswer(p) THEN @ \ {[ecm |-> p.ecm, share |-> p.share]}
                                  ELSE @,
                        !.told = CASE p.cmd = "add" -> @ \cup {p.share}
                                   [] p.cmd = "del" -> @ \ {p.share}
                                   [] OTHER -> @]
  /\ UNCHANGED <<stack, ok, cl, th, so, shares, rd, call, watch>>

Announces ==
  \E s \in Shares :
    /\ Take("share")
    /\ Pushes([cmd |-> IF s \in net.told THEN "del" ELSE "add", share |-> s])
Questions ==
  \E known \in BOOLEAN : Take("ask") /\ Pushes([cmd |-> "ask", known |-> known])
Replies ==
  /\ \E q \in net.asked, cmd \in {"cw", "no"} :
       Pushes([cmd |-> cmd, ecm |-> q.ecm, share |-> q.share])
  /\ UNCHANGED left
ServerCloses ==
  /\ net.open /\ Take("close")
  /\ net' = [net EXCEPT !.open = FALSE, !.asked = {}, !.told = {}]
  /\ UNCHANGED <<stack, ok, cl, th, so, shares, rd, call, watch>>

ThreadStep(t) ==
  \/ LogoutBegins(t) \/ Joined(t) \/ Cancels(t) \/ Detach(t) \/ Close(t)
  \/ Clear(t) \/ Fails(t) \/ Connect(t)
  \/ DisconnectInConnect(t) \/ Connected(t) \/ ConnectFails(t)
  \/ DisconnectAfterConnect(t) \/ Up(t) \/ Welcomed(t) \/ NotWelcomed(t) \/ Start(t)
  \/ Encrypts(t) \/ Sends(t) \/ Resends(t) \/ Writes(t) \/ WriteFails(t)

CallerStep ==
  \/ ThreadStep(Caller) \/ ChecksLogin \/ LoginReturns \/ GetShares \/ NextShare
  \/ NoMoreShares \/ SendsEcm \/ StartsToWait \/ WakesUp \/ TimesOut
  \/ SendsEmm \/ EmmSent

ReaderStep(r) ==
  \/ ThreadStep(r) \/ ReaderBegins(r) \/ Reads(r) \/ ReadsEof(r) \/ AddShare(r)
  \/ DelShare(r) \/ Answers(r) \/ SeesAnswer(r) \/ Counts(r) \/ Unscrambles(r)
  \/ Delivers(r) \/ CannotDecode(r) \/ EndOfBuffer(r)
  \/ ReaderEnds(r) \/ Dies(r)

WatcherStep == WatcherLocks \/ WatcherLooks

ClientNext ==
  \/ ProcessECM \/ ProcessEMM \/ CallerStep
  \/ \E r \in Readers : ReaderStep(r) \/ Pings(r)
  \/ WatcherStep
  \/ Announces \/ Questions \/ Replies \/ ServerCloses

\* A thread that waits for a mutex which others take for moments, the watcher
\* once a second, gets it at last.  Nothing is asked of the applications and of
\* the server.
Fairness ==
  /\ SF_clientVars(CallerStep)
  /\ \A r \in Readers : SF_clientVars(ReaderStep(r))
  /\ SF_clientVars(WatcherStep)

ClientSpec == ClientInit /\ [][ClientNext]_clientVars
FairClient == ClientSpec /\ Fairness

Labels ==
  {"logout", "join", "detach", "close", "clear", "fail", "connect",
   "nested", "dial", "undo", "up", "hello", "start", "crypt", "send", "resend",
   "write", "ecm", "logged", "shares", "next", "pending", "asked", "waiting",
   "emm", "emmSent", "begin", "loop", "packet", "counted", "cw", "no",
   "deliver"}

\* Every variable keeps its range, and what the abstraction of Login and Start
\* relies on holds: nobody else closes the socket of a login, and Start finds
\* no active thread.
ClientTypeOK ==
  /\ \A t \in Threads : \A i \in 1..Len(stack[t]) : stack[t][i] \in Labels
  /\ ok \in [Threads -> BOOLEAN]
  /\ cl.pending \in Nat /\ cl.limit \in 0..KeyLimit /\ cl.shareid \in Shares \cup {NoOne}
  /\ th.child \in Readers \cup {NoOne} /\ th.tid \in Readers \cup {NoOne}
  /\ so.lock \in Threads \cup {NoOne, Dead} /\ so.list \in {NoOne, "watcher"}
  /\ shares.list \subseteq Shares
  /\ \A t \in Threads : At(t, "hello") => so.up

(***************************************************************************)
(* Safety.                                                                 *)
(***************************************************************************)
\* The key ProcessECM returns is that of its own ECM, if no earlier request
\* could still be answered when it sent its own (cccam2.c:1187 warns of others).
OwnKey ==
  [][At(Caller, "waiting") /\ Idle' /\ ok'[Caller] /\ call.clean
     => cl.cw = call.ecm]_clientVars

\* Between two calls a connected socket has a reader: without one no answer
\* comes, and nobody would notice, since the socket counts as connected.  (A
\* reader that has cancelled itself may yet undo what the next Login does.)
HasReader ==
  Idle /\ so.up /\ ~th.own => th.active

(***************************************************************************)
(* Liveness.                                                               *)
(***************************************************************************)
\* The thread of ProcessEMM waits for its own read lock; the lock of the socket
\* belongs to a thread that is gone.
SelfLocked == At(Caller, "clear") /\ shares.held /\ call.kind = "emm"
Lost == SelfLocked \/ so.lock = Dead

\* A call returns, unless the client is lost in one of the two known ways: no
\* thread waits for ever for the reader, for an answer or for a lock.
CallReturns == ~Idle ~> (Idle \/ Lost)

\* That the server has closed is noticed: the socket does not stay connected.
CloseNoticed == (so.up /\ ~net.open) ~> (~so.up \/ net.open \/ Lost \/ th.own)

(***************************************************************************)
(* What the code does not keep (README).                                   *)
(***************************************************************************)
\* The messages reach the server in the order they were encrypted in.
InCipherOrder == ~net.garbled
\* ProcessEMM never waits for the lock of the shares it holds itself.
EmmNeverSelfLocks == ~SelfLocked
\* A reader never waits for its own end, to cancel itself after two seconds.
NeverOwnEnd == ~th.own
\* The mutex of the socket has a living owner.
SocketNotLost == so.lock # Dead
\* A call that waits for its answer has not missed it.
AnswerNotMissed ==
  At(Caller, "waiting") /\ ~call.woken /\ net.open /\ ~net.garbled => Outstanding

(***************************************************************************)
(* What the proofs rest on.                                                *)
(***************************************************************************)
Top(s)  == IF s = <<>> THEN "none" ELSE Head(s)
Outs    == {"logout", "join", "detach", "close", "clear"}
Logins  == {"connect", "nested", "dial", "undo", "up", "hello", "start"}
Sending == {"crypt", "send", "resend", "write"}

\* The labels at which a procedure goes on when its call, at label l, returns.
Under(l) ==
  CASE l \in Outs    -> {"connect", "fail", "packet"}
    [] l \in Logins  -> {"logged", "resend"}
    [] l \in Sending -> {"asked", "emmSent", "loop", "packet"}
    [] l = "fail"    -> {"logged", "resend", "asked", "emmSent", "loop", "packet"}
    [] OTHER         -> {}
Nested(s) == \A i \in 2..Len(s) : s[i] \in Under(s[i - 1])

Requests == [ecm : Nat, share : Shares \cup {NoOne}]
Packets  == [cmd : {"add", "del"}, share : Shares] \cup [cmd : {"ask"}, known : BOOLEAN]
              \cup [cmd : {"cw", "no"}, ecm : Nat, share : Shares \cup {NoOne}]

\* Stacks of procedures.
Stacks ==
  /\ stack \in [Threads -> Seq(Labels)] /\ \A t \in Threads : Nested(stack[t])
  /\ ok \in [Threads -> BOOLEAN]

\* Fields, and which packet is being dealt with.
Fields ==
  /\ th \in [running : BOOLEAN, active : BOOLEAN, child : Readers \cup {NoOne},
             tid : Readers \cup {NoOne}, cancelled : SUBSET Readers, own : BOOLEAN]
  /\ th.active => th.child \in Readers
  /\ so = [up |-> so.up, listed |-> so.listed, lock |-> so.lock, list |-> so.list]
  /\ shares \in [list : SUBSET Shares, held : BOOLEAN]
  /\ cl = [login |-> cl.login, shareid |-> cl.shareid, pending |-> cl.pending, limit |-> cl.limit,
           emm |-> cl.emm, newcw |-> cl.newcw, cw |-> cl.cw]
  /\ cl.shareid \in Shares \cup {NoOne}
  /\ net = [open |-> net.open, told |-> net.told, asked |-> net.asked, in |-> net.in,
            enc |-> net.enc, garbled |-> net.garbled]
  /\ net.in \in Seq(Packets) /\ net.asked \subseteq Requests
  /\ call = [kind |-> call.kind, ecm |-> call.ecm, todo |-> call.todo, pending |-> call.pending,
             tried |-> call.tried, clean |-> call.clean, woken |-> call.woken]
  /\ call.todo \subseteq Shares /\ call.ecm \in Nat /\ (call.clean => call.kind = "ecm")
  /\ left \in [Kinds -> Nat]
Buffers ==
  /\ rd = [r \in Readers |-> rd[r]]
  /\ \A r \in Readers :
       /\ rd[r] = [buf |-> rd[r].buf, pending |-> rd[r].pending, take |-> rd[r].take,
                   cw |-> rd[r].cw]
       /\ rd[r].buf \in Seq(Packets)
       /\ Top(stack[r]) \in {"counted", "cw", "no", "deliver"} =>
            rd[r].buf # <<>> /\ IsAnswer(Head(rd[r].buf))

\* The thread that will wait for its own lock: it does not come back.
Doomed == shares.held /\ Top(stack[Caller]) \in {"detach", "close", "clear"}

\* A reader that logs in waits for its own end first, and gets no further; what
\* it does at the bottom returns to nothing.
ReaderShape(s) ==
  /\ Head(s) \notin Logins \cup {"resend"}
  /\ \A i \in 2..Len(s) :
       \/ s[i] \in {"fail", "loop", "packet"}
       \/ i = 2 /\ s[i] = "connect" /\ Head(s) \in {"logout", "join"}
       \/ i = 3 /\ s[i] = "resend" /\ s[2] = "connect"
  /\ Under(s[Len(s)]) = {}

\* A reader was cancelled where it waits, or it is the one there is.
ReaderInv(r) ==
  LET s == stack[r]
  IN /\ r \in th.cancelled => Top(s) \in {"write", "join"}
     /\ s # <<>> => ReaderShape(s)
     /\ s # <<>> /\ r \notin th.cancelled =>
          /\ th.active /\ th.child = r
          /\ th.tid = r => Head(s) # "close" /\ ~(Len(s) > 1 /\ s[2] = "connect")
          /\ th.tid = r \/ Head(s) = "begin" => so.up

\* The caller logs in without a reader, and brings the socket up with one.
SocketInv ==
  LET h == Top(stack[Caller])
  IN /\ h \in {"detach", "close", "clear"} \cup Logins => ~th.active
     /\ so.up /\ ~th.active => h \in {"logout", "join", "detach", "close", "up", "hello", "start"}
     /\ h \in {"up", "hello", "start"} => so.up
     /\ so.lock \in {NoOne, Caller} /\ (so.lock = Caller => h \in {"nested", "dial"})
     /\ th.active => stack[th.child] # <<>> /\ th.child \notin th.cancelled
     /\ th.active /\ ~th.running /\ so.up =>
          h = "join" \/ Top(stack[th.child]) \in {"join", "detach", "close"}

SessionInv == th.own \/ Doomed \/ (SocketInv /\ \A r \in Readers : ReaderInv(r))

\* While a call waits whose request was the only one, so are the answers.
OnlyOwn(ps) ==
  \A i \in 1..Len(ps) : IsAnswer(ps[i]) => ps[i].ecm = call.ecm /\ ps[i].share = cl.shareid
AnswerInv ==
  LET h == Top(stack[Caller])
  IN call.clean /\ (h = "asked" => ok[Caller]) /\ h \in {"asked", "waiting"} =>
       /\ \A q \in net.asked : q.ecm = call.ecm /\ q.share = cl.shareid
       /\ OnlyOwn(net.in) /\ \A r \in Readers : OnlyOwn(rd[r].buf)
       /\ \A r \in Readers : Top(stack[r]) = "deliver" /\ rd[r].take => rd[r].cw = call.ecm
       /\ h = "waiting" /\ cl.newcw => cl.cw = call.ecm
===============================================================================
