------------------------------ MODULE DvrRing -------------------------------
(***************************************************************************)
(* The ring buffer between the real DVR device and the application, and    *)
(* the descrambler that works in it.                                       *)
(*                                                                         *)
(* Three threads share it.  The reader is the request thread of the DVR    *)
(* device (plugin_ringbuf.c): it serves the application's calls, and it is *)
(* also the one that fills the buffer from the real device.  The           *)
(* descrambler is the thread of the high priority queue (plugin_ffdecsa.c, *)
(* process_ffd): it advances csaPtr.  Key commands (update_keys) arrive    *)
(* from the conditional access core.                                       *)
(*                                                                         *)
(* Offsets replace pointers: rb->buffer is 0 and rb->end is Size.  What    *)
(* lies in the buffer is a ghost: content gives the number of each byte in *)
(* the device's stream, modulo Numbers.                                    *)
(***************************************************************************)
EXTENDS Integers, Sequences, SequencesExt

CONSTANTS
  Packet,    \* TSPacketSIZE
  Size,      \* rbsize
  Reserved,  \* room behind the end, rbsize / 20
  Cluster,   \* cluster_size_bytes of the descrambler
  Counts,    \* how many bytes an application asks for
  Modes,     \* subset of {"block", "nonblock"}: flags of the file
  Commands,  \* key commands, subset of {"P", "EO", "C", "I", "other"}
  Moments,   \* when they come: subset of {"closed", "idle", "busy"}
  Faults     \* subset of {"dry", "abort", "flood"}: the device fails, another
             \* request waits, the device has more than the room it is given

ASSUME ConstantsAssumption ==
  /\ Packet \in Nat \ {0} /\ Reserved \in Nat /\ Cluster \in Nat
  /\ Size \in Nat \ {0} /\ Size % Packet = 0 /\ Size > 2 * Packet
  /\ Counts \subseteq Nat \ {0}
  /\ Modes \subseteq {"block", "nonblock"}
  /\ Commands \subseteq {"P", "EO", "C", "I", "other"}
  /\ Moments \subseteq {"closed", "idle", "busy"}
  /\ Faults \subseteq {"dry", "abort", "flood"}

Numbers == 2 * Size

VARIABLES
  rbstate,              \* rb->state
  rdPtr, wrPtr, csaPtr,
  cstate,               \* csa->state
  plain,                \* the packet at csaPtr has been descrambled
  csarb,                \* csa->rb points to the ring buffer
  mapped,               \* csa->pid_map is not empty
  keys,                 \* the index in use is valid and has both keys
  queue,                \* MSG_RINGBUF ("buf"), MSG_RINGCLOSE ("close")
  mode,                 \* rb->flags
  rpc, want, try, got, avail,    \* the reader's place and locals
  fpc, bytes, force, at,         \* the descrambler's place and locals
  content, given        \* ghosts: the bytes, the number of the next to give

reader == <<rpc, want, try, got, avail>>
worker == <<fpc, bytes, force, at>>
csa    == <<csaPtr, cstate, csarb, plain>>
store  == <<wrPtr, content>>
vars   == <<rbstate, rdPtr, store, csa, mapped, keys, queue, mode, reader,
            worker, given>>

Init ==
  /\ rbstate = "closed" /\ rdPtr = 0 /\ wrPtr = 0 /\ csaPtr = 0
  /\ cstate = "clear" /\ csarb = FALSE /\ plain = FALSE
  /\ mapped = FALSE /\ keys = FALSE
  /\ queue = <<>> /\ mode = "block"
  /\ rpc = "idle" /\ want = 0 /\ try = 0 /\ got = 0 /\ avail = 0
  /\ fpc = "idle" /\ bytes = 0 /\ force = FALSE /\ at = 0
  /\ content = [i \in 0 .. Size + Reserved - 1 |-> 0] /\ given = 0

Aborted == rpc = "abort" \/ fpc = "abort"   \* an assertion ended the daemon

-----------------------------------------------------------------------------
(* Helpers.                                                                *)

Lesser(a, b) == IF a < b THEN a ELSE b

\* rb_max_free: the bytes that fit behind wrPtr, into the reserved room too.
MaxFree ==
  IF wrPtr >= rdPtr THEN Size - wrPtr + Lesser(rdPtr, Reserved) - Packet
                    ELSE rdPtr - wrPtr - Packet

\* rb_avail without a descrambler: all but the last packet.
RawAvail ==
  IF rdPtr > wrPtr THEN Size - rdPtr + wrPtr - Packet
                   ELSE wrPtr - rdPtr - Packet

Unread == (wrPtr - rdPtr) % Size

\* The byte at distance i from rdPtr.
Position(i) == IF rdPtr + i < Size THEN rdPtr + i ELSE rdPtr + i - Size

\* msg_replace: one message of each kind at most.
Send(q, m) == IF Contains(q, m) THEN q ELSE Append(q, m)

\* The real device delivers whole packets.  When it has more than the room it
\* is given, the room is filled, and the rest of the packet comes next.
Deliverable(n) == {k \in 1 .. n : \/ (wrPtr + k) % Packet = 0
                                  \/ k = n /\ "flood" \in Faults}

\* Mutant: what was read past the end is not copied to the front.
StoreUncopied(k) ==
  /\ wrPtr' = IF wrPtr + k >= Size THEN wrPtr + k - Size ELSE wrPtr + k
  /\ content' = [i \in DOMAIN content |->
                   IF i \in wrPtr .. wrPtr + k - 1
                   THEN (given + Unread + i - wrPtr) % Numbers
                   ELSE content[i]]

\* k bytes are read to wrPtr; what lies behind the end is copied to the front.
Store(k) ==
  LET num(i) == (given + Unread + i - wrPtr) % Numbers
      new    == wrPtr .. wrPtr + k - 1
  IN /\ wrPtr' = IF wrPtr + k >= Size THEN wrPtr + k - Size ELSE wrPtr + k
     /\ content' = [i \in DOMAIN content |->
                      IF i + Size \in new THEN num(i + Size)
                      ELSE IF i \in new THEN num(i) ELSE content[i]]

Encrypted == \/ cstate = "ready"
             \/ cstate = "not_ready" /\ mapped

\* csaPtr starts at the first packet that is unread as a whole.
Aligned == IF rdPtr % Packet = 0 THEN rdPtr
           ELSE LET c == rdPtr + Packet - (rdPtr % Packet)
                IN IF c > Size THEN c - Size ELSE c

\* Mutant: the pointer of the previous encrypted stretch is kept.
CheckStateKeepsPtr ==
  IF cstate = "not_ready" /\ mapped
  THEN /\ cstate' = "ready"
       /\ csarb' = (csarb \/ rbstate = "open")
       /\ UNCHANGED <<csaPtr, plain>>
  ELSE UNCHANGED csa

\* check_state: the first look at the stream after the keys came.
CheckState ==
  IF cstate = "not_ready" /\ mapped
  THEN /\ cstate' = "ready"
       /\ IF rbstate = "open"
          THEN csarb' = TRUE /\ csaPtr' = Aligned /\ plain' = FALSE
          ELSE UNCHANGED <<csarb, csaPtr, plain>>
  ELSE UNCHANGED csa

Between(c) == \/ rdPtr <= c /\ c <= wrPtr
              \/ wrPtr < rdPtr /\ (rdPtr <= c \/ c <= wrPtr)

\* The bytes between rdPtr and a csaPtr at c.
Processed(c) == IF rdPtr <= c THEN c - rdPtr ELSE Size - rdPtr + c

-----------------------------------------------------------------------------
(* The reader: open, close, poll and read of the DVR device.               *)

Reads == rpc = "idle" /\ rbstate = "open"

\* open_call waits while the state is RB_CLOSING.
OpenCall ==
  /\ rpc = "idle" /\ rbstate = "closed"
  /\ rbstate' = "open" /\ rdPtr' = 0 /\ wrPtr' = 0 /\ given' = 0
  /\ mode' \in Modes
  /\ UNCHANGED <<csa, mapped, keys, queue, reader, worker, content>>

\* close_call: the state changes first, then the descrambler is told.
CloseCall ==
  /\ Reads
  /\ rbstate' = "closing" /\ queue' = Send(queue, "close")
  /\ UNCHANGED <<rdPtr, store, csa, mapped, keys, mode, reader, worker, given>>

\* poll_call: the buffer is filled first if the real device has data.
PollCall ==
  /\ Reads
  /\ rpc' \in {"fill_poll", "avail_poll"}
  /\ UNCHANGED <<rbstate, rdPtr, store, csa, mapped, keys, queue, mode, want,
                 try, got, avail, worker, given>>

ReadCall ==
  /\ Reads
  /\ want' \in Counts
  /\ try' = IF want' % Packet = 0 THEN want' ELSE want' + Packet - (want' % Packet)
  /\ rpc' = "avail"
  /\ UNCHANGED <<rbstate, rdPtr, store, csa, mapped, keys, queue, mode, got,
                 avail, worker, given>>

Fill ==
  /\ rpc \in {"fill", "fill_poll"}
  /\ \/ /\ \E k \in Deliverable(MaxFree - (MaxFree % Packet)) : Store(k)
        /\ queue' = Send(queue, "buf")
     \/ /\ rpc = "fill" \/ MaxFree < Packet
        /\ UNCHANGED <<store, queue>>
  /\ rpc' = IF rpc = "fill" THEN "idle" ELSE "avail_poll"
  /\ UNCHANGED <<rbstate, rdPtr, csa, mapped, keys, mode, want, try, got,
                 avail, worker, given>>

\* Where the reader goes when rb_avail has returned n.
AfterAvail(n) ==
  CASE rpc = "avail_poll" -> "idle"
    [] rpc = "avail" /\ mode = "nonblock" -> IF n > 0 THEN "get" ELSE "fill"
    [] rpc = "avail" /\ mode = "block" ->
         IF n > 0 /\ n >= want THEN "get" ELSE "choose"
    [] rpc = "avail_need" -> "avail_again"
    [] rpc = "avail_again" -> IF n >= want THEN "get_again" ELSE "choose"

Need == IF rpc = "avail_need" THEN want ELSE 0

\* rb_avail and, when there is a descrambler to ask, check_encrypted.
Avail ==
  /\ rpc \in {"avail_poll", "avail", "avail_need", "avail_again"}
  /\ IF RawAvail # 0 /\ RawAvail >= Need /\ Encrypted
     THEN /\ CheckState
          /\ IF ~csarb' \/ ~Between(csaPtr')
             THEN rpc' = "abort" /\ UNCHANGED <<avail, queue>>
             ELSE LET n == Processed(csaPtr')
                      waits == n < Need
                  IN /\ avail' = IF rpc = "avail" THEN n ELSE 0
                     /\ rpc' = IF waits THEN "wait" ELSE AfterAvail(n)
                     /\ queue' = IF waits THEN Send(queue, "buf") ELSE queue
     ELSE /\ avail' = IF rpc = "avail" THEN RawAvail ELSE 0
          /\ rpc' = AfterAvail(RawAvail)
          /\ UNCHANGED <<csa, queue>>
  /\ try' = IF rpc = "avail_again" THEN Packet ELSE try
  /\ UNCHANGED <<rbstate, rdPtr, store, mapped, keys, mode, want, got, worker,
                 given>>

\* rb_get_bytes of n bytes.
Get(n) ==
  /\ rdPtr' = IF rdPtr + n > Size THEN rdPtr + n - Size ELSE rdPtr + n
  /\ given' = (given + n) % Numbers
  /\ avail' = 0
  /\ UNCHANGED <<rbstate, store, csa, mapped, keys, queue, mode, want, got,
                 worker>>

\* Half or a quarter of what was read is fetched again when there is plenty.
Refill == CASE avail > want * 16 -> want \div 4
            [] avail <= want * 16 /\ avail > want * 4 -> want \div 2
            [] OTHER -> try

GetBytes ==
  \/ /\ rpc = "get" /\ mode = "nonblock"
     /\ Get(Lesser(avail, want))
     /\ rpc' = "fill" /\ UNCHANGED try
  \/ /\ rpc = "get" /\ mode = "block"
     /\ Get(want)
     /\ try' = Refill
     /\ rpc' = IF Refill >= Packet THEN "block" ELSE "idle"
  \/ /\ rpc = "get_again"
     /\ Get(want)
     /\ rpc' = "idle" /\ UNCHANGED try

\* Not enough data: more is read, or the descrambler is waited for.
Choose ==
  /\ rpc = "choose"
  /\ rpc' = IF MaxFree >= try THEN "block_again" ELSE "avail_need"
  /\ UNCHANGED <<rbstate, rdPtr, store, csa, mapped, keys, queue, mode, want,
                 try, got, avail, worker, given>>

\* rb_fill_bytes_block: one turn of its loop, or its end.
AfterBlock == IF rpc = "block" THEN "idle" ELSE "avail_again"

BlockLoop == got < try - (try % Packet) /\ MaxFree > 0

BlockRead ==
  /\ rpc \in {"block", "block_again"} /\ BlockLoop
  /\ \E k \in Deliverable(MaxFree) : Store(k) /\ got' = got + k
  /\ UNCHANGED <<rbstate, rdPtr, csa, mapped, keys, queue, mode, rpc, want,
                 try, avail, worker, given>>

\* It ends when it has enough, or when the device fails.
BlockEnd ==
  /\ rpc \in {"block", "block_again"} /\ (~BlockLoop \/ "dry" \in Faults)
  /\ got' = 0 /\ rpc' = AfterBlock
  /\ queue' = IF got > 0 THEN Send(queue, "buf") ELSE queue
  /\ UNCHANGED <<rbstate, rdPtr, store, csa, mapped, keys, mode, want, try,
                 avail, worker, given>>

\* Another request is waiting: the read fails, the descrambler is not told.
\* What the read has taken by then (rpc = "block") counts as given.
BlockAbort ==
  /\ "abort" \in Faults
  /\ rpc \in {"block", "block_again"} /\ BlockLoop
  /\ got' = 0 /\ rpc' = "idle"
  /\ UNCHANGED <<rbstate, rdPtr, store, csa, mapped, keys, queue, mode, want,
                 try, avail, worker, given>>

-----------------------------------------------------------------------------
(* The descrambler: process_ffd.                                           *)

Take ==
  /\ fpc = "idle" /\ queue # <<>>
  /\ fpc' = Head(queue) /\ queue' = Tail(queue)
  /\ UNCHANGED <<rbstate, rdPtr, store, csa, mapped, keys, mode, reader,
                 bytes, force, at, given>>

\* Mutant: an empty stretch is taken for a full one.
RingBufFromEqual ==
  /\ fpc = "buf"
  /\ IF Encrypted
     THEN /\ CheckState
          /\ fpc' = IF csarb' THEN "call" ELSE "abort"
          /\ force' = (csaPtr' >= wrPtr)
          /\ bytes' = IF csaPtr' >= wrPtr THEN Size - csaPtr' ELSE wrPtr - csaPtr'
     ELSE fpc' = "idle" /\ UNCHANGED <<csa, bytes, force>>
  /\ UNCHANGED <<rbstate, rdPtr, store, mapped, keys, queue, mode, reader, at,
                 given>>

\* How much there is to work on, up to the end of the buffer.
RingBuf ==
  /\ fpc = "buf"
  /\ IF Encrypted
     THEN /\ CheckState
          /\ fpc' = IF csarb' THEN "call" ELSE "abort"
          /\ force' = (csaPtr' > wrPtr)
          /\ bytes' = IF csaPtr' > wrPtr THEN Size - csaPtr' ELSE wrPtr - csaPtr'
     ELSE fpc' = "idle" /\ UNCHANGED <<csa, bytes, force>>
  /\ UNCHANGED <<rbstate, rdPtr, store, mapped, keys, queue, mode, reader, at,
                 given>>

\* process_ts starts at csaPtr, read again after rw_lock was released.
Call ==
  /\ fpc = "call"
  /\ at' = csaPtr /\ fpc' = "work"
  /\ UNCHANGED <<rbstate, rdPtr, store, csa, mapped, keys, queue, mode, reader,
                 bytes, force, given>>

\* What process_ts returns: the clear packets at the front, those that an
\* earlier pass descrambled among them.  The packets this pass descrambles are
\* not counted: decrypt_packets has moved the start of their range when it is
\* compared (328).  A last packet that ends behind the bytes is counted whole.
Work == {pos \in 0 .. bytes + Packet - 1 :
           /\ pos % Packet = 0
           /\ plain /\ bytes > 0 => pos > 0}

\* After the clear packets, a full cluster or the end of the buffer, and keys.
Descrambles(pos) == keys /\ pos < bytes /\ (force \/ bytes - pos >= Cluster)

\* csaPtr advances, a blocked reader is woken, and the work goes on.
Done ==
  /\ fpc = "work"
  /\ \E ret \in Work :
       IF csaPtr + ret > Size
       THEN fpc' = "abort" /\ UNCHANGED <<csaPtr, plain, rpc, queue>>
       ELSE /\ csaPtr' = IF csaPtr + ret = Size THEN 0 ELSE csaPtr + ret
            /\ plain' = Descrambles(ret)
            /\ rpc' = IF ret > 0 /\ mode = "block" /\ rpc = "wait"
                      THEN "avail_again" ELSE rpc
            /\ queue' = IF ret > 0 THEN Send(queue, "buf") ELSE queue
            /\ fpc' = "idle"
  /\ bytes' = 0 /\ force' = FALSE /\ at' = 0
  /\ UNCHANGED <<rbstate, rdPtr, store, cstate, csarb, mapped, keys, mode,
                 want, try, got, avail, given>>

\* MSG_RINGCLOSE: no message for this buffer is left, and it is released.
RingClose ==
  /\ fpc = "close"
  /\ queue' = <<>>
  /\ rbstate' = "closed" /\ csarb' = FALSE
  /\ cstate' = IF cstate = "ready" THEN "not_ready" ELSE cstate
  /\ fpc' = "idle"
  /\ UNCHANGED <<rdPtr, store, csaPtr, plain, mapped, keys, mode, reader,
                 bytes, force, at, given>>

-----------------------------------------------------------------------------
(* Key commands: update_keys.                                              *)

KeyCommand(c) == /\ c \in Commands
                 /\ \/ "busy" \in Moments
                    \/ "idle" \in Moments /\ rpc = "idle" /\ fpc = "idle"
                    \/ "closed" \in Moments /\ rbstate = "closed"
                 /\ UNCHANGED <<rbstate, rdPtr, store, csaPtr, csarb, plain,
                                queue, mode, reader, worker, given>>

\* 'P': a pid gets an index.
AddPid ==
  /\ KeyCommand("P")
  /\ mapped' = TRUE
  /\ UNCHANGED <<keys, cstate>>

\* 'E' or 'O', the one that completes the pair; 'N' does the same.
SetKeys ==
  /\ KeyCommand("EO") /\ mapped
  /\ keys' = TRUE
  /\ cstate' = IF cstate = "clear" THEN "not_ready" ELSE cstate
  /\ UNCHANGED mapped

\* 'C': the last pid goes, and with it the keys of its index.
ClosePid ==
  /\ KeyCommand("C") /\ mapped
  /\ keys' = FALSE /\ mapped' = FALSE /\ cstate' = "clear"

\* 'I': everything is forgotten.
Invalidate ==
  /\ KeyCommand("I")
  /\ keys' = FALSE /\ mapped' = FALSE /\ cstate' = "clear"

\* The packets that come next belong to an index without keys: its last pid
\* was closed, or its keys are still to come.
OtherIndex ==
  /\ KeyCommand("other")
  /\ keys' = FALSE
  /\ UNCHANGED <<mapped, cstate>>

-----------------------------------------------------------------------------
ReaderStep == Fill \/ Avail \/ GetBytes \/ Choose \/ BlockRead \/ BlockEnd
WorkerStep == Take \/ RingBuf \/ Call \/ Done \/ RingClose
KeyStep    == AddPid \/ SetKeys \/ ClosePid \/ Invalidate \/ OtherIndex
AppStep    == OpenCall \/ CloseCall \/ PollCall \/ ReadCall \/ BlockAbort

Next == ~Aborted /\ (ReaderStep \/ WorkerStep \/ KeyStep \/ AppStep)

\* Both threads run; the device delivers while the reader polls it.
Spec     == Init /\ [][Next]_vars
FairSpec == Spec /\ WF_vars(~Aborted /\ ReaderStep)
                 /\ WF_vars(~Aborted /\ WorkerStep)

-----------------------------------------------------------------------------
(* Properties.                                                             *)

Readers == {"idle", "fill", "fill_poll", "avail", "avail_poll", "avail_need",
            "avail_again", "get", "get_again", "choose", "block",
            "block_again", "wait", "abort"}

\* Pointers stay in the buffer; csaPtr and rdPtr may stand at its end.
TypeOK ==
  /\ rbstate \in {"closed", "open", "closing"}
  /\ rdPtr \in 0 .. Size /\ wrPtr \in 0 .. Size - 1 /\ csaPtr \in 0 .. Size
  /\ cstate \in {"clear", "not_ready", "ready"}
  /\ csarb \in BOOLEAN /\ plain \in BOOLEAN /\ mapped \in BOOLEAN /\ keys \in BOOLEAN
  /\ queue \in Seq({"buf", "close"}) /\ mode \in {"block", "nonblock"}
  /\ rpc \in Readers /\ want \in Nat /\ try \in Nat /\ got \in Nat
  /\ avail \in Int
  /\ fpc \in {"idle", "buf", "close", "call", "work", "abort"}
  /\ bytes \in 0 .. Size /\ force \in BOOLEAN /\ at \in 0 .. Size
  /\ content \in [0 .. Size + Reserved - 1 -> 0 .. Numbers - 1]
  /\ given \in 0 .. Numbers - 1

\* What the reader may read next is the device's stream, in order: wrapping
\* loses nothing, filling never overwrites what is unread, and never passes
\* the end of the allocation, reserved room included.
StreamInOrder ==
  /\ wrPtr + MaxFree <= Size + Reserved
  /\ \A i \in 0 .. Unread - 1 : content[Position(i)] = (given + i) % Numbers

\* "wrPtr must always be an integer number of packets!"
WriterAligned == wrPtr % Packet = 0

\* The descrambler's pointer lies between reader and writer: the assertion
\* in check_encrypted, and the one in process_ffd, hold.
CsaBetween ==
  cstate = "ready" /\ csarb /\ rbstate = "open" => Between(csaPtr)

\* The packets the descrambler works on, outside all locks, are unread ones:
\* neither filled nor given away under its hands.
WorksOnUnread ==
  fpc = "work" /\ rbstate = "open" =>
    \/ bytes = 0
    \/ /\ Between(at) /\ at < Size
       /\ Processed(at) + bytes <= Unread

\* An assertion never ends the daemon.
AssertionsHold == ~Aborted

\* A read that has taken its bytes does not fail: they would be lost.
TakenIsReturned == [][BlockAbort => rpc # "block"]_vars

\* Nothing is queued for a ring buffer that was released.
NothingForClosed == rbstate = "closed" => queue = <<>> /\ fpc = "idle"

\* A reader that waits for the descrambler goes on: "If need_bytes >0 we must
\* block until some bytes can be read".
WaitEnds == (rpc = "wait") ~> (rpc # "wait")

\* "MSG_RINGCLOSE MUST release the ringbuffer!": an open that spins meanwhile
\* goes on.
CloseReleases == (rbstate = "closing") ~> (rbstate = "closed" \/ Aborted)

-----------------------------------------------------------------------------
(* Inductive invariants.                                                   *)

\* What the reader is about to take has been filled.
TakesUnread ==
  /\ rpc = "get" => /\ 0 < avail /\ avail <= Unread
                    /\ mode = "block" => want <= avail
  /\ rpc = "get_again" => want <= Unread

RingInv == TypeOK /\ StreamInOrder /\ TakesUnread

\* Keys do not change during a read, and fills end between packets.
Calm == "busy" \notin Moments /\ "flood" \notin Faults

\* Calls are served while the buffer is open; a close is under way until it
\* is closed, and then nothing is left of it.
Phases ==
  /\ rpc \notin {"idle", "abort"} => rbstate = "open"
  /\ rpc \notin {"idle", "abort", "fill_poll", "avail_poll"} => 0 < want
  /\ fpc = "close" \/ Contains(queue, "close") => rbstate = "closing"
  /\ rbstate = "closed" => queue = <<>> /\ fpc = "idle" /\ cstate # "ready"

\* Writer and descrambler stand between packets.
BetweenPackets == wrPtr % Packet = 0 /\ csaPtr % Packet = 0

\* The descrambler has a part of the buffer that starts at its pointer.
HasStretch ==
  /\ cstate = "ready" /\ ~Aborted => csarb
  /\ fpc \in {"call", "work"} =>
       /\ cstate = "ready" /\ csarb
       /\ bytes % Packet = 0 /\ csaPtr + bytes <= Size
       /\ fpc = "work" => at = csaPtr
       /\ rbstate = "open" /\ bytes > 0 => Processed(csaPtr) + bytes <= Unread

\* What the reader is about to take has been descrambled, or need not be.
TakesProcessed ==
  rpc \in {"get", "get_again"} =>
    /\ cstate = "not_ready" => ~mapped
    /\ cstate = "ready" =>
         /\ rpc = "get" => avail <= Processed(csaPtr)
         /\ rpc = "get_again" => want <= Processed(csaPtr)

CsaInv == /\ RingInv /\ Phases /\ BetweenPackets /\ CsaBetween
          /\ HasStretch /\ TakesProcessed

=============================================================================
