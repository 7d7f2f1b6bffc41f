# ffdecsawrapper in TLA+

ffdecsawrapper presents a *virtual* DVB adapter to applications. A kernel
module (dvbloopback) turns every system call on the virtual adapter into a
request; a user-space process, the daemon, takes the requests from a control
device, executes them on the real adapter and answers. On the way the daemon
learns which services applications view (getsid, cam), asks the conditional
access core for control words, and descrambles what applications read from the
DVR device (ring buffer, FFdecsa).

This directory holds TLA+ modules for the concurrent and stateful parts of that
program, TLC configurations that check them on small instances, and proofs
that TLAPS checks for every value of the constants. Paths below are relative to
`src/` of the repository; `PROJECT.json` maps every definition to the lines it
models.

Contents: [inventory](#inventory) – [modules](#modules) – [runs](#runs) –
[departures](#departures-from-what-the-code-says-of-itself) –
[proofs](#proofs) – [only model-checked](#what-is-only-model-checked) –
[not modelled](#what-is-not-modelled) – [plan](#plan).

## Inventory

| component | code | state | operations | hard behaviour | what makes it correct |
|---|---|---|---|---|---|
| kernel device | `dvbloopback/module/dvb_loopback.c` | one set of request registers (`ioctlcmd`, `ioctlfd`, `ioctldata`, `ioctlretval`), `filemap`, `pid`, `users`, `poll_waiting`, the mmap buffer, three mutexes | open, release, read, ioctl, mmap, poll of the looped file; the same handlers, branching on `dvbdev->id`, for the daemon's control file | many callers and one daemon; mutexes held across a wait; signals, one-second timeouts, a daemon that exits and comes back | a call is executed at most once and gets its own answer; the daemon never reads an empty register; every call returns; no slot, poll or buffer is lost |
| forwarding, procfs | `dvblb_forward.c`, `dvblb_proc.c` (same directory) | `forward_dev`, `link` | the switch written in procfs, the forwarded calls | the switch tests `inuse_filemap` without the lock of `dvblb_open` | no file changes between loopback and forwarding while open |
| request processor | `dvbloopback/src/process_req.c`, `forward.c`, `list.h` | `used_list`, `realfd_ll`, `poll_mutex`, the poll thread's `pollfd` array | a `forward_data` thread per device file, `poll_loop`, start and stop | a signal that restarts `poll`; a condition variable without a predicate; pointers into an array of an earlier round; numbers of files that come again | a poll that was answered with "nothing yet" is reported, for the right file, and only when there is news |
| message queues | `dvbloopback/src/msg_passing.c` | per priority: list, free list, mutex, condition | send, replace, remove by type, terminate, the loop thread | a message in process is on neither list; recurring messages; replaced data | nothing is lost or handled twice; the thread is awake when something is due |
| ring buffer | `dvbloopback/src/plugin_ringbuf.c` | `rdPtr`, `wrPtr`, bounds, `state`, `flags` | fill, blocking fill, avail, get, open, close, poll, read | wrap with a reserved area; close while the descrambler works | the bytes of the device in order, none overwritten unread |
| descrambler | `dvblb_plugins/plugin_ffdecsa.c` | `csaPtr`, `state`, `rb`, pid map, keys per index | process_ffd, check_encrypted, find_csa_from_rb, update_keys, process_ts | the lock is released during the work; a reader waits for `csa_cond`; keys come from other threads | works on unread bytes only; its pointer stays between reader and writer; a waiting reader goes on |
| service tracker | `dvbloopback/src/plugin_getsid.c` | command queue, `sidlist`, `has_map`, `removed_sid` | fe_tune, fe_close, set_demux, close_demux, the thread read_sid | the map is dropped before the tune; the scan runs without the mutex | the map is of the tuned transponder; every filter is looked up; what nobody views is withdrawn |
| pid tracker | `dvblb_plugins/plugin_cam.c`, `sc/sasccam.cpp` | `pid_list`, `Channels`, `valid` | MSG_ADDSID, REMOVESID, RESETSID | delayed close; state shared by the adapters | what is viewed stays served, what is not is given up |
| control word indices | `sc/PLUGINS/src/cam.c` | `indexMap`, `lastCW`, handlers with `cwIndex` and program | AddPrg, Stop, Tune, HouseKeeping, GetHandler, WriteCW; the handler threads (Process) | two threads per handler; a pool of 16 indices; decoding outside the lock | handlers, indices and mapped pids agree; keys are of the service mapped to the index; they arrive |
| ECM handler | `cEcmHandler` in `sc/PLUGINS/src/cam.c` | mode, program, list of ECMs, candidates, sync, failure counts, the ECM cache | SetPrg, Stop, ShiftCwIndex from the pid tracker; Process on the filter thread | the tracker changes what is wanted while Process runs; candidates that fail; wake-ups without data; a cache of what worked | a service that can be decoded gets in sync whatever failed before; keys follow a moved index; no candidate is given another's section |
| section filters | `sc/PLUGINS/src/filter.c` | filter list, idle times, `forceRun` | add, remove, start and stop of a filter, wake-up, the thread cAction | wake-ups while a section is processed | a handler that is triggered runs |
| sockets | `sc/PLUGINS/src/network.c` | watch list, socket state, a mutex for each | Connect, Bind, Disconnect, Read, Write, the watcher | two mutexes in two orders; a thread cancelled inside one | every call returns |
| smart card slots | `sc/PLUGINS/src/smartcard.c` | use counts, current card | LockCard, ReleaseCard, reset, the slot thread | a card that is pulled while used | a card in use is not deleted |
| message cache | `sc/PLUGINS/src/system.c` | ring of cached messages with queue and wait flags | Get, Cache, Clear | a second caller waits for the first; a ring full of messages in work | a sleeper is woken; an entry in work has one owner |
| card clients | `sc/PLUGINS/src/systems/cardclient/` | list of clients; per client: connection, session, CAIDs learnt, requests under way, a message cache | ProcessECM of a system (the loop over the clients) and of each protocol; login, time-out, reconnect | late answers; several systems share a client; a list of CAIDs that changes with each login | the key returned is of the ECM asked for; every client that can is tried, none twice |
| CCcam client | `sc/PLUGINS/src/systems/cardclient/cccam2.c` | shares, pending answers, the key that came last, key limit, ciphers of the session | ProcessECM, ProcessEMM, Login, Logout, the reader thread | reader and caller both log out, in and send; answers without a request number; cancellation | the key is of the ECM asked for; a connected socket has a reader; a closed one is noticed |
| key list and key file | `sc/PLUGINS/src/data.c` | list of items with a deleted flag, modified, loaded, time of the file | AddNewKey, DelItem, AddItem, Purge, Load, Save, the housekeeper | threads that find keys, a file somebody edits, seconds as the resolution of time | an edit is not overwritten; a new key reaches the file; the list and the file agree when nothing is pending |
| threads | `sc/thread.cpp` | `running`, `active`, `locked` counters | Lock, Unlock, Wait, Broadcast, Start, Cancel | a thread that does not end in time is cancelled wherever it is; nested locks across a wait | whoever joins or locks goes on |
| cipher, CA systems, parsers, shims | `FFdecsa/`, `sc/PLUGINS/systems/`, `libsi/`, `sc/PLUGINS/src/{crypto,log,misc,override,parse,sc,device}.c`, `sc/*.cpp` | – | data transformation, card and network protocols, configuration, stand-ins for the original host program | – | not the subject of these models |

How they interact:

```
 application --system call--> kernel device <--control file-- request processor
                                                                   | callbacks
                    +-------------------------+--------------------+
                    v                         v                    v
              service tracker           ring buffer  <------> descrambler
                    | MSG_ADDSID ...          | MSG_RINGBUF,    ^    ^ update_keys
                    v  (low priority)         v MSG_RINGCLOSE   |    |
              message queue ----> pid tracker     message queue-+    |
                                      | AddPrg, Stop, Tune  (high)   |
                                      v                              |
                         control word indices (ECM handlers) --------+
```

The kernel device and the daemon share nothing but requests. In the daemon,
plugins are called back before and after each forwarded call, on the thread of
the device; slow work goes through the two message queues. The pid tracker and
the core run on the low priority thread, the descrambler on the high priority
thread, the ECM handlers on threads of their own. An ECM handler asks its systems,
and those of the card clients share the clients and their message caches; systems
with keys take them from the key list, to which loggers on other threads add.

## Modules

| module | models | composes / refines |
|---|---|---|
| `RequestReply` | what a looped call promises | abstract specification of `DvbLoopback` |
| `DvbLoopback`, `DvbLoopbackProofs` | the kernel device and the request threads of the daemon | implements `RequestReply` |
| `MsgQueue`, `QueueProofs` | one message queue and its loop thread | |
| `SequenceLemmas` | what appending to a sequence, inserting into it, removing from it and searching it return | used by the proofs on queues and lists |
| `DvrRing`, `QueueProofs` | ring buffer and descrambler | |
| `GetSid` | the service tracker | |
| `ProcessCam` | `process_cam`, the handler of the pid tracker | extended by `CamPids` and `CwIndex` |
| `CamPids`, `CamPidsProofs` | `ProcessCam` with what it expects of core and descrambler | abstract specification of `CwIndex` |
| `CwIndex`, `CwIndexProofs` | the core's handlers and indices, and the pids and keys of the descrambler, driven by `ProcessCam` | implements `CamPids` |
| `ChannelCam`, `ChannelCamProofs` | `GetSid`, the low priority queue and `CamPids` together | |
| `RequestLoop`, `DvbLoopbackProofs` | the request thread and the poll thread of one device | the daemon's side of `DvbLoopback`'s poll |
| `MsgCache` | the effects of `cMsgCache::Get` and `Cache` | operators, used by the next two |
| `CardClients`, `ClientProofs` | the loop over the card clients, their sessions and caches | over `MsgCache` |
| `EcmHandler`, `KeyProofs` | one ECM handler with filter, thread and ECM cache | over `MsgCache` (its failure counts); `CwIndex` has several handlers in less detail |
| `KeyFile`, `KeyProofs` | the key list, its file, its loader and those who add to it | |
| `CCcam2`, `ClientProofs` | the CCcam client with its reader thread, its socket and the watcher of sockets | the session that `CardClients` has for the other clients |
| `MC*` | the constants TLC runs them with | |

Definitions carry the names of the functions and variables they model. An action
is a whole handler, or the part of one between two points at which its thread
waits or gives up the lock that protects the state.

### DvbLoopback

`pc[p]` is the place of a process in `dvblb_open`, `_release`, `_read`,
`_ioctl`, `_poll` and in `dvblb_fake_ioctl`; `dpc[d]` is the place of a daemon
incarnation in the open and release of the control device and in the loop of
`forward_data`. A critical section of `lock_ioctl` (never held across a wait)
is one action; `lock_fake_ioctl` and `lock_buffer` are held across waits and are
variables with their owner. `ioctldata` is the
process whose buffer a request points to; `ioctlretval` carries, besides the
value, for which process it was computed, a ghost that lets `AnswerIsOwn` and
the refinement speak of "its own answer".

`Faults` turns on events of the environment: `signal` (every interruptible lock
and wait may end early), `kill` (the daemon is killed at any time, and another
incarnation may start), `slow_close` (a daemon that serves may take longer than the
time a CLOSE waits), `early_open` (an application opens while no daemon is up, or
while the control device is half opened or released). Abstractions: answers are zero or non-zero; the bodies of
requests are left out; a write to a looped file always fails in the code and is
left out; `DVBLB_CMD_ASYNC` is sent with the slots the poll thread polls. Two role changes are
excluded: a looped file of the time before whose slot the new daemon's control
file got, and the reverse (a slot 0 an application took in the release window);
the window itself is kept (see `CallsReturn` under departures).

### DvrRing

Offsets replace pointers, `rb->end` is `Size`. The reader is the request
thread of the DVR device (`rpc`), the worker the high priority thread (`fpc`).
`content` numbers each byte in the buffer with its place in the device's stream
modulo `2 * Size`, so an overwritten, repeated or lost byte is seen. `given` counts the bytes taken from the
buffer: those of a read that fails afterwards are among them (`TakenIsReturned` under departures).
`process_ts` returns the clear packets at the front of what it is given. Those it descrambles are not
added: `decrypt_packets` moves the start of each range (`FFdecsa.c:677`) before
`plugin_ffdecsa.c:328` compares it, so only the next pass, which finds them clear, counts them;
`plain` says that the packet at `csaPtr` is of that kind. A real device delivers whole packets; with `"flood"`
in `Faults` it has more than the room it is given, and a fill may end inside a packet. `Moments` says when key commands come: only while
closed, between two packets of the application (`idle`), or during a read
(`busy`).

### MsgQueue

Cells are numbers, as the code recycles them. `lpc`, `hand`, `orig`, `ts` are
the loop's place, message, `orig_type` and wait; `signalled` is the condition
variable; `now` is the clock, bounded by `MaxTime`, and ticks at any time. Ghosts: `owed`, the data last sent for a
key; `order`, the messages to be run at once in the order they were sent.

### GetSid, ProcessCam, CamPids, ChannelCam

`cmdqueue`, `sidlist`, `has_map`, `removed_sid` are the fields of `sid_data`;
`scan` is where read_sid is between PAT, NIT and PMTs. A handler under the mutex
is one action. Sections are read atomically at their arrival; the queue edits of
fe_tune and fe_close (three removals by type and a RESETSID, each under the queue's
own mutex) are one action, so the low priority thread takes a message before or after
them but not in between; a NIT that is given up after ten sections counts as read.
After fe_close the frontend delivers nothing. `ChannelCam` adds the thread of the queue: `Handle` is
`msg_loop` giving one message to `process_cam`, `Calls` what that calls.

`ProcessCam` leaves in `calls` the calls a message makes to the core and to
`update_keys`, in order; they are performed one at a time, so other threads see
every state in between. What the loops over `pid_list` pick is said by position (`Nth`), without a fold. `viewed` is the ghost that says what was asked for and
not taken back.

### CwIndex

A handler is a record of the fields of `cEcmHandler` that its two threads use;
`job` is the ECM it is decoding without the lock. A crypto period has a number
modulo `Periods`, and `Cw(s, n)` are the control words of a service in it. In this
program `needZero` is false on every path, software CSA is off and programs are
not split; the branches for them are not modelled. `ZapSpec` restricts the
environment: one service is viewed at a time.

### RequestLoop

`pollthread` is the place of `poll_loop`: waiting for the condition, with the array made and the
mutex released, in `poll`, back from it. `main` is the place of `forward_data` in a CLOSE
(`CloseTaken`, `Close`) or a POLL (`PollTaken`, `Mark`, `Answer`); OPEN and READ are one
action, as the other thread sees nothing in between. `ufd` is the array, each place with the
open file its number resolved to when `poll` was entered; `realfd` are the process's open files, so
numbers come again. A SIGPOLL (`Sigpoll`) counts only while the thread sleeps in `poll`; its
handler is empty. The kernel side is what matters here of `DvbLoopback`: the set
`waiting` (the bits of `poll_waiting`, cleared by an open and a close, set before the request), who sleeps, and DVBLB_CMD_ASYNC,
which wakes. Ghosts: `requested`, the files polled without success and not reported since; `since`,
those that had data after that. One application polls a file at a time.

### MsgCache, CardClients

`MsgCache` has the ring with its entries (mode, QUEUED, WAIT, what is stored) and what `Get` finds
and does; sleeping is `CardClients`' business. `sys[s]` is the place of a system in
`cSystemCardClient::ProcessECM`, in `Get` and in the client's own `ProcessECM`, `con[c]` the connection of a
client (connected, logged in, CAIDs learnt, number of the last request, the fallback to the old
Newcamd protocol, whether somebody waits for an answer), `sent[c]` the requests a server may
still answer, in any order or never. `Kind` chooses among Camd33, Camd35, Newcamd, Radegast, Gbox and Buffy
what the code of each does differently: whether it gives up the mutex while it waits, numbers
requests, reconnects after a time-out, learns CAIDs. After a message that is too long or has a wrong checksum
Newcamd keeps its connection (`newcamd.c:298`, 308); its numbers make this harmless. CCcam is `CCcam2`. Not modelled: EMMs, keepalive threads, Aroureos,
encryption of the protocols. `MaxNum` bounds the requests of a client, which is why the module
has no liveness; that sleepers can be woken and that the loop makes progress are safety
properties (`SleepersAreWoken`, `TriesAll`).

### EcmHandler

`prg` and `trigger` are what the tracker has set under `dataMutex` (SetPrg, Stop, ShiftCwIndex), `h` the
fields of the handler, the filter's open pid and unread section among them. A call of Process is `Take` (the
trigger block) and then `Rest`, `Search` or `Work` by its mode; the tracker may act in between.
`cands`, `at`, `info` are `ecmPriList`, `ecmPri` and the flags of the ECM list; `AddEcmPri`, `ParseCAInfo`, `JumpEcm`,
`NewEcm`, `NoSync` are the functions of those names. `fresh` is `dolog == LOG_COUNT`: while it holds, a round that fails
is followed by another at once (mode 4), later ones wait for the parity (mode 5). UpdateEcm saves `dolog` in a bool
(`cam.c:1419`), so after an update of the descriptor the first round counts as a later one. `period` is the key period of the broadcast; it lasts
long enough for a message to be sent three times. Time-outs of the code (idle, hold, resend, lost sync)
are choices wherever the code could reach them. Left out: mode 2 (extra data for the ECM of a
system), chid selection of Irdeto, incomplete sections, overrides and rewriters, constant control words
in the runs (`ConstantCw` is a parameter).

### KeyFile

The housekeeper's Purge, Load and Save are cut where other threads or the editor may come in: `opened` before
the file is read, `checked` between the comparison of times and the write, `written` and `renamed` until the
lock of the list is released. `upd[t]` is the place of a thread in AddNewKey: the search for a
duplicate, the marking of old keys, the comment that is left, the insertion; the lock is free between
the steps. Times are seconds, `mtime = 0` means no file. `Careful` is the editor who writes
only in a second in which nothing else was written and while the housekeeper rests; the departures show
what happens to one who is not. Assumed: nobody is in AddNewKey while Purge frees deleted items (nothing in
the code makes sure of it). Merged: the `Modified()` after the unlock of a comment with
its insertion. Left out: a Close that fails (Save ignores its result, `tools.cpp:835`), files without
write access, the external updater program, reload by command.

### CCcam2

A thread is the stack of the calls it is in, `stack[t]`, innermost first; `Goto`, `Invoke` and `Return` move
it, `ok[t]` is what its last call returned. So Logout, Login, Connect, Disconnect and CryptSend are written
once, for the caller and for the reader, and the reader's Logout inside a send inside a
packet is what it is in the code. `ProcessECM` and `ProcessEMM` hold the client's mutex from
begin to end, so one `Caller` stands for all threads that call them; the reader takes no such mutex.
`cl` are the fields of the client, `th` those of `cThread` with `readerTid`, `so` the socket with its mutex and that
of the watcher's list, `shares` the list and whether ProcessEMM holds its lock (other sections under it are
one action), `net` the session as the server sees it. `pendingDCW++` and `pendingDCW--` have no lock
and are two steps each. `cwmutex` protects single actions, and a broadcast reaches who
waits at that moment.

ECMs are numbered and a key is the number of its ECM: `Garbage` is one that was unscrambled with another share,
which is what the checksum tells. `net.enc` is the order in which messages went through the cipher; a message
written in another order garbles the session, and the server answers no more; so does one whose write
timed out (`network.c:283`), for the sender of which the code logs out.
`Cancel(2)` is a choice once more than two seconds may pass before the thread looks at
`running` (`Slow`): it is in the network or waits for a lock. A cancelled thread ends at the next point where POSIX lets it
(sleeps, connect, select, read, write, close); unwinding frees a `cMutexLock`, but not the plain `Lock` of Connect.
The watcher takes its locks only: the reader reads five times a second, which is activity, so the idle time is never up.

Left out of `CCcam2`: how shares are ordered by lag and hops (any order), CAIDs and providers (each share handles each ECM), `emmAllowed`,
EMM acknowledgements and caches, a receive buffer that overflows, and Init.

## Runs

`tlc -workers 2 -config <cfg> <module>` runs one. The passing runs fire every action
between them, and every property listed here is violated by at least one mutant (an
operator `...`*Keeps...*, *Silent*, *Not* and so on in the modules, with a comment that
names the bug it stands for; `PROJECT.json` pairs them).

| run | configuration | bounds | shows |
|---|---|---|---|
| `dvblb_quiet` | `MCDvbLoopback_quiet` | 2 processes, 1 daemon, 3 slots, all calls, no faults | `NoSlotLeak`: procfs counts open files exactly; `NoLostPoll`: whoever sleeps in poll is being polled for; `ImplementsRequestReply`: each call is executed at most once and returns its own answer |
| `dvblb_restart` | `MCDvbLoopback_restart` | 2 processes, 2 incarnations of the daemon, READ, signals and kills | `WaiterOwnsRegisters`, `ExecutesForWaiter`, `PollinMeansRequest`, `BufferKept` |
| `dvblb_live` | `MCDvbLoopback_live` | 2 processes, 1 daemon, READ, kill, fairness | `CallsReturn`, `DaemonCloses`: no deadlock between a reader that holds `lock_buffer` and a daemon that ends |
| `ring_stream` | `MCDvrRing_stream` | packets of 2 bytes, 4 in the ring, 5 reserved bytes, clusters of 2 packets, odd and even reads, both modes, all key commands between packets, dry device, aborts | `StreamInOrder`, `CsaBetween`, `WorksOnUnread` |
| `msg_queue` | `MCMsgQueue_queue` | 1 key of each kind, 2 data, 3 cells, clock to 3, both ways to end, fairness | `LatestDelivered`, `InOrder`, `SentIsHandled` |
| `channel` | `MCChannelCam_rest` | 2 files, 2 transponders with 3 services (one pid used on both), one filter per service, queue of 3, PMTs that may be lost | `InAgreement`, `ServedAtRest`, `NoDanglingSid`, `NoOrphan`, `MapIsTuned`, `UndisturbedOnAir`: from the filters applications set to the pids that are descrambled |
| `polls` | `MCRequestLoop_polls` | 2 files, 2 entries, 2 numbers, open and close at will, fairness | `ReportsNews`, `KeepsReporting` |
| `clients` | `MCCardClients_clients` | 2 systems, 3 ECMs of 2 system ids, a Camd35 and a Radegast client, a cache of 1 entry each, 2 requests per client | `OwnAnswer`, `EntriesOwned`, `SleepersAreWoken`, `TriesAll` |
| `handlers` | `MCEcmHandler_handlers` | 2 services, 3 ECMs (one on a pid without sections), 2 systems, 2 indices, what can be decoded changes once, 2 calls of the tracker, fairness | `DataOfCurrent`, `KeysFollow`, `GetsInSync` |
| `keys` | `MCKeyFile_keys` | 1 updater, 4 keys of 2 ids (one supersedes), lists of 3 items and those an addition in progress makes, 2 edits (one with a line that is too long), 3 seconds, fairness | `InStep`, `NoEditLost`, `KeysReachFile` |
| `cw_indices` | `MCCwIndex_indices` | 2 services of 1 pid, 2 indices (as many as services, so index zero is used and left again), 2 periods | `IndexesMatch`, `KeysOfService`, `Implements` |
| `cccam` | `MCCCcam2_cccam` | 2 shares, 2 reader threads (one may outlive its session), 2 packets on their way, four sets of bounds: 2 ECMs over 2 shares; an ECM, an EMM, a ping, a server that closes and a round of the watcher; an ECM with a key limit and a close, and an ECM and an EMM, both with writes that time out (`late`); fairness | `OwnKey`, `HasReader`, `CallReturns`, `CloseNoticed` |

Further instances are kept beside the runs, for whoever changes the modules; TLC finds no error in them:

| configuration | what it checks besides the runs |
|---|---|
| `MCDvrRing_live` | `CloseReleases` (blocking mode, keys fixed before the stream), `NothingForClosed`, type invariant |
| `MCMsgQueue_cells` | `CellsConserved`, `WakesInTime`, `KeepsRecurring` |
| `MCCamPids_one` | `KeepsViewed`, `OnlyViewedLeft`, `Undisturbed`, and the inductive invariants `ServiceInv` and `LeftInv` (5 services of 1 or 2 pids, 1 free to air) |
| `MCGetSid_sid` | `CommandsServed` (two filters per service) |
| `MCCwIndex_zap` | `MappedToHandler`, `KeysArrive`, and the inductive invariants `CwInv` and `SyncInv` (3 services of 2 pids, 4 periods, failing ECMs) |
| `MCEcmHandler_types` | type invariant, `InUse`, and the inductive invariant `KeysInv` |
| `MCCardClients_types` | type invariant, `TriesOnce`, `LoopInv` |
| `MCRequestLoop_types` | type invariant, `PfdInArray`, and the inductive invariants `EntriesInv` and `ArrayInv` |
| `MCKeyFile_types` | type invariant, `OwnSavesStay`, and the inductive invariants `Typed`, `TimesInv`, `SaveInv`, `UnreadInv` |
| `MCCCcam2_types` | type invariant, `HasReader` and `OwnKey` with larger bounds and writes that time out in all of them (4 million states), and the inductive invariants `Stacks`, `Fields`, `Buffers`, `SessionInv` and `AnswerInv` |

**Why the bounds are enough.** The device has one register and mutual exclusion,
so two processes show every conflict (owner and rival), and three slots are one for
the control file and one for each; a third process would only queue up. Two daemon
incarnations show a restart. The ring is sized so that wrap, copy from the reserved
area, a full ring, a partial cluster and a reader between packets all occur; the
arithmetic depends on sizes only through those cases. Three cells let the free list be
empty, used and reused; the clock covers a delay before, at and after the wait. Two
transponders are the minimum to be late, and share a pid so that a stale lookup finds
something. Two indices for two services exhaust the pool; sixteen are in the code. Two files
and two numbers let each be closed and its number and entry be taken by the other. Two systems
show a sleeper and a worker, one entry a full ring, and two clients with an ECM only one of
them handles the loop with and without a wrap. Two ECMs and two systems make
candidates of the same ECM and of different ones, and the change of what can be decoded makes the one in use
fail after it worked. In the key file, two keys of an id are an old and a new one, and the other id one
that does not supersede; three seconds are before, in and after the second of a save. In the CCcam client a second
ECM meets what was left of the first, a second share the answer of the first; a second reader thread runs while a
cancelled one still ends. The bounds on what the environment does are sets chosen in `Init`, since their
product is too large for liveness; `MCCCcam2_types` has larger ones.

**Symmetry** is used where no liveness is checked: processes and daemons in
`DvbLoopback`, services in `CwIndex` (the streams are named after the service), systems and the ECMs that
both clients handle in `CardClients`, readers and shares in `MCCCcam2_types`.

**Deadlock** is checked in `clients`, `handlers`, `cw_indices` and the instances `MCCamPids_one` and
`MCCwIndex_zap`. The other configurations say `CHECK_DEADLOCK FALSE` because those systems really
stop: daemons that are gone, a queue whose loop has returned, a clock at its bound, an ended tracker,
an assertion, a device on which nothing is open and nobody calls, a client whose environment is at its bounds or which
has locked itself (`Lost`).

**Fairness.** `DvbLoopback`: threads in a call and the daemon run (weak); mutexes are
handed on and the one-second timeout is eventually the next event of a waiting process
(strong: the kernel's mutexes queue their waiters, and a waiter that is woken by each answer
but never gets the lock would contradict that). `DvrRing`: reader and worker run; nothing is
assumed of the application, of the device's data or of key commands. `MsgQueue`: the
loop thread runs; nothing is assumed of senders. `GetSid`: the frontend finishes a tune, the
queue is served, read_sid runs when it gets a section; a PAT is repeated several times a
second, so not every attempt to read it fails (strong fairness of `ReadPat`). `CwIndex`: calls
are performed, periods go on, handler threads run, and an ECM does not fail for ever (strong
fairness of `Decoded`). `RequestLoop`: both threads run; `KeepsReporting` assumes in addition
that polls without success keep coming, because a lost SIGPOLL is only made good by the next one (see
`RestartsPoll` below). `EcmHandler`: the filter thread calls Process when there is cause and Process returns,
sections of an open pid arrive and periods go on (weak); nothing is assumed of the tracker.
`KeyFile`: the timers of the housekeeper run out again and again, so it comes to Load and to Save
also when the other is always possible (strong). `CCcam2`: caller, readers and watcher run (strong, as each waits for
mutexes that the others take for moments, the watcher after a second of sleep); nothing is assumed of the server. `CardClients` states none. No fairness is assumed for
applications, signals, kills, updaters or editors.

**Two refinements are checked.** `DvbLoopback` implements `RequestReply` under the mapping
`PhaseOf` (a call is "served" from the moment its answer is in the register, before the
caller wakes). `CwIndex` implements `CamPids`: `prg` is the union of the programs of the
handlers with that service, `mapped` the domain of the descrambler's pid map.

### Departures from what the code says of itself

These properties are what a comment, a document or an assertion says, and TLC finds each of them
violated by what the code does, when the configuration is changed as said and the property
is put into it. They are listed so that a change of the code can be checked against them; where the last column
is empty, nothing in the code speaks of it, and the property is what its author must have wanted.

| configuration | change | property | what happens | said at |
|---|---|---|---|---|
| `MCDvrRing_close_assert` | as it is | `AssertionsHold` | a RINGBUF message handled after close_call finds no buffer set: `plugin_ffdecsa.c:499` ends the daemon | the assertion; the comment at 439 |
| `MCDvrRing_stream` | `Moments = {"busy"}` | `CsaBetween` | the stream becomes encrypted between rb_avail and rb_get_bytes: `assert(0)` at `plugin_ffdecsa.c:458` | "But no more!", 451–452 |
| `MCDvrRing_stream` | `"flood"` added to `Faults` | `WriterAligned` | rb_fill_bytes_block (`plugin_ringbuf.c:146`) reads the room there is, which the reserved area or an odd read makes end inside a packet; the loop of process_ts (231) then steps past the bytes it was given, and `CsaBetween` and `WorksOnUnread` are violated too | "wrPtr must always be an integer number of packets!", 133 |
| `MCDvrRing_stream` | as it is | `TakenIsReturned` | rb_get_bytes has moved `rdPtr` when rb_fill_bytes_block (`plugin_ringbuf.c:356`) finds another request waiting, and read_call returns the error instead of the bytes; the stream goes on behind them | |
| `MCDvrRing_live` | as it is | `WaitEnds` | a reader waits for `csa_cond` (`plugin_ffdecsa.c:466`) with a full buffer: the pass that descrambles it counts nothing (328), so it neither signals nor asks for another (523); the same when the keys are invalidated meanwhile | "we must block until some bytes can be read", 402 |
| `MCDvbLoopback_quiet` | `Faults = {"signal"}` | `AnswerIsOwn` | the answer is matched by command number (`dvb_loopback.c:753`); one for an interrupted call reaches the next caller of the same command | `dvbloopback/README:24,26` |
| `MCDvbLoopback_quiet` | `Faults = {"early_open"}` | `AnswerIsOwn` | opening the control device wipes a posted request (`dvb_loopback.c:399`); the caller gets the old result | `dvbloopback/README:26` |
| `MCDvbLoopback_restart` | `Faults = {"kill"}` | `TagUnique` | the same open clears `filemap` (402) while looped files are open; their slots are handed out again | "unique tag", `dvbloopback/README:18` |
| `MCDvbLoopback_quiet` | `Faults = {"signal"}` | `NoLostPoll` | dvblb_poll is interrupted at 921 and leaves its bit set | "need to set it before the fake_ioctl to prevent race", 911 |
| `MCDvbLoopback_quiet` | `IntWidth = 1` | `NoLostPoll` | `1 << pos` (912) is an int shift and slots go to 95 | the same |
| `MCDvbLoopback_live` | `Faults = {"kill", "early_open"}` | `CallsReturn` | release of the control device frees slot 0 before `pid = -1` (471); an open in between takes it and pending calls wait for ever | "userspace driver has closed", 289 |
| `MCRequestLoop_polls` | as it is | `RestartsPoll` | a SIGPOLL between the unlock (102) and poll is lost: the file is not in the array that is polled | `process_req.c:432` |
| `MCRequestLoop_polls` | as it is | `NothingLeft` | poll_loop waits for the condition after a report, also with entries left that are to be polled (`process_req.c:87`) | `process_req.c:432` |
| `MCMsgQueue_queue` | as it is | `ExitEnds` | exit_handler (`forward.c:263`) takes the queue's mutex in a signal handler of the thread that may hold it | "Main thread will do the rest", `forward.c:262` |
| `MCCamPids_one` | `Adapters = {0, 1}` | `KeepsViewed` | `Channels` is shared by the adapters, `valid` is not (`plugin_cam.c:258`) | "we're already good to go", 254–255 |
| `MCCamPids_one` | `EpidList <- SharedPids`, `Sids = {1, 2, 3}`, `FreeToAir = {}` | `KeepsViewed` | a pid shared with a service that is given up is taken from the one still viewed (276) | concurrent recording, `HISTORY:567` |
| `MCChannelCam_rest` | `MaxLow = 5` | `Undisturbed` of `CamPids` | a second fe_tune takes the reset of the first off the queue; a message for the transponder that is left is handled before the new reset and closes a pid both have (`plugin_cam.c:276`) | |
| `MCGetSid_sid` | `Late = TRUE` | `MapIsTuned` | fe_tune drops the map before the tune (`plugin_getsid.c:823`); read_sid rebuilds it from the transponder that is left | "force a rescan of pmts", 795 |
| `MCGetSid_sid` | as it is | `KeepsViewed` | closing one of two filters of a service withdraws it (894) | "check that this sid is no longer being viewed", 896 |
| `MCGetSid_sid` | `NoCache = TRUE` | `NoOrphan` | clear_sid_data runs just before the test that would send REMOVESID (933) | 870–872 |
| `MCGetSid_sid` | `HasNit = {"A"}` | `CommandsServed` | a NIT that never comes is waited for without end (507) | "giving up reading nit", 523 |
| `MCGetSid_sid` | as it is | `ShutdownReturns` | without a PAT (460) the thread never sees the terminator and shutdown_sid joins for ever | "Send a terminate command", 1004 |
| `MCCwIndex_indices` | as it is | `NoStaleKeys` | an ECM decoded for the old service is written to the index of the new one (`cam.c:1293`) | "Fixed processing stale ECM packets after a channel switch", `HISTORY:262` |
| `MCEcmHandler_handlers` | `Indices = {0}`, `Descr <- OneDescr`, `CanDecode <- NewCard`, `MaxCalls = 3` | `RememberedIsOnlyFirst` | an ECM from the cache has no candidate but the system that is remembered (`cam.c:1372`); another that could decode it now is not tried | "use this system first", `HISTORY:783` |
| `MCEcmHandler_handlers` | `MaxCalls = 3` | `OnlyReallyFailed` | a wake-up without a section counts as a missing one (`cam.c:1289`): an ECM no system has seen is marked as failed | "only really failed entries are removed", `HISTORY:846` |
| `MCEcmHandler_handlers` | `Slow = {y1}` | `GetsInSync` | a system slower than a key period fails each message for the first time, which does not count (`cam.c:1257`) | the limit on failures, 1309 |
| `MCCardClients_clients` | `Kind <- MovingKind`, `Configured <- MovingConfigured`, `Announced <- MovingAnnounced`, without symmetry | `TriesOnce`, `TriesAll` | the loop ends where it began (`cc.c:238`), but a login meanwhile changed which clients it passes: one is asked twice, or one that handles the ECM by now was passed over | the loop's end condition |
| `MCCardClients_clients` | `Kind <- MovingKind`, `Configured <- KnownConfigured`, `Announced <- MovingAnnounced`, `ServerDown = {1}`, without symmetry | `FallsBackForOld` | a first Newcamd login that fails for any reason switches to the old protocol for good (`newcamd.c:208`) | the fallback for old servers, `newcamd.c:208` |
| `MCCardClients_clients` | `NumClients = 1`, `Kind <- LateKind`, `Configured <- LateConfigured`, `Announced <- LateAnnounced` | `OwnAnswerOfAll` | Camd33 and Gbox take an answer that comes after the time-out for that of the next request (`camd.c:430`, `gbox.c:140`) | the check other clients make, `camd.c:728` |
| `MCKeyFile_keys` | as it is | `NewKeyIsFound` | a reference that is the first item of the list has no item before it: the new key goes before a later key, behind the old one | "insert before reference", `data.c:200` |
| `MCKeyFile_keys` | `First <- NoFile` | `NoEditLost` | a list that started without a file has time zero and overwrites a file somebody made meanwhile (`data.c:271`) | `HISTORY:69-70`; "abort save as file … changed externaly", `data.c:272` |
| `MCKeyFile_keys` | `Careful = FALSE` | `NoEditLost` | an edit in the second of the last load, or between test and rename, is overwritten | the same |
| `MCKeyFile_keys` | `Careful = FALSE` | `ReRead` | an edit in the second of a load or save is never read | the same |
| `MCCCcam2_cccam` | as it is | `AnswerNotMissed` | `newcw = false` and the wait come after the send (`cccam2.c:1194`): an answer that is faster is forgotten, the caller waits for `MAXLAG` | "This may cause trouble", 1188 |
| `MCCCcam2_cccam` | as it is | `InCipherOrder` | CryptSend (1341) encrypts and writes without a common lock, and before a login that starts new ciphers: two senders in another order, or a send that logs in again, and the server understands no more | "so the crypt state would be wrong", 1289 |
| `MCCCcam2_cccam` | as it is | `EmmNeverSelfLocks` | ProcessEMM sends with the shares locked (1229); a failed send logs out, and Logout locks them for writing (1060) | |
| `MCCCcam2_cccam` | as it is | `NeverOwnEnd` | the reader's own Logout sets `readerTid = 0` (1056); the rest of its packets or a ping makes it send, log in, and wait two seconds for its own end (1055) | the test for the own thread, 1055 |
| `MCCCcam2_cccam` | as it is | `SocketNotLost` | then it is cancelled and ends in Connect (`network.c:178`), whose mutex (165) stays locked for ever | |

Also seen while modelling, without a sentence of the code to hold it against: with every
index in use, a handler that is moved off index zero while it decodes writes to index zero after another
handler got it, which is why `KeysOfService` excepts index zero; zapping away and back within
`MAX_ECM_HOLD` leaves the descrambler with one key until the parity has come twice; and with
two daemons the release of the old one may overwrite the `pid` of the new one, which is why
liveness is claimed for one incarnation.

## Proofs

`tlapm <module>` checks one; each starts from nothing in less than fifteen minutes.

| module | about | obligations |
|---|---|---|
| `DvbLoopbackProofs` | the kernel device and its daemon, with faults and without; the two threads of a device in the daemon | 2792 |
| `QueueProofs` | a message queue; ring buffer and descrambler | 3318 |
| `CamPidsProofs` | `process_cam`, with what it expects of core and descrambler | 2161 |
| `ChannelCamProofs` | service tracker, queue and `process_cam` together | 2466 |
| `CwIndexProofs` | handlers, indices, pid map and keys of the core | 2247 |
| `ClientProofs` | card clients and their caches; the CCcam client | 5664 |
| `KeyProofs` | an ECM handler; the key list and its file | 1755 |
| `SequenceLemmas` | what the operators on sequences return that lists and queues are built from, and the k-th of a set of numbers | 509 |

The inductive invariants stand at the end of the modules they are about, so that TLC checks them
as well (that of the entries and answers of the card clients stands with its proof). In every proof that a step keeps one there is a lemma or a step per action, and
under it one per conjunct that the action can disturb.

### The kernel device

For every set of processes and daemon incarnations, every number of slots and every choice of `Calls`,
from `ConstantsAssumption` alone (sizes are positive, names of calls and faults are known,
no process is `NoProc`). The first six hold for every choice of `Faults`, the others `ASSUME Faults = {}`.

| theorem | statement |
|---|---|
| `TypeCorrect` | `Spec => []TypeOK` |
| `RegistersOwned` | `Spec => []WaiterOwnsRegisters`: while a call waits, the registers hold its request or none |
| `ExecutesOwnRequest` | `Spec => []ExecutesForWaiter`: the daemon works for a waiting caller on its present request only, read once |
| `ReadFindsRequest` | `Spec => []PollinMeansRequest`: a daemon whose poll succeeded finds a request, and so does not exit |
| `SingleDaemon` | `Spec => []OneDaemon`: one incarnation at a time has the control device open |
| `BufferIsKept` | `Spec => BufferKept`: the mmap buffer is neither freed nor replaced during a READ |
| `AnswersAreOwn` | `Spec => []AnswerIsOwn`: the answer a call collects is that to this very call |
| `SlotsAreCounted` | `Spec => []NoSlotLeak`: `inuse_filemap` is the number of open files and the daemon |
| `NoPollIsLost` | `Spec /\ []Narrow => []NoLostPoll`: nobody sleeps in poll unnoticed by the daemon |
| `RequestReplyImplemented` | `Spec => ImplementsRequestReply`: the refinement; every step is a step of `RequestReply` or leaves it as it is |

**The argument.** None of the first six is inductive alone. That a waiter owns the registers needs that a process
between posting and collecting holds `lock_fake_ioctl`, so that there is only one; that
holds because the lock variable and the place of the process move together
(`CallsOwnLocks`). That the daemon's job belongs to a waiter needs that a
caller which gives up disowns its job, and that only a serving daemon has one
(`RequestsAreOwned`). That a read finds its request needs that nobody else reads, hence one
daemon (`OneDaemon`, from `users = 0`), and that a caller which gives up leaves `ioctlcmd` set, as the code
does. `BufferKept` needs that a READ owns `lock_buffer` from before the request
until after the copy. The inductive invariant is the conjunction

    IInv == TypeOK /\ CallsOwnLocks /\ RequestsAreOwned /\ WaiterOwnsRegisters
            /\ ExecutesForWaiter /\ PollinMeansRequest /\ OneDaemon

Without faults more is so ([departures](#departures-from-what-the-code-says-of-itself) has the
counterexamples to `AnswerIsOwn` and `NoLostPoll` with signals and with early opens): no caller leaves its request
(`NobodyLeaves`), the daemon comes before the files and stays (`DaemonStays`), and a slot is that of one open
file (`SlotsAreOwned`). `QuietInv` is `IInv` with these three. The number of slots in use is then
the number of open files by a bijection. The refinement maps a call to what it has been through
(`PhaseOf`: asked, served, answered, refused), and needs of `QuietInv` that the register holds an answer
only for who waits.

`NoLostPoll` needs `PollsAreWatched`, which says where the bit of a sleeping process is on its way. It holds while
no slot in use is beyond the bits of an `int` (`Narrow`): `1 << pos` (`dvb_loopback.c:912`) makes two
slots 32 apart share a bit. The hypothesis is about the behaviour and not a constant, as the code does not keep
slots below 32.

### Request thread and poll thread

In `DvbLoopbackProofs` too. For any number of files, entries and numbers, from `RequestLoopAssumption` (there are at least as many
entries as files, `None` is none of anything).

| theorem | statement |
|---|---|
| `ReportsAreNews` | `LoopSpec => ReportsNews`: only files are reported that were polled without success and had data after that |
| `PlacesAreOfRound` | `LoopSpec => []PfdInArray`: when poll returns, the place an entry has noted is in the array of this round and has its number |
| `EntriesAreOfFiles` | `LoopSpec => [](LoopTypeOK /\ EntriesInv /\ ArrayInv)`: the inductive invariant |

**The argument.** The poll thread fills its array under the mutex, gives the mutex up for `poll`, and then judges each entry of
the list by the place it has noted (`pfd`), while entries came, went and were marked. `EntriesInv`: an entry in the list has a file of
its own, its number is that of this file, and it is marked exactly if its file was polled and not reported
(`requested`). `ArrayInv`: an entry that has noted a place is marked, for a new user of the entry starts without either
(`NewEntry`) and a report takes both back (`Forgets`); so each new array gives it a new place, and the place has its number. A number that
was closed before `poll` looked at it may be another file by then, but its entry has left the list; a file that is closed during
`poll` is never ready. So what is ready at an entry's place is the entry's file, it was polled and has data; and
data that came before the mark or after are both counted (`requested \cap data \subseteq since`). That a file
finds a free entry is counted (`FreeIsFound`).

### Ring buffer and descrambler

In `QueueProofs`. For every size of packet, ring, reserve and cluster, from `ConstantsAssumption` (the ring is whole packets, more than two).

| theorem | statement |
|---|---|
| `TypeCorrect` | `Spec => []TypeOK`: pointers stay in the buffer |
| `ReadsInOrder` | `Spec => []StreamInOrder`: the application reads the stream in order, nothing is overwritten unread; also when fills end inside packets and keys change at any time |
| `CsaStaysBetween` | `ASSUME Calm PROVE Spec => []CsaBetween` |
| `DescramblesUnread` | `ASSUME Calm PROVE Spec => []WorksOnUnread` |

`Calm` says that keys do not change during a read and that fills end between packets; the departures show that
neither can be left out.

**The argument.** `RingInv` adds to `StreamInOrder` what the reader is about to take
(`TakesUnread`): the count it was told stays true while it has no lock, because only it moves `rdPtr`.
`CsaInv` adds where the phases of a call, a pass and a close can meet (`Phases`), that pointers
stand between packets, that the stretch handed to `process_ts` starts at `csaPtr` and is unread (`HasStretch`),
and that what is about to be taken was descrambled (`TakesProcessed`). Distances in the ring are remainders modulo `Size`;
the lemmas at the head of the module say how they change when a pointer moves.

### Message queue

In `QueueProofs`. For all keys, any number of cells, any period and any time, from `QueueAssumption` (the kinds of keys are
disjoint, a period is positive).

| theorem | statement |
|---|---|
| `QueueTyped` | `QueueSpec => []QueueTypeOK` |
| `CellsAreConserved` | `QueueSpec => []CellsConserved`: each cell is once on the list, among the empty ones, or in the hand |
| `LatestIsDelivered` | `QueueSpec => []LatestDelivered`: the data last sent for a replaced key is on the list, and once |
| `WokenInTime` | `QueueSpec => []WakesInTime`: the loop never sleeps past the first message |
| `RecurringIsKept` | `QueueSpec => []KeepsRecurring`: a recurring message is on the list or in the hand, as itself |
| `HandlesInOrder` | `QueueSpec => InOrder`: of the messages to run at once, the first sent is taken first |

**The argument.** `QueueInv`: a cell is in one place and there once (`CellsPlaced`), messages to be run at once stand on the list
in the order they were sent (`SentInOrder`), a replaced key is there once with its last data
(`SentLatest`). With cells in one place, a change of a cell's content concerns one place of the list only; that is what
each of the others needs of it.

### Tracker, queue and process_cam

For every set of files, transponders, services and filters, from `ProcessCamAssumption` and `ChannelCamAssumption`
(no constant that stands for "none" is a service, each service has pids, what transponders offer are services).

| theorem | statement |
|---|---|
| `TrackerTyped` | `System => []Tracker!TypeOK` |
| `SidsStand` | `System => []NoDanglingSid`: no command points to a service that left the list |
| `AnnouncedHasFilter` | `ASSUME ~NoCache PROVE System => []NoOrphan`: what is announced is viewed by some filter |
| `MapFollowsTune` | `ASSUME ~Late PROVE System => []MapIsTuned`: a map in use is of the transponder received |
| `CamAgrees` | `ASSUME NEW a, Adapters = {a} PROVE System => []InAgreement`: when the queue is empty, `process_cam` views what is announced |
| `ViewedAreAnnounced` | `ASSUME OneFilter PROVE System => []Tracker!KeepsViewed`: while a transponder is received, what a filter views is announced |
| `ViewedRunOnAir` | `ASSUME OneAdapter, ~Late, \A tp \in Transponders : Apart(Offers[tp]) PROVE System => UndisturbedOnAir`: unless a reset waits in the queue, no message about another service interrupts one that stays viewed |
| `FiltersAreServed` | the same and `OneFilter PROVE System => []ServedAtRest`: when nothing is left to do, every encrypted service with a filter is served with all of its streams |

`~NoCache`, `~Late` and one adapter are where the departures begin: `--sid-nocache` leaves services behind, a
transponder that is left and still delivers gives its map to the new one, and adapters that share `Channels` disturb each other.

**The argument.** `SidInv`: while read_sid reads a map no command has a service, for it began without a map
(`NothingFound`); so a map that is dropped under it leaves nothing to point to. `MapInv` says of each place of read_sid
what the list holds: all of the transponder but the services still to be read, unless a tune came in
between, and then the map is marked as dropped. `Agreement` looks at the queue instead of waiting for it to be empty: what
is announced is what will be viewed once the messages on it have been handled, so a step of the tracker changes
both sides and a step of the queue neither. It needs of `process_cam` that a message is handled as a whole before
the next.

`FiltersAreServed` goes the whole way from a filter to the descrambler, in four parts:

- *Announced.* `FoundInv`: a service has at most one filter (`EachOwn`), a filter whose command waits no more has
  been looked up in the map, or the next round does it (`LookedUp`), and what was found is announced (`AllAnnounced`).
- *Of one transponder.* `OneOffer`: unless a reset waits, the services in play (those of the map, those of messages no
  reset will undo, and those `process_cam` has to do with) are all offered by one transponder. `MapInv` says that of the
  map; a tune puts a reset on the queue, and once that is handled `process_cam` has nothing.
- *Agreed.* `Agreement`, as above.
- *Served.* `CamServes`: unless a reset waits, `ServiceInv` of `process_cam` holds (next section). Its proof needs services
  without common streams, which `OneOffer` reduces to those of one transponder.

TLC checked these invariants on the instance of `MCChannelCam_rest` before they were proved. The hypotheses are where
departures begin: closing one of two filters of a service withdraws it (`OneFilter`), a transponder that is left may give its
map to the new one (`Late`), a stream shared by two services is taken from both, and adapters share `Channels`.

The proof corrected the model's claim. `Undisturbed` without its condition had held in the run only for the bound of the queue:
with `MaxLow = 5` a second tune takes the reset of the first off the queue (fe_tune removes by type), so a message for the transponder
that was left is handled before the new reset, and the closings it makes of services given up
earlier may take a stream that has the same pid on both. What is then interrupted was left already; `UndisturbedOnAir`
says so and holds for every bound.

### process_cam

For any services and their streams, from `ProcessCamAssumption`, `OneAdapter` and `PidsApart` (no two services
share a stream). `CwIndexProofs` and `ChannelCamProofs` use them by instance.

| theorem | statement |
|---|---|
| `ViewedAreServed` | `Spec => []KeepsViewed`: between two messages what is viewed is served with all of its streams |
| `ViewedRunOn` | `Spec => Undisturbed`: no call made for another service interrupts it |
| `OthersAreGivenUp` | `Spec => OnlyViewedLeft`: once a message has made its calls, what is not viewed has no program and no pid |

**The argument.** They are about the list of delayed closings (`plugin_cam.c:222`, 272), the
calls that a message makes, and what they do one by one. `ServiceInv`
counts a service as live (`Live`) when the plugin has announced it and not given it up. Every live service is served, or the
call that does it is still to come (`Provided`); none of the calls under way harms a live one (`Harmless`); every
other service has no program, or a call that ends it comes after the last that asks for it (`GivenUp`).
`LeftInv` adds that calls for what was given up only take away (`Shrinks`), and that a pid that is mapped belongs to
a live service or some call forgets it. The calls of a message are a sequence made of those for the delayed
entries and those for the new service, so most lemmas say where a call of the one part stands in the whole
(`ConcatStands` in `SequenceLemmas`), and `TailIs` what is left when the first was made.

The code does not see to `PidsApart`, and without it the theorems are false: see the
row with `SharedPids` under [departures](#departures-from-what-the-code-says-of-itself).

### ECM handler

For every service, ECM, system and index, every order of descriptors and priorities, every choice of what can be
decoded, from `EcmHandlerAssumption` (`None` is neither a pid nor an index, and there is an index).

| theorem | statement |
|---|---|
| `SectionsOfEcm` | `Spec => []DataOfCurrent`: no system decodes a section of another pid than that of the ECM in use |
| `KeysAreFollowed` | `Spec => []KeysFollow`: a handler in sync that has dealt with what the tracker wants has its last control word at the index of its service |

**The argument.** What the lists of ECMs and candidates hold does not matter, so the proof says nothing of the folds that
build them: reading ECMs changes those lists only (`Listing`), and `JumpIn` sets ECM, pid and section together.
`KeysInv` is `FilterOfEcm` and `DataOfEcm` (the filter's pid is that of the ECM in use, what it read is of
that pid, and so is what Process was called with, for between the two halves of a call nobody changes the
filter's ECM), `TakenOver` (without a trigger the handler has what the tracker wants) and `LastWritten` (in mode
3 and in sync, the last control word is at the handler's own index). Each operator of a call has a lemma on what it keeps.

### Key list and key file

For every set of updaters, keys, ids and files an editor writes, from `KeyFileAssumption` (the files have lines, the one at
the start was written in the second of the start, no key is `NoKey`). `MaxLen` and `MaxTime` only bound
the guards and are not used.

| theorem | statement |
|---|---|
| `SavedInStep` | `ASSUME Careful PROVE FileSpec => []InStep`: when the list counts as saved, the file holds what the list holds |
| `EditKept` | `ASSUME Careful, First # NoFile PROVE FileSpec => NoEditLost`: no save takes the place of an edit that was not read in full |
| `OwnSaves` | `FileSpec => OwnSavesStay`: the list is thrown away for an edit only, not for a file of its own saving, whatever the editor does |

`Careful` and `First # NoFile` are where the departures begin: times are seconds, so an edit in the second of a load or of a save
does not show, and a list that started without a file has time zero and is saved over any.

**The argument.** `SaveInv` follows a save: what was written is what the list holds (`Lines`) until the lock is given up, because
the insertion of an item waits for that lock; marking items as deleted does not wait, which is why `Lines` is compared only while
no updater is between its marks and its insertion (`Quiet`), and that insertion sets `modified`. A purge does not change
`Lines` (`PurgedLines`), and after a load only what was read is left (`LoadedIs`). An edit makes the times differ, since the second
of the last load or write is the second of the file (`TimesInv`). `UnreadInv` says of an edit that was not read in full that the
file looks newer or that the list counts as not loaded, and either prevents the save. Of the list itself the
proof needs which items `Kept` keeps, in their order: the k-th of some positions is found by counting those before it
(`RankedOnce` in `SequenceLemmas`).

### Control word indices

For every number of indices, every set of services and their streams, any length of the sequence of
control words, from `CwIndexAssumption` and `ProcessCamAssumption` (there is an index, `NoCw` and `NoSid` are no service,
a service has a list of streams, the model is of one adapter).

| theorem | statement |
|---|---|
| `IndicesAreOwned` | `Spec => []IndexesMatch`: every variable has its type, the indices in use are those of the handlers, and no two have the same |
| `ServiceHasOneHandler` | `Spec => []OneHandlerPerSid` |
| `CoreImplements` | `Spec /\ [](0 \notin indexMap) => Implements`: the refinement of `CamPids` |
| `IndexZeroStaysFree` | `ASSUME IsFiniteSet(Sids), Cardinality(Sids) < MaxIdx PROVE Spec => [](0 \notin indexMap) /\ Implements` |
| `ViewedStaysServed` | `ASSUME Pids0!PidsApart PROVE Spec /\ [](0 \notin indexMap) => []Pids0!KeepsViewed /\ Pids0!Undisturbed`: between two messages what is viewed is served with all of its streams, and no call made for another service interrupts it |
| `NothingElseIsLeft` | `ASSUME Pids0!PidsApart PROVE Spec /\ [](0 \notin indexMap) => Pids0!OnlyViewedLeft`: once a message has made its calls, what is not viewed has no program and no pid |
| `ServedWithinIndices` | all three from `Pids0!PidsApart` and `Cardinality(Sids) < MaxIdx` alone |
| `KeysMatchService` | `Spec => []KeysOfService`: the pids of an index other than zero are descrambled with keys of the service its handler is in sync with |

**The argument.** `CwInv` is the types of list, calls and descrambler with `HandlersInv`: the handlers are well-formed, own their
indices, and serve different services. A program goes to the handler of its service, so a second one
comes into being only when there is none (`HandlerTaken`), and a handler that goes takes its
index with it (`HandlerGone`). `HandlersInv` is what the refinement needs: the program of a service is that of one handler
(`PrgIs`), so giving it to that handler, to an idle one or to a new one changes `prg` at one place only. The
threads change neither programs nor indices (`SamePrograms`), which makes their steps stutters.

Index zero is where the core does something else than it was told: a handler that leaves it maps its whole old program again
(`ToGive`), also pids that were closed before; and with no index left a program is
lost. As long as it is free neither happens, since a new handler avoids zero while another index is free. That is
so with fewer services than indices (sixteen in the code, `cam.h:145`): a new handler comes only when every
other has a program (`ZeroFreeInv`), so there are fewer handlers than services. With as many services as indices,
`cw_indices` checks the refinement on an instance; with more of them viewed at once it does not hold, and the code says
so in its log ("no free cwindex", `cam.c:2764`).

`ViewedStaysServed`, `NothingElseIsLeft` and `ServedWithinIndices` are about `process_cam` and the core together. As the
core implements `CamPids` (the program of a service is `PrgMap`, its mapped pids `MappedMap`), they are the theorems of
`CamPidsProofs` under that mapping (`Cam == INSTANCE CamPidsProofs WITH ...`). That index zero is free is
needed here, since the handler that leaves it maps pids that were closed.

`KeysMatchService` needs neither condition. `SyncInv` follows three pieces of state that differ for a while: what the handler was given
(`sid`, `cwIndex`), what its thread works on (`filterSid`, `filterCwIndex`) and which keys the index has. Where the first
two differ, the trigger is set (`WorksOn`); a handler writes to its own index or, having been moved off it, to index zero, so nobody
else writes to its index; and whoever gets in sync writes both halves (`force`), so what is
there is of one service (`KeysAre`). An index without pids has no keys, unless it is invalid, and then they go when a pid comes
(`KeysGo`). The proof showed that the invariant was stated too strongly before: it spoke of the keys of every index, used or
not. When the transponder is left, `update_keys` only invalidates the indices ('I'); if all streams of the next service are mapped
to another index already, which takes services that share their streams, the old keys stay where they were, and the handler
in sync does not replace them as no pid uses its index. No packet meets them. (Three services of one stream, two of them the same, and
three indices show it within 28 steps.)

### Card clients

For every set of systems, every list of clients and every protocol of theirs, every size of the caches, every
`MaxFail` and, but for the last two, whatever the servers announce, from `NumCacheAssumption` alone (a cache has an entry):

| theorem | statement |
|---|---|
| `TypeCorrect` | `Spec => []TypeOK` |
| `OwnedEntries` | `Spec => []EntriesOwned`: an entry in work belongs to the one thread that will report its result |
| `WokenSleepers` | `Spec => []SleepersAreWoken`: who sleeps in `Get` has somebody who will find the flag |
| `RightAnswer` | `Spec => []OwnAnswer`: of a client that numbers or reconnects, the control word is the one of the ECM it was given, also when it comes out of the cache |
| `AllTried` | `Settled /\ Spec => TriesAll`: an ECM is given up only when every client that handles it has failed it |
| `TriedOnce` | `Settled /\ Spec => []TriesOnce`: none of them is asked for it twice |

**The argument.** A sleeper is woken because the entry whose flag it set is in work, an entry in
work has an owner (`WorkHasOwner`, the converse of `EntriesOwned`), and the owner's report
always takes the entry out of work. The last needs that the entry of a message in hand has not
failed for good: `Cached` leaves such an entry alone (`NotFailed`). The right answer needs that
who waits has the client for himself (`Exclusive`), and that what is under way to
it is known (`RequestsKnown`): numbers are not used twice, and of a client that
reconnects only the present request can be answered. The inductive invariant is

    IInv == TypeOK /\ HasClient /\ Entries /\ Exclusive /\ RequestsKnown /\ OwnAnswer
    Entries == EntriesOwned /\ NotFailed /\ WorkHasOwner /\ SleepersAreWoken

`AllTried` and `TriedOnce` are about `FindBySysId`, which goes by the system ids that the clients have learnt
by then. They need `Settled`: no server announces a system id that is not in the configuration of its client (a Radegast
server all of them or none), and no client is a Buffy. Then a login, a refused
one and a lost connection change nothing about who handles an ECM (`KnownCaids`, `SettledHandles`); without it both can
fail (see the departures). `Turn` says of the record of one system that the clients tried are exactly those between
the start and the present one, round the end of the list if need be (`Before`), and that an idle system remembers a client that handles the
system id it remembers: so the start comes again. `Passes` sums up what any step, one of another system too, makes of this
record: nothing, another state of the same client, a failure, a result, a call, or the next client. `FirstAfter` is what is needed of the `CHOOSE`
in `FindBySysId`.

What several actions have in common is an operator with a
lemma of its own: to take an entry (`Takes`), to stop waiting (`StopsWaiting`), to report a
result (`Reports`). Lemmas on `MsgCache` say which entry each of its operators changes.

### CCcam client

For every set of shares, however many reader threads, every key limit and all bounds on what happens, from
`ReadersAssumption` alone (the names of the threads differ, the bounds are numbers). In `ClientProofs` too:

| theorem | statement |
|---|---|
| `HasReaderAlways` | `ClientSpec => []HasReader`: between two calls a connected session has a reader |
| `OwnKeyAlways` | `ClientSpec => OwnKey`: the key of a call whose request was the only one is of its own ECM |

**The argument.** Four lemmas in four sections, each of which uses only what is before it:

- *Stacks.* A thread is a stack of labels, so the proofs need to know which stacks there are. `Under(l)` are
  the labels at which the caller of a procedure at `l` goes on, and `Nested` says that every label
  of a stack is under the one above it: a grammar of return addresses. `Goto` must stay in the procedure
  (`Under` is the same), `Invoke` must come from where the procedure may be called. Then a `Return` finds
  one of few labels, which is what the steps of Login, Logout and CryptSend need of each other.
- *Fields and buffers.* The records keep their fields, the packets their form, and a reader in the middle of an answer
  has that answer at the head of its buffer (no one else takes from it).
- *The session*, for `HasReader`. A reader that is not cancelled is the active one (`ReaderInv`), so it is safe
  to say that "the" reader brings the socket down when it leaves. A reader that logs in stands in the Logout of its own
  Connect and waits for itself: it gets no further before the two seconds are over (`ReaderShape`), so only
  the caller dials. The caller dials without a reader and starts one before it returns (`SocketInv`). A connected socket
  without one is thus in the hands of the caller, whose Logout or Login is not over. Excepted are the two departures above: a reader that has cancelled
  itself (`th.own`) and an EMM that waits for the lock it holds (`Doomed`); `SessionInv` says what holds until then, and that
  `Doomed` stays so is part of its proof.
- *The answers*, for `OwnKey`. When the call sends, nothing that can be answered is out. From then until
  it wakes, every request under way, every answer in the socket or in the buffer of a reader, dead or alive, and
  every key a reader is about to deliver are of this ECM and this share (`AnswerInv`): a reader can only
  lose requests or move answers on. The flag is reset before the wait, so a key found afterwards is one of those.

## What is only model-checked

- Liveness (`CallsReturn`, `DaemonCloses`, `SentIsHandled`, `KeepsReporting`, `GetsInSync`, `KeysReachFile`,
  `CallReturns`, `CloseNoticed`, and in the further instances `CloseReleases`, `CommandsServed`, `KeysArrive`): TLAPS does
  not reason about `ENABLED` and fairness in the way these need.
- `TriesAll` and `TriesOnce` of `CardClients` where a server does announce other
  system ids than are configured: then they are not so of every instance.
- The type invariant of `EcmHandler`: the lists of candidates come from folds, and what a fold
  returns takes induction over data, which the provers cannot do here.
- `MappedToHandler` of `CwIndex`: it relates the pids to what the calls still to be made will do.
- `NewKeyIsFound` of `KeyFile` is not so (see the departures).

## What is not modelled

The cipher, the CA systems' protocols, the parsers of DVB tables, configuration files, logging and the
stand-ins of the original host program transform data or talk to devices; their
results appear as inputs (how many packets are decrypted, whether an ECM is decoded, which
streams a service has). They are most of the repository's lines; a model of them would restate
the code. Forwarding and procfs and smart card slots hold state
worth a module and are planned; of sockets and threads what the CCcam client uses is in `CCcam2`; EMM processing and the loggers are sequential but for what they add to the
key list, which is modelled. Within modelled components, what is left out is said under
[Modules](#modules) and in the notes of `PROJECT.json`.

## Plan

Done, in this order, the most important behaviour first:

1. `RequestReply`, `DvbLoopback`: every call of every application passes through it.
2. `DvrRing`: every byte that is watched passes through it.
3. `MsgQueue`: every decision of the plugins passes through it.
4. `ProcessCam`, `CamPids`, `GetSid`, and `ChannelCam` that composes them.
5. `CwIndex` on top of `ProcessCam`, refining `CamPids`.
6. `DvbLoopbackProofs`: type correctness and the safety invariants.
7. `RequestLoop`: the poll thread and the request thread of a device.
8. `EcmHandler`, `MsgCache`, `CardClients`: how a key is found, and by whom.
9. `KeyFile`: where keys are kept.
10. `ClientProofs`: entries, sleepers and answers for any number of systems and clients.
11. `CCcam2`: a client with a thread of its own, down to the socket.

Next, modelling:

12. `ForwardMode`: the procfs switch against open, release and calls. Property: a file opened
    in one mode is released in the same. Bounds: 2 files, 2 writes.
13. `PmtScan`: filters, retries and `found` of the PMT loop, a refinement of `GetSid`'s scan.
    Property: the loop ends; a map that is complete has every service. Bounds: 3 services, 2 filters.
14. `KeyQueue`: `queued`, `status` and parity in process_ts under CwIndex's writes. Property:
    no cluster is decrypted with a key of another period. Bounds: 1 index, 4 periods.
15. Smart card slots and the EMM loggers; the list of the watcher with sockets that do become idle.
16. Compositions: `RequestLoop` in place of `DaemonAsync` in `DvbLoopback`, `EcmHandler` with the systems of
    `CardClients` in place of `CanDecode`.

Proved, after the modules:

17. `DvbLoopback` implements `RequestReply` without faults; `NoSlotLeak`, `NoLostPoll`, `AnswerIsOwn` with it.
18. `MsgQueue`: all its safety properties, with `SequenceLemmas`.
19. `DvrRing`: types, stream order, `CsaBetween` and `WorksOnUnread` for every size.
20. `ChannelCam`: `NoDanglingSid`, `NoOrphan`, `MapIsTuned`, `InAgreement`.
21. `EcmHandler`: `DataOfCurrent`, `KeysFollow`.
22. `CwIndex`: `IndexesMatch`, one handler per service, the refinement of `CamPids`, what is viewed and what is not, and `KeysOfService`.
23. `KeyFile`: `InStep`, `NoEditLost`, `OwnSavesStay`.
24. `CCcam2`: `HasReader`, `OwnKey`, with an invariant on the stacks of its threads.
25. `CardClients`: `TriesAll` and `TriesOnce`, with an invariant on which clients the loop has passed.
26. `CamPids`: `KeepsViewed`, `Undisturbed`, `OnlyViewedLeft`; `ChannelCam`: `ServedAtRest`, `UndisturbedOnAir`.
27. `RequestLoop`: `ReportsNews`, `PfdInArray`.

Next, proofs:

28. `CwIndex`: `MappedToHandler`, from an invariant on the calls still to be made.
