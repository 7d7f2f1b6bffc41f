---------------------------- MODULE DvbLoopback ----------------------------
(***************************************************************************)
(* One loopback device of the dvbloopback kernel module                    *)
(* (dvbloopback/module/dvb_loopback.c).  Applications open the looped      *)
(* device; each of their system calls becomes a request that is posted in  *)
(* one set of registers (ioctlcmd, ioctlfd, ioctldata) and answered by the *)
(* user-space driver, the daemon, through the control device.              *)
(*                                                                         *)
(* Every critical section of lock_ioctl is one step: the mutex is never    *)
(* held across a wait.  lock_fake_ioctl and lock_buffer are, so their      *)
(* owners are variables.                                                   *)
(***************************************************************************)
EXTENDS Integers, FiniteSets

CONSTANTS
  Procs,      \* application processes, each with at most one looped file
  Daemons,    \* incarnations of the user-space driver
  Ioctls,     \* numbers of regular ioctls (>= DVBLB_MAX_CMDS)
  MaxFd,      \* DVBLB_MAXFD, slots of filemap
  IntWidth,   \* bits of an int, the type of the shift 1 << pos
  Calls,      \* which calls applications make between open and close
  Faults,     \* which events of the environment may happen
  NoProc      \* no process

AllFaults == {"signal", "slow_close", "kill", "early_open"}

ASSUME ConstantsAssumption ==
  /\ MaxFd \in Nat \ {0}
  /\ IntWidth \in Nat \ {0}
  /\ Calls \subseteq {"ioctl", "read", "poll"}
  /\ Faults \subseteq AllFaults
  /\ NoProc \notin Procs \cup Daemons
  /\ Ioctls \cap {"open", "close", "read", "poll", "none"} = {}

Slots  == 0 .. MaxFd - 1
NoSlot == -1                       \* private_data not set
NoCmd  == "none"                   \* ULONG_MAX
Cmds   == {"open", "close", "read", "poll"} \cup Ioctls
Rets   == {"zero", "nonzero"}      \* an answer; an open has no positive one
Error  == "error"                  \* a call fails without an answer

VARIABLES
  filemap,             \* who a slot stands for: looped, control device, free
  pid,                 \* the registered daemon, NoProc for -1
  users,               \* dvb_device.users of the control device
  ioctlcmd, ioctlfd,   \* the request registers
  ioctldata,           \* whose buffer the request points to, while it waits
  ioctl_already_read,
  ioctlretval,         \* the answer, and whose request was executed
  poll_waiting,        \* set of bits
  buffer,              \* the mmap buffer exists
  lock_fake_ioctl, lock_buffer,
  pc, slot, cmd, res,  \* per process: place, private_data, call, result
  woken,               \* processes whose wait_poll entry was woken
  dpc, job,            \* per daemon: place in its loop, command it executes
  watch                \* slots on which the daemon's poll thread polls

regs  == <<ioctlcmd, ioctlfd, ioctldata, ioctl_already_read, ioctlretval>>
locks == <<lock_fake_ioctl, lock_buffer>>
app   == <<pc, slot, cmd, res, woken>>
ctl   == <<pid, users, dpc, job, watch, buffer>>
vars  == <<filemap, pid, users, regs, poll_waiting, buffer, locks, app,
           dpc, job, watch>>

NoJob == [cmd |-> NoCmd, fd |-> NoSlot, for |-> NoProc, ret |-> "zero"]

\* Places at which a process is inside dvblb_fake_ioctl with the mutex.
HoldsFake  == {"post", "wait", "linger", "collect"}
Posted     == {"wait", "linger", "collect"}
\* Places of a daemon that has opened the control device.
Serving    == {"run", "readable", "exec", "answer"}
OpenedCtl  == {"wipe", "clear", "mmap", "rel"} \cup Serving

Init ==
  /\ filemap = [s \in Slots |-> "null"]
  /\ pid = NoProc /\ users = 1
  /\ ioctlcmd = NoCmd /\ ioctlfd = NoSlot /\ ioctldata = NoProc
  /\ ioctl_already_read = FALSE
  /\ ioctlretval = [val |-> "zero", for |-> NoProc]
  /\ poll_waiting = {} /\ buffer = FALSE
  /\ lock_fake_ioctl = NoProc /\ lock_buffer = NoProc
  /\ pc = [p \in Procs |-> "closed"] /\ slot = [p \in Procs |-> NoSlot]
  /\ cmd = [p \in Procs |-> NoCmd] /\ res = [p \in Procs |-> "zero"]
  /\ woken = {}
  /\ dpc = [d \in Daemons |-> "new"] /\ job = [d \in Daemons |-> NoJob]
  /\ watch = {}

-----------------------------------------------------------------------------
(* Helpers.                                                                *)

\* The slots get_new_filemap may return: the lowest free one, none if full.
NewFilemap == {i \in Slots : /\ filemap[i] = "null"
                             /\ \A j \in 0 .. i - 1 : filemap[j] # "null"}

InuseFilemap == Cardinality({i \in Slots : filemap[i] # "null"})

\* The bits of poll_waiting that 1 << pos stands for: the shift is done in
\* an int (modulo its width), and the sign bit is extended to the upper half.
PollBits(pos) == LET b == pos % IntWidth
                 IN IF b = IntWidth - 1 THEN b .. 2 * IntWidth - 1 ELSE {b}

\* p's call finds the looped device behind its private_data.
Looped(p) == filemap[slot[p]] = "lb"

\* The request of p loses its requester: nobody waits for its answer now.
Disown(p) ==
  /\ ioctldata' = IF ioctldata = p THEN NoProc ELSE ioctldata
  /\ job' = [d \in Daemons |->
               IF job[d].for = p THEN [job[d] EXCEPT !.for = NoProc] ELSE job[d]]
  /\ ioctlretval' = IF ioctlretval.for = p
                    THEN [ioctlretval EXCEPT !.for = NoProc] ELSE ioctlretval

-----------------------------------------------------------------------------
(* dvblb_fake_ioctl, entered at "lockfake" and left at "ret".              *)

\* Mutant: lock_fake_ioctl is not waited for.
LockFakeUnguarded(p) ==
  /\ pc[p] = "lockfake"
  /\ lock_fake_ioctl' = p
  /\ pc' = [pc EXCEPT ![p] = "post"]
  /\ UNCHANGED <<filemap, ctl, regs, poll_waiting, lock_buffer,
                 slot, cmd, res, woken>>

LockFake(p) ==
  /\ pc[p] = "lockfake" /\ lock_fake_ioctl = NoProc
  /\ lock_fake_ioctl' = p
  /\ pc' = [pc EXCEPT ![p] = "post"]
  /\ UNCHANGED <<filemap, ctl, regs, poll_waiting, lock_buffer,
                 slot, cmd, res, woken>>

\* Mutant: the error path unlocks a mutex that another process holds.
LockInterruptedUnlocks(p) ==
  /\ "signal" \in Faults /\ pc[p] \in {"lockfake", "post"}
  /\ lock_fake_ioctl' = NoProc
  /\ pc' = [pc EXCEPT ![p] = "ret"] /\ res' = [res EXCEPT ![p] = Error]
  /\ UNCHANGED <<filemap, ctl, regs, poll_waiting, lock_buffer,
                 slot, cmd, woken>>

\* A signal interrupts one of the two mutex_lock_interruptible at the top.
LockInterrupted(p) ==
  /\ "signal" \in Faults /\ pc[p] \in {"lockfake", "post"}
  /\ lock_fake_ioctl' = IF pc[p] = "post" THEN NoProc ELSE lock_fake_ioctl
  /\ pc' = [pc EXCEPT ![p] = "ret"] /\ res' = [res EXCEPT ![p] = Error]
  /\ UNCHANGED <<filemap, ctl, regs, poll_waiting, lock_buffer,
                 slot, cmd, woken>>

Post(p) ==
  /\ pc[p] = "post"
  /\ ioctlcmd' = cmd[p] /\ ioctlfd' = slot[p] /\ ioctldata' = p
  /\ ioctl_already_read' = FALSE
  /\ pc' = [pc EXCEPT ![p] = "wait"]
  /\ UNCHANGED <<filemap, ctl, ioctlretval, poll_waiting, locks,
                 slot, cmd, res, woken>>

WaitAnswered(p) ==
  /\ pc[p] = "wait" /\ ioctlcmd = NoCmd
  /\ pc' = [pc EXCEPT ![p] = "collect"]
  /\ UNCHANGED <<filemap, ctl, regs, poll_waiting, locks,
                 slot, cmd, res, woken>>

\* Mutant: a caller that gives up takes its command back.
AbandonWithdraws(p) ==
  /\ lock_fake_ioctl' = NoProc /\ ioctlcmd' = NoCmd
  /\ pc' = [pc EXCEPT ![p] = "ret"] /\ res' = [res EXCEPT ![p] = Error]
  /\ Disown(p)
  /\ UNCHANGED <<filemap, pid, users, dpc, watch, buffer, ioctlfd,
                 ioctl_already_read, poll_waiting, lock_buffer,
                 slot, cmd, woken>>

\* Leave dvblb_fake_ioctl with result r, without a look at the answer.
Abandon(p) ==
  /\ lock_fake_ioctl' = NoProc
  /\ pc' = [pc EXCEPT ![p] = "ret"] /\ res' = [res EXCEPT ![p] = Error]
  /\ Disown(p)
  /\ UNCHANGED <<filemap, pid, users, dpc, watch, buffer, ioctlcmd, ioctlfd,
                 ioctl_already_read, poll_waiting, lock_buffer,
                 slot, cmd, woken>>

\* A CLOSE waits once more instead, for a second, without signals.
ResendClose(p) ==
  /\ cmd[p] = "close"
  /\ pc' = [pc EXCEPT ![p] = "linger"]
  /\ UNCHANGED <<filemap, ctl, regs, poll_waiting, locks,
                 slot, cmd, res, woken>>

WaitInterrupted(p) ==
  /\ "signal" \in Faults /\ pc[p] = "wait" /\ ioctlcmd # NoCmd
  /\ \/ ResendClose(p)
     \/ cmd[p] # "close" /\ Abandon(p)

\* A daemon that serves answers a CLOSE within a second unless it is slow.
CloseTimesOut ==
  \/ "slow_close" \in Faults
  \/ \A d \in Daemons : dpc[d] \notin Serving

\* Mutant: nobody but a CLOSE looks for a daemon that is gone.
WaitTimeoutForever(p) ==
  /\ pc[p] = "wait" /\ ioctlcmd # NoCmd
  /\ CloseTimesOut /\ ResendClose(p)

\* The wait timed out.  Only a CLOSE, or a call that sees slot 0 free (the
\* userspace driver has closed), gives up; other calls wait again.
WaitTimeout(p) ==
  /\ pc[p] = "wait" /\ ioctlcmd # NoCmd
  /\ \/ CloseTimesOut /\ ResendClose(p)
     \/ cmd[p] # "close" /\ filemap[0] = "null" /\ Abandon(p)

Linger(p) ==
  /\ pc[p] = "linger" /\ (ioctlcmd = NoCmd \/ CloseTimesOut)
  /\ pc' = [pc EXCEPT ![p] = "collect"]
  /\ UNCHANGED <<filemap, ctl, regs, poll_waiting, locks,
                 slot, cmd, res, woken>>

\* The answer is taken from the registers if the command is still cleared.
Collect(p) ==
  /\ pc[p] = "collect"
  /\ IF ioctlcmd # NoCmd
     THEN Abandon(p)
     ELSE /\ lock_fake_ioctl' = NoProc
          /\ pc' = [pc EXCEPT ![p] = "ret"]
          /\ res' = [res EXCEPT ![p] = ioctlretval.val]
          /\ Disown(p)
          /\ UNCHANGED <<filemap, pid, users, dpc, watch, buffer, ioctlcmd,
                         ioctlfd, ioctl_already_read, poll_waiting,
                         lock_buffer, slot, cmd, woken>>

CollectInterrupted(p) ==
  /\ "signal" \in Faults /\ pc[p] = "collect"
  /\ Abandon(p)

-----------------------------------------------------------------------------
(* The system calls of the looped device (dvbdev->id = 0): how each one    *)
(* enters dvblb_fake_ioctl, and what it does with the result.              *)

Enter(p, c) == /\ pc' = [pc EXCEPT ![p] = "lockfake"]
               /\ cmd' = [cmd EXCEPT ![p] = c]
               /\ UNCHANGED res

Leave(p, place) == /\ pc' = [pc EXCEPT ![p] = place]
                   /\ cmd' = [cmd EXCEPT ![p] = NoCmd]
                   /\ res' = [res EXCEPT ![p] = "zero"]

\* Without "early_open" applications start after the daemon is up.
MayOpen == "early_open" \in Faults \/ \E d \in Daemons : dpc[d] \in Serving

OpenSlot(p) ==
  /\ pc[p] = "closed" /\ MayOpen
  /\ \E i \in NewFilemap :
       /\ filemap' = [filemap EXCEPT ![i] = "lb"]
       /\ slot' = [slot EXCEPT ![p] = i]
  /\ poll_waiting' = {}
  /\ Leave(p, "opening")
  /\ UNCHANGED <<ctl, regs, locks, woken>>

OpenCheckPid(p) ==
  /\ pc[p] = "opening"
  /\ IF pid = NoProc
     THEN /\ filemap' = [filemap EXCEPT ![slot[p]] = "null"]
          /\ slot' = [slot EXCEPT ![p] = NoSlot]
          /\ Leave(p, "closed")
     ELSE Enter(p, "open") /\ UNCHANGED <<filemap, slot>>
  /\ UNCHANGED <<ctl, regs, poll_waiting, locks, woken>>

OpenReturn(p) ==
  /\ pc[p] = "ret" /\ cmd[p] = "open"
  /\ IF res[p] # "zero"
     THEN /\ filemap' = [filemap EXCEPT ![slot[p]] = "null"]
          /\ slot' = [slot EXCEPT ![p] = NoSlot]
          /\ Leave(p, "closed")
     ELSE Leave(p, "open") /\ UNCHANGED <<filemap, slot>>
  /\ UNCHANGED <<ctl, regs, poll_waiting, locks, woken>>

IoctlBegin(p) ==
  /\ "ioctl" \in Calls
  /\ pc[p] = "open" /\ Looped(p)
  /\ \E c \in Ioctls : Enter(p, c)
  /\ UNCHANGED <<filemap, ctl, regs, poll_waiting, locks, slot, woken>>

IoctlReturn(p) ==
  /\ pc[p] = "ret" /\ cmd[p] \in Ioctls
  /\ Leave(p, "open")
  /\ UNCHANGED <<filemap, ctl, regs, poll_waiting, locks, slot, woken>>

ReadBegin(p) ==
  /\ "read" \in Calls
  /\ pc[p] = "open" /\ Looped(p) /\ pid # NoProc
  /\ pc' = [pc EXCEPT ![p] = "lockbuf"]
  /\ UNCHANGED <<filemap, ctl, regs, poll_waiting, locks, slot, cmd, res,
                 woken>>

ReadLockBuffer(p) ==
  /\ pc[p] = "lockbuf" /\ lock_buffer = NoProc
  /\ lock_buffer' = p
  /\ Enter(p, "read")
  /\ UNCHANGED <<filemap, ctl, regs, poll_waiting, lock_fake_ioctl, slot, woken>>

ReadInterrupted(p) ==
  /\ "signal" \in Faults /\ pc[p] = "lockbuf"
  /\ Leave(p, "open")
  /\ UNCHANGED <<filemap, ctl, regs, poll_waiting, locks, slot, woken>>

\* Mutant: an early return keeps lock_buffer.
ReadReturnLocked(p) ==
  /\ pc[p] = "ret" /\ cmd[p] = "read"
  /\ Leave(p, "open")
  /\ UNCHANGED <<filemap, ctl, regs, poll_waiting, locks, slot, woken>>

\* The data is copied out of the buffer before lock_buffer is given up.
ReadReturn(p) ==
  /\ pc[p] = "ret" /\ cmd[p] = "read"
  /\ lock_buffer' = NoProc
  /\ Leave(p, "open")
  /\ UNCHANGED <<filemap, ctl, regs, poll_waiting, lock_fake_ioctl, slot, woken>>

\* Also the repeated call when poll or select is woken up.
PollBegin(p) ==
  /\ "poll" \in Calls
  /\ pc[p] \in {"open", "sleep"} /\ Looped(p) /\ pid # NoProc
  /\ woken' = woken \ {p}
  /\ IF PollBits(slot[p]) \cap poll_waiting # {}
     THEN Leave(p, "sleep") /\ UNCHANGED poll_waiting
     ELSE /\ poll_waiting' = poll_waiting \cup PollBits(slot[p])
          /\ Enter(p, "poll")
  /\ UNCHANGED <<filemap, ctl, regs, locks, slot>>

\* Mutant: the bit stays set when the poll found data.
PollReturnKeepsBit(p) ==
  /\ pc[p] = "ret" /\ cmd[p] = "poll"
  /\ Leave(p, IF res[p] = "zero" THEN "sleep" ELSE "open")
  /\ UNCHANGED <<filemap, ctl, regs, poll_waiting, locks, slot, woken>>

\* Without data the process sleeps.  Otherwise its bit is cleared, or stays set
\* when a signal interrupts the second lock.
PollReturn(p) ==
  /\ pc[p] = "ret" /\ cmd[p] = "poll"
  /\ IF res[p] = "zero"
     THEN Leave(p, "sleep") /\ UNCHANGED poll_waiting
     ELSE /\ Leave(p, "open")
          /\ poll_waiting' \in {poll_waiting \ PollBits(slot[p])}
                               \cup {b \in {poll_waiting} : "signal" \in Faults}
  /\ UNCHANGED <<filemap, ctl, regs, locks, slot, woken>>

\* poll or select ends in the application: its timeout, or another file.
PollTimeout(p) ==
  /\ pc[p] = "sleep"
  /\ Leave(p, "open")
  /\ UNCHANGED <<filemap, ctl, regs, poll_waiting, locks, slot, woken>>

\* release runs once; without a device or a daemon it keeps the slot.
CloseBegin(p) ==
  /\ pc[p] = "open" /\ filemap[slot[p]] # "user"
  /\ IF Looped(p) /\ pid # NoProc
     THEN Enter(p, "close") /\ UNCHANGED slot
     ELSE Leave(p, "closed") /\ slot' = [slot EXCEPT ![p] = NoSlot]
  /\ UNCHANGED <<filemap, ctl, regs, poll_waiting, locks, woken>>

\* Mutant: the slot of a closed file is not freed.
CloseReturnKeepsSlot(p) ==
  /\ pc[p] = "ret" /\ cmd[p] = "close"
  /\ poll_waiting' = {}
  /\ slot' = [slot EXCEPT ![p] = NoSlot]
  /\ Leave(p, "closed")
  /\ UNCHANGED <<filemap, ctl, regs, locks, woken>>

CloseReturn(p) ==
  /\ pc[p] = "ret" /\ cmd[p] = "close"
  /\ poll_waiting' = {}
  /\ filemap' = [filemap EXCEPT ![slot[p]] = "null"]
  /\ slot' = [slot EXCEPT ![p] = NoSlot]
  /\ Leave(p, "closed")
  /\ UNCHANGED <<ctl, regs, locks, woken>>

\* The lock of release is interrupted: the file is gone, the slot is not.
CloseInterrupted(p) ==
  /\ "signal" \in Faults /\ pc[p] = "ret" /\ cmd[p] = "close"
  /\ slot' = [slot EXCEPT ![p] = NoSlot]
  /\ Leave(p, "closed")
  /\ UNCHANGED <<filemap, ctl, regs, poll_waiting, locks, woken>>

-----------------------------------------------------------------------------
(* The control device (dvbdev->id = 1) and the life of a daemon.  Each     *)
(* element of Daemons is one incarnation: it opens the device once.        *)

GoTo(d, place) == dpc' = [dpc EXCEPT ![d] = place]

\* dvb_generic_open admits one user; then the process registers itself.
DaemonOpen(d) ==
  /\ dpc[d] = "new" /\ users = 1
  /\ users' = 0 /\ pid' = d
  /\ GoTo(d, "wipe")
  /\ UNCHANGED <<filemap, regs, poll_waiting, buffer, locks, app, job, watch>>

\* The command register is cleared without lock_ioctl ...
DaemonWipe(d) ==
  /\ dpc[d] = "wipe"
  /\ ioctlcmd' = NoCmd
  /\ GoTo(d, "clear")
  /\ UNCHANGED <<filemap, pid, users, ioctlfd, ioctldata, ioctl_already_read,
                 ioctlretval, poll_waiting, buffer, locks, app, job, watch>>

\* ... and all slots under it; the daemon gets slot 0.
DaemonClear(d) ==
  /\ dpc[d] = "clear"
  /\ filemap' = [s \in Slots |-> IF s = 0 THEN "user" ELSE "null"]
  /\ poll_waiting' = {}
  /\ GoTo(d, "mmap")
  /\ UNCHANGED <<pid, users, regs, buffer, locks, app, job, watch>>

\* Mutant: mmap replaces the buffer without lock_buffer.
DaemonMmapUnlocked(d) ==
  /\ dpc[d] = "mmap"
  /\ buffer' = TRUE
  /\ GoTo(d, "run")
  /\ UNCHANGED <<filemap, pid, users, regs, poll_waiting, locks, app, job,
                 watch>>

DaemonMmap(d) ==
  /\ dpc[d] = "mmap" /\ lock_buffer = NoProc
  /\ buffer' = TRUE
  /\ GoTo(d, "run")
  /\ UNCHANGED <<filemap, pid, users, regs, poll_waiting, locks, app, job,
                 watch>>

\* The daemon's own calls find the control device behind slot 0.
Control == filemap[0] = "user"

DaemonPoll(d) ==
  /\ dpc[d] = "run" /\ Control
  /\ ioctlcmd # NoCmd /\ ~ioctl_already_read
  /\ GoTo(d, "readable")
  /\ UNCHANGED <<filemap, pid, users, regs, poll_waiting, buffer, locks, app,
                 job, watch>>

\* A process that ends: its threads are gone, its descriptors get closed.
Exit(d) ==
  /\ GoTo(d, "rel")
  /\ job' = [job EXCEPT ![d] = NoJob] /\ watch' = {}
  /\ UNCHANGED <<filemap, pid, users, regs, poll_waiting, buffer, locks, app>>

\* Mutant: a request that was read is not marked.
DaemonReadUnmarked(d) ==
  /\ dpc[d] = "readable" /\ Control
  /\ job' = [job EXCEPT ![d] = [cmd |-> ioctlcmd, fd |-> ioctlfd,
                                for |-> ioctldata, ret |-> "zero"]]
  /\ GoTo(d, "exec")
  /\ UNCHANGED <<filemap, pid, users, regs, poll_waiting, buffer, locks, app,
                 watch>>

\* The daemon reads the request that poll announced; it exits if there is
\* none (process_req.c: "Didn't read enough data").
DaemonRead(d) ==
  /\ dpc[d] = "readable"
  /\ \/ /\ Control /\ ioctlcmd # NoCmd /\ ~ioctl_already_read
        /\ job' = [job EXCEPT ![d] = [cmd |-> ioctlcmd, fd |-> ioctlfd,
                                      for |-> ioctldata, ret |-> "zero"]]
        /\ ioctl_already_read' = TRUE
        /\ GoTo(d, "exec")
        /\ UNCHANGED <<filemap, pid, users, ioctlcmd, ioctlfd, ioctldata,
                       ioctlretval, poll_waiting, buffer, locks, app, watch>>
     \/ /\ filemap[0] = "null" \/ ioctlcmd = NoCmd \/ ioctl_already_read
        /\ Exit(d)

\* The command is executed on the real adapter.  A POLL without data hands
\* the slot to the poll thread, a CLOSE takes it away.
DaemonExecute(d) ==
  /\ dpc[d] = "exec"
  /\ \E r \in Rets :
       /\ job' = [job EXCEPT ![d].ret = r]
       /\ watch' = CASE job[d].cmd = "poll" /\ r = "zero" ->
                          watch \cup {job[d].fd}
                     [] job[d].cmd = "close" -> watch \ {job[d].fd}
                     [] OTHER -> watch
  /\ GoTo(d, "answer")
  /\ UNCHANGED <<filemap, pid, users, regs, poll_waiting, buffer, locks, app>>

\* An answer counts if its command number is the one in the register.
DaemonAnswer(d) ==
  /\ dpc[d] = "answer" /\ filemap[0] # "lb"
  /\ IF Control /\ job[d].cmd = ioctlcmd
     THEN /\ ioctlretval' = [val |-> job[d].ret, for |-> job[d].for]
          /\ ioctlcmd' = NoCmd
     ELSE UNCHANGED <<ioctlretval, ioctlcmd>>
  /\ job' = [job EXCEPT ![d] = NoJob]
  /\ GoTo(d, "run")
  /\ UNCHANGED <<filemap, pid, users, ioctlfd, ioctldata, ioctl_already_read,
                 poll_waiting, buffer, locks, app, watch>>

\* Processes with an entry on wait_poll[s].
Pollers(s) == {p \in Procs : /\ slot[p] = s
                             /\ pc[p] = "sleep" \/ cmd[p] = "poll"}

\* The poll thread reports data on a slot it polls (DVBLB_CMD_ASYNC).
DaemonAsync(d) ==
  /\ dpc[d] \in Serving /\ Control
  /\ \E s \in watch :
       /\ watch' = watch \ {s}
       /\ poll_waiting' = poll_waiting \ PollBits(s)
       /\ woken' = woken \cup Pollers(s)
  /\ UNCHANGED <<filemap, pid, users, regs, buffer, locks, pc, slot, cmd, res,
                 dpc, job>>

DaemonKill(d) ==
  /\ "kill" \in Faults /\ dpc[d] \in {"mmap"} \cup Serving
  /\ Exit(d)

\* release of the control device, if its slot still leads to the device.
DaemonRelease(d) ==
  /\ dpc[d] = "rel" /\ filemap[0] # "lb"
  /\ IF Control
     THEN /\ filemap' = [filemap EXCEPT ![0] = "null"]
          /\ users' = 1
          /\ GoTo(d, "unreg")
     ELSE GoTo(d, "gone") /\ UNCHANGED <<filemap, users>>
  /\ UNCHANGED <<pid, regs, poll_waiting, buffer, locks, app, job, watch>>

DaemonUnregister(d) ==
  /\ dpc[d] = "unreg"
  /\ pid' = NoProc
  /\ GoTo(d, "free")
  /\ UNCHANGED <<filemap, users, regs, poll_waiting, buffer, locks, app, job,
                 watch>>

DaemonFree(d) ==
  /\ dpc[d] = "free" /\ lock_buffer = NoProc
  /\ buffer' = FALSE
  /\ GoTo(d, "gone")
  /\ UNCHANGED <<filemap, pid, users, regs, poll_waiting, locks, app, job,
                 watch>>

\* A killed process does not wait for lock_buffer: the buffer is left behind.
DaemonFreeInterrupted(d) ==
  /\ dpc[d] = "free" /\ "kill" \in Faults /\ lock_buffer # NoProc
  /\ GoTo(d, "gone")
  /\ UNCHANGED <<filemap, pid, users, regs, poll_waiting, buffer, locks, app,
                 job, watch>>

-----------------------------------------------------------------------------
\* Steps a process takes by itself once it is in a call.
InCallStep(p) ==
  \/ LockFake(p) \/ Post(p) \/ WaitAnswered(p) \/ WaitTimeout(p) \/ Linger(p)
  \/ Collect(p) \/ OpenCheckPid(p) \/ OpenReturn(p) \/ IoctlReturn(p)
  \/ ReadLockBuffer(p) \/ ReadReturn(p) \/ PollReturn(p) \/ CloseReturn(p)

\* Calls an application may or may not make.
BeginStep(p) ==
  \/ OpenSlot(p) \/ IoctlBegin(p) \/ ReadBegin(p) \/ PollBegin(p)
  \/ PollTimeout(p) \/ CloseBegin(p)

SignalStep(p) ==
  \/ LockInterrupted(p) \/ WaitInterrupted(p) \/ CollectInterrupted(p)
  \/ ReadInterrupted(p) \/ CloseInterrupted(p)

ServeStep(d) ==
  \/ DaemonPoll(d) \/ DaemonRead(d) \/ DaemonExecute(d) \/ DaemonAnswer(d)

LifeStep(d) ==
  \/ DaemonOpen(d) \/ DaemonWipe(d) \/ DaemonClear(d) \/ DaemonMmap(d)
  \/ DaemonRelease(d) \/ DaemonUnregister(d) \/ DaemonFree(d)

Next ==
  \/ \E p \in Procs : InCallStep(p) \/ BeginStep(p) \/ SignalStep(p)
  \/ \E d \in Daemons : \/ ServeStep(d) \/ LifeStep(d)
                        \/ DaemonAsync(d) \/ DaemonKill(d)
                        \/ DaemonFreeInterrupted(d)

\* The kernel schedules every process that can run; its mutexes are handed
\* over in order of arrival; a wait times out every second, again and again;
\* the daemon's loop never stops by itself.
Fairness ==
  /\ \A p \in Procs : /\ WF_vars(InCallStep(p))
                      /\ SF_vars(LockFake(p)) /\ SF_vars(ReadLockBuffer(p))
                      /\ SF_vars(WaitTimeout(p))
  /\ \A d \in Daemons : WF_vars(ServeStep(d)) /\ WF_vars(LifeStep(d))

Spec     == Init /\ [][Next]_vars
FairSpec == Spec /\ Fairness

-----------------------------------------------------------------------------
(* Properties.                                                             *)

Places == {"closed", "opening", "open", "sleep", "lockbuf", "lockfake", "ret"}
          \cup HoldsFake
DaemonPlaces == {"new", "unreg", "free", "gone"} \cup OpenedCtl

\* Every variable stays in the range of its C type and use.
TypeOK ==
  /\ filemap \in [Slots -> {"null", "lb", "user"}]
  /\ pid \in Daemons \cup {NoProc} /\ users \in {0, 1}
  /\ ioctlcmd \in Cmds \cup {NoCmd} /\ ioctlfd \in Slots \cup {NoSlot}
  /\ ioctldata \in Procs \cup {NoProc}
  /\ ioctl_already_read \in BOOLEAN
  /\ ioctlretval \in [val : Rets, for : Procs \cup {NoProc}]
  /\ poll_waiting \subseteq 0 .. 2 * IntWidth - 1 /\ buffer \in BOOLEAN
  /\ lock_fake_ioctl \in Procs \cup {NoProc}
  /\ lock_buffer \in Procs \cup {NoProc}
  /\ pc \in [Procs -> Places] /\ slot \in [Procs -> Slots \cup {NoSlot}]
  /\ cmd \in [Procs -> Cmds \cup {NoCmd}]
  /\ res \in [Procs -> Rets \cup {Error}]
  /\ woken \subseteq Procs
  /\ dpc \in [Daemons -> DaemonPlaces]
  /\ job \in [Daemons -> [cmd : Cmds \cup {NoCmd}, fd : Slots \cup {NoSlot},
                          for : Procs \cup {NoProc}, ret : Rets]]
  /\ watch \subseteq Slots \cup {NoSlot}

\* While a process waits for its answer in dvblb_fake_ioctl, the registers
\* hold its own request or none: no other caller, no signal, no timeout of
\* another call and no restart of the daemon overwrites them.
WaiterOwnsRegisters ==
  \A p \in Procs : pc[p] \in Posted =>
    /\ ioctldata = p /\ ioctlfd = slot[p]
    /\ ioctlcmd \in {cmd[p], NoCmd}

\* What the daemon executes for a process that still waits is that process's
\* request, taken from the registers once: it cannot be read a second time.
ExecutesForWaiter ==
  \A d \in Daemons, p \in Procs : job[d].for = p =>
    /\ pc[p] \in Posted /\ job[d].cmd = cmd[p] /\ job[d].fd = slot[p]
    /\ ioctlcmd = cmd[p] /\ ioctl_already_read

\* A read that follows POLLIN finds the request: the read in process_req.c
\* treats anything else as fatal and ends the daemon.
PollinMeansRequest ==
  \A d \in Daemons : dpc[d] = "readable" =>
    ioctlcmd # NoCmd /\ ~ioctl_already_read

\* dvb_device.users admits one daemon at a time, through exits and restarts.
OneDaemon ==
  \A d, e \in Daemons :
    dpc[d] \in OpenedCtl /\ dpc[e] \in OpenedCtl => d = e

\* The mmap buffer a READ was asked to fill is the one its data is copied
\* from: a daemon that exits or starts meanwhile does not free or replace it.
BufferKept ==
  [][\A p \in Procs : cmd[p] = "read" /\ cmd'[p] = "read" =>
       buffer' = buffer]_vars

\* The answer a call collects is the result of executing this very call.
AnswerIsOwn ==
  \A p \in Procs : pc[p] = "collect" /\ ioctlcmd = NoCmd =>
    ioctlretval.for = p

\* The address of a slot is a unique tag: no two open files share one.
TagUnique ==
  \A p, q \in Procs : slot[p] = slot[q] /\ slot[p] # NoSlot => p = q

\* inuse_filemap, which blocks the forwarding switch in procfs, counts the
\* open files and the daemon, and no file that is gone.
NoSlotLeak ==
  InuseFilemap = Cardinality({p \in Procs : slot[p] # NoSlot})
                 + (IF Control THEN 1 ELSE 0)

\* A process that sleeps in poll is on the list of the daemon's poll thread,
\* unless it was woken: no poll is skipped that nobody else asked for.
NoLostPoll ==
  \A p \in Procs : pc[p] = "sleep" /\ p \notin woken => slot[p] \in watch

InCall(p) == pc[p] \notin {"closed", "open", "sleep"}

\* Every call on the looped device returns.
CallsReturn == \A p \in Procs : InCall(p) ~> ~InCall(p)

\* A daemon that ends gets its control device closed: it cannot hang on
\* lock_buffer, which a reader holds while it waits for the daemon.
DaemonCloses == \A d \in Daemons : dpc[d] = "rel" ~> dpc[d] = "gone"

\* Which process is where, and what it then owns.
CallsOwnLocks ==
  \A p \in Procs :
    /\ pc[p] # "closed" => slot[p] \in Slots
    /\ cmd[p] # NoCmd <=> pc[p] \in {"lockfake", "ret"} \cup HoldsFake
    /\ lock_fake_ioctl = p <=> pc[p] \in HoldsFake
    /\ lock_buffer = p <=> cmd[p] = "read"

\* A request in the registers, or in work, has a requester that waits; only
\* a daemon that serves has work, and only one has the device open.
RequestsAreOwned ==
  /\ \A p \in Procs : ioctldata = p => pc[p] \in Posted
  /\ \A d \in Daemons : job[d].for # NoProc => dpc[d] \in {"exec", "answer"}
  /\ \A d \in Daemons : dpc[d] \in OpenedCtl => users = 0

\* The inductive invariant behind the safety properties above.
IInv == /\ TypeOK /\ CallsOwnLocks /\ RequestsAreOwned
        /\ WaiterOwnsRegisters /\ ExecutesForWaiter
        /\ PollinMeansRequest /\ OneDaemon

\* Without faults the one daemon never leaves; before it serves, no file is open.
DaemonStays ==
  /\ \A d \in Daemons : dpc[d] \in {"new", "wipe", "clear", "mmap"} \cup Serving
  /\ \A d \in Daemons : dpc[d] # "new" => pid \in Daemons
  /\ \A d \in Daemons : dpc[d] \in {"mmap"} \cup Serving => Control
  /\ (\E d \in Daemons : dpc[d] \in Serving)
     \/ \A p \in Procs : pc[p] = "closed"

\* Without faults every slot is that of one open file, or the daemon's.
SlotsAreOwned ==
  /\ \A s \in Slots : /\ filemap[s] = "user" => s = 0
                      /\ filemap[s] = "lb" <=> (\E p \in Procs : slot[p] = s)
  /\ \A p \in Procs : pc[p] = "closed" => slot[p] = NoSlot
  /\ TagUnique

\* Without faults nobody leaves his request, so an answer is for who waits.
NobodyLeaves ==
  /\ \A p \in Procs : /\ pc[p] # "linger"
                      /\ pc[p] = "collect" => ioctlcmd = NoCmd
                      /\ pc[p] \in Posted /\ ioctlcmd = NoCmd => ioctlretval.for = p
                      /\ pc[p] = "ret" => res[p] # Error
  /\ ioctlcmd # NoCmd => ioctldata # NoProc
  /\ \A d \in Daemons : dpc[d] \in {"exec", "answer"} => job[d].for # NoProc

\* The inductive invariant of the device without faults.
QuietInv == IInv /\ DaemonStays /\ SlotsAreOwned /\ NobodyLeaves

\* No slot in use is beyond the bits of an int.
Narrow == \A p \in Procs : slot[p] < IntWidth

\* p's poll was executed, and there was no data.
PolledEmpty(p) ==
  /\ cmd[p] = "poll"
  /\ \/ \E d \in Daemons : /\ dpc[d] = "answer" /\ job[d].for = p
                           /\ job[d].ret = "zero"
     \/ pc[p] \in Posted /\ ioctlcmd = NoCmd /\ ioctlretval.val = "zero"
     \/ pc[p] = "ret" /\ res[p] = "zero"

IsWaiting(p) == PollBits(slot[p]) \cap poll_waiting # {}

\* Whose bit is set is polled for, or about to be; whoever was told that there
\* is no data is polled for, or was woken meanwhile.
PollIsWatched(p) ==
  /\ slot[p] # NoSlot /\ IsWaiting(p) /\ cmd[p] \notin {"poll", "close"} =>
       slot[p] \in watch
  /\ pc[p] = "sleep" \/ PolledEmpty(p) => slot[p] \in watch \/ p \in woken
  /\ PolledEmpty(p) => slot[p] \in watch \/ ~IsWaiting(p)

PollsAreWatched == \A p \in Procs : PollIsWatched(p)

\* The phase of a call: it is served once the answer to it is in the register.
PhaseOf(p) ==
  CASE pc[p] \in Posted ->
         IF ioctlcmd = NoCmd /\ ioctlretval.for = p THEN "served" ELSE "asked"
    [] pc[p] \in {"lockbuf", "lockfake", "post"} -> "asked"
    [] pc[p] = "ret" -> IF res[p] = Error THEN "refused" ELSE "answered"
    [] OTHER -> "idle"

Abstract == INSTANCE RequestReply
              WITH Clients <- Procs, phase <- [p \in Procs |-> PhaseOf(p)]

\* Each call is executed at most once and returns its own answer or an error.
ImplementsRequestReply == Abstract!Spec

=============================================================================
