------------------------- MODULE DvbLoopbackProofs -------------------------
(***************************************************************************)
(* Proofs about one loopback device, for every number of processes, of     *)
(* daemon incarnations, of slots and for every choice of the faults.       *)
(*                                                                         *)
(* The argument is one inductive invariant, IInv.  The heart of it is that *)
(* a process between posting and collecting owns lock_fake_ioctl, so the   *)
(* registers and the daemon's job are tied to at most one process, and     *)
(* that dvb_device.users ties them to at most one daemon.                  *)
(*                                                                         *)
(* The second part is about the threads of the daemon that serve a device. *)
(***************************************************************************)
EXTENDS DvbLoopback, RequestLoop, SequenceLemmas, FunctionTheorems

JobType == [cmd : Cmds \cup {NoCmd}, fd : Slots \cup {NoSlot},
            for : Procs \cup {NoProc}, ret : Rets]

\* Whatever the slot, 1 << pos sets bits of the word only.
LEMMA PollBitsType ==
  ASSUME NEW pos \in Slots \cup {NoSlot}
  PROVE  PollBits(pos) \subseteq 0 .. 2 * IntWidth - 1
<1>1. pos \in Int /\ IntWidth \in Nat \ {0}
  BY ConstantsAssumption DEF Slots, NoSlot
<1>2. pos % IntWidth \in 0 .. IntWidth - 1
  BY <1>1
<1> QED BY <1>1, <1>2 DEF PollBits

\* A call that disowns its request leaves requests and answers well formed.
LEMMA DisownType ==
  ASSUME TypeOK, NEW p \in Procs, Disown(p)
  PROVE  /\ ioctldata' \in Procs \cup {NoProc}
         /\ job' \in [Daemons -> JobType]
         /\ ioctlretval' \in [val : Rets, for : Procs \cup {NoProc}]
         /\ \A d \in Daemons : /\ job'[d].cmd = job[d].cmd
                               /\ job'[d].fd = job[d].fd
                               /\ job'[d].for # p
                               /\ \/ job'[d].for = job[d].for
                                  \/ job'[d].for = NoProc
<1> USE ConstantsAssumption DEF TypeOK, Disown, JobType
<1>1. ioctldata' \in Procs \cup {NoProc}
  OBVIOUS
<1>2. job' \in [Daemons -> JobType]
  OBVIOUS
<1>3. ioctlretval' \in [val : Rets, for : Procs \cup {NoProc}]
  OBVIOUS
<1>4. ASSUME NEW d \in Daemons
      PROVE  /\ job'[d].cmd = job[d].cmd /\ job'[d].fd = job[d].fd
             /\ job'[d].for # p
             /\ job'[d].for = job[d].for \/ job'[d].for = NoProc
  OBVIOUS
<1> QED BY <1>1, <1>2, <1>3, <1>4

\* A step of a process outside the wait of dvblb_fake_ioctl that touches no
\* register and no daemon disturbs nobody's request.
LEMMA QuietStep ==
  ASSUME IInv, NEW p \in Procs, pc[p] \notin Posted, pc'[p] \notin Posted,
         UNCHANGED <<regs, users, dpc, job>>,
         \A q \in Procs \ {p} : /\ pc'[q] = pc[q] /\ slot'[q] = slot[q]
                                /\ cmd'[q] = cmd[q]
  PROVE  /\ RequestsAreOwned' /\ WaiterOwnsRegisters' /\ ExecutesForWaiter'
         /\ PollinMeansRequest' /\ OneDaemon'
<1> USE DEF IInv, regs
<1>1. RequestsAreOwned'
  BY DEF RequestsAreOwned
<1>2. WaiterOwnsRegisters'
  BY DEF WaiterOwnsRegisters
<1>3. ExecutesForWaiter'
  BY DEF ExecutesForWaiter
<1>4. PollinMeansRequest' /\ OneDaemon'
  BY DEF PollinMeansRequest, OneDaemon
<1> QED BY <1>1, <1>2, <1>3, <1>4

\* A process in the middle of its request may give it up.
LEMMA AbandonInv ==
  ASSUME IInv, NEW p \in Procs, pc[p] \in Posted,
         Disown(p), lock_fake_ioctl' = NoProc,
         pc' = [pc EXCEPT ![p] = "ret"],
         \E r \in Rets \cup {Error} : res' = [res EXCEPT ![p] = r],
         UNCHANGED <<filemap, pid, users, dpc, watch, buffer, ioctlcmd,
                     ioctlfd, ioctl_already_read, poll_waiting, lock_buffer,
                     slot, cmd, woken>>
  PROVE  IInv'
<1> USE ConstantsAssumption DEF IInv, Posted, HoldsFake
<1>0. /\ ioctldata' = IF ioctldata = p THEN NoProc ELSE ioctldata
      /\ \A d \in Daemons : /\ job'[d].cmd = job[d].cmd
                            /\ job'[d].fd = job[d].fd
                            /\ job'[d].for # p
                            /\ \/ job'[d].for = job[d].for
                               \/ job'[d].for = NoProc
  BY DisownType DEF Disown
<1>1. TypeOK'
  BY DisownType DEF TypeOK, Places, JobType
<1>2. CallsOwnLocks'
  BY DEF CallsOwnLocks, TypeOK
<1>3. RequestsAreOwned'
  BY <1>0 DEF RequestsAreOwned, TypeOK
<1>4. WaiterOwnsRegisters'
  BY DEF WaiterOwnsRegisters, CallsOwnLocks, TypeOK
<1>5. ExecutesForWaiter'
  BY <1>0 DEF ExecutesForWaiter, TypeOK
<1>6. PollinMeansRequest' /\ OneDaemon'
  BY DEF PollinMeansRequest, OneDaemon
<1> QED BY <1>1, <1>2, <1>3, <1>4, <1>5, <1>6

\* A CLOSE that waits once more keeps its request.
LEMMA ResendInv ==
  ASSUME IInv, NEW p \in Procs, pc[p] = "wait", ResendClose(p)
  PROVE  IInv'
<1> USE ConstantsAssumption
    DEF IInv, Posted, HoldsFake, ResendClose, ctl, regs, locks
<1>1. TypeOK'
  BY DEF TypeOK, Places
<1>2. CallsOwnLocks'
  BY DEF CallsOwnLocks, TypeOK
<1>3. RequestsAreOwned'
  BY DEF RequestsAreOwned, TypeOK
<1>4. WaiterOwnsRegisters'
  BY DEF WaiterOwnsRegisters, TypeOK
<1>5. ExecutesForWaiter'
  BY DEF ExecutesForWaiter, TypeOK
<1>6. PollinMeansRequest' /\ OneDaemon'
  BY DEF PollinMeansRequest, OneDaemon
<1> QED BY <1>1, <1>2, <1>3, <1>4, <1>5, <1>6

\* The invariant holds when the module is loaded.
LEMMA InitInv == Init => IInv
<1> SUFFICES ASSUME Init PROVE IInv
  OBVIOUS
<1> USE ConstantsAssumption DEF Init, Posted, HoldsFake, OpenedCtl, Serving
<1>1. TypeOK
  BY DEF TypeOK, NoJob, Rets, Places, DaemonPlaces
<1>2. CallsOwnLocks
  BY DEF CallsOwnLocks, NoCmd
<1>3. RequestsAreOwned
  BY DEF RequestsAreOwned, NoJob
<1>4. WaiterOwnsRegisters
  BY DEF WaiterOwnsRegisters
<1>5. ExecutesForWaiter
  BY DEF ExecutesForWaiter, NoJob
<1>6. PollinMeansRequest /\ OneDaemon
  BY DEF PollinMeansRequest, OneDaemon
<1> QED BY <1>1, <1>2, <1>3, <1>4, <1>5, <1>6 DEF IInv

\* The steps of Next, sorted for the proof.
FakeIoctl(p) ==
  \/ LockFake(p) \/ LockInterrupted(p) \/ Post(p) \/ WaitAnswered(p)
  \/ WaitInterrupted(p) \/ WaitTimeout(p) \/ Linger(p) \/ Collect(p)
  \/ CollectInterrupted(p)

AroundFakeIoctl(p) ==
  \/ OpenSlot(p) \/ OpenCheckPid(p) \/ OpenReturn(p)
  \/ IoctlBegin(p) \/ IoctlReturn(p)
  \/ ReadBegin(p) \/ ReadLockBuffer(p) \/ ReadInterrupted(p) \/ ReadReturn(p)
  \/ PollBegin(p) \/ PollReturn(p) \/ PollTimeout(p)
  \/ CloseBegin(p) \/ CloseReturn(p) \/ CloseInterrupted(p)

DaemonStep(d) ==
  \/ ServeStep(d) \/ LifeStep(d) \/ DaemonAsync(d) \/ DaemonKill(d)
  \/ DaemonFreeInterrupted(d)

\* The steps of dvblb_fake_ioctl.
LEMMA FakeIoctlInv ==
  ASSUME IInv, NEW p \in Procs, FakeIoctl(p)
  PROVE  IInv'
<1> USE ConstantsAssumption
    DEF IInv, Posted, HoldsFake, ctl, regs, locks
<1>1. CASE LockFake(p)
  <2> USE <1>1 DEF LockFake
  <2>1. TypeOK'
    BY DEF TypeOK, Places
  <2>2. CallsOwnLocks'
    BY DEF CallsOwnLocks, TypeOK
  <2>3. /\ pc[p] \notin Posted /\ pc'[p] \notin Posted
        /\ \A q \in Procs \ {p} : /\ pc'[q] = pc[q] /\ slot'[q] = slot[q]
                               /\ cmd'[q] = cmd[q]
    BY DEF TypeOK
  <2> QED BY <2>1, <2>2, <2>3, QuietStep
<1>2. CASE LockInterrupted(p)
  <2> USE <1>2 DEF LockInterrupted
  <2>1. TypeOK'
    BY DEF TypeOK, Places
  <2>2. CallsOwnLocks'
    BY DEF CallsOwnLocks, TypeOK
  <2>3. /\ pc[p] \notin Posted /\ pc'[p] \notin Posted
        /\ \A q \in Procs \ {p} : /\ pc'[q] = pc[q] /\ slot'[q] = slot[q]
                               /\ cmd'[q] = cmd[q]
    BY DEF TypeOK
  <2> QED BY <2>1, <2>2, <2>3, QuietStep
<1>3. CASE Post(p)
  <2> USE <1>3 DEF Post
  <2>1. TypeOK'
    BY DEF TypeOK, Places
  <2>2. CallsOwnLocks'
    BY DEF CallsOwnLocks, TypeOK
  <2>3. RequestsAreOwned'
    BY DEF RequestsAreOwned, CallsOwnLocks, TypeOK
  <2>4. WaiterOwnsRegisters'
    BY DEF WaiterOwnsRegisters, CallsOwnLocks, TypeOK
  <2>5. ExecutesForWaiter'
    BY DEF ExecutesForWaiter, CallsOwnLocks, TypeOK
  <2>6. PollinMeansRequest' /\ OneDaemon'
    BY DEF PollinMeansRequest, OneDaemon, CallsOwnLocks, TypeOK
  <2> QED BY <2>1, <2>2, <2>3, <2>4, <2>5, <2>6
<1>4. CASE WaitAnswered(p)
  <2> USE <1>4 DEF WaitAnswered
  <2>1. TypeOK'
    BY DEF TypeOK, Places
  <2>2. CallsOwnLocks'
    BY DEF CallsOwnLocks, TypeOK
  <2>3. RequestsAreOwned'
    BY DEF RequestsAreOwned, CallsOwnLocks, TypeOK
  <2>4. WaiterOwnsRegisters'
    BY DEF WaiterOwnsRegisters, CallsOwnLocks, TypeOK
  <2>5. ExecutesForWaiter'
    BY DEF ExecutesForWaiter, TypeOK
  <2>6. PollinMeansRequest' /\ OneDaemon'
    BY DEF PollinMeansRequest, OneDaemon, TypeOK
  <2> QED BY <2>1, <2>2, <2>3, <2>4, <2>5, <2>6
<1>5. CASE WaitInterrupted(p)
  BY <1>5, AbandonInv, ResendInv DEF WaitInterrupted, Abandon
<1>6. CASE WaitTimeout(p)
  BY <1>6, AbandonInv, ResendInv DEF WaitTimeout, Abandon
<1>7. CASE Linger(p)
  <2> USE <1>7 DEF Linger
  <2>1. TypeOK'
    BY DEF TypeOK, Places
  <2>2. CallsOwnLocks'
    BY DEF CallsOwnLocks, TypeOK
  <2>3. RequestsAreOwned'
    BY DEF RequestsAreOwned, CallsOwnLocks, TypeOK
  <2>4. WaiterOwnsRegisters'
    BY DEF WaiterOwnsRegisters, CallsOwnLocks, TypeOK
  <2>5. ExecutesForWaiter'
    BY DEF ExecutesForWaiter, TypeOK
  <2>6. PollinMeansRequest' /\ OneDaemon'
    BY DEF PollinMeansRequest, OneDaemon, TypeOK
  <2> QED BY <2>1, <2>2, <2>3, <2>4, <2>5, <2>6
<1>8. CASE Collect(p)
  <2>1. ioctlretval.val \in Rets
    BY DEF TypeOK
  <2> QED BY <1>8, <2>1, AbandonInv DEF Collect, Abandon
<1>9. CASE CollectInterrupted(p)
  BY <1>9, AbandonInv DEF CollectInterrupted, Abandon
<1> QED
  BY <1>1, <1>2, <1>3, <1>4, <1>5, <1>6, <1>7, <1>8, <1>9
  DEF FakeIoctl

\* The steps of the calls around it.
LEMMA CallInv ==
  ASSUME IInv, NEW p \in Procs, AroundFakeIoctl(p)
  PROVE  IInv'
<1> USE ConstantsAssumption
    DEF IInv, Posted, HoldsFake, ctl, regs, locks
<1>1. CASE OpenSlot(p)
  <2> USE <1>1 DEF OpenSlot, NewFilemap, Leave
  <2>1. TypeOK'
    BY DEF TypeOK, Places, CallsOwnLocks, Cmds, Rets
  <2>2. CallsOwnLocks'
    BY DEF CallsOwnLocks, TypeOK, Cmds, NoCmd
  <2>3. /\ pc[p] \notin Posted /\ pc'[p] \notin Posted
        /\ \A q \in Procs \ {p} : /\ pc'[q] = pc[q] /\ slot'[q] = slot[q]
                               /\ cmd'[q] = cmd[q]
    BY DEF TypeOK
  <2> QED BY <2>1, <2>2, <2>3, QuietStep
<1>2. CASE OpenCheckPid(p)
  <2> USE <1>2 DEF OpenCheckPid, Enter, Leave
  <2>1. TypeOK'
    BY DEF TypeOK, Places, CallsOwnLocks, Cmds, Rets
  <2>2. CallsOwnLocks'
    BY DEF CallsOwnLocks, TypeOK, Cmds, NoCmd
  <2>3. /\ pc[p] \notin Posted /\ pc'[p] \notin Posted
        /\ \A q \in Procs \ {p} : /\ pc'[q] = pc[q] /\ slot'[q] = slot[q]
                               /\ cmd'[q] = cmd[q]
    BY DEF TypeOK
  <2> QED BY <2>1, <2>2, <2>3, QuietStep
<1>3. CASE OpenReturn(p)
  <2> USE <1>3 DEF OpenReturn, Leave
  <2>1. TypeOK'
    <3>1. filemap' \in [Slots -> {"null", "lb", "user"}] /\ slot' \in [Procs -> Slots \cup {NoSlot}]
      BY DEF TypeOK
    <3>2. /\ pc' \in [Procs -> Places] /\ cmd' \in [Procs -> Cmds \cup {NoCmd}]
          /\ res' \in [Procs -> Rets \cup {Error}]
      BY DEF TypeOK, Places, Cmds, Rets
    <3> QED BY <3>1, <3>2 DEF TypeOK
  <2>2. CallsOwnLocks'
    BY DEF CallsOwnLocks, TypeOK, Cmds, NoCmd
  <2>3. /\ pc[p] \notin Posted /\ pc'[p] \notin Posted
        /\ \A q \in Procs \ {p} : /\ pc'[q] = pc[q] /\ slot'[q] = slot[q]
                               /\ cmd'[q] = cmd[q]
    BY DEF TypeOK
  <2> QED BY <2>1, <2>2, <2>3, QuietStep
<1>4. CASE IoctlBegin(p)
  <2> USE <1>4 DEF IoctlBegin, Enter
  <2>1. TypeOK'
    BY DEF TypeOK, Places, CallsOwnLocks, Cmds, Rets
  <2>2. CallsOwnLocks'
    BY DEF CallsOwnLocks, TypeOK, Cmds, NoCmd
  <2>3. /\ pc[p] \notin Posted /\ pc'[p] \notin Posted
        /\ \A q \in Procs \ {p} : /\ pc'[q] = pc[q] /\ slot'[q] = slot[q]
                               /\ cmd'[q] = cmd[q]
    BY DEF TypeOK
  <2> QED BY <2>1, <2>2, <2>3, QuietStep
<1>5. CASE IoctlReturn(p)
  <2> USE <1>5 DEF IoctlReturn, Leave
  <2>1. TypeOK'
    BY DEF TypeOK, Places, CallsOwnLocks, Cmds, Rets
  <2>2. CallsOwnLocks'
    BY DEF CallsOwnLocks, TypeOK, Cmds, NoCmd
  <2>3. /\ pc[p] \notin Posted /\ pc'[p] \notin Posted
        /\ \A q \in Procs \ {p} : /\ pc'[q] = pc[q] /\ slot'[q] = slot[q]
                               /\ cmd'[q] = cmd[q]
    BY DEF TypeOK
  <2> QED BY <2>1, <2>2, <2>3, QuietStep
<1>6. CASE ReadBegin(p)
  <2> USE <1>6 DEF ReadBegin
  <2>1. TypeOK'
    BY DEF TypeOK, Places, CallsOwnLocks, Cmds, Rets
  <2>2. CallsOwnLocks'
    BY DEF CallsOwnLocks, TypeOK, Cmds, NoCmd
  <2>3. /\ pc[p] \notin Posted /\ pc'[p] \notin Posted
        /\ \A q \in Procs \ {p} : /\ pc'[q] = pc[q] /\ slot'[q] = slot[q]
                               /\ cmd'[q] = cmd[q]
    BY DEF TypeOK
  <2> QED BY <2>1, <2>2, <2>3, QuietStep
<1>7. CASE ReadLockBuffer(p)
  <2> USE <1>7 DEF ReadLockBuffer, Enter
  <2>1. TypeOK'
    BY DEF TypeOK, Places, CallsOwnLocks, Cmds, Rets
  <2>2. CallsOwnLocks'
    BY DEF CallsOwnLocks, TypeOK, Cmds, NoCmd
  <2>3. /\ pc[p] \notin Posted /\ pc'[p] \notin Posted
        /\ \A q \in Procs \ {p} : /\ pc'[q] = pc[q] /\ slot'[q] = slot[q]
                               /\ cmd'[q] = cmd[q]
    BY DEF TypeOK
  <2> QED BY <2>1, <2>2, <2>3, QuietStep
<1>8. CASE ReadInterrupted(p)
  <2> USE <1>8 DEF ReadInterrupted, Leave
  <2>1. TypeOK'
    BY DEF TypeOK, Places, CallsOwnLocks, Cmds, Rets
  <2>2. CallsOwnLocks'
    BY DEF CallsOwnLocks, TypeOK, Cmds, NoCmd
  <2>3. /\ pc[p] \notin Posted /\ pc'[p] \notin Posted
        /\ \A q \in Procs \ {p} : /\ pc'[q] = pc[q] /\ slot'[q] = slot[q]
                               /\ cmd'[q] = cmd[q]
    BY DEF TypeOK
  <2> QED BY <2>1, <2>2, <2>3, QuietStep
<1>9. CASE ReadReturn(p)
  <2> USE <1>9 DEF ReadReturn, Leave
  <2>1. TypeOK'
    BY DEF TypeOK, Places, CallsOwnLocks, Cmds, Rets
  <2>2. CallsOwnLocks'
    BY DEF CallsOwnLocks, TypeOK, Cmds, NoCmd
  <2>3. /\ pc[p] \notin Posted /\ pc'[p] \notin Posted
        /\ \A q \in Procs \ {p} : /\ pc'[q] = pc[q] /\ slot'[q] = slot[q]
                               /\ cmd'[q] = cmd[q]
    BY DEF TypeOK
  <2> QED BY <2>1, <2>2, <2>3, QuietStep
<1>10. CASE PollBegin(p)
  <2> USE <1>10 DEF PollBegin, Enter, Leave
  <2>0. PollBits(slot[p]) \subseteq 0 .. 2 * IntWidth - 1
    BY PollBitsType DEF TypeOK
  <2>a. poll_waiting' \subseteq 0 .. 2 * IntWidth - 1
    <3> DEFINE Word == 0 .. 2 * IntWidth - 1
    <3>1. poll_waiting \subseteq Word /\ PollBits(slot[p]) \subseteq Word
      BY <2>0 DEF TypeOK
    <3>2. poll_waiting' \in {poll_waiting, poll_waiting \cup PollBits(slot[p])}
      OBVIOUS
    <3> HIDE DEF Word
    <3>3. poll_waiting' \subseteq Word
      BY <3>1, <3>2
    <3> QED BY <3>3 DEF Word
  <2>1. TypeOK'
    BY <2>0, <2>a DEF TypeOK, Places, CallsOwnLocks, Cmds, Rets
  <2>2. CallsOwnLocks'
    BY DEF CallsOwnLocks, TypeOK, Cmds, NoCmd
  <2>3. /\ pc[p] \notin Posted /\ pc'[p] \notin Posted
        /\ \A q \in Procs \ {p} : /\ pc'[q] = pc[q] /\ slot'[q] = slot[q]
                               /\ cmd'[q] = cmd[q]
    BY DEF TypeOK
  <2> QED BY <2>1, <2>2, <2>3, QuietStep
<1>11. CASE PollReturn(p)
  <2> USE <1>11 DEF PollReturn, Leave
  <2>0. poll_waiting' \subseteq 0 .. 2 * IntWidth - 1
    <3>1. poll_waiting' \subseteq poll_waiting
      OBVIOUS
    <3> QED BY <3>1 DEF TypeOK
  <2>1. TypeOK'
    BY <2>0 DEF TypeOK, Places, CallsOwnLocks, Cmds, Rets
  <2>2. CallsOwnLocks'
    BY DEF CallsOwnLocks, TypeOK, Cmds, NoCmd
  <2>3. /\ pc[p] \notin Posted /\ pc'[p] \notin Posted
        /\ \A q \in Procs \ {p} : /\ pc'[q] = pc[q] /\ slot'[q] = slot[q]
                               /\ cmd'[q] = cmd[q]
    BY DEF TypeOK
  <2> QED BY <2>1, <2>2, <2>3, QuietStep
<1>12. CASE PollTimeout(p)
  <2> USE <1>12 DEF PollTimeout, Leave
  <2>1. TypeOK'
    BY DEF TypeOK, Places, CallsOwnLocks, Cmds, Rets
  <2>2. CallsOwnLocks'
    BY DEF CallsOwnLocks, TypeOK, Cmds, NoCmd
  <2>3. /\ pc[p] \notin Posted /\ pc'[p] \notin Posted
        /\ \A q \in Procs \ {p} : /\ pc'[q] = pc[q] /\ slot'[q] = slot[q]
                               /\ cmd'[q] = cmd[q]
    BY DEF TypeOK
  <2> QED BY <2>1, <2>2, <2>3, QuietStep
<1>13. CASE CloseBegin(p)
  <2> USE <1>13 DEF CloseBegin, Enter, Leave
  <2>1. TypeOK'
    BY DEF TypeOK, Places, CallsOwnLocks, Cmds, Rets
  <2>2. CallsOwnLocks'
    BY DEF CallsOwnLocks, TypeOK, Cmds, NoCmd
  <2>3. /\ pc[p] \notin Posted /\ pc'[p] \notin Posted
        /\ \A q \in Procs \ {p} : /\ pc'[q] = pc[q] /\ slot'[q] = slot[q]
                               /\ cmd'[q] = cmd[q]
    BY DEF TypeOK
  <2> QED BY <2>1, <2>2, <2>3, QuietStep
<1>14. CASE CloseReturn(p)
  <2> USE <1>14 DEF CloseReturn, Leave
  <2>1. TypeOK'
    BY DEF TypeOK, Places, CallsOwnLocks, Cmds, Rets
  <2>2. CallsOwnLocks'
    BY DEF CallsOwnLocks, TypeOK, Cmds, NoCmd
  <2>3. /\ pc[p] \notin Posted /\ pc'[p] \notin Posted
        /\ \A q \in Procs \ {p} : /\ pc'[q] = pc[q] /\ slot'[q] = slot[q]
                               /\ cmd'[q] = cmd[q]
    BY DEF TypeOK
  <2> QED BY <2>1, <2>2, <2>3, QuietStep
<1>15. CASE CloseInterrupted(p)
  <2> USE <1>15 DEF CloseInterrupted, Leave
  <2>1. TypeOK'
    BY DEF TypeOK, Places, CallsOwnLocks, Cmds, Rets
  <2>2. CallsOwnLocks'
    BY DEF CallsOwnLocks, TypeOK, Cmds, NoCmd
  <2>3. /\ pc[p] \notin Posted /\ pc'[p] \notin Posted
        /\ \A q \in Procs \ {p} : /\ pc'[q] = pc[q] /\ slot'[q] = slot[q]
                               /\ cmd'[q] = cmd[q]
    BY DEF TypeOK
  <2> QED BY <2>1, <2>2, <2>3, QuietStep
<1> QED
  BY <1>1, <1>2, <1>3, <1>4, <1>5, <1>6, <1>7, <1>8, <1>9, <1>10, <1>11,
     <1>12, <1>13, <1>14, <1>15
  DEF AroundFakeIoctl

\* A daemon that ends takes its work with it, whatever the work was.
LEMMA ExitInv ==
  ASSUME IInv, NEW d \in Daemons, Exit(d), dpc[d] \in {"mmap"} \cup Serving
  PROVE  IInv'
<1> USE ConstantsAssumption
    DEF IInv, Posted, HoldsFake, OpenedCtl, Serving, Exit, GoTo, regs, locks,
       app
<1>1. TypeOK'
  BY DEF TypeOK, DaemonPlaces, NoJob, Rets
<1>2. CallsOwnLocks'
  BY DEF CallsOwnLocks
<1>3. RequestsAreOwned'
  BY DEF RequestsAreOwned, NoJob, TypeOK
<1>4. WaiterOwnsRegisters'
  BY DEF WaiterOwnsRegisters
<1>5. ExecutesForWaiter'
  BY DEF ExecutesForWaiter, NoJob, TypeOK
<1>6. PollinMeansRequest' /\ OneDaemon'
  BY DEF PollinMeansRequest, OneDaemon, TypeOK
<1> QED BY <1>1, <1>2, <1>3, <1>4, <1>5, <1>6

\* The steps of a daemon.
LEMMA DaemonInv ==
  ASSUME IInv, NEW d \in Daemons, DaemonStep(d)
  PROVE  IInv'
<1> USE ConstantsAssumption
    DEF IInv, Posted, HoldsFake, OpenedCtl, Serving, regs, locks, app
<1>1. CASE DaemonOpen(d)
  <2> USE <1>1 DEF DaemonOpen, GoTo
  <2>1. TypeOK'
    BY DEF TypeOK, DaemonPlaces
  <2>2. CallsOwnLocks'
    BY DEF CallsOwnLocks
  <2>3. RequestsAreOwned'
    BY DEF RequestsAreOwned, OneDaemon, TypeOK
  <2>4. WaiterOwnsRegisters'
    BY DEF WaiterOwnsRegisters, TypeOK
  <2>5. ExecutesForWaiter'
    BY DEF ExecutesForWaiter, RequestsAreOwned, OneDaemon, TypeOK
  <2>6. PollinMeansRequest' /\ OneDaemon'
    BY DEF PollinMeansRequest, OneDaemon, RequestsAreOwned, TypeOK
  <2> QED BY <2>1, <2>2, <2>3, <2>4, <2>5, <2>6
<1>2. CASE DaemonWipe(d)
  <2> USE <1>2 DEF DaemonWipe, GoTo
  <2>1. TypeOK'
    BY DEF TypeOK, DaemonPlaces
  <2>2. CallsOwnLocks'
    BY DEF CallsOwnLocks
  <2>3. RequestsAreOwned'
    BY DEF RequestsAreOwned, OneDaemon, TypeOK
  <2>4. WaiterOwnsRegisters'
    BY DEF WaiterOwnsRegisters, TypeOK
  <2>5. ExecutesForWaiter'
    BY DEF ExecutesForWaiter, RequestsAreOwned, OneDaemon, TypeOK
  <2>6. PollinMeansRequest' /\ OneDaemon'
    BY DEF PollinMeansRequest, OneDaemon, RequestsAreOwned, TypeOK
  <2> QED BY <2>1, <2>2, <2>3, <2>4, <2>5, <2>6
<1>3. CASE DaemonClear(d)
  <2> USE <1>3 DEF DaemonClear, GoTo
  <2>1. TypeOK'
    BY DEF TypeOK, DaemonPlaces
  <2>2. CallsOwnLocks'
    BY DEF CallsOwnLocks
  <2>3. RequestsAreOwned'
    BY DEF RequestsAreOwned, OneDaemon, TypeOK
  <2>4. WaiterOwnsRegisters'
    BY DEF WaiterOwnsRegisters, TypeOK
  <2>5. ExecutesForWaiter'
    BY DEF ExecutesForWaiter, RequestsAreOwned, OneDaemon, TypeOK
  <2>6. PollinMeansRequest' /\ OneDaemon'
    BY DEF PollinMeansRequest, OneDaemon, RequestsAreOwned, TypeOK
  <2> QED BY <2>1, <2>2, <2>3, <2>4, <2>5, <2>6
<1>4. CASE DaemonMmap(d)
  <2> USE <1>4 DEF DaemonMmap, GoTo
  <2>1. TypeOK'
    BY DEF TypeOK, DaemonPlaces
  <2>2. CallsOwnLocks'
    BY DEF CallsOwnLocks
  <2>3. RequestsAreOwned'
    BY DEF RequestsAreOwned, OneDaemon, TypeOK
  <2>4. WaiterOwnsRegisters'
    BY DEF WaiterOwnsRegisters, TypeOK
  <2>5. ExecutesForWaiter'
    BY DEF ExecutesForWaiter, RequestsAreOwned, OneDaemon, TypeOK
  <2>6. PollinMeansRequest' /\ OneDaemon'
    BY DEF PollinMeansRequest, OneDaemon, RequestsAreOwned, TypeOK
  <2> QED BY <2>1, <2>2, <2>3, <2>4, <2>5, <2>6
<1>5. CASE DaemonPoll(d)
  <2> USE <1>5 DEF DaemonPoll, GoTo
  <2>1. TypeOK'
    BY DEF TypeOK, DaemonPlaces
  <2>2. CallsOwnLocks'
    BY DEF CallsOwnLocks
  <2>3. RequestsAreOwned'
    BY DEF RequestsAreOwned, OneDaemon, TypeOK
  <2>4. WaiterOwnsRegisters'
    BY DEF WaiterOwnsRegisters, TypeOK
  <2>5. ExecutesForWaiter'
    BY DEF ExecutesForWaiter, RequestsAreOwned, OneDaemon, TypeOK
  <2>6. PollinMeansRequest' /\ OneDaemon'
    BY DEF PollinMeansRequest, OneDaemon, RequestsAreOwned, TypeOK
  <2> QED BY <2>1, <2>2, <2>3, <2>4, <2>5, <2>6
<1>6. CASE DaemonRead(d)
  <2>1. CASE Exit(d)
    BY <2>1, ExitInv, <1>6 DEF DaemonRead
  <2>2. CASE ~Exit(d)
    <3> USE <1>6, <2>2 DEF DaemonRead, GoTo
    <3>1. TypeOK'
      <4>1. job' \in [Daemons -> JobType]
        BY DEF TypeOK, Rets, JobType
      <4> QED BY <4>1 DEF TypeOK, DaemonPlaces, JobType
    <3>2. CallsOwnLocks'
      BY DEF CallsOwnLocks
    <3>3. RequestsAreOwned'
      BY DEF RequestsAreOwned, OneDaemon, TypeOK
    <3>4. WaiterOwnsRegisters'
      BY DEF WaiterOwnsRegisters
    <3>5. ExecutesForWaiter'
      BY DEF ExecutesForWaiter, WaiterOwnsRegisters, RequestsAreOwned,
         OneDaemon, TypeOK
    <3>6. dpc' = [dpc EXCEPT ![d] = "exec"] /\ dpc[d] = "readable"
      BY DEF TypeOK
    <3>7. PollinMeansRequest'
      <4> SUFFICES ASSUME NEW e \in Daemons, dpc'[e] = "readable"
                   PROVE  FALSE
        BY DEF PollinMeansRequest
      <4>1. e # d /\ dpc[e] = "readable"
        BY <3>6 DEF TypeOK
      <4> QED BY <3>6, <4>1 DEF OneDaemon
    <3>8. OneDaemon'
      BY <3>6 DEF OneDaemon, TypeOK
    <3> QED BY <3>1, <3>2, <3>3, <3>4, <3>5, <3>7, <3>8
  <2> QED BY <2>1, <2>2
<1>7. CASE DaemonExecute(d)
  <2> USE <1>7 DEF DaemonExecute, GoTo
  <2>1. TypeOK'
    BY DEF TypeOK, DaemonPlaces
  <2>2. CallsOwnLocks'
    BY DEF CallsOwnLocks
  <2>3. RequestsAreOwned'
    BY DEF RequestsAreOwned, OneDaemon, TypeOK
  <2>4. WaiterOwnsRegisters'
    BY DEF WaiterOwnsRegisters, TypeOK
  <2>5. ExecutesForWaiter'
    BY DEF ExecutesForWaiter, RequestsAreOwned, OneDaemon, TypeOK
  <2>6. PollinMeansRequest' /\ OneDaemon'
    BY DEF PollinMeansRequest, OneDaemon, RequestsAreOwned, TypeOK
  <2> QED BY <2>1, <2>2, <2>3, <2>4, <2>5, <2>6
<1>8. CASE DaemonAnswer(d)
  <2> USE <1>8 DEF DaemonAnswer, GoTo
  <2>1. TypeOK'
    BY DEF TypeOK, DaemonPlaces, NoJob, Rets
  <2>2. CallsOwnLocks'
    BY DEF CallsOwnLocks
  <2>3. RequestsAreOwned'
    BY DEF RequestsAreOwned, OneDaemon, TypeOK, NoJob
  <2>4. WaiterOwnsRegisters'
    BY DEF WaiterOwnsRegisters, TypeOK
  <2>5. ExecutesForWaiter'
    BY DEF ExecutesForWaiter, RequestsAreOwned, OneDaemon, TypeOK, NoJob
  <2>6. PollinMeansRequest' /\ OneDaemon'
    BY DEF PollinMeansRequest, OneDaemon, RequestsAreOwned, TypeOK
  <2> QED BY <2>1, <2>2, <2>3, <2>4, <2>5, <2>6
<1>9. CASE DaemonAsync(d)
  <2> USE <1>9 DEF DaemonAsync
  <2>0. /\ poll_waiting' \subseteq 0 .. 2 * IntWidth - 1
        /\ woken' \subseteq Procs /\ watch' \subseteq Slots \cup {NoSlot}
    BY DEF TypeOK, Pollers
  <2>1. TypeOK'
    BY <2>0 DEF TypeOK, DaemonPlaces
  <2>2. CallsOwnLocks'
    BY DEF CallsOwnLocks
  <2>3. RequestsAreOwned'
    BY DEF RequestsAreOwned, OneDaemon, TypeOK
  <2>4. WaiterOwnsRegisters'
    BY DEF WaiterOwnsRegisters, TypeOK
  <2>5. ExecutesForWaiter'
    BY DEF ExecutesForWaiter, RequestsAreOwned, OneDaemon, TypeOK
  <2>6. PollinMeansRequest' /\ OneDaemon'
    BY DEF PollinMeansRequest, OneDaemon, RequestsAreOwned, TypeOK
  <2> QED BY <2>1, <2>2, <2>3, <2>4, <2>5, <2>6
<1>10. CASE DaemonKill(d)
  BY <1>10, ExitInv DEF DaemonKill
<1>11. CASE DaemonRelease(d)
  <2> USE <1>11 DEF DaemonRelease, GoTo
  <2>0. \A e \in Daemons :
          dpc'[e] \in OpenedCtl => e # d /\ dpc[e] \in OpenedCtl
    BY DEF TypeOK
  <2>1. TypeOK'
    BY DEF TypeOK, DaemonPlaces
  <2>2. CallsOwnLocks'
    BY DEF CallsOwnLocks
  <2>3. RequestsAreOwned'
    BY <2>0 DEF RequestsAreOwned, OneDaemon, TypeOK
  <2>4. WaiterOwnsRegisters'
    BY DEF WaiterOwnsRegisters, TypeOK
  <2>5. ExecutesForWaiter'
    BY DEF ExecutesForWaiter, RequestsAreOwned, OneDaemon, TypeOK
  <2>6. PollinMeansRequest' /\ OneDaemon'
    BY DEF PollinMeansRequest, OneDaemon, RequestsAreOwned, TypeOK
  <2> QED BY <2>1, <2>2, <2>3, <2>4, <2>5, <2>6
<1>12. CASE DaemonUnregister(d)
  <2> USE <1>12 DEF DaemonUnregister, GoTo
  <2>1. TypeOK'
    BY DEF TypeOK, DaemonPlaces
  <2>2. CallsOwnLocks'
    BY DEF CallsOwnLocks
  <2>3. RequestsAreOwned'
    BY DEF RequestsAreOwned, OneDaemon, TypeOK
  <2>4. WaiterOwnsRegisters'
    BY DEF WaiterOwnsRegisters, TypeOK
  <2>5. ExecutesForWaiter'
    BY DEF ExecutesForWaiter, RequestsAreOwned, OneDaemon, TypeOK
  <2>6. PollinMeansRequest' /\ OneDaemon'
    BY DEF PollinMeansRequest, OneDaemon, RequestsAreOwned, TypeOK
  <2> QED BY <2>1, <2>2, <2>3, <2>4, <2>5, <2>6
<1>13. CASE DaemonFree(d)
  <2> USE <1>13 DEF DaemonFree, GoTo
  <2>1. TypeOK'
    BY DEF TypeOK, DaemonPlaces
  <2>2. CallsOwnLocks'
    BY DEF CallsOwnLocks
  <2>3. RequestsAreOwned'
    BY DEF RequestsAreOwned, OneDaemon, TypeOK
  <2>4. WaiterOwnsRegisters'
    BY DEF WaiterOwnsRegisters, TypeOK
  <2>5. ExecutesForWaiter'
    BY DEF ExecutesForWaiter, RequestsAreOwned, OneDaemon, TypeOK
  <2>6. PollinMeansRequest' /\ OneDaemon'
    BY DEF PollinMeansRequest, OneDaemon, RequestsAreOwned, TypeOK
  <2> QED BY <2>1, <2>2, <2>3, <2>4, <2>5, <2>6
<1>14. CASE DaemonFreeInterrupted(d)
  <2> USE <1>14 DEF DaemonFreeInterrupted, GoTo
  <2>1. TypeOK'
    BY DEF TypeOK, DaemonPlaces
  <2>2. CallsOwnLocks'
    BY DEF CallsOwnLocks
  <2>3. RequestsAreOwned'
    BY DEF RequestsAreOwned, OneDaemon, TypeOK
  <2>4. WaiterOwnsRegisters'
    BY DEF WaiterOwnsRegisters, TypeOK
  <2>5. ExecutesForWaiter'
    BY DEF ExecutesForWaiter, RequestsAreOwned, OneDaemon, TypeOK
  <2>6. PollinMeansRequest' /\ OneDaemon'
    BY DEF PollinMeansRequest, OneDaemon, RequestsAreOwned, TypeOK
  <2> QED BY <2>1, <2>2, <2>3, <2>4, <2>5, <2>6
<1> QED
  BY <1>1, <1>2, <1>3, <1>4, <1>5, <1>6, <1>7, <1>8, <1>9, <1>10, <1>11,
     <1>12, <1>13, <1>14
  DEF DaemonStep, ServeStep, LifeStep

\* Every step keeps the invariant.
LEMMA NextInv == IInv /\ [Next]_vars => IInv'
<1> SUFFICES ASSUME IInv, [Next]_vars PROVE IInv'
  OBVIOUS
<1>1. ASSUME NEW p \in Procs, InCallStep(p) \/ BeginStep(p) \/ SignalStep(p)
      PROVE  IInv'
  <2>1. FakeIoctl(p) \/ AroundFakeIoctl(p)
    BY <1>1 DEF InCallStep, BeginStep, SignalStep, FakeIoctl, AroundFakeIoctl
  <2> QED BY <2>1, FakeIoctlInv, CallInv
<1>2. ASSUME NEW d \in Daemons, DaemonStep(d)
      PROVE  IInv'
  BY <1>2, DaemonInv
<1>3. CASE UNCHANGED vars
  BY <1>3 DEF vars, regs, locks, app, IInv, TypeOK, CallsOwnLocks,
              RequestsAreOwned, WaiterOwnsRegisters, ExecutesForWaiter,
              PollinMeansRequest, OneDaemon
<1> QED BY <1>1, <1>2, <1>3 DEF Next, DaemonStep

\* IInv holds in every reachable state of the device.
LEMMA SpecInv == Spec => []IInv
  BY InitInv, NextInv, PTL DEF Spec

-----------------------------------------------------------------------------
\* Every variable keeps its range; in particular no command is posted for a
\* file without a slot, and poll_waiting stays within its word.
THEOREM TypeCorrect == Spec => []TypeOK
<1>1. IInv => TypeOK
  BY DEF IInv
<1> QED BY <1>1, SpecInv, PTL

\* While a call waits in dvblb_fake_ioctl, the registers hold its request or
\* none, through signals, timeouts, exits and restarts of the daemon.
THEOREM RegistersOwned == Spec => []WaiterOwnsRegisters
<1>1. IInv => WaiterOwnsRegisters
  BY DEF IInv
<1> QED BY <1>1, SpecInv, PTL

\* The daemon works for a waiting process only on that process's present
\* request, which it read once.
THEOREM ExecutesOwnRequest == Spec => []ExecutesForWaiter
<1>1. IInv => ExecutesForWaiter
  BY DEF IInv
<1> QED BY <1>1, SpecInv, PTL

\* A daemon that polled the control device successfully finds a request: it
\* never ends because of a read that returned nothing.
THEOREM ReadFindsRequest == Spec => []PollinMeansRequest
<1>1. IInv => PollinMeansRequest
  BY DEF IInv
<1> QED BY <1>1, SpecInv, PTL

\* At most one daemon has the control device open.
THEOREM SingleDaemon == Spec => []OneDaemon
<1>1. IInv => OneDaemon
  BY DEF IInv
<1> QED BY <1>1, SpecInv, PTL

\* The shared buffer stays in place during a READ: whoever changes it needs
\* lock_buffer, which the reader holds.
THEOREM BufferIsKept == Spec => BufferKept
<1> DEFINE Kept == \A p \in Procs : cmd[p] = "read" /\ cmd'[p] = "read" =>
                                      buffer' = buffer
<1>1. IInv /\ [Next]_vars => Kept
  <2> SUFFICES ASSUME IInv, [Next]_vars, NEW p \in Procs, cmd[p] = "read"
               PROVE  buffer' = buffer
    OBVIOUS
  <2>1. lock_buffer = p /\ p # NoProc
    BY ConstantsAssumption DEF IInv, CallsOwnLocks
  <2>2. ASSUME NEW d \in Daemons, DaemonStep(d)
        PROVE  buffer' = buffer
    BY <2>1, <2>2 DEF DaemonStep, ServeStep, LifeStep, DaemonOpen, DaemonWipe,
       DaemonClear, DaemonMmap, DaemonPoll, DaemonRead, DaemonExecute,
       DaemonAnswer, DaemonAsync, DaemonKill, DaemonRelease, DaemonUnregister,
       DaemonFree, DaemonFreeInterrupted, Exit
  <2>3. ASSUME NEW q \in Procs, FakeIoctl(q)
        PROVE  buffer' = buffer
    BY <2>3 DEF FakeIoctl, LockFake, LockInterrupted, Post, WaitAnswered,
       WaitInterrupted, WaitTimeout, Linger, Collect, CollectInterrupted,
       Abandon, ResendClose, ctl
  <2>4. ASSUME NEW q \in Procs, AroundFakeIoctl(q)
        PROVE  buffer' = buffer
    BY <2>4 DEF AroundFakeIoctl, OpenSlot, OpenCheckPid, OpenReturn,
       IoctlBegin, IoctlReturn, ReadBegin, ReadLockBuffer, ReadInterrupted,
       ReadReturn, PollBegin, PollReturn, PollTimeout,
       CloseBegin, CloseReturn, CloseInterrupted, ctl
  <2>5. CASE UNCHANGED vars
    BY <2>5 DEF vars
  <2> QED
    BY <2>2, <2>3, <2>4, <2>5 DEF Next, DaemonStep, InCallStep, BeginStep,
       SignalStep, FakeIoctl, AroundFakeIoctl
<1>2. Spec => [][Kept]_vars
  BY <1>1, SpecInv, PTL DEF Spec
<1> QED BY <1>2 DEF BufferKept

-----------------------------------------------------------------------------
(* Without faults: no signal, no kill, no slow CLOSE, no open before the   *)
(* daemon serves.  QuietInv strengthens IInv: the daemon stays, every slot *)
(* belongs to one open file, and no caller leaves before his answer.       *)

\* The invariant holds when the module is loaded.
LEMMA QuietInit == Init => QuietInv
<1> SUFFICES ASSUME Init PROVE QuietInv
  OBVIOUS
<1> USE ConstantsAssumption DEF Init
<1>1. IInv
  BY InitInv
<1>2. DaemonStays
  BY DEF DaemonStays, Serving
<1>3. SlotsAreOwned
  BY DEF SlotsAreOwned, TagUnique, Slots, NoSlot
<1>4. NobodyLeaves
  BY DEF NobodyLeaves, Posted, NoCmd
<1> QED BY <1>1, <1>2, <1>3, <1>4 DEF QuietInv

\* Without faults a wait only ends with the answer.
LEMMA WaitGoesOn ==
  ASSUME Faults = {}, QuietInv, NEW p \in Procs,
         WaitInterrupted(p) \/ WaitTimeout(p)
  PROVE  FALSE
<1>1. pc[p] = "wait" /\ pc[p] # "closed"
  BY DEF WaitInterrupted, WaitTimeout
<1>2. PICK d \in Daemons : dpc[d] \in Serving
  BY <1>1 DEF QuietInv, DaemonStays
<1>3. Control
  BY <1>2 DEF QuietInv, DaemonStays
<1> QED BY <1>2, <1>3 DEF WaitInterrupted, WaitTimeout, CloseTimesOut, Control

\* The steps of dvblb_fake_ioctl.
LEMMA QuietFake ==
  ASSUME Faults = {}, QuietInv, NEW p \in Procs, FakeIoctl(p)
  PROVE  QuietInv'
<1> USE ConstantsAssumption DEF QuietInv, ctl, regs, locks
<1>0. IInv'
  BY FakeIoctlInv
<1>1. CASE LockFake(p)
  <2> USE <1>1 DEF LockFake
  <2>1. DaemonStays'
    BY DEF DaemonStays, Control
  <2>2. SlotsAreOwned'
    BY DEF SlotsAreOwned, TagUnique, IInv, TypeOK
  <2>3. NobodyLeaves'
    BY DEF NobodyLeaves, IInv, TypeOK, Posted
  <2> QED BY <1>0, <2>1, <2>2, <2>3
<1>2. CASE LockInterrupted(p) \/ CollectInterrupted(p)
  BY <1>2 DEF LockInterrupted, CollectInterrupted
<1>3. CASE Post(p)
  <2> USE <1>3 DEF Post
  <2>1. DaemonStays'
    BY DEF DaemonStays, Control
  <2>2. SlotsAreOwned'
    BY DEF SlotsAreOwned, TagUnique, IInv, TypeOK
  <2>3. NobodyLeaves'
    BY DEF NobodyLeaves, IInv, TypeOK, CallsOwnLocks, Posted, HoldsFake
  <2> QED BY <1>0, <2>1, <2>2, <2>3
<1>4. CASE WaitAnswered(p)
  <2> USE <1>4 DEF WaitAnswered
  <2>1. DaemonStays'
    BY DEF DaemonStays, Control
  <2>2. SlotsAreOwned'
    BY DEF SlotsAreOwned, TagUnique, IInv, TypeOK
  <2>3. NobodyLeaves'
    BY DEF NobodyLeaves, IInv, TypeOK, Posted
  <2> QED BY <1>0, <2>1, <2>2, <2>3
<1>5. CASE WaitInterrupted(p) \/ WaitTimeout(p)
  BY <1>5, WaitGoesOn
<1>6. CASE Linger(p)
  BY <1>6 DEF Linger, NobodyLeaves
<1>7. CASE Collect(p)
  <2> USE <1>7 DEF Collect
  <2>a. ioctlcmd = NoCmd
    BY DEF NobodyLeaves
  <2>b. /\ Disown(p) /\ UNCHANGED <<filemap, pid, dpc, ioctlcmd, slot>>
        /\ pc' = [pc EXCEPT ![p] = "ret"]
        /\ res' = [res EXCEPT ![p] = ioctlretval.val]
    BY <2>a
  <2>1. DaemonStays'
    BY <2>a DEF DaemonStays, Control
  <2>2. SlotsAreOwned'
    BY <2>a DEF SlotsAreOwned, TagUnique, IInv, TypeOK
  <2>3. NobodyLeaves'
    <3>1. ASSUME NEW q \in Procs, pc'[q] \in Posted PROVE FALSE
      <4>1. q # p /\ pc[q] \in Posted
        BY <2>b, <3>1 DEF IInv, TypeOK, Posted
      <4> QED BY <4>1 DEF IInv, CallsOwnLocks, Posted, HoldsFake
    <3>2. ASSUME NEW q \in Procs, pc'[q] = "ret" PROVE res'[q] # Error
      <4>1. ioctlretval.val # Error
        BY DEF IInv, TypeOK, Rets, Error
      <4> QED BY <3>2, <4>1, <2>b DEF NobodyLeaves, IInv, TypeOK
    <3>3. ASSUME NEW d \in Daemons, dpc'[d] \in {"exec", "answer"}
          PROVE  job'[d].for # NoProc
      <4>1. job[d].for # NoProc
        BY <2>b, <3>3 DEF NobodyLeaves
      <4>2. job[d].for \in Procs
        BY <4>1 DEF IInv, TypeOK
      <4>3. job[d].cmd # NoCmd /\ job[d].for # p
        BY <2>a, <4>2 DEF IInv, CallsOwnLocks, ExecutesForWaiter, Posted, HoldsFake
      <4> QED BY <2>b, <4>1, <4>3 DEF Disown
    <3> QED BY <2>a, <2>b, <3>1, <3>2, <3>3 DEF NobodyLeaves, Posted
  <2> QED BY <1>0, <2>1, <2>2, <2>3
<1> QED
  BY <1>1, <1>2, <1>3, <1>4, <1>5, <1>6, <1>7 DEF FakeIoctl

\* Whoever gives up his slot leaves the table to the others.
LEMMA SlotFreed ==
  ASSUME QuietInv, NEW p \in Procs, pc[p] # "closed",
         filemap' = [filemap EXCEPT ![slot[p]] = "null"],
         slot' = [slot EXCEPT ![p] = NoSlot],
         pc' = [pc EXCEPT ![p] = "closed"],
         UNCHANGED <<pid, dpc>>
  PROVE  DaemonStays' /\ SlotsAreOwned'
<1> USE ConstantsAssumption DEF QuietInv
<1>1. slot[p] \in Slots /\ filemap[slot[p]] = "lb" /\ NoSlot \notin Slots
  BY DEF IInv, CallsOwnLocks, SlotsAreOwned, Slots, NoSlot
<1>2. \A q \in Procs \ {p} : slot[q] # slot[p]
  BY <1>1 DEF SlotsAreOwned, TagUnique
<1>3. Control => Control'
  BY <1>1 DEF Control, IInv, TypeOK
<1>4. DaemonStays'
  BY <1>3 DEF DaemonStays, IInv, TypeOK
<1>5. SlotsAreOwned'
  BY <1>1, <1>2 DEF SlotsAreOwned, TagUnique, IInv, TypeOK
<1> QED BY <1>4, <1>5

\* While the daemon starts no file is open.
LEMMA NoneOpen ==
  ASSUME QuietInv, NEW d \in Daemons, dpc[d] \in {"wipe", "clear"},
         NEW p \in Procs
  PROVE  pc[p] = "closed"
  BY DEF QuietInv, DaemonStays, IInv, OneDaemon, OpenedCtl, Serving

\* The steps of the calls around it.
LEMMA QuietCall ==
  ASSUME Faults = {}, QuietInv, NEW p \in Procs, AroundFakeIoctl(p)
  PROVE  QuietInv'
<1> USE ConstantsAssumption DEF QuietInv, ctl, regs, locks
<1>0. IInv'
  BY CallInv
<1>1. CASE OpenSlot(p)
  <2> USE <1>1 DEF OpenSlot, Leave
  <2>a. PICK i \in NewFilemap : /\ filemap' = [filemap EXCEPT ![i] = "lb"]
                                /\ slot' = [slot EXCEPT ![p] = i]
    OBVIOUS
  <2>b. PICK d \in Daemons : dpc[d] \in Serving
    BY DEF MayOpen
  <2>c. i \in Slots /\ i # NoSlot /\ filemap[i] = "null"
    BY DEF NewFilemap, Slots, NoSlot
  <2>d. Control /\ Control'
    BY <2>a, <2>b, <2>c DEF DaemonStays, Control, IInv, TypeOK
  <2>1. DaemonStays'
    BY <2>b, <2>d DEF DaemonStays
  <2>e. slot[p] = NoSlot /\ \A q \in Procs : slot[q] # i
    BY <2>c DEF SlotsAreOwned
  <2>2. SlotsAreOwned'
    <3>1. /\ slot'[p] = i /\ filemap'[i] = "lb" /\ pc'[p] # "closed"
          /\ \A q \in Procs \ {p} : slot'[q] = slot[q] /\ pc'[q] = pc[q]
          /\ \A s \in Slots \ {i} : filemap'[s] = filemap[s]
      BY <2>a, <2>c DEF IInv, TypeOK
    <3>2. TagUnique'
      BY <2>e, <3>1 DEF TagUnique, SlotsAreOwned
    <3>3. ASSUME NEW s \in Slots
          PROVE  /\ filemap'[s] = "user" => s = 0
                 /\ filemap'[s] = "lb" <=> (\E q \in Procs : slot'[q] = s)
      <4>1. CASE s = i
        BY <3>1, <4>1
      <4>2. CASE s # i
        BY <2>c, <2>e, <3>1, <4>2 DEF SlotsAreOwned, Slots, NoSlot
      <4> QED BY <4>1, <4>2
    <3> QED BY <3>1, <3>2, <3>3 DEF SlotsAreOwned
  <2>3. NobodyLeaves'
    BY DEF NobodyLeaves, IInv, TypeOK, Posted
  <2> QED BY <1>0, <2>1, <2>2, <2>3
<1>2. CASE OpenCheckPid(p)
  <2> USE <1>2 DEF OpenCheckPid, Enter, Leave
  <2>a. pid # NoProc
    BY DEF DaemonStays, Serving
  <2>1. DaemonStays'
    BY <2>a DEF DaemonStays, Control
  <2>2. SlotsAreOwned'
    BY <2>a DEF SlotsAreOwned, TagUnique, IInv, TypeOK
  <2>3. NobodyLeaves'
    BY <2>a DEF NobodyLeaves, IInv, TypeOK, Posted
  <2> QED BY <1>0, <2>1, <2>2, <2>3
<1>3. CASE OpenReturn(p)
  <2> USE <1>3 DEF OpenReturn, Leave
  <2>1. DaemonStays' /\ SlotsAreOwned'
    <3>1. CASE res[p] = "zero"
      BY <3>1 DEF DaemonStays, Control, SlotsAreOwned, TagUnique, IInv, TypeOK
    <3>2. CASE res[p] # "zero"
      BY <3>2, SlotFreed
    <3> QED BY <3>1, <3>2
  <2>3. NobodyLeaves'
    BY DEF NobodyLeaves, IInv, TypeOK, Posted
  <2> QED BY <1>0, <2>1, <2>3
<1>4. CASE IoctlBegin(p)
  <2> USE <1>4 DEF IoctlBegin, Enter, Leave
  <2>1. DaemonStays'
    BY DEF DaemonStays, Control, MayOpen, IInv, TypeOK, Slots
  <2>2. SlotsAreOwned'
    BY DEF SlotsAreOwned, TagUnique, NewFilemap, Looped, IInv, TypeOK, CallsOwnLocks, Slots, NoSlot
  <2>3. NobodyLeaves'
    BY DEF NobodyLeaves, IInv, TypeOK, Posted
  <2> QED BY <1>0, <2>1, <2>2, <2>3
<1>5. CASE IoctlReturn(p)
  <2> USE <1>5 DEF IoctlReturn, Enter, Leave
  <2>1. DaemonStays'
    BY DEF DaemonStays, Control, MayOpen, IInv, TypeOK, Slots
  <2>2. SlotsAreOwned'
    BY DEF SlotsAreOwned, TagUnique, NewFilemap, Looped, IInv, TypeOK, CallsOwnLocks, Slots, NoSlot
  <2>3. NobodyLeaves'
    BY DEF NobodyLeaves, IInv, TypeOK, Posted
  <2> QED BY <1>0, <2>1, <2>2, <2>3
<1>6. CASE ReadBegin(p)
  <2> USE <1>6 DEF ReadBegin, Enter, Leave
  <2>1. DaemonStays'
    BY DEF DaemonStays, Control, MayOpen, IInv, TypeOK, Slots
  <2>2. SlotsAreOwned'
    BY DEF SlotsAreOwned, TagUnique, NewFilemap, Looped, IInv, TypeOK, CallsOwnLocks, Slots, NoSlot
  <2>3. NobodyLeaves'
    BY DEF NobodyLeaves, IInv, TypeOK, Posted
  <2> QED BY <1>0, <2>1, <2>2, <2>3
<1>7. CASE ReadLockBuffer(p)
  <2> USE <1>7 DEF ReadLockBuffer, Enter, Leave
  <2>1. DaemonStays'
    BY DEF DaemonStays, Control, MayOpen, IInv, TypeOK, Slots
  <2>2. SlotsAreOwned'
    BY DEF SlotsAreOwned, TagUnique, NewFilemap, Looped, IInv, TypeOK, CallsOwnLocks, Slots, NoSlot
  <2>3. NobodyLeaves'
    BY DEF NobodyLeaves, IInv, TypeOK, Posted
  <2> QED BY <1>0, <2>1, <2>2, <2>3
<1>8. CASE ReadInterrupted(p)
  <2> USE <1>8 DEF ReadInterrupted, Enter, Leave
  <2>1. DaemonStays'
    BY DEF DaemonStays, Control, MayOpen, IInv, TypeOK, Slots
  <2>2. SlotsAreOwned'
    BY DEF SlotsAreOwned, TagUnique, NewFilemap, Looped, IInv, TypeOK, CallsOwnLocks, Slots, NoSlot
  <2>3. NobodyLeaves'
    BY DEF NobodyLeaves, IInv, TypeOK, Posted
  <2> QED BY <1>0, <2>1, <2>2, <2>3
<1>9. CASE ReadReturn(p)
  <2> USE <1>9 DEF ReadReturn, Enter, Leave
  <2>1. DaemonStays'
    BY DEF DaemonStays, Control, MayOpen, IInv, TypeOK, Slots
  <2>2. SlotsAreOwned'
    BY DEF SlotsAreOwned, TagUnique, NewFilemap, Looped, IInv, TypeOK, CallsOwnLocks, Slots, NoSlot
  <2>3. NobodyLeaves'
    BY DEF NobodyLeaves, IInv, TypeOK, Posted
  <2> QED BY <1>0, <2>1, <2>2, <2>3
<1>10. CASE PollBegin(p)
  <2> USE <1>10 DEF PollBegin, Enter, Leave
  <2>1. DaemonStays'
    BY DEF DaemonStays, Control, MayOpen, IInv, TypeOK, Slots
  <2>2. SlotsAreOwned'
    BY DEF SlotsAreOwned, TagUnique, NewFilemap, Looped, IInv, TypeOK, CallsOwnLocks, Slots, NoSlot
  <2>3. NobodyLeaves'
    BY DEF NobodyLeaves, IInv, TypeOK, Posted
  <2> QED BY <1>0, <2>1, <2>2, <2>3
<1>11. CASE PollReturn(p)
  <2> USE <1>11 DEF PollReturn, Enter, Leave
  <2>1. DaemonStays'
    BY DEF DaemonStays, Control, MayOpen, IInv, TypeOK, Slots
  <2>2. SlotsAreOwned'
    <3>1. /\ UNCHANGED <<filemap, slot>>
          /\ \A q \in Procs : pc'[q] = "closed" => pc[q] = "closed"
      BY DEF IInv, TypeOK, ctl, locks
    <3> QED BY <3>1 DEF SlotsAreOwned, TagUnique
  <2>3. NobodyLeaves'
    BY DEF NobodyLeaves, IInv, TypeOK, Posted
  <2> QED BY <1>0, <2>1, <2>2, <2>3
<1>12. CASE PollTimeout(p)
  <2> USE <1>12 DEF PollTimeout, Enter, Leave
  <2>1. DaemonStays'
    BY DEF DaemonStays, Control, MayOpen, IInv, TypeOK, Slots
  <2>2. SlotsAreOwned'
    BY DEF SlotsAreOwned, TagUnique, NewFilemap, Looped, IInv, TypeOK, CallsOwnLocks, Slots, NoSlot
  <2>3. NobodyLeaves'
    BY DEF NobodyLeaves, IInv, TypeOK, Posted
  <2> QED BY <1>0, <2>1, <2>2, <2>3
<1>13. CASE CloseBegin(p)
  <2> USE <1>13 DEF CloseBegin, Enter, Leave
  <2>a. pid # NoProc /\ Looped(p)
    BY DEF DaemonStays, SlotsAreOwned, Looped, Serving, IInv, CallsOwnLocks
  <2>1. DaemonStays'
    BY <2>a DEF DaemonStays, Control
  <2>2. SlotsAreOwned'
    BY <2>a DEF SlotsAreOwned, TagUnique, IInv, TypeOK
  <2>3. NobodyLeaves'
    BY <2>a DEF NobodyLeaves, IInv, TypeOK, Posted
  <2> QED BY <1>0, <2>1, <2>2, <2>3
<1>14. CASE CloseReturn(p)
  <2> USE <1>14 DEF CloseReturn, Leave
  <2>1. DaemonStays' /\ SlotsAreOwned'
    BY SlotFreed
  <2>3. NobodyLeaves'
    BY DEF NobodyLeaves, IInv, TypeOK, Posted
  <2> QED BY <1>0, <2>1, <2>3
<1>15. CASE CloseInterrupted(p)
  <2> USE <1>15 DEF CloseInterrupted, Enter, Leave
  <2>1. DaemonStays'
    BY DEF DaemonStays, Control, MayOpen, IInv, TypeOK, Slots
  <2>2. SlotsAreOwned'
    BY DEF SlotsAreOwned, TagUnique, NewFilemap, Looped, IInv, TypeOK, CallsOwnLocks, Slots, NoSlot
  <2>3. NobodyLeaves'
    BY DEF NobodyLeaves, IInv, TypeOK, Posted
  <2> QED BY <1>0, <2>1, <2>2, <2>3
<1> QED
  BY <1>1, <1>2, <1>3, <1>4, <1>5, <1>6, <1>7, <1>8, <1>9, <1>10, <1>11, <1>12, <1>13, <1>14, <1>15 DEF AroundFakeIoctl

\* The steps of the daemon.
LEMMA QuietDaemon ==
  ASSUME Faults = {}, QuietInv, NEW d \in Daemons, DaemonStep(d)
  PROVE  QuietInv'
<1> USE ConstantsAssumption DEF QuietInv, regs, locks, app, Serving
<1>0. IInv'
  BY DaemonInv
<1>1. CASE DaemonOpen(d)
  <2> USE <1>1 DEF DaemonOpen, GoTo
  <2>1. DaemonStays'
    BY DEF DaemonStays, Control, IInv, TypeOK, OneDaemon, OpenedCtl
  <2>2. SlotsAreOwned'
    BY DEF SlotsAreOwned, TagUnique, IInv, TypeOK
  <2>3. NobodyLeaves'
    BY DEF NobodyLeaves, IInv, TypeOK, Posted
  <2> QED BY <1>0, <2>1, <2>2, <2>3
<1>2. CASE DaemonWipe(d)
  <2> USE <1>2 DEF DaemonWipe, GoTo
  <2>a. \A p \in Procs : pc[p] = "closed"
    BY NoneOpen
  <2>1. DaemonStays'
    BY <2>a DEF DaemonStays, Control, IInv, TypeOK
  <2>2. SlotsAreOwned'
    BY DEF SlotsAreOwned, TagUnique, IInv, TypeOK
  <2>3. NobodyLeaves'
    BY <2>a DEF NobodyLeaves, IInv, TypeOK, Posted
  <2> QED BY <1>0, <2>1, <2>2, <2>3
<1>3. CASE DaemonClear(d)
  <2> USE <1>3 DEF DaemonClear, GoTo
  <2>a. \A p \in Procs : pc[p] = "closed"
    BY NoneOpen
  <2>b. 0 \in Slots /\ NoSlot \notin Slots
    BY DEF Slots, NoSlot
  <2>1. DaemonStays'
    BY <2>a, <2>b DEF DaemonStays, Control, IInv, TypeOK
  <2>2. SlotsAreOwned'
    BY <2>a, <2>b DEF SlotsAreOwned, TagUnique, IInv, TypeOK
  <2>3. NobodyLeaves'
    BY <2>a DEF NobodyLeaves, IInv, TypeOK, Posted
  <2> QED BY <1>0, <2>1, <2>2, <2>3
<1>4. CASE DaemonMmap(d)
  <2> USE <1>4 DEF DaemonMmap, GoTo
  <2>1. DaemonStays'
    BY DEF DaemonStays, Control, IInv, TypeOK, OneDaemon, OpenedCtl
  <2>2. SlotsAreOwned'
    BY DEF SlotsAreOwned, TagUnique, IInv, TypeOK
  <2>3. NobodyLeaves'
    BY DEF NobodyLeaves, IInv, TypeOK, Posted
  <2> QED BY <1>0, <2>1, <2>2, <2>3
<1>5. CASE DaemonPoll(d)
  <2> USE <1>5 DEF DaemonPoll, GoTo
  <2>1. DaemonStays'
    BY DEF DaemonStays, Control, IInv, TypeOK, OneDaemon, OpenedCtl
  <2>2. SlotsAreOwned'
    BY DEF SlotsAreOwned, TagUnique, IInv, TypeOK
  <2>3. NobodyLeaves'
    BY DEF NobodyLeaves, IInv, TypeOK, Posted
  <2> QED BY <1>0, <2>1, <2>2, <2>3
<1>6. CASE DaemonRead(d)
  <2> USE <1>6 DEF DaemonRead, GoTo
  <2>a. Control /\ ioctlcmd # NoCmd /\ ~ioctl_already_read
    BY DEF DaemonStays, IInv, PollinMeansRequest
  <2>b. /\ dpc' = [dpc EXCEPT ![d] = "exec"] /\ job'[d].for = ioctldata
        /\ \A e \in Daemons \ {d} : job'[e] = job[e]
        /\ UNCHANGED <<filemap, pid, ioctlcmd, ioctldata, ioctlretval, app>>
    BY <2>a DEF Control, IInv, TypeOK
  <2>1. DaemonStays'
    BY <2>b DEF DaemonStays, Control, IInv, TypeOK
  <2>2. SlotsAreOwned'
    BY <2>b DEF SlotsAreOwned, TagUnique
  <2>3. NobodyLeaves'
    BY <2>a, <2>b DEF NobodyLeaves, IInv, TypeOK, Posted
  <2> QED BY <1>0, <2>1, <2>2, <2>3
<1>7. CASE DaemonExecute(d)
  <2> USE <1>7 DEF DaemonExecute, GoTo
  <2>1. DaemonStays'
    BY DEF DaemonStays, Control, IInv, TypeOK, OneDaemon, OpenedCtl
  <2>2. SlotsAreOwned'
    BY DEF SlotsAreOwned, TagUnique, IInv, TypeOK
  <2>3. NobodyLeaves'
    BY DEF NobodyLeaves, IInv, TypeOK, Posted
  <2> QED BY <1>0, <2>1, <2>2, <2>3
<1>8. CASE DaemonAnswer(d)
  <2> USE <1>8 DEF DaemonAnswer, GoTo
  <2>1. DaemonStays'
    BY DEF DaemonStays, Control, IInv, TypeOK
  <2>2. SlotsAreOwned'
    BY DEF SlotsAreOwned, TagUnique, IInv, TypeOK
  <2>3. NobodyLeaves'
    <3> DEFINE q == job[d].for
    <3>1. q \in Procs /\ Control
      BY DEF NobodyLeaves, DaemonStays, IInv, TypeOK
    <3>2. /\ pc[q] \in Posted /\ job[d].cmd = cmd[q] /\ ioctlcmd = cmd[q]
          /\ lock_fake_ioctl = q
      BY <3>1 DEF IInv, ExecutesForWaiter, CallsOwnLocks, Posted, HoldsFake
    <3>3. ioctlretval'.for = q /\ ioctlcmd' = NoCmd
      BY <3>1, <3>2
    <3>4. \A p \in Procs : pc[p] \in Posted => p = q
      BY <3>2 DEF IInv, CallsOwnLocks, Posted, HoldsFake
    <3> QED BY <3>3, <3>4 DEF NobodyLeaves, IInv, TypeOK
  <2> QED BY <1>0, <2>1, <2>2, <2>3
<1>9. CASE DaemonAsync(d)
  <2> USE <1>9 DEF DaemonAsync, GoTo
  <2>1. DaemonStays'
    BY DEF DaemonStays, Control, IInv, TypeOK, OneDaemon, OpenedCtl
  <2>2. SlotsAreOwned'
    BY DEF SlotsAreOwned, TagUnique, IInv, TypeOK
  <2>3. NobodyLeaves'
    BY DEF NobodyLeaves, IInv, TypeOK, Posted
  <2> QED BY <1>0, <2>1, <2>2, <2>3
<1>10. CASE DaemonKill(d)
  <2> USE <1>10 DEF DaemonKill, GoTo
  <2>1. DaemonStays'
    BY DEF DaemonStays, Control, IInv, TypeOK, OneDaemon, OpenedCtl
  <2>2. SlotsAreOwned'
    BY DEF SlotsAreOwned, TagUnique, IInv, TypeOK
  <2>3. NobodyLeaves'
    BY DEF NobodyLeaves, IInv, TypeOK, Posted
  <2> QED BY <1>0, <2>1, <2>2, <2>3
<1>11. CASE DaemonRelease(d)
  <2> USE <1>11 DEF DaemonRelease, GoTo
  <2>1. DaemonStays'
    BY DEF DaemonStays, Control, IInv, TypeOK, OneDaemon, OpenedCtl
  <2>2. SlotsAreOwned'
    BY DEF SlotsAreOwned, TagUnique, IInv, TypeOK
  <2>3. NobodyLeaves'
    BY DEF NobodyLeaves, IInv, TypeOK, Posted
  <2> QED BY <1>0, <2>1, <2>2, <2>3
<1>12. CASE DaemonUnregister(d)
  <2> USE <1>12 DEF DaemonUnregister, GoTo
  <2>1. DaemonStays'
    BY DEF DaemonStays, Control, IInv, TypeOK, OneDaemon, OpenedCtl
  <2>2. SlotsAreOwned'
    BY DEF SlotsAreOwned, TagUnique, IInv, TypeOK
  <2>3. NobodyLeaves'
    BY DEF NobodyLeaves, IInv, TypeOK, Posted
  <2> QED BY <1>0, <2>1, <2>2, <2>3
<1>13. CASE DaemonFree(d)
  <2> USE <1>13 DEF DaemonFree, GoTo
  <2>1. DaemonStays'
    BY DEF DaemonStays, Control, IInv, TypeOK, OneDaemon, OpenedCtl
  <2>2. SlotsAreOwned'
    BY DEF SlotsAreOwned, TagUnique, IInv, TypeOK
  <2>3. NobodyLeaves'
    BY DEF NobodyLeaves, IInv, TypeOK, Posted
  <2> QED BY <1>0, <2>1, <2>2, <2>3
<1>14. CASE DaemonFreeInterrupted(d)
  <2> USE <1>14 DEF DaemonFreeInterrupted, GoTo
  <2>1. DaemonStays'
    BY DEF DaemonStays, Control, IInv, TypeOK, OneDaemon, OpenedCtl
  <2>2. SlotsAreOwned'
    BY DEF SlotsAreOwned, TagUnique, IInv, TypeOK
  <2>3. NobodyLeaves'
    BY DEF NobodyLeaves, IInv, TypeOK, Posted
  <2> QED BY <1>0, <2>1, <2>2, <2>3
<1> QED
  BY <1>1, <1>2, <1>3, <1>4, <1>5, <1>6, <1>7, <1>8, <1>9, <1>10, <1>11, <1>12, <1>13, <1>14
  DEF DaemonStep, ServeStep, LifeStep

\* Every step keeps the invariant.
LEMMA QuietNext ==
  ASSUME Faults = {}
  PROVE  QuietInv /\ [Next]_vars => QuietInv'
<1> SUFFICES ASSUME QuietInv, [Next]_vars PROVE QuietInv'
  OBVIOUS
<1>1. ASSUME NEW p \in Procs, InCallStep(p) \/ BeginStep(p) \/ SignalStep(p)
      PROVE  QuietInv'
  <2>1. FakeIoctl(p) \/ AroundFakeIoctl(p)
    BY <1>1 DEF InCallStep, BeginStep, SignalStep, FakeIoctl, AroundFakeIoctl
  <2> QED BY <2>1, QuietFake, QuietCall
<1>2. ASSUME NEW d \in Daemons, DaemonStep(d)
      PROVE  QuietInv'
  BY <1>2, QuietDaemon
<1>3. CASE UNCHANGED vars
  <2>1. IInv'
    BY NextInv DEF QuietInv
  <2> QED BY <1>3, <2>1 DEF vars, regs, locks, app, QuietInv, DaemonStays,
             Control, SlotsAreOwned, TagUnique, NobodyLeaves
<1> QED BY <1>1, <1>2, <1>3 DEF Next, DaemonStep

\* QuietInv holds in every reachable state of a device without faults.
LEMMA QuietSpec ==
  ASSUME Faults = {}
  PROVE  Spec => []QuietInv
<1>1. Init => QuietInv
  BY QuietInit
<1>2. QuietInv /\ [Next]_vars => QuietInv'
  BY QuietNext
<1> QED BY <1>1, <1>2, PTL DEF Spec

-----------------------------------------------------------------------------
\* Without faults the answer a call collects is the result of executing this
\* very call: no caller before it left an execution behind.
THEOREM AnswersAreOwn ==
  ASSUME Faults = {}
  PROVE  Spec => []AnswerIsOwn
<1>1. QuietInv => AnswerIsOwn
  BY DEF QuietInv, NobodyLeaves, AnswerIsOwn, Posted
<1>2. Spec => []QuietInv
  BY QuietSpec
<1> QED BY <1>1, <1>2, PTL

\* As many slots lead to the looped device as files are open: slot is a
\* bijection between them.
LEMMA SlotsCount ==
  ASSUME QuietInv
  PROVE  LET Lb   == {s \in Slots : filemap[s] = "lb"}
             OpenFiles == {p \in Procs : slot[p] # NoSlot}
         IN  IsFiniteSet(Lb) /\ Cardinality(Lb) = Cardinality(OpenFiles)
<1> DEFINE Lb   == {s \in Slots : filemap[s] = "lb"}
           OpenFiles == {p \in Procs : slot[p] # NoSlot}
           f    == [p \in OpenFiles |-> slot[p]]
<1>1. IsFiniteSet(Lb)
  <2>1. MaxFd - 1 \in Int
    BY ConstantsAssumption
  <2>2. IsFiniteSet(Slots)
    BY <2>1, FS_Interval DEF Slots
  <2> QED BY <2>2, FS_Subset
<1>2. f \in Bijection(OpenFiles, Lb)
  <2>1. \A p \in OpenFiles : slot[p] \in Lb
    BY DEF QuietInv, SlotsAreOwned, IInv, TypeOK
  <2>2. \A p, q \in OpenFiles : slot[p] = slot[q] => p = q
    BY DEF QuietInv, SlotsAreOwned, TagUnique
  <2>3. \A s \in Lb : \E p \in OpenFiles : slot[p] = s
    BY DEF QuietInv, SlotsAreOwned, Slots, NoSlot
  <2>4. /\ f \in [OpenFiles -> Lb] /\ \A p, q \in OpenFiles : f[p] = f[q] => p = q
        /\ \A s \in Lb : \E p \in OpenFiles : f[p] = s
    BY <2>1, <2>2, <2>3
  <2> HIDE DEF f, OpenFiles, Lb
  <2> QED BY <2>4, Fun_IsBij
<1>3. ExistsBijection(Lb, OpenFiles)
  BY <1>2, Fun_ExistsBijSymmetric DEF ExistsBijection
<1>4. Cardinality(OpenFiles) = Cardinality(Lb)
  <2> HIDE DEF Lb, OpenFiles
  <2> QED BY <1>1, <1>3, FS_Bijection
<1> QED BY <1>1, <1>4

\* Without faults inuse_filemap counts the open files and the daemon, so the
\* forwarding switch is free again once the last file is closed.
THEOREM SlotsAreCounted ==
  ASSUME Faults = {}
  PROVE  Spec => []NoSlotLeak
<1>1. QuietInv => NoSlotLeak
  <2> SUFFICES ASSUME QuietInv PROVE NoSlotLeak
    OBVIOUS
  <2> DEFINE Lb   == {s \in Slots : filemap[s] = "lb"}
             OpenFiles == {p \in Procs : slot[p] # NoSlot}
  <2>1. IsFiniteSet(Lb) /\ Cardinality(Lb) = Cardinality(OpenFiles)
    BY SlotsCount
  <2>2. Cardinality(Lb) \in Nat
    BY <2>1, FS_CardinalityType
  <2>3. 0 \in Slots
    BY ConstantsAssumption DEF Slots
  <2>4. \A s \in Slots : filemap[s] = "user" => s = 0
    BY DEF QuietInv, SlotsAreOwned
  <2>5. filemap \in [Slots -> {"null", "lb", "user"}]
    BY DEF QuietInv, IInv, TypeOK
  <2>6. CASE Control
    <3>1. {i \in Slots : filemap[i] # "null"} = Lb \cup {0} /\ 0 \notin Lb
      BY <2>3, <2>4, <2>5, <2>6 DEF Control
    <3>2. Cardinality(Lb \cup {0}) = Cardinality(Lb) + 1
      BY <2>1, <3>1, FS_AddElement
    <3> QED BY <2>1, <2>6, <3>1, <3>2 DEF NoSlotLeak, InuseFilemap
  <2>7. CASE ~Control
    <3>1. {i \in Slots : filemap[i] # "null"} = Lb
      BY <2>4, <2>5, <2>7 DEF Control
    <3> QED BY <2>1, <2>2, <2>7, <3>1 DEF NoSlotLeak, InuseFilemap
  <2> QED BY <2>6, <2>7
<1>2. Spec => []QuietInv
  BY QuietSpec
<1> QED BY <1>1, <1>2, PTL

-----------------------------------------------------------------------------
\* Distinct slots below the width of an int have distinct bits.
LEMMA BitsAreDisjoint ==
  ASSUME NEW s \in Slots, NEW t \in Slots, s < IntWidth, t < IntWidth, s # t
  PROVE  PollBits(s) \cap PollBits(t) = {}
<1>1. s \in Int /\ t \in Int /\ s >= 0 /\ t >= 0 /\ IntWidth \in Nat
  BY ConstantsAssumption DEF Slots
<1>2. s % IntWidth = s /\ t % IntWidth = t
  BY <1>1
<1> QED BY <1>1, <1>2 DEF PollBits

\* Nobody polls when the module is loaded.
LEMMA PollInit == Init => PollsAreWatched
<1> SUFFICES ASSUME Init PROVE PollsAreWatched
  OBVIOUS
<1> QED BY DEF Init, PollsAreWatched, PollIsWatched, PolledEmpty, NoCmd

\* A step within dvblb_fake_ioctl.
LEMMA PollFake ==
  ASSUME Faults = {}, QuietInv, PollsAreWatched, NEW p \in Procs, FakeIoctl(p)
  PROVE  PollsAreWatched'
<1> USE ConstantsAssumption DEF QuietInv, PollsAreWatched, PollIsWatched, PolledEmpty, IsWaiting, ctl, regs, locks
<1>1. CASE LockFake(p)
  BY <1>1 DEF LockFake, Posted, IInv, TypeOK
<1>2. CASE LockInterrupted(p) \/ CollectInterrupted(p)
  BY <1>2 DEF LockInterrupted, CollectInterrupted
<1>3. CASE Post(p)
  BY <1>3 DEF Post, Posted, IInv, TypeOK, CallsOwnLocks, HoldsFake, ExecutesForWaiter
<1>4. CASE WaitAnswered(p)
  BY <1>4 DEF WaitAnswered, Posted, IInv, TypeOK
<1>5. CASE WaitInterrupted(p) \/ WaitTimeout(p)
  BY <1>5, WaitGoesOn
<1>6. CASE Linger(p)
  BY <1>6 DEF Linger, NobodyLeaves
<1>7. CASE Collect(p)
  BY <1>7 DEF Collect, NobodyLeaves, Disown, Posted, IInv, TypeOK
<1> QED
  BY <1>1, <1>2, <1>3, <1>4, <1>5, <1>6, <1>7 DEF FakeIoctl

\* A step that leaves q and the daemon alone and sets none of q's bits.
LEMMA OtherPoll ==
  ASSUME QuietInv, PollsAreWatched, NEW q \in Procs,
         pc'[q] = pc[q], slot'[q] = slot[q], cmd'[q] = cmd[q], res'[q] = res[q],
         q \in woken => q \in woken',
         slot[q] # NoSlot /\ IsWaiting(q)' => IsWaiting(q),
         UNCHANGED <<regs, dpc, job, watch>>
  PROVE  PollIsWatched(q)'
<1> USE DEF PollsAreWatched, PollIsWatched, PolledEmpty, regs
<1>1. PolledEmpty(q)' = PolledEmpty(q)
  OBVIOUS
<1>2. PolledEmpty(q) => slot[q] # NoSlot
  BY DEF QuietInv, IInv, CallsOwnLocks, Slots, NoSlot, NoCmd, HoldsFake
<1> QED BY <1>1, <1>2

\* The calls around it.  Only here does the width of the int matter: a poll
\* that sets its own bits sets nobody else's.
LEMMA PollCall ==
  ASSUME Faults = {}, QuietInv, PollsAreWatched, Narrow,
         NEW p \in Procs, AroundFakeIoctl(p)
  PROVE  PollsAreWatched'
<1> DEFINE Others == \A q \in Procs \ {p} :
      /\ pc'[q] = pc[q] /\ slot'[q] = slot[q] /\ cmd'[q] = cmd[q]
      /\ res'[q] = res[q] /\ (q \in woken => q \in woken')
<1>0. UNCHANGED <<regs, dpc, job, watch>>
  BY DEF AroundFakeIoctl, ctl, OpenSlot, OpenCheckPid, OpenReturn, IoctlBegin, IoctlReturn, ReadBegin, ReadLockBuffer, ReadInterrupted, ReadReturn, PollBegin, PollReturn, PollTimeout, CloseBegin, CloseReturn, CloseInterrupted
<1>a. Others
  BY DEF QuietInv, IInv, TypeOK, AroundFakeIoctl, Enter, Leave, OpenSlot, OpenCheckPid, OpenReturn, IoctlBegin, IoctlReturn, ReadBegin, ReadLockBuffer, ReadInterrupted, ReadReturn, PollBegin, PollReturn, PollTimeout, CloseBegin, CloseReturn, CloseInterrupted
<1>b. ASSUME NEW q \in Procs \ {p}, slot[q] # NoSlot
      PROVE  IsWaiting(q)' => IsWaiting(q)
  <2>1. CASE PollBegin(p)
    <3>1. PollBits(slot[p]) \cap PollBits(slot[q]) = {}
      <4>1. slot[p] \in Slots /\ slot[q] \in Slots /\ slot[p] # slot[q]
        BY <1>b, <2>1 DEF PollBegin, QuietInv, IInv, TypeOK, CallsOwnLocks,
           SlotsAreOwned, TagUnique, NoSlot, Slots
      <4> QED BY <4>1, BitsAreDisjoint DEF Narrow
    <3> QED BY <1>a, <2>1, <3>1 DEF PollBegin, IsWaiting
  <2>2. CASE ~PollBegin(p)
    <3>1. poll_waiting' \subseteq poll_waiting
      BY <2>2 DEF AroundFakeIoctl, OpenSlot, OpenCheckPid, OpenReturn, IoctlBegin, IoctlReturn, ReadBegin, ReadLockBuffer, ReadInterrupted, ReadReturn, PollBegin, PollReturn, PollTimeout, CloseBegin, CloseReturn, CloseInterrupted
    <3> QED BY <1>a, <3>1 DEF IsWaiting
  <2> QED BY <2>1, <2>2
<1>c. \A q \in Procs \ {p} : PollIsWatched(q)'
  BY <1>0, <1>a, <1>b, OtherPoll
<1>d. PollIsWatched(p)'
  <2> USE ConstantsAssumption DEF QuietInv, PollsAreWatched, PollIsWatched, PolledEmpty, IsWaiting, ctl, regs, locks
  <2>1. CASE OpenSlot(p)
    BY <2>1 DEF OpenSlot, Enter, Leave, Posted, IInv, TypeOK, CallsOwnLocks, HoldsFake, NoSlot, NoCmd
  <2>2. CASE OpenCheckPid(p)
    BY <2>2 DEF OpenCheckPid, Enter, Leave, Posted, IInv, TypeOK, CallsOwnLocks, HoldsFake, NoSlot, NoCmd
  <2>3. CASE OpenReturn(p)
    BY <2>3 DEF OpenReturn, Enter, Leave, Posted, IInv, TypeOK, CallsOwnLocks, HoldsFake, NoSlot, NoCmd
  <2>4. CASE IoctlBegin(p)
    BY <2>4 DEF IoctlBegin, Enter, Leave, Posted, IInv, TypeOK, CallsOwnLocks, HoldsFake, NoSlot, NoCmd
  <2>5. CASE IoctlReturn(p)
    BY <2>5 DEF IoctlReturn, Enter, Leave, Posted, IInv, TypeOK, CallsOwnLocks, HoldsFake, NoSlot, NoCmd
  <2>6. CASE ReadBegin(p)
    BY <2>6 DEF ReadBegin, Enter, Leave, Posted, IInv, TypeOK, CallsOwnLocks, HoldsFake, NoSlot, NoCmd
  <2>7. CASE ReadLockBuffer(p)
    BY <2>7 DEF ReadLockBuffer, Enter, Leave, Posted, IInv, TypeOK, CallsOwnLocks, HoldsFake, NoSlot, NoCmd
  <2>8. CASE ReadInterrupted(p)
    BY <2>8 DEF ReadInterrupted, Enter, Leave, Posted, IInv, TypeOK, CallsOwnLocks, HoldsFake, NoSlot, NoCmd
  <2>9. CASE ReadReturn(p)
    BY <2>9 DEF ReadReturn, Enter, Leave, Posted, IInv, TypeOK, CallsOwnLocks, HoldsFake, NoSlot, NoCmd
  <2>10. CASE PollBegin(p)
    <3>1. /\ cmd[p] = NoCmd /\ slot[p] \in Slots /\ slot[p] # NoSlot
          /\ \A d \in Daemons : job[d].for # p
      BY <2>10 DEF PollBegin, IInv, CallsOwnLocks, ExecutesForWaiter, Posted,
         HoldsFake, Slots, NoSlot
    <3>2. CASE IsWaiting(p)
      <4>0. Leave(p, "sleep") /\ UNCHANGED <<slot, watch>>
        BY <2>10, <3>2 DEF PollBegin
      <4>1. pc'[p] = "sleep" /\ cmd'[p] = NoCmd /\ slot' = slot /\ watch' = watch
        BY <4>0 DEF Leave, IInv, TypeOK
      <4> QED BY <3>1, <3>2, <4>1 DEF NoCmd
    <3>3. CASE ~IsWaiting(p)
      <4>1. pc'[p] = "lockfake" /\ cmd'[p] = "poll" /\ job' = job
        BY <2>10, <3>3 DEF PollBegin, Enter, IInv, TypeOK
      <4> QED BY <3>1, <4>1 DEF Posted
    <3> QED BY <3>2, <3>3
  <2>11. CASE PollReturn(p)
    BY <2>11 DEF PollReturn, Enter, Leave, Posted, IInv, TypeOK, CallsOwnLocks, HoldsFake, NoSlot, NoCmd
  <2>12. CASE PollTimeout(p)
    BY <2>12 DEF PollTimeout, Enter, Leave, Posted, IInv, TypeOK, CallsOwnLocks, HoldsFake, NoSlot, NoCmd
  <2>13. CASE CloseBegin(p)
    BY <2>13 DEF CloseBegin, Enter, Leave, Posted, IInv, TypeOK, CallsOwnLocks, HoldsFake, NoSlot, NoCmd
  <2>14. CASE CloseReturn(p)
    BY <2>14 DEF CloseReturn, Enter, Leave, Posted, IInv, TypeOK, CallsOwnLocks, HoldsFake, NoSlot, NoCmd
  <2>15. CASE CloseInterrupted(p)
    BY <2>15 DEF CloseInterrupted, Enter, Leave, Posted, IInv, TypeOK, CallsOwnLocks, HoldsFake, NoSlot, NoCmd
  <2> QED
    BY <2>1, <2>2, <2>3, <2>4, <2>5, <2>6, <2>7, <2>8, <2>9, <2>10, <2>11, <2>12, <2>13, <2>14, <2>15 DEF AroundFakeIoctl
<1> QED BY <1>c, <1>d DEF PollsAreWatched

\* The steps of the daemon.
LEMMA PollDaemon ==
  ASSUME Faults = {}, QuietInv, PollsAreWatched, NEW d \in Daemons, DaemonStep(d)
  PROVE  PollsAreWatched'
<1> USE ConstantsAssumption DEF QuietInv, PollsAreWatched, PollIsWatched, PolledEmpty, IsWaiting, regs, locks, app, Serving
<1>1. CASE DaemonOpen(d)
  BY <1>1 DEF DaemonOpen, GoTo, Posted, IInv, TypeOK
<1>2. CASE DaemonWipe(d)
  <2>1. \A p \in Procs : pc[p] = "closed"
    BY <1>2, NoneOpen DEF DaemonWipe
  <2>2. \A p \in Procs : slot[p] = NoSlot /\ cmd[p] = NoCmd
    BY <2>1 DEF SlotsAreOwned, IInv, CallsOwnLocks, HoldsFake
  <2> QED BY <1>2, <2>1, <2>2 DEF DaemonWipe, NoCmd
<1>3. CASE DaemonClear(d)
  BY <1>3 DEF DaemonClear, GoTo, Posted, IInv, TypeOK
<1>4. CASE DaemonMmap(d)
  BY <1>4 DEF DaemonMmap, GoTo, Posted, IInv, TypeOK
<1>5. CASE DaemonPoll(d)
  BY <1>5 DEF DaemonPoll, GoTo, Posted, IInv, TypeOK
<1>6. CASE DaemonRead(d)
  <2>1. Control /\ ioctlcmd # NoCmd /\ ~ioctl_already_read
    BY <1>6 DEF DaemonRead, DaemonStays, IInv, PollinMeansRequest
  <2>2. /\ dpc' = [dpc EXCEPT ![d] = "exec"]
        /\ \A e \in Daemons \ {d} : job'[e] = job[e]
        /\ UNCHANGED <<ioctlcmd, ioctlretval, app, poll_waiting, watch>>
    BY <1>6, <2>1 DEF DaemonRead, GoTo, Control, IInv, TypeOK
  <2>3. \A p \in Procs : PolledEmpty(p)' => PolledEmpty(p)
    BY <2>2 DEF IInv, TypeOK
  <2> QED BY <2>2, <2>3
<1>7. CASE DaemonExecute(d)
  <2> SUFFICES ASSUME NEW p \in Procs PROVE PollIsWatched(p)'
    OBVIOUS
  <2>1. PICK r \in Rets :
          /\ job' = [job EXCEPT ![d].ret = r]
          /\ watch' = CASE job[d].cmd = "poll" /\ r = "zero" ->
                             watch \cup {job[d].fd}
                         [] job[d].cmd = "close" -> watch \ {job[d].fd}
                         [] OTHER -> watch
    BY <1>7 DEF DaemonExecute
  <2>2. /\ dpc[d] = "exec" /\ dpc' = [dpc EXCEPT ![d] = "answer"]
        /\ UNCHANGED <<regs, poll_waiting, app>>
    BY <1>7 DEF DaemonExecute, GoTo
  <2>3. job[d].for \in Procs
    BY <2>2 DEF NobodyLeaves, IInv, TypeOK
  <2>4. /\ job[d].cmd = cmd[job[d].for] /\ job[d].fd = slot[job[d].for]
        /\ slot[job[d].for] # NoSlot /\ pc[job[d].for] \in Posted
        /\ ioctlcmd # NoCmd
    BY <2>3 DEF IInv, ExecutesForWaiter, CallsOwnLocks, Posted, HoldsFake,
       Slots, NoSlot
  <2>5. CASE p = job[d].for
    <3>1. pc'[p] \in Posted /\ ioctlcmd' # NoCmd /\ pc'[p] # "sleep"
      BY <2>2, <2>4, <2>5 DEF Posted
    <3>2. watch \subseteq watch' \/ cmd[p] = "close"
      BY <2>1, <2>4, <2>5
    <3>3. PolledEmpty(p)' => slot[p] \in watch'
      <4> SUFFICES ASSUME PolledEmpty(p)' PROVE slot[p] \in watch'
        OBVIOUS
      <4>1. PICK e \in Daemons : dpc'[e] = "answer" /\ job'[e].for = p
                                /\ job'[e].ret = "zero"
        BY <2>2, <3>1 DEF Posted
      <4>2. e = d
        BY <2>1, <2>2, <4>1 DEF IInv, OneDaemon, OpenedCtl, TypeOK
      <4>3. r = "zero" /\ job[d].cmd = "poll"
        BY <2>1, <2>2, <2>4, <2>5, <4>1, <4>2 DEF IInv, TypeOK
      <4> QED BY <2>1, <2>4, <2>5, <4>3
    <3> QED BY <2>2, <3>1, <3>2, <3>3
  <2>6. CASE p # job[d].for
    <3>1. slot[p] \in watch => slot[p] \in watch'
      BY <2>1, <2>3, <2>4, <2>6 DEF SlotsAreOwned, TagUnique
    <3>2. PolledEmpty(p)' => PolledEmpty(p)
      BY <2>1, <2>2, <2>6 DEF IInv, TypeOK
    <3> QED BY <2>2, <3>1, <3>2
  <2> QED BY <2>5, <2>6
<1>8. CASE DaemonAnswer(d)
  <2> SUFFICES ASSUME NEW p \in Procs PROVE PollIsWatched(p)'
    OBVIOUS
  <2>1. /\ dpc[d] = "answer" /\ dpc' = [dpc EXCEPT ![d] = "run"]
        /\ job' = [job EXCEPT ![d] = NoJob]
        /\ UNCHANGED <<app, poll_waiting, watch>>
    BY <1>8 DEF DaemonAnswer, GoTo
  <2>2. job[d].for \in Procs
    BY <2>1 DEF NobodyLeaves, IInv, TypeOK
  <2>3. /\ pc[job[d].for] \in Posted /\ ioctlcmd # NoCmd
        /\ job[d].cmd = ioctlcmd /\ lock_fake_ioctl = job[d].for
    BY <2>2 DEF IInv, ExecutesForWaiter, CallsOwnLocks, Posted, HoldsFake
  <2>4. ioctlretval'.val = job[d].ret
    BY <1>8, <2>1, <2>3 DEF DaemonAnswer, DaemonStays, Control
  <2>5. pc[p] \in Posted => p = job[d].for
    BY <2>3 DEF IInv, CallsOwnLocks, Posted, HoldsFake
  <2>6. PolledEmpty(p)' => PolledEmpty(p)
    BY <2>1, <2>4, <2>5 DEF IInv, TypeOK
  <2> QED BY <2>1, <2>6
<1>9. CASE DaemonAsync(d)
  <2> SUFFICES ASSUME NEW p \in Procs PROVE PollIsWatched(p)'
    OBVIOUS
  <2>1. PICK s \in watch : /\ watch' = watch \ {s}
                           /\ poll_waiting' = poll_waiting \ PollBits(s)
                           /\ woken' = woken \cup Pollers(s)
    BY <1>9 DEF DaemonAsync
  <2>2. UNCHANGED <<regs, pc, slot, cmd, res, dpc, job>>
    BY <1>9 DEF DaemonAsync
  <2>3. PolledEmpty(p)' = PolledEmpty(p)
    BY <2>2
  <2>4. CASE slot[p] = s
    <3>1. ~IsWaiting(p)'
      BY <2>1, <2>2, <2>4
    <3>2. pc[p] = "sleep" \/ PolledEmpty(p) => p \in woken'
      BY <2>1, <2>4 DEF Pollers
    <3> QED BY <2>2, <2>3, <3>1, <3>2
  <2>5. CASE slot[p] # s
    <3>1. IsWaiting(p)' => IsWaiting(p)
      BY <2>1, <2>2
    <3>2. slot[p] \in watch => slot[p] \in watch'
      BY <2>1, <2>5
    <3>3. p \in woken => p \in woken'
      BY <2>1
    <3> QED BY <2>2, <2>3, <3>1, <3>2, <3>3
  <2> QED BY <2>4, <2>5
<1>10. CASE DaemonKill(d)
  BY <1>10 DEF DaemonKill, GoTo, Posted, IInv, TypeOK
<1>11. CASE DaemonRelease(d)
  BY <1>11 DEF DaemonRelease, GoTo, Posted, IInv, TypeOK
<1>12. CASE DaemonUnregister(d)
  BY <1>12 DEF DaemonUnregister, GoTo, Posted, IInv, TypeOK
<1>13. CASE DaemonFree(d)
  BY <1>13 DEF DaemonFree, GoTo, Posted, IInv, TypeOK
<1>14. CASE DaemonFreeInterrupted(d)
  BY <1>14 DEF DaemonFreeInterrupted, GoTo, Posted, IInv, TypeOK
<1> QED
  BY <1>1, <1>2, <1>3, <1>4, <1>5, <1>6, <1>7, <1>8, <1>9, <1>10, <1>11, <1>12, <1>13, <1>14
  DEF DaemonStep, ServeStep, LifeStep

\* Every step keeps the polls watched while the slots in use are narrow.
LEMMA PollNext ==
  ASSUME Faults = {}
  PROVE  QuietInv /\ PollsAreWatched /\ Narrow /\ [Next]_vars
           => PollsAreWatched'
<1> SUFFICES ASSUME QuietInv, PollsAreWatched, Narrow, [Next]_vars
             PROVE  PollsAreWatched'
  OBVIOUS
<1>1. ASSUME NEW p \in Procs, InCallStep(p) \/ BeginStep(p) \/ SignalStep(p)
      PROVE  PollsAreWatched'
  <2>1. FakeIoctl(p) \/ AroundFakeIoctl(p)
    BY <1>1 DEF InCallStep, BeginStep, SignalStep, FakeIoctl, AroundFakeIoctl
  <2> QED BY <2>1, PollFake, PollCall
<1>2. ASSUME NEW d \in Daemons, DaemonStep(d)
      PROVE  PollsAreWatched'
  BY <1>2, PollDaemon
<1>3. CASE UNCHANGED vars
  BY <1>3 DEF vars, regs, app, PollsAreWatched, PollIsWatched, PolledEmpty,
              IsWaiting
<1> QED BY <1>1, <1>2, <1>3 DEF Next, DaemonStep

\* Without faults, and while no slot beyond the bits of an int is in use, no
\* process sleeps in poll unnoticed by the daemon.  The hypothesis is on the
\* behaviour: filemap has DVBLB_MAXFD (96) slots, and two slots with the same
\* remainder modulo IntWidth share a bit, so one of their files is never polled.
THEOREM NoPollIsLost ==
  ASSUME Faults = {}
  PROVE  Spec /\ []Narrow => []NoLostPoll
<1>1. Init => PollsAreWatched
  BY PollInit
<1>2. QuietInv /\ PollsAreWatched /\ Narrow /\ [Next]_vars => PollsAreWatched'
  BY PollNext
<1>3. PollsAreWatched => NoLostPoll
  BY DEF PollsAreWatched, PollIsWatched, NoLostPoll
<1>4. Spec => []QuietInv
  BY QuietSpec
<1> QED BY <1>1, <1>2, <1>3, <1>4, PTL DEF Spec

-----------------------------------------------------------------------------
(* The refinement of RequestReply: what each step does to the phases.      *)

Phase == [p \in Procs |-> PhaseOf(p)]

\* A step that leaves q's call alone, and the registers while q uses them.
LEMMA SamePhase ==
  ASSUME NEW q \in Procs, pc'[q] = pc[q], res'[q] = res[q],
         pc[q] \in Posted => UNCHANGED <<ioctlcmd, ioctlretval>>
  PROVE  PhaseOf(q)' = PhaseOf(q)
  BY DEF PhaseOf, Posted

\* A step that changes the phase of one call moves it in RequestReply.
LEMMA OneMoves ==
  ASSUME NEW p \in Procs, \A q \in Procs \ {p} : PhaseOf(q)' = PhaseOf(q)
  PROVE  \A from, to : PhaseOf(p) \in from /\ PhaseOf(p)' = to
                        => Abstract!Move(p, from, to)
  BY DEF Abstract!Move, Phase

\* The steps of dvblb_fake_ioctl: only to collect the answer moves a call on.
LEMMA RefineFake ==
  ASSUME Faults = {}, QuietInv, NEW p \in Procs, FakeIoctl(p)
  PROVE  [Abstract!Next]_Phase
<1> USE ConstantsAssumption DEF QuietInv, ctl, regs, locks
<1>1. CASE LockFake(p) \/ Post(p) \/ WaitAnswered(p)
  <2>1. \A q \in Procs \ {p} : PhaseOf(q)' = PhaseOf(q)
    <3> SUFFICES ASSUME NEW q \in Procs \ {p} PROVE PhaseOf(q)' = PhaseOf(q)
      OBVIOUS
    <3>1. pc'[q] = pc[q] /\ res'[q] = res[q]
      BY <1>1 DEF LockFake, Post, WaitAnswered, IInv, TypeOK
    <3>2. pc[q] \in Posted => UNCHANGED <<ioctlcmd, ioctlretval>>
      BY <1>1 DEF LockFake, Post, WaitAnswered, IInv, CallsOwnLocks, Posted, HoldsFake
    <3> QED BY <3>1, <3>2, SamePhase
  <2>2. PhaseOf(p)' = PhaseOf(p)
    BY <1>1 DEF LockFake, Post, WaitAnswered, IInv, TypeOK, CallsOwnLocks, PhaseOf, Posted, HoldsFake
  <2> QED BY <2>1, <2>2 DEF Phase
<1>2. CASE Collect(p)
  <2>1. /\ ioctlcmd = NoCmd /\ ioctlretval.for = p /\ pc[p] = "collect"
        /\ ioctlretval.val # Error
    BY <1>2 DEF Collect, NobodyLeaves, IInv, TypeOK, Rets, Error, Posted
  <2>2. /\ pc' = [pc EXCEPT ![p] = "ret"]
        /\ res' = [res EXCEPT ![p] = ioctlretval.val]
    BY <1>2, <2>1 DEF Collect
  <2>3. \A q \in Procs \ {p} : PhaseOf(q)' = PhaseOf(q)
    <3> SUFFICES ASSUME NEW q \in Procs \ {p} PROVE PhaseOf(q)' = PhaseOf(q)
      OBVIOUS
    <3>1. pc'[q] = pc[q] /\ res'[q] = res[q]
      BY <2>2 DEF IInv, TypeOK
    <3>2. pc[q] \notin Posted
      BY <2>1 DEF IInv, CallsOwnLocks, Posted, HoldsFake
    <3> QED BY <3>1, <3>2, SamePhase
  <2>4. PhaseOf(p) = "served" /\ PhaseOf(p)' = "answered"
    BY <2>1, <2>2 DEF PhaseOf, Posted, IInv, TypeOK
  <2>5. Abstract!Answer(p)
    BY <2>3, <2>4, OneMoves DEF Abstract!Answer
  <2> QED BY <2>5 DEF Abstract!Next
<1>3. CASE LockInterrupted(p) \/ CollectInterrupted(p)
  BY <1>3 DEF LockInterrupted, CollectInterrupted
<1>4. CASE WaitInterrupted(p) \/ WaitTimeout(p)
  BY <1>4, WaitGoesOn
<1>5. CASE Linger(p)
  BY <1>5 DEF Linger, NobodyLeaves
<1> QED BY <1>1, <1>2, <1>3, <1>4, <1>5 DEF FakeIoctl

\* The steps around it: a call is asked when it begins, and returns.
LEMMA RefineCall ==
  ASSUME Faults = {}, QuietInv, NEW p \in Procs, AroundFakeIoctl(p)
  PROVE  [Abstract!Next]_Phase
<1> USE ConstantsAssumption DEF QuietInv, ctl, regs, locks
<1>1. \A q \in Procs \ {p} : PhaseOf(q)' = PhaseOf(q)
  <2> SUFFICES ASSUME NEW q \in Procs \ {p} PROVE PhaseOf(q)' = PhaseOf(q)
    OBVIOUS
  <2>1. UNCHANGED <<ioctlcmd, ioctlretval>>
    BY DEF AroundFakeIoctl, OpenSlot, OpenCheckPid, OpenReturn, IoctlBegin, IoctlReturn, ReadBegin, ReadLockBuffer, ReadInterrupted, ReadReturn, PollBegin, PollReturn, PollTimeout, CloseBegin, CloseReturn, CloseInterrupted
  <2>2. pc'[q] = pc[q] /\ res'[q] = res[q]
    BY DEF IInv, TypeOK, AroundFakeIoctl, Enter, Leave, OpenSlot, OpenCheckPid, OpenReturn, IoctlBegin, IoctlReturn, ReadBegin, ReadLockBuffer, ReadInterrupted, ReadReturn, PollBegin, PollReturn, PollTimeout, CloseBegin, CloseReturn, CloseInterrupted
  <2> QED BY <2>1, <2>2, SamePhase
<1>2. CASE PhaseOf(p)' = PhaseOf(p)
  BY <1>1, <1>2 DEF Phase
<1>3. CASE PhaseOf(p) = "idle" /\ PhaseOf(p)' = "asked"
  BY <1>1, <1>3, OneMoves DEF Abstract!Ask, Abstract!Next
<1>4. CASE PhaseOf(p) = "answered" /\ PhaseOf(p)' = "idle"
  BY <1>1, <1>4, OneMoves DEF Abstract!Return, Abstract!Next
<1>5. \/ pc[p] \in {"closed", "opening", "open", "sleep"} /\ pc'[p] = "lockfake"
      \/ /\ pc[p] \in {"closed", "opening", "open", "sleep"}
         /\ pc'[p] \in {"closed", "opening", "open", "sleep"}
      \/ pc[p] = "open" /\ pc'[p] = "lockbuf"
      \/ pc[p] = "lockbuf" /\ pc'[p] = "lockfake"
      \/ /\ pc[p] = "ret" /\ res[p] # Error
         /\ pc'[p] \in {"closed", "opening", "open", "sleep"}
  BY DEF NobodyLeaves, IInv, TypeOK, AroundFakeIoctl, Enter, Leave, OpenSlot, OpenCheckPid, OpenReturn, IoctlBegin, IoctlReturn, ReadBegin, ReadLockBuffer, ReadInterrupted, ReadReturn, PollBegin, PollReturn, PollTimeout, CloseBegin, CloseReturn, CloseInterrupted
<1> QED BY <1>2, <1>3, <1>4, <1>5 DEF PhaseOf, Posted

\* The steps of the daemon: its answer serves the one call that waits for it.
LEMMA RefineDaemon ==
  ASSUME Faults = {}, QuietInv, NEW d \in Daemons, DaemonStep(d)
  PROVE  [Abstract!Next]_Phase
<1> USE ConstantsAssumption DEF QuietInv, regs, locks, app
<1>1. UNCHANGED <<pc, res>>
  BY DEF DaemonStep, ServeStep, LifeStep, DaemonOpen, DaemonWipe,
     DaemonClear, DaemonMmap, DaemonPoll, DaemonRead, DaemonExecute,
     DaemonAnswer, DaemonAsync, DaemonKill, DaemonRelease, DaemonUnregister,
     DaemonFree, DaemonFreeInterrupted, Exit
<1>2. CASE DaemonAnswer(d)
  <2>a. job[d].for \in Procs /\ dpc[d] = "answer" /\ Control
    BY <1>2 DEF DaemonAnswer, NobodyLeaves, DaemonStays, IInv, TypeOK, Serving
  <2>1. PICK p \in Procs : p = job[d].for
    BY <2>a
  <2>2. /\ pc[p] \in Posted /\ job[d].cmd = cmd[p] /\ ioctlcmd = cmd[p]
        /\ ioctlcmd # NoCmd /\ lock_fake_ioctl = p
    BY <2>a, <2>1 DEF IInv, ExecutesForWaiter, CallsOwnLocks, Posted, HoldsFake
  <2>3. ioctlretval'.for = p /\ ioctlcmd' = NoCmd
    BY <1>2, <2>a, <2>1, <2>2 DEF DaemonAnswer
  <2>4. \A q \in Procs \ {p} : PhaseOf(q)' = PhaseOf(q)
    <3> SUFFICES ASSUME NEW q \in Procs \ {p} PROVE PhaseOf(q)' = PhaseOf(q)
      OBVIOUS
    <3>1. pc[q] \notin Posted
      BY <2>2 DEF IInv, CallsOwnLocks, Posted, HoldsFake
    <3> QED BY <1>1, <3>1, SamePhase
  <2>5. PhaseOf(p) = "asked" /\ PhaseOf(p)' = "served"
    BY <1>1, <2>2, <2>3 DEF PhaseOf, Posted
  <2>6. Abstract!Execute(p)
    BY <2>1, <2>4, <2>5, OneMoves DEF Abstract!Execute
  <2> QED BY <2>1, <2>6 DEF Abstract!Next
<1>3. CASE DaemonWipe(d)
  <2>1. \A q \in Procs : pc[q] = "closed"
    BY <1>3, NoneOpen DEF DaemonWipe
  <2>2. \A q \in Procs : PhaseOf(q)' = PhaseOf(q)
    BY <1>1, <2>1, SamePhase DEF Posted
  <2> QED BY <2>2 DEF Phase
<1>4. CASE ~DaemonAnswer(d) /\ ~DaemonWipe(d)
  <2>1. UNCHANGED <<ioctlcmd, ioctlretval>>
    BY <1>4 DEF DaemonStep, ServeStep, LifeStep, DaemonOpen, DaemonClear,
       DaemonMmap, DaemonPoll, DaemonRead, DaemonExecute, DaemonAsync,
       DaemonKill, DaemonRelease, DaemonUnregister, DaemonFree,
       DaemonFreeInterrupted, Exit
  <2>2. \A q \in Procs : PhaseOf(q)' = PhaseOf(q)
    BY <1>1, <2>1, SamePhase
  <2> QED BY <2>2 DEF Phase
<1> QED BY <1>2, <1>3, <1>4

\* Without faults every call on the looped device is executed at most once,
\* and returns the answer to this very execution.
THEOREM RequestReplyImplemented ==
  ASSUME Faults = {}
  PROVE  Spec => ImplementsRequestReply
<1>1. Init => Abstract!Init
  BY DEF Init, Abstract!Init, PhaseOf, Posted
<1>2. QuietInv /\ [Next]_vars => [Abstract!Next]_Phase
  <2> SUFFICES ASSUME QuietInv, [Next]_vars PROVE [Abstract!Next]_Phase
    OBVIOUS
  <2>1. ASSUME NEW p \in Procs, InCallStep(p) \/ BeginStep(p) \/ SignalStep(p)
        PROVE  [Abstract!Next]_Phase
    <3>1. FakeIoctl(p) \/ AroundFakeIoctl(p)
      BY <2>1 DEF InCallStep, BeginStep, SignalStep, FakeIoctl, AroundFakeIoctl
    <3> QED BY <3>1, RefineFake, RefineCall
  <2>2. ASSUME NEW d \in Daemons, DaemonStep(d)
        PROVE  [Abstract!Next]_Phase
    BY <2>2, RefineDaemon
  <2>3. CASE UNCHANGED vars
    <3>1. \A q \in Procs : PhaseOf(q)' = PhaseOf(q)
      BY <2>3, SamePhase DEF vars, regs, app
    <3> QED BY <3>1 DEF Phase
  <2> QED BY <2>1, <2>2, <2>3 DEF Next, DaemonStep
<1>3. QuietInv /\ [Next]_vars => [Abstract!Next]_[p \in Procs |-> PhaseOf(p)]
  BY <1>2 DEF Phase
<1>4. Spec => []QuietInv
  BY QuietSpec
<1> QED
  BY <1>1, <1>3, <1>4, PTL DEF Spec, ImplementsRequestReply, Abstract!Spec

-----------------------------------------------------------------------------
(* The request thread and the poll thread.  LoopInv: what the entries in use *)
(* are, and which of them a place in the array of poll is noted for.         *)

\* The k-th of some positions is one of them, and each is the k-th for some k.
LEMMA NthOfPositions ==
  ASSUME NEW P \in SUBSET Int, IsFiniteSet(P)
  PROVE  /\ \A k \in 1 .. Cardinality(P) :
              Nth(P, k) \in P /\ Cardinality({j \in P : j < Nth(P, k)}) = k - 1
         /\ \A i \in P : \E k \in 1 .. Cardinality(P) : Nth(P, k) = i
<1>1. ASSUME NEW k \in 1 .. Cardinality(P)
      PROVE  Nth(P, k) \in P /\ Cardinality({j \in P : j < Nth(P, k)}) = k - 1
  BY RankedOnce DEF Nth
<1>2. ASSUME NEW i \in P PROVE \E k \in 1 .. Cardinality(P) : Nth(P, k) = i
  <2> DEFINE r == Cardinality({m \in P : m < i})
  <2>1. r \in 0 .. Cardinality(P) - 1 /\ Cardinality(P) \in Nat
    BY RanksDiffer, FS_CardinalityType
  <2>2. \A j \in P : Cardinality({m \in P : m < j}) = r => j = i
    BY RanksDiffer
  <2> HIDE DEF r
  <2>3. r + 1 \in 1 .. Cardinality(P) /\ (r + 1) - 1 = r
    BY <2>1
  <2>4. Nth(P, r + 1) \in P /\ Cardinality({j \in P : j < Nth(P, r + 1)}) = r
    BY <1>1, <2>3
  <2> QED BY <2>2, <2>3, <2>4
<1> QED BY <1>1, <1>2

\* The array of poll_loop: each entry of the list that is to be polled, once.
LEMMA PolledOnce ==
  ASSUME used_list \in Seq(Entries), IsInjective(used_list)
  PROVE  /\ Polled \in Seq(Entries) /\ IsInjective(Polled)
         /\ ToSet(Polled) = {s \in ToSet(used_list) : realfd_ll[s].poll}
         /\ Len(Polled) \in 0 .. MaxEntries
<1> DEFINE P == {i \in DOMAIN used_list : realfd_ll[used_list[i]].poll}
           n == Cardinality(P)
           U == ToSet(used_list)
<1>1. /\ Len(used_list) \in Nat /\ DOMAIN used_list = 1 .. Len(used_list)
      /\ \A i \in DOMAIN used_list : used_list[i] \in Entries
  OBVIOUS
<1>2. P \in SUBSET Int /\ IsFiniteSet(P) /\ n \in Nat
  <2>1. P \in SUBSET (1 .. Len(used_list)) /\ P \in SUBSET Int
    BY <1>1
  <2>2. IsFiniteSet(1 .. Len(used_list))
    BY <1>1, FS_Interval
  <2>3. IsFiniteSet(P)
    BY <2>1, <2>2, FS_Subset
  <2> QED BY <2>1, <2>3, FS_CardinalityType
<1>3. Polled = [k \in 1 .. n |-> used_list[Nth(P, k)]]
  BY DEF Polled
<1>4. /\ \A k \in 1 .. n : Nth(P, k) \in P /\ Cardinality({j \in P : j < Nth(P, k)}) = k - 1
      /\ \A i \in P : \E k \in 1 .. n : Nth(P, k) = i
  BY <1>2, NthOfPositions
<1>5. \A i \in P : i \in DOMAIN used_list /\ realfd_ll[used_list[i]].poll
  OBVIOUS
<1>6. \A i \in DOMAIN used_list : realfd_ll[used_list[i]].poll => i \in P
  OBVIOUS
<1>7. \A i, j \in DOMAIN used_list : used_list[i] = used_list[j] => i = j
  BY DEF IsInjective
<1> HIDE DEF P, n
<1>8. Polled \in Seq(Entries) /\ Len(Polled) = n /\ DOMAIN Polled = 1 .. n
  <2>1. \A k \in 1 .. n : used_list[Nth(P, k)] \in Entries
    BY <1>1, <1>4, <1>5
  <2> QED BY <1>2, <1>3, <2>1
<1>9. \A k \in 1 .. n : Polled[k] = used_list[Nth(P, k)]
  BY <1>3
<1>10. IsInjective(Polled)
  <2> SUFFICES ASSUME NEW k \in 1 .. n, NEW m \in 1 .. n, Polled[k] = Polled[m]
               PROVE  k = m
    BY <1>8 DEF IsInjective
  <2>1. Nth(P, k) = Nth(P, m)
    BY <1>4, <1>5, <1>7, <1>9
  <2>2. k - 1 = m - 1
    BY <1>4, <2>1
  <2> QED BY <1>2, <2>2
<1>11. ToSet(Polled) = {s \in ToSet(used_list) : realfd_ll[s].poll}
  <2>1. ASSUME NEW k \in 1 .. n
        PROVE  Polled[k] \in U /\ realfd_ll[Polled[k]].poll
    BY <1>4, <1>5, <1>9 DEF ToSet
  <2>2. ASSUME NEW s \in U, realfd_ll[s].poll
        PROVE  \E k \in 1 .. n : Polled[k] = s
    <3>1. PICK i \in DOMAIN used_list : used_list[i] = s
      BY DEF ToSet
    <3>2. PICK k \in 1 .. n : Nth(P, k) = i
      BY <1>4, <1>6, <2>2, <3>1
    <3> QED BY <1>9, <3>1, <3>2
  <2>3. ToSet(Polled) = {Polled[k] : k \in 1 .. n}
    BY <1>8 DEF ToSet
  <2> HIDE DEF U
  <2>4. ToSet(Polled) \subseteq {s \in U : realfd_ll[s].poll}
    BY <2>1, <2>3
  <2>5. {s \in U : realfd_ll[s].poll} \subseteq ToSet(Polled)
    BY <2>2, <2>3
  <2> QED BY <2>4, <2>5 DEF U
<1>12. n <= MaxEntries
  <2>1. Polled \in [1 .. n -> Entries]
    BY <1>8
  <2>2. Polled \in Injection(1 .. n, Entries)
    BY <1>8, <1>10, <2>1 DEF Injection, IsInjective
  <2>3. IsFiniteSet(Entries) /\ Cardinality(Entries) = MaxEntries
    BY RequestLoopAssumption, FS_Interval DEF Entries
  <2>4. Cardinality(1 .. n) = n
    BY <1>2, FS_Interval
  <2> QED BY <2>2, <2>3, <2>4, FS_Injection
<1> QED BY <1>2, <1>8, <1>10, <1>11, <1>12, RequestLoopAssumption

\* The file that is opened finds an entry without a file.
LEMMA FreeIsFound ==
  ASSUME LoopTypeOK, EntriesInv, NEW f \in Files, f \notin opened
  PROVE  find_free \in Entries /\ ~ Live(find_free)
<1> DEFINE F == {s \in Entries : realfd_ll[s].kernfd = None}
<1>1. F # {}
  <2> SUFFICES ASSUME \A s \in Entries : Live(s) PROVE FALSE
    BY DEF Live
  <2> DEFINE h == [s \in Entries |-> realfd_ll[s].kernfd]
             G == Files \ {f}
  <2>1. h \in [Entries -> G]
    BY DEF LoopTypeOK, Entry, EntriesInv, Live
  <2>2. \A s, t \in Entries : h[s] = h[t] => s = t
    BY DEF EntriesInv
  <2>3. h \in Injection(Entries, G)
    BY <2>1, <2>2 DEF Injection, IsInjective
  <2>4. /\ IsFiniteSet(G) /\ Cardinality(G) = Cardinality(Files) - 1
        /\ Cardinality(Files) \in Nat
    BY RequestLoopAssumption, FS_RemoveElement, FS_CardinalityType
  <2>5. Cardinality(Entries) = MaxEntries
    BY RequestLoopAssumption, FS_Interval DEF Entries
  <2>6. Cardinality(Entries) <= Cardinality(G)
    BY <2>3, <2>4, FS_Injection
  <2> QED BY <2>4, <2>5, <2>6, RequestLoopAssumption
<1>2. F \subseteq Nat
  BY RequestLoopAssumption DEF Entries
<1>3. Min(F) \in F
  BY <1>1, <1>2, MinIsLeast
<1> QED BY <1>3 DEF find_free, Live

-----------------------------------------------------------------------------
LoopInv == LoopTypeOK /\ EntriesInv /\ ArrayInv

Row == [fd : Fds, of : Files \cup {None, Gone}, revents : BOOLEAN]

\* The entries keep files, numbers and marks.
SameEntries ==
  /\ realfd_ll' \in [Entries -> Entry]
  /\ \A s \in Entries : /\ realfd_ll'[s].kernfd = realfd_ll[s].kernfd
                         /\ realfd_ll'[s].fd = realfd_ll[s].fd
                         /\ realfd_ll'[s].poll = realfd_ll[s].poll

LEMMA Rebuilt ==
  ASSUME LoopInv, Rebuild
  PROVE  /\ SameEntries /\ ufd' \in Seq(Row) /\ pollthread' \in {"cond_wait", "unlocked"}
         /\ \A s \in ToSet(used_list) :
              LET e == realfd_ll'[s]
              IN e.pfd # 0 =>
                   /\ e.poll
                   /\ pollthread' # "cond_wait" => e.pfd \in DOMAIN ufd' /\ ufd'[e.pfd].fd = e.fd
<1> DEFINE p == Polled
           U == ToSet(used_list)
           place(s) == CHOOSE i \in DOMAIN p : p[i] = s
<1>1. /\ p \in Seq(Entries) /\ ToSet(p) = {s \in U : realfd_ll[s].poll}
      /\ Len(p) \in 0 .. MaxEntries
  BY PolledOnce DEF LoopInv, LoopTypeOK, EntriesInv
<1>2. /\ realfd_ll \in [Entries -> Entry] /\ U \subseteq Entries
      /\ \A s \in U : realfd_ll[s].fd \in Fds
  <2>1. used_list \in Seq(Entries) /\ realfd_ll \in [Entries -> Entry]
    BY DEF LoopInv, LoopTypeOK
  <2>2. U \subseteq Entries
    BY <2>1 DEF ToSet
  <2>3. \A s \in U : realfd_ll[s].fd \in Fds
    BY <2>2 DEF LoopInv, EntriesInv
  <2> QED BY <2>1, <2>2, <2>3
<1>3. /\ realfd_ll' = [s \in Entries |-> IF s \in ToSet(p) THEN [realfd_ll[s] EXCEPT !.pfd = place(s)]
                                           ELSE realfd_ll[s]]
      /\ ufd' = [i \in DOMAIN p |-> [fd |-> realfd_ll[p[i]].fd, of |-> None, revents |-> FALSE]]
      /\ pollthread' = (IF p = <<>> THEN "cond_wait" ELSE "unlocked")
  BY DEF Rebuild
<1>4. /\ DOMAIN p = 1 .. Len(p)
      /\ \A i \in DOMAIN p : p[i] \in U /\ p[i] \in ToSet(p)
      /\ \A s \in ToSet(p) : \E i \in DOMAIN p : p[i] = s
  <2> HIDE DEF p, U
  <2>1. DOMAIN p = 1 .. Len(p)
    BY <1>1
  <2>2. /\ \A i \in DOMAIN p : p[i] \in ToSet(p)
        /\ \A s \in ToSet(p) : \E i \in DOMAIN p : p[i] = s
    BY DEF ToSet
  <2>3. ToSet(p) \subseteq U
    BY <1>1
  <2> QED BY <2>1, <2>2, <2>3
<1>5. ASSUME NEW s \in U, realfd_ll[s].pfd # 0 PROVE realfd_ll[s].poll
  BY <1>5 DEF LoopInv, ArrayInv
<1> HIDE DEF p, U
<1>6. ASSUME NEW s \in ToSet(p)
      PROVE  place(s) \in DOMAIN p /\ p[place(s)] = s /\ place(s) \in 0 .. MaxEntries
  <2>1. place(s) \in DOMAIN p /\ p[place(s)] = s
    BY <1>4
  <2> QED BY <1>1, <1>4, <2>1, RequestLoopAssumption
<1> HIDE DEF place
<1>7. SameEntries
  <2>1. ASSUME NEW s \in Entries
        PROVE  /\ realfd_ll'[s] \in Entry /\ realfd_ll'[s].kernfd = realfd_ll[s].kernfd
               /\ realfd_ll'[s].fd = realfd_ll[s].fd /\ realfd_ll'[s].poll = realfd_ll[s].poll
    <3>1. CASE s \in ToSet(p)
      BY <1>2, <1>3, <1>6, <3>1 DEF Entry
    <3>2. CASE s \notin ToSet(p)
      BY <1>2, <1>3, <3>2 DEF Entry
    <3> QED BY <3>1, <3>2
  <2>2. realfd_ll' \in [Entries -> Entry]
    BY <1>3, <2>1
  <2> QED BY <2>1, <2>2 DEF SameEntries
<1>8. ufd' \in Seq(Row)
  <2>1. \A i \in DOMAIN p : ufd'[i] \in Row
    BY <1>2, <1>3, <1>4 DEF Row
  <2> QED BY <1>1, <1>3, <1>4, <2>1
<1>9. ASSUME NEW s \in U, realfd_ll'[s].pfd # 0
      PROVE  /\ realfd_ll'[s].poll
             /\ realfd_ll'[s].pfd \in DOMAIN ufd' /\ ufd'[realfd_ll'[s].pfd].fd = realfd_ll'[s].fd
  <2>0. s \in Entries
    BY <1>2
  <2>1. s \in ToSet(p)
    BY <1>1, <1>3, <1>5, <1>9, <2>0
  <2>2. realfd_ll'[s] = [realfd_ll[s] EXCEPT !.pfd = place(s)] /\ realfd_ll[s] \in Entry
    BY <1>2, <1>3, <2>0, <2>1
  <2>3. /\ realfd_ll'[s].pfd = place(s) /\ realfd_ll'[s].fd = realfd_ll[s].fd
        /\ realfd_ll'[s].poll = realfd_ll[s].poll
    BY <2>2 DEF Entry
  <2>4. realfd_ll[s].poll
    BY <1>1, <2>1
  <2>5. DOMAIN ufd' = DOMAIN p
    BY <1>3
  <2>6. ufd'[place(s)].fd = realfd_ll[s].fd
    BY <1>3, <1>6, <2>1
  <2> QED BY <1>6, <2>1, <2>3, <2>4, <2>5, <2>6
<1> QED BY <1>3, <1>7, <1>8, <1>9 DEF U

LEMMA ListedAre ==
  ASSUME LoopInv
  PROVE  /\ ToSet(used_list) \subseteq Entries /\ None \notin Entries
         /\ \A s \in ToSet(used_list) : Live(s) /\ realfd_ll[s].kernfd \in Files
<1>1. used_list \in Seq(Entries) /\ realfd_ll \in [Entries -> Entry]
  BY DEF LoopInv, LoopTypeOK
<1>2. ToSet(used_list) \subseteq Entries
  BY <1>1 DEF ToSet
<1>3. \A s \in ToSet(used_list) : Live(s)
  BY DEF LoopInv, EntriesInv
<1> QED BY <1>1, <1>2, <1>3, RequestLoopAssumption DEF Live, Entry

LEMMA RowsAre ==
  ASSUME LoopInv
  PROVE  ufd \in Seq(Row) /\ \A i \in DOMAIN ufd : ufd[i] \in Row
<1>1. ufd \in Seq(Row)
  BY DEF LoopInv, LoopTypeOK, Row
<1> QED BY <1>1

LEMMA EntriesKept ==
  ASSUME LoopInv, SameEntries, UNCHANGED <<used_list, realfd, opened, requested>>,
         main' = "close" <=> main = "close", main' = "close" => fdptr' = fdptr,
         main' \in {"mark", "answer"} => fdptr' \in ToSet(used_list)
  PROVE  EntriesInv'
<1>1. ToSet(used_list) \subseteq Entries
  BY ListedAre
<1>2. \A s \in Entries : Live(s)' <=> Live(s)
  BY DEF SameEntries, Live
<1>3. (main = "close" => fdptr \in Entries) /\ None \notin Entries
  BY RequestLoopAssumption DEF LoopInv, LoopTypeOK
<1>4. ToSet(used_list)' = ToSet(used_list) /\ IsInjective(used_list)'
  BY DEF LoopInv, EntriesInv
<1>5. /\ opened' = {realfd_ll[s].kernfd : s \in {t \in Entries : Live(t)}}
      /\ requested' = {realfd_ll[s].kernfd : s \in {t \in Entries : Live(t) /\ realfd_ll[t].poll}}
  BY DEF LoopInv, EntriesInv
<1>6. \A s \in Entries : /\ realfd_ll'[s].kernfd = realfd_ll[s].kernfd
                         /\ realfd_ll'[s].fd = realfd_ll[s].fd
                         /\ realfd_ll'[s].poll = realfd_ll[s].poll
  BY DEF SameEntries
<1>7. /\ opened' = {realfd_ll'[s].kernfd : s \in {t \in Entries : Live(t)'}}
      /\ requested' = {realfd_ll'[s].kernfd : s \in {t \in Entries : Live(t)' /\ realfd_ll'[t].poll}}
  BY <1>2, <1>5, <1>6
<1>8. \A s \in ToSet(used_list) : Live(s)'
  BY <1>1, <1>2 DEF LoopInv, EntriesInv
<1>9. ASSUME NEW s \in Entries, Live(s)'
      PROVE  /\ s \in ToSet(used_list) <=> (main' = "close" => s # fdptr')
             /\ realfd_ll'[s].fd \in Fds /\ realfd'[realfd_ll'[s].fd] = realfd_ll'[s].kernfd
             /\ \A t \in Entries : realfd_ll'[t].kernfd = realfd_ll'[s].kernfd => t = s
  BY <1>2, <1>6, <1>9 DEF LoopInv, EntriesInv
<1>10. main' = "close" => Live(fdptr)'
  BY <1>2, <1>3 DEF LoopInv, EntriesInv
<1> QED BY <1>4, <1>7, <1>8, <1>9, <1>10 DEF EntriesInv

\* Nothing about the entries has changed.
LEMMA NothingRecorded ==
  ASSUME LoopInv, UNCHANGED realfd_ll
  PROVE  SameEntries
BY DEF LoopInv, LoopTypeOK, SameEntries

-----------------------------------------------------------------------------
(* Init, and the steps.                                                    *)

LEMMA LoopBegins == LoopInit => LoopInv
<1> SUFFICES ASSUME LoopInit PROVE LoopInv
  OBVIOUS
<1> USE DEF LoopInit
<1>1. LoopTypeOK
  BY RequestLoopAssumption DEF LoopTypeOK, Entry
<1>2. \A s \in Entries : ~ Live(s)
  BY DEF Live
<1>3. ToSet(used_list) = {} /\ IsInjective(used_list)
  BY DEF ToSet, IsInjective
<1>4. EntriesInv
  BY <1>2, <1>3 DEF EntriesInv
<1>5. ArrayInv
  BY <1>3 DEF ArrayInv
<1> QED BY <1>1, <1>4, <1>5 DEF LoopInv

LEMMA PollEnterKeeps == ASSUME LoopInv, PollEnter PROVE LoopInv'
<1> USE DEF PollEnter, server, apps
<1>1. ufd' \in Seq(Row)
  <2>1. realfd \in [Fds -> Files \cup {None}]
    BY DEF LoopInv, LoopTypeOK
  <2>2. ASSUME NEW i \in DOMAIN ufd PROVE ufd'[i] \in Row
    <3>1. ufd[i] \in Row /\ ufd'[i] = [ufd[i] EXCEPT !.of = realfd[ufd[i].fd]]
      BY RowsAre
    <3> QED BY <2>1, <3>1 DEF Row
  <2>3. ufd' = [i \in DOMAIN ufd |-> ufd'[i]]
    OBVIOUS
  <2> QED BY <2>2, <2>3, RowsAre
<1>2. LoopTypeOK'
  BY <1>1 DEF LoopInv, LoopTypeOK, Row
<1>3. EntriesInv'
  BY EntriesKept, NothingRecorded DEF LoopInv, EntriesInv
<1>4. ArrayInv'
  <2>1. requested' \cap data' \subseteq since'
    BY DEF LoopInv, ArrayInv
  <2>2. ASSUME NEW s \in ToSet(used_list), realfd_ll[s].pfd # 0
        PROVE  LET e == realfd_ll[s]
               IN /\ e.poll /\ e.pfd \in DOMAIN ufd' /\ ufd'[e.pfd].fd = e.fd
                  /\ ufd'[e.pfd].of = e.kernfd
    <3>1. /\ realfd_ll[s].poll /\ realfd_ll[s].pfd \in DOMAIN ufd
          /\ ufd[realfd_ll[s].pfd].fd = realfd_ll[s].fd
      BY <2>2 DEF LoopInv, ArrayInv
    <3>2. realfd[realfd_ll[s].fd] = realfd_ll[s].kernfd
      BY ListedAre DEF LoopInv, EntriesInv
    <3>3. \A i \in DOMAIN ufd : ufd[i] \in Row
      BY RowsAre
    <3>4. /\ ufd'[realfd_ll[s].pfd].fd = ufd[realfd_ll[s].pfd].fd
          /\ ufd'[realfd_ll[s].pfd].of = realfd[ufd[realfd_ll[s].pfd].fd]
      BY <3>1, <3>3 DEF Row
    <3> QED BY <3>1, <3>2, <3>4
  <2> QED BY <2>1, <2>2 DEF ArrayInv
<1> QED BY <1>2, <1>3, <1>4 DEF LoopInv

LEMMA PollDoneKeeps == ASSUME LoopInv, PollDone PROVE LoopInv'
<1> USE DEF PollDone, server, apps
<1>0. ufd \in Seq(Row) /\ \A i \in DOMAIN ufd : ufd[i] \in Row
  BY RowsAre
<1>1. ufd' \in Seq(Row)
  <2>1. ASSUME NEW i \in DOMAIN ufd PROVE ufd'[i] \in Row
    <3>1. ufd[i] \in Row /\ ufd'[i] = [ufd[i] EXCEPT !.revents = Ready(ufd[i])]
      BY <1>0
    <3>2. Ready(ufd[i]) \in BOOLEAN
      BY DEF Ready
    <3> QED BY <3>1, <3>2 DEF Row
  <2>2. ufd' = [i \in DOMAIN ufd |-> ufd'[i]]
    OBVIOUS
  <2> QED BY <1>0, <2>1, <2>2
<1>2. LoopTypeOK'
  BY <1>1 DEF LoopInv, LoopTypeOK, Row
<1>3. EntriesInv'
  BY EntriesKept, NothingRecorded DEF LoopInv, EntriesInv
<1>4. ArrayInv'
  <2>1. requested \cap data \subseteq since
    BY DEF LoopInv, ArrayInv
  <2>2. ASSUME NEW s \in ToSet(used_list), realfd_ll[s].pfd # 0
        PROVE  LET e == realfd_ll[s]
               IN /\ e.poll /\ e.pfd \in DOMAIN ufd' /\ ufd'[e.pfd].fd = e.fd
                  /\ ufd'[e.pfd].of = e.kernfd
                  /\ ufd'[e.pfd].revents => e.kernfd \in since
    <3> DEFINE e == realfd_ll[s]
               u == ufd[e.pfd]
    <3>1. e.poll /\ e.pfd \in DOMAIN ufd /\ u.fd = e.fd /\ u.of = e.kernfd
      BY <2>2 DEF LoopInv, ArrayInv
    <3>2. /\ ufd'[e.pfd].fd = u.fd /\ ufd'[e.pfd].of = u.of
          /\ ufd'[e.pfd].revents <=> Ready(u)
      BY <1>0, <3>1 DEF Row
    <3>3. s \in Entries /\ Live(s)
      BY ListedAre
    <3>4. e.kernfd \in requested /\ e.kernfd # None
      BY <3>1, <3>3 DEF LoopInv, EntriesInv, Live
    <3> HIDE DEF e
    <3>5. Ready(u) => e.kernfd \in since
      BY <2>1, <3>1, <3>4 DEF Ready
    <3> QED BY <3>1, <3>2, <3>5 DEF e
  <2> QED BY <2>1, <2>2 DEF ArrayInv
<1> QED BY <1>2, <1>3, <1>4 DEF LoopInv

\* The array is made anew by the poll thread or at its signal.
LEMMA RebuildKeeps ==
  ASSUME LoopInv, Rebuild, UNCHANGED <<used_list, realfd, data, opened, waiting, requested, since>>,
         sleeping' \subseteq Files,
         \/ UNCHANGED <<main, fdptr>>
         \/ main # "close" /\ main' = "poll" /\ fdptr' = None
  PROVE  LoopInv'
<1>1. /\ SameEntries /\ ufd' \in Seq(Row) /\ pollthread' \in {"cond_wait", "unlocked"}
      /\ \A s \in ToSet(used_list) :
           LET e == realfd_ll'[s]
           IN e.pfd # 0 =>
                /\ e.poll
                /\ pollthread' # "cond_wait" => e.pfd \in DOMAIN ufd' /\ ufd'[e.pfd].fd = e.fd
  BY Rebuilt
<1>2. LoopTypeOK'
  BY <1>1 DEF LoopInv, LoopTypeOK, SameEntries, Row
<1>3. EntriesInv'
  BY <1>1, EntriesKept DEF LoopInv, EntriesInv
<1>4. ArrayInv'
  BY <1>1 DEF LoopInv, ArrayInv
<1> QED BY <1>2, <1>3, <1>4 DEF LoopInv

LEMMA PollAgainKeeps == ASSUME LoopInv, PollAgain PROVE LoopInv'
<1>1. sleeping' \subseteq Files
  BY DEF LoopInv, LoopTypeOK, PollAgain, apps
<1> QED BY <1>1, RebuildKeeps DEF PollAgain, server, apps

\* What is noted stays so while the array does, or poll is interrupted.
LEMMA ArrayKept ==
  ASSUME LoopInv, UNCHANGED <<realfd_ll, used_list, ufd, requested>>,
         pollthread' \in {pollthread, "interrupted"},
         pollthread' = "interrupted" => pollthread # "cond_wait",
         since \subseteq since', requested \cap data' \subseteq since'
  PROVE  ArrayInv'
BY DEF LoopInv, ArrayInv

LEMMA Found ==
  ASSUME LoopInv, NEW f \in opened, main = "poll"
  PROVE  /\ find_pos(f) \in ToSet(used_list) /\ find_pos(f) \in Entries
         /\ realfd_ll[find_pos(f)].kernfd = f
<1>1. \E s \in ToSet(used_list) : realfd_ll[s].kernfd = f
  BY DEF LoopInv, EntriesInv
<1>2. find_pos(f) \in ToSet(used_list) /\ realfd_ll[find_pos(f)].kernfd = f
  BY <1>1 DEF find_pos
<1> QED BY <1>2, ListedAre

\* Steps of applications and the device that leave the entries alone.
LEMMA QuietKeeps ==
  ASSUME LoopInv, UNCHANGED <<realfd_ll, used_list, poller, server, realfd, opened, requested>>,
         data' \cup waiting' \cup sleeping' \subseteq Files,
         since \subseteq since', since' \subseteq requested,
         requested \cap data' \subseteq since'
  PROVE  LoopInv'
<1> USE DEF poller, server
<1>1. LoopTypeOK'
  BY DEF LoopInv, LoopTypeOK
<1>2. EntriesInv'
  BY EntriesKept, NothingRecorded DEF LoopInv, EntriesInv
<1>3. ArrayInv'
  BY ArrayKept
<1> QED BY <1>1, <1>2, <1>3 DEF LoopInv

LEMMA QuietSteps ==
  ASSUME LoopInv, NEW f \in Files, Read(f) \/ PollWaiting(f) \/ Timeout(f) \/ Arrive(f)
  PROVE  LoopInv'
<1>1. /\ data \cup waiting \cup sleeping \subseteq Files
      /\ since \subseteq requested /\ requested \cap data \subseteq since
  BY DEF LoopInv, LoopTypeOK, ArrayInv
<1>2. CASE Read(f)
  BY <1>1, <1>2, QuietKeeps DEF Read, apps
<1>3. CASE PollWaiting(f)
  BY <1>1, <1>3, QuietKeeps DEF PollWaiting
<1>4. CASE Timeout(f)
  BY <1>1, <1>4, QuietKeeps DEF Timeout
<1>5. CASE Arrive(f)
  BY <1>1, <1>5, QuietKeeps DEF Arrive
<1> QED BY <1>2, <1>3, <1>4, <1>5

LEMMA PollTakenKeeps == ASSUME LoopInv, NEW f \in Files, PollTaken(f) PROVE LoopInv'
<1> USE DEF PollTaken, Takes, poller
<1>1. fdptr' \in ToSet(used_list) /\ fdptr' \in Entries
  BY Found
<1>2. LoopTypeOK'
  BY <1>1, ListedAre DEF LoopInv, LoopTypeOK
<1>3. EntriesInv'
  BY <1>1, EntriesKept, NothingRecorded
<1>4. ArrayInv'
  BY ArrayKept DEF LoopInv, ArrayInv
<1> QED BY <1>2, <1>3, <1>4 DEF LoopInv

LEMMA AnswerKeeps == ASSUME LoopInv, Answer PROVE LoopInv'
<1>0. /\ main = "answer" /\ main' = "poll" /\ fdptr' = None /\ PollSignal
      /\ UNCHANGED <<used_list, data, realfd, opened, waiting, requested, since>>
      /\ sleeping' \subseteq Files
  BY DEF Answer, LoopInv, LoopTypeOK
<1>1. CASE Rebuild
  BY <1>0, <1>1, RebuildKeeps
<1>2. CASE Sigpoll /\ UNCHANGED <<realfd_ll, ufd>>
  <2>1. /\ pollthread' \in {pollthread, "interrupted"}
        /\ pollthread' = "interrupted" => pollthread # "cond_wait"
    BY <1>2 DEF Sigpoll
  <2>2. LoopTypeOK'
    BY <1>0, <1>2, <2>1 DEF LoopInv, LoopTypeOK
  <2>3. EntriesInv'
    BY <1>0, <1>2, EntriesKept, NothingRecorded
  <2>4. ArrayInv'
    BY <1>0, <1>2, <2>1, ArrayKept DEF LoopInv, ArrayInv
  <2> QED BY <2>2, <2>3, <2>4 DEF LoopInv
<1> QED BY <1>0, <1>1, <1>2 DEF PollSignal

\* Marking an entry is a poll of its file.
LEMMA MarkKeeps == ASSUME LoopInv, Mark PROVE LoopInv'
<1> DEFINE f == realfd_ll[fdptr].kernfd
<1>0. /\ main = "mark" /\ main' = "answer"
      /\ realfd_ll' = [realfd_ll EXCEPT ![fdptr].poll = TRUE]
      /\ requested' = requested \cup {f} /\ since' = since \cup ({f} \cap data)
      /\ UNCHANGED <<used_list, ufd, pollthread, fdptr, realfd, data, opened, waiting, sleeping>>
  BY DEF Mark, poller
<1>1. fdptr \in ToSet(used_list) /\ fdptr \in Entries /\ f \in Files /\ Live(fdptr)
  BY <1>0, ListedAre DEF LoopInv, EntriesInv
<1>2. realfd_ll \in [Entries -> Entry]
  BY DEF LoopInv, LoopTypeOK
<1>3. /\ realfd_ll' \in [Entries -> Entry]
      /\ \A s \in Entries : /\ realfd_ll'[s].kernfd = realfd_ll[s].kernfd
                             /\ realfd_ll'[s].fd = realfd_ll[s].fd
                             /\ realfd_ll'[s].pfd = realfd_ll[s].pfd
                             /\ realfd_ll'[s].poll = (s = fdptr \/ realfd_ll[s].poll)
  BY <1>0, <1>1, <1>2 DEF Entry
<1>4. f \in opened
  BY <1>1 DEF LoopInv, EntriesInv
<1>5. LoopTypeOK'
  BY <1>0, <1>1, <1>3, <1>4 DEF LoopInv, LoopTypeOK
<1>6. EntriesInv'
  <2>1. \A s \in Entries : Live(s)' <=> Live(s)
    BY <1>3 DEF Live
  <2>2. requested' = {realfd_ll'[s].kernfd : s \in {t \in Entries : Live(t)' /\ realfd_ll'[t].poll}}
    <3>1. requested = {realfd_ll[s].kernfd : s \in {t \in Entries : Live(t) /\ realfd_ll[t].poll}}
      BY DEF LoopInv, EntriesInv
    <3>2. \A g \in requested' :
            \E s \in Entries : Live(s)' /\ realfd_ll'[s].poll /\ realfd_ll'[s].kernfd = g
      BY <1>0, <1>1, <1>3, <2>1, <3>1
    <3>3. \A s \in Entries : Live(s)' /\ realfd_ll'[s].poll => realfd_ll'[s].kernfd \in requested'
      BY <1>0, <1>1, <1>3, <2>1, <3>1
    <3> QED BY <3>2, <3>3
  <2>3. opened' = {realfd_ll'[s].kernfd : s \in {t \in Entries : Live(t)'}}
    BY <1>0, <1>3, <2>1 DEF LoopInv, EntriesInv
  <2>4. ToSet(used_list)' = ToSet(used_list) /\ IsInjective(used_list)'
    BY <1>0 DEF LoopInv, EntriesInv
  <2>5. \A s \in ToSet(used_list) : Live(s)'
    BY <2>1, ListedAre
  <2>6. ASSUME NEW s \in Entries, Live(s)'
        PROVE  /\ s \in ToSet(used_list)
               /\ realfd_ll'[s].fd \in Fds /\ realfd'[realfd_ll'[s].fd] = realfd_ll'[s].kernfd
               /\ \A t \in Entries : realfd_ll'[t].kernfd = realfd_ll'[s].kernfd => t = s
    BY <1>0, <1>3, <2>1, <2>6 DEF LoopInv, EntriesInv
  <2> QED BY <1>0, <1>1, <2>2, <2>3, <2>4, <2>5, <2>6 DEF EntriesInv
<1>7. ArrayInv'
  <2>1. requested' \cap data' \subseteq since'
    BY <1>0 DEF LoopInv, ArrayInv
  <2>2. ToSet(used_list) \subseteq Entries
    BY ListedAre
  <2>3. ASSUME NEW s \in ToSet(used_list), realfd_ll'[s].pfd # 0
        PROVE  LET e == realfd_ll'[s]
                   u == ufd[e.pfd]
               IN /\ e.poll
                  /\ pollthread # "cond_wait" => e.pfd \in DOMAIN ufd /\ u.fd = e.fd
                  /\ pollthread \in {"polling", "returned"} => u.of = e.kernfd
                  /\ pollthread = "returned" /\ u.revents => e.kernfd \in since
    BY <1>3, <2>2, <2>3 DEF LoopInv, ArrayInv
  <2> QED BY <1>0, <2>1, <2>3 DEF ArrayInv
<1> QED BY <1>5, <1>6, <1>7 DEF LoopInv

\* A new entry has neither the mark nor the place of its last user.
LEMMA OpenKeeps == ASSUME LoopInv, NEW f \in Files, Open(f) PROVE LoopInv'
<1> DEFINE U == ToSet(used_list)
<1>2. PICK n \in Entries : n = find_free /\ ~ Live(n)
  BY FreeIsFound DEF LoopInv, Open
<1>0. /\ main = "poll" /\ f \notin opened /\ used_list' = <<n>> \o used_list
      /\ opened' = opened \cup {f} /\ waiting' = {}
      /\ UNCHANGED <<ufd, pollthread, main, fdptr, data, sleeping, requested, since>>
  BY <1>2 DEF Open, poller, server
<1>1. PICK d \in Fds : /\ realfd[d] = None /\ realfd' = [realfd EXCEPT ![d] = f]
                       /\ realfd_ll' = [realfd_ll EXCEPT ![n] = NewEntry(f, d)]
  BY <1>2 DEF Open
<1>3. /\ realfd_ll \in [Entries -> Entry] /\ used_list \in Seq(Entries)
      /\ realfd \in [Fds -> Files \cup {None}] /\ f # None
  BY RequestLoopAssumption DEF LoopInv, LoopTypeOK
<1>4. U \subseteq Entries /\ n \notin U /\ IsInjective(used_list)
  BY <1>2, ListedAre DEF LoopInv, EntriesInv
<1>5. used_list' \in Seq(Entries) /\ IsInjective(used_list') /\ ToSet(used_list') = U \cup {n}
  BY <1>0, <1>2, <1>3, <1>4, PrependedTo
<1> HIDE DEF U
<1>6. NewEntry(f, d) \in Entry
  BY RequestLoopAssumption DEF NewEntry, Entry
<1>7. /\ realfd_ll' \in [Entries -> Entry] /\ realfd_ll'[n] = NewEntry(f, d)
      /\ \A s \in Entries : s # n => realfd_ll'[s] = realfd_ll[s]
  BY <1>1, <1>2, <1>3, <1>6
<1>8. /\ realfd_ll'[n].kernfd = f /\ realfd_ll'[n].fd = d /\ ~ realfd_ll'[n].poll
      /\ realfd_ll'[n].pfd = 0
  BY <1>7 DEF NewEntry
<1>9. /\ Live(n)' /\ \A s \in Entries : s # n => (Live(s)' <=> Live(s))
  BY <1>3, <1>7, <1>8 DEF Live
<1>10. /\ realfd' \in [Fds -> Files \cup {None}] /\ realfd'[d] = f
       /\ \A x \in Fds : x # d => realfd'[x] = realfd[x]
  BY <1>1, <1>3
<1>11. /\ opened = {realfd_ll[s].kernfd : s \in {t \in Entries : Live(t)}}
       /\ requested = {realfd_ll[s].kernfd : s \in {t \in Entries : Live(t) /\ realfd_ll[t].poll}}
       /\ \A s \in Entries : Live(s) =>
            /\ s \in U /\ realfd_ll[s].fd \in Fds /\ realfd[realfd_ll[s].fd] = realfd_ll[s].kernfd
            /\ \A t \in Entries : realfd_ll[t].kernfd = realfd_ll[s].kernfd => t = s
  BY <1>0 DEF LoopInv, EntriesInv, U
<1>12. LoopTypeOK'
  BY <1>0, <1>5, <1>7, <1>10 DEF LoopInv, LoopTypeOK
<1>13. EntriesInv'
  <2>1. opened' = {realfd_ll'[s].kernfd : s \in {t \in Entries : Live(t)'}}
    <3>1. \A g \in opened' : \E s \in Entries : Live(s)' /\ realfd_ll'[s].kernfd = g
      BY <1>0, <1>2, <1>7, <1>8, <1>9, <1>11
    <3>2. \A s \in Entries : Live(s)' => realfd_ll'[s].kernfd \in opened'
      BY <1>0, <1>7, <1>8, <1>9, <1>11
    <3> QED BY <3>1, <3>2
  <2>2. requested' = {realfd_ll'[s].kernfd : s \in {t \in Entries : Live(t)' /\ realfd_ll'[t].poll}}
    <3>1. \A g \in requested :
            \E s \in Entries : Live(s)' /\ realfd_ll'[s].poll /\ realfd_ll'[s].kernfd = g
      BY <1>2, <1>7, <1>9, <1>11
    <3>2. \A s \in Entries : Live(s)' /\ realfd_ll'[s].poll => realfd_ll'[s].kernfd \in requested
      BY <1>7, <1>8, <1>9, <1>11
    <3> QED BY <1>0, <3>1, <3>2
  <2>3. \A s \in ToSet(used_list') : Live(s)'
    <3>1. \A s \in U : Live(s) /\ s \in Entries /\ s # n
      BY <1>4, ListedAre DEF U
    <3> QED BY <1>5, <1>9, <3>1
  <2>4. ASSUME NEW s \in Entries, Live(s)'
        PROVE  /\ s \in ToSet(used_list')
               /\ realfd_ll'[s].fd \in Fds /\ realfd'[realfd_ll'[s].fd] = realfd_ll'[s].kernfd
               /\ \A t \in Entries : realfd_ll'[t].kernfd = realfd_ll'[s].kernfd => t = s
    <3>1. CASE s = n
      <4>1. \A t \in Entries : t # n => realfd_ll'[t].kernfd # f
        BY <1>0, <1>3, <1>7, <1>11 DEF Live
      <4> QED BY <1>5, <1>8, <1>10, <3>1, <4>1
    <3>2. CASE s # n
      <4>1. /\ Live(s) /\ realfd_ll'[s] = realfd_ll[s] /\ s \in U
            /\ realfd_ll[s].kernfd \in opened /\ realfd_ll[s].kernfd # None
        BY <1>7, <1>9, <1>11, <2>4, <3>2 DEF Live
      <4>2. realfd_ll[s].fd \in Fds /\ realfd_ll[s].fd # d
        BY <1>1, <1>11, <4>1
      <4>3. \A t \in Entries : realfd_ll'[t].kernfd = realfd_ll'[s].kernfd => t = s
        BY <1>0, <1>7, <1>8, <1>11, <4>1
      <4> QED BY <1>5, <1>10, <1>11, <4>1, <4>2, <4>3
    <3> QED BY <3>1, <3>2
  <2> QED BY <1>0, <1>5, <2>1, <2>2, <2>3, <2>4 DEF EntriesInv
<1>14. ArrayInv'
  <2>1. requested' \cap data' \subseteq since'
    BY <1>0 DEF LoopInv, ArrayInv
  <2>2. ASSUME NEW s \in U \cup {n}, realfd_ll'[s].pfd # 0
        PROVE  LET e == realfd_ll'[s]
                   u == ufd[e.pfd]
               IN /\ e.poll
                  /\ pollthread # "cond_wait" => e.pfd \in DOMAIN ufd /\ u.fd = e.fd
                  /\ pollthread \in {"polling", "returned"} => u.of = e.kernfd
                  /\ pollthread = "returned" /\ u.revents => e.kernfd \in since
    <3>1. s \in U /\ realfd_ll'[s] = realfd_ll[s]
      BY <1>4, <1>7, <1>8, <2>2
    <3> QED BY <2>2, <3>1 DEF LoopInv, ArrayInv, U
  <2> QED BY <1>0, <1>5, <2>1, <2>2 DEF ArrayInv
<1> QED BY <1>12, <1>13, <1>14 DEF LoopInv

LEMMA CloseTakenKeeps == ASSUME LoopInv, NEW f \in Files, CloseTaken(f) PROVE LoopInv'
<1> DEFINE U == ToSet(used_list)
<1>0. /\ main = "poll" /\ main' = "close" /\ used_list' = RemoveFirst(used_list, fdptr')
      /\ f \in opened /\ fdptr' = find_pos(f) /\ Sigpoll
      /\ UNCHANGED <<realfd_ll, ufd, realfd, data, opened, waiting, sleeping, requested, since>>
  BY DEF CloseTaken, Takes, apps
<1>1. fdptr' \in U /\ fdptr' \in Entries
  BY <1>0, Found
<1>2. /\ used_list' \in Seq(Entries) /\ IsInjective(used_list')
      /\ ToSet(used_list') = U \ {fdptr'}
  BY <1>0, RemovedFirst DEF LoopInv, LoopTypeOK, EntriesInv
<1>3. /\ pollthread' \in {pollthread, "interrupted"}
      /\ pollthread' = "interrupted" => pollthread # "cond_wait"
  BY <1>0 DEF Sigpoll
<1> HIDE DEF U
<1>4. LoopTypeOK'
  BY <1>0, <1>1, <1>2, <1>3, ListedAre DEF LoopInv, LoopTypeOK
<1>5. EntriesInv'
  <2>1. \A s \in Entries : Live(s)' <=> Live(s)
    BY <1>0 DEF Live
  <2>2. \A s \in Entries : Live(s) =>
          /\ s \in U /\ realfd_ll[s].fd \in Fds /\ realfd[realfd_ll[s].fd] = realfd_ll[s].kernfd
          /\ \A t \in Entries : realfd_ll[t].kernfd = realfd_ll[s].kernfd => t = s
    BY <1>0 DEF LoopInv, EntriesInv, U
  <2>3. /\ opened' = {realfd_ll'[s].kernfd : s \in {t \in Entries : Live(t)'}}
        /\ requested' = {realfd_ll'[s].kernfd : s \in {t \in Entries : Live(t)' /\ realfd_ll'[t].poll}}
    BY <1>0, <2>1 DEF LoopInv, EntriesInv
  <2>4. U \subseteq Entries /\ \A s \in U : Live(s)
    BY ListedAre DEF U
  <2> QED BY <1>0, <1>1, <1>2, <2>1, <2>2, <2>3, <2>4 DEF EntriesInv
<1>6. ArrayInv'
  BY <1>0, <1>2, <1>3 DEF LoopInv, ArrayInv, U
<1> QED BY <1>4, <1>5, <1>6 DEF LoopInv

\* The entry is free again; a poll that is under way has its file still.
LEMMA CloseKeeps == ASSUME LoopInv, Close PROVE LoopInv'
<1>a. PICK n \in Entries : n = fdptr
  BY RequestLoopAssumption DEF Close, LoopInv, LoopTypeOK
<1>b. PICK f : f = realfd_ll[n].kernfd
  OBVIOUS
<1> DEFINE U == ToSet(used_list)
<1>0. /\ main = "close" /\ main' = "poll" /\ fdptr' = None
      /\ realfd' = [realfd EXCEPT ![realfd_ll[n].fd] = None]
      /\ ufd' = [i \in DOMAIN ufd |-> IF ufd[i].of = f THEN [ufd[i] EXCEPT !.of = Gone] ELSE ufd[i]]
      /\ realfd_ll' = [realfd_ll EXCEPT ![n].kernfd = None, ![n].fd = None]
      /\ data' = data \ {f} /\ opened' = opened \ {f} /\ waiting' = {}
      /\ requested' = requested \ {f} /\ since' = since \ {f}
      /\ UNCHANGED <<used_list, pollthread, sleeping>>
  BY <1>a, <1>b DEF Close
<1>1. /\ n \in Entries /\ Live(n) /\ n \notin U /\ U \subseteq Entries
      /\ \A s \in Entries : Live(s) =>
           /\ s # n => s \in U
           /\ realfd_ll[s].fd \in Fds /\ realfd[realfd_ll[s].fd] = realfd_ll[s].kernfd
           /\ \A t \in Entries : realfd_ll[t].kernfd = realfd_ll[s].kernfd => t = s
      /\ \A s \in U : Live(s)
  BY <1>0, <1>a, ListedAre DEF LoopInv, LoopTypeOK, EntriesInv
<1>2. /\ realfd_ll \in [Entries -> Entry] /\ realfd \in [Fds -> Files \cup {None}]
  BY DEF LoopInv, LoopTypeOK
<1> HIDE DEF U
<1>3. /\ realfd_ll' \in [Entries -> Entry] /\ realfd_ll'[n].kernfd = None
      /\ \A s \in Entries : s # n => realfd_ll'[s] = realfd_ll[s]
  <2>1. realfd_ll'[n] = [realfd_ll[n] EXCEPT !.kernfd = None, !.fd = None]
    BY <1>0, <1>2
  <2>2. \A s \in Entries : s # n => realfd_ll'[s] = realfd_ll[s]
    BY <1>0, <1>2
  <2>3. realfd_ll'[n] \in Entry /\ realfd_ll'[n].kernfd = None
    BY <1>2, <2>1 DEF Entry
  <2>4. realfd_ll' = [s \in Entries |-> realfd_ll'[s]]
    BY <1>0, <1>2
  <2> QED BY <1>2, <2>2, <2>3, <2>4
<1>4. ~ Live(n)' /\ \A s \in Entries : s # n => (Live(s)' <=> Live(s))
  BY <1>3 DEF Live
<1>5. /\ \A s \in U : realfd_ll[s].kernfd # f /\ s \in Entries /\ s # n
  BY <1>1, <1>b
<1>6. ufd' \in Seq(Row)
  <2>1. ASSUME NEW i \in DOMAIN ufd PROVE ufd'[i] \in Row
    <3>1. ufd[i] \in Row /\ ufd'[i] = IF ufd[i].of = f THEN [ufd[i] EXCEPT !.of = Gone] ELSE ufd[i]
      BY <1>0, RowsAre
    <3> QED BY <3>1 DEF Row
  <2>2. ufd' = [i \in DOMAIN ufd |-> ufd'[i]]
    BY <1>0
  <2> QED BY <2>1, <2>2, RowsAre
<1>7. LoopTypeOK'
  <2>1. realfd' \in [Fds -> Files \cup {None}]
    BY <1>0, <1>2
  <2> QED BY <1>0, <1>3, <1>6, <2>1 DEF LoopInv, LoopTypeOK, Row
<1>8. EntriesInv'
  <2>1. ASSUME NEW s \in Entries, Live(s)'
        PROVE  /\ s \in U /\ realfd_ll'[s].fd \in Fds
               /\ realfd'[realfd_ll'[s].fd] = realfd_ll'[s].kernfd
               /\ \A t \in Entries : realfd_ll'[t].kernfd = realfd_ll'[s].kernfd => t = s
    <3>1. /\ s # n /\ Live(s) /\ realfd_ll'[s] = realfd_ll[s] /\ s \in U
          /\ realfd_ll[s].fd \in Fds /\ realfd[realfd_ll[s].fd] = realfd_ll[s].kernfd
          /\ realfd_ll[s].kernfd # f /\ realfd_ll[s].kernfd # None
      BY <1>1, <1>3, <1>4, <1>5, <2>1 DEF Live
    <3>2. realfd_ll[n].fd \in Fds /\ realfd[realfd_ll[n].fd] = f
      BY <1>1, <1>b
    <3>3. realfd'[realfd_ll[s].fd] = realfd_ll[s].kernfd
      BY <1>0, <1>2, <3>1, <3>2
    <3>4. ASSUME NEW t \in Entries, realfd_ll'[t].kernfd = realfd_ll'[s].kernfd PROVE t = s
      BY <1>1, <1>3, <3>1, <3>4
    <3> QED BY <3>1, <3>3, <3>4
  <2>2. opened' = {realfd_ll'[s].kernfd : s \in {t \in Entries : Live(t)'}}
    <3>1. opened = {realfd_ll[s].kernfd : s \in {t \in Entries : Live(t)}}
      BY DEF LoopInv, EntriesInv
    <3>2. \A g \in opened' : \E s \in Entries : Live(s)' /\ realfd_ll'[s].kernfd = g
      BY <1>0, <1>3, <1>4, <1>b, <3>1
    <3>3. \A s \in Entries : Live(s)' => realfd_ll'[s].kernfd \in opened'
      BY <1>0, <1>3, <1>4, <1>5, <2>1, <3>1
    <3> QED BY <3>2, <3>3
  <2>3. requested' = {realfd_ll'[s].kernfd : s \in {t \in Entries : Live(t)' /\ realfd_ll'[t].poll}}
    <3>1. requested = {realfd_ll[s].kernfd : s \in {t \in Entries : Live(t) /\ realfd_ll[t].poll}}
      BY DEF LoopInv, EntriesInv
    <3>2. \A g \in requested' :
            \E s \in Entries : Live(s)' /\ realfd_ll'[s].poll /\ realfd_ll'[s].kernfd = g
      BY <1>0, <1>3, <1>4, <1>b, <3>1
    <3>3. \A s \in Entries : Live(s)' /\ realfd_ll'[s].poll => realfd_ll'[s].kernfd \in requested'
      BY <1>0, <1>3, <1>4, <1>5, <2>1, <3>1
    <3> QED BY <3>2, <3>3
  <2>4. ToSet(used_list') = U /\ IsInjective(used_list') /\ \A s \in U : Live(s)'
    BY <1>0, <1>1, <1>4, <1>5 DEF LoopInv, EntriesInv, U
  <2> QED BY <1>0, <2>1, <2>2, <2>3, <2>4 DEF EntriesInv
<1>9. ArrayInv'
  <2>1. requested' \cap data' \subseteq since'
    BY <1>0 DEF LoopInv, ArrayInv
  <2>2. ASSUME NEW s \in U, realfd_ll'[s].pfd # 0
        PROVE  LET e == realfd_ll'[s]
                   u == ufd'[e.pfd]
               IN /\ e.poll
                  /\ pollthread # "cond_wait" => e.pfd \in DOMAIN ufd' /\ u.fd = e.fd
                  /\ pollthread \in {"polling", "returned"} => u.of = e.kernfd
                  /\ pollthread = "returned" /\ u.revents => e.kernfd \in since'
    <3> DEFINE e == realfd_ll[s]
               u == ufd[e.pfd]
    <3>1. realfd_ll'[s] = e /\ e.kernfd # f
      BY <1>3, <1>5
    <3>2. /\ e.poll
          /\ pollthread # "cond_wait" => e.pfd \in DOMAIN ufd /\ u.fd = e.fd
          /\ pollthread \in {"polling", "returned"} => u.of = e.kernfd
          /\ pollthread = "returned" /\ u.revents => e.kernfd \in since
      BY <2>2, <3>1 DEF LoopInv, ArrayInv, U
    <3>3. ASSUME e.pfd \in DOMAIN ufd
          PROVE  /\ e.pfd \in DOMAIN ufd' /\ ufd'[e.pfd].fd = u.fd
                 /\ u.of # f => ufd'[e.pfd] = u
      BY <1>0, <3>3, RowsAre DEF Row
    <3>4. e.poll /\ (pollthread # "cond_wait" => e.pfd \in DOMAIN ufd' /\ ufd'[e.pfd].fd = e.fd)
      BY <3>2, <3>3
    <3>5. CASE pollthread \in {"polling", "returned"}
      <4>1. ufd'[e.pfd] = u /\ u.of = e.kernfd
        BY <3>1, <3>2, <3>3, <3>5
      <4>2. pollthread = "returned" /\ u.revents => e.kernfd \in since'
        BY <1>0, <3>1, <3>2
      <4> HIDE DEF e, u
      <4> QED BY <3>1, <3>4, <4>1, <4>2
    <3>6. CASE pollthread \notin {"polling", "returned"}
      BY <3>1, <3>4, <3>6
    <3> QED BY <3>5, <3>6
  <2> QED BY <1>0, <2>1, <2>2 DEF ArrayInv, U
<1> QED BY <1>7, <1>8, <1>9 DEF LoopInv

LEMMA ReportedAre ==
  ASSUME LoopInv, pollthread = "returned"
  PROVE  /\ Reported \subseteq ToSet(used_list) /\ Msg \subseteq since
         /\ \A s \in Reported : s \in Entries /\ Live(s) /\ realfd_ll[s].poll
<1>1. ASSUME NEW s \in Reported
      PROVE  /\ s \in ToSet(used_list) /\ realfd_ll[s].kernfd \in since
             /\ s \in Entries /\ Live(s) /\ realfd_ll[s].poll
  BY ListedAre DEF Reported, LoopInv, ArrayInv
<1> QED BY <1>1 DEF Msg

\* What is reported is asked for no more.
LEMMA ReportKeeps == ASSUME LoopInv, Report PROVE LoopInv'
<1> DEFINE U == ToSet(used_list)
<1>a. PICK R : R = Reported
  OBVIOUS
<1>b. PICK M : M = Msg
  OBVIOUS
<1>0. /\ pollthread = "returned" /\ pollthread' = "cond_wait" /\ ufd' = <<>>
      /\ realfd_ll' = [s \in Entries |-> IF s \in R THEN Forgets(realfd_ll[s]) ELSE realfd_ll[s]]
      /\ requested' = requested \ M /\ since' = since \ M
      /\ waiting' = waiting \ M /\ sleeping' = sleeping \ M
      /\ UNCHANGED <<used_list, main, fdptr, realfd, data, opened>>
  BY <1>a, <1>b DEF Report, server
<1>1. /\ M = {realfd_ll[s].kernfd : s \in R} /\ R \subseteq Entries
      /\ \A s \in R : Live(s) /\ realfd_ll[s].poll
  BY <1>0, <1>a, <1>b, ReportedAre DEF Msg
<1>2. realfd_ll \in [Entries -> Entry]
  BY DEF LoopInv, LoopTypeOK
<1>3. /\ realfd_ll' \in [Entries -> Entry]
      /\ \A s \in Entries :
           /\ realfd_ll'[s].kernfd = realfd_ll[s].kernfd /\ realfd_ll'[s].fd = realfd_ll[s].fd
           /\ realfd_ll'[s].poll <=> realfd_ll[s].poll /\ s \notin R
           /\ realfd_ll'[s].pfd # 0 => s \notin R /\ realfd_ll'[s] = realfd_ll[s]
  <2>1. ASSUME NEW s \in Entries
        PROVE  /\ realfd_ll'[s] \in Entry
               /\ realfd_ll'[s].kernfd = realfd_ll[s].kernfd /\ realfd_ll'[s].fd = realfd_ll[s].fd
               /\ realfd_ll'[s].poll <=> realfd_ll[s].poll /\ s \notin R
               /\ realfd_ll'[s].pfd # 0 => s \notin R /\ realfd_ll'[s] = realfd_ll[s]
    <3>1. realfd_ll[s] \in Entry
      BY <1>2
    <3>2. CASE s \in R
      <4>1. realfd_ll'[s] = [realfd_ll[s] EXCEPT !.poll = FALSE, !.pfd = 0]
        BY <1>0, <3>2 DEF Forgets
      <4>2. /\ realfd_ll'[s].kernfd = realfd_ll[s].kernfd /\ realfd_ll'[s].fd = realfd_ll[s].fd
            /\ realfd_ll'[s].poll = FALSE /\ realfd_ll'[s].pfd = 0
        BY <3>1, <4>1 DEF Entry
      <4>3. realfd_ll'[s] \in Entry
        <5>1. 0 \in 0 .. MaxEntries
          BY RequestLoopAssumption
        <5> QED BY <3>1, <4>1, <5>1 DEF Entry
      <4> QED BY <3>2, <4>2, <4>3
    <3>3. CASE s \notin R
      <4>1. realfd_ll'[s] = realfd_ll[s]
        BY <1>0, <3>3
      <4> QED BY <3>1, <3>3, <4>1
    <3> QED BY <3>2, <3>3
  <2>2. realfd_ll' = [s \in Entries |-> realfd_ll'[s]]
    BY <1>0
  <2> QED BY <2>1, <2>2
<1>4. \A s \in Entries : Live(s)' <=> Live(s)
  BY <1>3 DEF Live
<1>5. LoopTypeOK'
  BY <1>0, <1>3 DEF LoopInv, LoopTypeOK
<1>6. EntriesInv'
  <2>1. opened' = {realfd_ll'[s].kernfd : s \in {t \in Entries : Live(t)'}}
    BY <1>0, <1>3, <1>4 DEF LoopInv, EntriesInv
  <2>2. requested' = {realfd_ll'[s].kernfd : s \in {t \in Entries : Live(t)' /\ realfd_ll'[t].poll}}
    <3>1. /\ requested = {realfd_ll[s].kernfd : s \in {t \in Entries : Live(t) /\ realfd_ll[t].poll}}
          /\ \A s, t \in Entries :
                Live(s) /\ realfd_ll[t].kernfd = realfd_ll[s].kernfd => t = s
      BY DEF LoopInv, EntriesInv
    <3>2. \A g \in requested' :
            \E s \in Entries : Live(s)' /\ realfd_ll'[s].poll /\ realfd_ll'[s].kernfd = g
      BY <1>0, <1>1, <1>3, <1>4, <3>1
    <3>3. \A s \in Entries : Live(s)' /\ realfd_ll'[s].poll => realfd_ll'[s].kernfd \in requested'
      BY <1>0, <1>1, <1>3, <1>4, <3>1
    <3> QED BY <3>2, <3>3
  <2>3. ToSet(used_list') = U /\ IsInjective(used_list') /\ \A s \in U : Live(s)'
    BY <1>0, <1>4, ListedAre DEF LoopInv, EntriesInv
  <2>4. ASSUME NEW s \in Entries, Live(s)'
        PROVE  /\ s \in U <=> (main' = "close" => s # fdptr')
               /\ realfd_ll'[s].fd \in Fds /\ realfd'[realfd_ll'[s].fd] = realfd_ll'[s].kernfd
               /\ \A t \in Entries : realfd_ll'[t].kernfd = realfd_ll'[s].kernfd => t = s
    BY <1>0, <1>3, <1>4, <2>4 DEF LoopInv, EntriesInv
  <2>5. /\ main' = "close" => Live(fdptr)'
        /\ main' \in {"mark", "answer"} => fdptr' \in U
    <3>1. main = "close" => fdptr \in Entries
      BY RequestLoopAssumption DEF LoopInv, LoopTypeOK
    <3>2. main = "close" => realfd_ll'[fdptr].kernfd = realfd_ll[fdptr].kernfd
      BY <1>3, <3>1
    <3> QED BY <1>0, <3>2 DEF LoopInv, EntriesInv, Live
  <2> HIDE DEF U
  <2> QED BY <2>1, <2>2, <2>3, <2>4, <2>5 DEF EntriesInv
<1>7. ArrayInv'
  <2>1. requested' \cap data' \subseteq since'
    BY <1>0 DEF LoopInv, ArrayInv
  <2>2. ASSUME NEW s \in U, realfd_ll'[s].pfd # 0 PROVE realfd_ll'[s].poll
    <3>1. s \in Entries
      BY ListedAre
    <3> QED BY <1>3, <2>2, <3>1 DEF LoopInv, ArrayInv
  <2> QED BY <1>0, <2>1, <2>2 DEF ArrayInv
<1> QED BY <1>5, <1>6, <1>7 DEF LoopInv

LEMMA LoopStands == LoopInv /\ [LoopNext]_loopVars => LoopInv'
<1> SUFFICES ASSUME LoopInv, [LoopNext]_loopVars PROVE LoopInv'
  OBVIOUS
<1>1. CASE PollEnter
  BY <1>1, PollEnterKeeps
<1>2. CASE PollDone
  BY <1>2, PollDoneKeeps
<1>3. CASE PollAgain
  BY <1>3, PollAgainKeeps
<1>4. CASE Report
  BY <1>4, ReportKeeps
<1>5. CASE Close
  BY <1>5, CloseKeeps
<1>6. CASE Mark
  BY <1>6, MarkKeeps
<1>7. CASE Answer
  BY <1>7, AnswerKeeps
<1>8. ASSUME NEW f \in Files, Open(f) PROVE LoopInv'
  BY <1>8, OpenKeeps
<1>9. ASSUME NEW f \in Files, CloseTaken(f) PROVE LoopInv'
  BY <1>9, CloseTakenKeeps
<1>10. ASSUME NEW f \in Files, PollTaken(f) PROVE LoopInv'
  BY <1>10, PollTakenKeeps
<1>11. ASSUME NEW f \in Files, Read(f) \/ PollWaiting(f) \/ Timeout(f) \/ Arrive(f)
       PROVE  LoopInv'
  BY <1>11, QuietSteps
<1>12. CASE UNCHANGED loopVars
  <2>1. /\ data \cup waiting \cup sleeping \subseteq Files
        /\ since \subseteq requested /\ requested \cap data \subseteq since
    BY DEF LoopInv, LoopTypeOK, ArrayInv
  <2> QED BY <1>12, <2>1, QuietKeeps DEF loopVars, apps
<1> QED BY <1>1, <1>2, <1>3, <1>4, <1>5, <1>6, <1>7, <1>8, <1>9, <1>10, <1>11, <1>12
        DEF LoopNext, Poller, Server, Application

\* The invariant of the two threads: types, what the entries in use are, and which
\* of them a place in poll's array is noted for.
THEOREM EntriesAreOfFiles == LoopSpec => [](LoopTypeOK /\ EntriesInv /\ ArrayInv)
<1> QED BY LoopBegins, LoopStands, PTL DEF LoopSpec, LoopInv

\* When poll_loop looks at what poll returned, the place an entry has noted is in
\* the array of this round, and has the entry's number.
THEOREM PlacesAreOfRound == LoopSpec => []PfdInArray
<1>1. LoopInv => PfdInArray
  BY DEF LoopInv, ArrayInv, PfdInArray
<1> QED BY <1>1, LoopBegins, LoopStands, PTL DEF LoopSpec

\* Only files are reported that were polled without success and had data then:
\* not the next user of an entry or of a number.
THEOREM ReportsAreNews == LoopSpec => ReportsNews
<1>1. LoopInv /\ [LoopNext]_loopVars => [Report => Msg \subseteq since]_loopVars
  BY ReportedAre DEF Report
<1> QED BY <1>1, LoopBegins, LoopStands, PTL DEF LoopSpec, ReportsNews
==============================================================================
