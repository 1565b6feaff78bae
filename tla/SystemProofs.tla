---------------------------- MODULE SystemProofs ----------------------------
(***************************************************************************)
(* 01_processes/process_demo.c, 04_signals/signal_demo.c,                  *)
(* 08_timers/timer_demo.c and 07_networking/udp_demo.c, proved with TLAPS: *)
(* whose child a wait collects and whose output is shown, over any number  *)
(* of runs that may be killed; the count of the signals handled, whatever  *)
(* signals come from outside; the expirations of the three kinds of timer; *)
(* and the order of the echoes, whatever datagrams are lost.               *)
(***************************************************************************)
EXTENDS ProcessDemo, SignalDemo, TimerDemo, UdpEcho, TLAPS

-----------------------------------------------------------------------------
(* process_demo.c *)

\* What a child is from its fork to the wait that collects it.
Uncollected == {"running", "execed", "written", "zombie"}

\* How far the parent is, and which children it has: none of the first three demos
\* leaves one, a demo not yet begun has none, and wait(NULL) is called by a demo whose
\* own child is uncollected (or, where main's fork has failed, at the very end).
DemosInv ==
    /\ d \in 1 .. 6 /\ proc \in [Process -> {"none", "reaped"} \cup Uncollected]
    /\ parent \in {"shm_open", "fork", "waitpid", "wait", "suspended", "poll", "mmap", "unlink", "exit"}
    /\ d > 1 => proc["fork_wait"] \notin Uncollected
    /\ d > 2 => proc["exec"] \notin Uncollected
    /\ d > 3 => proc["vfork"] \notin Uncollected
    /\ d < 2 => proc["exec"] = "none"
    /\ d < 3 => proc["vfork"] = "none"
    /\ d < 4 => proc["nohang"] = "none"
    /\ d < 5 => proc["zombie"] = "none"
    /\ d < 6 => proc["wrapper"] = "none"
    /\ parent \in {"shm_open", "fork"} /\ d = 2 => proc["exec"] = "none"
    /\ parent \in {"shm_open", "fork"} /\ d = 3 => proc["vfork"] = "none"
    /\ parent = "waitpid" => d \in {1, 6}
    /\ parent = "wait" => d \in {2, 3, 6}
    /\ parent = "wait" /\ d = 2 => proc["exec"] \in Uncollected
    /\ parent = "wait" /\ d = 3 => proc["vfork"] \in Uncollected
    /\ parent = "suspended" => d = 3 /\ proc["vfork"] = "running"
    /\ parent \in {"mmap", "unlink"} => d = 3 /\ proc["vfork"] = "reaped"
    /\ parent = "poll" => d = 4

\* As long as every run has unlinked /test, the name exists in demo_vfork alone and
\* holds nothing but what that run's ls has written.
OutputInv ==
    /\ failed \in BOOLEAN
    /\ ~failed => /\ shm \in {"none", "empty", "ls"} /\ shown \notin {"old", "ls over old"}
                  /\ shm # "none" => d = 3 /\ parent \in {"fork", "suspended", "wait", "mmap", "unlink"}

ProcessInv == DemosInv /\ OutputInv

\* The order in which main runs the demos.
LEMMA DemoOrder ==
    /\ Demos[1] = "fork_wait" /\ Demos[2] = "exec" /\ Demos[3] = "vfork" /\ Demos[4] = "nohang"
    /\ Demos[5] = "zombie" /\ Demos[6] = "wrapper" /\ Len(Demos) = 6
    /\ First(1) = "fork" /\ First(2) = "fork" /\ First(3) = "shm_open" /\ First(4) = "fork"
    /\ First(5) = "fork" /\ First(6) = "fork"
BY Zenon DEF Demos, First

\* Where main goes when a demo returns.
LEMMA AdvanceGoes ==
    ASSUME d \in 1 .. 6, Advance
    PROVE  \/ d = 1 /\ d' = 2 /\ parent' = "fork"
           \/ d = 2 /\ d' = 3 /\ parent' = "shm_open"
           \/ d = 3 /\ d' = 4 /\ parent' = "fork"
           \/ d = 4 /\ d' = 5 /\ parent' = "fork"
           \/ d = 5 /\ d' = 6 /\ parent' = "fork"
           \/ d = 6 /\ d' = 6 /\ parent' = "exit"
BY DemoOrder DEF Advance

\* The program starts with no child and no /test.
LEMMA InitProcessInv == ProcessInit => ProcessInv
<1> SUFFICES ASSUME ProcessInit PROVE ProcessInv
  BY Zenon
<1>1. DemosInv
  BY DemoOrder DEF ProcessInit, DemosInv, Uncollected, Process, Mine
<1>2. OutputInv
  BY Zenon DEF ProcessInit, OutputInv
<1> QED BY <1>1, <1>2, Zenon DEF ProcessInv

\* The parent's steps in terms of the demo it is in.
LEMMA DemoSteps ==
    ASSUME DemosInv
    PROVE  /\ ShmOpen \/ ShmOpenFails => parent = "shm_open" /\ d = 3
           /\ Fork => \/ d \in {1, 6} /\ parent' = "waitpid" /\ d' = d
                      \/ d = 2 /\ parent' = "wait" /\ d' = d
                      \/ d = 3 /\ parent' = "suspended" /\ d' = d
                      \/ d = 4 /\ parent' = "poll" /\ d' = d
                      \/ d = 5 /\ parent' = "fork" /\ d' = 6
           /\ ForkFails => \/ d = 1 /\ parent' = "exit" /\ d' = d
                           \/ d = 2 /\ parent' = "shm_open" /\ d' = 3
                           \/ d = 3 /\ parent' = "fork" /\ d' = 4 /\ failed'
                           \/ d = 4 /\ parent' = "fork" /\ d' = 5
                           \/ d = 5 /\ parent' = "fork" /\ d' = 6
                           \/ d = 6 /\ parent' = "wait" /\ d' = d
           /\ WaitPid => \/ d = 1 /\ parent' = "fork" /\ d' = 2
                         \/ d = 6 /\ parent' = "exit" /\ d' = d
           /\ Wait => \/ d = 2 /\ parent' = "shm_open" /\ d' = 3
                      \/ d = 3 /\ parent' = "mmap" /\ d' = d
                      \/ d = 6 /\ parent' = "exit" /\ d' = d
           /\ Poll => d = 4 /\ ((parent' = "poll" /\ d' = 4) \/ (parent' = "fork" /\ d' = 5))
<1>0. d \in 1 .. 6
  BY Zenon DEF DemosInv
<1>a. d = 1 \/ d = 2 \/ d = 3 \/ d = 4 \/ d = 5 \/ d = 6
  BY <1>0
<1>1. ShmOpen \/ ShmOpenFails => parent = "shm_open" /\ d = 3
  BY <1>a, DemoOrder, Zenon DEF ShmOpen, ShmOpenFails, At
<1>2. ASSUME Fork
      PROVE  \/ d \in {1, 6} /\ parent' = "waitpid" /\ d' = d
             \/ d = 2 /\ parent' = "wait" /\ d' = d
             \/ d = 3 /\ parent' = "suspended" /\ d' = d
             \/ d = 4 /\ parent' = "poll" /\ d' = d
             \/ d = 5 /\ parent' = "fork" /\ d' = 6
  <2>1. CASE d = 5
    <3>1. Advance
      BY <1>2, <2>1, DemoOrder, Zenon DEF Fork, AfterFork
    <3> QED BY <1>0, <2>1, <3>1, AdvanceGoes
  <2> QED BY <1>a, <1>2, <2>1, DemoOrder, Zenon DEF Fork, AfterFork
<1>3. ASSUME ForkFails
      PROVE  \/ d = 1 /\ parent' = "exit" /\ d' = d
             \/ d = 2 /\ parent' = "shm_open" /\ d' = 3
             \/ d = 3 /\ parent' = "fork" /\ d' = 4 /\ failed'
             \/ d = 4 /\ parent' = "fork" /\ d' = 5
             \/ d = 5 /\ parent' = "fork" /\ d' = 6
             \/ d = 6 /\ parent' = "wait" /\ d' = d
  <2>1. d \in {2, 3, 4, 5} => Advance
    BY <1>3, DemoOrder, Zenon DEF ForkFails
  <2>2. d \in {2, 3, 4, 5} => \/ d = 2 /\ parent' = "shm_open" /\ d' = 3
                              \/ d = 3 /\ parent' = "fork" /\ d' = 4
                              \/ d = 4 /\ parent' = "fork" /\ d' = 5
                              \/ d = 5 /\ parent' = "fork" /\ d' = 6
    BY <1>0, <2>1, AdvanceGoes
  <2>3. d = 3 => failed'
    BY <1>3, DemoOrder, Zenon DEF ForkFails
  <2>4. (d = 1 => parent' = "exit" /\ d' = d) /\ (d = 6 => parent' = "wait" /\ d' = d)
    BY <1>3, DemoOrder, Zenon DEF ForkFails
  <2> QED BY <1>a, <2>2, <2>3, <2>4, Zenon
<1>4. ASSUME WaitPid
      PROVE  \/ d = 1 /\ parent' = "fork" /\ d' = 2
             \/ d = 6 /\ parent' = "exit" /\ d' = d
  <2>1. d \in {1, 6}
    BY <1>4, Zenon DEF WaitPid, DemosInv
  <2>2. Advance
    BY <1>4, <2>1, DemoOrder, Zenon DEF WaitPid, AfterWait
  <2> QED BY <1>0, <2>1, <2>2, AdvanceGoes
<1>5. ASSUME Wait
      PROVE  \/ d = 2 /\ parent' = "shm_open" /\ d' = 3
             \/ d = 3 /\ parent' = "mmap" /\ d' = d
             \/ d = 6 /\ parent' = "exit" /\ d' = d
  <2>1. d \in {2, 3, 6}
    BY <1>5, Zenon DEF Wait, DemosInv
  <2>2. d \in {2, 6} => Advance
    BY <1>5, DemoOrder, Zenon DEF Wait, AfterWait
  <2>3. d = 3 => parent' = "mmap" /\ d' = d
    BY <1>5, DemoOrder, Zenon DEF Wait, AfterWait
  <2> QED BY <1>0, <2>1, <2>2, <2>3, AdvanceGoes
<1>6. ASSUME Poll PROVE d = 4 /\ ((parent' = "poll" /\ d' = 4) \/ (parent' = "fork" /\ d' = 5))
  <2>1. d = 4 /\ parent = "poll"
    BY <1>6, Zenon DEF Poll, DemosInv
  <2>2. UNCHANGED <<parent, d>> \/ Advance
    BY <1>6, Zenon DEF Poll
  <2> QED BY <1>0, <2>1, <2>2, AdvanceGoes
<1> QED BY <1>1, <1>2, <1>3, <1>4, <1>5, <1>6, Zenon

\* The parent's steps keep what is said of the demos.
LEMMA ParentDemos ==
    ASSUME DemosInv, Parent \/ ShmOpenFails \/ ForkFails \/ MmapFails
    PROVE  DemosInv'
<1> USE DEF DemosInv, Uncollected, Process, Mine
<1>1. CASE ShmOpen
  BY <1>1, DemoSteps, Zenon DEF ShmOpen
<1>2. CASE ShmOpenFails
  <2>1. Advance /\ proc' = proc /\ d = 3 /\ parent = "shm_open"
    BY <1>2, DemoSteps, Zenon DEF ShmOpenFails
  <2> QED BY <2>1, AdvanceGoes
<1>3. CASE Fork
  <2>1. proc' = [proc EXCEPT ![Demos[d]] = "running"] /\ parent = "fork"
    BY <1>3, Zenon DEF Fork
  <2>2. CASE d \in {1, 6} /\ parent' = "waitpid" /\ d' = d
    BY <2>1, <2>2, DemoOrder
  <2>3. CASE d = 2 /\ parent' = "wait" /\ d' = d
    BY <2>1, <2>3, DemoOrder
  <2>4. CASE d = 3 /\ parent' = "suspended" /\ d' = d
    BY <2>1, <2>4, DemoOrder
  <2>5. CASE d = 4 /\ parent' = "poll" /\ d' = d
    BY <2>1, <2>5, DemoOrder
  <2>6. CASE d = 5 /\ parent' = "fork" /\ d' = 6
    BY <2>1, <2>6, DemoOrder, SMTT(30)
  <2> HIDE DEF DemosInv
  <2> QED BY <1>3, <2>2, <2>3, <2>4, <2>5, <2>6, DemoSteps, Zenon
<1>4. CASE ForkFails
  <2>1. proc' = proc /\ parent = "fork"
    BY <1>4, ZenonT(40) DEF ForkFails
  <2> QED BY <1>4, <2>1, DemoSteps
<1>5. CASE WaitPid
  <2>1. proc' = [proc EXCEPT ![Demos[d]] = "reaped"] /\ parent = "waitpid"
    BY <1>5, Zenon DEF WaitPid
  <2> QED BY <1>5, <2>1, DemoSteps, DemoOrder
<1>6. CASE Wait
  <2>1. CASE \E p \in Mine : proc[p] = "zombie" /\ proc' = [proc EXCEPT ![p] = "reaped"]
    <3>1. PICK p \in Mine : proc[p] = "zombie" /\ proc' = [proc EXCEPT ![p] = "reaped"]
      BY <2>1, Zenon
    <3>2. parent = "wait" /\ (d = 2 => p = "exec") /\ (d = 3 => p = "vfork")
      BY <1>6, <3>1, SMTT(30) DEF Wait
    <3> QED BY <1>6, <3>1, <3>2, DemoSteps
  <2>2. CASE Childless /\ proc' = proc
    <3>1. parent = "wait" /\ d = 6
      BY <1>6, <2>2, ZenonT(40) DEF Wait, Childless
    <3> QED BY <1>6, <2>2, <3>1, DemoSteps
  <2> QED BY <1>6, <2>1, <2>2, ZenonT(40) DEF Wait
<1>7. CASE Poll
  <2>1. parent = "poll" /\ (proc' = proc \/ proc' = [proc EXCEPT !["nohang"] = "reaped"])
    BY <1>7, Zenon DEF Poll
  <2> QED BY <1>7, <2>1, DemoSteps
<1>8. CASE Mmap
  BY <1>8, Zenon DEF Mmap
<1>9. CASE MmapFails \/ ShmUnlink
  <2>1. Advance /\ proc' = proc /\ parent \in {"mmap", "unlink"}
    BY <1>9, Zenon DEF MmapFails, ShmUnlink
  <2> QED BY <2>1, AdvanceGoes
<1> QED BY <1>1, <1>2, <1>3, <1>4, <1>5, <1>6, <1>7, <1>8, <1>9, Zenon DEF Parent

\* So do the children's, and the parent's end and restart.
LEMMA ChildDemos ==
    ASSUME DemosInv,
           (\E p \in Process : Child(p)) \/ Killed \/ VforkFails \/ WrapperForkFails \/ Restart \/ Over
           \/ UNCHANGED processVars
    PROVE  DemosInv'
<1> USE DEF DemosInv, Uncollected, Process, Mine
<1>1. ASSUME NEW p \in Process, ChildExit(p) PROVE DemosInv'
  BY <1>1, SMTT(30) DEF ChildExit
<1>2. CASE VforkExec
  BY <1>2 DEF VforkExec, Resume
<1>3. CASE LsWrites \/ LsExits
  <2>1. /\ \E v \in {"written", "zombie"} : proc' = [proc EXCEPT !["vfork"] = v]
        /\ proc["vfork"] \in {"execed", "written"} /\ parent' = parent /\ d' = d
    BY <1>3, Zenon DEF LsWrites, LsExits
  <2> QED BY <2>1
<1>4. CASE WrapperForks \/ OrphanExit \/ WrapperForkFails
  <2>1. /\ parent' = parent /\ d' = d
        /\ \/ \E v \in {"running", "zombie", "reaped"} : proc' = [proc EXCEPT !["orphan"] = v]
           \/ proc["wrapper"] = "running" /\ proc' = [proc EXCEPT !["wrapper"] = "zombie"]
    BY <1>4, Zenon DEF WrapperForks, OrphanExit, WrapperForkFails
  <2> QED BY <2>1
<1>5. CASE VforkFails
  BY <1>5 DEF VforkFails, Resume
<1>6. CASE Killed
  <2>1. parent' = "exit" /\ d' = d /\ proc' = proc
    BY <1>6, Zenon DEF Killed
  <2> QED BY <2>1, ZenonT(40)
<1>7. CASE Restart
  <2>1. parent' = First(1) /\ d' = 1 /\ proc' = [p \in Process |-> "none"]
    BY <1>7, Zenon DEF Restart, Begin
  <2> QED BY <2>1, DemoOrder
<1>8. CASE UNCHANGED processVars
  <2>1. parent' = parent /\ d' = d /\ proc' = proc
    BY <1>8, Zenon DEF processVars
  <2> QED BY <2>1
<1> QED BY <1>1, <1>2, <1>3, <1>4, <1>5, <1>6, <1>7, <1>8, Zenon DEF Child, Over

\* /test: only demo_vfork and its child touch it, and whoever leaves it behind is on
\* record.
LEMMA OutputSteps == ASSUME DemosInv, OutputInv, [ProcessNext]_processVars PROVE OutputInv'
<1>0. failed \in BOOLEAN /\ (~failed => shown \notin {"old", "ls over old"})
  BY Zenon DEF OutputInv
<1>1. CASE ShmOpen
  <2>1. d = 3 /\ d' = d /\ parent' = "fork" /\ parent = "shm_open" /\ failed' = failed /\ shown' = shown
    BY <1>1, DemoSteps, Zenon DEF ShmOpen
  <2>2. ~failed => shm = "none"
    BY <2>1, Zenon DEF OutputInv
  <2>3. ~failed => shm' = "empty"
    BY <1>1, <2>2, Zenon DEF ShmOpen, Opened
  <2> QED BY <1>0, <2>1, <2>3, Zenon DEF OutputInv
<1>2. CASE ShmOpenFails
  <2>1. d = 3 /\ parent = "shm_open" /\ shown' = shown /\ (failed' \/ (failed' = failed /\ shm' = shm))
    BY <1>2, DemoSteps, Zenon DEF ShmOpenFails
  <2>2. ~failed => shm = "none"
    BY <2>1, Zenon DEF OutputInv
  <2>3. failed' \in BOOLEAN
    BY <1>0, <1>2, Zenon DEF ShmOpenFails
  <2> QED BY <1>0, <2>1, <2>2, <2>3, Zenon DEF OutputInv
<1>3. CASE Fork
  <2>1. UNCHANGED <<shm, shown, failed>>
    BY <1>3, Zenon DEF Fork
  <2>2. d = 3 => d' = 3 /\ parent' = "suspended"
    BY <1>3, DemoSteps
  <2> QED BY <2>1, <2>2, Zenon DEF OutputInv
<1>4. CASE ForkFails
  <2>1. UNCHANGED <<shm, shown>> /\ failed' = (failed \/ Demos[d] = "vfork")
    BY <1>4, Zenon DEF ForkFails
  <2>2. d = 3 => failed'
    BY <1>4, DemoSteps
  <2> QED BY <2>1, <2>2, <1>0, Zenon DEF OutputInv
<1>5. CASE WaitPid \/ Wait \/ Poll
  <2>1. UNCHANGED <<shm, shown, failed>>
    BY <1>5, Zenon DEF WaitPid, Wait, Poll
  <2>2. d = 3 => d' = 3 /\ parent' = "mmap"
    BY <1>5, DemoSteps
  <2> QED BY <2>1, <2>2, Zenon DEF OutputInv
<1>6. CASE Mmap
  <2>1. shown' = shm /\ UNCHANGED <<d, shm, failed>> /\ parent' = "unlink" /\ parent = "mmap"
    BY <1>6, Zenon DEF Mmap
  <2> QED BY <2>1, Zenon DEF OutputInv
<1>7. CASE MmapFails
  BY <1>7, <1>0, Zenon DEF MmapFails, OutputInv
<1>8. CASE ShmUnlink
  BY <1>8, <1>0, Zenon DEF ShmUnlink, Unlinked, OutputInv
<1>9. CASE Killed
  <2>1. failed' = (failed \/ shm # "none") /\ UNCHANGED <<shm, shown>>
    BY <1>9, Zenon DEF Killed
  <2> QED BY <1>0, <2>1, Zenon DEF OutputInv
<1>10. CASE Restart
  <2>1. UNCHANGED <<shm, failed>> /\ shown' = "nothing" /\ parent = "exit"
    BY <1>10, Zenon DEF Restart, Begin
  <2> QED BY <1>0, <2>1, Zenon DEF OutputInv
<1>11. CASE LsWrites
  <2>1. UNCHANGED <<parent, d, shown, failed>>
    BY <1>11, Zenon DEF LsWrites
  <2>2. (shm = "none" => shm' = "none") /\ (shm \in {"empty", "ls"} => shm' = "ls")
    BY <1>11, Zenon DEF LsWrites
  <2> QED BY <2>1, <2>2, Zenon DEF OutputInv
<1>12. CASE VforkExec \/ VforkFails
  <2>1. /\ UNCHANGED <<d, shm, shown, failed>>
        /\ parent' = parent \/ (parent' = "wait" /\ parent = "suspended")
    BY <1>12, Zenon DEF VforkExec, VforkFails, Resume
  <2> QED BY <2>1, Zenon DEF OutputInv
<1>13. CASE (\E p \in Process : ChildExit(p)) \/ LsExits \/ WrapperForks \/ OrphanExit \/ WrapperForkFails
            \/ UNCHANGED processVars
  <2>1. UNCHANGED <<parent, d, shm, shown, failed>>
    <3>1. ASSUME NEW p \in Process, ChildExit(p) PROVE UNCHANGED <<parent, d, shm, shown, failed>>
      BY <3>1, Zenon DEF ChildExit
    <3>2. CASE LsExits \/ WrapperForks \/ OrphanExit \/ WrapperForkFails \/ UNCHANGED processVars
      BY <3>2, Zenon DEF LsExits, WrapperForks, OrphanExit, WrapperForkFails, processVars
    <3> QED BY <1>13, <3>1, <3>2, Zenon
  <2> QED BY <2>1, Zenon DEF OutputInv
<1> QED
  BY <1>1, <1>2, <1>3, <1>4, <1>5, <1>6, <1>7, <1>8, <1>9, <1>10, <1>11, <1>12, <1>13, Zenon
  DEF ProcessNext, Parent, Child, Fault, Over

\* The invariant of process_demo holds of every behaviour, over any number of runs and
\* polls, with faults or without.
LEMMA ProcessInvariance == ProcessSpec => []ProcessInv
<1>1. ProcessInv /\ [ProcessNext]_processVars => ProcessInv'
  <2> SUFFICES ASSUME DemosInv, OutputInv, [ProcessNext]_processVars PROVE DemosInv' /\ OutputInv'
    BY Zenon DEF ProcessInv
  <2>1. DemosInv'
    BY ParentDemos, ChildDemos, Zenon DEF ProcessNext, Fault
  <2> QED BY <2>1, OutputSteps, Zenon
<1> QED BY <1>1, InitProcessInv, PTL DEF ProcessSpec

\* wait(NULL) collects the demo's own child: demo_vfork reads /test after ls has ended,
\* and the first three demos leave no child behind.
THEOREM OwnChildCollectedHolds == ProcessSpec => []OwnChildCollected
<1>1. DemosInv => OwnChildCollected
  <2> SUFFICES ASSUME DemosInv, NEW k \in 1 .. d - 1, Demos[k] \in {"fork_wait", "exec", "vfork"}
               PROVE  (parent = "mmap" => proc["vfork"] = "reaped") /\ proc[Demos[k]] \in {"none", "reaped"}
    BY Zenon DEF OwnChildCollected, DemosInv
  <2>1. k \in 1 .. 5 /\ k < d
    BY DEF DemosInv
  <2>2. k = 1 \/ k = 2 \/ k = 3
    BY <2>1, DemoOrder
  <2> QED BY <2>1, <2>2, DemoOrder, ZenonT(40) DEF DemosInv, Uncollected, Process, Mine
<1> QED BY <1>1, ProcessInvariance, PTL DEF ProcessInv

\* demo_vfork shows the output of an earlier run only if some run ended, killed or
\* after a failed call, without unlinking /test.
THEOREM ShowsOwnOutputHolds == ProcessSpec => []ShowsOwnOutput
<1>1. OutputInv => ShowsOwnOutput
  BY Zenon DEF OutputInv, ShowsOwnOutput
<1> QED BY <1>1, ProcessInvariance, PTL DEF ProcessInv

-----------------------------------------------------------------------------
(* signal_demo.c *)

\* Demo 1 from the reset of the counter to the call that prints it.
Counting == {"sigaction_int", "sigaction_term", "raise_int1", "raise_term1", "nanosleep", "show_count"}

\* SIGINT and SIGTERM alone are counted, neither of them before demo 1 has installed
\* its action, and demo 1 keeps SIGTERM out of the handler of SIGINT.
ActionsInv ==
    /\ disp \in [Sig -> {"dfl", "ign", "count", "pipe_sig_handler", "rt_handler"}]
    /\ during \in [Sig -> SUBSET Sig]
    /\ disp["USR1"] # "count" /\ disp["USR2"] # "count" /\ disp["RT"] # "count"
    /\ main \in {"old_term", "reset", "sigaction_int"} => disp["INT"] = "dfl"
    /\ main \in {"reset", "sigaction_int", "sigaction_term"} => disp["TERM"] = "dfl"
    /\ main \in Counting \ {"sigaction_int"} => during["INT"] = {"TERM"}

\* The handler under way is one of demo 1's and what it has loaded is current.
Exact(f) ==
    /\ f.sig \in {"INT", "TERM"} /\ f.at \in {"load", "store"}
    /\ f.sig = "INT" => main # "sigaction_int"
    /\ f.at = "store" => f.reg = g_sigint_count

\* No handler, one, or that of SIGINT on that of SIGTERM, which has not yet loaded.
Stacked ==
    \/ stack = <<>>
    \/ \E f : stack = <<f>> /\ Exact(f)
    \/ \E t, f : /\ stack = <<t, f>> /\ Exact(t) /\ Exact(f)
                 /\ t.sig = "TERM" /\ t.at = "load" /\ f.sig = "INT"

\* Unless SIGINT has interrupted the increment in the handler of SIGTERM, no
\* increment is interrupted by another.
CountInv ==
    /\ nested \in BOOLEAN
    /\ main \in Counting /\ ~nested => g_sigint_count = handled /\ Stacked

SignalInv == ActionsInv /\ CountInv

\* signal_demo starts with the default actions.
LEMMA InitSignalInv == SignalInit => SignalInv
BY Zenon DEF SignalInit, SignalInv, ActionsInv, CountInv, Stacked, Counting, Sig

\* sigaction and signal change the action of one signal.
LEMMA ActionChanges ==
    ASSUME ActionsInv, NEW s \in Sig, NEW what \in {"dfl", "ign", "count", "pipe_sig_handler", "rt_handler"},
           NEW m \in SUBSET Sig, Action(s, what, m)
    PROVE  /\ disp' \in [Sig -> {"dfl", "ign", "count", "pipe_sig_handler", "rt_handler"}]
           /\ during' \in [Sig -> SUBSET Sig]
           /\ disp'[s] = what /\ during'[s] = m
           /\ \A u \in Sig : u # s => disp'[u] = disp[u] /\ during'[u] = during[u]
BY Zenon DEF Action, ActionsInv

\* The calls that change no action.
Others ==
    \/ RaiseInt \/ RaiseTerm \/ Sleep \/ Reset \/ RaiseInt1 \/ RaiseTerm1 \/ Nanosleep \/ ShowCount
    \/ Usr1Block \/ Usr1Kill \/ Usr1Unblock \/ RtQueue \/ RtShow
    \/ SelfPipe \/ SelfPipeFails \/ Usr2Kill \/ PipeRead \/ PipeClose
    \/ Pipe1 \/ Pipe1Fails \/ Pipe1Write \/ Pipe1Read
    \/ SfdBlock \/ Signalfd \/ SfdFails \/ SfdKill \/ SfdRead

\* They keep the actions in order.
LEMMA OthersActions == ASSUME ActionsInv, Others PROVE ActionsInv'
<1>1. UNCHANGED <<disp, during>>
  BY Zenon DEF Others, RaiseInt, RaiseTerm, Sleep, Reset, RaiseInt1, RaiseTerm1, Nanosleep, ShowCount,
     Usr1Block, Usr1Kill, Usr1Unblock, RtQueue, RtShow, SelfPipe, SelfPipeFails, Usr2Kill, PipeRead, PipeClose,
     Pipe1, Pipe1Fails, Pipe1Write, Pipe1Read, SfdBlock, Signalfd, SfdFails, SfdKill, SfdRead,
     Raise, Nothing, SetMask, Pipe, acts
<1>2. /\ main' \notin {"old_term", "reset"}
      /\ main' = "sigaction_int" => main = "reset"
      /\ main' \in Counting \ {"sigaction_int"} => main \in Counting \ {"sigaction_int"}
      /\ main' # "sigaction_term"
  BY Zenon DEF Others, RaiseInt, RaiseTerm, Sleep, Reset, RaiseInt1, RaiseTerm1, Nanosleep, ShowCount,
     Usr1Block, Usr1Kill, Usr1Unblock, RtQueue, RtShow, SelfPipe, SelfPipeFails, Usr2Kill, PipeRead, PipeClose,
     Pipe1, Pipe1Fails, Pipe1Write, Pipe1Read, SfdBlock, Signalfd, SfdFails, SfdKill, SfdRead, Go, Counting
<1> QED BY <1>1, <1>2, Zenon DEF ActionsInv, Counting

\* main calls nothing while a handler is under way.
LEMMA MainCounts ==
    ASSUME CountInv, Main
    PROVE  CountInv'
<1>1. CASE Reset
  BY <1>1, Zenon DEF Reset, Go, Idle, CountInv, Stacked
<1>2. CASE ~Reset
  <2>1. UNCHANGED <<stack, g_sigint_count, handled, nested>>
    BY <1>2, Zenon DEF Main, SignalInt, SignalTerm, OldInt, OldTerm, SigactionInt, SigactionTerm, Restore,
       Usr1Ignore, RtAction, Usr2Action, RaiseInt, RaiseTerm, Sleep, RaiseInt1, RaiseTerm1, Nanosleep, ShowCount,
       Usr1Block, Usr1Kill, Usr1Unblock, RtQueue, RtShow, SelfPipe, SelfPipeFails, Usr2Kill, PipeRead, PipeClose,
       Pipe1, Pipe1Fails, Pipe1Write, Pipe1Read, SfdBlock, Signalfd, SfdFails, SfdKill, SfdRead, Action, Raise, Nothing, SetMask, Pipe
  <2>2. stack = <<>> /\ (main' \in Counting => main \in Counting)
    BY <1>2, Zenon DEF Main, SignalInt, SignalTerm, OldInt, OldTerm, SigactionInt, SigactionTerm, Restore,
       Usr1Ignore, RtAction, Usr2Action, RaiseInt, RaiseTerm, Sleep, RaiseInt1, RaiseTerm1, Nanosleep, ShowCount,
       Usr1Block, Usr1Kill, Usr1Unblock, RtQueue, RtShow, SelfPipe, SelfPipeFails, Usr2Kill, PipeRead, PipeClose,
       Pipe1, Pipe1Fails, Pipe1Write, Pipe1Read, SfdBlock, Signalfd, SfdFails, SfdKill, SfdRead, Go, Idle, Counting
  <2> QED BY <2>1, <2>2, Zenon DEF CountInv, Stacked
<1> QED BY <1>1, <1>2, Zenon

\* The calls that install an action.
LEMMA ActionSteps ==
    ASSUME ActionsInv,
           \/ SignalInt \/ SignalTerm \/ OldInt \/ OldTerm \/ SigactionInt \/ SigactionTerm \/ Restore
           \/ Usr1Ignore \/ RtAction \/ Usr2Action
    PROVE  ActionsInv'
<1>0. Sig = {"INT", "TERM", "USR1", "USR2", "RT"}
  BY ZenonT(40) DEF Sig
<1>1. CASE SignalInt
  <2>1. Action("INT", "count", {}) /\ main' = "signal_term"
    BY <1>1, ZenonT(40) DEF SignalInt, Go
  <2> QED BY <1>0, <2>1, ActionChanges DEF ActionsInv, Counting
<1>2. CASE SignalTerm
  <2>1. Action("TERM", "count", {}) /\ main' = "raise_int"
    BY <1>2, ZenonT(40) DEF SignalTerm, Go
  <2> QED BY <1>0, <2>1, ActionChanges DEF ActionsInv, Counting
<1>3. CASE OldInt
  <2>1. Action("INT", "dfl", {}) /\ main' = "old_term"
    BY <1>3, ZenonT(40) DEF OldInt, Go
  <2> QED BY <1>0, <2>1, ActionChanges DEF ActionsInv, Counting
<1>4. CASE OldTerm
  <2>1. Action("TERM", "dfl", {}) /\ main = "old_term" /\ main' = "reset"
    BY <1>4, ZenonT(40) DEF OldTerm, Go
  <2> QED BY <1>0, <2>1, ActionChanges DEF ActionsInv, Counting
<1>5. CASE SigactionInt
  <2>1. Action("INT", "count", {"TERM"}) /\ main = "sigaction_int" /\ main' = "sigaction_term"
    BY <1>5, ZenonT(40) DEF SigactionInt, Go, HandlerMask
  <2> QED BY <1>0, <2>1, ActionChanges DEF ActionsInv, Counting
<1>6. CASE SigactionTerm
  <2>1. Action("TERM", "count", {"TERM"}) /\ main = "sigaction_term" /\ main' = "raise_int1"
    BY <1>6, ZenonT(40) DEF SigactionTerm, Go, HandlerMask
  <2> QED BY <1>0, <2>1, ActionChanges DEF ActionsInv, Counting
<1>7. CASE Restore
  <2>1. Action("INT", "dfl", {"TERM"}) /\ main' = "usr1_block"
    BY <1>7, ZenonT(40) DEF Restore, Go, HandlerMask
  <2> QED BY <1>0, <2>1, ActionChanges DEF ActionsInv, Counting
<1>8. CASE Usr1Ignore
  <2>1. Action("USR1", "ign", {}) /\ main' = "usr1_unblock"
    BY <1>8, ZenonT(40) DEF Usr1Ignore, Go
  <2> QED BY <1>0, <2>1, ActionChanges DEF ActionsInv, Counting
<1>9. CASE RtAction
  <2>1. Action("RT", "rt_handler", {}) /\ main' = "rt_queue"
    BY <1>9, ZenonT(40) DEF RtAction, Go
  <2> QED BY <1>0, <2>1, ActionChanges DEF ActionsInv, Counting
<1>10. CASE Usr2Action
  <2>1. Action("USR2", "pipe_sig_handler", {}) /\ main' = "usr2_kill"
    BY <1>10, Zenon DEF Usr2Action, Go
  <2> QED BY <1>0, <2>1, ActionChanges DEF ActionsInv, Counting
<1> QED BY <1>1, <1>2, <1>3, <1>4, <1>5, <1>6, <1>7, <1>8, <1>9, <1>10, Zenon

\* A handler started on another's.
LEMMA Pushed == ASSUME NEW t, NEW f PROVE Append(<<t>>, f) = <<t, f>>
<1> DEFINE x == Append(<<t>>, f)
           y == <<t, f>>
<1>1. x \in Seq({t, f}) /\ Len(x) = 2 /\ x[1] = t /\ x[2] = f  OBVIOUS
<1>2. y \in Seq({t, f}) /\ Len(y) = 2 /\ y[1] = t /\ y[2] = f  OBVIOUS
<1> HIDE DEF x, y
<1>3. x = y  BY <1>1, <1>2
<1> QED BY <1>3 DEF x, y

\* The two handlers on the stack, and the one left when the upper one returns.
LEMMA Popped == ASSUME NEW t, NEW f, stack = <<t, f>> PROVE Top = f /\ Rest = <<t>>
<1> DEFINE x == Rest
           y == <<t>>
<1>1. stack \in Seq({t, f}) /\ Len(stack) = 2 /\ stack[1] = t /\ stack[2] = f  OBVIOUS
<1>2. Top = f  BY <1>1 DEF Top
<1>3. x \in Seq({t, f}) /\ Len(x) = 1 /\ x[1] = t  BY <1>1 DEF Rest
<1>4. y \in Seq({t, f}) /\ Len(y) = 1 /\ y[1] = t  OBVIOUS
<1> HIDE DEF x, y
<1>5. x = y  BY <1>3, <1>4
<1> QED BY <1>2, <1>5 DEF x, y

\* A handler on top has loaded what is still the count when it stores.
LEMMA HandlerCounts == ASSUME CountInv, Handler PROVE CountInv'
<1>1. nested' = nested /\ main' = main /\ nested \in BOOLEAN
  BY Zenon DEF Handler, HandlerLoad, HandlerStore, CountInv
<1> SUFFICES ASSUME main \in Counting, ~nested
             PROVE  g_sigint_count' = handled' /\ Stacked'
  BY <1>1, Zenon DEF CountInv
<1>2. g_sigint_count = handled /\ Stacked  BY Zenon DEF CountInv
<1>3. stack # <<>>  BY Zenon DEF Handler, HandlerLoad, HandlerStore
<1>4. ASSUME NEW f, NEW rest, Top = f, Rest = rest, Exact(f), HandlerLoad
      PROVE  /\ UNCHANGED <<g_sigint_count, handled, main>>
             /\ \E g : stack' = Append(rest, g) /\ Exact(g)' /\ g.sig = f.sig
  <2>0. PICK g : g = [sig |-> f.sig, at |-> "store", reg |-> g_sigint_count]
    BY Zenon
  <2>1. stack' = Append(rest, g) /\ UNCHANGED <<g_sigint_count, handled, main>>
    BY <1>4, <2>0, Zenon DEF HandlerLoad
  <2>2. g.sig = f.sig /\ g.at = "store" /\ g.reg = g_sigint_count
    BY <2>0, Zenon
  <2>3. Exact(g)'
    BY <1>4, <2>1, <2>2, Zenon DEF Exact
  <2> QED BY <2>1, <2>2, <2>3, Zenon
<1>5. ASSUME NEW f, NEW rest, Top = f, Rest = rest, Exact(f), HandlerStore
      PROVE  g_sigint_count' = handled' /\ stack' = rest
  <2>1. g_sigint_count' = f.reg + 1 /\ handled' = handled + 1 /\ stack' = rest /\ f.at = "store"
    BY <1>5, Zenon DEF HandlerStore
  <2> QED BY <1>2, <1>5, <2>1, Zenon DEF Exact
<1>6. CASE \E f : stack = <<f>> /\ Exact(f)
  <2>1. PICK f : stack = <<f>> /\ Exact(f)  BY <1>6, Zenon
  <2>2. Top = f /\ Rest = <<>>  BY <2>1 DEF Top, Rest
  <2>3. CASE HandlerLoad
    <3>1. PICK g : stack' = Append(<<>>, g) /\ Exact(g)'  BY <1>4, <2>1, <2>2, <2>3, Zenon
    <3>2. stack' = <<g>>  BY <3>1
    <3>3. UNCHANGED <<g_sigint_count, handled>>  BY <2>3, Zenon DEF HandlerLoad
    <3> QED BY <1>2, <3>1, <3>2, <3>3, Zenon DEF Stacked
  <2>4. CASE HandlerStore
    BY <1>5, <2>1, <2>2, <2>4, Zenon DEF Stacked
  <2> QED BY <2>3, <2>4, Zenon DEF Handler
<1>7. CASE \E t, f : /\ stack = <<t, f>> /\ Exact(t) /\ Exact(f)
                     /\ t.sig = "TERM" /\ t.at = "load" /\ f.sig = "INT"
  <2>1. PICK t, f : /\ stack = <<t, f>> /\ Exact(t) /\ Exact(f)
                    /\ t.sig = "TERM" /\ t.at = "load" /\ f.sig = "INT"
    BY <1>7, Zenon
  <2>2. Top = f /\ Rest = <<t>>  BY <2>1, Popped, Zenon
  <2>3. Exact(t)'
    <3>1. "load" # "store"  BY Zenon
    <3> QED BY <1>1, <2>1, <3>1, Zenon DEF Exact
  <2>4. CASE HandlerLoad
    <3>1. PICK g : stack' = Append(<<t>>, g) /\ Exact(g)' /\ g.sig = f.sig  BY <1>4, <2>1, <2>2, <2>4, Zenon
    <3>2. stack' = <<t, g>>  BY <3>1, Pushed, Zenon
    <3>3. UNCHANGED <<g_sigint_count, handled>>  BY <2>4, Zenon DEF HandlerLoad
    <3> QED BY <1>2, <2>1, <2>3, <3>1, <3>2, <3>3, Zenon DEF Stacked
  <2>5. CASE HandlerStore
    BY <1>5, <2>1, <2>2, <2>3, <2>5, Zenon DEF Stacked
  <2> QED BY <2>4, <2>5, Zenon DEF Handler
<1> QED BY <1>2, <1>3, <1>6, <1>7, Zenon DEF Stacked

\* While a handler of demo 1 is under way, no second one is started on it but
\* that of SIGINT on that of SIGTERM; if that has loaded the count, it is on record.
LEMMA DeliverCounts == ASSUME ActionsInv, CountInv, NEW s \in Sig, DeliverSignal(s) PROVE CountInv'
<1>1. /\ nested' = (nested \/ (s = "INT" /\ TermIncrements)) /\ nested \in BOOLEAN
      /\ UNCHANGED <<g_sigint_count, handled>> /\ s \notin Blocked
  BY Zenon DEF DeliverSignal, CountInv, Deliverable
<1>0. TermIncrements \in BOOLEAN  BY Zenon DEF TermIncrements
<1>2. CASE disp[s] # "count"
  <2>1. UNCHANGED stack /\ main' \in {main, "killed"}
    BY <1>2, Zenon DEF DeliverSignal, ActionsInv, pipe_sig_handler, rt_handler
  <2>2. main' \in Counting => main' = main
    BY <2>1, Zenon DEF Counting
  <2>3. main' = main /\ Stacked => Stacked'  BY <1>1, <2>1, ZenonT(40) DEF Stacked, Exact
  <2> QED BY <1>0, <1>1, <2>2, <2>3, Zenon DEF CountInv
<1>3. CASE disp[s] = "count"
  <2> DEFINE g == [sig |-> s, at |-> "load", reg |-> 0]
  <2>1. main' = main /\ stack' = Append(stack, g)
    BY <1>3, Zenon DEF DeliverSignal
  <2>2. g.sig = s /\ g.at = "load"
    BY Zenon
  <2> HIDE DEF g
  <2>3. s \in {"INT", "TERM"} /\ (main = "sigaction_int" => s # "INT")
    BY <1>3, Zenon DEF ActionsInv, Sig
  <2> SUFFICES ASSUME main \in Counting, ~nested'
               PROVE  g_sigint_count' = handled' /\ Stacked'
    BY <1>0, <1>1, <2>1, Zenon DEF CountInv
  <2>4. ~nested /\ g_sigint_count = handled /\ Stacked /\ ~(s = "INT" /\ TermIncrements)
    BY <1>1, Zenon DEF CountInv
  <2>5. Exact(g)'
    BY <2>1, <2>2, <2>3, Zenon DEF Exact
  <2>6. ASSUME NEW x \in Frames PROVE s # x /\ s \notin during[x]
    <3>1. {x} \cup during[x] \in {{y} \cup during[y] : y \in Frames}  OBVIOUS
    <3> QED BY <1>1, <3>1, Zenon DEF Blocked
  <2>7. CASE stack = <<>>
    <3>1. stack' = <<g>>  BY <2>1, <2>7
    <3> QED BY <1>1, <2>4, <2>5, <3>1, Zenon DEF Stacked
  <2>8. CASE \E f : stack = <<f>> /\ Exact(f)
    <3>1. PICK f : stack = <<f>> /\ Exact(f)  BY <2>8, Zenon
    <3>2. f.sig \in Frames  BY <3>1 DEF Frames
    <3>3. f.sig = "INT" => during["INT"] = {"TERM"}
      BY <3>1, Zenon DEF Exact, ActionsInv
    <3>4. f.sig = "TERM" /\ s = "INT"
      BY <2>3, <2>6, <3>1, <3>2, <3>3, Zenon DEF Exact
    <3>5. f.at = "load"
      <4>1. f.at = "store" => TermIncrements
        <5>1. 1 \in DOMAIN stack /\ stack[1] = f  BY <3>1
        <5> QED BY <3>4, <5>1, Zenon DEF TermIncrements
      <4> QED BY <2>4, <3>1, <3>4, <4>1, Zenon DEF Exact
    <3>6. stack' = <<f, g>>  BY <2>1, <3>1, Pushed, Zenon
    <3>7. Exact(f)'
      <4>1. "load" # "store"  BY Zenon
      <4> QED BY <2>1, <3>1, <3>5, <4>1, Zenon DEF Exact
    <3> QED BY <1>1, <2>2, <2>4, <2>5, <3>4, <3>5, <3>6, <3>7, Zenon DEF Stacked
  <2>9. CASE \E t, f : stack = <<t, f>> /\ t.sig = "TERM" /\ f.sig = "INT"
    <3>1. PICK t, f : stack = <<t, f>> /\ t.sig = "TERM" /\ f.sig = "INT"  BY <2>9, Zenon
    <3>2. t.sig \in Frames /\ f.sig \in Frames
      <4>1. 1 \in DOMAIN stack /\ 2 \in DOMAIN stack /\ Len(stack) = 2 /\ stack[1] = t /\ stack[2] = f  BY <3>1
      <4> QED BY <4>1 DEF Frames
    <3> QED BY <2>3, <2>6, <3>1, <3>2, Zenon
  <2> QED BY <2>4, <2>7, <2>8, <2>9, Zenon DEF Stacked
<1> QED BY <1>2, <1>3, Zenon

\* Signals change no action.
LEMMA KernelActions ==
    ASSUME ActionsInv, Kernel \/ Handler \/ (\E s \in External : Stranger(s)) \/ UNCHANGED signalVars
    PROVE  ActionsInv'
<1>1. UNCHANGED <<disp, during>> /\ main' \in {main, "killed"}
  BY Zenon DEF Kernel, DeliverSignal, pipe_sig_handler, rt_handler, Handler, HandlerLoad, HandlerStore, Stranger, signalVars, acts, ActionsInv
<1> QED BY <1>1, Zenon DEF ActionsInv, Counting

\* The invariant of signal_demo holds of every behaviour, whoever sends signals.
LEMMA SignalInvariance == SignalInit /\ [][SignalNext]_signalVars => []SignalInv
<1>1. SignalInv /\ [SignalNext]_signalVars => SignalInv'
  <2> SUFFICES ASSUME ActionsInv, CountInv, [SignalNext]_signalVars PROVE ActionsInv' /\ CountInv'
    BY Zenon DEF SignalInv
  <2>1. CASE Main
    <3>1. ActionsInv'
      BY <2>1, OthersActions, ActionSteps, Zenon DEF Main, Others
    <3> QED BY <2>1, <3>1, MainCounts, Zenon
  <2>2. CASE Kernel
    BY <2>2, KernelActions, DeliverCounts, Zenon DEF Kernel
  <2>3. CASE Handler
    BY <2>3, KernelActions, HandlerCounts, Zenon
  <2>4. CASE (\E s \in External : Stranger(s)) \/ UNCHANGED signalVars
    <3>1. UNCHANGED <<main, stack, g_sigint_count, handled, nested>>
      BY <2>4, Zenon DEF Stranger, signalVars
    <3> QED BY <2>4, <3>1, KernelActions, ZenonT(40) DEF CountInv, Stacked, Exact
  <2> QED BY <2>1, <2>2, <2>3, <2>4, Zenon DEF SignalNext
<1> QED BY <1>1, InitSignalInv, PTL

\* Demo 1 of signal_demo counts every signal it has handled, whatever signals come
\* from outside and however many, unless SIGINT interrupts the handler of SIGTERM
\* between its load of the count and its store.
THEOREM CountsEverySignalHolds == SignalSpec => []CountsEverySignal
<1>1. SignalInv => CountsEverySignal
  BY Zenon DEF SignalInv, CountInv, CountsEverySignal, Counting
<1> QED BY <1>1, SignalInvariance, PTL DEF SignalSpec

-----------------------------------------------------------------------------
(* timer_demo.c *)

\* Where a timer may be armed, and where the signals may be pending: from the call
\* that arms the timer to the one before which they are delivered.
Armed  == {"a_test", "a_pause", "a_disarm", "p_test", "p_pause", "p_disarm",
           "epoll_create", "epoll_ctl", "f_test", "epoll_wait", "read", "close"}
AlarmOn == {"a_test", "a_pause", "a_disarm", "a_restore"}
PosixOn == {"p_test", "p_pause", "p_disarm", "timer_delete"}

TimerType ==
    /\ pc \in Alarm \cup Posix \cup Tfd \cup {"p_return", "end"}
    /\ count \in Nat /\ over \in Nat /\ exp \in Nat /\ fired \in Nat
    /\ pend \subseteq Signal

\* A signal is pending only in its own demo, while its handler and its timer are
\* there, and none is when the call that takes them away has been entered.
SignalsHandled ==
    /\ pc \in AlarmOn \cup {"setitimer"} => handler
    /\ pc \in PosixOn \cup {"timer_settime"} => timer \in {"armed", "disarmed"}
    /\ timer = "armed" => pc \in Armed
    /\ "SIGALRM" \in pend => pc \in AlarmOn
    /\ "SIGRTMIN" \in pend => pc \in PosixOn
    /\ in /\ pc \in {"a_restore", "timer_delete"} => pend = {}

\* Until the timer of demo 3 or 4 is armed nothing has expired, and an overrun is
\* counted only for a pending signal.
TicksCounted ==
    /\ pc \in {"timer_create", "timer_settime", "timerfd_create", "timerfd_settime"} => count = 0 /\ fired = 0
    /\ pc \in {"epoll_create", "epoll_ctl"} => count = 0 /\ fired = exp
    /\ pc \in Alarm \cup Posix \cup {"p_return", "timerfd_create", "timerfd_settime"} => exp = 0
    /\ "SIGRTMIN" \notin pend => over = 0
    /\ NoneMissed

TimerInv == TimerType /\ SignalsHandled /\ TicksCounted

\* timer_demo starts with no timer and no signal.
LEMMA InitTimerInv == TimerInit => TimerInv
<1> SUFFICES ASSUME TimerInit PROVE TimerInv
  BY Zenon
<1>1. TimerType
  BY Zenon DEF TimerInit, TimerType, Alarm
<1>2. SignalsHandled
  BY Zenon DEF TimerInit, SignalsHandled, AlarmOn, PosixOn, Armed
<1>3. TicksCounted
  BY Zenon DEF TimerInit, TicksCounted, NoneMissed
<1> QED BY <1>1, <1>2, <1>3, Zenon DEF TimerInv

\* The calls of the alarm demo keep the invariant.
LEMMA AlarmCalls ==
    ASSUME TimerInv, InstallAlarm \/ SetItimer \/ AlarmTest \/ AlarmDisarm \/ AlarmRestore
    PROVE  TimerInv'
<1> USE DEF TimerInv, InstallAlarm, SetItimer, AlarmTest, AlarmDisarm, AlarmRestore, Enter, Leave, NextDemo, sigs, poll
<1>1. TimerType'
  BY DEF TimerType, Alarm, Posix
<1>2. SignalsHandled'
  BY Zenon DEF SignalsHandled, AlarmOn, PosixOn, Armed
<1>3. TicksCounted'
  BY Zenon DEF TicksCounted, NoneMissed, Alarm, TimerType, SignalsHandled, AlarmOn, PosixOn
<1> QED BY <1>1, <1>2, <1>3, Zenon

\* So do the calls of the POSIX timer demo.
LEMMA PosixCalls ==
    ASSUME TimerInv, TimerCreate \/ TimerSettime \/ PosixTest \/ PosixDisarm \/ TimerDelete \/ PosixReturn
    PROVE  TimerInv'
<1> USE DEF TimerInv, TimerCreate, TimerSettime, PosixTest, PosixDisarm, AfterPosixLoop, TimerDelete, PosixReturn, Enter, Leave, NextDemo, sigs, poll
<1>1. TimerType'
  BY DEF TimerType, Alarm, Posix, Tfd
<1>2. SignalsHandled'
  BY ZenonT(40) DEF SignalsHandled, AlarmOn, PosixOn, Armed
<1>3. TicksCounted'
  BY DEF TicksCounted, NoneMissed, Alarm, Posix, TimerType, SignalsHandled, AlarmOn, PosixOn
<1> QED BY <1>1, <1>2, <1>3, ZenonT(40)

\* So do the calls of the timerfd demo.
LEMMA TfdCalls ==
    ASSUME TimerInv,
           \/ TimerfdCreate \/ TimerfdSettime \/ EpollCreate \/ EpollCtl \/ TfdTest
           \/ EpollEvent \/ EpollTimeout \/ Read \/ Close
    PROVE  TimerInv'
<1> USE DEF TimerInv, TimerfdCreate, TimerfdSettime, EpollCreate, EpollCtl, TfdTest, AfterEvent,
            EpollEvent, EpollTimeout, Read, Close, Enter, Leave, sigs, poll
<1>1. TimerType'
  BY DEF TimerType, Alarm, Posix, Tfd
<1>2. SignalsHandled'
  BY ZenonT(40) DEF SignalsHandled, AlarmOn, PosixOn, Armed
<1>3. TicksCounted'
  BY DEF TicksCounted, NoneMissed, Alarm, Posix, Tfd, TimerType, SignalsHandled, AlarmOn, PosixOn
<1> QED BY <1>1, <1>2, <1>3, ZenonT(40)

\* An expiration is counted, or leaves a signal or a tick behind.
LEMMA ExpireSteps == ASSUME TimerInv, Expire PROVE TimerInv'
<1> USE DEF TimerInv, Expire, ExpireAlarm, ExpirePosix, ExpireTfd, Expires, sigs, poll
<1>0. fired' = fired + 1 /\ (exp' = exp \/ exp' = exp + 1) /\ (over' = over \/ over' = over + 1) /\ UNCHANGED <<pc, count>>
  BY Zenon
<1>p. pend' \subseteq Signal
  BY Zenon DEF TimerType, Signal
<1>1. TimerType'
  BY <1>0, <1>p DEF TimerType
<1>2. SignalsHandled'
  BY ZenonT(40) DEF SignalsHandled, AlarmOn, PosixOn, Armed, Alarm, Posix, Tfd
<1>3. TicksCounted'
  BY DEF TicksCounted, NoneMissed, Alarm, Posix, Tfd, TimerType, SignalsHandled, AlarmOn, PosixOn, Armed
<1> QED BY <1>1, <1>2, <1>3, Zenon

\* A handler counts what the signal stands for.
LEMMA DeliverStep == ASSUME TimerInv, NEW s \in Signal, Deliver(s) PROVE TimerInv'
<1> USE DEF TimerInv, Deliver, Ticks, Leave, poll
<1>1. TimerType'
  BY DEF TimerType, Signal, Alarm, Posix
<1>2. SignalsHandled'
  BY Zenon DEF SignalsHandled, AlarmOn, PosixOn, Armed
<1>3. TicksCounted'
  BY DEF TicksCounted, NoneMissed, Alarm, Posix, TimerType, SignalsHandled, AlarmOn, PosixOn, Signal
<1> QED BY <1>1, <1>2, <1>3, Zenon

\* Entering a system call, with no signal pending, disturbs nothing.
LEMMA SyscallStep == ASSUME TimerInv, Syscall PROVE TimerInv'
<1> USE DEF TimerInv, Syscall, sigs, poll
<1>1. TimerType' /\ TicksCounted'
  BY Zenon DEF TimerType, TicksCounted, NoneMissed
<1>2. SignalsHandled'
  BY Zenon DEF SignalsHandled
<1> QED BY <1>1, <1>2, Zenon

\* The invariant of timer_demo holds of every behaviour.
LEMMA TimerInvariance == TimerInit /\ [][TimerNext]_timerVars => []TimerInv
<1>1. TimerInv /\ [TimerNext]_timerVars => TimerInv'
  <2> SUFFICES ASSUME TimerInv, [TimerNext]_timerVars PROVE TimerInv'
    BY Zenon
  <2>1. CASE UNCHANGED timerVars
    <3> USE <2>1 DEF timerVars, TimerInv
    <3>1. TimerType'
      BY Zenon DEF TimerType
    <3>2. SignalsHandled'
      BY Zenon DEF SignalsHandled
    <3>3. TicksCounted'
      BY Zenon DEF TicksCounted, NoneMissed
    <3> QED BY <3>1, <3>2, <3>3, Zenon
  <2>2. CASE TimerNext
    <3>1. CASE Thread
      BY <3>1, AlarmCalls, PosixCalls, TfdCalls, SyscallStep, Zenon DEF Thread
    <3> QED BY <2>2, <3>1, ExpireSteps, DeliverStep, Zenon DEF TimerNext
  <2> QED BY <2>1, <2>2, Zenon
<1> QED BY <1>1, InitTimerInv, PTL

\* No signal of timer_demo outlives its handler or its timer.
THEOREM PendingHandledHolds == TimerSpec => []PendingHandled
<1>1. TimerInv => PendingHandled
  BY Zenon DEF TimerInv, SignalsHandled, PendingHandled
<1> QED BY <1>1, TimerInvariance, PTL DEF TimerSpec

\* No expiration is missed.
THEOREM NoneMissedHolds == TimerSpec => []NoneMissed
<1>1. TimerInv => NoneMissed
  BY Zenon DEF TimerInv, TicksCounted
<1> QED BY <1>1, TimerInvariance, PTL DEF TimerSpec

-----------------------------------------------------------------------------
(* udp_demo.c *)

\* A datagram, of the client or of somebody else.
UdpMsg == [from : Strangers \cup {"client", "nobody"}, msg : Int]

UdpType ==
    /\ ci \in Nat /\ bound \in BOOLEAN /\ got \in Seq(Int)
    /\ inbox \in Seq(UdpMsg) /\ cur \in UdpMsg /\ replies \in Seq(UdpMsg)

\* One datagram of the client at most is under way, in one of three places: it is the
\* one whose echo the client waits for.
OneUnderWay ==
    /\ \A k \in 1 .. Len(inbox) : inbox[k].from = "client" =>
          /\ cli = "recv" /\ inbox[k].msg = ci /\ cur.from # "client" /\ replies = <<>>
          /\ \A j \in 1 .. Len(inbox) : inbox[j].from = "client" => j = k
    /\ cur.from = "client" => cli = "recv" /\ cur.msg = ci /\ replies = <<>>
    /\ replies # <<>> => cli = "recv" /\ Len(replies) = 1 /\ replies[1].msg = ci

\* The client has read one echo per datagram, or, if nobody is bound to the port, none
\* of anything.
EchoesRead ==
    /\ EchoesMatch
    /\ bound => Len(got) = ci
    /\ ~bound => inbox = <<>> /\ cur.from # "client" /\ replies = <<>>

UdpInv == UdpType /\ OneUnderWay /\ EchoesRead

\* There is no client before the fork.
NotForked == srv = "fork" => cli = "none"

\* The length and the elements of a longer and of a shorter sequence.
LEMMA SeqFacts ==
    ASSUME NEW S, NEW s \in Seq(S)
    PROVE  /\ Len(s) \in Nat /\ \A j \in 1 .. Len(s) : s[j] \in S
           /\ \A e \in S : /\ Append(s, e) \in Seq(S) /\ Len(Append(s, e)) = Len(s) + 1
                           /\ Append(s, e)[Len(s) + 1] = e
                           /\ \A j \in 1 .. Len(s) : Append(s, e)[j] = s[j]
           /\ s # <<>> => /\ Len(s) > 0 /\ Head(s) = s[1]
                          /\ Tail(s) \in Seq(S) /\ Len(Tail(s)) = Len(s) - 1
                          /\ \A j \in 1 .. Len(s) - 1 : Tail(s)[j] = s[j + 1]
           /\ s = <<>> => Len(s) = 0
OBVIOUS

\* Nothing is under way before the fork.
LEMMA InitUdpInv == Init => UdpInv
<1> SUFFICES ASSUME Init PROVE UdpInv
  BY Zenon
<1>1. cur \in UdpMsg /\ cur.from # "client"
  BY DEF Init, NoDatagram, Datagram, UdpMsg
<1>2. bound \in BOOLEAN /\ inbox = <<>> /\ replies = <<>> /\ got = <<>> /\ ci = 0
  BY UdpEchoAssumption, Zenon DEF Init
<1>3. /\ inbox \in Seq(UdpMsg) /\ replies \in Seq(UdpMsg) /\ got \in Seq(Int) /\ ci \in Nat
      /\ 1 .. Len(inbox) = {} /\ Len(got) = ci /\ got = [k \in 1 .. Len(got) |-> k - 1]
  BY <1>2
<1> QED BY <1>1, <1>2, <1>3, Zenon DEF UdpInv, UdpType, OneUnderWay, EchoesRead, EchoesMatch

\* The client sends when none of its datagrams is under way.
LEMMA ClientSendStep == ASSUME UdpInv, ClientSend PROVE UdpInv'
<1> DEFINE m == Datagram("client", ci)
<1>1. m \in UdpMsg /\ m.from = "client" /\ m.msg = ci
  BY DEF UdpInv, UdpType, UdpMsg, Datagram
<1>2. inbox \in Seq(UdpMsg) /\ cli = "send" /\ cli' = "recv"
  BY Zenon DEF UdpInv, UdpType, ClientSend, AfterSend
<1>3. (\A k \in 1 .. Len(inbox) : inbox[k].from # "client") /\ cur.from # "client" /\ replies = <<>>
  BY <1>2, Zenon DEF UdpInv, OneUnderWay
<1>4. UNCHANGED <<ci, bound, got, cur, replies>>
  BY Zenon DEF ClientSend
<1>5. CASE bound /\ inbox' = Append(inbox, m)
  <2>1. /\ inbox' \in Seq(UdpMsg) /\ Len(inbox') = Len(inbox) + 1 /\ Len(inbox) \in Nat
        /\ inbox'[Len(inbox) + 1] = m /\ \A j \in 1 .. Len(inbox) : inbox'[j] = inbox[j]
    BY <1>1, <1>2, <1>5, SeqFacts
  <2>2. \A k \in 1 .. Len(inbox') : k \in 1 .. Len(inbox) \/ k = Len(inbox) + 1
    BY <2>1
  <2>3. UdpType'
    BY <1>4, <2>1, Zenon DEF UdpInv, UdpType
  <2>4. OneUnderWay'
    BY <1>1, <1>2, <1>3, <1>4, <2>1, <2>2, Zenon DEF OneUnderWay
  <2>5. EchoesRead'
    BY <1>4, <1>5, Zenon DEF UdpInv, EchoesRead, EchoesMatch
  <2> QED BY <2>3, <2>4, <2>5, Zenon DEF UdpInv
<1>6. CASE UNCHANGED inbox
  <2>3. UdpType'
    BY <1>4, <1>6, Zenon DEF UdpInv, UdpType
  <2>4. OneUnderWay'
    BY <1>3, <1>4, <1>6, Zenon DEF OneUnderWay
  <2>5. EchoesRead'
    BY <1>4, <1>6, Zenon DEF UdpInv, EchoesRead, EchoesMatch
  <2> QED BY <2>3, <2>4, <2>5, Zenon DEF UdpInv
<1> QED BY <1>5, <1>6, Zenon DEF ClientSend

\* It reads the echo of the datagram it has just sent, or learns that nobody is there.
LEMMA ClientRecvStep == ASSUME UdpInv, ClientRecv \/ ClientRefused PROVE UdpInv'
<1>0. /\ ci \in Nat /\ got \in Seq(Int) /\ replies \in Seq(UdpMsg) /\ ci' = ci + 1
      /\ UNCHANGED <<inbox, cur, bound>>
  BY Zenon DEF UdpInv, UdpType, ClientRecv, ClientRefused
<1>a. ci' \in Nat
  BY <1>0
<1>1. CASE ClientRecv
  <2>0. replies # <<>> /\ got' = Append(got, Head(replies).msg) /\ replies' = Tail(replies)
    BY <1>1, Zenon DEF ClientRecv
  <2>1. /\ Len(replies) = 1 /\ replies[1].msg = ci /\ cur.from # "client"
        /\ \A k \in 1 .. Len(inbox) : inbox[k].from # "client"
    BY <2>0, Zenon DEF UdpInv, OneUnderWay
  <2>2. bound /\ Len(got) = ci /\ EchoesMatch
    BY <2>0, Zenon DEF UdpInv, EchoesRead
  <2>3. replies' = <<>> /\ got' = Append(got, ci)
    BY <1>0, <2>0, <2>1, SMTT(30)
  <2>4. got' \in Seq(Int) /\ Len(got') = ci + 1 /\ got'[ci + 1] = ci /\ \A j \in 1 .. ci : got'[j] = got[j]
    BY <1>0, <2>2, <2>3
  <2>5. \A j \in 1 .. ci : got[j] = j - 1
    BY <2>2, Zenon DEF EchoesMatch
  <2>6. EchoesMatch'
    <3>1. \A j \in 1 .. Len(got') : got'[j] = j - 1
      BY <1>0, <2>4, <2>5, SMTT(30)
    <3>2. DOMAIN got' = 1 .. Len(got') /\ got' = [j \in DOMAIN got' |-> got'[j]]
      BY <2>4
    <3> QED BY <3>1, <3>2, Zenon DEF EchoesMatch
  <2>7. UdpType'
    BY <1>0, <1>a, <2>3, <2>4 DEF UdpInv, UdpType
  <2>8. OneUnderWay'
    BY <1>0, <2>1, <2>3, Zenon DEF OneUnderWay
  <2>9. EchoesRead'
    BY <1>0, <2>2, <2>4, <2>6, Zenon DEF EchoesRead
  <2> QED BY <2>7, <2>8, <2>9, Zenon DEF UdpInv
<1>2. CASE ClientRefused
  <2>0. ~bound /\ UNCHANGED <<replies, got>>
    BY <1>2, Zenon DEF ClientRefused
  <2>1. inbox = <<>> /\ cur.from # "client" /\ replies = <<>>
    BY <2>0, Zenon DEF UdpInv, EchoesRead
  <2>2. 1 .. Len(inbox) = {}
    BY <2>1
  <2>3. UdpType'
    BY <1>0, <1>a, <2>0, Zenon DEF UdpInv, UdpType
  <2>4. OneUnderWay'
    BY <1>0, <2>0, <2>1, <2>2, Zenon DEF OneUnderWay
  <2>5. EchoesRead'
    BY <1>0, <2>0, Zenon DEF UdpInv, EchoesRead, EchoesMatch
  <2> QED BY <2>3, <2>4, <2>5, Zenon DEF UdpInv
<1> QED BY <1>1, <1>2, Zenon

\* The server takes a datagram from its socket: no second one of the client's is there.
LEMMA ServerRecvStep == ASSUME UdpInv, ServerRecv PROVE UdpInv'
<1>1. /\ inbox # <<>> /\ cur' = Head(inbox) /\ inbox' = Tail(inbox) /\ inbox \in Seq(UdpMsg)
      /\ UNCHANGED <<cli, ci, bound, got, replies>>
  BY Zenon DEF UdpInv, UdpType, ServerRecv
<1>2. /\ Len(inbox) \in Nat /\ Len(inbox) > 0 /\ Head(inbox) = inbox[1] /\ inbox[1] \in UdpMsg
      /\ Tail(inbox) \in Seq(UdpMsg) /\ Len(Tail(inbox)) = Len(inbox) - 1
      /\ \A j \in 1 .. Len(inbox) - 1 : Tail(inbox)[j] = inbox[j + 1]
  BY <1>1, SeqFacts
<1>3. 1 \in 1 .. Len(inbox) /\ \A k \in 1 .. Len(inbox') : k + 1 \in 1 .. Len(inbox) /\ k + 1 # 1
  BY <1>1, <1>2
<1>4. cur' = inbox[1] /\ \A k \in 1 .. Len(inbox') : inbox'[k] = inbox[k + 1]
  BY <1>1, <1>2, Zenon
<1>5. \A j, k \in 1 .. Len(inbox') : j + 1 = k + 1 => j = k
  BY <1>1, <1>2
<1>6. UdpType'
  BY <1>1, <1>2, Zenon DEF UdpInv, UdpType
<1>7. OneUnderWay'
  <2>1. ASSUME NEW k \in 1 .. Len(inbox'), inbox'[k].from = "client"
        PROVE  /\ cli = "recv" /\ inbox'[k].msg = ci /\ cur'.from # "client" /\ replies = <<>>
               /\ \A j \in 1 .. Len(inbox') : inbox'[j].from = "client" => j = k
    <3>1. inbox[k + 1].from = "client" /\ k + 1 \in 1 .. Len(inbox) /\ k + 1 # 1
      BY <2>1, <1>3, <1>4, Zenon
    <3>2. /\ cli = "recv" /\ inbox[k + 1].msg = ci /\ replies = <<>>
          /\ \A j \in 1 .. Len(inbox) : inbox[j].from = "client" => j = k + 1
      BY <3>1, Zenon DEF UdpInv, OneUnderWay
    <3>3. \A j \in 1 .. Len(inbox') : inbox'[j].from = "client" => j = k
      BY <3>2, <1>3, <1>4, <1>5, Zenon
    <3> QED BY <3>1, <3>2, <3>3, <1>3, <1>4, Zenon
  <2>2. cur'.from = "client" => cli = "recv" /\ cur'.msg = ci /\ replies = <<>>
    BY <1>3, <1>4, Zenon DEF UdpInv, OneUnderWay
  <2> QED BY <2>1, <2>2, <1>1, Zenon DEF UdpInv, OneUnderWay
<1>8. EchoesRead'
  BY <1>1, Zenon DEF UdpInv, EchoesRead, EchoesMatch
<1> QED BY <1>6, <1>7, <1>8, Zenon DEF UdpInv

\* Its echo goes to the client only if the datagram was the client's.
LEMMA ServerEchoStep == ASSUME UdpInv, ServerEcho PROVE UdpInv'
<1>1. /\ cur' = NoDatagram /\ UNCHANGED <<cli, ci, inbox, got, bound>>
      /\ cur \in UdpMsg /\ replies \in Seq(UdpMsg)
  BY Zenon DEF UdpInv, UdpType, ServerEcho
<1>2. NoDatagram \in UdpMsg /\ NoDatagram.from # "client"
  BY DEF NoDatagram, Datagram, UdpMsg
<1>3. CASE cur.from = "client" /\ replies' = Append(replies, cur)
  <2>1. replies = <<>> /\ cli = "recv" /\ cur.msg = ci
    BY <1>3, Zenon DEF UdpInv, OneUnderWay
  <2>2. replies' \in Seq(UdpMsg) /\ Len(replies') = 1 /\ replies'[1] = cur
    BY <1>1, <1>3, <2>1
  <2>3. bound /\ \A k \in 1 .. Len(inbox) : inbox[k].from # "client"
    BY <1>3, Zenon DEF UdpInv, OneUnderWay, EchoesRead
  <2>4. UdpType'
    BY <1>1, <1>2, <2>2, Zenon DEF UdpInv, UdpType
  <2>5. OneUnderWay'
    BY <1>1, <1>2, <2>1, <2>2, <2>3, Zenon DEF OneUnderWay
  <2>6. EchoesRead'
    BY <1>1, <2>3, Zenon DEF UdpInv, EchoesRead, EchoesMatch
  <2> QED BY <2>4, <2>5, <2>6, Zenon DEF UdpInv
<1>4. CASE UNCHANGED replies
  <2>4. UdpType'
    BY <1>1, <1>2, <1>4, Zenon DEF UdpInv, UdpType
  <2>5. OneUnderWay'
    BY <1>1, <1>2, <1>4, Zenon DEF UdpInv, OneUnderWay
  <2>6. EchoesRead'
    BY <1>1, <1>2, <1>4, Zenon DEF UdpInv, EchoesRead, EchoesMatch
  <2> QED BY <2>4, <2>5, <2>6, Zenon DEF UdpInv
<1> QED BY <1>3, <1>4, Zenon DEF ServerEcho

\* A stranger's datagram stays apart from the client's, and connect() keeps it from the
\* client's socket.
LEMMA StrangerStep == ASSUME UdpInv, NEW x \in Strangers, StrangerSends(x) PROVE UdpInv'
<1> DEFINE m == Datagram(x, Foreign)
<1>1. x # "client" /\ x # "server"
  BY UdpEchoAssumption, Zenon
<1>2. m \in UdpMsg /\ m.from # "client"
  BY <1>1 DEF Datagram, UdpMsg, Foreign
<1>3. UNCHANGED <<cli, ci, cur, got, bound, replies>> /\ inbox \in Seq(UdpMsg)
  BY <1>1, Zenon DEF UdpInv, UdpType, StrangerSends, Accepts
<1>4. CASE bound /\ inbox' = Append(inbox, m)
  <2>1. /\ inbox' \in Seq(UdpMsg) /\ Len(inbox') = Len(inbox) + 1 /\ Len(inbox) \in Nat
        /\ inbox'[Len(inbox) + 1] = m /\ \A j \in 1 .. Len(inbox) : inbox'[j] = inbox[j]
    BY <1>2, <1>3, <1>4, SeqFacts, SMTT(30)
  <2>2. \A k \in 1 .. Len(inbox') : k \in 1 .. Len(inbox) \/ k = Len(inbox) + 1
    BY <2>1
  <2>3. \A k \in 1 .. Len(inbox') : inbox'[k].from = "client" => k \in 1 .. Len(inbox) /\ inbox[k].from = "client"
    BY <1>2, <2>1, <2>2, Zenon
  <2>4. UdpType'
    BY <1>3, <2>1, Zenon DEF UdpInv, UdpType
  <2>5. OneUnderWay'
    BY <1>3, <2>1, <2>3, Zenon DEF UdpInv, OneUnderWay
  <2>6. EchoesRead'
    BY <1>3, <1>4, Zenon DEF UdpInv, EchoesRead, EchoesMatch
  <2> QED BY <2>4, <2>5, <2>6, Zenon DEF UdpInv
<1>5. CASE UNCHANGED inbox
  BY <1>3, <1>5, Zenon DEF UdpInv, UdpType, OneUnderWay, EchoesRead, EchoesMatch
<1> QED BY <1>4, <1>5, Zenon DEF StrangerSends

\* The other steps touch no datagram.
LEMMA ControlStep ==
  ASSUME UdpInv, NotForked, ForkClient \/ ServerError \/ WaitClient \/ UNCHANGED vars PROVE UdpInv'
<1>1. UNCHANGED <<ci, inbox, cur, replies, got, bound>>
  BY Zenon DEF ForkClient, ServerError, WaitClient, vars
<1>2. cli = "recv" => cli' = "recv"
  BY Zenon DEF NotForked, ForkClient, ServerError, WaitClient, vars
<1> QED BY <1>1, <1>2, Zenon DEF UdpInv, UdpType, OneUnderWay, EchoesRead, EchoesMatch

\* udp_demo.c: the k-th echo the client prints is that of its k-th datagram, for any
\* number of datagrams and of strangers and whatever is lost.
THEOREM EchoesMatchHolds == Spec => []EchoesMatch
<1>0. /\ Init => NotForked
      /\ NotForked /\ [Next]_vars => NotForked'
  BY Zenon DEF Init, NotForked, Next, vars, ForkClient, Client, ClientSend, ClientRecv, ClientRefused,
               Server, ServerRecv, ServerError, ServerEcho, WaitClient, StrangerSends
<1>1. NotForked /\ UdpInv /\ [Next]_vars => UdpInv'
  BY ClientSendStep, ClientRecvStep, ServerRecvStep, ServerEchoStep, StrangerStep, ControlStep, Zenon
  DEF Next, Server, Client
<1>2. UdpInv => EchoesMatch
  BY Zenon DEF UdpInv, EchoesRead
<1> QED BY <1>0, <1>1, <1>2, InitUdpInv, PTL DEF Spec
=============================================================================
