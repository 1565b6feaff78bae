----------------------------- MODULE ProcessDemo -----------------------------
(***************************************************************************)
(* 01_processes/process_demo.c: the parent forks one child per demo and    *)
(* collects them in four different ways: waitpid on the child's pid,       *)
(* wait(NULL) for any child, waitpid with WNOHANG, and not at all.  The    *)
(* vfork demo passes the output of ls through the shared memory object     *)
(* /test, which outlives a run that does not get to its shm_unlink; so     *)
(* the program is run several times, and may be killed or fail anywhere.   *)
(*                                                                         *)
(* How long a process sleeps decides nothing but timing: a child may end   *)
(* at any point after it was created.  The next run starts when the        *)
(* children of the last one have ended.                                    *)
(***************************************************************************)
EXTENDS Naturals, Sequences

CONSTANTS MaxPolls,   \* WNOHANG polls (6)
          MaxRuns,    \* bound: runs of the program
          Faults      \* TRUE: system calls may fail and the parent may be killed

ASSUME ProcessDemoAssumption == MaxPolls \in Nat /\ MaxRuns \in Nat \ {0} /\ Faults \in BOOLEAN

VARIABLES parent,       \* the parent's control point in the demo under way
          d,        \* index in Demos of the demo under way
          proc,     \* state of each process the parent or a child creates
          i,        \* WNOHANG polls done
          shm,      \* /test: "none" no such name, else whose output it holds
          shown,    \* what demo_vfork printed as the child's output
          failed,   \* history: some run ended without unlinking /test
          run       \* runs begun

processVars == <<parent, d, proc, i, shm, shown, failed, run>>

\* The children, named after the demo that forks them; "orphan" is the
\* wrapper's child.
Mine    == {"fork_wait", "exec", "vfork", "nohang", "zombie", "wrapper"}
Process == Mine \cup {"orphan"}

\* Wrong variant of Demos: the zombie demo is not run last.
Demos_ZombieEarly == <<"fork_wait", "zombie", "exec", "vfork", "nohang", "wrapper">>

Demos  == <<"fork_wait", "exec", "vfork", "nohang", "zombie", "wrapper">>
First(k) == IF Demos[k] = "vfork" THEN "shm_open" ELSE "fork"
At(demo, where) == parent = where /\ Demos[d] = demo

Begin ==
    /\ d' = 1 /\ parent' = First(1)
    /\ proc' = [p \in Process |-> "none"]
    /\ i' = 0 /\ shown' = "nothing"

ProcessInit ==
    /\ d = 1 /\ parent = First(1)
    /\ proc = [p \in Process |-> "none"]
    /\ i = 0 /\ shown = "nothing"
    /\ shm = "none" /\ failed = FALSE /\ run = 1

-----------------------------------------------------------------------------
(* Wrong variants of definitions below, each the shape of a plausible bug. *)

\* demo_vfork without its shm_unlink.
Unlinked_Kept == shm

-----------------------------------------------------------------------------
\* The demo returns to main, which goes on with the next one or returns.
Advance ==
    IF d < Len(Demos) THEN d' = d + 1 /\ parent' = First(d + 1)
                      ELSE d' = d /\ parent' = "exit"

\* shm_open keeps what a name left behind holds; ftruncate fills with zeros.
Opened == IF shm \in {"none", "empty"} THEN "empty" ELSE "old"

ShmOpen ==
    /\ At("vfork", "shm_open")
    /\ parent' = "fork"
    /\ shm' = Opened
    /\ UNCHANGED <<d, proc, i, shown, failed, run>>

\* shm_open fails, and with it ftruncate; or only ftruncate does, and the name
\* stays.
ShmOpenFails ==
    /\ Faults /\ At("vfork", "shm_open")
    /\ \/ UNCHANGED <<shm, failed>>
       \/ shm' = Opened /\ failed' = TRUE
    /\ Advance
    /\ UNCHANGED <<proc, i, shown, run>>

\* What the parent does after its fork; vfork suspends it.
AfterFork ==
    CASE Demos[d] \in {"fork_wait", "wrapper"} -> parent' = "waitpid" /\ d' = d
      [] Demos[d] = "exec"   -> parent' = "wait" /\ d' = d
      [] Demos[d] = "vfork"  -> parent' = "suspended" /\ d' = d
      [] Demos[d] = "nohang" -> parent' = "poll" /\ d' = d
      [] Demos[d] = "zombie" -> Advance

Fork ==
    /\ parent = "fork"
    /\ proc' = [proc EXCEPT ![Demos[d]] = "running"]
    /\ AfterFork
    /\ UNCHANGED <<i, shm, shown, failed, run>>

\* fork fails: demo_fork_wait exits, main's own fork leaves -1 in o and calls
\* waitpid(-1, ...), which waits for any child; the others return.
ForkFails ==
    /\ Faults /\ parent = "fork"
    /\ CASE Demos[d] = "fork_wait" -> parent' = "exit" /\ d' = d
         [] Demos[d] = "wrapper"   -> parent' = "wait" /\ d' = d
         [] OTHER                  -> Advance
    /\ failed' = (failed \/ Demos[d] = "vfork")
    /\ UNCHANGED <<proc, i, shm, shown, run>>

\* After the wait: demo_vfork goes on to read the shared memory.
AfterWait == IF Demos[d] = "vfork" THEN parent' = "mmap" /\ d' = d ELSE Advance

\* waitpid(pid, ...): this child only.
WaitPid ==
    /\ parent = "waitpid"
    /\ proc[Demos[d]] = "zombie"
    /\ proc' = [proc EXCEPT ![Demos[d]] = "reaped"]
    /\ AfterWait
    /\ UNCHANGED <<i, shm, shown, failed, run>>

Childless == \A p \in Mine : proc[p] \in {"none", "reaped"}

\* wait(NULL) and waitpid(-1, ...): any child that has ended, or ECHILD.
Wait ==
    /\ parent = "wait"
    /\ \/ \E p \in Mine : proc[p] = "zombie" /\ proc' = [proc EXCEPT ![p] = "reaped"]
       \/ Childless /\ UNCHANGED proc
    /\ AfterWait
    /\ UNCHANGED <<i, shm, shown, failed, run>>

MorePolls == i + 1 < MaxPolls

\* waitpid(pid, ..., WNOHANG), MaxPolls times at most.
Poll ==
    /\ parent = "poll"
    /\ \/ /\ proc["nohang"] # "zombie"
          /\ i' = i + 1
          /\ IF MorePolls THEN UNCHANGED <<parent, d>> ELSE Advance
          /\ UNCHANGED proc
       \/ /\ proc["nohang"] = "zombie"
          /\ proc' = [proc EXCEPT !["nohang"] = "reaped"]
          /\ Advance
          /\ UNCHANGED i
    /\ UNCHANGED <<shm, shown, failed, run>>

\* demo_vfork maps and prints the object.
Mmap ==
    /\ parent = "mmap"
    /\ parent' = "unlink" /\ shown' = shm
    /\ UNCHANGED <<d, proc, i, shm, failed, run>>

MmapFails ==
    /\ Faults /\ parent = "mmap"
    /\ failed' = TRUE
    /\ Advance
    /\ UNCHANGED <<proc, i, shm, shown, run>>

Unlinked == "none"
ShmUnlink ==
    /\ parent = "unlink"
    /\ shm' = Unlinked
    /\ Advance
    /\ UNCHANGED <<proc, i, shown, failed, run>>

\* A signal ends the parent.
Killed ==
    /\ Faults /\ parent # "exit"
    /\ parent' = "exit"
    /\ failed' = (failed \/ shm # "none")
    /\ UNCHANGED <<d, proc, i, shm, shown, run>>

Restart ==
    /\ parent = "exit" /\ run < MaxRuns
    /\ \A p \in Mine : proc[p] \in {"none", "zombie", "reaped"}
    /\ run' = run + 1
    /\ Begin
    /\ UNCHANGED <<shm, failed>>

-----------------------------------------------------------------------------
(* The children.  Until its exec, the child of vfork has the parent waiting. *)

Resume == parent' = IF parent = "suspended" THEN "wait" ELSE parent

\* The children that only sleep and exit, the ls that demo_exec starts, and the
\* wrapper, whose exit leaves its own child to init.
ChildExit(p) ==
    /\ p \in Mine \ {"vfork"} /\ proc[p] = "running"
    /\ p = "wrapper" => proc["orphan"] # "none"
    /\ proc' = [proc EXCEPT ![p] = "zombie",
                            !["orphan"] = IF p = "wrapper" /\ @ = "zombie" THEN "reaped" ELSE @]
    /\ UNCHANGED <<parent, d, i, shm, shown, failed, run>>

\* The child of vfork: dup2 and execlp of ls, its output, and its end.
VforkExec ==
    /\ proc["vfork"] = "running"
    /\ proc' = [proc EXCEPT !["vfork"] = "execed"]
    /\ Resume
    /\ UNCHANGED <<d, i, shm, shown, failed, run>>

\* ls overwrites the beginning of what the object holds.
LsWrites ==
    /\ proc["vfork"] = "execed"
    /\ shm' = CASE shm = "empty" -> "ls" [] shm = "old" -> "ls over old" [] OTHER -> shm
    /\ proc' = [proc EXCEPT !["vfork"] = "written"]
    /\ UNCHANGED <<parent, d, i, shown, failed, run>>

LsExits ==
    /\ proc["vfork"] = "written"
    /\ proc' = [proc EXCEPT !["vfork"] = "zombie"]
    /\ UNCHANGED <<parent, d, i, shm, shown, failed, run>>

\* execlp fails, dup2 fails and ls writes to the terminal, or a signal ends the
\* child.
VforkFails ==
    /\ Faults /\ proc["vfork"] \in {"running", "execed"}
    /\ proc' = [proc EXCEPT !["vfork"] = "zombie"]
    /\ Resume
    /\ UNCHANGED <<d, i, shm, shown, failed, run>>

\* The wrapper runs demo_orphan.
WrapperForks ==
    /\ proc["wrapper"] = "running" /\ proc["orphan"] = "none"
    /\ proc' = [proc EXCEPT !["orphan"] = "running"]
    /\ UNCHANGED <<parent, d, i, shm, shown, failed, run>>

WrapperForkFails ==
    /\ Faults /\ proc["wrapper"] = "running" /\ proc["orphan"] = "none"
    /\ proc' = [proc EXCEPT !["wrapper"] = "zombie"]
    /\ UNCHANGED <<parent, d, i, shm, shown, failed, run>>

\* The orphan ends; init, or whoever adopted it, collects it.
OrphanExit ==
    /\ proc["orphan"] = "running"
    /\ proc' = [proc EXCEPT !["orphan"] = IF proc["wrapper"] = "running" THEN "zombie" ELSE "reaped"]
    /\ UNCHANGED <<parent, d, i, shm, shown, failed, run>>

-----------------------------------------------------------------------------
Parent == ShmOpen \/ Fork \/ WaitPid \/ Wait \/ Poll \/ Mmap \/ ShmUnlink
Child(p) ==
    \/ ChildExit(p)
    \/ p = "vfork" /\ (VforkExec \/ LsWrites \/ LsExits)
    \/ p = "wrapper" /\ WrapperForks
    \/ p = "orphan" /\ OrphanExit
Fault == ShmOpenFails \/ ForkFails \/ MmapFails \/ Killed \/ VforkFails \/ WrapperForkFails

Over ==
    /\ parent = "exit" /\ \A p \in Process : proc[p] \in {"none", "zombie", "reaped"}
    /\ UNCHANGED processVars

ProcessNext == Parent \/ (\E p \in Process : Child(p)) \/ Fault \/ Restart \/ Over

ProcessSpec == ProcessInit /\ [][ProcessNext]_processVars

-----------------------------------------------------------------------------
\* wait(NULL) names no child; it collects the demo's own because no earlier demo
\* leaves one.  So demo_vfork reads the shared memory after ls has ended, and the
\* children of demos 1, 2 and 6 are collected before the next demo begins.  Nothing
\* is said of demo 5, which polls for its children, and of demo 3, which leaves one.
OwnChildCollected ==
    /\ parent = "mmap" => proc["vfork"] = "reaped"
    /\ \A k \in 1 .. d - 1 :
          Demos[k] \in {"fork_wait", "exec", "vfork"} => proc[Demos[k]] \in {"none", "reaped"}

\* demo_vfork shows leftovers of an earlier run only if some run ended without
\* unlinking /test.
ShowsOwnOutput == shown \in {"old", "ls over old"} => failed
=============================================================================
