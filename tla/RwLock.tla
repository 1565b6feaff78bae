------------------------------- MODULE RwLock -------------------------------
(***************************************************************************)
(* Demo 4 of 02_threads/thread_demo.c: readers and writers of g_shared_val *)
(* under a read-write lock.  The lock is the C library's default kind: a   *)
(* reader may take it whenever no writer holds it, also while writers      *)
(* wait.                                                                   *)
(*                                                                         *)
(* pc[t]: "none", "lock", "use" (holds the lock), "print" (writer: has     *)
(* stored), "unlock", "done".  main counts the threads created, then the   *)
(* threads joined; it is 0 after an exit.                                  *)
(***************************************************************************)
EXTENDS ThreadConstants

VARIABLES g_shared_val, pc,
          shown,   \* what a thread has printed, while it holds the lock
          main     \* next position in Created, then in Joined

vars == <<g_shared_val, pc, shown, main>>

WriterIds == {Writers[k] : k \in DOMAIN Writers}
ReaderIds == 1 .. NR
Thread == ReaderIds \cup WriterIds
Total == NR + Len(Writers)

\* The writers are created first and joined last.
Created == Writers \o [k \in 1 .. NR |-> k]
Joined  == [k \in 1 .. NR |-> k] \o Writers

Init ==
    /\ g_shared_val = 0
    /\ pc = [t \in Thread |-> "none"]
    /\ shown = [t \in Thread |-> -1]
    /\ main = 1

Holding == {t \in Thread : pc[t] \in {"use", "print", "unlock"}}

-----------------------------------------------------------------------------
(* Wrong variants of definitions below, each the shape of a plausible bug. *)

\* The writer takes the lock for reading.
WrLock_Shared(t) ==
    /\ t \in WriterIds /\ pc[t] = "lock" /\ Holding \cap WriterIds = {}
    /\ pc' = [pc EXCEPT ![t] = "use"] /\ UNCHANGED <<g_shared_val, shown, main>>
\* A reader reads for ever.
AfterRead_Again == "lock"

-----------------------------------------------------------------------------
Goto(t, where) == pc' = [pc EXCEPT ![t] = where]
Forget(t) == shown' = [shown EXCEPT ![t] = -1]

CanRead  == Holding \cap WriterIds = {}
CanWrite == Holding = {}

RdLock(t) == t \in ReaderIds /\ pc[t] = "lock" /\ CanRead /\ Goto(t, "use")
             /\ UNCHANGED <<g_shared_val, shown, main>>

WrLock(t) == t \in WriterIds /\ pc[t] = "lock" /\ CanWrite /\ Goto(t, "use")
             /\ UNCHANGED <<g_shared_val, shown, main>>

\* The reader prints the value, then sleeps with the lock held.
Read(t) ==
    /\ t \in ReaderIds /\ pc[t] = "use"
    /\ shown' = [shown EXCEPT ![t] = g_shared_val]
    /\ Goto(t, "unlock")
    /\ UNCHANGED <<g_shared_val, main>>

NewValue(t) == t * 100

Write(t) ==
    /\ t \in WriterIds /\ pc[t] = "use"
    /\ g_shared_val' = NewValue(t)
    /\ Goto(t, "print")
    /\ UNCHANGED <<shown, main>>

\* The writer reads the variable again to print it.
Show(t) ==
    /\ pc[t] = "print"
    /\ shown' = [shown EXCEPT ![t] = g_shared_val]
    /\ Goto(t, "unlock")
    /\ UNCHANGED <<g_shared_val, main>>

AfterRead == "done"

ReaderUnlock(t) == t \in ReaderIds /\ pc[t] = "unlock" /\ Goto(t, AfterRead)
                   /\ Forget(t) /\ UNCHANGED <<g_shared_val, main>>

WriterUnlock(t) == t \in WriterIds /\ pc[t] = "unlock" /\ Goto(t, "done")
                   /\ Forget(t) /\ UNCHANGED <<g_shared_val, main>>

(* demo_rwlock *)

Create ==
    /\ main \in 1 .. Total
    /\ Goto(Created[main], "lock")
    /\ main' = main + 1
    /\ UNCHANGED <<g_shared_val, shown>>

\* CHECK exits the process, and with it every thread, if pthread_create fails.
CreateFails ==
    /\ main \in 1 .. Total
    /\ main' = 0
    /\ pc' = [t \in Thread |-> "none"]
    /\ UNCHANGED <<g_shared_val, shown>>

Join ==
    /\ main \in Total + 1 .. 2 * Total
    /\ pc[Joined[main - Total]] = "done"
    /\ main' = main + 1
    /\ UNCHANGED <<g_shared_val, pc, shown>>

\* demo_rwlock has joined its threads; the process has exited.
Returned == main = 2 * Total + 1
Exited   == main = 0

Main == Create \/ CreateFails \/ Join
Acquire(t) == RdLock(t) \/ WrLock(t)
Run(t) == Read(t) \/ Write(t) \/ Show(t) \/ ReaderUnlock(t) \/ WriterUnlock(t)

Next == (\E t \in Thread : Acquire(t) \/ Run(t)) \/ Main

Spec == Init /\ [][Next]_vars

-----------------------------------------------------------------------------
\* The value does not change under a reader that holds the lock, and a writer
\* prints the value it stored, although it reads the variable a second time.
StableUnderLock ==
    /\ \A t \in ReaderIds : pc[t] = "unlock" => shown[t] = g_shared_val
    /\ \A t \in WriterIds : shown[t] \in {-1, 100 * t}
=============================================================================
