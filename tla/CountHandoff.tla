----------------------------- MODULE CountHandoff -----------------------------
(***************************************************************************)
(* demo_cond_var2 of 02_threads/thread_demo.c: one producer and one        *)
(* consumer move a bare count up and down.  Unlike Demo 3, each thread     *)
(* takes the mutex once and keeps it for its whole loop, so the only       *)
(* points where the other can run are inside pthread_cond_wait.            *)
(*                                                                         *)
(* pc[t]: "lock", "test" (owns the mutex, at the while condition), "wait"  *)
(* (in pthread_cond_wait), "relock" (woken, taking the mutex again),       *)
(* "unlock" (loop finished), "done".                                       *)
(***************************************************************************)
EXTENDS ThreadConstants

VARIABLES count, lock, pc, i

vars == <<count, lock, pc, i>>

Thread == {"producer", "consumer"}
Other(t) == IF t = "producer" THEN "consumer" ELSE "producer"

Init ==
    /\ count = 0
    /\ lock = "free"
    /\ pc = [t \in Thread |-> "lock"]
    /\ i = [t \in Thread |-> 0]

-----------------------------------------------------------------------------
(* Wrong variants of definitions below, each the shape of a plausible bug. *)

\* pthread_cond_signal on the condition variable nobody waits on.
Signal_Wrong(t) == pc' = [pc EXCEPT ![t] = IF i[t] + 1 < Rounds THEN "test" ELSE "unlock"]

-----------------------------------------------------------------------------
\* The while conditions of the two loops.
MustWait(t) == IF t = "producer" THEN count > Limit ELSE count = 0

\* The for conditions, after i++.
Again(t) == i[t] + 1 < Rounds

Free == lock = "free"

\* pthread_mutex_lock, or the end of pthread_cond_wait.
Lock(t) ==
    /\ pc[t] \in {"lock", "relock"}
    /\ Free
    /\ lock' = t
    /\ pc' = [pc EXCEPT ![t] = "test"]
    /\ UNCHANGED <<count, i>>

Wait(t) ==
    /\ pc[t] = "test"
    /\ MustWait(t)
    /\ lock' = "free"
    /\ pc' = [pc EXCEPT ![t] = "wait"]
    /\ UNCHANGED <<count, i>>

\* POSIX lets pthread_cond_wait return without a signal.
Spurious(t) ==
    /\ pc[t] = "wait"
    /\ pc' = [pc EXCEPT ![t] = "relock"]
    /\ UNCHANGED <<count, lock, i>>

\* pthread_cond_signal wakes the other thread if it waits; t goes round its
\* loop or leaves it.
Signal(t) ==
    pc' = [pc EXCEPT ![t] = IF Again(t) THEN "test" ELSE "unlock",
                     ![Other(t)] = IF @ = "wait" THEN "relock" ELSE @]

\* One iteration: count++ or count--, signal, i++.
Step(t) ==
    /\ pc[t] = "test"
    /\ ~MustWait(t)
    /\ count' = IF t = "producer" THEN count + 1 ELSE count - 1
    /\ Signal(t)
    /\ i' = [i EXCEPT ![t] = @ + 1]
    /\ UNCHANGED lock

Unlock(t) ==
    /\ pc[t] = "unlock"
    /\ lock' = "free"
    /\ pc' = [pc EXCEPT ![t] = "done"]
    /\ UNCHANGED <<count, i>>

AllDone == \A t \in Thread : pc[t] = "done"

\* demo_cond_var2 joins both threads and returns.
Join == AllDone /\ UNCHANGED vars

Run(t) == Wait(t) \/ Step(t) \/ Unlock(t)

Next == (\E t \in Thread : Lock(t) \/ Run(t) \/ Spurious(t)) \/ Join

Spec == Init /\ [][Next]_vars

-----------------------------------------------------------------------------
TypeOK ==
    /\ count \in 0 .. Limit + 1
    /\ lock \in Thread \cup {"free"}
    /\ pc \in [Thread -> {"lock", "test", "wait", "relock", "unlock", "done"}]
    /\ i \in [Thread -> 0 .. Rounds]

\* A thread owns the mutex exactly between its lock and the wait or unlock that
\* gives it up.
LockInv == \A t \in Thread : pc[t] \in {"test", "unlock"} <=> lock = t

\* count is what has been pushed and not popped, so it is 0 when both loops are
\* over; it can reach Limit + 1 because the producer tests count > Limit.
CountInv ==
    /\ count = i["producer"] - i["consumer"]
    /\ \A t \in Thread : pc[t] \in {"unlock", "done"} <=> i[t] = Rounds

\* A thread asleep in pthread_cond_wait is there for a reason that still holds:
\* no signal was missed, and since the reasons exclude each other the two
\* threads never sleep at once.
WaitJustified == \A t \in Thread : pc[t] = "wait" => MustWait(t)

\* Once one thread is done the other is never left asleep with nobody to wake it.
NoOrphanedSleeper == \A t \in Thread : pc[t] = "done" => pc[Other(t)] # "wait"
=============================================================================
