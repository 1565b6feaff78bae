---------------------------- MODULE MutexCounter -----------------------------
(***************************************************************************)
(* Demo 2 of 02_threads/thread_demo.c: the main thread creates N threads   *)
(* that add to g_counter under one mutex, joins them in order and compares *)
(* the counter with N * ITERS.  g_counter++ is a load and a store.         *)
(*                                                                         *)
(* pc[t]: "none" (not created), "lock", "load", "store", "unlock", "done". *)
(* main: the index of the thread it creates (1..N), then N plus the index  *)
(* of the thread it joins; 2N + 1 when it prints; 0 if it has exited.      *)
(***************************************************************************)
EXTENDS ThreadConstants, FiniteSets

VARIABLES g_counter, mutex, pc,
          i,       \* loop index of each thread
          tmp,     \* value a thread has loaded
          main

vars == <<g_counter, mutex, pc, i, tmp, main>>

Thread == 1 .. N
Free == 0

Init ==
    /\ g_counter = 0 /\ mutex = Free
    /\ pc = [t \in Thread |-> "none"]
    /\ i = [t \in Thread |-> 0] /\ tmp = [t \in Thread |-> 0]
    /\ main = 1

-----------------------------------------------------------------------------
(* Wrong variants of definitions below, each the shape of a plausible bug. *)

\* counter_increment without pthread_mutex_lock.
Lock_Dropped(t) ==
    /\ pc[t] = "lock" /\ pc' = [pc EXCEPT ![t] = "load"]
    /\ UNCHANGED <<g_counter, mutex, i, tmp, main>>

-----------------------------------------------------------------------------
(* counter_increment *)

Goto(t, where) == pc' = [pc EXCEPT ![t] = where]

Lock(t) ==
    /\ pc[t] = "lock" /\ mutex = Free
    /\ mutex' = t
    /\ Goto(t, "load")
    /\ UNCHANGED <<g_counter, i, tmp, main>>

Load(t) ==
    /\ pc[t] = "load"
    /\ tmp' = [tmp EXCEPT ![t] = g_counter]
    /\ Goto(t, "store")
    /\ UNCHANGED <<g_counter, mutex, i, main>>

Store(t) ==
    /\ pc[t] = "store"
    /\ g_counter' = tmp[t] + 1
    /\ tmp' = [tmp EXCEPT ![t] = 0]
    /\ Goto(t, "unlock")
    /\ UNCHANGED <<mutex, i, main>>

Again(t) == i[t] + 1 < ITERS

Unlock(t) ==
    /\ pc[t] = "unlock"
    /\ mutex' = Free
    /\ i' = [i EXCEPT ![t] = @ + 1]
    /\ Goto(t, IF Again(t) THEN "lock" ELSE "done")
    /\ UNCHANGED <<g_counter, tmp, main>>

(* demo_mutex *)

Create ==
    /\ main \in 1 .. N
    /\ Goto(main, "lock")
    /\ main' = main + 1
    /\ UNCHANGED <<g_counter, mutex, i, tmp>>

\* CHECK exits the process, and with it every thread, if pthread_create fails.
CreateFails ==
    /\ main \in 1 .. N
    /\ main' = 0
    /\ pc' = [t \in Thread |-> "none"]
    /\ UNCHANGED <<g_counter, mutex, i, tmp>>

Ended(t) == pc[t] = "done"

Join ==
    /\ main \in N + 1 .. 2 * N
    /\ Ended(main - N)
    /\ main' = main + 1
    /\ UNCHANGED <<g_counter, mutex, pc, i, tmp>>

\* demo_mutex has joined its threads; the process has exited.
Returned == main = 2 * N + 1
Exited   == main = 0

Run(t) == Load(t) \/ Store(t) \/ Unlock(t)
Main == Create \/ CreateFails \/ Join

Next == (\E t \in Thread : Lock(t) \/ Run(t)) \/ Main

Spec == Init /\ [][Next]_vars

-----------------------------------------------------------------------------
\* The increments stored so far: thread t has stored its first Stores(t).
Stores(t) == i[t] + (IF pc[t] = "unlock" THEN 1 ELSE 0)
Stored    == {s \in Thread \X (1 .. ITERS) : s[2] <= Stores(s[1])}

\* No increment is lost while the threads interleave: the counter is the number
\* of increments stored, a value a thread has loaded is still current, and main
\* looks at the counter after the last increment, so that it prints CORRECT.
NoLostUpdate ==
    main # 0 =>
        /\ g_counter = Cardinality(Stored)
        /\ \A t \in Thread : pc[t] = "store" => tmp[t] = g_counter
        /\ Returned => g_counter = N * ITERS
=============================================================================
