---------------------------- MODULE WorkerThreads ----------------------------
(***************************************************************************)
(* Demos 1 and 5 of 02_threads/thread_demo.c: main creates threads, hands  *)
(* each its id, and joins them in order.  A thread of demo 1 returns ten   *)
(* times the id it was passed; a thread of demo 5 increments its own copy  *)
(* of tls_counter Incs times and prints it.                                *)
(*                                                                         *)
(* pc[t]: "none" (not created), "run", "done".  main: threads created,     *)
(* then number of threads plus threads joined; -1 after an exit.  The      *)
(* variables of demo 5 begin with t; tpc[t] is -1, then the increments     *)
(* done, then Incs + 1 when the thread has printed.                        *)
(***************************************************************************)
EXTENDS ThreadConstants

VARIABLES pc, retval, shown, main, tpc, tls_counter, tshown, tmain

basicVars == <<pc, retval, shown, main>>
tlsVars   == <<tpc, tls_counter, tshown, tmain>>

Worker    == 0 .. N_THREADS - 1
TlsWorker == 1 .. NT
Incs      == 5

Init ==
    /\ pc = [t \in Worker |-> "none"] /\ retval = [t \in Worker |-> 0]
    /\ shown = <<>> /\ main = 0
    /\ tpc = [t \in TlsWorker |-> -1] /\ tls_counter = [t \in TlsWorker |-> 0]
    /\ tshown = [t \in TlsWorker |-> 0] /\ tmain = 0

-----------------------------------------------------------------------------
(* basic_worker and demo_basic_threads *)

\* What the thread finds in its argument: i, passed by value in the pointer.
Arg(t) == t

BasicWorker(t) ==
    /\ pc[t] = "run"
    /\ retval' = [retval EXCEPT ![t] = Arg(t) * 10]
    /\ pc' = [pc EXCEPT ![t] = "done"]
    /\ UNCHANGED <<shown, main, tlsVars>>

Create ==
    /\ main \in Worker
    /\ \/ main' = main + 1 /\ pc' = [pc EXCEPT ![main] = "run"]
       \/ main' = -1 /\ UNCHANGED pc     \* pthread_create fails: exit(1)
    /\ UNCHANGED <<retval, shown, tlsVars>>

Join ==
    /\ main \in N_THREADS .. 2 * N_THREADS - 1 /\ pc[main - N_THREADS] = "done"
    /\ shown' = Append(shown, retval[main - N_THREADS])
    /\ main' = main + 1
    /\ UNCHANGED <<pc, retval, tlsVars>>

(* tls_worker and demo_tls *)

\* The thread whose copy of tls_counter t uses.
Copy(t) == t

\* The loop of increments, one step each, then the print.
TlsRun(t) ==
    /\ tpc[t] \in 0 .. Incs
    /\ tpc' = [tpc EXCEPT ![t] = @ + 1]
    /\ \/ /\ tpc[t] < Incs
          /\ tls_counter' = [tls_counter EXCEPT ![Copy(t)] = @ + 1]
          /\ UNCHANGED tshown
       \/ /\ tpc[t] = Incs
          /\ tshown' = [tshown EXCEPT ![t] = tls_counter[Copy(t)]]
          /\ UNCHANGED tls_counter
    /\ UNCHANGED <<tmain, basicVars>>

TlsCreate ==
    /\ tmain \in 0 .. NT - 1
    /\ \/ tmain' = tmain + 1 /\ tpc' = [tpc EXCEPT ![tmain + 1] = 0]
       \/ tmain' = -1 /\ UNCHANGED tpc     \* CHECK exits
    /\ UNCHANGED <<tls_counter, tshown, basicVars>>

TlsJoin ==
    /\ tmain \in NT .. 2 * NT - 1 /\ tpc[tmain - NT + 1] = Incs + 1
    /\ tmain' = tmain + 1
    /\ UNCHANGED <<tpc, tls_counter, tshown, basicVars>>

-----------------------------------------------------------------------------
BasicNext == (\E t \in Worker : BasicWorker(t)) \/ Create \/ Join
TlsNext   == (\E t \in TlsWorker : TlsRun(t)) \/ TlsCreate \/ TlsJoin

BasicReturned == main = 2 * N_THREADS
TlsReturned   == tmain = 2 * NT
Exited        == main = -1 \/ tmain = -1

\* What the two demos print: every join of demo 1 gives main the result for the id
\* it passed to that thread, in order, and every thread of demo 5 prints its own
\* increments only.
OwnResults ==
    /\ shown = [k \in 1 .. N_THREADS |-> (k - 1) * 10]
    /\ \A t \in TlsWorker : tshown[t] = Incs
=============================================================================
