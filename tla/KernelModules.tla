---------------------------- MODULE KernelModules ----------------------------
(***************************************************************************)
(* The two kernel modules of the repository, chardev.c and hello_module.c. *)
(* They share no state, so a behaviour loads one of them; the variables of *)
(* HelloModule carry the prefix h_ where the names would clash.            *)
(***************************************************************************)
EXTENDS Chardev

CONSTANTS Readers, Counts, MaxWrites, Page

ASSUME CountsAssumption == Counts \subseteq Int    \* count is an int

VARIABLES driver,    \* "chardev" or "hello"
          h_mod, h_loads, entry, kmem, count, writes, h_pc, i, header, size, lo, hi

helloVars == <<h_mod, h_loads, entry, kmem, count, writes, h_pc, i, header, size, lo, hi>>
allVars   == <<driver, vars, helloVars>>

Hello == INSTANCE HelloModule WITH mod <- h_mod, loads <- h_loads, pc <- h_pc

KernelInit == driver \in {"chardev", "hello"} /\ Init /\ Hello!Init

HelloNext ==
    \/ Hello!Next
    \/ h_mod = "unloaded" /\ h_loads = MaxLoads /\ UNCHANGED helloVars

KernelNext ==
    \/ driver = "chardev" /\ Next /\ UNCHANGED <<driver, helloVars>>
    \/ driver = "hello" /\ HelloNext /\ UNCHANGED <<driver, vars>>

\* The fairness of Chardev; a call into hello_module runs on, and so does the
\* task in proc_remove or kfree.
KernelSpec ==
    /\ KernelInit /\ [][KernelNext]_allVars
    /\ Fairness
    /\ WF_helloVars(Hello!ProcRemoved \/ Hello!Kfree)
    /\ \A r \in Readers : WF_helloVars(Hello!Handler(r))

-----------------------------------------------------------------------------
\* No code of hello_module runs when it is not loaded, and no failed load or
\* unload leaves its entry or memory.
NothingAfterUnload == Hello!NothingAfterUnload

\* A read of /proc/hello_module prints as many greetings as its count line says,
\* unless count is written in between.
GreetingsInRange == Hello!GreetingsInRange

\* Every call into either module returns, and so does the unload of hello_module,
\* which waits for the calls in progress and not for open files.
CallsAndUnloadsReturn == CallsReturn /\ Hello!UnloadEnds
=============================================================================
