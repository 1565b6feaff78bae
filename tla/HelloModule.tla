----------------------------- MODULE HelloModule -----------------------------
(***************************************************************************)
(* The kernel module 09_kernel_module/hello_module.c: loading, which makes *)
(* /proc/hello_module before it has all it needs, unloading, and readers   *)
(* of the file.  The parameter count can be written through sysfs at any   *)
(* moment, also while hello_seq_show, which reads it once to print it and  *)
(* once per greeting, is running.                                          *)
(*                                                                         *)
(* procfs is external.  A call into the module holds the entry in use;     *)
(* proc_remove first makes the entry refuse new calls, then waits for the  *)
(* calls in progress.  seq_read runs hello_seq_show again with a larger    *)
(* buffer if the output did not fit.                                       *)
(*                                                                         *)
(* mod: "unloaded", "init" (at proc_create), "alloc" (at kmalloc), "live", *)
(* "undo" and "exit" (proc_remove waits), "free" (at kfree).               *)
(* pc[r]: "closed", "opening" (in hello_proc_open), "open", "show" (at the *)
(* line with count), "loop" (at the loop's test).                          *)
(***************************************************************************)
EXTENDS Integers

CONSTANTS Readers,
          Counts,      \* values written to count
          MaxLoads,    \* bound: times the module is loaded
          MaxWrites,   \* bound: writes to count
          Page         \* greetings that fit the buffer seq_read starts with

VARIABLES mod, loads,
          entry,    \* "none", "live", or "dying" (refuses new calls)
          kmem,     \* kmem_buf: "none" or "held"
          count, writes,
          pc, i,    \* the readers, the loop index of each show
          header,   \* the value of count a show has printed
          size,     \* greetings that fit the buffer of a show
          lo, hi    \* least and greatest value of count since the show began

module == <<mod, loads, entry, kmem>>
param  == <<count, writes>>
show   == <<i, header, size, lo, hi>>
vars   == <<module, param, pc, show>>

Default == 3
Larger(a, b)  == IF a > b THEN a ELSE b
Smaller(a, b) == IF a < b THEN a ELSE b

Init ==
    /\ mod = "unloaded" /\ loads = 0 /\ entry = "none" /\ kmem = "none"
    /\ count = Default /\ writes = 0
    /\ pc = [r \in Readers |-> "closed"]
    /\ i = [r \in Readers |-> 0] /\ header = [r \in Readers |-> 0]
    /\ size = [r \in Readers |-> Page]
    /\ lo = [r \in Readers |-> 0] /\ hi = [r \in Readers |-> 0]

InModule(r) == pc[r] \in {"opening", "show", "loop"}
Goto(r, where) == pc' = [pc EXCEPT ![r] = where]

\* A show's locals die with it.
Clear(r) ==
    /\ i' = [i EXCEPT ![r] = 0] /\ header' = [header EXCEPT ![r] = 0]
    /\ lo' = [lo EXCEPT ![r] = 0] /\ hi' = [hi EXCEPT ![r] = 0]

-----------------------------------------------------------------------------
(* Wrong variants of definitions below, each the shape of a plausible bug. *)

\* A failed kmalloc returns without removing the entry.
KmallocFails_Left ==
    /\ mod = "alloc" /\ mod' = "unloaded"
    /\ UNCHANGED <<loads, entry, kmem, param, pc, show>>
\* The loop counts from 0 up to and including count.
More_Inclusive(r) == i[r] <= count

-----------------------------------------------------------------------------
(* hello_init *)

\* A count given to insmod is one that SetCount writes before anything else.
Insmod ==
    /\ mod = "unloaded" /\ loads < MaxLoads
    /\ mod' = "init" /\ loads' = loads + 1 /\ count' = Default
    /\ UNCHANGED <<entry, kmem, writes, pc, show>>

ProcCreate ==
    /\ mod = "init"
    /\ \/ mod' = "alloc" /\ entry' = "live"
       \/ mod' = "unloaded" /\ UNCHANGED entry
    /\ UNCHANGED <<loads, kmem, param, pc, show>>

Kmalloc ==
    /\ mod = "alloc"
    /\ mod' = "live" /\ kmem' = "held"
    /\ UNCHANGED <<loads, entry, param, pc, show>>

\* proc_remove shuts the entry to new calls.
Refuse == entry' = "dying"

KmallocFails ==
    /\ mod = "alloc"
    /\ mod' = "undo" /\ Refuse
    /\ UNCHANGED <<loads, kmem, param, pc, show>>

(* hello_exit *)

\* Nothing holds a reference: neither proc_ops nor an open file pins the module.
Rmmod ==
    /\ mod = "live"
    /\ mod' = "exit" /\ Refuse
    /\ UNCHANGED <<loads, kmem, param, pc, show>>

\* proc_remove returns when no call is in progress.
ProcRemoved ==
    /\ mod \in {"undo", "exit"} /\ \A r \in Readers : ~InModule(r)
    /\ mod' = IF mod = "undo" THEN "unloaded" ELSE "free"
    /\ entry' = "none"
    /\ UNCHANGED <<loads, kmem, param, pc, show>>

Kfree ==
    /\ mod = "free"
    /\ mod' = "unloaded" /\ kmem' = "none"
    /\ UNCHANGED <<loads, entry, param, pc, show>>

-----------------------------------------------------------------------------
(* hello_proc_open, hello_seq_show and the release *)

Open(r) ==
    /\ pc[r] = "closed" /\ entry = "live" /\ Goto(r, "opening")
    /\ UNCHANGED <<module, param, show>>

\* single_open returns, with or without memory for the seq_file.
Opened(r) ==
    /\ pc[r] = "opening" /\ (Goto(r, "open") \/ Goto(r, "closed"))
    /\ UNCHANGED <<module, param, show>>

\* A read of the file; once the entry is gone it fails without a call.
Read(r) ==
    /\ pc[r] = "open" /\ entry = "live" /\ Goto(r, "show")
    /\ UNCHANGED <<module, param, show>>

ShowHeader(r) ==
    /\ pc[r] = "show" /\ Goto(r, "loop")
    /\ header' = [header EXCEPT ![r] = count] /\ i' = [i EXCEPT ![r] = 0]
    /\ lo' = [lo EXCEPT ![r] = count] /\ hi' = [hi EXCEPT ![r] = count]
    /\ UNCHANGED <<module, param, size>>

\* The for condition: count is read again.
More(r) == i[r] < count

Greet(r) ==
    /\ pc[r] = "loop" /\ More(r)
    /\ i' = [i EXCEPT ![r] = @ + 1]
    /\ UNCHANGED <<module, param, pc, header, size, lo, hi>>

\* The output did not fit: seq_read doubles the buffer and runs the show again.
Overflow(r) ==
    /\ pc[r] = "loop" /\ ~More(r) /\ i[r] > size[r]
    /\ size' = [size EXCEPT ![r] = 2 * @] /\ Goto(r, "show")
    /\ Clear(r)
    /\ UNCHANGED <<module, param>>

\* The reader gets the output.
Delivers(r) == pc[r] = "loop" /\ ~More(r) /\ i[r] <= size[r]

Shown(r) ==
    /\ Delivers(r) /\ Goto(r, "open")
    /\ Clear(r)
    /\ UNCHANGED <<module, param, size>>

Close(r) ==
    /\ pc[r] = "open" /\ Goto(r, "closed")
    /\ size' = [size EXCEPT ![r] = Page]
    /\ UNCHANGED <<module, param, i, header, lo, hi>>

\* A write to /sys/module/hello_module/parameters/count.
SetCount(v) ==
    /\ mod # "unloaded" /\ writes < MaxWrites
    /\ count' = v /\ writes' = writes + 1
    /\ lo' = [r \in Readers |-> IF pc[r] = "loop" THEN Smaller(lo[r], v) ELSE lo[r]]
    /\ hi' = [r \in Readers |-> IF pc[r] = "loop" THEN Larger(hi[r], v) ELSE hi[r]]
    /\ UNCHANGED <<module, pc, i, header, size>>

-----------------------------------------------------------------------------
Lifecycle == Insmod \/ ProcCreate \/ Kmalloc \/ KmallocFails \/ Rmmod \/ ProcRemoved \/ Kfree
Handler(r) == Opened(r) \/ ShowHeader(r) \/ Greet(r) \/ Overflow(r) \/ Shown(r)

Next ==
    \/ Lifecycle
    \/ \E r \in Readers : Open(r) \/ Read(r) \/ Close(r) \/ Handler(r)
    \/ \E v \in Counts : SetCount(v)

Spec == Init /\ [][Next]_vars

-----------------------------------------------------------------------------
\* No code of the module runs when it is not loaded, although the file is there
\* before the load has succeeded and open files do not hold the module; a load
\* that fails, and an unload, leave neither entry nor memory.
NothingAfterUnload ==
    /\ (\E r \in Readers : InModule(r)) => entry # "none"
    /\ entry # "none" => mod \in {"alloc", "live", "undo", "exit"}
    /\ mod = "unloaded" => kmem = "none"

\* What a read prints is one pass over the loop, and the greetings are as many as
\* the line above them says unless count was written between the two; even then
\* they are no fewer and no more than some value count had in the meantime.
GreetingsInRange ==
    \A r \in Readers : Delivers(r) =>
        /\ header[r] \in lo[r] .. hi[r]
        /\ Larger(lo[r], 0) <= i[r] /\ i[r] <= Larger(hi[r], 0)

\* proc_remove returns, however often the file is opened and read again.
UnloadEnds == mod \in {"undo", "exit"} ~> mod = "unloaded"
=============================================================================
