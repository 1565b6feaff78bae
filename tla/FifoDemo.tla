------------------------------- MODULE FifoDemo -------------------------------
(***************************************************************************)
(* demo_named_pipe of 03_ipc/pipe_demo.c: a parent and its forked child    *)
(* meet at a FIFO, the parent writes one message and the child reads it.   *)
(*                                                                         *)
(* The FIFO is a name in the file system: a run that is killed leaves it   *)
(* behind, possibly with its child still waiting in open(), and the next   *)
(* run uses it because EEXIST is ignored.  Runs are numbered 1 .. MaxRuns  *)
(* and start one after the other; a FIFO is named after its creator.       *)
(*                                                                         *)
(* writer (parent): "ready", "fork", "open", "opening" (blocked in open),  *)
(* "write", "close", "wait", "unlink", "done", "killed", "failed".         *)
(* reader (child): "none", "open", "opening", "read", "close", "done",     *)
(* "killed".                                                               *)
(***************************************************************************)
EXTENDS Integers, Sequences

CONSTANTS MaxRuns,   \* bound: how often the program is started
          Killable   \* the runs whose processes may be killed

ASSUME FifoDemoAssumption == MaxRuns \in Nat \ {0} /\ Killable \subseteq 1 .. MaxRuns

VARIABLES writer, reader,     \* control points, per run
          name,               \* the FIFO that FIFO_PATH refers to
          rf, wf,             \* the FIFO each reader / writer has open
          held,               \* messages in each FIFO
          got                 \* what each reader's read returned

vars == <<writer, reader, name, rf, wf, held, got>>

Runs == 1 .. MaxRuns
None == 0
Pending == <<None>>    \* got before the read has returned

Init ==
    /\ writer = [r \in Runs |-> "ready"]
    /\ reader = [r \in Runs |-> "none"]
    /\ name = None
    /\ rf = [r \in Runs |-> None] /\ wf = [r \in Runs |-> None]
    /\ held = [f \in Runs |-> <<>>]
    /\ got = [r \in Runs |-> Pending]

WriterGone(r) == writer[r] \in {"done", "killed", "failed"}
Users(of, f) == {r \in Runs : of[r] = f}
Writer(r, from, to) == writer[r] = from /\ writer' = [writer EXCEPT ![r] = to]
Reader(r, from, to) == reader[r] = from /\ reader' = [reader EXCEPT ![r] = to]

\* With nobody left on either end, what a FIFO holds is discarded.
Kept(R, W) == [f \in Runs |-> IF Users(R, f) \cup Users(W, f) = {} THEN <<>> ELSE held[f]]

-----------------------------------------------------------------------------
(* Wrong variants of definitions below, each the shape of a plausible bug. *)

\* The message is sent again until somebody seems to have read it.
Write_Again(r) ==
    /\ Writer(r, "write", "write") \/ Writer(r, "write", "close")
    /\ Users(rf, wf[r]) # {} /\ held[wf[r]] = <<>>
    /\ held' = [held EXCEPT ![wf[r]] = <<r>>]
    /\ UNCHANGED <<reader, name, rf, wf, got>>

-----------------------------------------------------------------------------
\* mkfifo, ignoring EEXIST; after any other failure the demo returns.
MkFifo(r) ==
    /\ r > 1 => WriterGone(r - 1)
    /\ \/ Writer(r, "ready", "fork") /\ name' = IF name = None THEN r ELSE name
       \/ Writer(r, "ready", "failed") /\ UNCHANGED name
    /\ UNCHANGED <<reader, rf, wf, held, got>>

Fork(r) ==
    /\ \/ Writer(r, "fork", "open") /\ reader' = [reader EXCEPT ![r] = "open"]
       \/ Writer(r, "fork", "failed") /\ UNCHANGED reader
    /\ UNCHANGED <<name, rf, wf, held, got>>

\* An open of one end lets every open that waits for that end return.
Released(S, who, to) ==
    [r \in Runs |-> IF r \in S /\ who[r] = "opening" THEN to ELSE who[r]]

\* open looks the name up, and blocks until the other end is open too.
OpenRead(r) ==
    /\ name # None
    /\ rf' = [rf EXCEPT ![r] = name]
    /\ writer' = Released(Users(wf, name), writer, "write")
    /\ Reader(r, "open", IF Users(wf, name) = {} THEN "opening" ELSE "read")
    /\ UNCHANGED <<name, wf, held, got>>

OpenWrite(r) ==
    /\ name # None
    /\ wf' = [wf EXCEPT ![r] = name]
    /\ reader' = Released(Users(rf, name), reader, "read")
    /\ Writer(r, "open", IF Users(rf, name) = {} THEN "opening" ELSE "write")
    /\ UNCHANGED <<name, rf, held, got>>

\* A reader that was overtaken by the unlink of a later run finds no FIFO.  The
\* failure is not noticed: read fails too and the terminator is stored in front
\* of the buffer, which the process survives or not.
OpenReadFails(r) ==
    /\ name = None
    /\ Reader(r, "open", "done") \/ Reader(r, "open", "killed")
    /\ UNCHANGED <<writer, name, rf, wf, held, got>>

Closed(of, r) == [of EXCEPT ![r] = None]

\* Without a reader, SIGPIPE kills the writer.
Write(r) ==
    /\ \/ /\ Users(rf, wf[r]) # {}
          /\ Writer(r, "write", "close")
          /\ held' = [held EXCEPT ![wf[r]] = Append(@, r)]
          /\ UNCHANGED wf
       \/ /\ Users(rf, wf[r]) = {}
          /\ Writer(r, "write", "killed")
          /\ wf' = Closed(wf, r)
          /\ held' = Kept(rf, wf')
    /\ UNCHANGED <<reader, name, rf, got>>

CloseWrite(r) ==
    /\ Writer(r, "close", "wait")
    /\ wf' = Closed(wf, r)
    /\ held' = Kept(rf, wf')
    /\ UNCHANGED <<reader, name, rf, got>>

WaitPid(r) ==
    /\ Writer(r, "wait", "unlink")
    /\ reader[r] \in {"done", "killed"}
    /\ UNCHANGED <<reader, name, rf, wf, held, got>>

Unlink(r) ==
    /\ Writer(r, "unlink", "done")
    /\ name' = None
    /\ UNCHANGED <<reader, rf, wf, held, got>>

\* One read: everything in the FIFO, or end of file if it is empty and has no
\* writer.
EndOfFile(r) == Users(wf, rf[r]) = {}
Taken(f) == [held EXCEPT ![f] = <<>>]

Read(r) ==
    /\ Reader(r, "read", "close")
    /\ held[rf[r]] # <<>> \/ EndOfFile(r)
    /\ got' = [got EXCEPT ![r] = held[rf[r]]]
    /\ held' = Taken(rf[r])
    /\ UNCHANGED <<writer, name, rf, wf>>

CloseRead(r) ==
    /\ Reader(r, "close", "done")
    /\ rf' = Closed(rf, r)
    /\ held' = Kept(rf', wf)
    /\ UNCHANGED <<writer, name, wf, got>>

Killed(r) ==
    /\ r \in Killable
    /\ \/ /\ ~WriterGone(r) /\ writer[r] # "ready"
          /\ writer' = [writer EXCEPT ![r] = "killed"]
          /\ wf' = [wf EXCEPT ![r] = None]
          /\ UNCHANGED <<reader, rf>>
       \/ /\ reader[r] \notin {"none", "done", "killed"}
          /\ reader' = [reader EXCEPT ![r] = "killed"]
          /\ rf' = [rf EXCEPT ![r] = None]
          /\ UNCHANGED <<writer, wf>>
    /\ held' = Kept(rf', wf')
    /\ UNCHANGED <<name, got>>

-----------------------------------------------------------------------------
Parent(r) ==
    MkFifo(r) \/ Fork(r) \/ OpenWrite(r) \/ Write(r) \/ CloseWrite(r) \/ WaitPid(r) \/ Unlink(r)
Child(r) == OpenRead(r) \/ OpenReadFails(r) \/ Read(r) \/ CloseRead(r)

Next == \E r \in Runs : Parent(r) \/ Child(r) \/ Killed(r)

Spec == Init /\ [][Next]_vars

-----------------------------------------------------------------------------
\* However runs are killed and restarted, a message is read at most once.
ReadAtMostOnce ==
    \A r, s, u \in Runs :
        r \in {got[s][k] : k \in DOMAIN got[s]} \cap {got[u][k] : k \in DOMAIN got[u]} => s = u
=============================================================================
