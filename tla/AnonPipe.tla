------------------------------- MODULE AnonPipe -------------------------------
(***************************************************************************)
(* demo_anon_pipe of 03_ipc/pipe_demo.c: the parent writes one message     *)
(* into a pipe and closes it, the forked child reads until end of file.    *)
(* Both processes hold both ends after the fork; a read returns end of     *)
(* file only when nobody holds the write end any more, and a write with    *)
(* nobody holding the read end kills the writer.                           *)
(***************************************************************************)
EXTENDS Integers, Sequences

CONSTANTS Length,     \* bytes of the message (37)
          READ_MAX    \* bytes asked for by one read (127)

VARIABLES parent, child,      \* control points
          readers, writers,   \* processes that hold the read and the write end
          pipe,               \* bytes in the pipe
          got                 \* bytes the child has printed

vars == <<parent, child, readers, writers, pipe, got>>

Both == {"parent", "child"}
MessageBytes == [k \in 1 .. Length |-> k]

Init ==
    /\ parent = "pipe" /\ child = "none"
    /\ readers = {} /\ writers = {}
    /\ pipe = <<>> /\ got = <<>>

-----------------------------------------------------------------------------
(* Wrong variants of definitions below, each the shape of a plausible bug. *)

\* The child keeps its copy of the write end open.
ChildCloseW_Dropped ==
    /\ child = "closeW"
    /\ child' = "read"
    /\ UNCHANGED <<parent, readers, writers, pipe, got>>
\* The child reads once, without a loop.
ChildRead_Once ==
    /\ child = "read" /\ pipe # <<>>
    /\ LET n == IF Len(pipe) < READ_MAX THEN Len(pipe) ELSE READ_MAX
       IN  got' = got \o SubSeq(pipe, 1, n) /\ pipe' = SubSeq(pipe, n + 1, Len(pipe))
    /\ child' = "closeR"
    /\ UNCHANGED <<parent, readers, writers>>

-----------------------------------------------------------------------------
\* pipe() and fork(); either may fail, and the demo returns.
Pipe ==
    /\ parent = "pipe"
    /\ \/ parent' = "fork" /\ readers' = {"parent"} /\ writers' = {"parent"}
       \/ parent' = "done" /\ UNCHANGED <<readers, writers>>
    /\ UNCHANGED <<child, pipe, got>>

Fork ==
    /\ parent = "fork"
    /\ \/ parent' = "closeR" /\ child' = "closeW" /\ readers' = Both /\ writers' = Both
       \/ parent' = "done" /\ UNCHANGED <<child, readers, writers>>
    /\ UNCHANGED <<pipe, got>>

(* The parent *)

ParentCloseR ==
    /\ parent = "closeR"
    /\ readers' = readers \ {"parent"}
    /\ parent' = "write"
    /\ UNCHANGED <<child, writers, pipe, got>>

\* The message is shorter than PIPE_BUF: it is written at once.  Without a
\* reader SIGPIPE kills the parent.
ParentWrite ==
    /\ parent = "write"
    /\ \/ readers # {} /\ pipe' = pipe \o MessageBytes /\ parent' = "closeW" /\ UNCHANGED writers
       \/ readers = {} /\ parent' = "killed" /\ writers' = writers \ {"parent"} /\ UNCHANGED pipe
    /\ UNCHANGED <<child, readers, got>>

ParentCloseW ==
    /\ parent = "closeW"
    /\ writers' = writers \ {"parent"}
    /\ parent' = "wait"
    /\ UNCHANGED <<child, readers, pipe, got>>

Reaped == child \in {"done", "gave up", "killed"}

WaitPid ==
    /\ parent = "wait"
    /\ Reaped
    /\ parent' = "done"
    /\ UNCHANGED <<child, readers, writers, pipe, got>>

(* The child *)

ChildCloseW ==
    /\ child = "closeW"
    /\ writers' = writers \ {"child"}
    /\ child' = "read"
    /\ UNCHANGED <<parent, readers, pipe, got>>

Left(n) == SubSeq(pipe, n + 1, Len(pipe))
AtEof == pipe = <<>> /\ writers = {}

\* read returns what is there, at most READ_MAX bytes.
ChildRead ==
    /\ child = "read"
    /\ pipe # <<>>
    /\ LET n == IF Len(pipe) < READ_MAX THEN Len(pipe) ELSE READ_MAX
       IN  /\ got' = got \o SubSeq(pipe, 1, n)
           /\ pipe' = Left(n)
    /\ UNCHANGED <<parent, child, readers, writers>>

ChildEof ==
    /\ child = "read"
    /\ AtEof
    /\ child' = "closeR"
    /\ UNCHANGED <<parent, readers, writers, pipe, got>>

\* A read that fails: the child leaves the loop as it does at the end of file.
ChildReadFails ==
    /\ child = "read"
    /\ child' = "errorR"
    /\ UNCHANGED <<parent, readers, writers, pipe, got>>

ChildCloseR ==
    /\ \/ child = "closeR" /\ child' = "done"
       \/ child = "errorR" /\ child' = "gave up"
    /\ readers' = readers \ {"child"}
    /\ UNCHANGED <<parent, writers, pipe, got>>

ChildKilled ==
    /\ child \in {"closeW", "read", "closeR", "errorR"}
    /\ child' = "killed"
    /\ readers' = readers \ {"child"} /\ writers' = writers \ {"child"}
    /\ UNCHANGED <<parent, pipe, got>>

-----------------------------------------------------------------------------
Parent == Pipe \/ Fork \/ ParentCloseR \/ ParentWrite \/ ParentCloseW \/ WaitPid
Child  == ChildCloseW \/ ChildRead \/ ChildEof \/ ChildCloseR

Next == Parent \/ Child \/ ChildReadFails \/ ChildKilled

Spec == Init /\ [][Next]_vars

-----------------------------------------------------------------------------
\* "EOF - child's read() will return": a child that leaves its loop at the end of
\* file has the whole message, in order, however its reads were split.
EofAfterWholeMessage == child \in {"closeR", "done"} => got = MessageBytes
=============================================================================
