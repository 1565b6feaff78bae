------------------------------- MODULE PipeDemo -------------------------------
(***************************************************************************)
(* main of 03_ipc/pipe_demo.c: demo_anon_pipe, then demo_named_pipe.  The  *)
(* program is run several times, as in FifoDemo, because a FIFO outlives   *)
(* the run that made it.  An anonymous pipe is private to its run, so the  *)
(* first demo is followed in the first run only.                           *)
(***************************************************************************)
EXTENDS FifoDemo

CONSTANTS Length, READ_MAX

ASSUME PipeDemoAssumption == Length \in Nat \ {0} /\ READ_MAX \in Nat \ {0}

VARIABLES parent, child, readers, writers, pipe, received   \* of demo_anon_pipe

anonVars == <<parent, child, readers, writers, pipe, received>>
allVars  == <<vars, anonVars>>

Anon == INSTANCE AnonPipe WITH got <- received

DemoInit == Init /\ Anon!Init

\* A step of the anonymous pipe's two processes.
AnonDemo(A) == A /\ UNCHANGED vars

\* demo_named_pipe begins when the first demo has returned.
FifoDemoStep(r, A) == (r = 1 => parent = "done") /\ A /\ UNCHANGED anonVars

\* SIGPIPE has ended the first run in its first demo.
FirstRunLost ==
    /\ parent = "killed" /\ writer[1] = "ready"
    /\ writer' = [writer EXCEPT ![1] = "killed"]
    /\ UNCHANGED <<reader, name, rf, wf, held, got, anonVars>>

DemoNext ==
    \/ AnonDemo(Anon!Next)
    \/ FirstRunLost
    \/ \E r \in Runs : FifoDemoStep(r, Parent(r) \/ Child(r) \/ Killed(r))

\* All processes are scheduled; nothing forces a kill.
DemoFairness ==
    /\ WF_allVars(AnonDemo(Anon!Parent)) /\ WF_allVars(AnonDemo(Anon!Child))
    /\ \A r \in Runs : /\ WF_allVars(FifoDemoStep(r, Parent(r)))
                       /\ WF_allVars(FifoDemoStep(r, Child(r)))

DemoSpec == DemoInit /\ [][DemoNext]_allVars /\ DemoFairness

-----------------------------------------------------------------------------
\* The child of the anonymous pipe that meets the end of file has the whole
\* message, in order, however its reads were split.
EofAfterWholeMessage == Anon!EofAfterWholeMessage

\* The reader of an earlier run is alive, and has the FIFO open that FIFO_PATH
\* refers to, or may still open it.
Interferes(s) ==
    /\ reader[s] \notin {"none", "done", "killed"}
    /\ rf[s] \in {None, name}

\* The demos end.  The parent of the anonymous pipe gets through its waitpid:
\* the child leaves its loop.  The last run, in which nobody is killed, comes to
\* its end, and the name of the FIFO is gone, whatever the runs before it have
\* left in the file system.  The exception is a run that comes to its fork while
\* a reader of an earlier run is alive at its FIFO: EEXIST is ignored, and that
\* reader may take the message, go away with it, or leave an older one behind.
DemosEnd ==
    /\ <>(parent \in {"done", "killed"})
    /\ writer[MaxRuns] = "fork" /\ ~(\E s \in 1 .. MaxRuns - 1 : Interferes(s)) ~>
          \/ writer[MaxRuns] = "failed"
          \/ writer[MaxRuns] = "done" /\ name = None
=============================================================================
