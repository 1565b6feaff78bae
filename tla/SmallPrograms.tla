---------------------------- MODULE SmallPrograms ----------------------------
(***************************************************************************)
(* The programs of the repository that are small and share nothing: one of *)
(* them runs in a behaviour.                                               *)
(***************************************************************************)
EXTENDS TempFiles

VARIABLES running,    \* "files", "tracker", "gpio" or "supervisor"
          g_alloc_list, g_total_allocated, blocks, crashed,
          g_pc, i, nap, margin, left, wrote, late, killed,
          s_pc, restart_count, starting, up, reason, missed

trackerVars == <<g_alloc_list, g_total_allocated, blocks, crashed>>
gpioVars    == <<g_pc, i, nap, margin, left, wrote, late, killed>>
supVars     == <<s_pc, restart_count, starting, up, reason, missed>>
allVars     == <<running, vars, trackerVars, gpioVars, supVars>>

Tracker == INSTANCE LeakTracker
Gpio    == INSTANCE GpioDemo WITH pc <- g_pc
Sup     == INSTANCE Supervisor WITH pc <- s_pc

ProgramsInit ==
    /\ running \in {"files", "tracker", "gpio", "supervisor"}
    /\ Init /\ Tracker!Init /\ Gpio!Init /\ Sup!Init
    /\ running # "files" => program = "fileio"
    /\ running # "gpio" => margin = 0
    /\ running # "supervisor" => up = 1 /\ s_pc = "check"

\* A step of each program.
Files   == running = "files" /\ Next /\ UNCHANGED <<running, trackerVars, gpioVars, supVars>>
Track   == running = "tracker" /\ Tracker!Next /\ UNCHANGED <<running, vars, gpioVars, supVars>>
Demo(A) == running = "gpio" /\ A /\ UNCHANGED <<running, vars, trackerVars, supVars>>
Watch(A) == running = "supervisor" /\ A /\ UNCHANGED <<running, vars, trackerVars, gpioVars>>

ProgramsNext == Files \/ Track \/ Demo(Gpio!Next) \/ Watch(Sup!Next)

\* Time passes, and the script runs.
ProgramsSpec ==
    /\ ProgramsInit /\ [][ProgramsNext]_allVars
    /\ WF_allVars(Demo(Gpio!Tick))
    /\ WF_allVars(Watch(Sup!Script))

-----------------------------------------------------------------------------
\* check_leaks reports exactly the blocks that tracked_malloc gave out and that
\* were not given to tracked_free.
TrackerExact == Tracker!TrackerExact

\* The watchdog resets the machine if watchdog_demo was killed after it opened the
\* device and before it wrote "V", and otherwise only if the demo was kept from
\* running while it had the device open.
ResetIfAbandoned == [](Gpio!NoNeedlessReboot /\ Gpio!AbandonedReboots)

\* watchdog.sh keeps one process running until it has used up its restarts.
KeepsOneRunning == [](Sup!OneProcess /\ Sup!Restarts)
=============================================================================
