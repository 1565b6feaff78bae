--------------------------- MODULE ProgramConstants ---------------------------
(***************************************************************************)
(* The constants of the small programs and what is assumed of them.        *)
(***************************************************************************)
EXTENDS Integers

CONSTANTS Runs,           \* TempFiles: runs of the program
          LINES,          \* TempFiles, bound: lines demo_sendfile writes (100)
          Address,        \* LeakTracker: addresses malloc may return for a block
          Sizes,          \* LeakTracker: sizes asked for
          Margins,        \* GpioDemo: timeouts of a watchdog that is there already
          MAX_RESTARTS    \* Supervisor: 5

ASSUME FilesAssumption == Runs \subseteq Nat \ {0} /\ LINES \in Nat
ASSUME TrackerAssumption == Sizes \subseteq Nat
ASSUME GpioAssumption == Margins \subseteq Nat
ASSUME SupervisorAssumption == MAX_RESTARTS \in Nat
=============================================================================
