------------------------------- MODULE GpioDemo -------------------------------
(***************************************************************************)
(* 15_gpio/gpio_demo.c: the toggling of a line, the hardware watchdog and  *)
(* the wait for edges, one after the other, by a process that may be       *)
(* delayed or killed at any moment.                                        *)
(*                                                                         *)
(* The watchdog driver is external: opening /dev/watchdog starts its timer *)
(* of `margin' seconds, a write restarts it, and closing the device stops  *)
(* it only if the last write was "V".  A clock tick is a second.           *)
(***************************************************************************)
EXTENDS ProgramConstants

VARIABLES pc,        \* control point of the program; "killed"
          i,         \* index of the loop it is in
          nap,       \* seconds it still has to sleep
          margin,    \* the driver's timeout, 0 if there is no /dev/watchdog
          left,      \* seconds until the machine is reset, -1 when the timer is off
          wrote,     \* what was written last since the device was opened
          late,      \* history: seconds since the last kick that were not slept
          killed     \* history: the control point at which the process was killed, "no"

vars == <<pc, i, nap, margin, left, wrote, late, killed>>
dog  == <<margin, left, wrote, late, killed>>

Toggles == 4
Kicks   == 5

Init ==
    /\ pc = "chip" /\ i = 0 /\ nap = 0
    /\ margin \in Margins \cup {0} /\ left = -1 /\ wrote = "nothing"
    /\ late = 0 /\ killed = "no"

Reset == left = 0
Alive == pc # "killed" /\ ~Reset
At(where) == Alive /\ nap = 0 /\ pc = where

-----------------------------------------------------------------------------
(* Wrong variants of definitions below, each the shape of a plausible bug. *)

\* The loop kicks the watchdog with the byte that permits the close.
Kick_V ==
    /\ At("kick")
    /\ IF i < Kicks
       THEN i' = i + 1 /\ nap' = 1 /\ left' = margin /\ wrote' = "V" /\ late' = 0 /\ UNCHANGED pc
       ELSE i' = 0 /\ pc' = "V" /\ UNCHANGED <<nap, left, wrote, late>>
    /\ UNCHANGED <<margin, killed>>

-----------------------------------------------------------------------------
(* demo_toggle_gpio: the demo returns if there is no chip or no line *)

ChipAndLine ==
    /\ At("chip") /\ pc' \in {"toggle", "access"}
    /\ UNCHANGED <<i, nap, dog>>
Toggle ==
    /\ At("toggle")
    /\ IF i < Toggles THEN i' = i + 1 /\ nap' = 1 /\ UNCHANGED pc
                      ELSE i' = 0 /\ pc' = "access" /\ UNCHANGED nap
    /\ UNCHANGED dog

(* watchdog_demo *)

Access ==
    /\ At("access") /\ pc' = IF margin = 0 THEN "modprobe" ELSE "open"
    /\ UNCHANGED <<i, nap, dog>>
Modprobe ==
    /\ At("modprobe")
    /\ \/ margin' = 10 /\ pc' = "open"
       \/ pc' = "events" /\ UNCHANGED margin
    /\ UNCHANGED <<i, nap, left, wrote, late, killed>>
\* It fails if another process has the device.
OpenDog ==
    /\ At("open")
    /\ \/ pc' = "kick" /\ left' = margin /\ late' = 0
       \/ pc' = "events" /\ UNCHANGED <<left, late>>
    /\ UNCHANGED <<i, nap, margin, wrote, killed>>
Kick ==
    /\ At("kick")
    /\ IF i < Kicks
       THEN i' = i + 1 /\ nap' = 1 /\ left' = margin /\ wrote' = "kick" /\ late' = 0 /\ UNCHANGED pc
       ELSE i' = 0 /\ pc' = "V" /\ UNCHANGED <<nap, left, wrote, late>>
    /\ UNCHANGED <<margin, killed>>
WriteV ==
    /\ At("V") /\ pc' = "close"
    /\ left' = margin /\ wrote' = "V" /\ late' = 0
    /\ UNCHANGED <<i, nap, margin, killed>>
CloseDog == left' = (IF wrote = "V" THEN -1 ELSE left) /\ wrote' = "nothing"
Close ==
    /\ At("close") /\ pc' = "events" /\ CloseDog
    /\ UNCHANGED <<i, nap, margin, late, killed>>

(* demo_gpio_events: it returns, or waits for one edge after the other *)
Events ==
    /\ At("events") /\ pc' \in {"end", "edges"}
    /\ UNCHANGED <<i, nap, dog>>

-----------------------------------------------------------------------------
\* The process is killed; the kernel closes its descriptors.
Kill ==
    /\ Alive /\ pc # "end" /\ pc' = "killed" /\ killed' = pc
    /\ CloseDog /\ i' = 0 /\ nap' = 0
    /\ UNCHANGED <<margin, late>>

\* Has the process the device open?
Open == pc \in {"kick", "V", "close"}

Tick ==
    /\ ~Reset /\ (nap > 0 \/ left > 0)
    /\ nap' = 0
    /\ late' = IF Open /\ nap = 0 THEN late + 1 ELSE late
    /\ left' = IF left > 0 THEN left - 1 ELSE left
    /\ UNCHANGED <<pc, i, margin, wrote, killed>>

Next ==
    \/ ChipAndLine \/ Toggle \/ Access \/ Modprobe \/ OpenDog \/ Kick \/ WriteV \/ Close \/ Events
    \/ Kill \/ Tick

Spec == Init /\ [][Next]_vars

-----------------------------------------------------------------------------
Points == {"chip", "toggle", "access", "modprobe", "open", "kick", "V", "close", "events", "edges", "end"}
TypeOK ==
    /\ pc \in Points \cup {"killed"} /\ killed \in Points \cup {"no"}
    /\ i \in Nat /\ nap \in {0, 1}
    /\ margin \in Nat /\ left \in Int
    /\ wrote \in {"nothing", "kick", "V"} /\ late \in Nat

\* The process was killed with the device open and the "V" not yet written.
Abandoned == killed \in {"kick", "V"}

\* The machine is reset only if the process was killed between the open of the
\* device and the write of "V", or was kept from running until the watchdog ran
\* out, but for the one second it sleeps: never while the demo goes on, nor after
\* it has written "V", whether it closes the device itself or the kernel does.
NoNeedlessReboot == Reset => Abandoned \/ (Open /\ late >= margin - 1)

\* "if you kill the process within 5s, system will reboot": no write of the loop
\* lets the kernel's close stop the timer, at whatever kick the kill comes.
AbandonedReboots == Abandoned ~> Reset
=============================================================================
