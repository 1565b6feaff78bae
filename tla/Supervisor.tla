------------------------------ MODULE Supervisor ------------------------------
(***************************************************************************)
(* 14_shell_scripts/watchdog.sh: every CHECK_INTERVAL the script looks for *)
(* a process of the given name and starts a new one if there is none, at   *)
(* most MAX_RESTARTS times in all.                                         *)
(*                                                                         *)
(* pgrep sees a process only after it has become the program it is to run. *)
(* A pgrep that fails counts as finding none.  Under set -e and pipefail a *)
(* failing tee ends the script.                                            *)
(***************************************************************************)
EXTENDS ProgramConstants

VARIABLES pc,               \* "check", "count", "start", "sleep", "exit"
          restart_count,
          starting, up,     \* processes not yet and already seen by pgrep
          reason,           \* why the script has ended: "none", "gave_up", "log"
          missed            \* history: times pgrep has missed a process that was there

vars == <<pc, restart_count, starting, up, reason, missed>>

\* The two lines written first may fail already.
Init ==
    /\ restart_count = 0 /\ starting = 0 /\ up \in {0, 1} /\ missed = 0
    /\ \/ pc = "check" /\ reason = "none"
       \/ pc = "exit" /\ reason = "log"

-----------------------------------------------------------------------------
(* Wrong variants of definitions below, each the shape of a plausible bug. *)

\* The script starts the process again without looking for it.
AfterSleep_Count == "count"

-----------------------------------------------------------------------------
\* pgrep finds a process, finds none, or fails.
Check ==
    /\ pc = "check"
    /\ \/ up > 0 /\ pc' = "sleep" /\ UNCHANGED missed
       \/ pc' = "count" /\ missed' = IF up + starting > 0 THEN missed + 1 ELSE missed
    /\ UNCHANGED <<restart_count, starting, up, reason>>

\* An echo whose tee fails ends the script.
Ends(why) == pc' = "exit" /\ reason' = why

CountRestart ==
    /\ pc = "count" /\ restart_count' = restart_count + 1
    /\ \/ Ends("log")
       \/ restart_count' > MAX_RESTARTS /\ Ends("gave_up")
       \/ restart_count' <= MAX_RESTARTS /\ pc' = "start" /\ UNCHANGED reason
    /\ UNCHANGED <<starting, up, missed>>

StartProcess ==
    /\ pc = "start" /\ starting' = starting + 1
    /\ \/ Ends("log")
       \/ pc' = "sleep" /\ UNCHANGED reason
    /\ UNCHANGED <<restart_count, up, missed>>

AfterSleep == "check"
Sleep ==
    /\ pc = "sleep" /\ pc' = AfterSleep
    /\ UNCHANGED <<restart_count, starting, up, reason, missed>>

Script == Check \/ CountRestart \/ StartProcess \/ Sleep

(* The processes: they start, or fail to, and die. *)
ComesUp ==
    /\ starting > 0 /\ starting' = starting - 1 /\ up' = up + 1
    /\ UNCHANGED <<pc, restart_count, reason, missed>>
Dies ==
    /\ \/ starting > 0 /\ starting' = starting - 1 /\ UNCHANGED up
       \/ up > 0 /\ up' = up - 1 /\ UNCHANGED starting
    /\ UNCHANGED <<pc, restart_count, reason, missed>>

Next == Script \/ ComesUp \/ Dies

Spec == Init /\ [][Next]_vars

-----------------------------------------------------------------------------
TypeOK ==
    /\ pc \in {"check", "count", "start", "sleep", "exit"}
    /\ restart_count \in Nat /\ starting \in Nat /\ up \in Nat
    /\ reason \in {"none", "gave_up", "log"} /\ missed \in Nat

\* There is one process at most, but for one more each time that pgrep failed or
\* ran before a process that the script had started was there to be seen; and the
\* script has not started more than MAX_RESTARTS.
OneProcess ==
    /\ starting + up <= 1 + missed
    /\ restart_count <= MAX_RESTARTS \/ (restart_count = MAX_RESTARTS + 1 /\ pc = "exit")

\* "monitors a process and restarts it if it dies": when it is gone another one is
\* started, unless the script has ended, because of its log or for having used up
\* its restarts, which it counts over its whole life.
Restarts == starting + up = 0 ~> (starting + up > 0 \/ pc = "exit")
=============================================================================
