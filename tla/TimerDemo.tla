------------------------------ MODULE TimerDemo ------------------------------
(***************************************************************************)
(* 08_timers/timer_demo.c: demos 2, 3 and 4 wait for TICKS expirations of  *)
(* an interval timer (SIGALRM), of a POSIX timer (SIGRTMIN) and of a       *)
(* timerfd watched edge-triggered by epoll.  Timers expire at any moment   *)
(* while they are armed, the program may be arbitrarily slow.              *)
(*                                                                         *)
(* A system call is entered, takes effect and returns: `in' says that the  *)
(* thread is inside one.  A pending signal is delivered, that is its       *)
(* handler runs, outside system calls and inside pause(), and before the   *)
(* next system call is entered.                                            *)
(***************************************************************************)
EXTENDS Naturals

CONSTANTS TICKS,   \* expirations each demo waits for (5)
          MaxFired \* bound: expirations of one timer, before it is only waited for

ASSUME TimerDemoAssumption == TICKS \in Nat \ {0} /\ MaxFired \in Nat /\ MaxFired > TICKS

VARIABLES pc,        \* control point
          in,        \* inside the system call pc names
          count,     \* g_alarm_count, g_posix_count or fire_count
          handler,   \* a handler is installed for SIGALRM
          timer,     \* the timer of the demo: "none", "disarmed", "armed", "deleted"
          pend,      \* pending signals
          over,      \* expirations that found SIGRTMIN pending
          exp,       \* expirations a read of the timerfd returns
          edge,      \* the timerfd is on epoll's ready list
          fds,       \* descriptors open
          fired      \* history: expirations of the demo's timer

sigs == <<handler, pend, over>>
poll == <<exp, edge, fds>>
timerVars == <<pc, in, count, handler, timer, pend, over, exp, edge, fds, fired>>

Alarm == {"sigaction", "setitimer", "a_test", "a_pause", "a_disarm", "a_restore"}
Posix == {"timer_create", "timer_settime", "p_test", "p_pause", "p_disarm", "timer_delete"}
Tfd   == {"timerfd_create", "timerfd_settime", "epoll_create", "epoll_ctl", "f_test",
          "epoll_wait", "read", "close"}
Signal == {"SIGALRM", "SIGRTMIN"}

TimerInit ==
    /\ pc = "sigaction" /\ in = FALSE
    /\ count = 0 /\ fired = 0
    /\ handler = FALSE /\ timer = "none" /\ pend = {} /\ over = 0
    /\ exp = 0 /\ edge = FALSE /\ fds = {}

-----------------------------------------------------------------------------
(* Wrong variants of definitions below, each the shape of a plausible bug. *)

\* The handler counts one expiration per signal.
Ticks_One == 1

\* The POSIX timer is deleted without being disarmed.
AfterPosixLoop_Delete == "timer_delete"

\* The timerfd is not read after the event.
AfterEvent_Skip == "f_test"

-----------------------------------------------------------------------------
Enter(where) == pc = where /\ in
Leave(where) == pc' = where /\ in' = FALSE
More == count < TICKS

\* The next demo starts with its own counter.
NextDemo(where) == Leave(where) /\ count' = 0 /\ fired' = 0 /\ timer' = "none"

\* Entering a system call; pending signals are delivered first.
Syscall ==
    /\ ~in /\ pend = {}
    /\ pc \notin {"a_test", "p_test", "f_test", "end"}
    /\ in' = TRUE
    /\ UNCHANGED <<pc, count, timer, sigs, poll, fired>>

-----------------------------------------------------------------------------
(* Demo 2: setitimer and SIGALRM *)

InstallAlarm ==
    /\ Enter("sigaction") /\ Leave("setitimer")
    /\ handler' = TRUE
    /\ UNCHANGED <<count, timer, pend, over, poll, fired>>

SetItimer ==
    /\ Enter("setitimer") /\ Leave("a_test")
    /\ timer' = "armed"
    /\ UNCHANGED <<count, sigs, poll, fired>>

\* while (g_alarm_count < 5) pause(): the test and the call are two steps.
AlarmTest ==
    /\ pc = "a_test"
    /\ Leave(IF More THEN "a_pause" ELSE "a_disarm")
    /\ UNCHANGED <<count, timer, sigs, poll, fired>>

AlarmDisarm ==
    /\ Enter("a_disarm") /\ Leave("a_restore")
    /\ timer' = "disarmed"
    /\ UNCHANGED <<count, sigs, poll, fired>>

AlarmRestore ==
    /\ Enter("a_restore") /\ NextDemo("timer_create")
    /\ handler' = FALSE
    /\ UNCHANGED <<pend, over, poll>>

-----------------------------------------------------------------------------
(* Demo 3: timer_create and SIGRTMIN *)

\* sigaction and timer_create; if it fails the demo returns.
TimerCreate ==
    /\ Enter("timer_create")
    /\ \/ Leave("timer_settime") /\ timer' = "disarmed" /\ UNCHANGED <<count, fired>>
       \/ NextDemo("timerfd_create")
    /\ UNCHANGED <<sigs, poll>>

TimerSettime ==
    /\ Enter("timer_settime") /\ Leave("p_test")
    /\ timer' = "armed"
    /\ UNCHANGED <<count, sigs, poll, fired>>

AfterPosixLoop == "p_disarm"

PosixTest ==
    /\ pc = "p_test"
    /\ Leave(IF More THEN "p_pause" ELSE AfterPosixLoop)
    /\ UNCHANGED <<count, timer, sigs, poll, fired>>

\* A signal that is pending stays so, or is discarded: kernels differ.
PosixDisarm ==
    /\ Enter("p_disarm") /\ Leave("timer_delete")
    /\ timer' = "disarmed"
    /\ pend' \in {pend, {}} /\ over' = 0
    /\ UNCHANGED <<count, handler, poll, fired>>

TimerDelete ==
    /\ Enter("timer_delete") /\ Leave("p_return")
    /\ timer' = "deleted"
    /\ UNCHANGED <<count, sigs, poll, fired>>

PosixReturn ==
    /\ Enter("p_return") /\ NextDemo("timerfd_create")
    /\ UNCHANGED <<sigs, poll>>

-----------------------------------------------------------------------------
(* Demo 4: timerfd and epoll *)

\* Each of the four calls that set the demo up may fail; the demo then closes
\* what it has opened and returns.
TimerfdCreate ==
    /\ Enter("timerfd_create")
    /\ \/ Leave("timerfd_settime") /\ fds' = {"tfd"}
       \/ Leave("end") /\ UNCHANGED fds
    /\ UNCHANGED <<count, timer, sigs, exp, edge, fired>>

TimerfdSettime ==
    /\ Enter("timerfd_settime")
    /\ \/ Leave("epoll_create") /\ timer' = "armed" /\ UNCHANGED fds
       \/ Leave("end") /\ fds' = fds \ {"tfd"} /\ UNCHANGED timer
    /\ UNCHANGED <<count, sigs, exp, edge, fired>>

EpollCreate ==
    /\ Enter("epoll_create")
    /\ \/ Leave("epoll_ctl") /\ fds' = fds \cup {"epfd"} /\ UNCHANGED timer
       \/ Leave("end") /\ fds' = fds \ {"tfd"} /\ timer' = "deleted"
    /\ UNCHANGED <<count, sigs, exp, edge, fired>>

CtlFailed == fds \ {"epfd", "tfd"}

\* Adding a descriptor that is readable already puts it on the ready list.
EpollCtl ==
    /\ Enter("epoll_ctl")
    /\ \/ Leave("f_test") /\ edge' = (exp > 0) /\ UNCHANGED <<fds, timer>>
       \/ Leave("end") /\ fds' = CtlFailed /\ timer' = "deleted" /\ UNCHANGED edge
    /\ UNCHANGED <<count, sigs, exp, fired>>

TfdTest ==
    /\ pc = "f_test"
    /\ Leave(IF More THEN "epoll_wait" ELSE "close")
    /\ UNCHANGED <<count, timer, sigs, poll, fired>>

AfterEvent == "read"

\* Edge-triggered: the event is taken off the ready list.
EpollEvent ==
    /\ Enter("epoll_wait") /\ edge /\ exp > 0
    /\ Leave(AfterEvent)
    /\ edge' = FALSE
    /\ UNCHANGED <<count, timer, sigs, exp, fds, fired>>

\* Nothing within a second: the loop goes on.
EpollTimeout ==
    /\ Enter("epoll_wait") /\ ~(edge /\ exp > 0)
    /\ Leave("f_test")
    /\ UNCHANGED <<count, timer, sigs, poll, fired>>

Read ==
    /\ Enter("read") /\ Leave("f_test")
    /\ count' = count + exp /\ exp' = 0
    /\ UNCHANGED <<timer, sigs, edge, fds, fired>>

Close ==
    /\ Enter("close") /\ Leave("end")
    /\ fds' = {} /\ timer' = "deleted"
    /\ UNCHANGED <<count, sigs, exp, edge, fired>>

-----------------------------------------------------------------------------
(* The timers and the delivery of their signals *)

\* Beyond the bound a timer still expires once for a thread blocked in pause.
Expires ==
    /\ timer = "armed"
    /\ fired < MaxFired \/ (in /\ pc \in {"a_pause", "p_pause"} /\ pend = {})
    /\ fired' = fired + 1

\* SIGALRM is not queued: one that finds it pending leaves no trace.
ExpireAlarm ==
    /\ pc \in Alarm /\ Expires
    /\ pend' = pend \cup {"SIGALRM"}
    /\ UNCHANGED <<pc, in, count, handler, timer, over, poll>>

\* A POSIX timer counts the expirations that find its signal pending.
ExpirePosix ==
    /\ pc \in Posix /\ Expires
    /\ pend' = pend \cup {"SIGRTMIN"}
    /\ over' = IF "SIGRTMIN" \in pend THEN over + 1 ELSE over
    /\ UNCHANGED <<pc, in, count, handler, timer, poll>>

\* A timerfd wakes epoll when it becomes readable.
ExpireTfd ==
    /\ pc \in Tfd /\ Expires
    /\ exp' = exp + 1
    /\ edge' = (edge \/ (exp = 0 /\ "epfd" \in fds /\ pc # "epoll_ctl"))
    /\ UNCHANGED <<pc, in, count, timer, sigs, fds>>

Ticks == 1 + over

\* sigalrm_handler and posix_timer_handler; pause returns when one has run.
Deliver(s) ==
    /\ s \in pend /\ (~in \/ pc \in {"a_pause", "p_pause"})
    /\ pend' = pend \ {s}
    /\ count' = count + (IF s = "SIGRTMIN" THEN Ticks ELSE 1)
    /\ over' = 0
    /\ CASE pc = "a_pause" /\ in -> Leave("a_test")
         [] pc = "p_pause" /\ in -> Leave("p_test")
         [] OTHER                -> UNCHANGED <<pc, in>>
    /\ UNCHANGED <<handler, timer, poll, fired>>

-----------------------------------------------------------------------------
Thread ==
    \/ Syscall
    \/ InstallAlarm \/ SetItimer \/ AlarmTest \/ AlarmDisarm \/ AlarmRestore
    \/ TimerCreate \/ TimerSettime \/ PosixTest \/ PosixDisarm \/ TimerDelete \/ PosixReturn
    \/ TimerfdCreate \/ TimerfdSettime \/ EpollCreate \/ EpollCtl \/ TfdTest
    \/ EpollEvent \/ EpollTimeout \/ Read \/ Close
Expire == ExpireAlarm \/ ExpirePosix \/ ExpireTfd

TimerNext == Thread \/ Expire \/ \E s \in Signal : Deliver(s)

\* The thread runs, an armed periodic timer expires again, and a deliverable
\* signal is delivered.
TimerFairness ==
    /\ WF_timerVars(Thread)
    /\ WF_timerVars(Expire)
    /\ \A s \in Signal : WF_timerVars(Deliver(s))

TimerSpec == TimerInit /\ [][TimerNext]_timerVars /\ TimerFairness

-----------------------------------------------------------------------------
\* No signal outlives what handles it: SIGALRM, whose default action ends the
\* process, is not pending once the old action is restored, and the handler of
\* SIGRTMIN, which dereferences the timer's id, does not run for a deleted timer.
PendingHandled ==
    /\ "SIGALRM" \in pend => handler
    /\ "SIGRTMIN" \in pend => timer \in {"armed", "disarmed"}

\* The POSIX timer with its overrun count, and the timerfd, miss no expiration
\* however slow the program is: what is not counted yet is still to be delivered.
NoneMissed ==
    /\ pc \in {"p_test", "p_pause"} =>
          fired = count + (IF "SIGRTMIN" \in pend THEN 1 + over ELSE 0)
    /\ pc \in {"f_test", "epoll_wait", "read"} => fired = count + exp

\* The demos end: a tick between the test of the counter and pause() is not
\* waited for in vain, since another follows.
TimersComplete == <>(pc = "end")
=============================================================================
