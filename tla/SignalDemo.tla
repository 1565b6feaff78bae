------------------------------ MODULE SignalDemo ------------------------------
(***************************************************************************)
(* 04_signals/signal_demo.c: one thread that installs actions, blocks and  *)
(* sends itself signals, while others may send it signals too (demos 0 and *)
(* 1 invite the user to press ctrl+c and to kill the process).             *)
(*                                                                         *)
(* The handler of SIGINT and SIGTERM increments g_sigint_count by a load   *)
(* and a store, and may itself be interrupted by a signal that is not      *)
(* blocked while it runs: `stack' holds the handlers under way, innermost  *)
(* last.  main's steps are system calls, taken when no handler is under    *)
(* way and no signal is waiting to be delivered.                           *)
(***************************************************************************)
EXTENDS Naturals, Sequences

CONSTANTS External,      \* signals others send
          MaxExternal    \* bound: how many signals they send

VARIABLES main,      \* main's control point
          disp,      \* action of each signal
          during,    \* sa_mask of each signal's action
          mask,      \* signals main has blocked
          pending,   \* pending signals
          stack,     \* handlers under way: [sig, at, reg]
          g_sigint_count,
          handled,   \* history: times its handler has run to the end
          nested,    \* history: has SIGINT interrupted the increment of SIGTERM's handler?
          bytes,     \* bytes in the open pipe; the pipe is closed when opened is FALSE
          opened,    \* g_pipe_fds is open
          killer,    \* the signal whose default action ended the process
          sent       \* signals sent by others

acts == <<disp, during>>
pipe == <<bytes, opened>>
signalVars == <<main, disp, during, mask, pending, stack, g_sigint_count, handled, nested, bytes, opened, killer, sent>>

Sig == {"INT", "TERM", "USR1", "USR2", "RT"}

SignalInit ==
    /\ main = "signal_int"
    /\ disp = [s \in Sig |-> "dfl"] /\ during = [s \in Sig |-> {}]
    /\ mask = {} /\ pending = {} /\ stack = <<>>
    /\ g_sigint_count = 0 /\ handled = 0 /\ nested = FALSE
    /\ bytes = 0 /\ opened = FALSE
    /\ killer = "none" /\ sent = 0

-----------------------------------------------------------------------------
(* Wrong variants of definitions below, each the shape of a plausible bug. *)

\* The action of demo 1 blocks nothing while its handler runs.
HandlerMask_Empty == {}

\* signalfd without blocking the signal first.
SfdMask_Forgotten == mask

-----------------------------------------------------------------------------
(* Signals, as the kernel sends and delivers them *)

Top     == stack[Len(stack)]
Rest    == SubSeq(stack, 1, Len(stack) - 1)
Frames  == {stack[k].sig : k \in 1 .. Len(stack)}
Blocked == mask \cup UNION {{s} \cup during[s] : s \in Frames}
Deliverable == pending \ Blocked

\* A signal that is ignored and not blocked is dropped at once.
Sent(s) == IF disp[s] = "ign" /\ s \notin Blocked THEN pending ELSE pending \cup {s}

Idle == stack = <<>> /\ Deliverable = {}
Go(from, to) == main = from /\ Idle /\ main' = to

Stranger(s) ==
    /\ main \notin {"end", "killed"} /\ sent < MaxExternal
    /\ sent' = sent + 1 /\ pending' = Sent(s)
    /\ UNCHANGED <<main, acts, mask, stack, g_sigint_count, handled, nested, pipe, killer>>

\* The handler of SIGTERM has loaded the count and not stored it.
TermIncrements == \E k \in DOMAIN stack : stack[k].sig = "TERM" /\ stack[k].at = "store"

\* It writes a byte to whatever g_pipe_fds[1] is.
pipe_sig_handler == bytes' = (IF opened THEN bytes + 1 ELSE bytes) /\ UNCHANGED <<main, killer, stack>>

\* It only records what demo 3 prints.
rt_handler == UNCHANGED <<main, killer, stack, bytes>>

\* The default action, one of the handlers, or nothing.
DeliverSignal(s) ==
    /\ main \notin {"end", "killed"} /\ s \in Deliverable
    /\ pending' = pending \ {s}
    /\ nested' = (nested \/ (s = "INT" /\ TermIncrements))
    /\ CASE disp[s] = "dfl" ->
              main' = "killed" /\ killer' = s /\ UNCHANGED <<stack, bytes>>
         [] disp[s] = "count" ->
              /\ stack' = Append(stack, [sig |-> s, at |-> "load", reg |-> 0])
              /\ UNCHANGED <<main, killer, bytes>>
         [] disp[s] = "pipe_sig_handler" -> pipe_sig_handler
         [] disp[s] = "rt_handler"       -> rt_handler
         [] disp[s] = "ign"              -> UNCHANGED <<main, killer, stack, bytes>>
    /\ UNCHANGED <<acts, mask, g_sigint_count, handled, opened, sent>>

\* sigint_handler_1_arg: g_sigint_count++ and the return.
HandlerLoad ==
    /\ main # "killed" /\ stack # <<>> /\ Top.at = "load"
    /\ stack' = Append(Rest, [sig |-> Top.sig, at |-> "store", reg |-> g_sigint_count])
    /\ UNCHANGED <<main, acts, mask, pending, g_sigint_count, handled, nested, pipe, killer, sent>>

HandlerStore ==
    /\ main # "killed" /\ stack # <<>> /\ Top.at = "store"
    /\ g_sigint_count' = Top.reg + 1 /\ handled' = handled + 1
    /\ stack' = Rest
    /\ UNCHANGED <<main, acts, mask, pending, nested, pipe, killer, sent>>

-----------------------------------------------------------------------------
(* What main's calls change *)

Action(s, what, m) ==
    /\ disp' = [disp EXCEPT ![s] = what] /\ during' = [during EXCEPT ![s] = m]
    /\ pending' = IF what = "ign" THEN pending \ {s} ELSE pending
    /\ UNCHANGED <<mask, stack, g_sigint_count, handled, nested, pipe, killer, sent>>
Raise(s) ==
    /\ pending' = Sent(s)
    /\ UNCHANGED <<acts, mask, stack, g_sigint_count, handled, nested, pipe, killer, sent>>
SetMask(m) ==
    /\ mask' = m
    /\ UNCHANGED <<acts, pending, stack, g_sigint_count, handled, nested, pipe, killer, sent>>
Pipe(open, n) ==
    /\ opened' = open /\ bytes' = n
    /\ UNCHANGED <<acts, mask, pending, stack, g_sigint_count, handled, nested, killer, sent>>
Nothing == UNCHANGED <<acts, mask, pending, stack, g_sigint_count, handled, nested, pipe, killer, sent>>

(* Demo 0: signal *)
SignalInt  == Go("signal_int", "signal_term") /\ Action("INT", "count", {})
SignalTerm == Go("signal_term", "raise_int") /\ Action("TERM", "count", {})
RaiseInt   == Go("raise_int", "raise_term") /\ Raise("INT")
RaiseTerm  == Go("raise_term", "sleep") /\ Raise("TERM")
Sleep      == Go("sleep", "old_int") /\ Nothing
OldInt     == Go("old_int", "old_term") /\ Action("INT", "dfl", {})
OldTerm    == Go("old_term", "reset") /\ Action("TERM", "dfl", {})

(* Demo 1: sigaction, the same action for both signals *)
HandlerMask == {"TERM"}
Reset ==
    /\ Go("reset", "sigaction_int")
    /\ g_sigint_count' = 0 /\ handled' = 0 /\ nested' = FALSE
    /\ UNCHANGED <<acts, mask, pending, stack, pipe, killer, sent>>
SigactionInt  == Go("sigaction_int", "sigaction_term") /\ Action("INT", "count", HandlerMask)
SigactionTerm == Go("sigaction_term", "raise_int1") /\ Action("TERM", "count", HandlerMask)
RaiseInt1     == Go("raise_int1", "raise_term1") /\ Raise("INT")
RaiseTerm1    == Go("raise_term1", "nanosleep") /\ Raise("TERM")
Nanosleep     == Go("nanosleep", "show_count") /\ Nothing
ShowCount     == Go("show_count", "restore") /\ Nothing
Restore       == Go("restore", "usr1_block") /\ Action("INT", "dfl", HandlerMask)

(* Demo 2: sigprocmask *)
Usr1Block   == Go("usr1_block", "usr1_kill") /\ SetMask({"USR1"})
Usr1Kill    == Go("usr1_kill", "usr1_ignore") /\ Raise("USR1")
Usr1Ignore  == Go("usr1_ignore", "usr1_unblock") /\ Action("USR1", "ign", {})
Usr1Unblock == Go("usr1_unblock", "rt_action") /\ SetMask({})

(* Demo 3: sigqueue of a real-time signal *)
RtAction == Go("rt_action", "rt_queue") /\ Action("RT", "rt_handler", {})
RtQueue  == Go("rt_queue", "rt_show") /\ Raise("RT")
RtShow   == Go("rt_show", "pipe") /\ Nothing

(* Demo 4: the self-pipe; a failing pipe() makes the demo return *)
SelfPipe      == Go("pipe", "usr2_action") /\ Pipe(TRUE, 0)
SelfPipeFails == Go("pipe", "pipe1") /\ Nothing
Usr2Action    == Go("usr2_action", "usr2_kill") /\ Action("USR2", "pipe_sig_handler", {})
Usr2Kill      == Go("usr2_kill", "pipe_read") /\ Raise("USR2")
PipeRead      == Go("pipe_read", "pipe_close") /\ bytes > 0 /\ Pipe(TRUE, 0)
PipeClose     == Go("pipe_close", "pipe1") /\ Pipe(FALSE, 0)

(* Demo 4.1: the same two descriptors, written and read by main *)
Pipe1      == Go("pipe1", "pipe1_write") /\ Pipe(TRUE, 0)
Pipe1Fails == Go("pipe1", "sfd_block") /\ Nothing
Pipe1Write == Go("pipe1_write", "pipe1_read") /\ Pipe(TRUE, bytes + 1)
Pipe1Read  == Go("pipe1_read", "sfd_block") /\ bytes > 0 /\ Pipe(FALSE, 0)

(* Demo 5: signalfd; SIGUSR1 is still ignored, and is blocked to be read *)
SfdMask  == mask \cup {"USR1"}
SfdBlock == Go("sfd_block", "signalfd") /\ SetMask(SfdMask)
Signalfd == Go("signalfd", "sfd_kill") /\ Nothing
SfdFails == Go("signalfd", "end") /\ Nothing
SfdKill  == Go("sfd_kill", "sfd_read") /\ Raise("USR1")
SfdRead  ==
    /\ Go("sfd_read", "end") /\ "USR1" \in pending
    /\ pending' = pending \ {"USR1"}
    /\ UNCHANGED <<acts, mask, stack, g_sigint_count, handled, nested, pipe, killer, sent>>

-----------------------------------------------------------------------------
Main ==
    \/ SignalInt \/ SignalTerm \/ RaiseInt \/ RaiseTerm \/ Sleep \/ OldInt \/ OldTerm
    \/ Reset \/ SigactionInt \/ SigactionTerm \/ RaiseInt1 \/ RaiseTerm1 \/ Nanosleep \/ ShowCount \/ Restore
    \/ Usr1Block \/ Usr1Kill \/ Usr1Ignore \/ Usr1Unblock
    \/ RtAction \/ RtQueue \/ RtShow
    \/ SelfPipe \/ SelfPipeFails \/ Usr2Action \/ Usr2Kill \/ PipeRead \/ PipeClose
    \/ Pipe1 \/ Pipe1Fails \/ Pipe1Write \/ Pipe1Read
    \/ SfdBlock \/ Signalfd \/ SfdFails \/ SfdKill \/ SfdRead

Kernel  == \E s \in Sig : DeliverSignal(s)
Handler == HandlerLoad \/ HandlerStore

SignalNext == Main \/ Kernel \/ Handler \/ \E s \in External : Stranger(s)

\* The thread runs and deliverable signals are delivered; nobody has to send any.
SignalFairness == WF_signalVars(Main) /\ WF_signalVars(Kernel) /\ WF_signalVars(Handler)

SignalSpec == SignalInit /\ [][SignalNext]_signalVars /\ SignalFairness

-----------------------------------------------------------------------------
\* Demo 1 counts every signal it has handled, except when SIGINT interrupts the
\* handler of SIGTERM between load and store: sa_mask keeps SIGTERM out of the
\* handler of SIGINT, but nothing keeps SIGINT out of the handler of SIGTERM.
CountsEverySignal == main = "show_count" /\ Idle /\ ~nested => g_sigint_count = handled

\* The program comes to its end or is ended from outside: SIGUSR1, SIGUSR2 and the
\* real-time signal it sends itself, which all end a process by default, do not
\* end it, and neither the read of the self-pipe nor the read of the signalfd,
\* whose signal is ignored, waits for ever.
SignalsComplete == <>(main = "end" \/ (main = "killed" /\ killer \in External))
=============================================================================
