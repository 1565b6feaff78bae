------------------------------ MODULE ThreadDemo ------------------------------
(***************************************************************************)
(* main of 02_threads/thread_demo.c: its six demos one after the other,    *)
(* each creating its threads and joining them before the next one starts.  *)
(* A pthread_create that fails ends the process with whatever threads it   *)
(* has.                                                                    *)
(*                                                                         *)
(* The variables of demo_cond_var2 are those of CountHandoff; those of the *)
(* others carry the prefix w_, m_, s_ or rw_ where the names would clash.  *)
(***************************************************************************)
EXTENDS CountHandoff

VARIABLES w_pc, retval, shown, w_main, tpc, tls_counter, tshown, tmain,
          g_counter, m_mutex, m_pc, m_i, m_tmp, m_main,
          data, head, tail, s_count, notFull, notEmpty, s_pc, reg, s_i, val, got,
          g_shared_val, rw_pc, rw_shown, rw_main,
          exited    \* the second pthread_create of a producer and consumer failed

workVars  == <<w_pc, retval, shown, w_main, tpc, tls_counter, tshown, tmain>>
mutexVars == <<g_counter, m_mutex, m_pc, m_i, m_tmp, m_main>>
semVars   == <<data, head, tail, s_count, notFull, notEmpty, s_pc, reg, s_i, val, got>>
rwVars    == <<g_shared_val, rw_pc, rw_shown, rw_main>>
allVars   == <<workVars, mutexVars, vars, semVars, rwVars, exited>>

Work  == INSTANCE WorkerThreads WITH pc <- w_pc, main <- w_main
Mutex == INSTANCE MutexCounter
           WITH mutex <- m_mutex, pc <- m_pc, i <- m_i, tmp <- m_tmp, main <- m_main
Sem   == INSTANCE SemQueue WITH count <- s_count, pc <- s_pc, i <- s_i
Rw    == INSTANCE RwLock WITH pc <- rw_pc, shown <- rw_shown, main <- rw_main

DemoInit == Work!Init /\ Mutex!Init /\ Init /\ Sem!Init /\ Rw!Init /\ exited = FALSE

-----------------------------------------------------------------------------
\* Where main is: every demo starts when the one before has returned.
Running  == ~Work!Exited /\ ~Mutex!Exited /\ ~Rw!Exited /\ ~exited
ToMutex  == Running /\ Work!BasicReturned
ToCond   == ToMutex /\ Mutex!Returned
ToSem    == ToCond /\ AllDone
ToRwLock == ToSem /\ Sem!AllDone
ToTls    == ToRwLock /\ Rw!Returned

\* A step of one demo.
WorkDemo(A)  == A /\ UNCHANGED <<mutexVars, vars, semVars, rwVars, exited>>
MutexDemo(A) == ToMutex /\ A /\ UNCHANGED <<workVars, vars, semVars, rwVars, exited>>
CondDemo(A)  == ToCond /\ A /\ UNCHANGED <<workVars, mutexVars, semVars, rwVars, exited>>
SemDemo(A)   == ToSem /\ A /\ UNCHANGED <<workVars, mutexVars, vars, rwVars, exited>>
RwDemo(A)    == ToRwLock /\ A /\ UNCHANGED <<workVars, mutexVars, vars, semVars, exited>>

Basic == WorkDemo(Running /\ Work!BasicNext)
Tls   == WorkDemo(ToTls /\ Work!TlsNext)

\* CHECK in demo_cond_var2 and demo_sem_prod_consumer: the creation of the
\* consumer may fail when the producer is under way already.
CreateFails ==
    /\ \/ ToCond /\ ~AllDone /\ pc["consumer"] = "lock"
       \/ ToSem /\ ~Sem!AllDone /\ got = <<>> /\ s_pc["consumer"] = "wait"
    /\ exited' = TRUE
    /\ UNCHANGED <<workVars, mutexVars, vars, semVars, rwVars>>

\* main has returned, or a failed creation has ended the process.
Ended == ~Running \/ (ToTls /\ Work!TlsReturned)
Over  == Ended /\ UNCHANGED allVars

DemoNext ==
    \/ Basic
    \/ MutexDemo(Mutex!Next)
    \/ CondDemo(\E t \in Thread : Lock(t) \/ Run(t) \/ Spurious(t))
    \/ SemDemo(Sem!Producer \/ Sem!Consumer \/ \E t \in Thread : Sem!Count(t))
    \/ RwDemo(Rw!Next)
    \/ Tls
    \/ CreateFails
    \/ Over

\* Runnable threads run, and a thread contending for a mutex is not passed over
\* for ever.  The read-write lock needs no more than the former: every thread
\* takes it once.  Each semaphore has one waiter, so a positive semaphore stays
\* positive until that waiter takes it.
DemoFairness ==
    /\ WF_allVars(Basic) /\ WF_allVars(Tls)
    /\ WF_allVars(MutexDemo(Mutex!Main)) /\ WF_allVars(RwDemo(Rw!Main))
    /\ \A t \in 1 .. N : /\ SF_allVars(MutexDemo(Mutex!Lock(t)))
                         /\ WF_allVars(MutexDemo(Mutex!Run(t)))
    /\ \A t \in Thread : SF_allVars(CondDemo(Lock(t))) /\ WF_allVars(CondDemo(Run(t)))
    /\ WF_allVars(SemDemo(Sem!Producer \/ Sem!Count("producer")))
    /\ WF_allVars(SemDemo(Sem!Consumer \/ Sem!Count("consumer")))
    /\ \A t \in Rw!Thread : WF_allVars(RwDemo(Rw!Acquire(t))) /\ WF_allVars(RwDemo(Rw!Run(t)))

DemoSpec == DemoInit /\ [][DemoNext]_allVars /\ DemoFairness

-----------------------------------------------------------------------------
\* No increment of demo_mutex is lost and main prints CORRECT.
NoLostUpdate == Mutex!NoLostUpdate

\* Without any mutex, raw_queue_push and raw_queue_pop are never in the same slot.
SlotsDisjoint == Sem!SlotsDisjoint

\* raw_queue_push and raw_queue_pop implement a first-in first-out channel,
\* whatever the race on count does to it.
RingIsFifo == Sem!ImplementsFifo

\* What a reader of demo_rwlock has read stays true until it unlocks, and a
\* writer prints the value it has stored.
StableUnderLock == Rw!StableUnderLock

\* The program gets to its end whatever the schedule: every thread gets its lock,
\* no thread is left asleep on a condition variable or a semaphore, every join
\* returns; and unless a creation failed, no thread of demos 1 and 5 has got at
\* another one's argument, result or copy of tls_counter.
DemosEnd == <>(Ended /\ (Running => Work!OwnResults))
=============================================================================
