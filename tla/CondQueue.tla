------------------------------ MODULE CondQueue ------------------------------
(***************************************************************************)
(* Demo 3 of 02_threads/thread_demo.c: a circular queue guarded by one     *)
(* mutex and two condition variables, shared by producer and consumer      *)
(* threads.  The demo starts one thread of each kind; the comment above    *)
(* the queue says it serves several of each, so the sets are parameters.   *)
(*                                                                         *)
(* A thread's control point pc is                                          *)
(*   "lock"    about to take q->lock in queue_push / queue_pop             *)
(*   "test"    holds the lock, about to evaluate the while condition       *)
(*   "wait"    inside pthread_cond_wait, lock released, not yet woken      *)
(*   "relock"  woken inside pthread_cond_wait, taking the lock again       *)
(*   "unlock"  has done its push or pop, still holds the lock              *)
(*   "done"    the thread function has returned                            *)
(* Producers wait only on not_full and consumers only on not_empty, so the *)
(* waiters of a condition variable are the threads of one kind at "wait".  *)
(***************************************************************************)
EXTENDS Integers, Sequences, FiniteSets

CONSTANTS Producers, Consumers,   \* thread identities
          QUEUE_SIZE,             \* slots of the ring
          N,                      \* values each producer pushes before SENTINEL
          SENTINEL,               \* the value that stops a consumer
          NoThread                \* the mutex is free

ASSUME CondQueueAssumption ==
    /\ QUEUE_SIZE \in Nat \ {0}
    /\ N \in Nat
    /\ IsFiniteSet(Producers) /\ IsFiniteSet(Consumers)
    /\ Producers \cap Consumers = {}
    /\ NoThread \notin Producers \cup Consumers
    /\ SENTINEL \notin Producers \X Nat

VARIABLES q,      \* the Queue: [data, head, tail, count]
          lock,   \* owner of q.lock
          pc,     \* control point of each thread
          i,      \* producer's loop index; N stands for the push of SENTINEL
          val,    \* consumer's val, the last value it popped
          got     \* history: every value popped, in order

vars == <<q, lock, pc, i, val, got>>

Thread == Producers \cup Consumers
Slot   == 0 .. QUEUE_SIZE - 1
Item   == Producers \X (0 .. N - 1)
Value  == Item \cup {SENTINEL}
Empty  == SENTINEL       \* what an unused slot or val holds; never read

Init ==
    /\ q = [data |-> [s \in Slot |-> Empty], head |-> 0, tail |-> 0, count |-> 0]
    /\ lock = NoThread
    /\ pc = [t \in Thread |-> "lock"]
    /\ i = [p \in Producers |-> 0]
    /\ val = [c \in Consumers |-> Empty]
    /\ got = <<>>

-----------------------------------------------------------------------------
(* Wrong variants of definitions below, each the shape of a plausible bug. *)

\* The producer's test off by one.
Full_OffByOne == q.count > QUEUE_SIZE

-----------------------------------------------------------------------------
Full      == q.count = QUEUE_SIZE
IsEmpty   == q.count = 0
Wrap(x)   == x % QUEUE_SIZE
NextTail  == Wrap(q.tail + 1)
NextHead  == Wrap(q.head + 1)
ToPush(p) == IF i[p] < N THEN <<p, i[p]>> ELSE SENTINEL

(* pthread primitives, as the code uses them. *)

Free == lock = NoThread

\* pthread_mutex_lock, and the re-acquisition at the end of pthread_cond_wait.
Lock(t) ==
    /\ pc[t] \in {"lock", "relock"}
    /\ Free
    /\ lock' = t
    /\ pc' = [pc EXCEPT ![t] = "test"]
    /\ UNCHANGED <<q, i, val, got>>

\* pthread_cond_wait releases the mutex and starts to wait in one step.
CondWait(t) ==
    /\ lock' = NoThread
    /\ pc' = [pc EXCEPT ![t] = "wait"]
    /\ UNCHANGED <<q, i, val, got>>

\* POSIX lets pthread_cond_wait return without a signal.
Spurious(t) ==
    /\ pc[t] = "wait"
    /\ pc' = [pc EXCEPT ![t] = "relock"]
    /\ UNCHANGED <<q, lock, i, val, got>>

Waiters(K) == {t \in K : pc[t] = "wait"}

\* pthread_cond_signal(cond) by t, whose waiters are of kind K: one of them, if
\* there is any, is woken; t itself goes on to its unlock.
SignalNobody(t, K) == pc' = [pc EXCEPT ![t] = "unlock"]
Signal(t, K) ==
    \/ /\ Waiters(K) = {}
       /\ pc' = [pc EXCEPT ![t] = "unlock"]
    \/ \E w \in Waiters(K) : pc' = [pc EXCEPT ![t] = "unlock", ![w] = "relock"]

-----------------------------------------------------------------------------
(* queue_push and producer *)

PushWait(p) == pc[p] = "test" /\ Full /\ CondWait(p)

Push(p) ==
    /\ pc[p] = "test"
    /\ ~Full
    /\ q' = [data |-> [q.data EXCEPT ![q.tail] = ToPush(p)],
             head |-> q.head, tail |-> NextTail, count |-> q.count + 1]
    /\ Signal(p, Consumers)
    /\ UNCHANGED <<lock, i, val, got>>

\* pthread_mutex_unlock and the rest of the loop: SENTINEL is the last push.
PushUnlock(p) ==
    /\ pc[p] = "unlock"
    /\ lock' = NoThread
    /\ pc' = [pc EXCEPT ![p] = IF i[p] < N THEN "lock" ELSE "done"]
    /\ i' = [i EXCEPT ![p] = IF @ < N THEN @ + 1 ELSE @]
    /\ UNCHANGED <<q, val, got>>

(* queue_pop and consumer *)

PopWait(c) == pc[c] = "test" /\ IsEmpty /\ CondWait(c)

Pop(c) ==
    /\ pc[c] = "test"
    /\ ~IsEmpty
    /\ val' = [val EXCEPT ![c] = q.data[q.head]]
    /\ got' = Append(got, q.data[q.head])
    /\ q' = [data |-> q.data, head |-> NextHead, tail |-> q.tail, count |-> q.count - 1]
    /\ Signal(c, Producers)
    /\ UNCHANGED <<lock, i>>

PopUnlock(c) ==
    /\ pc[c] = "unlock"
    /\ lock' = NoThread
    /\ pc' = [pc EXCEPT ![c] = IF val[c] = SENTINEL THEN "done" ELSE "lock"]
    /\ UNCHANGED <<q, i, val, got>>

-----------------------------------------------------------------------------
AllDone == \A t \in Thread : pc[t] = "done"

\* demo_cond_var joins every thread and returns.
Join == AllDone /\ UNCHANGED vars

Producer(p) == PushWait(p) \/ Push(p) \/ PushUnlock(p)
Consumer(c) == PopWait(c) \/ Pop(c) \/ PopUnlock(c)

Next ==
    \/ \E t \in Thread : Lock(t) \/ Spurious(t)
    \/ \E p \in Producers : Producer(p)
    \/ \E c \in Consumers : Consumer(c)
    \/ Join

Spec == Init /\ [][Next]_vars

\* A runnable thread is eventually scheduled, and a thread that contends for
\* the mutex is not passed over for ever.  Nothing makes a spurious wake-up
\* happen.
Fairness ==
    /\ \A t \in Thread : SF_vars(Lock(t))
    /\ \A p \in Producers : WF_vars(Producer(p))
    /\ \A c \in Consumers : WF_vars(Consumer(c))

FairSpec == Spec /\ Fairness

-----------------------------------------------------------------------------
TypeOK ==
    /\ q \in [data : [Slot -> Value], head : Slot, tail : Slot, count : 0 .. QUEUE_SIZE]
    /\ lock \in Thread \cup {NoThread}
    /\ pc \in [Thread -> {"lock", "test", "wait", "relock", "unlock", "done"}]
    /\ i \in [Producers -> 0 .. N]
    /\ val \in [Consumers -> Value]
    /\ got \in Seq(Value)

\* The mutex protects what it is meant to: a thread is between its lock and
\* unlock calls exactly when it owns q.lock, so no two threads ever are.
LockInv == \A t \in Thread : pc[t] \in {"test", "unlock"} <=> lock = t

\* The three redundant cursors of the ring stay consistent.
RingInv == q.tail = Wrap(q.head + q.count)

\* Awake threads of a kind: at or on the way to their while condition.
Awake(K) == {t \in K : pc[t] \in {"lock", "relock", "test"}}

\* No wake-up is lost, although push and pop signal one waiter only: while some
\* consumer sleeps in queue_pop, there are at least as many awake consumers as
\* there are values to pop, and dually for producers and free slots.
NoLostWakeup ==
    /\ Waiters(Consumers) # {} => q.count <= Cardinality(Awake(Consumers))
    /\ Waiters(Producers) # {} => QUEUE_SIZE - q.count <= Cardinality(Awake(Producers))

\* The values in the ring, oldest first.
Contents == [k \in 1 .. q.count |-> q.data[Wrap(q.head + k - 1)]]

Fifo == INSTANCE BoundedFifo WITH chan <- Contents, out <- got, Capacity <- QUEUE_SIZE

\* queue_push and queue_pop implement a bounded first-in first-out channel: no
\* value is lost, duplicated, reordered or overwritten, whatever the schedule.
ImplementsFifo == Fifo!Spec

\* With one SENTINEL per consumer, the threads finish and the joins return.
Termination == <>AllDone
=============================================================================
