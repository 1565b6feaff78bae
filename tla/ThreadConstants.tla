--------------------------- MODULE ThreadConstants ---------------------------
(***************************************************************************)
(* The constants of 02_threads/thread_demo.c, one group per demo that main *)
(* runs, with the values the code gives them.                              *)
(***************************************************************************)
EXTENDS Integers, Sequences

CONSTANTS N_THREADS, NT,    \* threads of demo_basic_threads (4) and demo_tls (3)
          N, ITERS,         \* threads and rounds of demo_mutex (4, 100000)
          Limit, Rounds,    \* demo_cond_var2: count > Limit waits (10); loops (100)
          QUEUE_SIZE,       \* slots of the ring of demo_sem_prod_consumer (8)
          Permits,          \* initial value of its sem_not_full (5)
          Items,            \* values pushed before SENTINEL (10)
          SENTINEL,         \* the value that stops the consumer
          NR, Writers       \* demo_rwlock: number of readers (3), ids of the writers

ASSUME WorkersAssumption == N_THREADS \in Nat \ {0} /\ NT \in Nat \ {0}

ASSUME MutexAssumption == N \in Nat \ {0} /\ ITERS \in Nat \ {0}

ASSUME CountHandoffAssumption == Limit \in Nat /\ Rounds \in Nat \ {0}

ASSUME SemQueueAssumption ==
    /\ QUEUE_SIZE \in Nat \ {0} /\ Permits \in 1 .. QUEUE_SIZE
    /\ Items \in Nat /\ SENTINEL \notin 0 .. Items - 1

ASSUME RwLockAssumption == NR \in Nat /\ Writers \in Seq(Nat \ (0 .. NR))
=============================================================================
