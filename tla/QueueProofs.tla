----------------------------- MODULE QueueProofs -----------------------------
(***************************************************************************)
(* Proofs about two queues: the condition-variable queue of thread_demo.c, *)
(* for every number of producers and consumers and every ring size, and    *)
(* the message queue of mq_demo.c, for every capacity, all priorities and  *)
(* whatever an earlier run has left in it.                                 *)
(***************************************************************************)
EXTENDS CondQueue, MqDemo, FiniteSetTheorems, TLAPS

PC == {"lock", "test", "wait", "relock", "unlock", "done"}

IInv == TypeOK /\ LockInv /\ RingInv

-----------------------------------------------------------------------------
(* The ring *)

\* % QUEUE_SIZE on the sums the queue forms: head + count is below 2 QUEUE_SIZE.
LEMMA WrapValue ==
  ASSUME NEW x \in 0 .. 2 * QUEUE_SIZE - 1
  PROVE  Wrap(x) = IF x < QUEUE_SIZE THEN x ELSE x - QUEUE_SIZE
<1>1. QUEUE_SIZE \in Nat \ {0}
  BY CondQueueAssumption, Zenon
<1>2. ASSUME NEW n \in Nat \ {0}, NEW y \in 0 .. 2 * n - 1
      PROVE  y % n = IF y < n THEN y ELSE y - n
  <2>1. CASE y < n
    BY <2>1
  <2>2. CASE y >= n
    <3>1. y \div n = 1
      BY <2>2
    <3> QED BY <3>1, <2>2
  <2> QED BY <2>1, <2>2
<1> QED BY <1>1, <1>2, Zenon DEF Wrap

\* A cursor that is advanced stays a slot.
LEMMA WrapSlot ==
  ASSUME NEW x \in 0 .. 2 * QUEUE_SIZE - 1
  PROVE  Wrap(x) \in Slot
BY WrapValue, CondQueueAssumption DEF Slot

\* The slot after n values differs from the slots of those n values.
LEMMA WrapDistinct ==
  ASSUME NEW h \in Slot, NEW n \in 0 .. QUEUE_SIZE - 1, NEW k \in 1 .. n
  PROVE  Wrap(h + k - 1) # Wrap(h + n)
<1>1. QUEUE_SIZE \in Nat \ {0} /\ h \in Int /\ n \in Int /\ k \in Int
      /\ 0 <= h /\ h < QUEUE_SIZE /\ n < QUEUE_SIZE /\ 1 <= k /\ k <= n
  BY CondQueueAssumption DEF Slot
<1>2. h + k - 1 \in 0 .. 2 * QUEUE_SIZE - 1
  BY <1>1
<1>3. h + n \in 0 .. 2 * QUEUE_SIZE - 1
  BY <1>1
<1>4. Wrap(h + k - 1) = IF h + k - 1 < QUEUE_SIZE THEN h + k - 1 ELSE h + k - 1 - QUEUE_SIZE
  BY <1>1, <1>2, WrapValue
<1>5. Wrap(h + n) = IF h + n < QUEUE_SIZE THEN h + n ELSE h + n - QUEUE_SIZE
  BY <1>1, <1>3, WrapValue
<1> QED BY <1>1, <1>4, <1>5

\* The k-th slot after the next one is the (k+1)-th.
LEMMA WrapShift ==
  ASSUME NEW h \in Slot, NEW k \in 1 .. QUEUE_SIZE - 1
  PROVE  Wrap(Wrap(h + 1) + k - 1) = Wrap(h + (k + 1) - 1)
<1>1. QUEUE_SIZE \in Nat \ {0} /\ h \in Int /\ k \in Int
      /\ 0 <= h /\ h < QUEUE_SIZE /\ 1 <= k /\ k < QUEUE_SIZE
  BY CondQueueAssumption DEF Slot
<1>2. h + 1 \in 0 .. 2 * QUEUE_SIZE - 1
  BY <1>1
<1>3. h + (k + 1) - 1 \in 0 .. 2 * QUEUE_SIZE - 1
  BY <1>1
<1>4. Wrap(h + 1) = IF h + 1 < QUEUE_SIZE THEN h + 1 ELSE h + 1 - QUEUE_SIZE
  BY <1>1, <1>2, WrapValue
<1>5. Wrap(h + (k + 1) - 1) = IF h + k < QUEUE_SIZE THEN h + k ELSE h + k - QUEUE_SIZE
  BY <1>1, <1>3, WrapValue
<1>6. CASE h + 1 < QUEUE_SIZE
  <2>1. Wrap(h + 1) + k - 1 = h + (k + 1) - 1
    BY <1>1, <1>4, <1>6
  <2> QED BY <2>1, Zenon
<1>7. CASE h + 1 >= QUEUE_SIZE
  <2>1. Wrap(h + 1) + k - 1 = k - 1 /\ h + k - QUEUE_SIZE = k - 1 /\ h + k >= QUEUE_SIZE
    BY <1>1, <1>4, <1>7
  <2>2. k - 1 \in 0 .. 2 * QUEUE_SIZE - 1
    BY <1>1
  <2>3. Wrap(k - 1) = k - 1
    BY <2>2, <1>1, WrapValue
  <2> QED BY <2>1, <2>3, <1>5, <1>1
<1> QED BY <1>1, <1>6, <1>7

-----------------------------------------------------------------------------
(* pthread_cond_signal *)

\* A signal moves the caller to its unlock, wakes at most one of the waiters of
\* the condition variable, one if there is any, and moves nobody else.
LEMMA SignalEffect ==
  ASSUME pc \in [Thread -> PC], NEW t \in Thread, pc[t] = "test",
         NEW K \in SUBSET Thread, Signal(t, K)
  PROVE  /\ pc' \in [Thread -> PC]
         /\ pc'[t] = "unlock"
         /\ \/ /\ Waiters(K) = {}
               /\ \A u \in Thread \ {t} : pc'[u] = pc[u]
            \/ \E w \in Waiters(K) :
                  /\ w # t
                  /\ pc'[w] = "relock"
                  /\ \A u \in Thread \ {t, w} : pc'[u] = pc[u]
<1>1. CASE Waiters(K) = {} /\ pc' = [pc EXCEPT ![t] = "unlock"]
  BY <1>1, Zenon DEF PC
<1>2. CASE \E w \in Waiters(K) : pc' = [pc EXCEPT ![t] = "unlock", ![w] = "relock"]
  <2>1. PICK w \in Waiters(K) : pc' = [pc EXCEPT ![t] = "unlock", ![w] = "relock"]
    BY <1>2, Zenon
  <2>2. w \in Thread /\ w # t
    BY Zenon DEF Waiters
  <2> QED BY <2>1, <2>2, Zenon DEF PC
<1> QED BY <1>1, <1>2, Zenon DEF Signal

-----------------------------------------------------------------------------
(* Types, mutual exclusion and the cursors *)

\* The initial state satisfies the inductive invariant.
LEMMA InitInv == Init => IInv
<1> SUFFICES ASSUME Init PROVE IInv
    BY Zenon
<1> USE CondQueueAssumption DEF Init
<1>1. TypeOK
  BY DEF TypeOK, Slot, Value, Empty, Item, Thread
<1>2. LockInv
  BY Zenon DEF LockInv, Thread
<1>3. RingInv
  BY WrapValue DEF RingInv
<1> QED BY <1>1, <1>2, <1>3, Zenon DEF IInv

\* Every step of a producer, a consumer or the pthread library preserves it.
LEMMA StepInv == IInv /\ [Next]_vars => IInv'
<1> SUFFICES ASSUME IInv, [Next]_vars PROVE IInv'
    BY Zenon
<1> USE DEF IInv
<1>q. /\ QUEUE_SIZE \in Nat \ {0} /\ N \in Nat
      /\ NoThread \notin Thread
      /\ Producers \subseteq Thread /\ Consumers \subseteq Thread
      /\ Producers \cap Consumers = {}
  BY CondQueueAssumption, Zenon DEF Thread
<1>1. ASSUME NEW t \in Thread, Lock(t) PROVE IInv'
  <2>1. TypeOK'
    BY <1>1, Zenon DEF Lock, TypeOK
  <2>2. LockInv'
    BY <1>1, <1>q, Zenon DEF Lock, Free, TypeOK, LockInv
  <2> QED BY <1>1, <2>1, <2>2, Zenon DEF Lock, RingInv, Wrap
<1>2. ASSUME NEW t \in Thread, Spurious(t) PROVE IInv'
  <2>1. TypeOK'
    BY <1>2, Zenon DEF Spurious, TypeOK
  <2>2. LockInv'
    BY <1>2, <1>q, Zenon DEF Spurious, TypeOK, LockInv
  <2> QED BY <1>2, <2>1, <2>2, Zenon DEF Spurious, RingInv, Wrap
<1>3. ASSUME NEW t \in Thread, pc[t] = "test", CondWait(t) PROVE IInv'
  <2>1. TypeOK'
    BY <1>3, Zenon DEF CondWait, TypeOK
  <2>2. LockInv'
    BY <1>3, <1>q, Zenon DEF CondWait, TypeOK, LockInv
  <2> QED BY <1>3, <2>1, <2>2, Zenon DEF CondWait, RingInv, Wrap
<1>4. ASSUME NEW p \in Producers, Push(p) PROVE IInv'
  <2>1. p \in Thread /\ pc[p] = "test" /\ Signal(p, Consumers) /\ pc \in [Thread -> PC]
    BY <1>4, <1>q, Zenon DEF Push, TypeOK, PC
  <2>2. /\ pc' \in [Thread -> PC] /\ pc'[p] = "unlock"
        /\ \A u \in Thread \ {p} : pc'[u] = pc[u] \/ (pc[u] = "wait" /\ pc'[u] = "relock")
    BY <2>1, <1>q, SignalEffect, ZenonT(40) DEF Waiters
  <2>3. q.count < QUEUE_SIZE /\ q.count \in 0 .. QUEUE_SIZE /\ q.tail \in Slot /\ q.head \in Slot
    BY <1>4, <1>q DEF Push, Full, TypeOK
  <2>4. ToPush(p) \in Value
    BY <1>q DEF ToPush, Value, Item, TypeOK
  <2>5. NextTail \in Slot
    BY <2>3, <1>q, WrapSlot DEF NextTail, Slot
  <2>6. TypeOK'
    <3>1. q' \in [data : [Slot -> Value], head : Slot, tail : Slot, count : 0 .. QUEUE_SIZE]
      BY <1>4, <1>q, <2>3, <2>4, <2>5 DEF Push, TypeOK
    <3> QED BY <1>4, <2>2, <3>1, Zenon DEF Push, TypeOK, PC
  <2>7. LockInv'
    BY <1>4, <1>q, <2>1, <2>2, Zenon DEF Push, TypeOK, LockInv
  <2>8. RingInv'
    <3>1. q'.tail = NextTail /\ q'.head = q.head /\ q'.count = q.count + 1
      BY <1>4, Zenon DEF Push, TypeOK
    <3>2. q.tail + 1 \in 0 .. 2 * QUEUE_SIZE - 1 /\ q.head + q.count \in 0 .. 2 * QUEUE_SIZE - 1
          /\ q.head + (q.count + 1) \in 0 .. 2 * QUEUE_SIZE - 1
      BY <2>3, <1>q DEF Slot
    <3>3. Wrap(q.tail + 1) = Wrap(q.head + (q.count + 1))
      BY <3>2, <2>3, <1>q, WrapValue DEF RingInv, Slot
    <3> QED BY <3>1, <3>3, Zenon DEF RingInv, NextTail, Wrap
  <2> QED BY <2>6, <2>7, <2>8, Zenon
<1>5. ASSUME NEW p \in Producers, PushUnlock(p) PROVE IInv'
  <2>1. TypeOK'
    BY <1>5, <1>q DEF PushUnlock, TypeOK
  <2>2. LockInv'
    BY <1>5, <1>q, Zenon DEF PushUnlock, TypeOK, LockInv
  <2> QED BY <1>5, <2>1, <2>2, Zenon DEF PushUnlock, RingInv, Wrap
<1>6. ASSUME NEW c \in Consumers, Pop(c) PROVE IInv'
  <2>1. c \in Thread /\ pc[c] = "test" /\ Signal(c, Producers) /\ pc \in [Thread -> PC]
    BY <1>6, <1>q, Zenon DEF Pop, TypeOK, PC
  <2>2. /\ pc' \in [Thread -> PC] /\ pc'[c] = "unlock"
        /\ \A u \in Thread \ {c} : pc'[u] = pc[u] \/ (pc[u] = "wait" /\ pc'[u] = "relock")
    BY <2>1, <1>q, SignalEffect, ZenonT(40) DEF Waiters
  <2>3. q.count > 0 /\ q.count \in 0 .. QUEUE_SIZE /\ q.tail \in Slot /\ q.head \in Slot
    BY <1>6, <1>q DEF Pop, IsEmpty, TypeOK
  <2>4. q.data[q.head] \in Value
    BY <2>3, Zenon DEF TypeOK
  <2>5. NextHead \in Slot
    BY <2>3, <1>q, WrapSlot DEF NextHead, Slot
  <2>6. TypeOK'
    <3>1. q' \in [data : [Slot -> Value], head : Slot, tail : Slot, count : 0 .. QUEUE_SIZE]
      BY <1>6, <1>q, <2>3, <2>5 DEF Pop, TypeOK
    <3>2. val' \in [Consumers -> Value] /\ got' \in Seq(Value)
      BY <1>6, <2>4 DEF Pop, TypeOK
    <3> QED BY <1>6, <2>2, <3>1, <3>2, Zenon DEF Pop, TypeOK, PC
  <2>7. LockInv'
    BY <1>6, <1>q, <2>1, <2>2, Zenon DEF Pop, TypeOK, LockInv
  <2>8. RingInv'
    <3>1. q'.tail = q.tail /\ q'.head = NextHead /\ q'.count = q.count - 1
      BY <1>6, Zenon DEF Pop, TypeOK
    <3>2. q.head + 1 \in 0 .. 2 * QUEUE_SIZE - 1 /\ q.head + q.count \in 0 .. 2 * QUEUE_SIZE - 1
      BY <2>3, <1>q DEF Slot
    <3>3. NextHead + (q.count - 1) \in 0 .. 2 * QUEUE_SIZE - 1
      BY <2>3, <2>5, <1>q DEF Slot
    <3>4. Wrap(q.head + q.count) = Wrap(NextHead + (q.count - 1))
      BY <3>2, <3>3, <2>3, <1>q, WrapValue DEF NextHead, Slot
    <3> QED BY <3>1, <3>4, Zenon DEF RingInv, Wrap
  <2> QED BY <2>6, <2>7, <2>8, Zenon
<1>7. ASSUME NEW c \in Consumers, PopUnlock(c) PROVE IInv'
  <2>1. TypeOK'
    BY <1>7, <1>q, Zenon DEF PopUnlock, TypeOK
  <2>2. LockInv'
    BY <1>7, <1>q, Zenon DEF PopUnlock, TypeOK, LockInv
  <2> QED BY <1>7, <2>1, <2>2, Zenon DEF PopUnlock, RingInv, Wrap
<1>8. CASE Join \/ UNCHANGED vars
  BY <1>8, Zenon DEF Join, vars, TypeOK, LockInv, RingInv, Wrap
<1> QED
  BY <1>1, <1>2, <1>3, <1>4, <1>5, <1>6, <1>7, <1>8, <1>q, Zenon DEF Next, Producer, Consumer, PushWait, PopWait

\* So it holds in every reachable state.
LEMMA Invariance == Spec => []IInv
BY InitInv, StepInv, PTL DEF Spec

\* Type correctness: in particular the ring is never indexed out of bounds and
\* never holds more than QUEUE_SIZE values.
THEOREM TypeCorrect == Spec => []TypeOK
BY Invariance, PTL DEF IInv

\* queue_push and queue_pop never run their critical sections at once.
THEOREM MutualExclusion == Spec => []LockInv
BY Invariance, PTL DEF IInv

\* head, tail and count never disagree.
THEOREM RingConsistent == Spec => []RingInv
BY Invariance, PTL DEF IInv

-----------------------------------------------------------------------------
(* No lost wake-up *)

\* The two halves of NoLostWakeup, for the threads K that wait for `need'.
Covered(K, need) == Waiters(K) # {} => need <= Cardinality(Awake(K))

\* Threads of K can only have woken up, and no more is needed than before.
LEMMA CoveredMore ==
  ASSUME NEW K, IsFiniteSet(K), NEW m \in Int, NEW n \in Int, n <= m, Covered(K, m),
         Waiters(K)' \subseteq Waiters(K), Awake(K) \subseteq Awake(K)'
  PROVE  Waiters(K)' # {} => n <= Cardinality(Awake(K)')
<1>1. IsFiniteSet(Awake(K)') /\ IsFiniteSet(Awake(K))
  BY FS_Subset, Awake(K)' \subseteq K, Awake(K) \subseteq K, Zenon DEF Awake
<1>2. Cardinality(Awake(K)) <= Cardinality(Awake(K)')
      /\ Cardinality(Awake(K)) \in Nat /\ Cardinality(Awake(K)') \in Nat
  BY <1>1, FS_Subset, FS_CardinalityType, Zenon
<1> QED BY <1>2 DEF Covered

\* One more is needed, and one waiter, if there was any, has been woken.
LEMMA CoveredSignal ==
  ASSUME NEW K, IsFiniteSet(K), NEW m \in Int, Covered(K, m),
         \/ Waiters(K)' = {}
         \/ \E w \in Waiters(K) : Awake(K)' = Awake(K) \cup {w}
  PROVE  Waiters(K)' # {} => m + 1 <= Cardinality(Awake(K)')
<1> SUFFICES ASSUME NEW w \in Waiters(K), Awake(K)' = Awake(K) \cup {w}
             PROVE  m + 1 <= Cardinality(Awake(K)')
    BY Zenon
<1>1. IsFiniteSet(Awake(K))
  BY FS_Subset, Awake(K) \subseteq K, Zenon DEF Awake
<1>2. w \notin Awake(K)
  BY Zenon DEF Waiters, Awake
<1>3. Cardinality(Awake(K)') = Cardinality(Awake(K)) + 1 /\ Cardinality(Awake(K)) \in Nat
  BY <1>1, <1>2, FS_AddElement, FS_CardinalityType, Zenon
<1> QED BY <1>3 DEF Covered

\* One less is needed, and one awake thread has taken it.
LEMMA CoveredTake ==
  ASSUME NEW K, IsFiniteSet(K), NEW m \in Int, Covered(K, m),
         Waiters(K)' \subseteq Waiters(K),
         \E t \in Awake(K) : Awake(K)' = Awake(K) \ {t}
  PROVE  Waiters(K)' # {} => m - 1 <= Cardinality(Awake(K)')
<1> PICK t \in Awake(K) : Awake(K)' = Awake(K) \ {t}
  BY Zenon
<1>1. IsFiniteSet(Awake(K))
  BY FS_Subset, Awake(K) \subseteq K, Zenon DEF Awake
<1>2. Cardinality(Awake(K)') = Cardinality(Awake(K)) - 1 /\ Cardinality(Awake(K)) \in Nat
  BY <1>1, FS_RemoveElement, FS_CardinalityType, ZenonT(40)
<1> QED BY <1>2 DEF Covered

\* Nothing is needed.
LEMMA CoveredZero ==
  ASSUME NEW K, IsFiniteSet(K)
  PROVE  0 <= Cardinality(Awake(K)')
<1>1. IsFiniteSet(Awake(K)')
  BY FS_Subset, Awake(K)' \subseteq K, Zenon DEF Awake
<1> QED BY <1>1, FS_CardinalityType

\* Every step preserves NoLostWakeup: a push makes one more value to pop and
\* wakes a consumer for it, and uses up one awake producer and one free slot.
LEMMA WakeupStep == IInv /\ NoLostWakeup /\ [Next]_vars => NoLostWakeup'
<1> SUFFICES ASSUME IInv, NoLostWakeup, [Next]_vars PROVE NoLostWakeup'
    BY Zenon
<1> USE DEF IInv
<1>q. /\ QUEUE_SIZE \in Nat \ {0} /\ q.count \in 0 .. QUEUE_SIZE /\ pc \in [Thread -> PC]
      /\ Producers \subseteq Thread /\ Consumers \subseteq Thread
      /\ Producers \cap Consumers = {}
      /\ IsFiniteSet(Producers) /\ IsFiniteSet(Consumers)
  BY CondQueueAssumption, Zenon DEF Thread, TypeOK, PC
<1>c. Covered(Consumers, q.count) /\ Covered(Producers, QUEUE_SIZE - q.count)
  BY Zenon DEF NoLostWakeup, Covered
<1>m. ASSUME \A K \in {Producers, Consumers} :
                Waiters(K)' \subseteq Waiters(K) /\ Awake(K) \subseteq Awake(K)',
             q'.count = q.count
      PROVE  NoLostWakeup'
  <2>1. Waiters(Consumers)' # {} => q.count <= Cardinality(Awake(Consumers)')
    BY <1>q, <1>c, <1>m, CoveredMore, SMTT(30)
  <2>2. Waiters(Producers)' # {} => QUEUE_SIZE - q.count <= Cardinality(Awake(Producers)')
    BY <1>q, <1>c, <1>m, CoveredMore
  <2> QED BY <2>1, <2>2, <1>m, Zenon DEF NoLostWakeup
<1>1. ASSUME NEW t \in Thread, Lock(t) PROVE NoLostWakeup'
  BY <1>1, <1>q, <1>m, Zenon DEF Lock, Waiters, Awake, PC
<1>2. ASSUME NEW t \in Thread, Spurious(t) PROVE NoLostWakeup'
  BY <1>2, <1>q, <1>m, Zenon DEF Spurious, Waiters, Awake, PC
<1>3. ASSUME NEW p \in Producers, PushWait(p) PROVE NoLostWakeup'
  <2>1. q' = q /\ q.count = QUEUE_SIZE /\ pc' = [pc EXCEPT ![p] = "wait"]
    BY <1>3, Zenon DEF PushWait, CondWait, Full
  <2>2. Waiters(Consumers)' \subseteq Waiters(Consumers) /\ Awake(Consumers) \subseteq Awake(Consumers)'
    BY <2>1, <1>q, Zenon DEF Waiters, Awake
  <2>3. Waiters(Consumers)' # {} => q.count <= Cardinality(Awake(Consumers)')
    BY <2>2, <1>q, <1>c, CoveredMore, SMTT(30)
  <2>4. 0 <= Cardinality(Awake(Producers)')
    BY <1>q, CoveredZero, Zenon
  <2> QED BY <2>1, <2>3, <2>4, <1>q, SMTT(30) DEF NoLostWakeup
<1>4. ASSUME NEW p \in Producers, Push(p) PROVE NoLostWakeup'
  <2>1. p \in Thread /\ pc[p] = "test" /\ Signal(p, Consumers) /\ q'.count = q.count + 1
    BY <1>4, <1>q, Zenon DEF Push
  <2>2. \/ Waiters(Consumers)' = {}
        \/ \E w \in Waiters(Consumers) : Awake(Consumers)' = Awake(Consumers) \cup {w}
    BY <2>1, <1>q, SignalEffect, SMTT(30) DEF Waiters, Awake
  <2>3. Waiters(Consumers)' # {} => q.count + 1 <= Cardinality(Awake(Consumers)')
    BY <2>2, <1>q, <1>c, CoveredSignal, SMTT(30)
  <2>4. /\ Waiters(Producers)' \subseteq Waiters(Producers)
        /\ \E t \in Awake(Producers) : Awake(Producers)' = Awake(Producers) \ {t}
    BY <2>1, <1>q, SignalEffect, SMTT(30) DEF Waiters, Awake
  <2>5. Waiters(Producers)' # {} => (QUEUE_SIZE - q.count) - 1 <= Cardinality(Awake(Producers)')
    BY <2>4, <1>q, <1>c, CoveredTake, SMTT(30)
  <2> QED BY <2>1, <2>3, <2>5, <1>q DEF NoLostWakeup
<1>5. ASSUME NEW p \in Producers, PushUnlock(p) PROVE NoLostWakeup'
  BY <1>5, <1>q, <1>m, Zenon DEF PushUnlock, Waiters, Awake, PC
<1>6. ASSUME NEW c \in Consumers, PopWait(c) PROVE NoLostWakeup'
  <2>1. q' = q /\ q.count = 0 /\ pc' = [pc EXCEPT ![c] = "wait"]
    BY <1>6, Zenon DEF PopWait, CondWait, IsEmpty
  <2>2. Waiters(Producers)' \subseteq Waiters(Producers) /\ Awake(Producers) \subseteq Awake(Producers)'
    BY <2>1, <1>q, Zenon DEF Waiters, Awake
  <2>3. Waiters(Producers)' # {} => QUEUE_SIZE - q.count <= Cardinality(Awake(Producers)')
    BY <2>2, <1>q, <1>c, CoveredMore
  <2>4. 0 <= Cardinality(Awake(Consumers)')
    BY <1>q, CoveredZero, Zenon
  <2> QED BY <2>1, <2>3, <2>4, <1>q, Zenon DEF NoLostWakeup
<1>7. ASSUME NEW c \in Consumers, Pop(c) PROVE NoLostWakeup'
  <2>1. c \in Thread /\ pc[c] = "test" /\ Signal(c, Producers) /\ q'.count = q.count - 1
    BY <1>7, <1>q, Zenon DEF Pop
  <2>2. \/ Waiters(Producers)' = {}
        \/ \E w \in Waiters(Producers) : Awake(Producers)' = Awake(Producers) \cup {w}
    BY <2>1, <1>q, SignalEffect DEF Waiters, Awake
  <2>3. Waiters(Producers)' # {} => (QUEUE_SIZE - q.count) + 1 <= Cardinality(Awake(Producers)')
    BY <2>2, <1>q, <1>c, CoveredSignal, SMTT(30)
  <2>4. /\ Waiters(Consumers)' \subseteq Waiters(Consumers)
        /\ \E t \in Awake(Consumers) : Awake(Consumers)' = Awake(Consumers) \ {t}
    BY <2>1, <1>q, SignalEffect DEF Waiters, Awake
  <2>5. Waiters(Consumers)' # {} => q.count - 1 <= Cardinality(Awake(Consumers)')
    <3>1. q.count \in Int /\ IsFiniteSet(Consumers) /\ Covered(Consumers, q.count)
      BY <1>q, <1>c
    <3> QED BY <2>4, <3>1, CoveredTake, Zenon
  <2> QED BY <2>1, <2>3, <2>5, <1>q DEF NoLostWakeup
<1>8. ASSUME NEW c \in Consumers, PopUnlock(c) PROVE NoLostWakeup'
  BY <1>8, <1>q, <1>m, Zenon DEF PopUnlock, Waiters, Awake, PC
<1>9. CASE Join \/ UNCHANGED vars
  BY <1>9, <1>m, Zenon DEF Join, vars, Waiters, Awake
<1> QED
  BY <1>1, <1>2, <1>3, <1>4, <1>5, <1>6, <1>7, <1>8, <1>9, ZenonT(40) DEF Next, Producer, Consumer

\* pthread_cond_signal, waking one thread only, never leaves a thread asleep that
\* has something to do and nobody on the way to do it.
THEOREM WakeupsSuffice == Spec => []NoLostWakeup
<1>1. Init => NoLostWakeup
  BY Zenon DEF Init, NoLostWakeup, Waiters, Thread
<1> QED BY <1>1, WakeupStep, Invariance, PTL DEF Spec

-----------------------------------------------------------------------------
(* The ring implements a first-in first-out channel *)

\* The length and the elements of a longer and of a shorter sequence.
LEMMA SeqFacts ==
    ASSUME NEW S, NEW s \in Seq(S)
    PROVE  /\ Len(s) \in Nat /\ s \in [1 .. Len(s) -> S]
           /\ \A e \in S : /\ Append(s, e) \in Seq(S) /\ Len(Append(s, e)) = Len(s) + 1
                           /\ Append(s, e)[Len(s) + 1] = e
                           /\ \A j \in 1 .. Len(s) : Append(s, e)[j] = s[j]
           /\ s # <<>> => /\ Tail(s) \in Seq(S) /\ Len(Tail(s)) = Len(s) - 1
                          /\ \A j \in 1 .. Len(s) - 1 : Tail(s)[j] = s[j + 1]
OBVIOUS

\* The contents of the ring are a sequence of q.count values.
LEMMA ContentsType ==
  ASSUME IInv
  PROVE  /\ Contents \in Seq(Value) /\ Len(Contents) = q.count
         /\ \A k \in 1 .. q.count : Contents[k] = q.data[Wrap(q.head + k - 1)]
<1>1. QUEUE_SIZE \in Nat \ {0} /\ q.count \in 0 .. QUEUE_SIZE /\ q.head \in Slot
      /\ q.data \in [Slot -> Value]
  BY CondQueueAssumption, Zenon DEF IInv, TypeOK
<1>2. \A k \in 1 .. q.count : Wrap(q.head + k - 1) \in Slot
  BY <1>1, WrapSlot, SMTT(20) DEF Slot
<1>3. Contents \in [1 .. q.count -> Value]
  BY <1>1, <1>2, Zenon DEF Contents
<1>4. q.count \in Nat
  BY <1>1
<1>5. Contents \in Seq(Value) /\ Len(Contents) = q.count
  BY <1>3, <1>4
<1> QED BY <1>5, Zenon DEF Contents

\* A push appends the value to the contents: the slot at tail is none of the
\* slots in use.
LEMMA PushAppends ==
  ASSUME IInv, NEW p \in Producers, Push(p)
  PROVE  Contents' = Append(Contents, ToPush(p))
<1>1. QUEUE_SIZE \in Nat \ {0} /\ q.count \in 0 .. QUEUE_SIZE - 1 /\ q.head \in Slot
      /\ q.tail \in Slot /\ q.data \in [Slot -> Value]
  BY CondQueueAssumption DEF IInv, TypeOK, Push, Full
<1>2. q'.data = [q.data EXCEPT ![q.tail] = ToPush(p)] /\ q'.head = q.head
      /\ q'.count = q.count + 1
  BY Zenon DEF Push
<1>3. \A k \in 1 .. q.count : Wrap(q.head + k - 1) \in Slot /\ Wrap(q.head + k - 1) # q.tail
  <2> TAKE k \in 1 .. q.count
  <2>1. q.head + k - 1 \in 0 .. 2 * QUEUE_SIZE - 1
    BY <1>1 DEF Slot
  <2>2. Wrap(q.head + k - 1) # Wrap(q.head + q.count)
    BY <1>1, WrapDistinct, Zenon
  <2> QED BY <2>1, <2>2, WrapSlot, Zenon DEF IInv, RingInv
<1>4. \A k \in 1 .. q.count : q'.data[Wrap(q.head + k - 1)] = Contents[k]
  BY <1>1, <1>2, <1>3, ContentsType, Zenon
<1>5. q'.data[Wrap(q.head + (q.count + 1) - 1)] = ToPush(p)
  <2>1. q.head + (q.count + 1) - 1 = q.head + q.count
    BY <1>1 DEF Slot
  <2> QED BY <1>1, <1>2, <2>1 DEF IInv, RingInv
<1>6. Contents' = [k \in 1 .. q.count + 1 |-> q'.data[Wrap(q.head + k - 1)]]
  BY <1>2, Zenon DEF Contents, Wrap
<1>7. Contents \in Seq(Value) /\ Len(Contents) = q.count
  BY ContentsType, Zenon
<1>8. Append(Contents, ToPush(p))
        = [k \in 1 .. q.count + 1 |-> IF k <= q.count THEN Contents[k] ELSE ToPush(p)]
  <2> DEFINE a == Append(Contents, ToPush(p))
  <2>1. ToPush(p) \in Value
    BY CondQueueAssumption DEF ToPush, Value, Item, IInv, TypeOK
  <2>2. /\ a \in Seq(Value) /\ Len(a) = q.count + 1 /\ a[q.count + 1] = ToPush(p)
        /\ \A k \in 1 .. q.count : a[k] = Contents[k]
    BY <2>1, <1>7, SeqFacts
  <2>3. a \in [1 .. q.count + 1 -> Value]
    BY <2>2, SeqFacts, Zenon
  <2> HIDE DEF a
  <2>4. a = [k \in 1 .. q.count + 1 |-> IF k <= q.count THEN Contents[k] ELSE ToPush(p)]
    BY <2>2, <2>3, <1>1, SMTT(30)
  <2> QED BY <2>4, Zenon DEF a
<1>9. ASSUME NEW k \in 1 .. q.count + 1
      PROVE  q'.data[Wrap(q.head + k - 1)] = IF k <= q.count THEN Contents[k] ELSE ToPush(p)
  <2>1. CASE k <= q.count
    BY <2>1, <1>4, <1>1, SMTT(30)
  <2>2. CASE k = q.count + 1
    BY <2>2, <1>5, <1>1
  <2> QED BY <2>1, <2>2, <1>1, SMTT(30)
<1> QED BY <1>6, <1>8, <1>9, Zenon

\* A pop takes the first of the contents and leaves the others as they are.
LEMMA PopTakesHead ==
  ASSUME IInv, NEW c \in Consumers, Pop(c)
  PROVE  /\ Contents # <<>> /\ Head(Contents) = q.data[q.head]
         /\ Contents' = Tail(Contents)
<1>1. QUEUE_SIZE \in Nat \ {0} /\ q.count \in 1 .. QUEUE_SIZE /\ q.head \in Slot
      /\ q.data \in [Slot -> Value]
  BY CondQueueAssumption DEF IInv, TypeOK, Pop, IsEmpty
<1>2. q'.data = q.data /\ q'.head = Wrap(q.head + 1) /\ q'.count = q.count - 1
  BY Zenon DEF Pop, NextHead
<1>3. Contents \in Seq(Value) /\ Len(Contents) = q.count
      /\ \A k \in 1 .. q.count : Contents[k] = q.data[Wrap(q.head + k - 1)]
  BY ContentsType, Zenon
<1>4. Contents # <<>> /\ Head(Contents) = Contents[1]
  BY <1>1, <1>3
<1>5. Wrap(q.head + 1 - 1) = q.head
  BY <1>1, WrapValue DEF Slot
<1>6. Head(Contents) = q.data[q.head]
  BY <1>1, <1>3, <1>4, <1>5
<1>7. Tail(Contents) = [k \in 1 .. q.count - 1 |-> Contents[k + 1]]
  <2> DEFINE r == Tail(Contents)
  <2>1. /\ r \in Seq(Value) /\ Len(r) = q.count - 1
        /\ \A k \in 1 .. q.count - 1 : r[k] = Contents[k + 1]
    BY <1>3, <1>4, SeqFacts
  <2>2. r \in [1 .. q.count - 1 -> Value]
    BY <2>1, SeqFacts, Zenon
  <2> HIDE DEF r
  <2>3. r = [k \in 1 .. q.count - 1 |-> Contents[k + 1]]
    BY <2>1, <2>2, Zenon
  <2> QED BY <2>3, Zenon DEF r
<1>8. Contents' = [k \in 1 .. q.count - 1 |-> q.data[Wrap(Wrap(q.head + 1) + k - 1)]]
  BY <1>2, Zenon DEF Contents, Wrap
<1>9. ASSUME NEW k \in 1 .. q.count - 1
      PROVE  q.data[Wrap(Wrap(q.head + 1) + k - 1)] = Contents[k + 1]
  <2>1. k + 1 \in 1 .. q.count /\ k \in 1 .. QUEUE_SIZE - 1
    BY <1>1
  <2>2. Wrap(Wrap(q.head + 1) + k - 1) = Wrap(q.head + (k + 1) - 1)
    BY <2>1, <1>1, WrapShift, Zenon
  <2> QED BY <2>1, <2>2, <1>3, Zenon
<1> QED BY <1>4, <1>6, <1>7, <1>8, <1>9, ZenonT(40)

\* queue_push and queue_pop implement the bounded first-in first-out channel, for
\* every number of producers and consumers and every ring size.
THEOREM Refinement == Spec => ImplementsFifo
<1>1. Init => Fifo!Init
  <2> SUFFICES ASSUME Init PROVE Fifo!Init
      BY Zenon
  <2>1. q.count = 0 /\ got = <<>>
    BY Zenon DEF Init
  <2>2. Contents = <<>>
    BY <2>1, InitInv, ContentsType
  <2> QED BY <2>1, <2>2, Zenon DEF Fifo!Init
<1>2. IInv /\ [Next]_vars => [Fifo!Next]_Fifo!fifoVars
  <2> SUFFICES ASSUME IInv, [Next]_vars PROVE [Fifo!Next]_Fifo!fifoVars
      BY Zenon
  <2>s. ASSUME q' = q, got' = got PROVE [Fifo!Next]_Fifo!fifoVars
    BY <2>s, Zenon DEF Fifo!fifoVars, Contents, Wrap
  <2>1. ASSUME NEW p \in Producers, Push(p) PROVE Fifo!Next
    <3>1. Contents' = Append(Contents, ToPush(p))
      BY <2>1, PushAppends, Zenon
    <3>2. ToPush(p) \in Value
      BY CondQueueAssumption, SMTT(30) DEF ToPush, Value, Item, IInv, TypeOK
    <3>3. Len(Contents) < QUEUE_SIZE
      BY <2>1, ContentsType, CondQueueAssumption DEF Push, Full, IInv, TypeOK
    <3>4. got' = got
      BY <2>1, Zenon DEF Push
    <3> QED BY <3>1, <3>2, <3>3, <3>4, Zenon DEF Fifo!Next, Fifo!Put
  <2>2. ASSUME NEW c \in Consumers, Pop(c) PROVE Fifo!Next
    <3>1. got' = Append(got, q.data[q.head])
      BY <2>2, Zenon DEF Pop
    <3> QED BY <2>2, <3>1, PopTakesHead, Zenon DEF Fifo!Next, Fifo!Get
  <2>3. CASE \E t \in Thread : Lock(t) \/ Spurious(t)
    BY <2>3, <2>s, Zenon DEF Lock, Spurious
  <2>4. CASE \E p \in Producers : PushWait(p) \/ PushUnlock(p)
    BY <2>4, <2>s, Zenon DEF PushWait, CondWait, PushUnlock
  <2>5. CASE \E c \in Consumers : PopWait(c) \/ PopUnlock(c)
    BY <2>5, <2>s, Zenon DEF PopWait, CondWait, PopUnlock
  <2>6. CASE Join \/ UNCHANGED vars
    BY <2>6, <2>s, Zenon DEF Join, vars
  <2> QED BY <2>1, <2>2, <2>3, <2>4, <2>5, <2>6, Zenon DEF Next, Producer, Consumer
<1> QED BY <1>1, <1>2, Invariance, PTL DEF Spec, ImplementsFifo, Fifo!Spec

-----------------------------------------------------------------------------
(* mq_demo.c *)

\* A message.
MqMsg == [prio : Nat, from : {"earlier", "sender", "producer"}, id : Nat]

\* What may be in the queue during the first demo when mq_send has sent n messages.
Known(m, n) == m.from = "earlier" \/ (m.from = "sender" /\ m.id < n)

\* m may be received ahead of n.
InTurn(m, n) == Before(m, n) \/ (m.from = "earlier" /\ m.prio = n.prio)

FirstDemo == main \in {"open", "fork", "wait", "receive"}

\* While mq_send is at work the parent waits for it and has received nothing.
MqControl ==
    /\ queue \in Seq(MqMsg) /\ got1 \in Seq(MqMsg) /\ sent \in Nat /\ script \in [1 .. 3 -> Nat]
    /\ main \in {"open", "fork"} => kid = "none" /\ sent = 0
    /\ main \in {"open", "fork", "wait"} => got1 = <<>>
    /\ kid \in {"exec", "send"} => main = "wait"
    /\ kid \in {"open2", "receive2"} => ~FirstDemo
    /\ kid = "exec" => sent = 0
    /\ kid = "send" => sent < 3

\* The queue is in receiving order, and all of it behind what has been received.
QueueOrder ==
    FirstDemo =>
      /\ \A j \in 1 .. Len(queue) : Known(queue[j], sent)
      /\ \A j, k \in 1 .. Len(queue) : j < k => InTurn(queue[j], queue[k])
      /\ \A j \in 1 .. Len(got1), k \in 1 .. Len(queue) : InTurn(got1[j], queue[k])

GotOrder == \A j, k \in 1 .. Len(got1) : j < k => InTurn(got1[j], got1[k])

MqInv == MqControl /\ QueueOrder /\ GotOrder

\* Where the messages are after mq_send.
LEMMA InsertAt ==
    ASSUME queue \in Seq(MqMsg), NEW k \in 0 .. Len(queue), NEW m \in MqMsg, queue' = Insert(k, m)
    PROVE  /\ queue' \in Seq(MqMsg) /\ Len(queue') = Len(queue) + 1
           /\ \A j \in 1 .. k : queue'[j] = queue[j]
           /\ queue'[k + 1] = m
           /\ \A j \in k + 1 .. Len(queue) : queue'[j + 1] = queue[j]
<1> DEFINE a == SubSeq(queue, 1, k)
           b == SubSeq(queue, k + 1, Len(queue))
<1>1. a \in Seq(MqMsg) /\ Len(a) = k /\ \A j \in 1 .. k : a[j] = queue[j]
  OBVIOUS
<1>2. b \in Seq(MqMsg) /\ Len(b) = Len(queue) - k /\ \A j \in 1 .. Len(queue) - k : b[j] = queue[j + k]
  OBVIOUS
<1> HIDE DEF a, b
<1> DEFINE c == a \o <<m>>
<1>3. c \in Seq(MqMsg) /\ Len(c) = k + 1 /\ \A j \in 1 .. k + 1 : c[j] = IF j <= k THEN queue[j] ELSE m
  BY <1>1
<1> HIDE DEF c
<1>4. /\ c \o b \in Seq(MqMsg) /\ Len(c \o b) = Len(queue) + 1
      /\ \A j \in 1 .. Len(queue) + 1 : (c \o b)[j] = IF j <= k + 1 THEN c[j] ELSE b[j - (k + 1)]
  BY <1>2, <1>3
<1>5. ASSUME NEW j \in 1 .. k PROVE (c \o b)[j] = queue[j]
  <2>1. j \in 1 .. Len(queue) + 1 /\ j \in 1 .. k + 1 /\ j <= k /\ j <= k + 1
    OBVIOUS
  <2> QED BY <1>3, <1>4, <2>1, Zenon
<1>6. (c \o b)[k + 1] = m
  BY <1>3, <1>4
<1>7. ASSUME NEW j \in k + 1 .. Len(queue) PROVE (c \o b)[j + 1] = queue[j]
  <2>1. j + 1 \in 1 .. Len(queue) + 1 /\ ~(j + 1 <= k + 1) /\ (j + 1) - (k + 1) = j - k
    OBVIOUS
  <2>2. j - k \in 1 .. Len(queue) - k /\ (j - k) + k = j
    OBVIOUS
  <2> QED BY <1>2, <1>4, <2>1, <2>2, Zenon
<1>8. queue' = c \o b
  BY Zenon DEF Insert, a, b, c
<1> QED BY <1>4, <1>5, <1>6, <1>7, <1>8, Zenon

\* A queue left by an earlier run is in receiving order.
LEMMA InitMqInv == MqInit => MqInv
<1> SUFFICES ASSUME MqInit PROVE MqInv
  BY Zenon
<1>1. PICK n \in 0 .. MaxLeftover : queue \in [1 .. n -> [prio : Prios, from : {"earlier"}, id : {0}]]
  BY Zenon DEF MqInit, Leftovers
<1>2. n \in Nat
  BY MqDemoAssumption
<1>3. [prio : Prios, from : {"earlier"}, id : {0}] \subseteq MqMsg
  <2> SUFFICES ASSUME NEW m \in [prio : Prios, from : {"earlier"}, id : {0}] PROVE m \in MqMsg
    BY Zenon
  <2>1. Prios \subseteq Nat
    BY MqDemoAssumption, Zenon
  <2>2. /\ m = [prio |-> m.prio, from |-> m.from, id |-> m.id]
        /\ m.prio \in Prios /\ m.from = "earlier" /\ m.id = 0
    BY Zenon
  <2>3. m.prio \in Nat /\ m.from \in {"earlier", "sender", "producer"} /\ m.id \in Nat
    <3>1. 0 \in Nat
      BY Zenon
    <3> QED BY <2>1, <2>2, <3>1, Zenon
  <2> QED BY <2>2, <2>3, Zenon DEF MqMsg
<1>4. queue \in Seq(MqMsg) /\ Len(queue) = n
  <2>1. queue \in [1 .. n -> MqMsg]
    BY <1>1, <1>3, Zenon
  <2> QED BY <1>2, <2>1
<1>5. script \in [1 .. 3 -> Nat]
  BY MqDemoAssumption, Zenon DEF MqInit, RECEIVES
<1>6. MqControl /\ GotOrder
  <2>1. main = "open" /\ kid = "none" /\ sent = 0 /\ got1 = <<>>
    BY Zenon DEF MqInit
  <2> QED BY <1>4, <1>5, <2>1 DEF MqControl, GotOrder, FirstDemo
<1>7. \A j \in 1 .. n : queue[j].from = "earlier" /\ queue[j].id = 0 /\ queue[j].prio \in Nat
  BY <1>1, MqDemoAssumption, Zenon
<1>8. \A j, k \in 1 .. n : j < k => queue[j].prio >= queue[k].prio
  BY <1>1, Zenon DEF MqInit, Leftovers
<1>9. ASSUME NEW j \in 1 .. n, NEW k \in 1 .. n, j < k PROVE InTurn(queue[j], queue[k])
  <2>1. queue[j].from = "earlier" /\ queue[j].prio \in Nat /\ queue[k].prio \in Nat /\ queue[j].prio >= queue[k].prio
    BY <1>7, <1>8, <1>9, Zenon
  <2>2. queue[j].prio > queue[k].prio \/ queue[j].prio = queue[k].prio
    BY <2>1
  <2> QED BY <2>1, <2>2, Zenon DEF InTurn, Before
<1>10. Len(got1) = 0
  BY Zenon DEF MqInit
<1>11. QueueOrder
  BY <1>4, <1>7, <1>9, <1>10, SMTT(30) DEF QueueOrder, Known
<1> QED BY <1>6, <1>11, Zenon DEF MqInv

\* mq_send of the external sender keeps the order: the new message is the latest of
\* its priority.
LEMMA SenderOrder == ASSUME MqInv, SenderSend PROVE MqInv'
<1>1. main = "wait" /\ got1 = <<>> /\ sent \in 0 .. 2 /\ sent' = sent + 1
  BY DEF MqInv, MqControl, SenderSend
<1>2. UNCHANGED <<main, script, got1>> /\ kid = "send"
  BY Zenon DEF SenderSend
<1>0. PICK m : m = Msg(script[sent + 1], "sender", sent)
  BY Zenon
<1>3. m \in MqMsg /\ m.from = "sender" /\ m.id = sent
  BY <1>0, <1>1 DEF Msg, MqMsg, MqInv, MqControl
<1>4. Send(m)
  BY <1>0, Zenon DEF SenderSend
<1>5. PICK k \in 0 .. Len(queue) : /\ \A j \in 1 .. Len(queue) : j <= k <=> queue[j].prio >= m.prio
                                   /\ queue' = Insert(k, m)
  BY <1>4, Zenon DEF Send
<1>6. queue \in Seq(MqMsg) /\ Len(queue) \in Nat
  BY DEF MqInv, MqControl
<1>7. /\ queue' \in Seq(MqMsg) /\ Len(queue') = Len(queue) + 1
      /\ \A j \in 1 .. k : queue'[j] = queue[j]
      /\ queue'[k + 1] = m
      /\ \A j \in k + 1 .. Len(queue) : queue'[j + 1] = queue[j]
  BY <1>3, <1>5, <1>6, InsertAt, ZenonT(40)
<1>8. Len(script) = 3 /\ kid' = IF sent' = Len(script) THEN "done" ELSE "send"
  BY DEF SenderSend, MqInv, MqControl
<1>9. MqControl'
  BY <1>1, <1>2, <1>7, <1>8, SMTT(30) DEF MqInv, MqControl, FirstDemo
<1>10. /\ \A j \in 1 .. Len(queue) : Known(queue[j], sent) /\ queue[j] \in MqMsg
       /\ \A j, l \in 1 .. Len(queue) : j < l => InTurn(queue[j], queue[l])
  BY <1>1, <1>6, SMTT(30) DEF MqInv, QueueOrder, FirstDemo
<1>11. \A j \in 1 .. Len(queue) : j <= k => InTurn(queue[j], m)
  BY <1>3, <1>5, <1>6, <1>10, SMTT(30) DEF InTurn, Before, Known, MqMsg
<1>12. \A j \in 1 .. Len(queue) : k < j => InTurn(m, queue[j])
  BY <1>3, <1>5, <1>6, <1>10, SMTT(30) DEF InTurn, Before, Known, MqMsg
<1>13. \A j \in 1 .. Len(queue) + 1 : Known(queue'[j], sent')
  <2>1. \A j \in 1 .. Len(queue) : Known(queue[j], sent')
    BY <1>1, <1>10 DEF Known, MqMsg
  <2>2. Known(m, sent')
    BY <1>1, <1>3 DEF Known
  <2> SUFFICES ASSUME NEW j \in 1 .. Len(queue) + 1 PROVE Known(queue'[j], sent')
    BY Zenon
  <2>3. CASE j \in 1 .. k
    <3>1. j \in 1 .. Len(queue)
      BY <1>5, <1>6, <2>3
    <3> QED BY <1>7, <2>1, <2>3, <3>1, Zenon
  <2>4. CASE j \in k + 2 .. Len(queue) + 1
    <3>1. j - 1 \in 1 .. Len(queue) /\ j - 1 \in k + 1 .. Len(queue) /\ (j - 1) + 1 = j
      BY <1>5, <1>6, <2>4, SMTT(30)
    <3> QED BY <1>7, <2>1, <3>1, Zenon
  <2>5. j \in 1 .. k \/ j = k + 1 \/ j \in k + 2 .. Len(queue) + 1
    BY <1>5, <1>6
  <2> QED BY <1>7, <2>2, <2>3, <2>4, <2>5, ZenonT(40)
<1>14. ASSUME NEW j \in 1 .. Len(queue) + 1, NEW l \in 1 .. Len(queue) + 1, j < l
       PROVE  InTurn(queue'[j], queue'[l])
  <2>1. \/ j \in 1 .. k /\ j \in 1 .. Len(queue) /\ queue'[j] = queue[j]
        \/ j = k + 1 /\ queue'[j] = m
        \/ j - 1 \in k + 1 .. Len(queue) /\ j - 1 \in 1 .. Len(queue) /\ queue'[j] = queue[j - 1]
    <3>1. \/ j \in 1 .. k /\ j \in 1 .. Len(queue)
          \/ j = k + 1
          \/ j - 1 \in k + 1 .. Len(queue) /\ j - 1 \in 1 .. Len(queue) /\ (j - 1) + 1 = j
      BY <1>5, <1>6
    <3> QED BY <1>7, <3>1, Zenon
  <2>2. \/ l \in 1 .. k /\ l \in 1 .. Len(queue) /\ queue'[l] = queue[l]
        \/ l = k + 1 /\ queue'[l] = m
        \/ l - 1 \in k + 1 .. Len(queue) /\ l - 1 \in 1 .. Len(queue) /\ queue'[l] = queue[l - 1]
    <3>1. \/ l \in 1 .. k /\ l \in 1 .. Len(queue)
          \/ l = k + 1
          \/ l - 1 \in k + 1 .. Len(queue) /\ l - 1 \in 1 .. Len(queue) /\ (l - 1) + 1 = l
      BY <1>5, <1>6
    <3> QED BY <1>7, <3>1, Zenon
  <2>3. CASE j \in 1 .. k /\ j \in 1 .. Len(queue) /\ queue'[j] = queue[j]
    <3>1. j <= k /\ (l - 1 \in k + 1 .. Len(queue) => j < l - 1)
      BY <1>5, <1>6, <2>3, SMTT(30)
    <3> QED BY <1>10, <1>11, <1>14, <2>2, <2>3, <3>1, ZenonT(40)
  <2>4. CASE j = k + 1 /\ queue'[j] = m
    <3>1. l \notin 1 .. k /\ l # k + 1 /\ (l - 1 \in k + 1 .. Len(queue) => k < l - 1)
      BY <1>5, <1>6, <1>14, <2>4, SMTT(30)
    <3> QED BY <1>12, <2>2, <2>4, <3>1, ZenonT(40)
  <2>5. CASE j - 1 \in k + 1 .. Len(queue) /\ j - 1 \in 1 .. Len(queue) /\ queue'[j] = queue[j - 1]
    <3>1. l \notin 1 .. k /\ l # k + 1 /\ j - 1 < l - 1
      BY <1>5, <1>6, <1>14, <2>5, SMTT(30)
    <3> QED BY <1>10, <2>2, <2>5, <3>1, ZenonT(40)
  <2> QED BY <2>1, <2>3, <2>4, <2>5, Zenon
<1>15. Len(got1') = 0
  BY <1>1, <1>2, ZenonT(40)
<1>16. QueueOrder' /\ GotOrder'
  BY <1>7, <1>13, <1>14, <1>15, SMTT(30) DEF QueueOrder, GotOrder
<1> QED BY <1>9, <1>16, Zenon DEF MqInv

\* The parent receives the head of the queue.
LEMMA ReceiveOrder == ASSUME MqInv, Receive1 PROVE MqInv'
<1>1. queue \in Seq(MqMsg) /\ queue # <<>> /\ got1 \in Seq(MqMsg) /\ main = "receive" /\ FirstDemo
  BY Zenon DEF MqInv, MqControl, Receive1, FirstDemo
<1>2. got1' = Append(got1, Head(queue)) /\ queue' = Tail(queue) /\ main' \in {"unlink1", "receive"}
      /\ UNCHANGED <<kid, script, sent>>
  BY Zenon DEF Receive1
<1>3. /\ queue' \in Seq(MqMsg) /\ Len(queue) \in Nat /\ Len(queue) > 0 /\ Len(queue') = Len(queue) - 1
      /\ \A j \in 1 .. Len(queue) - 1 : queue'[j] = queue[j + 1]
  BY <1>1, <1>2
<1>4. /\ got1' \in Seq(MqMsg) /\ Len(got1) \in Nat /\ Len(got1') = Len(got1) + 1
      /\ \A j \in 1 .. Len(got1) + 1 : got1'[j] = IF j <= Len(got1) THEN got1[j] ELSE queue[1]
  BY <1>1, <1>2
<1>5. /\ \A j \in 1 .. Len(queue) : Known(queue[j], sent)
      /\ \A j, k \in 1 .. Len(queue) : j < k => InTurn(queue[j], queue[k])
      /\ \A j \in 1 .. Len(got1), k \in 1 .. Len(queue) : InTurn(got1[j], queue[k])
      /\ \A j, k \in 1 .. Len(got1) : j < k => InTurn(got1[j], got1[k])
  BY <1>1, Zenon DEF MqInv, QueueOrder, GotOrder
<1>6. MqControl'
  BY <1>1, <1>2, <1>3, <1>4, ZenonT(40) DEF MqInv, MqControl, FirstDemo
<1>7. \A j \in 1 .. Len(queue') : Known(queue'[j], sent')
  BY <1>2, <1>3, <1>5, SMTT(30) DEF Known
<1>8. \A j, k \in 1 .. Len(queue') : j < k => InTurn(queue'[j], queue'[k])
  BY <1>3, <1>5, SMTT(30)
<1>9. ASSUME NEW j \in 1 .. Len(got1'), NEW k \in 1 .. Len(queue') PROVE InTurn(got1'[j], queue'[k])
  <2>1. k + 1 \in 1 .. Len(queue) /\ 1 \in 1 .. Len(queue) /\ 1 < k + 1 /\ queue'[k] = queue[k + 1]
    BY <1>3, <1>9
  <2>2. CASE j <= Len(got1)
    <3>1. j \in 1 .. Len(got1) /\ got1'[j] = got1[j]
      BY <1>4, <1>9, <2>2
    <3> QED BY <1>5, <2>1, <3>1, Zenon
  <2>3. CASE ~(j <= Len(got1))
    <3>1. got1'[j] = queue[1]
      BY <1>4, <1>9, <2>3, Zenon
    <3> QED BY <1>5, <2>1, <3>1, Zenon
  <2> QED BY <2>2, <2>3, Zenon
<1>10. ASSUME NEW j \in 1 .. Len(got1'), NEW k \in 1 .. Len(got1'), j < k PROVE InTurn(got1'[j], got1'[k])
  <2>1. j \in 1 .. Len(got1) /\ got1'[j] = got1[j] /\ 1 \in 1 .. Len(queue)
    BY <1>3, <1>4, <1>10
  <2>2. CASE k <= Len(got1)
    <3>1. k \in 1 .. Len(got1) /\ got1'[k] = got1[k]
      BY <1>4, <1>10, <2>2
    <3> QED BY <1>5, <1>10, <2>1, <3>1, Zenon
  <2>3. CASE ~(k <= Len(got1))
    <3>1. got1'[k] = queue[1]
      BY <1>4, <1>10, <2>3, Zenon
    <3> QED BY <1>5, <2>1, <3>1, Zenon
  <2> QED BY <2>2, <2>3, Zenon
<1>11. QueueOrder' /\ GotOrder'
  BY <1>7, <1>8, <1>9, <1>10, Zenon DEF QueueOrder, GotOrder
<1> QED BY <1>6, <1>11, Zenon DEF MqInv

\* The first demo's other steps leave the queue alone.
LEMMA FirstDemoOrder == ASSUME MqInv, Open1 \/ Fork1 \/ Exec \/ Wait1 \/ UNCHANGED mqVars PROVE MqInv'
<1>1. UNCHANGED <<queue, script, sent, got1>>
  BY Zenon DEF Open1, Fork1, Exec, Wait1, MqOpen, mqVars
<1>2. FirstDemo' => FirstDemo
  BY Zenon DEF Open1, Fork1, Exec, Wait1, FirstDemo, mqVars
<1>3. QueueOrder' /\ GotOrder'
  BY <1>1, <1>2, Zenon DEF MqInv, QueueOrder, GotOrder
<1>4. MqControl'
  <2>1. CASE Open1
    BY <1>1, <2>1, Zenon DEF Open1, MqInv, MqControl, FirstDemo
  <2>2. CASE Fork1
    BY <1>1, <2>2, Zenon DEF Fork1, MqInv, MqControl, FirstDemo
  <2>3. CASE Exec
    BY <1>1, <2>3 DEF Exec, MqInv, MqControl, FirstDemo
  <2>4. CASE Wait1
    BY <1>1, <2>4, Zenon DEF Wait1, Ended, MqInv, MqControl, FirstDemo
  <2>5. CASE UNCHANGED mqVars
    BY <1>1, <2>5, Zenon DEF mqVars, MqInv, MqControl, FirstDemo
  <2> QED BY <2>1, <2>2, <2>3, <2>4, <2>5, Zenon
<1> QED BY <1>3, <1>4, Zenon DEF MqInv

\* The second demo receives nothing for the first.
LEMMA SecondDemoOrder ==
    ASSUME MqInv,
           \/ Unlink1 \/ Unlink2 \/ Fork2 \/ ProducerOpen \/ ProducerSend \/ Wait2 \/ ConsumerOpen
           \/ ConsumerReceive
    PROVE  MqInv'
<1>1. ~FirstDemo /\ ~FirstDemo' /\ UNCHANGED <<script, got1>>
  BY Zenon DEF Unlink1, Unlink2, Fork2, ProducerOpen, ProducerSend, Wait2, ConsumerOpen, ConsumerReceive,
     FirstDemo, MqInv, MqControl
<1>2. kid' \in {kid, "open2", "receive2", "failed", "done"} /\ kid \notin {"exec", "send"}
  BY <1>1, Zenon DEF Unlink1, Unlink2, Fork2, ProducerOpen, ProducerSend, Wait2, ConsumerOpen, ConsumerReceive,
     FirstDemo, MqInv, MqControl
<1>3. sent' \in Nat
  <2>1. sent' \in {sent, 0, sent + 1} /\ sent \in Nat
    BY Zenon DEF Unlink1, Unlink2, Fork2, ProducerOpen, ProducerSend, Wait2, ConsumerOpen, ConsumerReceive,
       MqInv, MqControl
  <2> QED BY <2>1
<1>4. queue' \in Seq(MqMsg)
  <2>1. queue \in Seq(MqMsg) /\ <<>> \in Seq(MqMsg)
    BY DEF MqInv, MqControl
  <2>2. CASE ProducerSend
    <3>1. Msg(5, "producer", sent) \in MqMsg
      BY Zenon DEF Msg, MqMsg, MqInv, MqControl
    <3>2. PICK k \in 0 .. Len(queue) : queue' = Insert(k, Msg(5, "producer", sent))
      BY <2>2, Zenon DEF ProducerSend, Send
    <3> QED BY <2>1, <3>1, <3>2, InsertAt, Zenon
  <2>3. CASE ConsumerReceive
    <3>1. queue # <<>> /\ queue' = Tail(queue)
      BY <2>3, Zenon DEF ConsumerReceive
    <3> QED BY <2>1, <3>1
  <2>4. CASE Unlink1 \/ Unlink2 \/ Fork2 \/ ProducerOpen \/ Wait2 \/ ConsumerOpen
    BY <2>1, <2>4, Zenon DEF Unlink1, Unlink2, Fork2, ProducerOpen, Wait2, ConsumerOpen, MqOpen, MqUnlink
  <2> QED BY <2>2, <2>3, <2>4, Zenon
<1>5. MqControl'
  BY <1>1, <1>2, <1>3, <1>4, Zenon DEF MqInv, MqControl, FirstDemo
<1>6. QueueOrder' /\ GotOrder'
  BY <1>1, Zenon DEF MqInv, QueueOrder, GotOrder
<1> QED BY <1>5, <1>6, Zenon DEF MqInv

\* mq_demo prints the messages of its first demo by priority and, within a priority,
\* in the order they were sent, for every capacity, whatever priorities are used and
\* whatever an earlier run has left in the queue.
THEOREM HighestPriorityFirstHolds == MqSpec => []HighestPriorityFirst
<1>1. MqInv /\ [MqNext]_mqVars => MqInv'
  BY SenderOrder, ReceiveOrder, FirstDemoOrder, SecondDemoOrder, Zenon DEF MqNext, MqParent, MqChild, MqOver
<1>2. MqInv => HighestPriorityFirst
  BY Zenon DEF MqInv, GotOrder, InTurn, HighestPriorityFirst
<1> QED BY <1>1, <1>2, InitMqInv, PTL DEF MqSpec
=============================================================================
