--------------------------- MODULE ThreadDemoProofs ---------------------------
(***************************************************************************)
(* Proofs about the demos of thread_demo.c, for every number of threads,   *)
(* rounds, slots, permits and values.  Each demo has an inductive          *)
(* invariant of its own; main runs the demos one after the other, so a     *)
(* step of the program is a step of one demo that leaves the others alone. *)
(* The proof about demo_mutex, which counts increments, is in MutexProofs. *)
(***************************************************************************)
EXTENDS ThreadDemo, TLAPS

\* The length and the elements of a longer and of a shorter sequence.
LEMMA SeqFacts ==
    ASSUME NEW S, NEW s \in Seq(S)
    PROVE  /\ Len(s) \in Nat /\ s \in [1 .. Len(s) -> S]
           /\ \A e \in S : /\ Append(s, e) \in Seq(S) /\ Len(Append(s, e)) = Len(s) + 1
                           /\ Append(s, e)[Len(s) + 1] = e
                           /\ \A j \in 1 .. Len(s) : Append(s, e)[j] = s[j]
           /\ s # <<>> => /\ Tail(s) \in Seq(S) /\ Len(Tail(s)) = Len(s) - 1
                          /\ \A j \in 1 .. Len(s) - 1 : Tail(s)[j] = s[j + 1]
OBVIOUS

-----------------------------------------------------------------------------
(* demo_rwlock *)

\* Control points that only a holder of the lock is at.
RwInside == {"use", "print", "unlock"}

RwType ==
    /\ rw_pc \in [Rw!Thread -> {"none", "lock", "done"} \cup RwInside]
    /\ rw_shown \in [Rw!Thread -> Int] /\ g_shared_val \in Int
    /\ rw_main \in Int

\* A writer that holds the lock holds it alone.
RwExclusion ==
    \A w \in Rw!WriterIds : \A t \in Rw!Thread :
        rw_pc[w] \in RwInside /\ rw_pc[t] \in RwInside => t = w

\* What each thread knows of g_shared_val at its control point.
RwKnows ==
    /\ \A t \in Rw!ReaderIds : /\ rw_pc[t] # "print"
                               /\ rw_pc[t] = "unlock" => rw_shown[t] = g_shared_val
    /\ \A t \in Rw!WriterIds : /\ rw_pc[t] = "print" => g_shared_val = 100 * t
                               /\ rw_shown[t] \in {-1, 100 * t}

\* StableUnderLock is inductive only together with the exclusion.
RwInv == RwType /\ RwExclusion /\ RwKnows

\* No id is both a reader's and a writer's.
LEMMA RwIds ==
  /\ Rw!ReaderIds \cap Rw!WriterIds = {} /\ Rw!Thread = Rw!ReaderIds \cup Rw!WriterIds
  /\ Rw!WriterIds \subseteq Nat
<1>1. \A k \in DOMAIN Writers : Writers[k] \in Nat \ (0 .. NR)
  BY RwLockAssumption
<1> QED BY <1>1 DEF Rw!ReaderIds, Rw!WriterIds, Rw!Thread

\* Before its threads are created demo_rwlock satisfies the invariant.
LEMMA RwInit == Rw!Init => RwInv
BY RwIds DEF Rw!Init, RwInv, RwType, RwExclusion, RwKnows, RwInside

\* Every step of demo_rwlock preserves its invariant.
LEMMA RwStep == RwInv /\ [Rw!Next]_rwVars => RwInv'
<1> SUFFICES ASSUME RwInv, [Rw!Next]_rwVars PROVE RwInv'
    BY Zenon
<1> USE RwIds DEF RwInv, RwInside
<1>1. ASSUME NEW t \in Rw!Thread, Rw!RdLock(t) PROVE RwInv'
  <2>1. \A w \in Rw!WriterIds : rw_pc[w] \notin RwInside /\ w # t
    BY <1>1, Zenon DEF Rw!RdLock, Rw!CanRead, Rw!Holding
  <2> QED BY <1>1, <2>1 DEF Rw!RdLock, Rw!Goto, RwType, RwExclusion, RwKnows
<1>2. ASSUME NEW t \in Rw!Thread, Rw!WrLock(t) PROVE RwInv'
  <2>1. \A u \in Rw!Thread : rw_pc[u] \notin RwInside
    BY <1>2, Zenon DEF Rw!WrLock, Rw!CanWrite, Rw!Holding
  <2> QED BY <1>2, <2>1 DEF Rw!WrLock, Rw!Goto, RwType, RwExclusion, RwKnows
<1>3. ASSUME NEW t \in Rw!Thread, Rw!Read(t) PROVE RwInv'
  BY <1>3 DEF Rw!Read, Rw!Goto, RwType, RwExclusion, RwKnows
<1>4. ASSUME NEW t \in Rw!Thread, Rw!Write(t) PROVE RwInv'
  <2>1. \A u \in Rw!Thread : rw_pc[u] \in RwInside => u = t
    BY <1>4, Zenon DEF Rw!Write, RwExclusion
  <2>2. g_shared_val' = 100 * t /\ 100 * t \in Int
    BY <1>4 DEF Rw!Write, Rw!NewValue
  <2> QED BY <1>4, <2>1, <2>2 DEF Rw!Write, Rw!Goto, RwType, RwExclusion, RwKnows
<1>5. ASSUME NEW t \in Rw!Thread, Rw!Show(t) PROVE RwInv'
  BY <1>5 DEF Rw!Show, Rw!Goto, RwType, RwExclusion, RwKnows
<1>6. ASSUME NEW t \in Rw!Thread, Rw!ReaderUnlock(t) PROVE RwInv'
  BY <1>6 DEF Rw!ReaderUnlock, Rw!AfterRead, Rw!Forget, Rw!Goto, RwType, RwExclusion, RwKnows
<1>7. ASSUME NEW t \in Rw!Thread, Rw!WriterUnlock(t) PROVE RwInv'
  BY <1>7 DEF Rw!WriterUnlock, Rw!Forget, Rw!Goto, RwType, RwExclusion, RwKnows
<1>8. CASE Rw!Create
  <2> DEFINE x == Rw!Created[rw_main]
  <2>1. /\ rw_pc' = [rw_pc EXCEPT ![x] = "lock"] /\ rw_main' = rw_main + 1
        /\ UNCHANGED <<g_shared_val, rw_shown>>
    BY <1>8, Zenon DEF Rw!Create, Rw!Goto
  <2> HIDE DEF x
  <2>2. \A t \in Rw!Thread : rw_pc'[t] \in {"lock", rw_pc[t]}
    BY <2>1, Zenon DEF RwType
  <2>3. rw_pc' = [t \in Rw!Thread |-> IF t = x THEN "lock" ELSE rw_pc[t]]
    BY <2>1, Zenon DEF RwType
  <2>4. RwType'
    <3>1. rw_pc' \in [Rw!Thread -> {"none", "lock", "done"} \cup RwInside]
      BY <2>3, Zenon DEF RwType
    <3>2. rw_main' \in Int
      BY <2>1 DEF RwType
    <3> QED BY <2>1, <3>1, <3>2, Zenon DEF RwType
  <2> QED BY <2>1, <2>2, <2>4 DEF RwExclusion, RwKnows
<1>9. CASE Rw!CreateFails
  BY <1>9 DEF Rw!CreateFails, RwType, RwExclusion, RwKnows
<1>10. CASE Rw!Join \/ UNCHANGED rwVars
  BY <1>10 DEF Rw!Join, rwVars, RwType, RwExclusion, RwKnows
<1> QED
  BY <1>1, <1>2, <1>3, <1>4, <1>5, <1>6, <1>7, <1>8, <1>9, <1>10, Zenon DEF Rw!Next, Rw!Acquire, Rw!Run, Rw!Main

\* The invariant says what the property does.
LEMMA RwResult == RwInv => StableUnderLock
BY ZenonT(40) DEF RwInv, RwKnows, StableUnderLock, Rw!StableUnderLock

-----------------------------------------------------------------------------
(* demo_cond_var2 *)

\* WaitJustified relies on a sleeper's partner being awake to wake it up, and
\* CountInv on the loop index of a thread that is still in its loop.
CondInv == TypeOK /\ LockInv /\ CountInv /\ WaitJustified

\* The invariant holds before either thread has run.
LEMMA CondInit == Init => CondInv
BY CountHandoffAssumption DEF Init, CondInv, TypeOK, LockInv, CountInv, WaitJustified, Thread

\* Every step of either thread preserves it.
LEMMA CondStep == CondInv /\ [Next]_vars => CondInv'
<1> SUFFICES ASSUME CondInv, [Next]_vars PROVE CondInv'
    BY Zenon
<1> USE CountHandoffAssumption DEF CondInv, Thread
<1>1. ASSUME NEW t \in Thread, Lock(t) PROVE CondInv'
  BY <1>1, Zenon DEF Lock, Free, TypeOK, LockInv, CountInv, WaitJustified, MustWait
<1>2. ASSUME NEW t \in Thread, Wait(t) PROVE CondInv'
  BY <1>2, Zenon DEF Wait, TypeOK, LockInv, CountInv, WaitJustified, MustWait
<1>3. ASSUME NEW t \in Thread, Spurious(t) PROVE CondInv'
  BY <1>3, Zenon DEF Spurious, TypeOK, LockInv, CountInv, WaitJustified, MustWait
<1>4. ASSUME NEW t \in Thread, Step(t) PROVE CondInv'
  <2>1. CASE t = "producer"
    BY <1>4, <2>1 DEF Step, Signal, Other, Again, TypeOK, LockInv, CountInv, WaitJustified, MustWait
  <2>2. CASE t = "consumer"
    BY <1>4, <2>2 DEF Step, Signal, Other, Again, TypeOK, LockInv, CountInv, WaitJustified, MustWait
  <2> QED BY <2>1, <2>2, Zenon
<1>5. ASSUME NEW t \in Thread, Unlock(t) PROVE CondInv'
  BY <1>5, Zenon DEF Unlock, TypeOK, LockInv, CountInv, WaitJustified, MustWait
<1>6. CASE Join \/ UNCHANGED vars
  BY <1>6, Zenon DEF Join, vars, TypeOK, LockInv, CountInv, WaitJustified, MustWait
<1> QED BY <1>1, <1>2, <1>3, <1>4, <1>5, <1>6, Zenon DEF Next, Run

-----------------------------------------------------------------------------
(* demo_sem_prod_consumer *)

\* The producer leaves its loop when it has pushed SENTINEL, and not before.
SemLoop == s_pc["producer"] # "done" => s_i <= Items

\* SlotsDisjoint is not inductive: that the cursors differ follows from how far
\* they are apart, which the semaphores and the two control points determine.
SemInv == Sem!TypeOK /\ SemLoop /\ Sem!PermitsConserved /\ Sem!RingInv

\* % QUEUE_SIZE on the sums the ring forms.
LEMMA WrapValue ==
  ASSUME NEW x \in 0 .. 2 * QUEUE_SIZE - 1
  PROVE  Sem!Wrap(x) = IF x < QUEUE_SIZE THEN x ELSE x - QUEUE_SIZE
<1>1. QUEUE_SIZE \in Nat \ {0}
  BY SemQueueAssumption, Zenon
<1>2. ASSUME NEW n \in Nat \ {0}, NEW y \in 0 .. 2 * n - 1
      PROVE  y % n = IF y < n THEN y ELSE y - n
  <2>1. CASE y < n
    BY <2>1
  <2>2. CASE y >= n
    <3>1. y \div n = 1
      BY <2>2
    <3> QED BY <3>1, <2>2
  <2> QED BY <2>1, <2>2
<1> QED BY <1>1, <1>2, Zenon DEF Sem!Wrap

\* A cursor that is advanced stays a slot, and one step from the end of a run of
\* d slots is the end of a run of d + 1.
LEMMA AdvanceTail ==
  ASSUME NEW h \in Sem!Slot, NEW d \in 0 .. QUEUE_SIZE - 1
  PROVE  /\ Sem!Wrap(h + d) \in Sem!Slot
         /\ Sem!Wrap(Sem!Wrap(h + d) + 1) \in Sem!Slot
         /\ Sem!Wrap(Sem!Wrap(h + d) + 1) = Sem!Wrap(h + (d + 1))
<1>1. QUEUE_SIZE \in Nat \ {0} /\ h \in Int /\ d \in Int
      /\ 0 <= h /\ h < QUEUE_SIZE /\ 0 <= d /\ d < QUEUE_SIZE
  BY SemQueueAssumption DEF Sem!Slot
<1>2. h + d \in 0 .. 2 * QUEUE_SIZE - 1
  BY <1>1
<1>3. h + (d + 1) \in 0 .. 2 * QUEUE_SIZE - 1
  BY <1>1
<1>4. Sem!Wrap(h + d) = IF h + d < QUEUE_SIZE THEN h + d ELSE h + d - QUEUE_SIZE
  BY <1>1, <1>2, WrapValue
<1>5. Sem!Wrap(h + (d + 1)) = IF h + (d + 1) < QUEUE_SIZE THEN h + (d + 1) ELSE h + (d + 1) - QUEUE_SIZE
  BY <1>1, <1>3, WrapValue
<1>6. Sem!Wrap(h + d) \in Sem!Slot /\ Sem!Wrap(h + d) + 1 \in 0 .. 2 * QUEUE_SIZE - 1
  BY <1>1, <1>4 DEF Sem!Slot
<1>7. Sem!Wrap(Sem!Wrap(h + d) + 1)
        = IF Sem!Wrap(h + d) + 1 < QUEUE_SIZE THEN Sem!Wrap(h + d) + 1 ELSE Sem!Wrap(h + d) + 1 - QUEUE_SIZE
  BY <1>1, <1>6, WrapValue
<1> QED BY <1>1, <1>4, <1>5, <1>6, <1>7 DEF Sem!Slot

\* Advancing head by one leaves one slot less before the same tail.
LEMMA AdvanceHead ==
  ASSUME NEW h \in Sem!Slot, NEW d \in 1 .. QUEUE_SIZE
  PROVE  Sem!Wrap(h + 1) \in Sem!Slot /\ Sem!Wrap(Sem!Wrap(h + 1) + (d - 1)) = Sem!Wrap(h + d)
<1>1. QUEUE_SIZE \in Nat \ {0} /\ h \in Int /\ d \in Int
      /\ 0 <= h /\ h < QUEUE_SIZE /\ 1 <= d /\ d <= QUEUE_SIZE
  BY SemQueueAssumption DEF Sem!Slot
<1>2. h + d \in 0 .. 2 * QUEUE_SIZE - 1 /\ h + 1 \in 0 .. 2 * QUEUE_SIZE - 1
  BY <1>1
<1>3. Sem!Wrap(h + 1) = IF h + 1 < QUEUE_SIZE THEN h + 1 ELSE h + 1 - QUEUE_SIZE
  BY <1>1, <1>2, WrapValue
<1>4. Sem!Wrap(h + 1) \in Sem!Slot
  BY <1>1, <1>3 DEF Sem!Slot
<1>5. CASE h + 1 < QUEUE_SIZE
  <2>1. Sem!Wrap(h + 1) + (d - 1) = h + d
    BY <1>1, <1>3, <1>5
  <2> QED BY <2>1, <1>4, Zenon
<1>6. CASE h + 1 >= QUEUE_SIZE
  <2>1. Sem!Wrap(h + 1) + (d - 1) = d - 1 /\ d - 1 \in 0 .. 2 * QUEUE_SIZE - 1
    BY <1>1, <1>3, <1>6
  <2>2. Sem!Wrap(d - 1) = d - 1
    BY <2>1, <1>1, WrapValue
  <2>3. Sem!Wrap(h + d) = IF h + d < QUEUE_SIZE THEN h + d ELSE h + d - QUEUE_SIZE
    BY <1>1, <1>2, WrapValue
  <2> QED BY <2>1, <2>2, <2>3, <1>1, <1>4, <1>6, SMTT(30)
<1> QED BY <1>1, <1>5, <1>6

\* Two cursors d slots apart, 0 < d < QUEUE_SIZE, are different.
LEMMA ApartDiffer ==
  ASSUME NEW h \in Sem!Slot, NEW d \in 1 .. QUEUE_SIZE - 1
  PROVE  Sem!Wrap(h + d) # h
<1>1. QUEUE_SIZE \in Nat \ {0} /\ h \in Int /\ d \in Int
      /\ 0 <= h /\ h < QUEUE_SIZE /\ 1 <= d /\ d < QUEUE_SIZE
  BY SemQueueAssumption DEF Sem!Slot
<1>2. h + d \in 0 .. 2 * QUEUE_SIZE - 1
  BY <1>1
<1>3. Sem!Wrap(h + d) = IF h + d < QUEUE_SIZE THEN h + d ELSE h + d - QUEUE_SIZE
  BY <1>1, <1>2, WrapValue
<1> QED BY <1>1, <1>3

\* The initial state satisfies the inductive invariant.
LEMMA SemInit == Sem!Init => SemInv
<1> SUFFICES ASSUME Sem!Init PROVE SemInv
    BY Zenon
<1> USE SemQueueAssumption DEF Sem!Init
<1>1. Sem!TypeOK
  BY DEF Sem!TypeOK, Sem!Slot, Sem!Value, Sem!Thread
<1>2. SemLoop
  BY DEF SemLoop
<1>3. Sem!PermitsConserved
  BY DEF Sem!PermitsConserved, Sem!Inside, Sem!Thread
<1>4. Sem!RingInv
  <2>1. Sem!InRing = 0
    BY DEF Sem!InRing, Sem!Thread
  <2> QED BY <2>1, WrapValue DEF Sem!RingInv
<1> QED BY <1>1, <1>2, <1>3, <1>4, Zenon DEF SemInv

\* A push that is about to advance tail has a slot for it.
LEMMA RingBounds ==
  ASSUME SemInv
  PROVE  /\ Sem!InRing \in 0 .. QUEUE_SIZE
         /\ s_pc["producer"] = "advance" => Sem!InRing < QUEUE_SIZE
         /\ s_pc["consumer"] = "advance" => Sem!InRing >= 1
         /\ s_pc["producer"] = "data" /\ s_pc["consumer"] = "data" => Sem!InRing \in 1 .. QUEUE_SIZE - 1
BY SemQueueAssumption DEF SemInv, Sem!TypeOK, Sem!PermitsConserved, Sem!Inside, Sem!InRing, Sem!Thread

\* A step that leaves the cursors and their distance alone keeps RingInv.
LEMMA SameRing ==
  ASSUME Sem!RingInv, head' = head, tail' = tail, Sem!InRing' = Sem!InRing
  PROVE  Sem!RingInv'
BY Zenon DEF Sem!RingInv, Sem!Wrap

\* Every step of the two threads preserves the inductive invariant.
LEMMA SemStep == SemInv /\ [Sem!Next]_semVars => SemInv'
<1> SUFFICES ASSUME SemInv, [Sem!Next]_semVars PROVE SemInv'
    BY Zenon
<1> USE SemQueueAssumption
<1>q. /\ Sem!TypeOK /\ SemLoop /\ Sem!PermitsConserved /\ Sem!RingInv
      /\ "producer" \in Sem!Thread /\ "consumer" \in Sem!Thread
      /\ Sem!Thread = {"producer", "consumer"}
  BY Zenon DEF SemInv, Sem!Thread
<1>1. CASE Sem!PushWait
  <2>1. Sem!TypeOK' /\ SemLoop' /\ Sem!PermitsConserved'
    BY <1>1, <1>q DEF Sem!PushWait, Sem!At, Sem!Goto, Sem!TypeOK, SemLoop, Sem!PermitsConserved, Sem!Inside, Sem!ring
  <2>2. Sem!InRing' = Sem!InRing
    BY <1>1, <1>q, Zenon DEF Sem!PushWait, Sem!At, Sem!Goto, Sem!TypeOK, Sem!InRing, Sem!ring
  <2> QED BY <2>1, <2>2, <1>1, <1>q, SameRing, Zenon DEF SemInv, Sem!PushWait, Sem!ring
<1>2. CASE Sem!PushData
  <2>1. Sem!ToPush \in Sem!Value
    BY <1>q DEF Sem!ToPush, Sem!Value, Sem!TypeOK
  <2>2. Sem!TypeOK' /\ SemLoop' /\ Sem!PermitsConserved'
    BY <1>2, <1>q, <2>1, Zenon DEF Sem!PushData, Sem!At, Sem!Goto, Sem!TypeOK, SemLoop, Sem!PermitsConserved, Sem!Inside
  <2>3. Sem!InRing' = Sem!InRing
    BY <1>2, <1>q, Zenon DEF Sem!PushData, Sem!At, Sem!Goto, Sem!TypeOK, Sem!InRing
  <2> QED BY <2>2, <2>3, <1>2, <1>q, SameRing, Zenon DEF SemInv, Sem!PushData
<1>3. CASE Sem!PushAdvance
  <2>1. Sem!InRing \in 0 .. QUEUE_SIZE - 1 /\ head \in Sem!Slot
    BY <1>3, <1>q, RingBounds DEF Sem!PushAdvance, Sem!At, Sem!TypeOK
  <2>2. tail' \in Sem!Slot /\ tail' = Sem!Wrap(head + (Sem!InRing + 1))
    BY <2>1, <1>3, <1>q, AdvanceTail, Zenon DEF Sem!PushAdvance, Sem!RingInv
  <2>3. Sem!InRing' = Sem!InRing + 1 /\ head' = head
    BY <1>3, <1>q DEF Sem!PushAdvance, Sem!At, Sem!Goto, Sem!TypeOK, Sem!InRing
  <2>4. Sem!TypeOK' /\ SemLoop' /\ Sem!PermitsConserved'
    BY <1>3, <1>q, <2>2, Zenon DEF Sem!PushAdvance, Sem!At, Sem!Goto, Sem!TypeOK, SemLoop, Sem!PermitsConserved, Sem!Inside
  <2>5. Sem!RingInv'
    BY <2>2, <2>3, Zenon DEF Sem!RingInv, Sem!Wrap
  <2> QED BY <2>4, <2>5, Zenon DEF SemInv
<1>4. CASE Sem!PushPost
  <2>1. s_i <= Items /\ notEmpty + 1 <= Permits
    BY <1>4, <1>q DEF Sem!PushPost, Sem!At, Sem!TypeOK, SemLoop, Sem!PermitsConserved, Sem!Inside
  <2>2. Sem!TypeOK' /\ SemLoop' /\ Sem!PermitsConserved'
    BY <1>4, <1>q, <2>1, SMTT(30) DEF Sem!PushPost, Sem!At, Sem!Goto, Sem!TypeOK, SemLoop, Sem!PermitsConserved, Sem!Inside, Sem!ring
  <2>3. Sem!InRing' = Sem!InRing
    BY <1>4, <1>q DEF Sem!PushPost, Sem!At, Sem!Goto, Sem!TypeOK, Sem!InRing, Sem!ring
  <2> QED BY <2>2, <2>3, <1>4, <1>q, SameRing, Zenon DEF SemInv, Sem!PushPost, Sem!ring
<1>5. CASE Sem!PopWait
  <2>1. Sem!TypeOK' /\ SemLoop' /\ Sem!PermitsConserved'
    BY <1>5, <1>q DEF Sem!PopWait, Sem!At, Sem!Goto, Sem!TypeOK, SemLoop, Sem!PermitsConserved, Sem!Inside, Sem!ring
  <2>2. Sem!InRing' = Sem!InRing
    BY <1>5, <1>q DEF Sem!PopWait, Sem!At, Sem!Goto, Sem!TypeOK, Sem!InRing, Sem!ring
  <2> QED BY <2>1, <2>2, <1>5, <1>q, SameRing, Zenon DEF SemInv, Sem!PopWait, Sem!ring
<1>6. CASE Sem!PopData
  <2>1. data[head] \in Sem!Value
    BY <1>q, Zenon DEF Sem!TypeOK
  <2>2. Sem!TypeOK' /\ SemLoop' /\ Sem!PermitsConserved'
    BY <1>6, <1>q, <2>1 DEF Sem!PopData, Sem!At, Sem!Goto, Sem!TypeOK, SemLoop, Sem!PermitsConserved, Sem!Inside, Sem!ring
  <2>3. Sem!InRing' = Sem!InRing
    BY <1>6, <1>q, Zenon DEF Sem!PopData, Sem!At, Sem!Goto, Sem!TypeOK, Sem!InRing, Sem!ring
  <2> QED BY <2>2, <2>3, <1>6, <1>q, SameRing, Zenon DEF SemInv, Sem!PopData, Sem!ring
<1>7. CASE Sem!PopAdvance
  <2>1. Sem!InRing \in 1 .. QUEUE_SIZE /\ head \in Sem!Slot
    BY <1>7, <1>q, RingBounds DEF Sem!PopAdvance, Sem!At, Sem!TypeOK
  <2>2. head' \in Sem!Slot /\ Sem!Wrap(head' + (Sem!InRing - 1)) = Sem!Wrap(head + Sem!InRing)
    BY <2>1, <1>7, AdvanceHead, Zenon DEF Sem!PopAdvance
  <2>3. Sem!InRing' = Sem!InRing - 1 /\ tail' = tail
    BY <1>7, <1>q DEF Sem!PopAdvance, Sem!At, Sem!Goto, Sem!TypeOK, Sem!InRing
  <2>4. Sem!TypeOK' /\ SemLoop' /\ Sem!PermitsConserved'
    BY <1>7, <1>q, <2>2, Zenon DEF Sem!PopAdvance, Sem!At, Sem!Goto, Sem!TypeOK, SemLoop, Sem!PermitsConserved, Sem!Inside
  <2>5. Sem!RingInv'
    BY <2>2, <2>3, <1>q, Zenon DEF Sem!RingInv, Sem!Wrap
  <2> QED BY <2>4, <2>5, Zenon DEF SemInv
<1>8. CASE Sem!PopPost
  <2>1. notFull + 1 <= Permits
    BY <1>8, <1>q, SMTT(30) DEF Sem!PopPost, Sem!At, Sem!TypeOK, Sem!PermitsConserved, Sem!Inside
  <2>2. Sem!TypeOK' /\ SemLoop' /\ Sem!PermitsConserved'
    BY <1>8, <1>q, <2>1 DEF Sem!PopPost, Sem!At, Sem!Goto, Sem!TypeOK, SemLoop, Sem!PermitsConserved, Sem!Inside, Sem!ring
  <2>3. Sem!InRing' = Sem!InRing
    BY <1>8, <1>q, Zenon DEF Sem!PopPost, Sem!At, Sem!Goto, Sem!TypeOK, Sem!InRing, Sem!ring
  <2> QED BY <2>2, <2>3, <1>8, <1>q, SameRing, Zenon DEF SemInv, Sem!PopPost, Sem!ring
<1>9. ASSUME NEW t \in Sem!Thread, Sem!CountLoad(t) PROVE SemInv'
  <2>1. Sem!TypeOK' /\ SemLoop' /\ Sem!PermitsConserved'
    BY <1>9, <1>q, Zenon DEF Sem!CountLoad, Sem!At, Sem!Goto, Sem!TypeOK, SemLoop, Sem!PermitsConserved, Sem!Inside, Sem!ring
  <2>2. Sem!InRing' = Sem!InRing
    BY <1>9, <1>q, Zenon DEF Sem!CountLoad, Sem!At, Sem!Goto, Sem!TypeOK, Sem!InRing, Sem!ring
  <2> QED BY <2>1, <2>2, <1>9, <1>q, SameRing, Zenon DEF SemInv, Sem!CountLoad, Sem!ring
<1>10. ASSUME NEW t \in Sem!Thread, Sem!CountStore(t) PROVE SemInv'
  <2>1. Sem!TypeOK' /\ SemLoop' /\ Sem!PermitsConserved'
    BY <1>10, <1>q DEF Sem!CountStore, Sem!At, Sem!Goto, Sem!TypeOK, SemLoop, Sem!PermitsConserved, Sem!Inside, Sem!ring
  <2>2. Sem!InRing' = Sem!InRing
    BY <1>10, <1>q, Zenon DEF Sem!CountStore, Sem!At, Sem!Goto, Sem!TypeOK, Sem!InRing, Sem!ring
  <2> QED BY <2>1, <2>2, <1>10, <1>q, SameRing, Zenon DEF SemInv, Sem!CountStore, Sem!ring
<1>11. CASE Sem!Join \/ UNCHANGED semVars
  BY <1>11, <1>q, Zenon DEF Sem!Join, Sem!vars, semVars, SemInv, Sem!TypeOK, SemLoop, Sem!PermitsConserved, Sem!Inside, Sem!RingInv, Sem!InRing, Sem!Wrap
<1> QED
  BY <1>1, <1>2, <1>3, <1>4, <1>5, <1>6, <1>7, <1>8, <1>9, <1>10, <1>11, ZenonT(40) DEF Sem!Next, Sem!Producer, Sem!Consumer, Sem!Count

\* At the moment both threads are in the ring, the distance of the cursors is
\* neither 0 nor the size of the ring.
LEMMA SemResult == SemInv => SlotsDisjoint
<1> SUFFICES ASSUME SemInv, Sem!At("producer", "data"), Sem!At("consumer", "data") PROVE head # tail
    BY Zenon DEF SlotsDisjoint, Sem!SlotsDisjoint
<1>1. Sem!InRing \in 1 .. QUEUE_SIZE - 1
  BY RingBounds, Zenon DEF Sem!At
<1>2. head \in Sem!Slot /\ tail = Sem!Wrap(head + Sem!InRing)
  BY Zenon DEF SemInv, Sem!TypeOK, Sem!RingInv
<1> QED BY <1>1, <1>2, ApartDiffer, Zenon

\* Different distances from a slot, less than the size of the ring apart, lead to
\* different slots.
LEMMA WrapDistinct ==
  ASSUME NEW h \in Sem!Slot, NEW a \in 0 .. QUEUE_SIZE - 1, NEW b \in 0 .. QUEUE_SIZE - 1, a < b
  PROVE  Sem!Wrap(h + a) \in Sem!Slot /\ Sem!Wrap(h + a) # Sem!Wrap(h + b)
<1>1. QUEUE_SIZE \in Nat \ {0} /\ h \in Int /\ 0 <= h /\ h < QUEUE_SIZE
  BY SemQueueAssumption DEF Sem!Slot
<1>2. h + a \in 0 .. 2 * QUEUE_SIZE - 1 /\ h + b \in 0 .. 2 * QUEUE_SIZE - 1
  BY <1>1
<1>3. Sem!Wrap(h + a) = IF h + a < QUEUE_SIZE THEN h + a ELSE h + a - QUEUE_SIZE
  BY <1>1, <1>2, WrapValue
<1>4. Sem!Wrap(h + b) = IF h + b < QUEUE_SIZE THEN h + b ELSE h + b - QUEUE_SIZE
  BY <1>1, <1>2, WrapValue
<1> QED BY <1>1, <1>3, <1>4 DEF Sem!Slot

\* Where the unread values are, and that the next push has a free slot after them.
LEMMA UnreadBounds ==
  ASSUME SemInv
  PROVE  /\ Sem!First \in Sem!Slot /\ Sem!Unread \in 0 .. Permits
         /\ s_pc["producer"] = "data" =>
              Sem!Unread < Permits /\ tail = Sem!Wrap(Sem!First + Sem!Unread)
<1>1. Sem!Unread \in 0 .. Permits /\ (s_pc["producer"] = "data" => Sem!Unread < Permits)
  BY SemQueueAssumption
  DEF SemInv, Sem!TypeOK, Sem!PermitsConserved, Sem!Inside, Sem!Unread, Sem!Thread
<1>2. head \in Sem!Slot /\ tail = Sem!Wrap(head + Sem!InRing) /\ Sem!InRing \in 0 .. QUEUE_SIZE
  BY RingBounds, Zenon DEF SemInv, Sem!TypeOK, Sem!RingInv
<1>3. CASE s_pc["consumer"] = "advance"
  <2>1. Sem!First = Sem!Wrap(head + 1) /\ Sem!InRing \in 1 .. QUEUE_SIZE
    BY <1>2, <1>3, RingBounds DEF Sem!First
  <2>2. s_pc["producer"] = "data" => Sem!Unread = Sem!InRing - 1
    BY <1>3 DEF Sem!Unread, Sem!InRing, SemInv, Sem!TypeOK
  <2> QED BY <1>1, <1>2, <2>1, <2>2, AdvanceHead, Zenon
<1>4. CASE s_pc["consumer"] # "advance"
  <2>1. Sem!First = head
    BY <1>4, Zenon DEF Sem!First
  <2>2. s_pc["producer"] = "data" => Sem!Unread = Sem!InRing
    BY <1>4, Zenon DEF Sem!Unread, Sem!InRing, SemInv, Sem!TypeOK
  <2> QED BY <1>1, <1>2, <2>1, <2>2, Zenon
<1> QED BY <1>3, <1>4, Zenon

\* The unread values are a sequence.
LEMMA ContentsType ==
  ASSUME SemInv
  PROVE  /\ Sem!Contents \in Seq(Sem!Value) /\ Len(Sem!Contents) = Sem!Unread
         /\ \A k \in 1 .. Sem!Unread : Sem!Contents[k] = data[Sem!Wrap(Sem!First + k - 1)]
<1>1. QUEUE_SIZE \in Nat \ {0} /\ Permits \in 1 .. QUEUE_SIZE /\ Sem!Unread \in 0 .. Permits
      /\ Sem!First \in Sem!Slot /\ data \in [Sem!Slot -> Sem!Value]
  BY UnreadBounds, SemQueueAssumption, Zenon DEF SemInv, Sem!TypeOK
<1>2. ASSUME NEW k \in 1 .. Sem!Unread PROVE Sem!Wrap(Sem!First + k - 1) \in Sem!Slot
  <2>1. k - 1 \in 0 .. QUEUE_SIZE - 1 /\ Sem!First + k - 1 = Sem!First + (k - 1)
    BY <1>1 DEF Sem!Slot
  <2> QED BY <1>1, <2>1, AdvanceTail, Zenon
<1>3. Sem!Contents \in [1 .. Sem!Unread -> Sem!Value]
  BY <1>1, <1>2, Zenon DEF Sem!Contents
<1>4. Sem!Unread \in Nat
  BY <1>1
<1>5. Sem!Contents \in Seq(Sem!Value) /\ Len(Sem!Contents) = Sem!Unread
  BY <1>3, <1>4
<1> QED BY <1>5, Zenon DEF Sem!Contents

\* The store of raw_queue_push appends the value: the slot at tail holds none of
\* the unread values.
LEMMA PushAppends ==
  ASSUME SemInv, Sem!PushData
  PROVE  Sem!Contents' = Append(Sem!Contents, Sem!ToPush)
<1> DEFINE n == Sem!Unread
           f == Sem!First
           v == Sem!ToPush
           c == Sem!Contents
<1>1. QUEUE_SIZE \in Nat \ {0} /\ n \in 0 .. QUEUE_SIZE - 1 /\ f \in Sem!Slot
      /\ data \in [Sem!Slot -> Sem!Value] /\ tail = Sem!Wrap(f + n) /\ tail \in Sem!Slot
  BY UnreadBounds, SemQueueAssumption, SMTT(30) DEF SemInv, Sem!TypeOK, Sem!PushData, Sem!At
<1>2. data' = [data EXCEPT ![tail] = v] /\ Sem!First' = f /\ Sem!Unread' = n + 1
  BY DEF Sem!PushData, Sem!At, Sem!Goto, Sem!First, Sem!Unread, SemInv, Sem!TypeOK, Sem!Thread, Sem!Wrap
<1>3. c \in Seq(Sem!Value) /\ Len(c) = n
      /\ \A k \in 1 .. n : c[k] = data[Sem!Wrap(f + k - 1)]
  BY ContentsType, Zenon
<1>4. v \in Sem!Value
  BY SemQueueAssumption DEF Sem!ToPush, Sem!Value, SemInv, Sem!TypeOK
<1>5. Sem!Contents' = [k \in 1 .. n + 1 |-> data'[Sem!Wrap(f + k - 1)]]
  BY <1>2 DEF Sem!Contents, Sem!Wrap
<1> HIDE DEF n, f, v, c
<1>6. ASSUME NEW k \in 1 .. n + 1
      PROVE  data'[Sem!Wrap(f + k - 1)] = IF k <= n THEN c[k] ELSE v
  <2>1. CASE k <= n
    <3>1. k - 1 \in 0 .. QUEUE_SIZE - 1 /\ k - 1 < n /\ f + k - 1 = f + (k - 1) /\ k \in 1 .. n
      BY <1>1, <2>1 DEF Sem!Slot
    <3>2. Sem!Wrap(f + k - 1) \in Sem!Slot /\ Sem!Wrap(f + k - 1) # tail
      BY <1>1, <3>1, WrapDistinct, Zenon
    <3> QED BY <1>1, <1>2, <1>3, <2>1, <3>1, <3>2, Zenon
  <2>2. CASE k = n + 1
    <3>1. f + k - 1 = f + n
      BY <1>1, <2>2 DEF Sem!Slot
    <3> QED BY <1>1, <1>2, <2>2, <3>1, SMTT(30)
  <2> QED BY <1>1, <2>1, <2>2
<1>7. Append(c, v) = [k \in 1 .. n + 1 |-> IF k <= n THEN c[k] ELSE v]
  <2> DEFINE a == Append(c, v)
  <2>1. /\ a \in Seq(Sem!Value) /\ Len(a) = n + 1 /\ a[n + 1] = v
        /\ \A k \in 1 .. n : a[k] = c[k]
    BY <1>3, <1>4, SeqFacts
  <2>2. a \in [1 .. n + 1 -> Sem!Value]
    BY <2>1, SeqFacts, Zenon
  <2> HIDE DEF a
  <2>3. a = [k \in 1 .. n + 1 |-> IF k <= n THEN c[k] ELSE v]
    BY <1>1, <2>1, <2>2
  <2> QED BY <2>3, Zenon DEF a
<1> QED BY <1>5, <1>6, <1>7, ZenonT(40) DEF v, c

\* The load of raw_queue_pop takes the first unread value and leaves the others.
LEMMA PopTakesHead ==
  ASSUME SemInv, Sem!PopData
  PROVE  /\ Sem!Contents # <<>> /\ Head(Sem!Contents) = data[head]
         /\ Sem!Contents' = Tail(Sem!Contents)
<1> DEFINE n == Sem!Unread
           c == Sem!Contents
<1>1. QUEUE_SIZE \in Nat \ {0} /\ n \in 1 .. QUEUE_SIZE /\ Sem!First = head /\ head \in Sem!Slot
  BY UnreadBounds, SemQueueAssumption, SMTT(30) DEF Sem!Unread, Sem!First, Sem!PopData, Sem!At, SemInv, Sem!TypeOK
<1>2. data' = data /\ Sem!First' = Sem!Wrap(head + 1) /\ Sem!Unread' = n - 1
  BY <1>1 DEF Sem!PopData, Sem!At, Sem!Goto, Sem!First, Sem!Unread, Sem!Wrap, Sem!ring,
              SemInv, Sem!TypeOK, Sem!Thread
<1>3. c \in Seq(Sem!Value) /\ Len(c) = n
      /\ \A k \in 1 .. n : c[k] = data[Sem!Wrap(head + k - 1)]
  BY <1>1, ContentsType, Zenon
<1>4. Sem!Contents' = [k \in 1 .. n - 1 |-> data[Sem!Wrap(Sem!Wrap(head + 1) + k - 1)]]
  BY <1>2, Zenon DEF Sem!Contents, Sem!Wrap
<1> HIDE DEF n, c
<1>5. c # <<>> /\ Head(c) = c[1]
  BY <1>1, <1>3, SMTT(30)
<1>6. Head(c) = data[head]
  <2>1. Sem!Wrap(head + 1 - 1) = head
    BY <1>1, WrapValue DEF Sem!Slot
  <2> QED BY <1>1, <1>3, <1>5, <2>1, SMTT(30)
<1>7. ASSUME NEW k \in 1 .. n - 1
      PROVE  data[Sem!Wrap(Sem!Wrap(head + 1) + k - 1)] = c[k + 1]
  <2>1. /\ k + 1 \in 1 .. n /\ k + 1 \in 1 .. QUEUE_SIZE /\ k \in 1 .. QUEUE_SIZE
        /\ head + (k + 1) - 1 = head + k /\ Sem!Wrap(head + 1) \in Int
    BY <1>1, AdvanceHead DEF Sem!Slot
  <2>2. Sem!Wrap(head + 1) + k - 1 = Sem!Wrap(head + 1) + (k - 1)
    BY <2>1, Zenon
  <2>3. Sem!Wrap(Sem!Wrap(head + 1) + (k - 1)) = Sem!Wrap(head + k)
    BY <1>1, <2>1, AdvanceHead, Zenon
  <2> QED BY <1>3, <2>1, <2>2, <2>3, ZenonT(40)
<1>8. Tail(c) = [k \in 1 .. n - 1 |-> c[k + 1]]
  <2> DEFINE r == Tail(c)
  <2>1. /\ r \in Seq(Sem!Value) /\ Len(r) = n - 1
        /\ \A k \in 1 .. n - 1 : r[k] = c[k + 1]
    BY <1>3, <1>5, SeqFacts, ZenonT(40)
  <2>2. r \in [1 .. n - 1 -> Sem!Value]
    BY <2>1, SeqFacts, Zenon
  <2> HIDE DEF r
  <2>3. r = [k \in 1 .. n - 1 |-> c[k + 1]]
    BY <2>1, <2>2, Zenon
  <2> QED BY <2>3, Zenon DEF r
<1> QED BY <1>4, <1>5, <1>6, <1>7, <1>8, ZenonT(40) DEF c

\* The other steps of the two threads neither write nor read a value.
LEMMA SameContents ==
  ASSUME data' = data, got' = got, Sem!First' = Sem!First, Sem!Unread' = Sem!Unread
  PROVE  UNCHANGED Sem!Fifo!fifoVars
BY Zenon DEF Sem!Fifo!fifoVars, Sem!Contents, Sem!Wrap

\* Every step of the ring is a step of the bounded channel or none.
LEMMA SemRefines == SemInv /\ [Sem!Next]_semVars => [Sem!Fifo!Next]_Sem!Fifo!fifoVars
<1> SUFFICES ASSUME SemInv, [Sem!Next]_semVars PROVE [Sem!Fifo!Next]_Sem!Fifo!fifoVars
    BY Zenon
<1> USE DEF Sem!At, Sem!Goto, Sem!First, Sem!Unread, Sem!ring
<1>q. Sem!TypeOK /\ Sem!Thread = {"producer", "consumer"}
  BY Zenon DEF SemInv, Sem!Thread
<1>1. CASE Sem!PushData
  <2>1. Sem!Contents' = Append(Sem!Contents, Sem!ToPush) /\ Sem!ToPush \in Sem!Value
    BY <1>1, <1>q, PushAppends, SemQueueAssumption DEF Sem!ToPush, Sem!Value, Sem!TypeOK
  <2>2. Len(Sem!Contents) < Permits
    BY <1>1, ContentsType, UnreadBounds, SemQueueAssumption, Zenon DEF Sem!PushData
  <2>3. got' = got
    BY <1>1, Zenon DEF Sem!PushData
  <2> QED BY <2>1, <2>2, <2>3, Zenon DEF Sem!Fifo!Next, Sem!Fifo!Put
<1>2. CASE Sem!PopData
  <2>1. got' = Append(got, data[head])
    BY <1>2, Zenon DEF Sem!PopData
  <2> QED BY <1>2, <2>1, PopTakesHead, Zenon DEF Sem!Fifo!Next, Sem!Fifo!Get
<1>3. CASE Sem!PushWait
  BY <1>3, <1>q, SameContents, Zenon DEF Sem!PushWait, Sem!TypeOK
<1>4. CASE Sem!PushAdvance
  BY <1>4, <1>q, SameContents, Zenon DEF Sem!PushAdvance, Sem!TypeOK
<1>5. CASE Sem!PushPost
  BY <1>5, <1>q, SameContents, SMTT(30) DEF Sem!PushPost, Sem!TypeOK
<1>6. CASE Sem!PopWait
  BY <1>6, <1>q, SameContents DEF Sem!PopWait, Sem!TypeOK
<1>7. CASE Sem!PopAdvance
  BY <1>7, <1>q, SameContents, Zenon DEF Sem!PopAdvance, Sem!TypeOK
<1>8. CASE Sem!PopPost
  BY <1>8, <1>q, SameContents, ZenonT(40) DEF Sem!PopPost, Sem!TypeOK
<1>9. CASE \E t \in Sem!Thread : Sem!Count(t)
  BY <1>9, <1>q, SameContents, SMTT(30) DEF Sem!Count, Sem!CountLoad, Sem!CountStore, Sem!TypeOK
<1>10. CASE Sem!Join \/ UNCHANGED semVars
  BY <1>10, SameContents, Zenon DEF Sem!Join, Sem!vars, semVars
<1> QED
  BY <1>1, <1>2, <1>3, <1>4, <1>5, <1>6, <1>7, <1>8, <1>9, <1>10, ZenonT(40) DEF Sem!Next, Sem!Producer, Sem!Consumer

-----------------------------------------------------------------------------
(* demo_basic_threads and demo_tls *)

\* Threads that demo_basic_threads has joined.
Joined == IF w_main > N_THREADS THEN w_main - N_THREADS ELSE 0

BasicInv ==
    /\ w_pc \in [0 .. N_THREADS - 1 -> {"none", "run", "done"}]
    /\ retval \in [0 .. N_THREADS - 1 -> Int] /\ w_main \in -1 .. 2 * N_THREADS
    /\ \A t \in 0 .. N_THREADS - 1 : w_pc[t] = "done" => retval[t] = t * 10
    /\ shown = [k \in 1 .. Joined |-> (k - 1) * 10]

\* A thread of demo_tls finds in its copy what it has added itself.
TlsInv ==
    /\ tpc \in [1 .. NT -> -1 .. Work!Incs + 1] /\ tls_counter \in [1 .. NT -> Int]
    /\ tshown \in [1 .. NT -> Int] /\ tmain \in -1 .. 2 * NT
    /\ \A t \in 1 .. NT :
          /\ tpc[t] = -1 => tls_counter[t] = 0
          /\ tpc[t] \in 0 .. Work!Incs => tls_counter[t] = tpc[t]
          /\ tpc[t] = Work!Incs + 1 => tshown[t] = Work!Incs
          /\ tmain # -1 /\ tmain < t => tpc[t] = -1
          /\ t + NT <= tmain => tpc[t] = Work!Incs + 1

WorkNext == Work!BasicNext \/ Work!TlsNext

\* Both demos start with nothing created and nothing shown.
LEMMA WorkInit == Work!Init => BasicInv /\ TlsInv
BY WorkersAssumption
DEF Work!Init, Work!Worker, Work!TlsWorker, Work!Incs, BasicInv, TlsInv, Joined

\* The join of demo_basic_threads shows the result of the thread it waits for.
LEMMA BasicStep == BasicInv /\ [WorkNext]_workVars => BasicInv'
<1> SUFFICES ASSUME BasicInv, [WorkNext]_workVars PROVE BasicInv'
    BY Zenon
<1> USE WorkersAssumption DEF Work!Worker
<1>1. ASSUME NEW t \in Work!Worker, Work!BasicWorker(t) PROVE BasicInv'
  <2>1. Joined' = Joined /\ shown' = shown /\ w_main' = w_main
    BY <1>1, Zenon DEF Work!BasicWorker, Joined
  <2>2. t * 10 \in Int /\ retval' = [retval EXCEPT ![t] = t * 10]
        /\ w_pc' = [w_pc EXCEPT ![t] = "done"]
    BY <1>1 DEF Work!BasicWorker, Work!Arg
  <2> QED BY <2>1, <2>2, Zenon DEF BasicInv
<1>2. CASE Work!Create
  <2>1. w_main \in 0 .. N_THREADS - 1 /\ retval' = retval /\ shown' = shown
    BY <1>2, Zenon DEF Work!Create
  <2>2. CASE w_main' = w_main + 1 /\ w_pc' = [w_pc EXCEPT ![w_main] = "run"]
    <3>1. Joined = 0 /\ Joined' = 0 /\ w_main' \in -1 .. 2 * N_THREADS
      BY <2>1, <2>2 DEF Joined
    <3> QED BY <2>1, <2>2, <3>1, Zenon DEF BasicInv
  <2>3. CASE w_main' = -1 /\ UNCHANGED w_pc
    <3>1. Joined = 0 /\ Joined' = 0 /\ w_main' \in -1 .. 2 * N_THREADS
      BY <2>1, <2>3, SMTT(30) DEF Joined
    <3> QED BY <2>1, <2>3, <3>1, Zenon DEF BasicInv
  <2> QED BY <1>2, <2>2, <2>3, Zenon DEF Work!Create
<1>3. CASE Work!Join
  <2>1. /\ w_main - N_THREADS \in 0 .. N_THREADS - 1 /\ w_main \in Int
        /\ Joined = w_main - N_THREADS /\ Joined' = Joined + 1 /\ Joined \in Nat
    BY <1>3 DEF Work!Join, Joined, BasicInv
  <2>2. retval[w_main - N_THREADS] = Joined * 10
    BY <1>3, <2>1, Zenon DEF Work!Join, BasicInv
  <2>3. shown \in Seq(Int) /\ Len(shown) = Joined
    BY <2>1, SMTT(30) DEF BasicInv
  <2> DEFINE a == Append(shown, Joined * 10)
  <2>4. /\ a \in Seq(Int) /\ Len(a) = Joined + 1 /\ a[Joined + 1] = Joined * 10
        /\ \A k \in 1 .. Joined : a[k] = shown[k]
    BY <2>1, <2>3, SeqFacts
  <2>5. a \in [1 .. Joined + 1 -> Int]
    BY <2>4, SeqFacts, Zenon
  <2>6. shown' = a /\ shown = [k \in 1 .. Joined |-> (k - 1) * 10]
    BY <1>3, <2>2, Zenon DEF Work!Join, BasicInv
  <2> HIDE DEF a
  <2>7. a = [k \in 1 .. Joined + 1 |-> (k - 1) * 10]
    <3>1. \A k \in 1 .. Joined : a[k] = (k - 1) * 10
      BY <2>4, <2>6, Zenon
    <3>2. a[Joined + 1] = ((Joined + 1) - 1) * 10
      BY <2>1, <2>4, SMTT(30)
    <3>3. \A k \in 1 .. Joined + 1 : k \in 1 .. Joined \/ k = Joined + 1
      BY <2>1
    <3>4. \A k \in 1 .. Joined + 1 : a[k] = (k - 1) * 10
      BY <3>1, <3>2, <3>3, Zenon
    <3> QED BY <2>5, <3>4, Zenon
  <2> QED BY <1>3, <2>1, <2>6, <2>7, SMTT(30) DEF Work!Join, BasicInv
<1>4. CASE Work!TlsNext \/ UNCHANGED workVars
  BY <1>4, Zenon DEF Work!TlsNext, Work!TlsRun, Work!TlsCreate, Work!TlsJoin, Work!basicVars, workVars,
              BasicInv, Joined
<1> QED BY <1>1, <1>2, <1>3, <1>4, Zenon DEF WorkNext, Work!BasicNext

\* No thread of demo_tls touches another one's copy.
LEMMA TlsStep == TlsInv /\ [WorkNext]_workVars => TlsInv'
<1> SUFFICES ASSUME TlsInv, [WorkNext]_workVars PROVE TlsInv'
    BY Zenon
<1> USE WorkersAssumption DEF Work!TlsWorker, Work!Incs
<1>1. ASSUME NEW t \in Work!TlsWorker, Work!TlsRun(t) PROVE TlsInv'
  <2>1. CASE tpc[t] < 5
    <3>1. /\ tpc' = [tpc EXCEPT ![t] = @ + 1] /\ tls_counter' = [tls_counter EXCEPT ![t] = @ + 1]
          /\ UNCHANGED <<tshown, tmain>> /\ tpc[t] \in 0 .. 4
      BY <1>1, <2>1, SMTT(30) DEF Work!TlsRun, Work!Copy
    <3>2. tls_counter[t] = tpc[t] /\ tpc[t] + 1 \in 1 .. 5
      BY <3>1, SMTT(30) DEF TlsInv
    <3>3. /\ tpc' \in [1 .. NT -> -1 .. 6] /\ tls_counter' \in [1 .. NT -> Int]
          /\ tshown' \in [1 .. NT -> Int] /\ tmain' \in -1 .. 2 * NT
      BY <3>1, <3>2, SMTT(30) DEF TlsInv
    <3>4. \A u \in 1 .. NT : u # t => tpc'[u] = tpc[u] /\ tls_counter'[u] = tls_counter[u]
      BY <3>1, Zenon DEF TlsInv
    <3>5. tpc'[t] = tpc[t] + 1 /\ tls_counter'[t] = tpc[t] + 1
      BY <3>1, <3>2, ZenonT(40) DEF TlsInv
    <3>6. /\ ~(tmain # -1 /\ tmain < t) /\ ~(t + NT <= tmain)
      BY <3>1, SMTT(30) DEF TlsInv
    <3>7. ASSUME NEW u \in 1 .. NT
          PROVE  /\ tpc'[u] = -1 => tls_counter'[u] = 0
                 /\ tpc'[u] \in 0 .. 5 => tls_counter'[u] = tpc'[u]
                 /\ tpc'[u] = 6 => tshown'[u] = 5
                 /\ tmain' # -1 /\ tmain' < u => tpc'[u] = -1
                 /\ u + NT <= tmain' => tpc'[u] = 6
      <4>1. CASE u = t
        BY <3>1, <3>2, <3>5, <3>6, <4>1
      <4>2. CASE u # t
        BY <3>1, <3>4, <4>2, SMTT(30) DEF TlsInv
      <4> QED BY <4>1, <4>2, Zenon
    <3> QED BY <3>3, <3>7, SMTT(30) DEF TlsInv
  <2>2. CASE tpc[t] = 5
    <3>1. /\ tpc' = [tpc EXCEPT ![t] = 6] /\ tshown' = [tshown EXCEPT ![t] = tls_counter[t]]
          /\ UNCHANGED <<tls_counter, tmain>>
      BY <1>1, <2>2 DEF Work!TlsRun, Work!Copy
    <3> QED BY <2>2, <3>1, SMTT(30) DEF TlsInv
  <2> QED BY <1>1, <2>1, <2>2, ZenonT(40) DEF Work!TlsRun
<1>2. CASE Work!TlsCreate
  <2>1. CASE tmain' = tmain + 1 /\ tpc' = [tpc EXCEPT ![tmain + 1] = 0]
    <3>1. tmain \in 0 .. NT - 1 /\ tmain + 1 \in 1 .. NT /\ UNCHANGED <<tls_counter, tshown>>
      BY <1>2, SMTT(30) DEF Work!TlsCreate
    <3>2. tls_counter[tmain + 1] = 0
      BY <3>1, SMTT(30) DEF TlsInv
    <3> QED BY <2>1, <3>1, <3>2, SMTT(30) DEF TlsInv
  <2>2. CASE tmain' = -1 /\ UNCHANGED tpc
    BY <1>2, <2>2, SMTT(30) DEF Work!TlsCreate, TlsInv
  <2> QED BY <1>2, <2>1, <2>2, ZenonT(40) DEF Work!TlsCreate
<1>3. CASE Work!TlsJoin
  BY <1>3, SMTT(30) DEF Work!TlsJoin, TlsInv
<1>4. CASE Work!BasicNext \/ UNCHANGED workVars
  BY <1>4, Zenon DEF Work!BasicNext, Work!BasicWorker, Work!Create, Work!Join, Work!tlsVars, workVars, TlsInv
<1> QED BY <1>1, <1>2, <1>3, <1>4, Zenon DEF WorkNext, Work!TlsNext

\* When both demos have returned, main has shown the results of its own threads.
LEMMA WorkResult ==
  BasicInv /\ TlsInv /\ Work!BasicReturned /\ Work!TlsReturned => Work!OwnResults
<1> SUFFICES ASSUME BasicInv, TlsInv, Work!BasicReturned, Work!TlsReturned PROVE Work!OwnResults
    BY Zenon
<1>1. Joined = N_THREADS
  BY WorkersAssumption DEF Joined, Work!BasicReturned
<1>2. \A t \in 1 .. NT : tshown[t] = Work!Incs
  BY WorkersAssumption DEF TlsInv, Work!TlsReturned
<1> QED BY <1>1, <1>2, Zenon DEF BasicInv, Work!OwnResults, Work!TlsWorker

-----------------------------------------------------------------------------
(* The program *)

\* A step of the program is a step of each demo or leaves its variables alone.
LEMMA StepOfDemos ==
  [DemoNext]_allVars => /\ [WorkNext]_workVars /\ [Next]_vars
                        /\ [Sem!Next]_semVars /\ [Rw!Next]_rwVars
<1> SUFFICES ASSUME [DemoNext]_allVars
             PROVE  /\ [WorkNext]_workVars /\ [Next]_vars
                    /\ [Sem!Next]_semVars /\ [Rw!Next]_rwVars
    BY Zenon
<1>1. CASE Basic \/ Tls
  BY <1>1, Zenon DEF Basic, Tls, WorkDemo, WorkNext
<1>2. CASE MutexDemo(Mutex!Next)
  BY <1>2, Zenon DEF MutexDemo
<1>3. CASE CondDemo(\E t \in Thread : Lock(t) \/ Run(t) \/ Spurious(t))
  BY <1>3, Zenon DEF CondDemo, Next
<1>4. CASE SemDemo(Sem!Producer \/ Sem!Consumer \/ \E t \in Thread : Sem!Count(t))
  BY <1>4, Zenon DEF SemDemo, Sem!Next, Sem!Thread, Thread
<1>5. CASE RwDemo(Rw!Next)
  BY <1>5, Zenon DEF RwDemo
<1>6. CASE CreateFails
  BY <1>6, Zenon DEF CreateFails
<1>7. CASE Over \/ UNCHANGED allVars
  BY <1>7, Zenon DEF Over, allVars
<1> QED BY <1>1, <1>2, <1>3, <1>4, <1>5, <1>6, <1>7, ZenonT(40) DEF DemoNext

DemoInv == BasicInv /\ TlsInv /\ CondInv /\ SemInv /\ RwInv

\* The invariants of the demos hold throughout a run of the program.
LEMMA DemoInvariance == DemoSpec => []DemoInv
<1>1. DemoInit => DemoInv
  BY WorkInit, CondInit, SemInit, RwInit, Zenon DEF DemoInit, DemoInv
<1>2. DemoInv /\ [DemoNext]_allVars => DemoInv'
  BY StepOfDemos, BasicStep, TlsStep, CondStep, SemStep, RwStep, ZenonT(40) DEF DemoInv
<1> QED BY <1>1, <1>2, PTL DEF DemoSpec

\* Type correctness: in particular the count of demo_cond_var2 stays within 0 and
\* one more than its limit, the cursors of the ring stay slots and the semaphores
\* within the initial value of sem_not_full.
THEOREM TypeCorrect == DemoSpec => [](TypeOK /\ Sem!TypeOK /\ RwType)
BY DemoInvariance, PTL DEF DemoInv, CondInv, SemInv, RwInv

\* The count of demo_cond_var2 is the difference of the two loop indices.
THEOREM CountCorrect == DemoSpec => []CountInv
BY DemoInvariance, PTL DEF DemoInv, CondInv

\* A thread of demo_cond_var2 sleeps in pthread_cond_wait only while its condition
\* says so, so no signal is ever missed.
THEOREM NoMissedSignal == DemoSpec => []WaitJustified
BY DemoInvariance, PTL DEF DemoInv, CondInv

\* A thread of demo_cond_var2 that is done leaves nobody asleep.
THEOREM NoOrphan == DemoSpec => []NoOrphanedSleeper
<1>1. CondInv => NoOrphanedSleeper
  BY CountHandoffAssumption
  DEF CondInv, TypeOK, CountInv, WaitJustified, NoOrphanedSleeper, MustWait, Other, Thread
<1> QED BY <1>1, DemoInvariance, PTL DEF DemoInv

\* No permit is lost or created by raw_queue_push and raw_queue_pop, and the
\* semaphores determine the distance between the cursors.
THEOREM SemaphoresCount == DemoSpec => [](Sem!PermitsConserved /\ Sem!RingInv)
BY DemoInvariance, PTL DEF DemoInv, SemInv

\* raw_queue_push never writes the slot raw_queue_pop is reading, although no
\* mutex guards the ring.
THEOREM SlotExclusion == DemoSpec => []SlotsDisjoint
BY DemoInvariance, SemResult, PTL DEF DemoInv

\* What a thread of demo_rwlock has read or stored stays true while it holds the
\* lock, for any number of readers and writers.
THEOREM StableUnderLockHolds == DemoSpec => []StableUnderLock
BY DemoInvariance, RwResult, PTL DEF DemoInv

\* raw_queue_push and raw_queue_pop implement a first-in first-out channel of as
\* many places as sem_not_full has permits, for every size of the ring.
THEOREM RingRefinement == DemoSpec => RingIsFifo
<1>1. DemoInit => Sem!Fifo!Init
  <2> SUFFICES ASSUME Sem!Init PROVE Sem!Fifo!Init
      BY Zenon DEF DemoInit
  <2>1. got = <<>> /\ Sem!Unread = 0
    BY DEF Sem!Init, Sem!Unread, Sem!Thread
  <2>2. Sem!Contents = <<>>
    BY <2>1, SemInit, ContentsType, SMTT(30)
  <2> QED BY <2>1, <2>2, Zenon DEF Sem!Fifo!Init
<1>2. DemoInv /\ [DemoNext]_allVars => [Sem!Fifo!Next]_Sem!Fifo!fifoVars
  BY StepOfDemos, SemRefines, Zenon DEF DemoInv
<1> QED
  BY <1>1, <1>2, DemoInvariance, PTL DEF DemoSpec, RingIsFifo, Sem!ImplementsFifo, Sem!Fifo!Spec

\* The safety half of DemosEnd: when the program has got to its end, main has
\* shown what its own threads returned, and no thread of demo_tls has got at
\* another one's copy of tls_counter.
THEOREM OwnResultsShown == DemoSpec => [](Ended /\ Running => Work!OwnResults)
<1>1. DemoInv /\ Ended /\ Running => Work!OwnResults
  BY WorkResult, Zenon DEF DemoInv, Ended, ToTls, ToRwLock, ToSem, ToCond, ToMutex
<1> QED BY <1>1, DemoInvariance, PTL
=============================================================================
