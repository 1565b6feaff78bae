----------------------------- MODULE MutexProofs -----------------------------
(***************************************************************************)
(* Proof that demo_mutex of thread_demo.c loses no increment, for every    *)
(* number of threads and rounds.  The counter is compared with the number  *)
(* of increments stored, so the proof rests on facts about finite sets.    *)
(***************************************************************************)
EXTENDS ThreadDemo, FiniteSetTheorems, TLAPS

MutexType ==
    /\ g_counter \in Int /\ m_mutex \in 0 .. N
    /\ m_pc \in [1 .. N -> {"none", "lock", "load", "store", "unlock", "done"}]
    /\ m_i \in [1 .. N -> 0 .. ITERS] /\ m_tmp \in [1 .. N -> Int]
    /\ m_main \in 0 .. 2 * N + 1

\* A thread in its critical section owns the mutex, and only such a thread does.
MutexOwner == \A t \in 1 .. N : m_pc[t] \in {"load", "store", "unlock"} <=> m_mutex = t

\* A thread leaves its loop after ITERS rounds; main has created and joined the
\* threads that it says it has.
MutexLoop ==
    \A t \in 1 .. N : /\ m_pc[t] = "done" <=> m_i[t] = ITERS
                      /\ m_main <= t => m_pc[t] = "none"
                      /\ t + N < m_main => m_pc[t] = "done"

\* What a thread has loaded is current until it has stored.
MutexLoaded == \A t \in 1 .. N : m_pc[t] = "store" => m_tmp[t] = g_counter

\* That a loaded value stays current is inductive only with the mutual exclusion:
\* nobody but the owner stores.  A process that has exited has no threads.
MutexLive == m_main # 0 /\ MutexOwner /\ MutexLoop /\ MutexLoaded
MutexInv ==
    /\ MutexType
    /\ IF m_main = 0 THEN \A t \in 1 .. N : m_pc[t] = "none"
       ELSE MutexLive /\ g_counter = Cardinality(Mutex!Stored)

\* The increments stored are finitely many.
LEMMA StoredFinite == IsFiniteSet(Mutex!Stored)
<1>1. IsFiniteSet(1 .. N) /\ IsFiniteSet(1 .. ITERS)
  BY MutexAssumption, FS_Interval, SMTT(30)
<1>2. IsFiniteSet((1 .. N) \X (1 .. ITERS))
  BY <1>1, FS_Product, Zenon
<1> QED BY <1>2, FS_Subset, Zenon DEF Mutex!Stored, Mutex!Thread

\* No increment has been stored when demo_mutex starts.
LEMMA MutexInit == Mutex!Init => MutexInv
<1> SUFFICES ASSUME Mutex!Init PROVE MutexInv
    BY Zenon
<1> USE MutexAssumption DEF Mutex!Init, Mutex!Thread, Mutex!Free
<1>1. MutexType /\ MutexLive
  BY DEF MutexType, MutexLive, MutexOwner, MutexLoop, MutexLoaded
<1>2. Mutex!Stored = {}
  BY DEF Mutex!Stored, Mutex!Stores
<1> QED BY <1>1, <1>2, FS_EmptySet, ZenonT(40) DEF MutexInv

\* A step that stores nothing leaves the set of stored increments alone.
LEMMA SameStored ==
  ASSUME \A t \in 1 .. N : Mutex!Stores(t)' = Mutex!Stores(t)
  PROVE  Mutex!Stored' = Mutex!Stored
BY Zenon DEF Mutex!Stored, Mutex!Thread

\* The store of a thread adds one increment to the set.
LEMMA OneMoreStored ==
  ASSUME MutexInv, m_main # 0, NEW t \in 1 .. N, Mutex!Store(t)
  PROVE  Cardinality(Mutex!Stored') = Cardinality(Mutex!Stored) + 1
<1> USE MutexAssumption
<1>1. m_i[t] \in Int /\ m_i[t] + 1 \in 1 .. ITERS /\ m_pc[t] = "store"
  BY SMTT(30) DEF MutexInv, MutexType, MutexLive, MutexLoop, Mutex!Store
<1>2. /\ \A u \in 1 .. N : u # t => Mutex!Stores(u)' = Mutex!Stores(u)
      /\ Mutex!Stores(t) = m_i[t] /\ Mutex!Stores(t)' = m_i[t] + 1
  BY <1>1 DEF MutexInv, MutexType, Mutex!Store, Mutex!Goto, Mutex!Stores
<1> DEFINE s == <<t, m_i[t] + 1>>
<1>3. s \notin Mutex!Stored
  BY <1>1, <1>2 DEF Mutex!Stored
<1>4. Mutex!Stored' = Mutex!Stored \cup {s}
  <2>1. ASSUME NEW u \in 1 .. N, NEW k \in 1 .. ITERS
        PROVE  k <= Mutex!Stores(u)' <=> k <= Mutex!Stores(u) \/ <<u, k>> = s
    <3>1. CASE u = t
      BY <3>1, <1>1, <1>2, SMTT(30)
    <3>2. CASE u # t
      BY <3>2, <1>2, Zenon
    <3> QED BY <3>1, <3>2, ZenonT(40)
  <2> HIDE DEF s
  <2>2. s \in (1 .. N) \X (1 .. ITERS)
    BY <1>1, Zenon DEF s
  <2> QED BY <2>1, <2>2, SMTT(30) DEF Mutex!Stored, Mutex!Thread
<1> QED BY <1>3, <1>4, StoredFinite, FS_AddElement, ZenonT(40)

\* Every step of demo_mutex preserves its invariant.
LEMMA MutexStep == MutexInv /\ [Mutex!Next]_mutexVars => MutexInv'
<1> SUFFICES ASSUME MutexInv, [Mutex!Next]_mutexVars PROVE MutexInv'
    BY Zenon
<1> USE MutexAssumption
<1>q. MutexType /\ Mutex!Thread = 1 .. N
  BY Zenon DEF MutexInv, Mutex!Thread
<1>x. ASSUME NEW t \in 1 .. N, m_pc[t] # "none"
      PROVE  MutexLive /\ g_counter = Cardinality(Mutex!Stored)
  BY <1>x, Zenon DEF MutexInv
<1>s. ASSUME g_counter' = g_counter, \A u \in 1 .. N : Mutex!Stores(u)' = Mutex!Stores(u),
             g_counter = Cardinality(Mutex!Stored)
      PROVE  g_counter' = Cardinality(Mutex!Stored)'
  BY <1>s, SameStored, Zenon
<1>1. ASSUME NEW t \in 1 .. N, Mutex!Lock(t) PROVE MutexInv'
  <2> USE <1>1, <1>q DEF Mutex!Lock, Mutex!Goto, Mutex!Free
  <2>1. MutexLive /\ g_counter = Cardinality(Mutex!Stored)
    BY <1>x, Zenon
  <2>2. MutexType'
    BY DEF MutexType
  <2>3. MutexLive'
    BY <2>1, SMTT(30) DEF MutexType, MutexLive, MutexOwner, MutexLoop, MutexLoaded
  <2>4. \A u \in 1 .. N : Mutex!Stores(u)' = Mutex!Stores(u)
    BY Zenon DEF MutexType, Mutex!Stores
  <2> QED BY <2>1, <2>2, <2>3, <2>4, <1>s, ZenonT(40) DEF MutexInv
<1>2. ASSUME NEW t \in 1 .. N, Mutex!Load(t) PROVE MutexInv'
  <2> USE <1>2, <1>q DEF Mutex!Load, Mutex!Goto
  <2>1. MutexLive /\ g_counter = Cardinality(Mutex!Stored)
    BY <1>x, Zenon
  <2>2. MutexType'
    BY Zenon DEF MutexType
  <2>3. MutexLive'
    BY <2>1, ZenonT(40) DEF MutexType, MutexLive, MutexOwner, MutexLoop, MutexLoaded
  <2>4. \A u \in 1 .. N : Mutex!Stores(u)' = Mutex!Stores(u)
    BY Zenon DEF MutexType, Mutex!Stores
  <2> QED BY <2>1, <2>2, <2>3, <2>4, <1>s, Zenon DEF MutexInv
<1>3. ASSUME NEW t \in 1 .. N, Mutex!Store(t) PROVE MutexInv'
  <2> USE <1>3, <1>q DEF Mutex!Store, Mutex!Goto
  <2>1. MutexLive /\ g_counter = Cardinality(Mutex!Stored)
    BY <1>x, Zenon
  <2>2. MutexType'
    BY SMTT(30) DEF MutexType
  <2>3. MutexLive'
    BY <2>1, ZenonT(40) DEF MutexType, MutexLive, MutexOwner, MutexLoop, MutexLoaded
  <2>4. g_counter' = g_counter + 1
    BY <2>1, ZenonT(40) DEF MutexType, MutexLive, MutexLoaded
  <2>5. Cardinality(Mutex!Stored') = Cardinality(Mutex!Stored) + 1
    BY <2>1, OneMoreStored, ZenonT(40) DEF MutexLive
  <2> QED BY <2>1, <2>2, <2>3, <2>4, <2>5, ZenonT(40) DEF MutexInv
<1>4. ASSUME NEW t \in 1 .. N, Mutex!Unlock(t) PROVE MutexInv'
  <2> USE <1>4, <1>q DEF Mutex!Unlock, Mutex!Goto, Mutex!Again, Mutex!Free
  <2>1. MutexLive /\ g_counter = Cardinality(Mutex!Stored)
    BY <1>x, ZenonT(40)
  <2>2. MutexType'
    BY <2>1, SMTT(30) DEF MutexType, MutexLive, MutexLoop
  <2>3. MutexLive'
    <3>1. MutexOwner' /\ m_main' # 0 /\ MutexLoaded'
      BY <2>1, SMTT(30) DEF MutexType, MutexLive, MutexOwner, MutexLoaded
    <3>2. m_i[t] \in 0 .. ITERS - 1 /\ m_i'[t] = m_i[t] + 1
      BY <2>1, SMTT(30) DEF MutexType, MutexLive, MutexLoop
    <3>3. m_pc'[t] = "done" <=> m_i'[t] = ITERS
      <4>1. CASE m_i[t] + 1 < ITERS
        BY <4>1, <3>2, SMTT(30) DEF MutexType
      <4>2. CASE m_i[t] + 1 = ITERS
        BY <4>2, <3>2, SMTT(30) DEF MutexType
      <4> QED BY <4>1, <4>2, <3>2, SMTT(30)
    <3>4. MutexLoop'
      BY <2>1, <3>3, ZenonT(40) DEF MutexType, MutexLive, MutexLoop
    <3> QED BY <3>1, <3>4, Zenon DEF MutexLive
  <2>4. \A u \in 1 .. N : Mutex!Stores(u)' = Mutex!Stores(u)
    BY SMTT(30) DEF MutexType, Mutex!Stores
  <2> QED BY <2>1, <2>2, <2>3, <2>4, <1>s, ZenonT(40) DEF MutexInv
<1>5. CASE Mutex!Create
  <2> USE <1>5, <1>q DEF Mutex!Create, Mutex!Goto
  <2>1. MutexLive /\ g_counter = Cardinality(Mutex!Stored)
    BY DEF MutexInv
  <2>2. MutexType'
    BY SMTT(30) DEF MutexType
  <2>3. MutexLive'
    BY <2>1, SMTT(30) DEF MutexType, MutexLive, MutexOwner, MutexLoop, MutexLoaded
  <2>4. \A u \in 1 .. N : Mutex!Stores(u)' = Mutex!Stores(u)
    BY <2>1, SMTT(30) DEF MutexType, MutexLive, MutexLoop, Mutex!Stores
  <2> QED BY <2>1, <2>2, <2>3, <2>4, <1>s DEF MutexInv
<1>6. CASE Mutex!CreateFails
  BY <1>6, <1>q DEF Mutex!CreateFails, MutexInv, MutexType
<1>7. CASE Mutex!Join
  <2> USE <1>7, <1>q DEF Mutex!Join, Mutex!Ended
  <2>1. MutexLive /\ g_counter = Cardinality(Mutex!Stored)
    BY DEF MutexInv
  <2>2. MutexType'
    BY DEF MutexType
  <2>3. MutexLive'
    <3>1. MutexOwner' /\ m_main' # 0 /\ MutexLoaded'
      BY <2>1 DEF MutexType, MutexLive, MutexOwner, MutexLoaded
    <3>2. ASSUME NEW u \in 1 .. N, u + N < m_main' PROVE m_pc[u] = "done"
      <4>1. CASE u = m_main - N
        BY <4>1, ZenonT(40)
      <4>2. CASE u # m_main - N
        BY <2>1, <3>2, <4>2, SMTT(30) DEF MutexType, MutexLive, MutexLoop
      <4> QED BY <4>1, <4>2, ZenonT(40)
    <3>3. MutexLoop'
      BY <2>1, <3>2, SMTT(30) DEF MutexType, MutexLive, MutexLoop
    <3> QED BY <3>1, <3>3, ZenonT(40) DEF MutexLive
  <2>4. \A u \in 1 .. N : Mutex!Stores(u)' = Mutex!Stores(u)
    BY Zenon DEF MutexType, Mutex!Stores
  <2> QED BY <2>1, <2>2, <2>3, <2>4, <1>s, SMTT(30) DEF MutexInv
<1>8. CASE UNCHANGED mutexVars
  BY <1>8, SameStored, ZenonT(40) DEF mutexVars, MutexInv, MutexType, MutexLive, MutexOwner, MutexLoop, MutexLoaded, Mutex!Stores
<1> QED
  BY <1>1, <1>2, <1>3, <1>4, <1>5, <1>6, <1>7, <1>8, <1>q, ZenonT(40) DEF Mutex!Next, Mutex!Run, Mutex!Main

\* When main has joined all threads, every increment has been stored.
LEMMA MutexResult == MutexInv => NoLostUpdate
<1> SUFFICES ASSUME MutexInv, m_main # 0 PROVE NoLostUpdate
    BY Zenon DEF NoLostUpdate, Mutex!NoLostUpdate
<1> USE MutexAssumption
<1>1. MutexType /\ MutexLive /\ g_counter = Cardinality(Mutex!Stored)
  BY Zenon DEF MutexInv
<1>2. ASSUME Mutex!Returned PROVE g_counter = N * ITERS
  <2>1. \A t \in 1 .. N : m_pc[t] = "done" /\ m_i[t] = ITERS
    BY <1>1, <1>2, SMTT(30) DEF Mutex!Returned, MutexLive, MutexLoop
  <2>2. Mutex!Stored = (1 .. N) \X (1 .. ITERS)
    BY <2>1, SMTT(30) DEF Mutex!Stored, Mutex!Stores, Mutex!Thread
  <2>3. /\ IsFiniteSet(1 .. N) /\ Cardinality(1 .. N) = N
        /\ IsFiniteSet(1 .. ITERS) /\ Cardinality(1 .. ITERS) = ITERS
    BY FS_Interval, SMTT(30)
  <2>4. Cardinality((1 .. N) \X (1 .. ITERS)) = Cardinality(1 .. N) * Cardinality(1 .. ITERS)
    BY <2>3, FS_Product, Zenon
  <2> QED BY <1>1, <2>2, <2>3, <2>4, ZenonT(40)
<1>3. Mutex!Cardinality(Mutex!Stored) = Cardinality(Mutex!Stored)
  BY Zenon DEF Cardinality, Mutex!Cardinality
<1> QED
  BY <1>1, <1>2, <1>3, ZenonT(40) DEF NoLostUpdate, Mutex!NoLostUpdate, MutexLive, MutexLoaded, Mutex!Thread

\* A step of the program is a step of demo_mutex or leaves its variables alone.
LEMMA StepOfMutex == [DemoNext]_allVars => [Mutex!Next]_mutexVars
<1> SUFFICES ASSUME [DemoNext]_allVars PROVE [Mutex!Next]_mutexVars
    BY Zenon
<1>1. CASE Basic \/ Tls
  BY <1>1, Zenon DEF Basic, Tls, WorkDemo
<1>2. CASE MutexDemo(Mutex!Next)
  BY <1>2, Zenon DEF MutexDemo
<1>3. CASE CondDemo(\E t \in Thread : Lock(t) \/ Run(t) \/ Spurious(t))
  BY <1>3, Zenon DEF CondDemo
<1>4. CASE SemDemo(Sem!Producer \/ Sem!Consumer \/ \E t \in Thread : Sem!Count(t))
  BY <1>4, Zenon DEF SemDemo
<1>5. CASE RwDemo(Rw!Next)
  BY <1>5, Zenon DEF RwDemo
<1>6. CASE CreateFails
  BY <1>6, Zenon DEF CreateFails
<1>7. CASE Over \/ UNCHANGED allVars
  BY <1>7, Zenon DEF Over, allVars
<1> QED BY <1>1, <1>2, <1>3, <1>4, <1>5, <1>6, <1>7, ZenonT(40) DEF DemoNext

\* demo_mutex loses no increment whatever the interleaving and prints CORRECT.
THEOREM NoLostUpdateHolds == DemoSpec => []NoLostUpdate
<1>1. DemoInit => MutexInv
  BY MutexInit, Zenon DEF DemoInit
<1>2. MutexInv /\ [DemoNext]_allVars => MutexInv'
  BY StepOfMutex, MutexStep, Zenon
<1> QED BY <1>1, <1>2, MutexResult, PTL DEF DemoSpec
=============================================================================
