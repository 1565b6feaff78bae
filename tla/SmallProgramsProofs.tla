------------------------- MODULE SmallProgramsProofs -------------------------
(***************************************************************************)
(* The small programs, proved with TLAPS for every set of addresses and of *)
(* sizes, every timeout of the watchdog's driver and every MAX_RESTARTS:   *)
(* the malloc wrapper of memory_demo.c reports what was not freed, the     *)
(* watchdog does not reset the machine while gpio_demo.c goes on, and      *)
(* watchdog.sh starts no second process beside one that pgrep has found.   *)
(***************************************************************************)
EXTENDS SmallPrograms, TLAPS

\* A step of one of the programs is a step of each, or leaves it alone.
LEMMA StepOfPrograms ==
    [ProgramsNext]_allVars =>
        [Tracker!Next]_trackerVars /\ [Gpio!Next]_gpioVars /\ [Sup!Next]_supVars
BY Zenon DEF ProgramsNext, Files, Track, Demo, Watch, allVars

-----------------------------------------------------------------------------
(* The malloc wrapper of memory_demo.c *)

Record == [ptr : Address, size : Sizes]

\* rest[k] is the sum of the sizes of the records from k on, and grows with their
\* number.
Sums(rest) ==
    /\ rest \in [1 .. Len(g_alloc_list) + 1 -> Nat]
    /\ rest[1] = g_total_allocated /\ rest[Len(g_alloc_list) + 1] = 0
    /\ \A k \in 1 .. Len(g_alloc_list) : rest[k] = rest[k + 1] + g_alloc_list[k].size
    /\ \A j, k \in 1 .. Len(g_alloc_list) + 1 : j <= k => rest[k] <= rest[j]

\* Until there is no memory for a record, the list has one for every block.
TrackerInv ==
    /\ crashed \in BOOLEAN /\ g_alloc_list \in Seq(Record)
    /\ ~crashed =>
          /\ {g_alloc_list[k].ptr : k \in DOMAIN g_alloc_list} = blocks
          /\ \A j, k \in DOMAIN g_alloc_list : g_alloc_list[j].ptr = g_alloc_list[k].ptr => j = k
          /\ \E rest : Sums(rest)

\* No block has been given out.
LEMMA InitTrackerInv == Tracker!Init => TrackerInv
<1> SUFFICES ASSUME Tracker!Init PROVE TrackerInv
  BY Zenon
<1>1. g_alloc_list = <<>> /\ g_total_allocated = 0 /\ blocks = {} /\ crashed = FALSE
  BY Zenon DEF Tracker!Init
<1>2. Sums([k \in 1 .. 1 |-> 0])
  BY <1>1 DEF Sums
<1>3. \E rest : Sums(rest)
  BY <1>2, Zenon
<1> HIDE DEF Sums
<1>4. g_alloc_list \in Seq(Record) /\ DOMAIN g_alloc_list = {}
  BY <1>1
<1> QED BY <1>1, <1>3, <1>4, Zenon DEF TrackerInv

\* A block is given out, and recorded at the head of the list or not.
LEMMA MallocTrackerInv ==
    ASSUME TrackerInv, NEW sz \in Sizes, Tracker!tracked_malloc(sz)
    PROVE  TrackerInv'
<1>1. ~crashed
  BY Zenon DEF Tracker!tracked_malloc
<1>2. CASE crashed' = TRUE /\ UNCHANGED <<g_alloc_list, g_total_allocated>>
  BY <1>2, Zenon DEF TrackerInv
<1>3. ASSUME NEW p \in Address \ blocks, blocks' = blocks \cup {p},
             g_alloc_list' = <<[ptr |-> p, size |-> sz]>> \o g_alloc_list,
             g_total_allocated' = g_total_allocated + sz, crashed' = crashed
      PROVE  TrackerInv'
  <2> DEFINE rec == [ptr |-> p, size |-> sz]
             N == Len(g_alloc_list)
  <2>1. g_alloc_list \in Seq(Record) /\ N \in Nat /\ rec \in Record /\ rec.ptr = p /\ rec.size = sz
    BY <1>3 DEF TrackerInv, Record
  <2> HIDE DEF rec, N
  <2>2. /\ g_alloc_list' \in Seq(Record) /\ Len(g_alloc_list') = N + 1 /\ g_alloc_list'[1] = rec
        /\ \A k \in 1 .. N : g_alloc_list'[k + 1] = g_alloc_list[k]
    BY <1>3, <2>1 DEF rec, N
  <2>3. DOMAIN g_alloc_list = 1 .. N /\ DOMAIN g_alloc_list' = 1 .. N + 1
    BY <2>1, <2>2 DEF N
  <2>4. /\ {g_alloc_list[k].ptr : k \in 1 .. N} = blocks
        /\ \A j, k \in 1 .. N : g_alloc_list[j].ptr = g_alloc_list[k].ptr => j = k
        /\ \E rest : Sums(rest)
    BY <1>1, <2>3, Zenon DEF TrackerInv
  <2>5. \A k \in 1 .. N + 1 : k # 1 => k - 1 \in 1 .. N /\ g_alloc_list'[k] = g_alloc_list[k - 1]
    <3> TAKE k \in 1 .. N + 1
    <3> HAVE k # 1
    <3>1. k - 1 \in 1 .. N /\ (k - 1) + 1 = k
      BY <2>1
    <3> QED BY <2>2, <3>1, Zenon
  <2>6. {g_alloc_list'[k].ptr : k \in 1 .. N + 1} = blocks'
    <3>1. \A k \in 1 .. N + 1 : g_alloc_list'[k].ptr \in blocks \cup {p}
      <4> TAKE k \in 1 .. N + 1
      <4>1. CASE k = 1
        BY <2>1, <2>2, <4>1, Zenon
      <4>2. CASE k # 1
        BY <2>4, <2>5, <4>2
      <4> QED BY <4>1, <4>2, Zenon
    <3>2. ASSUME NEW q \in blocks PROVE \E k \in 1 .. N + 1 : g_alloc_list'[k].ptr = q
      <4>1. PICK k \in 1 .. N : g_alloc_list[k].ptr = q
        BY <2>4, Zenon
      <4>2. k + 1 \in 1 .. N + 1 /\ g_alloc_list'[k + 1].ptr = q
        BY <2>1, <2>2, <4>1
      <4> QED BY <4>2, Zenon
    <3>3. 1 \in 1 .. N + 1 /\ g_alloc_list'[1].ptr = p
      BY <2>1, <2>2
    <3> QED BY <1>3, <3>1, <3>2, <3>3, ZenonT(40)
  <2>7. \A j, k \in 1 .. N + 1 : g_alloc_list'[j].ptr = g_alloc_list'[k].ptr => j = k
    <3>1. \A k \in 1 .. N : g_alloc_list[k].ptr # p
      BY <1>3, <2>4, Zenon
    <3>2. \A k \in 1 .. N + 1 : k # 1 => g_alloc_list'[k].ptr # g_alloc_list'[1].ptr
      BY <2>1, <2>2, <2>5, <3>1, ZenonT(40)
    <3>3. \A j, k \in 1 .. N + 1 : j # 1 /\ k # 1 /\ g_alloc_list'[j].ptr = g_alloc_list'[k].ptr => j - 1 = k - 1
      BY <2>4, <2>5
    <3> QED BY <2>1, <3>2, <3>3
  <2>8. (\E rest : Sums(rest))'
    <3>1. PICK rest : Sums(rest)
      BY <2>4, Zenon
    <3> DEFINE more == [k \in 1 .. N + 2 |-> IF k = 1 THEN g_total_allocated + sz ELSE rest[k - 1]]
    <3>2. /\ rest \in [1 .. N + 1 -> Nat] /\ rest[1] = g_total_allocated /\ rest[N + 1] = 0
          /\ \A k \in 1 .. N : rest[k] = rest[k + 1] + g_alloc_list[k].size
          /\ \A j, k \in 1 .. N + 1 : j <= k => rest[k] <= rest[j]
      BY <3>1, Zenon DEF Sums, N
    <3>3. sz \in Nat /\ g_total_allocated \in Nat
      <4>1. 1 \in 1 .. N + 1
        BY <2>1
      <4> QED BY <3>2, <4>1, TrackerAssumption, Zenon
    <3>4. \A k \in 2 .. N + 2 : k - 1 \in 1 .. N + 1 /\ more[k] = rest[k - 1] /\ more[k] \in Nat
      <4> TAKE k \in 2 .. N + 2
      <4>1. k - 1 \in 1 .. N + 1 /\ k \in 1 .. N + 2 /\ k # 1
        BY <2>1
      <4> QED BY <3>2, <4>1, Zenon
    <3>5. more \in [1 .. N + 2 -> Nat] /\ more[1] = g_total_allocated + sz /\ more[N + 2] = 0
      BY <2>1, <3>2, <3>3, <3>4, SMTT(30)
    <3> HIDE DEF more
    <3>6. more[1] = more[2] + g_alloc_list'[1].size
      BY <2>1, <2>2, <3>2, <3>4, <3>5
    <3>7. \A k \in 2 .. N + 1 : more[k] = more[k + 1] + g_alloc_list'[k].size
      <4> TAKE k \in 2 .. N + 1
      <4>1. k - 1 \in 1 .. N /\ (k - 1) + 1 = k /\ k + 1 \in 2 .. N + 2 /\ (k + 1) - 1 = k
        BY <2>1
      <4>2. g_alloc_list'[k] = g_alloc_list[k - 1] /\ more[k] = rest[k - 1] /\ more[k + 1] = rest[k]
        BY <2>1, <2>5, <3>4, <4>1, SMTT(30)
      <4> QED BY <3>2, <4>1, <4>2, Zenon
    <3>8. \A j, k \in 2 .. N + 2 : j <= k => more[k] <= more[j]
      BY <2>1, <3>2, <3>4, SMTT(30)
    <3>9. \A k \in 1 .. N + 2 : more[k] <= more[1]
      <4>1. \A k \in 1 .. N + 1 : rest[k] <= rest[1]
        BY <2>1, <3>2
      <4>2. ASSUME NEW k \in 2 .. N + 2 PROVE more[k] <= more[1]
        <5>1. more[k] = rest[k - 1] /\ rest[k - 1] <= rest[1] /\ rest[k - 1] \in Nat
          BY <3>2, <3>4, <4>1, Zenon
        <5> QED BY <3>2, <3>3, <3>5, <5>1
      <4>3. more[1] <= more[1]
        BY <3>3, <3>5
      <4> QED BY <2>1, <4>2, <4>3
    <3>10. \A j, k \in 1 .. N + 2 : j <= k => more[k] <= more[j]
      BY <2>1, <3>8, <3>9
    <3>11. \A k \in 1 .. N + 1 : more[k] = more[k + 1] + g_alloc_list'[k].size
      BY <2>1, <3>6, <3>7
    <3>12. PICK new : new = more
      BY Zenon
    <3>13. Sums(new)'
      <4>1. Len(g_alloc_list') + 1 = N + 2
        BY <2>1, <2>2
      <4>2. /\ new \in [1 .. N + 2 -> Nat] /\ new[1] = g_total_allocated' /\ new[N + 2] = 0
            /\ \A k \in 1 .. N + 1 : new[k] = new[k + 1] + g_alloc_list'[k].size
            /\ \A j, k \in 1 .. N + 2 : j <= k => new[k] <= new[j]
        BY <1>3, <3>5, <3>10, <3>11, <3>12, Zenon
      <4> QED BY <2>2, <4>1, <4>2, Zenon DEF Sums
    <3> QED BY <3>13, Zenon
  <2> QED BY <1>1, <1>3, <2>2, <2>3, <2>6, <2>7, <2>8, Zenon DEF TrackerInv
<1> QED BY <1>1, <1>2, <1>3, Zenon DEF Tracker!tracked_malloc

\* A block is freed: its record, the only one of its address, leaves the list.
LEMMA FreeTrackerInv ==
    ASSUME TrackerInv, NEW ptr \in Address, Tracker!tracked_free(ptr)
    PROVE  TrackerInv'
<1> DEFINE N == Len(g_alloc_list)
<1>1. PICK k \in DOMAIN g_alloc_list :
          /\ ~crashed /\ g_alloc_list[k].ptr = ptr
          /\ g_total_allocated' = g_total_allocated - g_alloc_list[k].size
          /\ g_alloc_list' = [j \in 1 .. N - 1 |-> g_alloc_list[IF j < k THEN j ELSE j + 1]]
          /\ blocks' = blocks \ {ptr} /\ UNCHANGED crashed
  BY Zenon DEF Tracker!tracked_free, Tracker!Unlinked
<1>2. g_alloc_list \in Seq(Record) /\ DOMAIN g_alloc_list = 1 .. N /\ N \in Nat /\ N - 1 \in Nat
  BY <1>1 DEF TrackerInv
<1>3. /\ {g_alloc_list[j].ptr : j \in 1 .. N} = blocks
      /\ \A i1, i2 \in 1 .. N : g_alloc_list[i1].ptr = g_alloc_list[i2].ptr => i1 = i2
      /\ \E rest : Sums(rest)
  BY <1>1, <1>2, Zenon DEF TrackerInv
<1>4. \A j \in 1 .. N : g_alloc_list[j] \in Record
  BY <1>2
<1>5. PICK rest : Sums(rest)
  BY <1>3, Zenon
<1>6. /\ rest \in [1 .. N + 1 -> Nat] /\ rest[1] = g_total_allocated /\ rest[N + 1] = 0
      /\ \A j \in 1 .. N : rest[j] = rest[j + 1] + g_alloc_list[j].size
      /\ \A i1, i2 \in 1 .. N + 1 : i1 <= i2 => rest[i2] <= rest[i1]
  BY <1>5, Zenon DEF Sums
<1> HIDE DEF N
<1>7. k \in 1 .. N
  BY <1>2, Zenon
<1>8. \A j \in 1 .. N - 1 : (IF j < k THEN j ELSE j + 1) \in 1 .. N
  BY <1>2
<1>9. g_alloc_list' \in [1 .. N - 1 -> Record] /\ \A j \in 1 .. N - 1 : g_alloc_list'[j] = g_alloc_list[IF j < k THEN j ELSE j + 1]
  BY <1>1, <1>4, <1>8, Zenon
<1>10. g_alloc_list' \in Seq(Record) /\ Len(g_alloc_list') = N - 1 /\ DOMAIN g_alloc_list' = 1 .. N - 1
  BY <1>2, <1>9
<1>11. {g_alloc_list'[j].ptr : j \in 1 .. N - 1} = blocks'
  <2>1. ASSUME NEW j \in 1 .. N - 1 PROVE g_alloc_list'[j].ptr \in blocks \ {ptr}
    <3>1. (IF j < k THEN j ELSE j + 1) # k
      BY <1>2, <1>7
    <3> QED BY <1>1, <1>3, <1>7, <1>8, <1>9, <3>1, Zenon
  <2>2. ASSUME NEW q \in blocks, q # ptr PROVE \E j \in 1 .. N - 1 : g_alloc_list'[j].ptr = q
    <3>1. PICK m \in 1 .. N : g_alloc_list[m].ptr = q
      BY <1>3, Zenon
    <3>2. m # k
      BY <1>1, <2>2, <3>1, Zenon
    <3>3. CASE m < k
      <4>1. m \in 1 .. N - 1
        BY <1>2, <1>7, <3>3
      <4> QED BY <1>9, <3>1, <3>3, <4>1, Zenon
    <3>4. CASE ~(m < k)
      <4>1. m - 1 \in 1 .. N - 1 /\ ~(m - 1 < k) /\ (m - 1) + 1 = m
        BY <1>2, <1>7, <3>2, <3>4
      <4>2. g_alloc_list'[m - 1] = g_alloc_list[m]
        BY <1>9, <4>1, Zenon
      <4> QED BY <3>1, <4>1, <4>2, Zenon
    <3> QED BY <3>3, <3>4, Zenon
  <2> QED BY <1>1, <2>1, <2>2
<1>12. \A i1, i2 \in 1 .. N - 1 : g_alloc_list'[i1].ptr = g_alloc_list'[i2].ptr => i1 = i2
  <2> SUFFICES ASSUME NEW i1 \in 1 .. N - 1, NEW i2 \in 1 .. N - 1, g_alloc_list'[i1].ptr = g_alloc_list'[i2].ptr
               PROVE  i1 = i2
    BY Zenon
  <2>1. (IF i1 < k THEN i1 ELSE i1 + 1) = (IF i2 < k THEN i2 ELSE i2 + 1)
    BY <1>3, <1>8, <1>9
  <2> QED BY <1>2, <1>7, <2>1
<1>13. (\E r : Sums(r))'
  <2> DEFINE s == g_alloc_list[k].size
             less == [j \in 1 .. N |-> IF j < k THEN rest[j] - s ELSE rest[j + 1]]
  <2>1. s \in Nat /\ rest[k] = rest[k + 1] + s /\ k + 1 \in 1 .. N + 1 /\ k \in 1 .. N + 1
    <3>1. g_alloc_list[k].size \in Sizes
      BY <1>4, <1>7, Zenon DEF Record
    <3>2. k + 1 \in 1 .. N + 1 /\ k \in 1 .. N + 1
      BY <1>2, <1>7
    <3> QED BY <1>6, <1>7, <3>1, <3>2, TrackerAssumption, Zenon
  <2> HIDE DEF s
  <2>2. \A j \in 1 .. N : j < k => less[j] = rest[j] - s /\ rest[j] \in Nat /\ rest[j] >= rest[k] /\ less[j] >= rest[k + 1]
    <3> SUFFICES ASSUME NEW j \in 1 .. N, j < k
                 PROVE  less[j] = rest[j] - s /\ rest[j] \in Nat /\ rest[j] >= rest[k] /\ less[j] >= rest[k + 1]
      BY Zenon
    <3>1. j \in 1 .. N + 1 /\ j <= k
      BY <1>2, <1>7
    <3>2. rest[j] \in Nat /\ rest[k] \in Nat /\ rest[k + 1] \in Nat /\ rest[k] <= rest[j]
      BY <1>6, <2>1, <3>1, Zenon
    <3> QED BY <2>1, <3>2
  <2>3. \A j \in 1 .. N : ~(j < k) => j + 1 \in 1 .. N + 1 /\ less[j] = rest[j + 1] /\ rest[j + 1] \in Nat /\ less[j] <= rest[k + 1]
    <3> SUFFICES ASSUME NEW j \in 1 .. N, ~(j < k)
                 PROVE  j + 1 \in 1 .. N + 1 /\ less[j] = rest[j + 1] /\ rest[j + 1] \in Nat /\ less[j] <= rest[k + 1]
      BY Zenon
    <3>1. j + 1 \in 1 .. N + 1 /\ k + 1 <= j + 1
      BY <1>2, <1>7
    <3> QED BY <1>6, <2>1, <3>1, Zenon
  <2>4. less \in [1 .. N -> Nat]
    <3>1. \A j \in 1 .. N : less[j] \in Nat
      <4> TAKE j \in 1 .. N
      <4>1. CASE j < k
        BY <1>6, <2>1, <2>2, <4>1, SMTT(30)
      <4>2. CASE ~(j < k)
        BY <2>3, <4>2, Zenon
      <4> QED BY <4>1, <4>2, Zenon
    <3> QED BY <3>1, Zenon
  <2> HIDE DEF less
  <2>5. 1 \in 1 .. N /\ N \in 1 .. N /\ ~(N < k)
    BY <1>2, <1>7
  <2>6. less[1] = g_total_allocated' /\ less[N] = 0
    <3>1. g_total_allocated' = rest[1] - s
      BY <1>1, <1>6, Zenon DEF s
    <3>2. CASE 1 < k
      BY <1>6, <2>2, <2>3, <2>5, <3>1, <3>2, Zenon
    <3>3. CASE ~(1 < k)
      <4>1. k = 1
        BY <1>7, <3>3
      <4>2. rest[1] \in Nat /\ rest[2] \in Nat /\ rest[1] = rest[2] + s /\ less[1] = rest[2]
        BY <1>6, <2>1, <2>3, <2>5, <4>1, SMTT(30)
      <4>3. less[1] = g_total_allocated'
        BY <2>1, <3>1, <4>2
      <4> QED BY <1>6, <2>3, <2>5, <4>3, Zenon
    <3> QED BY <3>2, <3>3, Zenon
  <2>7. \A j \in 1 .. N - 1 : less[j] = less[j + 1] + g_alloc_list'[j].size
    <3> SUFFICES ASSUME NEW j \in 1 .. N - 1 PROVE less[j] = less[j + 1] + g_alloc_list'[j].size
      BY Zenon
    <3>0. j \in 1 .. N /\ j + 1 \in 1 .. N /\ j + 1 \in 1 .. N + 1 /\ (j + 1) + 1 \in 1 .. N + 1
      BY <1>2
    <3>1. CASE j < k
      <4>1. g_alloc_list'[j] = g_alloc_list[j] /\ less[j] = rest[j] - s /\ rest[j] = rest[j + 1] + g_alloc_list[j].size
        BY <1>6, <1>9, <2>2, <3>0, <3>1, Zenon
      <4>2. less[j + 1] = rest[j + 1] - s
        <5>1. CASE j + 1 < k
          BY <2>2, <3>0, <5>1, Zenon
        <5>2. CASE ~(j + 1 < k)
          <6>1. j + 1 = k
            BY <1>7, <3>1, <5>2
          <6>2. less[k] = rest[k + 1] /\ rest[k + 1] \in Nat
            BY <1>7, <2>3, <5>2, <6>1, Zenon
          <6>3. rest[k + 1] = rest[k] - s
            BY <2>1, <6>2
          <6> QED BY <6>1, <6>2, <6>3, Zenon
        <5> QED BY <5>1, <5>2, Zenon
      <4>3. rest[j + 1] \in Nat /\ g_alloc_list[j].size \in Nat
        BY <1>4, <1>6, <3>0, TrackerAssumption, Zenon DEF Record
      <4> QED BY <2>1, <4>1, <4>2, <4>3
    <3>2. CASE ~(j < k)
      <4>1. ~(j + 1 < k)
        BY <1>7, <3>2
      <4>2. less[j] = rest[j + 1] /\ less[j + 1] = rest[(j + 1) + 1]
        BY <2>3, <3>0, <3>2, <4>1, Zenon
      <4>3. g_alloc_list'[j] = g_alloc_list[j + 1]
        BY <1>9, <3>2, Zenon
      <4> QED BY <1>6, <3>0, <4>2, <4>3, Zenon
    <3> QED BY <3>1, <3>2, Zenon
  <2>8. \A i1, i2 \in 1 .. N : i1 <= i2 => less[i2] <= less[i1]
    <3> SUFFICES ASSUME NEW i1 \in 1 .. N, NEW i2 \in 1 .. N, i1 <= i2 PROVE less[i2] <= less[i1]
      BY Zenon
    <3>0. /\ i1 \in 1 .. N + 1 /\ i2 \in 1 .. N + 1 /\ i1 + 1 \in 1 .. N + 1 /\ i2 + 1 \in 1 .. N + 1
          /\ less[i1] \in Nat /\ less[i2] \in Nat /\ rest[k + 1] \in Nat
      <4>1. i1 \in 1 .. N + 1 /\ i2 \in 1 .. N + 1 /\ i1 + 1 \in 1 .. N + 1 /\ i2 + 1 \in 1 .. N + 1
        BY <1>2
      <4>2. less[i1] \in Nat /\ less[i2] \in Nat /\ rest[k + 1] \in Nat
        BY <1>6, <2>1, <2>4, Zenon
      <4> QED BY <4>1, <4>2, Zenon
    <3>1. CASE i1 < k /\ i2 < k
      <4>1. rest[i2] <= rest[i1] /\ rest[i1] \in Nat /\ rest[i2] \in Nat
        BY <1>6, <3>0, Zenon
      <4> QED BY <2>1, <2>2, <3>1, <4>1
    <3>2. CASE i1 < k /\ ~(i2 < k)
      BY <2>2, <2>3, <3>0, <3>2
    <3>3. CASE ~(i1 < k)
      <4>1. ~(i2 < k) /\ i1 + 1 <= i2 + 1
        BY <1>7, <3>3
      <4> QED BY <1>6, <2>3, <3>0, <3>3, <4>1, Zenon
    <3> QED BY <3>1, <3>2, <3>3, Zenon
  <2>9. PICK new : new = less
    BY Zenon
  <2>10. Sums(new)'
    <3>1. /\ new \in [1 .. N -> Nat] /\ new[1] = g_total_allocated' /\ new[N] = 0
          /\ \A j \in 1 .. N - 1 : new[j] = new[j + 1] + g_alloc_list'[j].size
          /\ \A i1, i2 \in 1 .. N : i1 <= i2 => new[i2] <= new[i1]
      BY <2>4, <2>6, <2>7, <2>8, <2>9, Zenon
    <3>2. Len(g_alloc_list') = N - 1 /\ Len(g_alloc_list') + 1 = N
      BY <1>2, <1>10
    <3> QED BY <3>1, <3>2, Zenon DEF Sums
  <2> QED BY <2>10, Zenon
<1> QED BY <1>1, <1>10, <1>11, <1>12, <1>13, ZenonT(40) DEF TrackerInv

\* Every call of the wrapper keeps the invariant.
LEMMA StepTrackerInv == TrackerInv /\ [Tracker!Next]_trackerVars => TrackerInv'
<1> SUFFICES ASSUME TrackerInv, [Tracker!Next]_trackerVars PROVE TrackerInv'
  BY Zenon
<1>1. CASE UNCHANGED trackerVars
  BY <1>1, SMTT(30) DEF trackerVars, TrackerInv, Sums
<1> QED BY <1>1, MallocTrackerInv, FreeTrackerInv, Zenon DEF Tracker!Next

-----------------------------------------------------------------------------
(* The watchdog of gpio_demo.c *)

\* While the device is open the timer is behind by the time the demo was late and
\* the second it slept, at most; it runs only while the device is open or after
\* the process was killed before it wrote "V"; and "V" is remembered only between its write and the close.
DogInv ==
    /\ Gpio!TypeOK
    /\ g_pc = "open" => margin > 0
    /\ Gpio!Open => /\ margin > 0
                    /\ left >= margin - late - 1
                    /\ nap = 1 => left >= margin - late
    /\ ~Gpio!Open /\ ~Gpio!Abandoned => left = -1
    /\ g_pc # "killed" => killed = "no"
    /\ wrote = "V" <=> g_pc = "close"

\* It holds when gpio_demo starts.
LEMMA InitDogInv == Gpio!Init => DogInv
BY GpioAssumption DEF Gpio!Init, Gpio!TypeOK, Gpio!Points, DogInv, Gpio!Open, Gpio!Abandoned

\* Every step of the program, of the clock and of whoever kills it keeps it.
LEMMA StepDogInv == DogInv /\ [Gpio!Next]_gpioVars => DogInv'
<1> SUFFICES ASSUME DogInv, [Gpio!Next]_gpioVars PROVE DogInv'
  BY Zenon
<1> USE DEF DogInv, Gpio!TypeOK, Gpio!Points, Gpio!Abandoned, Gpio!Open, Gpio!At, Gpio!Alive, Gpio!Reset, Gpio!dog
<1>1. CASE Gpio!ChipAndLine BY <1>1, Zenon DEF Gpio!ChipAndLine
<1>2. CASE Gpio!Toggle BY <1>2 DEF Gpio!Toggle
<1>3. CASE Gpio!Access BY <1>3 DEF Gpio!Access
<1>4. CASE Gpio!Modprobe BY <1>4 DEF Gpio!Modprobe
<1>5. CASE Gpio!OpenDog BY <1>5 DEF Gpio!OpenDog
<1>6. CASE Gpio!Kick BY <1>6 DEF Gpio!Kick
<1>7. CASE Gpio!WriteV BY <1>7 DEF Gpio!WriteV
<1>8. CASE Gpio!Close BY <1>8 DEF Gpio!Close, Gpio!CloseDog
<1>9. CASE Gpio!Events BY <1>9, Zenon DEF Gpio!Events
<1>10. CASE Gpio!Kill BY <1>10, SMTT(30) DEF Gpio!Kill, Gpio!CloseDog
<1>11. CASE Gpio!Tick BY <1>11 DEF Gpio!Tick
<1>12. CASE UNCHANGED gpioVars BY <1>12, ZenonT(40) DEF gpioVars
<1> QED
  BY <1>1, <1>2, <1>3, <1>4, <1>5, <1>6, <1>7, <1>8, <1>9, <1>10, <1>11, <1>12, Zenon DEF Gpio!Next

-----------------------------------------------------------------------------
(* watchdog.sh *)

\* When the script is about to start a process, those there are were all missed:
\* none can have come from elsewhere since the check.
SupInv ==
    /\ Sup!TypeOK
    /\ starting + up <= 1 + missed
    /\ s_pc \in {"count", "start"} => starting + up <= missed
    /\ restart_count <= MAX_RESTARTS + 1
    /\ s_pc \in {"check", "count", "start", "sleep"} => restart_count <= MAX_RESTARTS

\* It holds when the script starts.
LEMMA InitSupInv == Sup!Init => SupInv
BY SupervisorAssumption DEF Sup!Init, Sup!TypeOK, SupInv

\* Every step of the script and of the processes keeps it.
LEMMA StepSupInv == SupInv /\ [Sup!Next]_supVars => SupInv'
<1> SUFFICES ASSUME SupInv, [Sup!Next]_supVars PROVE SupInv'
  BY Zenon
<1> USE SupervisorAssumption DEF SupInv, Sup!TypeOK, Sup!Ends
<1>1. CASE Sup!Check BY <1>1 DEF Sup!Check
<1>2. CASE Sup!CountRestart BY <1>2 DEF Sup!CountRestart
<1>3. CASE Sup!StartProcess BY <1>3 DEF Sup!StartProcess
<1>4. CASE Sup!Sleep BY <1>4, Zenon DEF Sup!Sleep, Sup!AfterSleep
<1>5. CASE Sup!ComesUp BY <1>5 DEF Sup!ComesUp
<1>6. CASE Sup!Dies BY <1>6 DEF Sup!Dies
<1>7. CASE UNCHANGED supVars BY <1>7, Zenon DEF supVars
<1> QED BY <1>1, <1>2, <1>3, <1>4, <1>5, <1>6, <1>7, Zenon DEF Sup!Next, Sup!Script

-----------------------------------------------------------------------------
(* The programs *)

\* What holds of the one that runs and of those that do not.
ProgramsInv == TrackerInv /\ DogInv /\ SupInv

\* The invariant holds throughout.
THEOREM ProgramsInvariance == ProgramsSpec => []ProgramsInv
<1>1. ProgramsInit => ProgramsInv
  BY InitTrackerInv, InitDogInv, InitSupInv, Zenon DEF ProgramsInit, ProgramsInv
<1>2. ProgramsInv /\ [ProgramsNext]_allVars => ProgramsInv'
  BY StepOfPrograms, StepTrackerInv, StepDogInv, StepSupInv, Zenon DEF ProgramsInv
<1> QED BY <1>1, <1>2, PTL DEF ProgramsSpec

\* memory_demo.c: check_leaks reports exactly the blocks that were not freed, each
\* once, and their total size, for any calls of tracked_malloc and tracked_free.
THEOREM TrackerExactHolds == ProgramsSpec => []TrackerExact
<1>1. ASSUME TrackerInv, ~crashed PROVE Tracker!IsTotal(g_total_allocated, g_alloc_list)
  <2>1. PICK rest : Sums(rest)
    BY <1>1, Zenon DEF TrackerInv
  <2>2. DOMAIN g_alloc_list = 1 .. Len(g_alloc_list) /\ Len(g_alloc_list) \in Nat
    BY <1>1 DEF TrackerInv
  <2>3. \A k \in 1 .. Len(g_alloc_list) + 1 : rest[k] \in 0 .. g_total_allocated
    BY <2>1, <2>2 DEF Sums
  <2>4. rest \in [1 .. Len(g_alloc_list) + 1 -> 0 .. g_total_allocated]
    BY <2>1, <2>3, Zenon DEF Sums
  <2> QED BY <2>1, <2>2, <2>4, Zenon DEF Sums, Tracker!IsTotal
<1>2. ProgramsInv => TrackerExact
  BY <1>1, Zenon DEF ProgramsInv, TrackerInv, TrackerExact, Tracker!TrackerExact
<1> QED BY <1>2, ProgramsInvariance, PTL

\* watchdog_demo: the machine is reset only after the process was killed between
\* the open of the device and the write of "V", or was kept from running for all but
\* one second of the driver's timeout.
THEOREM NoNeedlessRebootHolds == ProgramsSpec => []Gpio!NoNeedlessReboot
<1>1. ProgramsInv => Gpio!NoNeedlessReboot
  BY DEF ProgramsInv, DogInv, Gpio!TypeOK, Gpio!Points, Gpio!NoNeedlessReboot, Gpio!Abandoned, Gpio!Open, Gpio!Reset
<1> QED BY <1>1, ProgramsInvariance, PTL

\* watchdog.sh: there is one process at most but for those that pgrep missed, and
\* no more than MAX_RESTARTS are started.
THEOREM OneProcessHolds == ProgramsSpec => []Sup!OneProcess
<1>1. ProgramsInv => Sup!OneProcess
  BY SupervisorAssumption DEF ProgramsInv, SupInv, Sup!TypeOK, Sup!OneProcess
<1> QED BY <1>1, ProgramsInvariance, PTL
=============================================================================
