------------------------------ MODULE ShmHandoff ------------------------------
(***************************************************************************)
(* 03_ipc/shm_demo.c: a parent and a forked child pass messages through    *)
(* one shared-memory record, taking turns with two named semaphores.       *)
(*                                                                         *)
(* The kernel objects outlive the processes: a run that is killed leaves   *)
(* its names behind, and the next run attaches to the same shared memory   *)
(* but replaces the semaphores.  Runs are numbered 1 .. MaxStarts; a       *)
(* kernel object is named after the run that created it, Absent is an      *)
(* unused name.  A run may start while others are still going;             *)
(* `overlapped' tells.                                                     *)
(*                                                                         *)
(* producer, the parent: "ready", "unlinkW", "unlinkR", "openW", "openR",  *)
(* "openRbad" (the first sem_open has failed), "fork", then per message    *)
(* "waitW", "num", "data", "postR", then "reap", "dropW", "dropR",         *)
(* "dropShm", and "done", "failed" (exit(1)) or "killed".                  *)
(* consumer, its child: "none", per message "waitR", "num", "data",        *)
(* "postW", then "done" or "killed".                                       *)
(***************************************************************************)
EXTENDS Integers, Sequences

CONSTANTS MaxStarts,    \* bound: how often the program is started
          N_MESSAGES,   \* messages per run (5)
          Crashes       \* may processes be killed?

ASSUME ShmHandoffAssumption ==
    /\ MaxStarts \in Nat \ {0} /\ N_MESSAGES \in Nat \ {0}
    /\ Crashes \in BOOLEAN

VARIABLES producer, consumer, \* control points, per run
          wi, ri,             \* their loop indices
          mapped,             \* the shared-memory object a run has mapped
          shm,                \* contents of each object: [num, data]
          shmName, semName,   \* what SHM_NAME, SEM_WRITE, SEM_READ refer to
          semW, semR,         \* values of each run's semaphores
          num,                \* msg_number as the child has read it
          shown,              \* history: messages printed by each child
          overlapped          \* history: the last run began during an earlier one

names   == <<shmName, semName>>
sems    == <<semW, semR>>
shmVars == <<producer, consumer, wi, ri, mapped, shm, names, sems, num, shown, overlapped>>

Starts == 1 .. MaxStarts
Absent == 0

\* Message k of run r: its number and its text, which carries k and the PID.
Text(r, k)    == <<r, k>>
Message(r, k) == <<k, Text(r, k)>>

ShmInit ==
    /\ producer = [r \in Starts |-> "ready"]
    /\ consumer = [r \in Starts |-> "none"]
    /\ wi = [r \in Starts |-> 0] /\ ri = [r \in Starts |-> 0]
    /\ mapped = [r \in Starts |-> Absent]
    /\ shm = [r \in Starts |-> [num |-> 0, data |-> Text(Absent, 0)]]
    /\ shmName = Absent
    /\ semName = [s \in {"w", "r"} |-> Absent]
    /\ semW = [r \in Starts |-> 0] /\ semR = [r \in Starts |-> 0]
    /\ num = [r \in Starts |-> 0]
    /\ shown = [r \in Starts |-> <<>>] /\ overlapped = FALSE

Gone(r) == producer[r] \in {"done", "failed", "killed"}
Producer(r, from, to) == producer[r] = from /\ producer' = [producer EXCEPT ![r] = to]
Consumer(r, from, to)  == consumer[r] = from /\ consumer' = [consumer EXCEPT ![r] = to]

-----------------------------------------------------------------------------
(* Wrong variants of definitions below, each the shape of a plausible bug. *)

\* Both semaphores start at 1.
InitialR_One == 1
\* The producer posts before it has written the text.
AfterNum_Post == "postR"
\* The consumer never gives the turn back.
PostW_Dropped(r) ==
    /\ Consumer(r, "postW", IF ri[r] + 1 < N_MESSAGES THEN "waitR" ELSE "done")
    /\ ri' = [ri EXCEPT ![r] = @ + 1]
    /\ UNCHANGED <<producer, wi, mapped, shm, names, sems, num, shown, overlapped>>

-----------------------------------------------------------------------------
(* Setup: shm_open, ftruncate, mmap; sem_unlink twice; sem_open twice; fork *)

InitialR == 0

\* A run starts after the one before, which need not have come to its end.
MayStart(r) == r > 1 => producer[r - 1] # "ready"

\* O_CREAT without O_EXCL: an object left behind under the name is reused, and
\* ftruncate to the same size keeps its contents. A run whose shm_open or mmap fails
\* exits; in the latter case it leaves the name behind.
ShmOpen(r) ==
    LET object == IF shmName = Absent THEN r ELSE shmName IN
    /\ MayStart(r)
    /\ \/ /\ Producer(r, "ready", "unlinkW")
          /\ shmName' = object
          /\ mapped' = [mapped EXCEPT ![r] = object]
       \/ /\ Producer(r, "ready", "failed")
          /\ shmName' \in {shmName, object}
          /\ UNCHANGED mapped
    /\ overlapped' = (\E q \in 1 .. r - 1 : ~Gone(q))
    /\ UNCHANGED <<consumer, wi, ri, shm, semName, sems, num, shown>>

SemUnlink(r) ==
    /\ \/ Producer(r, "unlinkW", "unlinkR") /\ semName' = [semName EXCEPT !["w"] = Absent]
       \/ Producer(r, "unlinkR", "openW") /\ semName' = [semName EXCEPT !["r"] = Absent]
    /\ UNCHANGED <<consumer, wi, ri, mapped, shm, shmName, sems, num, shown, overlapped>>

\* O_CREAT | O_EXCL: fails if another run has created the name meanwhile.
SemOpenW(r) ==
    /\ \/ /\ semName["w"] = Absent
          /\ Producer(r, "openW", "openR")
          /\ semName' = [semName EXCEPT !["w"] = r]
          /\ semW' = [semW EXCEPT ![r] = 1]
       \/ /\ semName["w"] # Absent
          /\ Producer(r, "openW", "openRbad")
          /\ UNCHANGED <<semName, semW>>
    /\ UNCHANGED <<consumer, wi, ri, mapped, shm, shmName, semR, num, shown, overlapped>>

\* Both calls are made before either result is looked at.
SemOpenR(r) ==
    /\ \/ /\ semName["r"] = Absent
          /\ Producer(r, "openR", "fork") \/ Producer(r, "openRbad", "failed")
          /\ semName' = [semName EXCEPT !["r"] = r]
          /\ semR' = [semR EXCEPT ![r] = InitialR]
       \/ /\ semName["r"] # Absent
          /\ Producer(r, "openR", "failed") \/ Producer(r, "openRbad", "failed")
          /\ UNCHANGED <<semName, semR>>
    /\ UNCHANGED <<consumer, wi, ri, mapped, shm, shmName, semW, num, shown, overlapped>>

ForkConsumer(r) ==
    /\ \/ Producer(r, "fork", "waitW") /\ consumer' = [consumer EXCEPT ![r] = "waitR"]
       \/ Producer(r, "fork", "failed") /\ UNCHANGED consumer
    /\ UNCHANGED <<wi, ri, mapped, shm, names, sems, num, shown, overlapped>>

-----------------------------------------------------------------------------
(* The producer loop *)

AfterNum == "data"

WaitW(r) ==
    /\ Producer(r, "waitW", "num")
    /\ semW[r] > 0
    /\ semW' = [semW EXCEPT ![r] = @ - 1]
    /\ UNCHANGED <<consumer, wi, ri, mapped, shm, names, semR, num, shown, overlapped>>

WriteNum(r) ==
    /\ Producer(r, "num", AfterNum)
    /\ shm' = [shm EXCEPT ![mapped[r]] = [num |-> wi[r], data |-> @.data]]
    /\ UNCHANGED <<consumer, wi, ri, mapped, names, sems, num, shown, overlapped>>

WriteData(r) ==
    /\ Producer(r, "data", "postR")
    /\ shm' = [shm EXCEPT ![mapped[r]] = [num |-> @.num, data |-> Text(r, wi[r])]]
    /\ UNCHANGED <<consumer, wi, ri, mapped, names, sems, num, shown, overlapped>>

PostR(r) ==
    /\ Producer(r, "postR", IF wi[r] + 1 < N_MESSAGES THEN "waitW" ELSE "reap")
    /\ semR' = [semR EXCEPT ![r] = @ + 1]
    /\ wi' = [wi EXCEPT ![r] = @ + 1]
    /\ UNCHANGED <<consumer, ri, mapped, shm, names, semW, num, shown, overlapped>>

(* The consumer loop *)

WaitR(r) ==
    /\ Consumer(r, "waitR", "num")
    /\ semR[r] > 0
    /\ semR' = [semR EXCEPT ![r] = @ - 1]
    /\ UNCHANGED <<producer, wi, ri, mapped, shm, names, semW, num, shown, overlapped>>

ReadNum(r) ==
    /\ Consumer(r, "num", "data")
    /\ num' = [num EXCEPT ![r] = shm[mapped[r]].num]
    /\ UNCHANGED <<producer, wi, ri, mapped, shm, names, sems, shown, overlapped>>

ReadData(r) ==
    /\ Consumer(r, "data", "postW")
    /\ shown' = [shown EXCEPT ![r] = Append(@, <<num[r], shm[mapped[r]].data>>)]
    /\ UNCHANGED <<producer, wi, ri, mapped, shm, names, sems, num, overlapped>>

PostW(r) ==
    /\ Consumer(r, "postW", IF ri[r] + 1 < N_MESSAGES THEN "waitR" ELSE "done")
    /\ semW' = [semW EXCEPT ![r] = @ + 1]
    /\ ri' = [ri EXCEPT ![r] = @ + 1]
    /\ UNCHANGED <<producer, wi, mapped, shm, names, semR, num, shown, overlapped>>

-----------------------------------------------------------------------------
(* waitpid and cleanup: the names are removed whatever they refer to *)

Reap(r) ==
    /\ Producer(r, "reap", "dropW")
    /\ consumer[r] \in {"done", "killed"}
    /\ UNCHANGED <<consumer, wi, ri, mapped, shm, names, sems, num, shown, overlapped>>

DropW(r) ==
    /\ Producer(r, "dropW", "dropR")
    /\ semName' = [semName EXCEPT !["w"] = Absent]
    /\ UNCHANGED <<consumer, wi, ri, mapped, shm, shmName, sems, num, shown, overlapped>>

DropR(r) ==
    /\ Producer(r, "dropR", "dropShm")
    /\ semName' = [semName EXCEPT !["r"] = Absent]
    /\ UNCHANGED <<consumer, wi, ri, mapped, shm, shmName, sems, num, shown, overlapped>>

DropShm(r) ==
    /\ Producer(r, "dropShm", "done")
    /\ shmName' = Absent
    /\ UNCHANGED <<consumer, wi, ri, mapped, shm, semName, sems, num, shown, overlapped>>

\* The parent or the child is killed between two steps.
KilledRun(r) ==
    /\ Crashes
    /\ \/ /\ ~Gone(r) /\ producer[r] # "ready"
          /\ producer' = [producer EXCEPT ![r] = "killed"]
          /\ UNCHANGED consumer
       \/ /\ consumer[r] \notin {"none", "done", "killed"}
          /\ consumer' = [consumer EXCEPT ![r] = "killed"]
          /\ UNCHANGED producer
    /\ UNCHANGED <<wi, ri, mapped, shm, names, sems, num, shown, overlapped>>

-----------------------------------------------------------------------------
Setup(r)    == ShmOpen(r) \/ SemUnlink(r) \/ SemOpenW(r) \/ SemOpenR(r) \/ ForkConsumer(r)
Produce(r) == WaitW(r) \/ WriteNum(r) \/ WriteData(r) \/ PostR(r)
Consume(r) == WaitR(r) \/ ReadNum(r) \/ ReadData(r) \/ PostW(r)
Cleanup(r)  == Reap(r) \/ DropW(r) \/ DropR(r) \/ DropShm(r)

\* Nobody is left who can move: every run is over, and a process that lost its
\* partner to a kill may be blocked in sem_wait for good.
Quiescent ==
    /\ \A r \in Starts :
         /\ Gone(r) \/ (producer[r] = "waitW" /\ semW[r] = 0 /\ consumer[r] = "killed")
         /\ consumer[r] \in {"none", "done", "killed"}
              \/ (consumer[r] = "waitR" /\ semR[r] = 0 /\ producer[r] = "killed")
    /\ UNCHANGED shmVars

ShmNext ==
    \/ \E r \in Starts : Setup(r) \/ Produce(r) \/ Consume(r) \/ Cleanup(r) \/ KilledRun(r)
    \/ Quiescent

ShmSpec == ShmInit /\ [][ShmNext]_shmVars

\* Both processes are scheduled; nothing forces a kill.
ShmFairness ==
    \A r \in Starts : WF_shmVars(Setup(r) \/ Produce(r) \/ Cleanup(r)) /\ WF_shmVars(Consume(r))

ShmFairSpec == ShmSpec /\ ShmFairness

-----------------------------------------------------------------------------
\* The parent of a run is writing the record, its child is reading it.
Writing(r) == producer[r] \in {"num", "data", "postR"}
Reading(r) == consumer[r] \in {"num", "data", "postW"}

\* The two semaphores are one token: at any time it lies in one of them or is
\* held by the process that is using the record, never by both.
OneToken ==
    \A r \in Starts : consumer[r] # "none" =>
        semW[r] + semR[r] + (IF Writing(r) THEN 1 ELSE 0) + (IF Reading(r) THEN 1 ELSE 0) <= 1

\* What has been posted and not yet been read completely.
Posted(r) ==
    IF wi[r] > Len(shown[r]) THEN << <<shm[mapped[r]].num, shm[mapped[r]].data>> >> ELSE <<>>

Last == MaxStarts
Handoff == INSTANCE BoundedFifo
          WITH chan <- Posted(Last), out <- shown[Last], Capacity <- 1,
               Value <- {Message(Last, k) : k \in 0 .. N_MESSAGES - 1}

\* The last run hands its messages over one at a time, none torn, lost or
\* repeated, although an earlier run may have been killed at any point and have
\* left the shared memory, its semaphores and a waiting child behind.  Only runs
\* at the same time disturb each other: the second takes the semaphores' names
\* from the first and shares its memory.
RestartIsClean ==
    /\ Handoff!Init
    /\ [][overlapped \/ Handoff!Next]_<<Posted(Last), shown[Last]>>

\* Once started a run ends, successfully or with exit(1), unless one of its own
\* two processes is killed: what other runs do to the names does not block it.
RunsEnd ==
    \A r \in Starts :
        producer[r] # "ready" ~>
            \/ Gone(r) /\ consumer[r] \in {"none", "done"}
            \/ "killed" \in {producer[r], consumer[r]}
=============================================================================
