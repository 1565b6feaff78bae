------------------------------- MODULE SemQueue -------------------------------
(***************************************************************************)
(* Demo 3.1 of 02_threads/thread_demo.c: the ring buffer handed over with  *)
(* two counting semaphores and no mutex, for one producer and one          *)
(* consumer.  raw_queue_push and raw_queue_pop are split at every access   *)
(* to shared memory.  q->count++ and q->count-- are plain increments that  *)
(* the two threads may perform at once, a data race; each is a load and a  *)
(* store, as the unoptimised build of the demo compiles it.                *)
(*                                                                         *)
(* pc["producer"]: "wait" sem_wait(sem_not_full), "data" data[tail] = val, *)
(* "advance" tail = ..., "load"/"store" count++, "post" sem_post, "done".  *)
(* pc["consumer"]: the same points of raw_queue_pop.                       *)
(***************************************************************************)
EXTENDS ThreadConstants

VARIABLES data, head, tail, count,   \* the shared ring
          notFull, notEmpty,         \* the semaphores' values
          pc,                        \* control point of each thread
          reg,                       \* the register each thread loads count into; 0 once stored
          i,                         \* producer: pushes completed or under way
          val,                       \* consumer: the value popped last
          got                        \* history: every value read, in order

ring == <<data, head, tail>>
vars == <<data, head, tail, count, notFull, notEmpty, pc, reg, i, val, got>>

Thread == {"producer", "consumer"}
Slot   == 0 .. QUEUE_SIZE - 1
Value  == 0 .. Items - 1 \cup {SENTINEL}

\* The queue is a zeroed static; a slot is read only after it was written, so
\* what it holds before is not told apart.
Init ==
    /\ data = [s \in Slot |-> SENTINEL]
    /\ head = 0 /\ tail = 0 /\ count = 0
    /\ notFull = Permits /\ notEmpty = 0
    /\ pc = [t \in Thread |-> "wait"]
    /\ reg = [t \in Thread |-> 0]
    /\ i = 0
    /\ val = SENTINEL
    /\ got = <<>>

-----------------------------------------------------------------------------
Wrap(x) == x % QUEUE_SIZE
At(t, where) == pc[t] = where
Goto(t, where) == pc' = [pc EXCEPT ![t] = where]
ToPush == IF i < Items THEN i ELSE SENTINEL

-----------------------------------------------------------------------------
(* Wrong variants of actions below, each the shape of a plausible bug. *)

\* raw_queue_push without its sem_wait.
PushWait_Dropped ==
    /\ At("producer", "wait")
    /\ Goto("producer", "data")
    /\ UNCHANGED <<ring, count, notFull, notEmpty, reg, i, val, got>>

\* raw_queue_pop without its sem_wait.
PopWait_Dropped ==
    /\ At("consumer", "wait")
    /\ Goto("consumer", "data")
    /\ UNCHANGED <<ring, count, notFull, notEmpty, reg, i, val, got>>

-----------------------------------------------------------------------------
(* raw_queue_push and producer_sem *)

PushWait ==
    /\ At("producer", "wait")
    /\ notFull > 0
    /\ notFull' = notFull - 1
    /\ Goto("producer", "data")
    /\ UNCHANGED <<ring, count, notEmpty, reg, i, val, got>>

PushData ==
    /\ At("producer", "data")
    /\ data' = [data EXCEPT ![tail] = ToPush]
    /\ Goto("producer", "advance")
    /\ UNCHANGED <<head, tail, count, notFull, notEmpty, reg, i, val, got>>

PushAdvance ==
    /\ At("producer", "advance")
    /\ tail' = Wrap(tail + 1)
    /\ Goto("producer", "load")
    /\ UNCHANGED <<data, head, count, notFull, notEmpty, reg, i, val, got>>

\* sem_post, and the rest of the loop: SENTINEL is the last push.
PushPost ==
    /\ At("producer", "post")
    /\ notEmpty' = notEmpty + 1
    /\ i' = i + 1
    /\ Goto("producer", IF i < Items THEN "wait" ELSE "done")
    /\ UNCHANGED <<ring, count, notFull, reg, val, got>>

(* raw_queue_pop and consumer_sem *)

PopWait ==
    /\ At("consumer", "wait")
    /\ notEmpty > 0
    /\ notEmpty' = notEmpty - 1
    /\ Goto("consumer", "data")
    /\ UNCHANGED <<ring, count, notFull, reg, i, val, got>>

PopData ==
    /\ At("consumer", "data")
    /\ val' = data[head]
    /\ got' = Append(got, data[head])
    /\ Goto("consumer", "advance")
    /\ UNCHANGED <<ring, count, notFull, notEmpty, reg, i>>

PopAdvance ==
    /\ At("consumer", "advance")
    /\ head' = Wrap(head + 1)
    /\ Goto("consumer", "load")
    /\ UNCHANGED <<data, tail, count, notFull, notEmpty, reg, i, val, got>>

PopPost ==
    /\ At("consumer", "post")
    /\ notFull' = notFull + 1
    /\ Goto("consumer", IF val = SENTINEL THEN "done" ELSE "wait")
    /\ UNCHANGED <<ring, count, notEmpty, reg, i, val, got>>

(* count++ and count-- *)

CountLoad(t) ==
    /\ At(t, "load")
    /\ reg' = [reg EXCEPT ![t] = count]
    /\ Goto(t, "store")
    /\ UNCHANGED <<ring, count, notFull, notEmpty, i, val, got>>

CountStore(t) ==
    /\ At(t, "store")
    /\ count' = IF t = "producer" THEN reg[t] + 1 ELSE reg[t] - 1
    /\ reg' = [reg EXCEPT ![t] = 0]
    /\ Goto(t, "post")
    /\ UNCHANGED <<ring, notFull, notEmpty, i, val, got>>

-----------------------------------------------------------------------------
AllDone == \A t \in Thread : At(t, "done")

\* demo_sem_prod_consumer joins both threads and destroys the semaphores.
Join == AllDone /\ UNCHANGED vars

Producer == PushWait \/ PushData \/ PushAdvance \/ PushPost
Consumer == PopWait \/ PopData \/ PopAdvance \/ PopPost
Count(t) == CountLoad(t) \/ CountStore(t)

Next == Producer \/ Consumer \/ (\E t \in Thread : Count(t)) \/ Join

Spec == Init /\ [][Next]_vars

-----------------------------------------------------------------------------
TypeOK ==
    /\ data \in [Slot -> Value] /\ head \in Slot /\ tail \in Slot
    /\ count \in Int /\ reg \in [Thread -> Int]
    /\ notFull \in 0 .. Permits /\ notEmpty \in 0 .. Permits
    /\ pc \in [Thread -> {"wait", "data", "advance", "load", "store", "post", "done"}]
    /\ i \in 0 .. Items + 1
    /\ val \in Value
    /\ got \in Seq(Value)

Inside(t) == IF pc[t] \in {"wait", "done"} THEN 0 ELSE 1

\* Permits are neither lost nor created: every one of them is in one of the two
\* semaphores or held by a thread between its sem_wait and its sem_post.
PermitsConserved == notFull + notEmpty + Inside("producer") + Inside("consumer") = Permits

\* Slots from head to tail: what sem_not_empty counts, a push that has advanced
\* tail and not posted, and a pop that has not yet advanced head.
InRing ==
    notEmpty + (IF pc["producer"] \in {"load", "store", "post"} THEN 1 ELSE 0)
             + (IF pc["consumer"] \in {"data", "advance"} THEN 1 ELSE 0)

\* The semaphores count what is in the ring: at every point of the two threads
\* they determine the distance between the cursors.
RingInv == tail = Wrap(head + InRing)

\* Without any mutex, the two threads never work on the same slot at once.
SlotsDisjoint == At("producer", "data") /\ At("consumer", "data") => head # tail

\* Values in the ring that have been written and not been read: how many, and
\* from which slot on.
Unread ==
    notEmpty + (IF pc["producer"] \in {"advance", "load", "store", "post"} THEN 1 ELSE 0)
             + (IF pc["consumer"] = "data" THEN 1 ELSE 0)
First    == IF pc["consumer"] = "advance" THEN Wrap(head + 1) ELSE head
Contents == [k \in 1 .. Unread |-> data[Wrap(First + k - 1)]]

Fifo == INSTANCE BoundedFifo WITH chan <- Contents, out <- got, Capacity <- Permits

\* raw_queue_push and raw_queue_pop implement a first-in first-out channel.  Its
\* capacity is the initial value of sem_not_full, 5, not the 8 slots of the ring.
ImplementsFifo == Fifo!Spec
=============================================================================
