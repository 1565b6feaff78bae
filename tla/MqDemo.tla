-------------------------------- MODULE MqDemo --------------------------------
(***************************************************************************)
(* 03_ipc/mq_demo.c: demo_basic_mq, in which a forked sender fills a POSIX *)
(* message queue and the parent then takes three messages by priority, and *)
(* demo_multiprocess_mq, in which parent and child use the queue at the    *)
(* same time.  main runs one after the other.                              *)
(*                                                                         *)
(* The sender of the first demo is the program mq_send, which is not part  *)
(* of the repository: it is any program that sends the priorities of       *)
(* `script' in order and exits.  Messages left by an earlier run that was  *)
(* killed are still in the queue, since the mq_unlink that would remove    *)
(* them is commented out.                                                  *)
(***************************************************************************)
EXTENDS Integers, Sequences

CONSTANTS MAX_MSGS,       \* capacity of the queue (8)
          N_MSGS,         \* messages of the second demo (4)
          Prios,          \* priorities mq_send may use
          MaxLeftover     \* bound: messages left by earlier runs

ASSUME MqDemoAssumption ==
    /\ MAX_MSGS \in Nat \ {0} /\ N_MSGS \in Nat \ {0}
    /\ Prios \subseteq Nat
    /\ MaxLeftover \in 0 .. MAX_MSGS

VARIABLES main,      \* control point of the parent
          kid,       \* control point of its current child
          exists,    \* is there a queue called MQ_NAME?
          queue,     \* its messages [prio, from, id], next to be received first
          script,    \* priorities mq_send sends
          sent,      \* how many messages the sender at work has sent
          got1,      \* what the parent received in the first demo
          got2       \* what the child received in the second

mqVars == <<main, kid, exists, queue, script, sent, got1, got2>>

RECEIVES == 3    \* mq_receive calls of the first demo

Msg(p, who, k) == [prio |-> p, from |-> who, id |-> k]

\* The queue an earlier run left behind, if any, in receiving order.
Leftovers ==
    {q \in UNION {[1 .. n -> [prio : Prios, from : {"earlier"}, id : {0}]] : n \in 0 .. MaxLeftover} :
        \A a, b \in DOMAIN q : a < b => q[a].prio >= q[b].prio}

MqInit ==
    /\ main = "open" /\ kid = "none"
    /\ queue \in Leftovers
    /\ exists = (queue # <<>>)
    /\ script \in [1 .. RECEIVES -> Prios]
    /\ sent = 0 /\ got1 = <<>> /\ got2 = <<>>

-----------------------------------------------------------------------------
(* Wrong variants of definitions below, each the shape of a plausible bug. *)

\* The parent receives without waiting for the sender to end.
Wait1_Dropped ==
    /\ main = "wait"
    /\ main' = "receive"
    /\ UNCHANGED <<kid, exists, queue, script, sent, got1, got2>>
\* The second demo's consumer expects one message more than is sent.
LastReceive_OffByOne == Len(got2) = N_MSGS

-----------------------------------------------------------------------------
(* The kernel's queue *)

\* mq_send puts a message behind all those of its own or a higher priority, ahead
\* of the others.
Insert(k, m) == SubSeq(queue, 1, k) \o <<m>> \o SubSeq(queue, k + 1, Len(queue))

Send(m) ==
    /\ Len(queue) < MAX_MSGS
    /\ \E k \in 0 .. Len(queue) :
          /\ \A j \in 1 .. Len(queue) : j <= k <=> queue[j].prio >= m.prio
          /\ queue' = Insert(k, m)

\* mq_open with O_CREAT opens the queue, creating it if need be.
MqOpen == exists' = TRUE /\ UNCHANGED queue
MqUnlink == exists' = FALSE /\ queue' = <<>>

-----------------------------------------------------------------------------
(* demo_basic_mq *)

Open1 ==
    /\ main = "open"
    /\ \/ MqOpen /\ main' = "fork"
       \/ main' = "unlink2" /\ UNCHANGED <<exists, queue>>
    /\ UNCHANGED <<kid, script, sent, got1, got2>>

Fork1 ==
    /\ main = "fork"
    /\ \/ main' = "wait" /\ kid' = "exec"
       \/ main' = "unlink2" /\ UNCHANGED kid
    /\ UNCHANGED <<exists, queue, script, sent, got1, got2>>

\* execl of ./build/mq_send works, or fails and the child exits.
Exec ==
    /\ kid = "exec"
    /\ kid' \in {"send", "failed"}
    /\ UNCHANGED <<main, exists, queue, script, sent, got1, got2>>

\* One mq_send of the external sender; it exits after the last.
SenderSend ==
    /\ kid = "send"
    /\ Send(Msg(script[sent + 1], "sender", sent))
    /\ sent' = sent + 1
    /\ kid' = IF sent' = Len(script) THEN "done" ELSE "send"
    /\ UNCHANGED <<main, exists, script, got1, got2>>

Ended == kid \in {"done", "failed"}

Wait1 ==
    /\ main = "wait"
    /\ Ended
    /\ main' = "receive"
    /\ UNCHANGED <<kid, exists, queue, script, sent, got1, got2>>

\* mq_receive does not fail: the queue is open for reading, the buffer has the size
\* of the queue's messages, and no process of the demos handles a signal.
Receive1 ==
    /\ main = "receive"
    /\ queue # <<>>
    /\ got1' = Append(got1, Head(queue))
    /\ queue' = Tail(queue)
    /\ main' = IF Len(got1') = RECEIVES THEN "unlink1" ELSE "receive"
    /\ UNCHANGED <<kid, exists, script, sent, got2>>

Unlink1 ==
    /\ main = "unlink1"
    /\ MqUnlink
    /\ main' = "unlink2"
    /\ UNCHANGED <<kid, script, sent, got1, got2>>

-----------------------------------------------------------------------------
(* demo_multiprocess_mq *)

Unlink2 ==
    /\ main = "unlink2"
    /\ MqUnlink
    /\ main' = "fork2"
    /\ UNCHANGED <<kid, script, sent, got1, got2>>

Fork2 ==
    /\ main = "fork2"
    /\ sent' = 0
    /\ \/ main' = "open2" /\ kid' = "open2"
       \/ main' = "done" /\ UNCHANGED kid
    /\ UNCHANGED <<exists, queue, script, got1, got2>>

ConsumerOpen ==
    /\ kid = "open2"
    /\ \/ MqOpen /\ kid' = "receive2"
       \/ kid' = "failed" /\ UNCHANGED <<exists, queue>>
    /\ UNCHANGED <<main, script, sent, got1, got2>>

\* The usleep before it makes the consumer's open likely to be first, no more.
ProducerOpen ==
    /\ main = "open2"
    /\ \/ MqOpen /\ main' = "send2"
       \/ main' = "exited" /\ UNCHANGED <<exists, queue>>
    /\ UNCHANGED <<kid, script, sent, got1, got2>>

ProducerSend ==
    /\ main = "send2"
    /\ Send(Msg(5, "producer", sent))
    /\ sent' = sent + 1
    /\ main' = IF sent' = N_MSGS THEN "wait2" ELSE "send2"
    /\ UNCHANGED <<kid, exists, script, got1, got2>>

LastReceive == Len(got2) + 1 = N_MSGS

ConsumerReceive ==
    /\ kid = "receive2"
    /\ queue # <<>>
    /\ got2' = Append(got2, Head(queue))
    /\ queue' = Tail(queue)
    /\ kid' = IF LastReceive THEN "done" ELSE "receive2"
    /\ UNCHANGED <<main, exists, script, sent, got1>>

Wait2 ==
    /\ main = "wait2"
    /\ kid \in {"done", "failed"}
    /\ MqUnlink
    /\ main' = "done"
    /\ UNCHANGED <<kid, script, sent, got1, got2>>

-----------------------------------------------------------------------------
MqOver == main \in {"done", "exited"} /\ UNCHANGED mqVars

MqParent ==
    \/ Open1 \/ Fork1 \/ Wait1 \/ Receive1 \/ Unlink1
    \/ Unlink2 \/ Fork2 \/ ProducerOpen \/ ProducerSend \/ Wait2
MqChild == Exec \/ SenderSend \/ ConsumerOpen \/ ConsumerReceive

MqNext == MqParent \/ MqChild \/ MqOver

MqSpec == MqInit /\ [][MqNext]_mqVars

\* Both processes are scheduled.
MqFairSpec == MqSpec /\ WF_mqVars(MqParent) /\ WF_mqVars(MqChild)

-----------------------------------------------------------------------------
Before(a, b) == a.prio > b.prio \/ (a.prio = b.prio /\ a.id <= b.id)

\* "highest priority first": what the parent prints is sorted by priority and,
\* within a priority, in the order it was sent, also when an earlier run's
\* messages are still in the queue.
HighestPriorityFirst ==
    \A a, b \in 1 .. Len(got1) : a < b =>
        \/ Before(got1[a], got1[b])
        \/ got1[a].from = "earlier" /\ got1[a].prio = got1[b].prio

\* The parent waits for a message that nobody will send: mq_send could not be
\* run, and earlier runs had not left enough.
Starved == main = "receive" /\ queue = <<>> /\ kid = "failed"
\* mq_send waits for room in a queue of old messages, and the parent for mq_send.
Jammed == main = "wait" /\ kid = "send" /\ Len(queue) = MAX_MSGS

\* What the second demo leaves if both its processes got to their ends: no queue,
\* and a consumer that has got the producer's messages and no others, whatever the
\* first demo had left behind.
Delivered ==
    kid = "done" =>
        ~exists /\ (sent = N_MSGS => got2 = [k \in 1 .. N_MSGS |-> Msg(5, "producer", k - 1)])

\* The program gets to its end, with all of the second demo's messages delivered,
\* unless its open failed or the first demo is stuck for one of two reasons: there
\* is no sender, or old messages leave the sender no room.
DemoCompletes == <>(main = "exited" \/ (main = "done" /\ Delivered) \/ Starved \/ Jammed)
=============================================================================
