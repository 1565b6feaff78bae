------------------------------- MODULE TcpEcho -------------------------------
(***************************************************************************)
(* 07_networking: the epoll server of tcp_server.c with its clients.       *)
(* Lockstep clients are tcp_client.c: three times send and wait for the    *)
(* reply, then close; how they connect is in ConnectTimeout.  Free clients *)
(* are anything else, such as the nc the server suggests: they send and    *)
(* close at will, and whether they read their replies changes nothing.     *)
(*                                                                         *)
(* The server works through the events of one epoll_wait call one by one,  *)
(* while connections, data and closes keep arriving; what it acts on is    *)
(* the event mask as it was when epoll_wait returned.                      *)
(*                                                                         *)
(* TCP carries bytes: a recv, of the server or of a client, returns any    *)
(* first part of what was sent.  The network may stop carrying anything    *)
(* for a connection; the server's end learns of it by SO_KEEPALIVE, the    *)
(* client's may or may not.  A connection that is reset is one that is cut *)
(* and of which both ends learn at once.                                   *)
(*                                                                         *)
(* srv: "check" (while condition), "wait" (epoll_wait), "handle", "shut",  *)
(* "exit".                                                                 *)
(***************************************************************************)
EXTENDS Integers, Sequences, FiniteSets, Functions

CONSTANTS Lockstep, Free,   \* clients
          MESSAGES, WIDTH,  \* messages of tcp_client (3) and bytes of each
          BYTES,            \* bound: bytes a free client is ahead of the server
          MAX_EVENTS,       \* events of one epoll_wait (64)
          MaxFds,           \* bound: the largest limit of descriptors
          Failing,          \* bound: clients whose connections may fail
          None

ASSUME TcpEchoAssumption ==
    /\ IsFiniteSet(Lockstep \cup Free) /\ Lockstep \cap Free = {}
    /\ None \notin Lockstep \cup Free
    /\ MESSAGES \in Nat \ {0} /\ WIDTH \in Nat \ {0} /\ BYTES \in Nat \ {0}
    /\ MAX_EVENTS \in Nat \ {0} /\ MaxFds \in Nat \ {0} /\ Failing \subseteq Lockstep \cup Free

Client == Lockstep \cup Free
Fd     == 1 .. MaxFds    \* descriptors accept4 returns
LISTEN == 0              \* the listening socket sfd

VARIABLES srv, running,   \* the server's control point and g_running
          limit,          \* descriptors the process may have for clients
          backlog,        \* connections not yet accepted
          conn,           \* the client behind each open descriptor
          rdl,            \* epoll's ready list
          batch,          \* events [fd, hup] still to be handled
          cpc,            \* control point of each client
          sent,           \* messages each tcp_client has sent
          c2s,            \* bytes each client has sent and the server not received
          s2c,            \* echoed bytes each tcp_client has not read
          fin,            \* clients that have closed
          closed,         \* clients whose connection the server has closed
          cut,            \* clients for which the network carries nothing any more
          told,           \* those of them of which the server's end knows
          said, got,      \* history: bytes each tcp_client has sent, echoed bytes it has read
          torn            \* history: clients with a recv that returned part of what
                          \* was sent, or whose connection failed

server  == <<srv, running, limit, conn, batch>>
network == <<backlog, rdl, c2s, s2c, fin, closed, cut, told>>
clients == <<cpc, sent, said, got>>
vars    == <<server, network, clients, torn>>

Init ==
    /\ srv = "check" /\ running = TRUE /\ limit \in Fd
    /\ backlog = <<>> /\ rdl = <<>> /\ batch = <<>>
    /\ conn = [f \in Fd |-> None]
    /\ cpc = [c \in Client |-> "connect"]
    /\ sent = [c \in Client |-> 0]
    /\ c2s = [c \in Client |-> <<>>] /\ s2c = [c \in Client |-> <<>>]
    /\ fin = {} /\ closed = {} /\ cut = {} /\ told = {}
    /\ said = [c \in Client |-> <<>>] /\ got = [c \in Client |-> <<>>]
    /\ torn = {}

-----------------------------------------------------------------------------
(* epoll, level triggered *)

\* The server's end of client c's connection has seen its close, or an error.
Gone(c) == c \in fin \ cut \/ c \in told

Ready(f) == IF f = LISTEN THEN backlog # <<>>
            ELSE conn[f] # None /\ (c2s[conn[f]] # <<>> \/ Gone(conn[f]))

\* EPOLLRDHUP, EPOLLHUP or EPOLLERR would be reported for descriptor f.
Hup(f) == f # LISTEN /\ Gone(conn[f])

\* The ready list after something happened on descriptor f.
Wake(list, f) == IF f \in Range(list) THEN list ELSE Append(list, f)

\* The positions K of a list in ascending order.
InOrder(K, list) ==
    {at \in UNION {[1 .. n -> K] : n \in {Cardinality(K)} \cap 0 .. Len(list)} :
        Range(at) = K /\ \A j, k \in DOMAIN at : j < k => at[j] < at[k]}

FdOf(c) == {f \in Fd : conn[f] = c}

\* The ready list after something happened on client c's connection; before
\* accept4 there is no descriptor to wake.
WakeClient(list, c) == IF FdOf(c) = {} THEN list ELSE Wake(list, CHOOSE f \in FdOf(c) : TRUE)

-----------------------------------------------------------------------------
(* Wrong variants of definitions below, each the shape of a plausible bug. *)

\* The loop skips the element after the one it handles and sees it again later.
Rest_Again(b) == IF Len(b) > 1 THEN <<b[2], b[1]>> ELSE <<>>
\* The loop tests a variable the compiler keeps in a register.
KeepRunning_Cached == TRUE
\* A new connection is not added to the epoll set.
Registered_Never(list, f) == list

-----------------------------------------------------------------------------
(* main's loop *)

KeepRunning == running

Check ==
    /\ srv = "check"
    /\ srv' = IF KeepRunning THEN "wait" ELSE "shut"
    /\ UNCHANGED <<running, limit, conn, batch, network, clients, torn>>

\* epoll_wait reports up to MAX_EVENTS ready descriptors from the front of the
\* list and, level triggered, keeps them at its end.  It also returns with
\* nothing, after one second or because a signal arrived.
EpollWait ==
    /\ srv = "wait"
    /\ \E at \in InOrder({k \in DOMAIN rdl : Ready(rdl[k])}, rdl) :
          LET ready == [k \in DOMAIN at |-> rdl[at[k]]]
              n     == Len(ready)
              m     == IF n < MAX_EVENTS THEN n ELSE MAX_EVENTS
          IN  /\ batch' = [k \in 1 .. m |-> [fd |-> ready[k], hup |-> Hup(ready[k])]]
              /\ rdl' = [k \in 1 .. n |-> ready[IF k <= n - m THEN m + k ELSE k - (n - m)]]
    /\ srv' = "handle"
    /\ UNCHANGED <<running, limit, conn, backlog, c2s, s2c, fin, closed, cut, told, clients, torn>>

BatchDone ==
    /\ srv = "handle" /\ batch = <<>>
    /\ srv' = "check"
    /\ UNCHANGED <<running, limit, conn, batch, network, clients, torn>>

Rest(b) == Tail(b)
Event(f) == srv = "handle" /\ batch # <<>> /\ batch[1].fd = f /\ batch' = Rest(batch)

\* All descriptors are in use.
Full == \A f \in 1 .. limit : conn[f] # None
LowestFree(f) == conn[f] = None /\ \A g \in 1 .. f - 1 : conn[g] # None
Registered(list, f) == Wake(list, f)

\* handle_new_connection: one accept4 per event.  Without a free descriptor it
\* fails and the connection stays queued.  (EAGAIN cannot happen: EventHolds.)
NewConnection ==
    /\ Event(LISTEN)
    /\ \/ \E f \in 1 .. limit :
             /\ LowestFree(f)
             /\ backlog' = Tail(backlog)
             /\ conn' = [conn EXCEPT ![f] = Head(backlog)]
             /\ rdl' = Registered(rdl, f)
       \/ /\ Full
          /\ UNCHANGED <<backlog, conn, rdl>>
    /\ UNCHANGED <<srv, running, limit, c2s, s2c, fin, closed, cut, told, clients, torn>>

\* EPOLL_CTL_DEL and close.  If the client had sent more, that is dropped, the
\* connection is reset and replies the client has not read may be lost.
Disconnect(f) ==
    /\ conn' = [conn EXCEPT ![f] = None]
    /\ \E at \in InOrder({k \in DOMAIN rdl : rdl[k] # f}, rdl) : rdl' = [k \in DOMAIN at |-> rdl[at[k]]]
    /\ closed' = closed \cup {conn[f]}
    /\ c2s' = [c2s EXCEPT ![conn[f]] = <<>>]
    /\ s2c' \in {s2c} \cup IF c2s[conn[f]] = <<>> THEN {} ELSE {[s2c EXCEPT ![conn[f]] = <<>>]}
    /\ UNCHANGED <<srv, running, limit, backlog, fin, cut, told, clients, torn>>

IsHup(e) == e.hup

PeerClosed(f) == Event(f) /\ IsHup(batch[1]) /\ Disconnect(f)

Echo(m) == m

\* Client c is a tcp_client and has got, or the server from it, k bytes of s only.
Torn(c, k, s) == torn' = IF c \in Lockstep /\ k < Len(s) THEN torn \cup {c} ELSE torn

\* handle_client: recv gets the first k bytes, send echoes them behind "ECHO: ".
\* The result of send is ignored, so what does not fit would be dropped; the
\* few replies to a tcp_client fit any socket buffer.  The branch for n <= 0 has
\* no action: EventHolds shows that it is never taken.
Reply(f) ==
    /\ Event(f) /\ ~IsHup(batch[1])
    /\ LET c == conn[f]
       IN  \E k \in 1 .. Len(c2s[c]) :
              /\ c2s' = [c2s EXCEPT ![c] = SubSeq(@, k + 1, Len(@))]
              /\ s2c' = IF c \in Free \cup fin \cup cut THEN s2c
                        ELSE [s2c EXCEPT ![c] = @ \o Echo(SubSeq(c2s[c], 1, k))]
              /\ Torn(c, k, c2s[c])
    /\ UNCHANGED <<srv, running, limit, conn, backlog, rdl, fin, closed, cut, told, clients>>

\* The sockets are closed, explicitly or by the exit of the process.
Shutdown ==
    /\ srv = "shut"
    /\ srv' = "exit"
    /\ conn' = [f \in Fd |-> None]
    /\ backlog' = <<>> /\ rdl' = <<>>
    /\ closed' = closed \cup Range(backlog) \cup {conn[f] : f \in {g \in Fd : conn[g] # None}}
    /\ \E lost \in SUBSET {c \in closed' : c2s[c] # <<>>} :
          s2c' = [c \in Client |-> IF c \in lost THEN <<>> ELSE s2c[c]]
    /\ c2s' = [c \in Client |-> IF c \in closed' THEN <<>> ELSE c2s[c]]
    /\ UNCHANGED <<running, limit, batch, fin, cut, told, clients, torn>>

\* SIGTERM or SIGINT: sigterm_handler may run at any point.
Sigterm ==
    /\ running /\ srv # "exit"
    /\ running' = FALSE
    /\ UNCHANGED <<srv, limit, conn, batch, network, clients, torn>>

-----------------------------------------------------------------------------
(* Clients *)

\* connect succeeds once the kernel has queued the connection.
Connect(c) ==
    /\ cpc[c] = "connect" /\ srv # "exit"
    /\ backlog' = Append(backlog, c)
    /\ rdl' = Wake(rdl, LISTEN)
    /\ cpc' = [cpc EXCEPT ![c] = "send"]
    /\ UNCHANGED <<server, c2s, s2c, fin, closed, cut, told, sent, said, got, torn>>

\* The bytes of a message; a free client sends byte by byte.
Message(c) == [k \in 1 .. IF c \in Lockstep THEN WIDTH ELSE 1 |-> <<sent[c], k>>]

\* A send on a connection that is closed or cut has no effect.
Transmit(c) ==
    IF c \in closed \cup cut THEN UNCHANGED <<c2s, rdl>>
    ELSE /\ c2s' = [c2s EXCEPT ![c] = @ \o Message(c)]
         /\ rdl' = WakeClient(rdl, c)

Send(c) ==
    /\ c \in Lockstep /\ cpc[c] = "send"
    /\ Transmit(c)
    /\ sent' = [sent EXCEPT ![c] = @ + 1]
    /\ said' = [said EXCEPT ![c] = @ \o Message(c)]
    /\ cpc' = [cpc EXCEPT ![c] = "recv"]
    /\ UNCHANGED <<server, backlog, s2c, fin, closed, cut, told, got, torn>>

SendFreely(c) ==
    /\ c \in Free /\ cpc[c] = "send" /\ Len(c2s[c]) < BYTES
    /\ Transmit(c)
    /\ UNCHANGED <<server, backlog, s2c, fin, closed, cut, told, clients, torn>>

\* The client's recv returns k echoed bytes, or only part of an "ECHO: " (k = 0).
Recv(c) ==
    /\ cpc[c] = "recv" /\ s2c[c] # <<>>
    /\ \E k \in 0 .. Len(s2c[c]) :
          /\ got' = [got EXCEPT ![c] = @ \o SubSeq(s2c[c], 1, k)]
          /\ s2c' = [s2c EXCEPT ![c] = SubSeq(@, k + 1, Len(@))]
          /\ Torn(c, k, s2c[c])
    /\ cpc' = [cpc EXCEPT ![c] = IF sent[c] < MESSAGES THEN "send" ELSE "close"]
    /\ UNCHANGED <<server, backlog, rdl, c2s, fin, closed, cut, told, sent, said>>

\* recv returns 0 or an error.
RecvFails(c) ==
    /\ cpc[c] = "recv" /\ s2c[c] = <<>>
    /\ cpc' = [cpc EXCEPT ![c] = "close"]
    /\ UNCHANGED <<server, network, sent, said, got, torn>>

\* The server has closed the connection.
RecvEnd(c) == c \in closed \ cut /\ RecvFails(c)

\* The client closes its socket, and with it what it has not read.
Leave(c) ==
    /\ cpc' = [cpc EXCEPT ![c] = "done"]
    /\ fin' = fin \cup {c}
    /\ rdl' = IF c \in closed \cup cut THEN rdl ELSE WakeClient(rdl, c)
    /\ s2c' = [s2c EXCEPT ![c] = <<>>]
    /\ UNCHANGED <<server, backlog, c2s, closed, cut, told, sent, said, got, torn>>

Close(c) == (cpc[c] = "close" \/ (c \in Free /\ cpc[c] = "send")) /\ Leave(c)

-----------------------------------------------------------------------------
(* The network *)

\* From now on nothing passes.  (A byte that is lost on its way, in either
\* direction, might as well have been sent after the cut.)
Cut(c) ==
    /\ c \in Failing
    /\ c \in Range(backlog) \cup Range(conn) /\ c \notin fin \cup closed \cup cut
    /\ cut' = cut \cup {c}
    /\ torn' = torn \cup {c}
    /\ UNCHANGED <<server, backlog, rdl, c2s, s2c, fin, closed, told, clients>>

\* SO_KEEPALIVE: the server's end finds that its peer does not answer any more.
Keepalive(c) ==
    /\ c \in cut \ (told \cup closed)
    /\ told' = told \cup {c}
    /\ rdl' = WakeClient(rdl, c)
    /\ UNCHANGED <<server, backlog, c2s, s2c, fin, closed, cut, clients, torn>>

\* The client's end has sent and got no answer, or is reset.
Unanswered(c) == c \in cut /\ RecvFails(c)

-----------------------------------------------------------------------------
Server ==
    \/ Check \/ EpollWait \/ BatchDone \/ NewConnection \/ Shutdown
    \/ \E f \in Fd : PeerClosed(f) \/ Reply(f)

\* What a client does with its connection.
Talk(c) == Send(c) \/ SendFreely(c) \/ Recv(c) \/ RecvEnd(c) \/ Close(c)

Network(c) == Cut(c) \/ Keepalive(c) \/ Unanswered(c)

Next == Server \/ Sigterm \/ (\E c \in Client : Connect(c) \/ Talk(c) \/ Network(c))

Spec == Init /\ [][Next]_vars

-----------------------------------------------------------------------------
\* No event is stale when its turn comes, although descriptors are closed and
\* reused, data keeps arriving and connections fail while a batch is handled: its
\* descriptor is open, a hang-up is real, and what was reported readable still has
\* input.  So accept4 never sees EAGAIN and handle_client never its n <= 0.
EventHolds ==
    \A k \in DOMAIN batch :
        LET e == batch[k]
            c == conn[e.fd]
        IN  IF e.fd = LISTEN THEN backlog # <<>>
            ELSE c # None /\ IF e.hup THEN Gone(c) ELSE c2s[c] # <<>>
=============================================================================
