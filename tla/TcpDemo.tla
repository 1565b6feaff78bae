------------------------------- MODULE TcpDemo -------------------------------
(***************************************************************************)
(* 07_networking: a tcp_client from its connect_with_timeout to its close, *)
(* the tcp_server, and other clients, together.  The server listens on one *)
(* of the addresses the client tries and nobody on the others.  Its kernel *)
(* may complete the connection at once, later, just as the client gives it *)
(* up, or never.                                                           *)
(***************************************************************************)
EXTENDS TcpEcho

CONSTANTS Dialer,      \* the tcp_client
          Addresses,   \* how many addresses getaddrinfo returns at most
          Served       \* the address the server listens on

ASSUME TcpDemoAssumption ==
    /\ Lockstep = {Dialer}
    /\ Addresses \in Nat \ {0} /\ Served \in 1 .. Addresses

VARIABLES dpc, count, r, sfd, open, watched, blocking, link

dialVars == <<dpc, count, r, sfd, open, watched, blocking, link>>
allVars  == <<vars, dialVars>>

Dial == INSTANCE ConnectTimeout WITH pc <- dpc

DemoInit == Init /\ Dial!Init

-----------------------------------------------------------------------------
\* A step of connect_with_timeout or of the network that the server does not see.
Unseen(A) ==
    /\ A
    /\ \A a \in Dial!Address : link'[a] = "up" <=> link[a] = "up"
    /\ UNCHANGED vars

\* The connection to the server is established.
Established(A) ==
    /\ A
    /\ link[Served] # "up" /\ link'[Served] = "up"
    /\ Connect(Dialer)

\* connect_with_timeout closes a connection that has come up too late.
Abandoned == Dial!GiveUp /\ link[r] = "up" /\ Leave(Dialer)

\* main: without a connection the program ends, otherwise it exchanges messages.
NoConnection ==
    /\ dpc = "returned" /\ sfd = -1 /\ cpc[Dialer] = "connect"
    /\ cpc' = [cpc EXCEPT ![Dialer] = "done"]
    /\ UNCHANGED <<server, network, sent, said, got, torn, dialVars>>

Exchange == dpc = "returned" /\ sfd # -1 /\ Talk(Dialer) /\ UNCHANGED dialVars

TcpClient ==
    \/ Unseen(Dial!Call) \/ Established(Dial!Connect) \/ Abandoned
    \/ NoConnection \/ Exchange

OtherClient == \E c \in Free : (Connect(c) \/ Talk(c)) /\ UNCHANGED dialVars

TcpServer == Server /\ UNCHANGED dialVars

\* The server's end of every connection that is cut learns of it in the end.
KeepaliveExpires == (\E c \in Client : Keepalive(c)) /\ UNCHANGED dialVars
ConnectionFails == (\E c \in Client : Cut(c) \/ Unanswered(c)) /\ UNCHANGED dialVars

Over ==
    /\ srv = "exit" /\ cpc[Dialer] = "done" /\ dpc = "returned"
    /\ \A c \in Free : cpc[c] \in {"connect", "done"}
    /\ UNCHANGED allVars

DemoNext ==
    \/ TcpClient
    \/ Unseen(Dial!Answer) \/ Established(Dial!Answer)
    \/ TcpServer \/ (Sigterm /\ UNCHANGED dialVars)
    \/ OtherClient
    \/ KeepaliveExpires \/ ConnectionFails
    \/ Over

\* The server process and the tcp_client are scheduled, and the timeouts of
\* epoll_wait and of the keepalive probes expire; the network, other clients and
\* signals owe nothing.
DemoSpec ==
    /\ DemoInit /\ [][DemoNext]_allVars
    /\ WF_allVars(TcpServer) /\ WF_allVars(TcpClient) /\ WF_allVars(KeepaliveExpires)

-----------------------------------------------------------------------------
\* connect_with_timeout returns a usable socket or -1, and leaks nothing.
UsableOrNone == Dial!UsableOrNone

\* The bytes of p are the first ones of s.
Begins(p, s) == Len(p) <= Len(s) /\ \A k \in 1 .. Len(p) : p[k] = s[k]

\* What a tcp_client prints, but for the "ECHO: " of the replies, is what it has
\* sent, in order and nothing else, from the first byte on.  It has printed all its
\* messages when it is done, unless the server was told to stop, the connection
\* failed, or some recv, its own or the server's, returned only part of what had
\* been sent: it reads once per message, not once per byte, and does not wait for
\* the rest.
AllReplied ==
    /\ Begins(got[Dialer], said[Dialer])
    /\ cpc[Dialer] = "done" /\ dpc = "returned" /\ sfd # -1
         /\ running /\ Dialer \notin torn
       => sent[Dialer] = MESSAGES /\ got[Dialer] = said[Dialer]

\* Client c's connection is not accepted because the process is out of descriptors.
Crowded(c) == c \in Range(backlog) /\ Full

\* Whoever closes a connection, also one that was given up before the server had
\* accepted it, and whichever connection fails, the server closes its end in the
\* end, so no descriptor is leaked; unless clients that never leave hold all
\* descriptors.
ClosesFollow == <>[](\A c \in fin \cup cut : c \in closed \/ Crowded(c))

\* The tcp_client finishes, whatever other clients do and however its bytes are
\* split, and has printed what AllReplied says.  Its recv has no timeout, so there
\* are two exceptions: the server never accepts it because others hold all its
\* descriptors, or the connection fails and the client is not told.
ClientFinishes ==
    /\ []AllReplied
    /\ <>[](\/ cpc[Dialer] = "done"
            \/ Crowded(Dialer)
            \/ Dialer \in cut /\ cpc[Dialer] = "recv")

\* After SIGTERM or SIGINT the server leaves its loop and exits, however busy
\* its clients keep it.
ShutdownHappens == ~running ~> srv = "exit"
=============================================================================
