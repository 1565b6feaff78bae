------------------------------- MODULE UdpEcho -------------------------------
(***************************************************************************)
(* 07_networking/udp_demo.c: a forked client sends datagrams to its parent *)
(* one at a time and waits for each echo; the server handles a fixed       *)
(* number of datagrams and then waits for the client.  Neither side has a  *)
(* timeout.  Datagrams may be lost, and since the server is bound to every *)
(* address, other processes may send to it; the client's socket is         *)
(* connected, so it only receives from the server.                         *)
(***************************************************************************)
EXTENDS Integers, Sequences

CONSTANTS N_MSGS,      \* datagrams of the demo (4)
          Strangers,   \* other senders; each sends one datagram
          Lossy        \* may the network lose datagrams?

ASSUME UdpEchoAssumption ==
    /\ N_MSGS \in Nat \ {0} /\ Lossy \in BOOLEAN /\ Strangers \cap {"client", "server"} = {}

VARIABLES srv, cli,       \* control points
          si, ci,         \* loop indices
          inbox,          \* datagrams [from, msg] at the server's socket
          cur,            \* the datagram the server is handling
          replies,        \* datagrams at the client's socket
          got,            \* history: echoes the client has read
          bound,          \* did the unchecked bind succeed?
          quiet,          \* strangers that have not sent yet
          disturbed       \* history: did bind or the server's recvfrom fail, was a
                          \* datagram lost, or a stranger's accepted?

vars == <<srv, cli, si, ci, inbox, cur, replies, got, bound, quiet, disturbed>>

Datagram(who, m) == [from |-> who, msg |-> m]
NoDatagram == Datagram("nobody", -1)
Foreign == -2              \* the text of a stranger's datagram

Init ==
    /\ srv = "fork" /\ cli = "none"
    /\ si = 0 /\ ci = 0
    /\ inbox = <<>> /\ cur = NoDatagram /\ replies = <<>> /\ got = <<>>
    /\ bound \in {TRUE, ~Lossy}
    /\ quiet = Strangers
    /\ disturbed = ~bound

-----------------------------------------------------------------------------
(* Wrong variants of definitions below, each the shape of a plausible bug. *)

\* The server counts from 1.
ServerLast_OffByOne == si + 2 >= N_MSGS

-----------------------------------------------------------------------------
ForkClient ==
    /\ srv = "fork"
    /\ \/ srv' = "recv" /\ cli' = "send"
       \/ srv' = "failed" /\ UNCHANGED cli
    /\ UNCHANGED <<si, ci, inbox, cur, replies, got, bound, quiet, disturbed>>

(* The client *)

AfterSend == "recv"

\* send; the datagram may be lost, and is if nobody is bound to the port.
ClientSend ==
    /\ cli = "send"
    /\ \/ bound /\ inbox' = Append(inbox, Datagram("client", ci)) /\ UNCHANGED disturbed
       \/ Lossy /\ disturbed' = TRUE /\ UNCHANGED inbox
    /\ cli' = AfterSend
    /\ UNCHANGED <<srv, si, ci, cur, replies, got, bound, quiet>>

ClientRecv ==
    /\ cli = "recv"
    /\ replies # <<>>
    /\ got' = Append(got, Head(replies).msg)
    /\ replies' = Tail(replies)
    /\ ci' = ci + 1
    /\ cli' = IF ci' = N_MSGS THEN "done" ELSE "send"
    /\ UNCHANGED <<srv, si, inbox, cur, bound, quiet, disturbed>>

\* recv fails with ECONNREFUSED if nobody is bound to the port: the client goes
\* on with its next datagram.
ClientRefused ==
    /\ cli = "recv"
    /\ replies = <<>> /\ ~bound
    /\ ci' = ci + 1
    /\ cli' = IF ci' = N_MSGS THEN "done" ELSE "send"
    /\ UNCHANGED <<srv, si, inbox, cur, replies, got, bound, quiet, disturbed>>

(* The server *)

ServerRecv ==
    /\ srv = "recv"
    /\ inbox # <<>>
    /\ cur' = Head(inbox)
    /\ inbox' = Tail(inbox)
    /\ disturbed' = (disturbed \/ cur'.from # "client")
    /\ srv' = "echo"
    /\ UNCHANGED <<cli, si, ci, replies, got, bound, quiet>>

\* recvfrom fails: the loop is left.
ServerError ==
    /\ srv = "recv" /\ Lossy
    /\ srv' = "wait"
    /\ disturbed' = TRUE
    /\ UNCHANGED <<cli, si, ci, inbox, cur, replies, got, bound, quiet>>

ServerLast == si + 1 = N_MSGS

\* sendto the peer; the echo may be lost.
ServerEcho ==
    /\ srv = "echo"
    /\ \/ /\ replies' = IF cur.from = "client" THEN Append(replies, cur) ELSE replies
          /\ UNCHANGED disturbed
       \/ Lossy /\ disturbed' = TRUE /\ UNCHANGED replies
    /\ cur' = NoDatagram
    /\ si' = si + 1
    /\ srv' = IF ServerLast THEN "wait" ELSE "recv"
    /\ UNCHANGED <<cli, ci, inbox, got, bound, quiet>>

WaitClient ==
    /\ srv = "wait" /\ cli = "done"
    /\ srv' = "done"
    /\ UNCHANGED <<cli, si, ci, inbox, cur, replies, got, bound, quiet, disturbed>>

(* Other processes *)

\* connect() on the client's socket restricts it to the server.
Accepts(who) == who = "server"

\* A stranger sends to the server, or to the client's port.
StrangerSends(x) ==
    /\ x \in quiet
    /\ quiet' = quiet \ {x}
    /\ \/ bound /\ inbox' = Append(inbox, Datagram(x, Foreign)) /\ UNCHANGED replies
       \/ /\ replies' = IF Accepts(x) THEN Append(replies, Datagram(x, Foreign)) ELSE replies
          /\ UNCHANGED inbox
    /\ UNCHANGED <<srv, cli, si, ci, cur, got, bound, disturbed>>

-----------------------------------------------------------------------------
Server == ServerRecv \/ ServerError \/ ServerEcho \/ WaitClient
Client == ClientSend \/ ClientRecv \/ ClientRefused

Next == ForkClient \/ Server \/ Client \/ (\E x \in Strangers : StrangerSends(x))

Spec == Init /\ [][Next]_vars

\* Both processes are scheduled.
FairSpec == Spec /\ WF_vars(ForkClient) /\ WF_vars(Server) /\ WF_vars(Client)

-----------------------------------------------------------------------------
\* The k-th echo the client prints is that of its k-th datagram, whatever is
\* lost and whoever else sends: at most one of its datagrams is under way.
EchoesMatch == got = [k \in 1 .. Len(got) |-> k - 1]

\* The demo completes unless bind or recvfrom fails, a datagram is lost or the
\* server accepts a stranger's, and the client prints its own echoes in order even
\* then.
Completes == []EchoesMatch /\ <>(srv \in {"done", "failed"} \/ disturbed)
=============================================================================
