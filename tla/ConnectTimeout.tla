---------------------------- MODULE ConnectTimeout ----------------------------
(***************************************************************************)
(* connect_with_timeout of 07_networking/tcp_client.c: try the addresses   *)
(* of a host in turn, each with a non-blocking connect that is given up    *)
(* after a timeout, which may race with the connection being established.  *)
(*                                                                         *)
(* pc: "epoll", "resolve", "socket", "connect", "poll" (in epoll_wait),    *)
(* "verdict", "giveup", "finish", "returned".                              *)
(***************************************************************************)
EXTENDS Integers, FiniteSets

CONSTANTS Addresses    \* how many addresses getaddrinfo returns at most

VARIABLES pc,
          count,       \* addresses getaddrinfo returned
          r,           \* index of the address being tried
          sfd,         \* the socket, named after its address; -1 if none
          open,        \* open descriptors: sockets and EPFD
          watched,     \* sockets in the epoll set
          blocking,    \* sockets in blocking mode
          link         \* state of the connection to each address

vars == <<pc, count, r, sfd, open, watched, blocking, link>>

Address == 1 .. Addresses
EPFD == 0

Init ==
    /\ pc = "epoll"
    /\ count = 0 /\ r = 1 /\ sfd = -1
    /\ open = {} /\ watched = {} /\ blocking = {}
    /\ link = [a \in Address |-> "idle"]

-----------------------------------------------------------------------------
(* Wrong variants of definitions below, each the shape of a plausible bug. *)

\* The socket stays non-blocking after a connect that took its time.
Restored_Not == blocking

\* epoll_wait without a timeout.
PollNothing_Never == FALSE

-----------------------------------------------------------------------------
EpollCreate ==
    /\ pc = "epoll"
    /\ \/ pc' = "resolve" /\ open' = {EPFD}
       \/ pc' = "returned" /\ UNCHANGED open
    /\ UNCHANGED <<count, r, sfd, watched, blocking, link>>

\* A failing getaddrinfo returns at once.
Resolve ==
    /\ pc = "resolve"
    /\ \/ pc' = "socket" /\ count' \in Address
       \/ pc' = "returned" /\ UNCHANGED count
    /\ UNCHANGED <<r, sfd, open, watched, blocking, link>>

More == r <= count

\* socket() and fcntl(O_NONBLOCK); if it fails the next address is tried.
Socket ==
    /\ pc = "socket" /\ More
    /\ \/ /\ pc' = "connect" /\ sfd' = r /\ open' = open \cup {r} /\ UNCHANGED r
       \/ /\ r' = r + 1 /\ sfd' = -1 /\ UNCHANGED <<pc, open>>
    /\ UNCHANGED <<count, watched, blocking, link>>

NoMoreAddresses ==
    /\ pc = "socket" /\ ~More
    /\ pc' = "finish"
    /\ UNCHANGED <<count, r, sfd, open, watched, blocking, link>>

Restored == blocking \cup {sfd}

\* connect succeeds at once, is under way, or fails at once.
Connect ==
    /\ pc = "connect"
    /\ \/ /\ link' = [link EXCEPT ![r] = "up"] /\ pc' = "finish"
          /\ blocking' = Restored /\ UNCHANGED watched
       \/ /\ link' = [link EXCEPT ![r] = "pending"] /\ pc' = "poll"
          /\ watched' = watched \cup {sfd} /\ UNCHANGED blocking
       \/ /\ pc' = "giveup" /\ UNCHANGED <<link, watched, blocking>>
    /\ UNCHANGED <<count, r, sfd, open>>

\* The network answers, at any time.
Answer ==
    /\ \E a \in Address : /\ link[a] = "pending"
                          /\ \E s \in {"up", "down"} : link' = [link EXCEPT ![a] = s]
    /\ UNCHANGED <<pc, count, r, sfd, open, watched, blocking>>

\* epoll_wait returns because of an answer, or with none: after the timeout or
\* because of a signal.
PollAnswer ==
    /\ pc = "poll" /\ link[r] \in {"up", "down"}
    /\ pc' = "verdict"
    /\ UNCHANGED <<count, r, sfd, open, watched, blocking, link>>

PollNothing ==
    /\ pc = "poll"
    /\ pc' = "giveup"
    /\ UNCHANGED <<count, r, sfd, open, watched, blocking, link>>

\* No EPOLLERR, and SO_ERROR is 0; then the code sets connected.
Succeeds == link[r] = "up"

Verdict ==
    /\ pc = "verdict"
    /\ \/ /\ Succeeds
          /\ blocking' = Restored /\ pc' = "finish"
       \/ /\ ~Succeeds
          /\ pc' = "giveup" /\ UNCHANGED blocking
    /\ UNCHANGED <<count, r, sfd, open, watched, link>>

Closed(S) == S \ {sfd}
AfterGiveUp == "socket"

\* close also takes the socket out of the epoll set and ends the connection.
GiveUp ==
    /\ pc = "giveup"
    /\ open' = Closed(open) /\ watched' = Closed(watched)
    /\ link' = [link EXCEPT ![r] = IF sfd \in open' THEN @ ELSE "idle"]
    /\ sfd' = -1 /\ r' = r + 1
    /\ pc' = AfterGiveUp
    /\ UNCHANGED <<count, blocking>>

Finish ==
    /\ pc = "finish"
    /\ open' = open \ {EPFD} /\ watched' = {}
    /\ pc' = "returned"
    /\ UNCHANGED <<count, r, sfd, blocking, link>>

Call ==
    \/ EpollCreate \/ Resolve \/ Socket \/ NoMoreAddresses \/ Connect
    \/ PollAnswer \/ PollNothing \/ Verdict \/ GiveUp \/ Finish

Next == Call \/ Answer

Spec == Init /\ [][Next]_vars

-----------------------------------------------------------------------------
\* What the caller gets is a connected socket in blocking mode, or -1 after every
\* address was tried.  Nothing but that socket stays open: sockets of addresses
\* that were given up, also those whose connection came up just after the
\* timeout, are closed.  (A failing getaddrinfo leaves the epoll descriptor.)
UsableOrNone ==
    pc = "returned" /\ count > 0 =>
        /\ open = {sfd} \ {-1}
        /\ IF sfd = -1 THEN r = count + 1 ELSE link[sfd] = "up" /\ sfd \in blocking
=============================================================================
