---------------------------- MODULE TcpDemoProofs ----------------------------
(***************************************************************************)
(* Proofs about 07_networking for any number of clients, descriptors,      *)
(* messages, events per epoll_wait and addresses: connect_with_timeout     *)
(* returns a usable socket or none, no event of a batch is stale when the  *)
(* server comes to it, a connection is closed for a reason, and a          *)
(* tcp_client reads what it sent, in order, and all of it unless its       *)
(* connection fails or a recv of its gets part of an echo.                 *)
(***************************************************************************)
EXTENDS TcpDemo, TLAPS

-----------------------------------------------------------------------------
(* The server *)

Byte == Nat \X Nat

Distinct(s) == \A j, k \in DOMAIN s : s[j] = s[k] => j = k

TypeInv ==
    /\ srv \in {"check", "wait", "handle", "shut", "exit"} /\ running \in BOOLEAN
    /\ limit \in Fd /\ conn \in [Fd -> Client \cup {None}]
    /\ backlog \in Seq(Client) /\ rdl \in Seq(Fd \cup {LISTEN})
    /\ batch \in Seq([fd : Fd \cup {LISTEN}, hup : BOOLEAN])
    /\ cpc \in [Client -> {"connect", "send", "recv", "close", "done"}]
    /\ sent \in [Client -> Nat]
    /\ c2s \in [Client -> Seq(Byte)] /\ s2c \in [Client -> Seq(Byte)]
    /\ said \in [Client -> Seq(Byte)] /\ got \in [Client -> Seq(Byte)]
    /\ fin \subseteq Client /\ closed \subseteq Client /\ cut \subseteq Client /\ told \subseteq cut

\* A connection is in one place: queued once or behind one descriptor.
OnePlace ==
    /\ Distinct(backlog)
    /\ \A f, g \in Fd : conn[f] = conn[g] /\ conn[f] # None => f = g
    /\ \A k \in DOMAIN backlog : \A f \in Fd : conn[f] # backlog[k]
    /\ \A c \in Client : cpc[c] = "connect" =>
          (\A k \in DOMAIN backlog : backlog[k] # c) /\ (\A f \in Fd : conn[f] # c)

\* No descriptor is listed or reported twice, and only the loop's body has events.
ListedOnce ==
    /\ Distinct(rdl)
    /\ \A j, k \in DOMAIN batch : batch[j].fd = batch[k].fd => j = k
    /\ srv # "handle" => batch = <<>>

-----------------------------------------------------------------------------
(* epoll's ready list *)

\* What may stand in the ready list.
Sock == Fd \cup {LISTEN}

\* Waking a descriptor lists it once.
LEMMA WakeList ==
    ASSUME NEW list \in Seq(Sock), Distinct(list), NEW f \in Sock
    PROVE  Wake(list, f) \in Seq(Sock) /\ Distinct(Wake(list, f))
  BY DEF Wake, Distinct, Range

\* So does waking the descriptor of a client, if there is one.
LEMMA WakeClientList ==
    ASSUME NEW list \in Seq(Sock), Distinct(list), NEW c
    PROVE  WakeClient(list, c) \in Seq(Sock) /\ Distinct(WakeClient(list, c))
<1>1. CASE FdOf(c) = {}  BY <1>1, Zenon DEF WakeClient
<1>2. CASE FdOf(c) # {}
  <2>1. PICK f : f = CHOOSE g \in FdOf(c) : TRUE  BY Zenon
  <2>2. f \in Sock  BY <1>2, <2>1, Zenon DEF FdOf, Sock
  <2> QED  BY <1>2, <2>1, <2>2, WakeList, Zenon DEF WakeClient
<1> QED  BY <1>1, <1>2, Zenon

\* What is picked from the ready list, in order, is a list of listed descriptors
\* without repetition.
LEMMA Picked ==
    ASSUME NEW list \in Seq(Sock), Distinct(list), NEW K \in SUBSET DOMAIN list, NEW at \in InOrder(K, list)
    PROVE  /\ [k \in DOMAIN at |-> list[at[k]]] \in Seq(Sock)
           /\ at \in [1 .. Len([k \in DOMAIN at |-> list[at[k]]]) -> K]
           /\ Distinct([k \in DOMAIN at |-> list[at[k]]])
<1>1. PICK n \in Nat : at \in [1 .. n -> K] /\ \A j, k \in 1 .. n : j < k => at[j] < at[k]
  BY DEF InOrder
<1>2. \A k \in 1 .. n : at[k] \in DOMAIN list /\ at[k] \in Int /\ list[at[k]] \in Sock  BY <1>1
<1>3. \A j, k \in 1 .. n : at[j] = at[k] => j = k  BY <1>1, <1>2
<1> DEFINE s == [k \in 1 .. n |-> list[at[k]]]
<1>4. s \in Seq(Sock) /\ Len(s) = n  BY <1>2
<1>5. Distinct(s)  BY <1>2, <1>3 DEF Distinct
<1>6. [k \in DOMAIN at |-> list[at[k]]] = s  BY <1>1, Zenon
<1> QED  BY <1>1, <1>4, <1>5, <1>6, Zenon

-----------------------------------------------------------------------------
(* No event is stale *)

EchoInv == TypeInv /\ OnePlace /\ ListedOnce /\ EventHolds

\* What EventHolds says of one event.
Current(e) ==
    /\ e.fd = LISTEN => backlog # <<>>
    /\ e.fd # LISTEN => /\ conn[e.fd] # None
                        /\ e.hup => Gone(conn[e.fd])
                        /\ ~e.hup => c2s[conn[e.fd]] # <<>>

\* EventHolds is that, for every event, before and after a step.
LEMMA EventForm ==
    /\ TypeInv => (EventHolds <=> \A k \in DOMAIN batch : Current(batch[k]))
    /\ TypeInv' => (EventHolds' <=> \A k \in DOMAIN batch' : Current(batch[k])')
<1>1. ASSUME TypeInv PROVE EventHolds <=> \A k \in DOMAIN batch : Current(batch[k])
  BY <1>1, Zenon DEF TypeInv, EventHolds, Current
<1>2. ASSUME TypeInv' PROVE EventHolds' <=> \A k \in DOMAIN batch' : Current(batch[k])'
  BY <1>2, Zenon DEF TypeInv, EventHolds, Current
<1> QED  BY <1>1, <1>2, Zenon

\* The server starts with nothing to handle.
LEMMA InitEchoInv == Init => EchoInv
<1> SUFFICES ASSUME Init PROVE EchoInv  BY Zenon
<1> USE TcpEchoAssumption DEF Init
<1>1. TypeInv  BY DEF TypeInv, Client, Fd
<1>2. OnePlace  BY DEF OnePlace, Distinct, Client
<1>3. ListedOnce  BY DEF ListedOnce, Distinct
<1>4. EventHolds  BY DEF EventHolds
<1> QED  BY <1>1, <1>2, <1>3, <1>4, Zenon DEF EchoInv

\* The loop's condition and its end touch neither events nor connections.
LEMMA LoopEchoInv ==
    ASSUME EchoInv, Check \/ BatchDone \/ Sigterm
    PROVE  EchoInv'
<1> USE DEF Check, BatchDone, Sigterm, EchoInv, network, clients
<1>1. TypeInv'  BY Zenon DEF TypeInv
<1>2. OnePlace'  BY Zenon DEF OnePlace, Distinct
<1>3. ListedOnce'  BY Zenon DEF ListedOnce, Distinct
<1>4. EventHolds'  BY Zenon DEF EventHolds, Gone
<1> QED  BY <1>1, <1>2, <1>3, <1>4, Zenon

\* epoll_wait reports what is true, and every descriptor once.
LEMMA EpollWaitEchoInv ==
    ASSUME EchoInv, EpollWait
    PROVE  EchoInv'
<1> USE TcpEchoAssumption
<1>1. TypeInv /\ OnePlace /\ ListedOnce  BY Zenon DEF EchoInv
<1> DEFINE K == {k \in DOMAIN rdl : Ready(rdl[k])}
<1>2. PICK at \in InOrder(K, rdl) :
         LET ready == [k \in DOMAIN at |-> rdl[at[k]]]
             n     == Len(ready)
             m     == IF n < MAX_EVENTS THEN n ELSE MAX_EVENTS
         IN  /\ batch' = [k \in 1 .. m |-> [fd |-> ready[k], hup |-> Hup(ready[k])]]
             /\ rdl' = [k \in 1 .. n |-> ready[IF k <= n - m THEN m + k ELSE k - (n - m)]]
  BY Zenon DEF EpollWait
<1>3. rdl \in Seq(Sock) /\ Distinct(rdl)  BY <1>1, Zenon DEF TypeInv, ListedOnce, Sock
<1>4. K \in SUBSET DOMAIN rdl /\ \A k \in K : Ready(rdl[k])  BY Zenon
<1> DEFINE ready == [k \in DOMAIN at |-> rdl[at[k]]]
           n == Len(ready)
           m == IF n < MAX_EVENTS THEN n ELSE MAX_EVENTS
<1>5. at \in [1 .. n -> K] /\ ready \in Seq(Sock) /\ Distinct(ready) /\ n \in Nat
  BY <1>3, <1>4, Picked
<1>6. \A k \in 1 .. n : Ready(ready[k])  BY <1>4, <1>5, Zenon
<1>7. batch' = [k \in 1 .. m |-> [fd |-> ready[k], hup |-> Hup(ready[k])]]  BY <1>2, Zenon
<1>8. rdl' = [k \in 1 .. n |-> ready[IF k <= n - m THEN m + k ELSE k - (n - m)]]  BY <1>2, Zenon
<1>9. DOMAIN ready = 1 .. n /\ \A k \in 1 .. n : ready[k] \in Sock  BY <1>5
<1> HIDE DEF K, ready, n
<1>10. m \in 0 .. n  BY <1>5
<1> HIDE DEF m
<1>11. batch' \in Seq([fd : Sock, hup : BOOLEAN])
  <2>1. \A k \in 1 .. n : Hup(ready[k]) \in BOOLEAN  BY Zenon DEF Hup
  <2>2. \A k \in 1 .. m : [fd |-> ready[k], hup |-> Hup(ready[k])] \in [fd : Sock, hup : BOOLEAN]
    BY <1>5, <1>9, <1>10, <2>1
  <2> QED  BY <1>7, <1>10, <2>2, <1>5
<1>12. rdl' \in Seq(Sock) /\ Distinct(rdl')
  <2>1. \A k \in 1 .. n : (IF k <= n - m THEN m + k ELSE k - (n - m)) \in 1 .. n  BY <1>5, <1>10
  <2>2. rdl' \in Seq(Sock)  BY <1>5, <1>8, <1>9, <2>1
  <2> DEFINE turn(k) == IF k <= n - m THEN m + k ELSE k - (n - m)
  <2>3. \A j, k \in 1 .. n : turn(j) = turn(k) => j = k  BY <1>5, <1>10
  <2>4. \A k \in 1 .. n : turn(k) \in 1 .. n /\ rdl'[k] = ready[turn(k)]  BY <1>8, <2>1, Zenon
  <2> HIDE DEF turn
  <2>5. \A j, k \in 1 .. n : rdl'[j] = rdl'[k] => j = k
    BY <1>5, <1>9, <2>3, <2>4 DEF Distinct
  <2> QED  BY <1>8, <2>2, <2>5, Zenon DEF Distinct
<1>13. srv' = "handle" /\ UNCHANGED <<running, limit, conn, backlog, c2s, s2c, fin, closed, cut, told, cpc, sent, said, got>>
  BY Zenon DEF EpollWait, clients
<1>14. TypeInv'  BY <1>1, <1>11, <1>12, <1>13, Zenon DEF TypeInv, Sock
<1>15. OnePlace'  BY <1>1, <1>13, Zenon DEF OnePlace, Distinct
<1>16. ListedOnce'
  <2>1. DOMAIN batch' = 1 .. m /\ \A k \in 1 .. m : batch'[k].fd = ready[k]  BY <1>7, Zenon
  <2>2. 1 .. m \subseteq 1 .. n  BY <1>5, <1>10
  <2>3. \A j, k \in 1 .. m : batch'[j].fd = batch'[k].fd => j = k
    BY <1>5, <1>9, <2>1, <2>2, Zenon DEF Distinct
  <2> QED  BY <1>12, <1>13, <2>1, <2>3, Zenon DEF ListedOnce
<1>17. \A k \in DOMAIN batch' : Current(batch[k])'
  <2> TAKE k \in DOMAIN batch'
  <2>1. k \in 1 .. n /\ batch'[k].fd = ready[k] /\ batch'[k].hup = Hup(ready[k])  BY <1>5, <1>7, <1>10
  <2>2. Ready(ready[k])  BY <1>6, <2>1, Zenon
  <2> QED  BY <1>13, <2>1, <2>2, Zenon DEF Current, Ready, Hup, Gone
<1> QED  BY <1>14, <1>15, <1>16, <1>17, EventForm, Zenon DEF EchoInv

\* A member of a sequence.
LEMMA Member ==
    ASSUME NEW S, NEW s \in Seq(S), NEW k \in DOMAIN s
    PROVE  s[k] \in S
  OBVIOUS

\* What an assignment to one element of a function does.
LEMMA Put ==
    ASSUME NEW A, NEW T, NEW g \in [A -> T], NEW x \in A, NEW v \in T
    PROVE  /\ [g EXCEPT ![x] = v] \in [A -> T] /\ [g EXCEPT ![x] = v][x] = v
           /\ \A y \in A \ {x} : [g EXCEPT ![x] = v][y] = g[y]
  BY Zenon

\* The two parts of a sequence that recv cuts.
LEMMA Parts ==
    ASSUME NEW S, NEW s \in Seq(S), NEW k \in 0 .. Len(s)
    PROVE  /\ SubSeq(s, 1, k) \in Seq(S) /\ SubSeq(s, k + 1, Len(s)) \in Seq(S)
           /\ SubSeq(s, 1, k) \o SubSeq(s, k + 1, Len(s)) = s
           /\ k = Len(s) => SubSeq(s, 1, k) = s /\ SubSeq(s, k + 1, Len(s)) = <<>>
<1> DEFINE p == SubSeq(s, 1, k)
           q == SubSeq(s, k + 1, Len(s))
<1>1. p = [j \in 1 .. k |-> s[j]]  OBVIOUS
<1>2. q = [j \in 1 .. Len(s) - k |-> s[j + k]]  OBVIOUS
<1>3. k \in Nat /\ Len(s) \in Nat /\ Len(s) - k \in Nat  OBVIOUS
<1>4. p \in Seq(S) /\ Len(p) = k /\ \A j \in 1 .. k : p[j] = s[j]
  <2>1. \A j \in 1 .. k : s[j] \in S  OBVIOUS
  <2> QED  BY <1>1, <1>3, <2>1
<1>5. q \in Seq(S) /\ Len(q) = Len(s) - k /\ \A j \in 1 .. Len(s) - k : q[j] = s[j + k]
  <2>1. \A j \in 1 .. Len(s) - k : s[j + k] \in S  OBVIOUS
  <2> QED  BY <1>2, <1>3, <2>1
<1>6. k = Len(s) => p = s /\ q = <<>>  BY <1>1, <1>2
<1> HIDE DEF p, q
<1>7. p \o q = s
  <2> DEFINE t == p \o q
  <2>1. p \o q \in Seq(S) /\ Len(p \o q) = Len(s)  BY <1>3, <1>4, <1>5
  <2>2. \A j \in 1 .. Len(s) : (p \o q)[j] = s[j]
    <3>1. \A j \in 1 .. k : (p \o q)[j] = s[j]  BY <1>3, <1>4, <1>5
    <3>2. \A j \in 1 .. Len(s) : j > k => j - k \in 1 .. Len(s) - k /\ (p \o q)[j] = q[j - k] /\ (j - k) + k = j
      BY <1>3, <1>4, <1>5
    <3>3. \A j \in 1 .. Len(s) : j > k \/ j \in 1 .. k  BY <1>3
    <3> QED  BY <1>5, <3>1, <3>2, <3>3, Zenon
  <2>3. t \in Seq(S) /\ Len(t) = Len(s) /\ \A j \in 1 .. Len(s) : t[j] = s[j]  BY <2>1, <2>2, Zenon
  <2> HIDE DEF t
  <2>4. t = s  BY <2>3
  <2> QED  BY <2>4, Zenon DEF t
<1> QED  BY <1>4, <1>5, <1>6, <1>7 DEF p, q

\* The two ways of joining three sequences agree.
Regroups(a, b, c) == (a \o b) \o c = a \o (b \o c)

\* Joining regroups any three sequences.
LEMMA Assoc ==
    ASSUME NEW S, NEW a \in Seq(S), NEW b \in Seq(S), NEW c \in Seq(S)
    PROVE  Regroups(a, b, c)
<1> DEFINE x == (a \o b) \o c
           y == a \o (b \o c)
<1>1. x \in Seq(S) /\ y \in Seq(S) /\ Len(x) = Len(a) + Len(b) + Len(c) /\ Len(y) = Len(x)  OBVIOUS
<1>2. \A k \in 1 .. Len(x) : x[k] = y[k]  OBVIOUS
<1> HIDE DEF x, y
<1>3. x = y  BY <1>1, <1>2
<1> QED  BY <1>3, Zenon DEF x, y, Regroups

\* Joining two sequences of bytes yields one.
LEMMA Joined ==
    ASSUME NEW S, NEW a \in Seq(S), NEW b \in Seq(S)
    PROVE  a \o b \in Seq(S)
  OBVIOUS

\* Joining nothing changes nothing: what is left of a message when all was sent.
LEMMA NothingJoined ==
    ASSUME NEW S, NEW a \in Seq(S)
    PROVE  a \o <<>> = a
  OBVIOUS

\* What a recv takes comes first in the stream it took it from.
LEMMA BeginsJoined ==
    ASSUME NEW S, NEW a \in Seq(S), NEW b \in Seq(S)
    PROVE  Begins(a, a \o b)
  BY DEF Begins

\* What begins with more begins with less.
LEMMA BeginsShorter ==
    ASSUME NEW S, NEW a \in Seq(S), NEW b \in Seq(S), NEW s \in Seq(S), Begins(a \o b, s)
    PROVE  Begins(a, s)
  BY DEF Begins

\* A stream still begins with what it began with when a send adds to it.
LEMMA BeginsLonger ==
    ASSUME NEW S, NEW a \in Seq(S), NEW b \in Seq(S), NEW s \in Seq(S), Begins(a, s)
    PROVE  Begins(a, s \o b)
  BY DEF Begins

\* A message is a sequence of bytes with at least one.
LEMMA MessageBytes ==
    ASSUME NEW c \in Client, sent[c] \in Nat
    PROVE  Message(c) \in Seq(Byte) /\ Message(c) # <<>>
<1> DEFINE n == IF c \in Lockstep THEN WIDTH ELSE 1
<1>1. n \in Nat \ {0}  BY TcpEchoAssumption
<1>2. Message(c) = [k \in 1 .. n |-> <<sent[c], k>>]  BY Zenon DEF Message
<1> HIDE DEF n
<1>3. \A k \in 1 .. n : <<sent[c], k>> \in Byte  BY <1>1 DEF Byte
<1>4. Message(c) \in Seq(Byte) /\ Len(Message(c)) = n  BY <1>1, <1>2, <1>3
<1> QED  BY <1>1, <1>4

\* The event in turn is current, and the ones behind it are of other descriptors.
LEMMA EventStep ==
    ASSUME EchoInv, NEW f \in Sock, Event(f)
    PROVE  /\ srv = "handle" /\ batch[1].fd = f /\ Current(batch[1]) /\ batch[1].hup \in BOOLEAN
           /\ batch' \in Seq([fd : Sock, hup : BOOLEAN])
           /\ \A j, k \in DOMAIN batch' : batch'[j].fd = batch'[k].fd => j = k
           /\ \A k \in DOMAIN batch' : /\ batch'[k].fd \in Sock /\ batch'[k].fd # f
                                       /\ \E j \in DOMAIN batch : batch'[k] = batch[j] /\ Current(batch[j])
<1>1. TypeInv /\ ListedOnce /\ \A k \in DOMAIN batch : Current(batch[k])  BY EventForm, Zenon DEF EchoInv
<1>2. batch \in Seq([fd : Sock, hup : BOOLEAN]) /\ batch # <<>>  BY <1>1, Zenon DEF TypeInv, Sock, Event
<1>3. srv = "handle" /\ batch[1].fd = f /\ batch' = Tail(batch)  BY Zenon DEF Event, Rest
<1>4. Len(batch) \in Nat \ {0} /\ DOMAIN batch = 1 .. Len(batch)  BY <1>2
<1>5. 1 \in DOMAIN batch  BY <1>4
<1>6. Current(batch[1]) /\ batch[1].hup \in BOOLEAN
  <2>1. batch[1] \in [fd : Sock, hup : BOOLEAN]  BY <1>2, <1>5, Member, Zenon
  <2> QED  BY <1>1, <1>5, <2>1, Zenon
<1>7. batch' \in Seq([fd : Sock, hup : BOOLEAN]) /\ DOMAIN batch' = 1 .. Len(batch) - 1  BY <1>2, <1>3
<1>8. \A k \in DOMAIN batch' : k \in Int /\ k + 1 \in DOMAIN batch /\ batch'[k] = batch[k + 1]  BY <1>2, <1>3, <1>4, <1>7
<1>9. \A j, k \in DOMAIN batch : batch[j].fd = batch[k].fd => j = k  BY <1>1, Zenon DEF ListedOnce
<1>10. \A j, k \in DOMAIN batch' : batch'[j].fd = batch'[k].fd => j = k  BY <1>8, <1>9
<1>11. \A k \in DOMAIN batch' : batch'[k].fd # f  BY <1>3, <1>5, <1>7, <1>8, <1>9
<1>12. \A k \in DOMAIN batch' : batch'[k].fd \in Sock
  <2>1. \A k \in DOMAIN batch' : batch'[k] \in [fd : Sock, hup : BOOLEAN]  BY <1>7, Member, Zenon
  <2> QED  BY <2>1, Zenon
<1>13. \A k \in DOMAIN batch' : \E j \in DOMAIN batch : batch'[k] = batch[j] /\ Current(batch[j])
  BY <1>1, <1>8, Zenon
<1> QED  BY <1>3, <1>6, <1>7, <1>10, <1>11, <1>12, <1>13, Zenon

\* accept4 takes a queued connection to a descriptor that no event names.
LEMMA NewConnectionEchoInv ==
    ASSUME EchoInv, NewConnection
    PROVE  EchoInv'
<1>1. TypeInv /\ OnePlace /\ ListedOnce  BY Zenon DEF EchoInv
<1>2. Event(LISTEN) /\ LISTEN \in Sock  BY Zenon DEF NewConnection, Sock
<1> DEFINE Later == \A k \in DOMAIN batch' :
                       /\ batch'[k].fd \in Sock /\ batch'[k].fd # LISTEN
                       /\ \E j \in DOMAIN batch : batch'[k] = batch[j] /\ Current(batch[j])
<1>3. /\ srv = "handle" /\ batch[1].fd = LISTEN /\ Current(batch[1])
      /\ batch' \in Seq([fd : Sock, hup : BOOLEAN])
      /\ \A j, k \in DOMAIN batch' : batch'[j].fd = batch'[k].fd => j = k
      /\ Later
  BY <1>2, EventStep, Zenon
<1>4. UNCHANGED <<srv, running, limit, c2s, s2c, fin, closed, cut, told, cpc, sent, said, got>>
  BY Zenon DEF NewConnection, clients
<1>5. CASE UNCHANGED <<backlog, conn, rdl>>
  <2>1. TypeInv'  BY <1>1, <1>3, <1>4, <1>5, Zenon DEF TypeInv, Sock
  <2>2. OnePlace'  BY <1>1, <1>4, <1>5, Zenon DEF OnePlace, Distinct
  <2>3. ListedOnce'  BY <1>1, <1>3, <1>4, <1>5, Zenon DEF ListedOnce
  <2>4. \A k \in DOMAIN batch' : Current(batch[k])'  BY <1>3, <1>4, <1>5, Zenon DEF Current, Gone
  <2> QED  BY <2>1, <2>2, <2>3, <2>4, EventForm, Zenon DEF EchoInv
<1>6. ASSUME NEW f \in 1 .. limit, LowestFree(f), backlog' = Tail(backlog),
             conn' = [conn EXCEPT ![f] = Head(backlog)], rdl' = Registered(rdl, f)
      PROVE  EchoInv'
  <2>1. f \in Fd /\ f \in Sock /\ conn[f] = None  BY <1>1, <1>6, TcpEchoAssumption DEF TypeInv, Fd, Sock, LowestFree
  <2>2. backlog \in Seq(Client) /\ backlog # <<>>  BY <1>1, <1>3, Zenon DEF Current, TypeInv
  <2>3. Head(backlog) \in Client /\ Head(backlog) = backlog[1] /\ 1 \in DOMAIN backlog  BY <2>2
  <2>4. /\ backlog' \in Seq(Client)
        /\ \A k \in DOMAIN backlog' : k \in Int /\ k # 0 /\ k + 1 \in DOMAIN backlog /\ backlog'[k] = backlog[k + 1]
    BY <1>6, <2>2
  <2>5. rdl' \in Seq(Sock) /\ Distinct(rdl')
    BY <1>1, <1>6, <2>1, WakeList, Zenon DEF Registered, TypeInv, ListedOnce, Sock
  <2>6. /\ conn' \in [Fd -> Client \cup {None}] /\ conn'[f] = backlog[1]
        /\ \A g \in Fd \ {f} : conn'[g] = conn[g]
    BY <1>1, <1>6, <2>1, <2>3, Zenon DEF TypeInv
  <2>7. TypeInv'  BY <1>1, <1>3, <1>4, <2>4, <2>5, <2>6, Zenon DEF TypeInv, Sock
  <2>8. OnePlace'
    <3>1. Distinct(backlog)'  BY <1>1, <2>4 DEF OnePlace, Distinct
    <3>2. \A k \in DOMAIN backlog : \A g \in Fd : conn[g] # backlog[k]  BY <1>1, Zenon DEF OnePlace
    <3>3. \A g, h \in Fd : conn'[g] = conn'[h] /\ conn'[g] # None => g = h
      BY <1>1, <2>3, <2>6, <3>2 DEF OnePlace
    <3>4. \A k \in DOMAIN backlog' : \A g \in Fd : conn'[g] # backlog'[k]
      <4>1. \A k \in DOMAIN backlog' : backlog'[k] # backlog[1]  BY <1>1, <2>3, <2>4 DEF OnePlace, Distinct
      <4> QED  BY <2>4, <2>6, <3>2, <4>1, SMTT(30)
    <3>5. ASSUME NEW c \in Client, cpc'[c] = "connect"
          PROVE  (\A k \in DOMAIN backlog' : backlog'[k] # c) /\ (\A g \in Fd : conn'[g] # c)
      <4>1. (\A k \in DOMAIN backlog : backlog[k] # c) /\ (\A g \in Fd : conn[g] # c)
        BY <1>1, <1>4, <3>5, Zenon DEF OnePlace
      <4> QED  BY <2>3, <2>4, <2>6, <4>1, ZenonT(40)
    <3> QED  BY <3>1, <3>3, <3>4, <3>5, Zenon DEF OnePlace
  <2>9. ListedOnce'  BY <1>3, <1>4, <2>5, Zenon DEF ListedOnce
  <2>10. ASSUME NEW k \in DOMAIN batch' PROVE Current(batch[k])'
    <3>1. PICK j \in DOMAIN batch : batch'[k] = batch[j] /\ Current(batch[j])  BY <1>3, Zenon
    <3>2. batch'[k].fd # LISTEN /\ batch'[k].fd \in Fd  BY <1>3, Zenon DEF Sock
    <3>3. batch'[k].fd # f  BY <2>1, <3>1, <3>2, Zenon DEF Current
    <3> QED  BY <1>4, <2>6, <3>1, <3>2, <3>3, Zenon DEF Current, Gone
  <2> QED  BY <2>7, <2>8, <2>9, <2>10, EventForm, Zenon DEF EchoInv
<1> QED  BY <1>5, <1>6, Zenon DEF NewConnection

\* Closing a descriptor leaves the other events' connections alone.
LEMMA PeerClosedEchoInv ==
    ASSUME EchoInv, NEW f \in Fd, PeerClosed(f)
    PROVE  EchoInv' /\ conn[f] \in Client /\ Gone(conn[f])
<1>1. TypeInv /\ OnePlace /\ ListedOnce  BY Zenon DEF EchoInv
<1>2. Event(f) /\ f \in Sock /\ f # LISTEN /\ batch[1].hup  BY DEF PeerClosed, IsHup, Sock, Fd, LISTEN
<1> DEFINE Later == \A k \in DOMAIN batch' :
                       /\ batch'[k].fd \in Sock /\ batch'[k].fd # f
                       /\ \E j \in DOMAIN batch : batch'[k] = batch[j] /\ Current(batch[j])
<1>3. /\ srv = "handle" /\ batch[1].fd = f /\ Current(batch[1])
      /\ batch' \in Seq([fd : Sock, hup : BOOLEAN])
      /\ \A j, k \in DOMAIN batch' : batch'[j].fd = batch'[k].fd => j = k
      /\ Later
  BY <1>2, EventStep, Zenon
<1>4. Gone(conn[f]) /\ conn[f] # None  BY <1>2, <1>3, Zenon DEF Current
<1>5. conn[f] \in Client  BY <1>1, <1>4, Zenon DEF TypeInv
<1>6. UNCHANGED <<srv, running, limit, backlog, fin, cut, told, cpc, sent, said, got>>
  BY Zenon DEF PeerClosed, Disconnect, clients
<1>7. /\ conn' \in [Fd -> Client \cup {None}] /\ conn'[f] = None
      /\ \A g \in Fd \ {f} : conn'[g] = conn[g]
  BY <1>1, Zenon DEF PeerClosed, Disconnect, TypeInv
<1>8. closed' \subseteq Client  BY <1>1, <1>5, Zenon DEF PeerClosed, Disconnect, TypeInv
<1>9. /\ s2c' \in [Client -> Seq(Byte)] /\ c2s' \in [Client -> Seq(Byte)]
      /\ \A d \in Client \ {conn[f]} : c2s'[d] = c2s[d]
  <2>1. /\ s2c' = s2c \/ s2c' = [s2c EXCEPT ![conn[f]] = <<>>]
        /\ c2s' = [c2s EXCEPT ![conn[f]] = <<>>]
    BY Zenon DEF PeerClosed, Disconnect
  <2>2. c2s \in [Client -> Seq(Byte)] /\ s2c \in [Client -> Seq(Byte)]  BY <1>1, Zenon DEF TypeInv
  <2>3. <<>> \in Seq(Byte)  OBVIOUS
  <2>4. c2s' \in [Client -> Seq(Byte)] /\ \A d \in Client \ {conn[f]} : c2s'[d] = c2s[d]
    BY <1>5, <2>1, <2>2, <2>3, Put, Zenon
  <2>5. [s2c EXCEPT ![conn[f]] = <<>>] \in [Client -> Seq(Byte)]  BY <1>5, <2>2, <2>3, Put, Zenon
  <2> QED  BY <2>1, <2>2, <2>4, <2>5, Zenon
<1>10. rdl' \in Seq(Sock) /\ Distinct(rdl')
  <2> DEFINE K == {k \in DOMAIN rdl : rdl[k] # f}
  <2>1. PICK at \in InOrder(K, rdl) : rdl' = [k \in DOMAIN at |-> rdl[at[k]]]  BY Zenon DEF PeerClosed, Disconnect
  <2>2. K \in SUBSET DOMAIN rdl /\ rdl \in Seq(Sock) /\ Distinct(rdl)  BY <1>1, Zenon DEF TypeInv, Sock, ListedOnce
  <2> HIDE DEF K
  <2> QED  BY <2>1, <2>2, Picked
<1>11. TypeInv'  BY <1>1, <1>3, <1>6, <1>7, <1>8, <1>9, <1>10, Zenon DEF TypeInv, Sock
<1>12. OnePlace'
  <2>1. Distinct(backlog)'  BY <1>1, <1>6, Zenon DEF OnePlace, Distinct
  <2>2. \A g, h \in Fd : conn'[g] = conn'[h] /\ conn'[g] # None => g = h  BY <1>1, <1>7, ZenonT(40) DEF OnePlace
  <2>3. \A g \in Fd : conn'[g] = conn[g] \/ conn'[g] = None  BY <1>7, Zenon
  <2>4. backlog' \in Seq(Client) /\ \A k \in DOMAIN backlog' : backlog'[k] # None
    BY <1>11, TcpEchoAssumption DEF TypeInv, Client
  <2>5. \A c \in Client : c # None  BY TcpEchoAssumption, Zenon DEF Client
  <2> QED  BY <1>1, <1>6, <2>1, <2>2, <2>3, <2>4, <2>5, ZenonT(40) DEF OnePlace
<1>13. ListedOnce'  BY <1>3, <1>6, <1>10, Zenon DEF ListedOnce
<1>14. ASSUME NEW k \in DOMAIN batch' PROVE Current(batch[k])'
  <2>1. PICK j \in DOMAIN batch : batch'[k] = batch[j] /\ Current(batch[j])  BY <1>3, Zenon
  <2>2. CASE batch'[k].fd = LISTEN  BY <1>6, <2>1, <2>2, Zenon DEF Current
  <2>3. CASE batch'[k].fd # LISTEN
    <3>1. batch'[k].fd # f /\ batch'[k].fd \in Fd  BY <1>3, <2>3, Zenon DEF Sock
    <3>2. conn[batch'[k].fd] # None /\ conn[batch'[k].fd] \in Client  BY <1>1, <2>1, <2>3, <3>1, Zenon DEF Current, TypeInv
    <3>3. conn[batch'[k].fd] # conn[f]  BY <1>1, <3>1, <3>2, Zenon DEF OnePlace
    <3>4. conn'[batch'[k].fd] = conn[batch'[k].fd]  BY <1>7, <3>1, Zenon
    <3>5. c2s'[conn[batch'[k].fd]] = c2s[conn[batch'[k].fd]]  BY <1>9, <3>2, <3>3, Zenon
    <3> QED  BY <1>6, <2>1, <2>3, <3>2, <3>4, <3>5, Zenon DEF Current, Gone
  <2> QED  BY <2>2, <2>3, Zenon
<1> QED  BY <1>4, <1>5, <1>11, <1>12, <1>13, <1>14, EventForm, Zenon DEF EchoInv

\* Reading one connection's data leaves what other events report.
LEMMA ReplyEchoInv ==
    ASSUME EchoInv, NEW f \in Fd, Reply(f)
    PROVE  EchoInv' /\ conn[f] \in Client
<1>1. TypeInv /\ OnePlace /\ ListedOnce  BY Zenon DEF EchoInv
<1>2. Event(f) /\ f \in Sock /\ f # LISTEN  BY DEF Reply, Sock, Fd, LISTEN
<1> DEFINE Later == \A k \in DOMAIN batch' :
                       /\ batch'[k].fd \in Sock /\ batch'[k].fd # f
                       /\ \E j \in DOMAIN batch : batch'[k] = batch[j] /\ Current(batch[j])
<1>3. /\ srv = "handle" /\ batch[1].fd = f /\ Current(batch[1])
      /\ batch' \in Seq([fd : Sock, hup : BOOLEAN])
      /\ \A j, k \in DOMAIN batch' : batch'[j].fd = batch'[k].fd => j = k
      /\ Later
  BY <1>2, EventStep, Zenon
<1>4. conn[f] # None  BY <1>2, <1>3, Zenon DEF Current
<1>5. conn[f] \in Client  BY <1>1, <1>4, Zenon DEF TypeInv
<1>6. UNCHANGED <<srv, running, limit, conn, backlog, rdl, fin, closed, cut, told, cpc, sent, said, got>>
  BY Zenon DEF Reply, clients
<1>7. PICK k \in 1 .. Len(c2s[conn[f]]) :
         /\ c2s' = [c2s EXCEPT ![conn[f]] = SubSeq(@, k + 1, Len(@))]
         /\ s2c' = IF conn[f] \in Free \cup fin \cup cut THEN s2c
                   ELSE [s2c EXCEPT ![conn[f]] = @ \o Echo(SubSeq(c2s[conn[f]], 1, k))]
  BY Zenon DEF Reply
<1>8. c2s[conn[f]] \in Seq(Byte) /\ s2c[conn[f]] \in Seq(Byte)  BY <1>1, <1>5, Zenon DEF TypeInv
<1>9. SubSeq(c2s[conn[f]], k + 1, Len(c2s[conn[f]])) \in Seq(Byte) /\ SubSeq(c2s[conn[f]], 1, k) \in Seq(Byte)
  <2>1. k \in 0 .. Len(c2s[conn[f]])  BY <1>7, <1>8
  <2> QED  BY <1>8, <2>1, Parts, Zenon
<1>10. /\ c2s' \in [Client -> Seq(Byte)] /\ s2c' \in [Client -> Seq(Byte)]
       /\ \A c \in Client \ {conn[f]} : c2s'[c] = c2s[c]
  <2>1. c2s \in [Client -> Seq(Byte)] /\ s2c \in [Client -> Seq(Byte)]  BY <1>1, Zenon DEF TypeInv
  <2>3. s2c[conn[f]] \o Echo(SubSeq(c2s[conn[f]], 1, k)) \in Seq(Byte)  BY <1>8, <1>9, Joined, Zenon DEF Echo
  <2> QED  BY <1>5, <1>7, <1>9, <2>1, <2>3, Put, Zenon
<1>11. TypeInv'  BY <1>1, <1>3, <1>6, <1>10, Zenon DEF TypeInv, Sock
<1>12. OnePlace'  BY <1>1, <1>6, Zenon DEF OnePlace, Distinct
<1>13. ListedOnce'  BY <1>1, <1>3, <1>6, Zenon DEF ListedOnce
<1>14. ASSUME NEW i \in DOMAIN batch' PROVE Current(batch[i])'
  <2>1. PICK j \in DOMAIN batch : batch'[i] = batch[j] /\ Current(batch[j])  BY <1>3, Zenon
  <2>2. CASE batch'[i].fd = LISTEN  BY <1>6, <2>1, <2>2, Zenon DEF Current
  <2>3. CASE batch'[i].fd # LISTEN
    <3>1. batch'[i].fd # f /\ batch'[i].fd \in Fd  BY <1>3, <2>3, Zenon DEF Sock
    <3>2. conn[batch'[i].fd] # None /\ conn[batch'[i].fd] \in Client  BY <1>1, <2>1, <2>3, <3>1, Zenon DEF Current, TypeInv
    <3>3. conn[batch'[i].fd] # conn[f]  BY <1>1, <3>1, <3>2, Zenon DEF OnePlace
    <3> QED  BY <1>6, <1>10, <2>1, <2>3, <3>2, <3>3, Zenon DEF Current, Gone
  <2> QED  BY <2>2, <2>3, Zenon
<1> QED  BY <1>5, <1>11, <1>12, <1>13, <1>14, EventForm, Zenon DEF EchoInv

\* When everything is closed no event is left.
LEMMA ShutdownEchoInv ==
    ASSUME EchoInv, Shutdown
    PROVE  EchoInv'
<1>1. TypeInv /\ ListedOnce  BY Zenon DEF EchoInv
<1>2. /\ srv = "shut" /\ srv' = "exit" /\ conn' = [f \in Fd |-> None] /\ backlog' = <<>> /\ rdl' = <<>>
      /\ closed' = closed \cup Range(backlog) \cup {conn[f] : f \in {g \in Fd : conn[g] # None}}
      /\ c2s' = [c \in Client |-> IF c \in closed' THEN <<>> ELSE c2s[c]]
      /\ UNCHANGED <<running, limit, batch, fin, cut, told, cpc, sent, said, got>>
  BY Zenon DEF Shutdown, clients
<1>3. PICK lost : s2c' = [c \in Client |-> IF c \in lost THEN <<>> ELSE s2c[c]]  BY Zenon DEF Shutdown
<1>4. s2c' \in [Client -> Seq(Byte)] /\ c2s' \in [Client -> Seq(Byte)]  BY <1>1, <1>2, <1>3 DEF TypeInv
<1>5. closed' \subseteq Client  BY <1>1, <1>2 DEF TypeInv, Range
<1>6. batch = <<>>  BY <1>1, <1>2, Zenon DEF ListedOnce
<1>7. TypeInv'  BY <1>1, <1>2, <1>4, <1>5 DEF TypeInv
<1>8. OnePlace'
  <2>1. \A c \in Client : c # None  BY TcpEchoAssumption, Zenon DEF Client
  <2> QED  BY <1>2, <2>1 DEF OnePlace, Distinct
<1>9. ListedOnce'  BY <1>2, <1>6 DEF ListedOnce, Distinct
<1>10. EventHolds'  BY <1>2, <1>6 DEF EventHolds
<1> QED  BY <1>7, <1>8, <1>9, <1>10, Zenon DEF EchoInv

\* A client that connects joins the queue; it is in no other place.
LEMMA ConnectEchoInv ==
    ASSUME EchoInv, NEW c \in Client, Connect(c)
    PROVE  EchoInv'
<1>1. TypeInv /\ OnePlace /\ ListedOnce  BY Zenon DEF EchoInv
<1>2. cpc[c] = "connect" /\ backlog' = Append(backlog, c) /\ rdl' = Wake(rdl, LISTEN)  BY Zenon DEF Connect
<1>3. UNCHANGED <<srv, running, limit, conn, batch, c2s, s2c, fin, closed, cut, told, sent, said, got>>
  BY Zenon DEF Connect, server
<1>4. /\ cpc' \in [Client -> {"connect", "send", "recv", "close", "done"}] /\ cpc'[c] = "send"
      /\ \A d \in Client \ {c} : cpc'[d] = cpc[d]
  BY <1>1, Zenon DEF Connect, TypeInv
<1>5. rdl' \in Seq(Sock) /\ Distinct(rdl')
  BY <1>1, <1>2, WakeList, Zenon DEF TypeInv, ListedOnce, Sock
<1>6. /\ backlog' \in Seq(Client) /\ backlog' # <<>> /\ Len(backlog) \in Nat
      /\ DOMAIN backlog = 1 .. Len(backlog) /\ DOMAIN backlog' = 1 .. Len(backlog) + 1
      /\ backlog'[Len(backlog) + 1] = c /\ \A k \in DOMAIN backlog : backlog'[k] = backlog[k]
  <2>1. backlog \in Seq(Client)  BY <1>1, Zenon DEF TypeInv
  <2> QED  BY <1>2, <2>1
<1>7. \A k \in DOMAIN backlog' : k \in DOMAIN backlog \/ k = Len(backlog) + 1  BY <1>6
<1>8. TypeInv'  BY <1>1, <1>3, <1>4, <1>5, <1>6, Zenon DEF TypeInv, Sock
<1>9. (\A k \in DOMAIN backlog : backlog[k] # c) /\ (\A f \in Fd : conn[f] # c)
  BY <1>1, <1>2, Zenon DEF OnePlace
<1>10. OnePlace'
  <2>1. Distinct(backlog)'  BY <1>1, <1>6, <1>7, <1>9, Zenon DEF OnePlace, Distinct
  <2>2. \A f, g \in Fd : conn'[f] = conn'[g] /\ conn'[f] # None => f = g  BY <1>1, <1>3, Zenon DEF OnePlace
  <2>3. \A k \in DOMAIN backlog' : \A f \in Fd : conn'[f] # backlog'[k]
    BY <1>1, <1>3, <1>6, <1>7, <1>9, Zenon DEF OnePlace
  <2>4. ASSUME NEW d \in Client, cpc'[d] = "connect"
        PROVE  (\A k \in DOMAIN backlog' : backlog'[k] # d) /\ (\A f \in Fd : conn'[f] # d)
    <3>1. d # c /\ cpc[d] = "connect"  BY <1>4, <2>4, Zenon
    <3> QED  BY <1>1, <1>3, <1>6, <1>7, <3>1, Zenon DEF OnePlace
  <2> QED  BY <2>1, <2>2, <2>3, <2>4, Zenon DEF OnePlace
<1>11. ListedOnce'  BY <1>1, <1>3, <1>5, Zenon DEF ListedOnce
<1>12. \A k \in DOMAIN batch' : Current(batch[k])'
  <2>1. \A k \in DOMAIN batch : Current(batch[k])  BY EventForm, Zenon DEF EchoInv
  <2> QED  BY <1>3, <1>6, <2>1, Zenon DEF Current, Gone
<1> QED  BY <1>8, <1>10, <1>11, <1>12, EventForm, Zenon DEF EchoInv

\* A step of a client or of the network, with more data sent, a close or an error
\* at most, takes nothing an event reports away.
LEMMA ClientEchoInv ==
    ASSUME EchoInv, TypeInv', UNCHANGED <<srv, conn, batch, backlog>>, Distinct(rdl'),
           \A d \in Client : cpc'[d] = "connect" => cpc[d] = "connect",
           \A d \in Client : Gone(d) => Gone(d)',
           \A d \in Client : c2s'[d] = <<>> => c2s[d] = <<>>
    PROVE  EchoInv'
<1>1. TypeInv /\ OnePlace /\ ListedOnce  BY Zenon DEF EchoInv
<1>3. OnePlace'  BY <1>1, Zenon DEF OnePlace, Distinct
<1>4. ListedOnce'  BY <1>1, Zenon DEF ListedOnce
<1>5. ASSUME NEW k \in DOMAIN batch' PROVE Current(batch[k])'
  <2>1. Current(batch[k])  BY EventForm, Zenon DEF EchoInv
  <2>2. batch[k].fd \in Sock
    <3>1. batch \in Seq([fd : Sock, hup : BOOLEAN])  BY <1>1, Zenon DEF TypeInv, Sock
    <3>2. batch[k] \in [fd : Sock, hup : BOOLEAN]  BY <3>1, Member, Zenon
    <3> QED  BY <3>2, Zenon
  <2>3. batch[k].fd # LISTEN => conn[batch[k].fd] \in Client
    BY <1>1, <2>1, <2>2, SMTT(30) DEF Current, TypeInv, Sock
  <2> QED  BY <2>1, <2>3, Zenon DEF Current
<1> QED  BY <1>3, <1>4, <1>5, EventForm, Zenon DEF EchoInv

\* So is a close.
LEMMA LeaveEchoInv ==
    ASSUME EchoInv, NEW c \in Client, Leave(c)
    PROVE  EchoInv'
<1>1. TypeInv /\ ListedOnce  BY Zenon DEF EchoInv
<1>2. rdl \in Seq(Sock) /\ Distinct(rdl)  BY <1>1, Zenon DEF TypeInv, ListedOnce, Sock
<1>3. rdl' \in Seq(Sock) /\ Distinct(rdl')  BY <1>2, WakeClientList, Zenon DEF Leave
<1>4. /\ cpc' \in [Client -> {"connect", "send", "recv", "close", "done"}] /\ cpc'[c] # "connect"
      /\ \A d \in Client \ {c} : cpc'[d] = cpc[d]
  BY <1>1, Zenon DEF Leave, TypeInv
<1>5. fin \subseteq fin' /\ fin' \subseteq Client  BY <1>1, Zenon DEF Leave, TypeInv
<1>6. UNCHANGED <<srv, running, limit, conn, batch, backlog, c2s, closed, cut, told, sent, said, got>>
  BY Zenon DEF Leave, server
<1>7. s2c' \in [Client -> Seq(Byte)]
  <2>1. s2c' = [s2c EXCEPT ![c] = <<>>] /\ s2c \in [Client -> Seq(Byte)]  BY <1>1, Zenon DEF Leave, TypeInv
  <2>2. <<>> \in Seq(Byte)  OBVIOUS
  <2> QED  BY <2>1, <2>2, Put, Zenon
<1>8. TypeInv'  BY <1>1, <1>3, <1>4, <1>5, <1>6, <1>7, Zenon DEF TypeInv, Sock
<1>9. \A d \in Client : Gone(d) => Gone(d)'  BY <1>5, <1>6, Zenon DEF Gone
<1>10. \A d \in Client : c2s'[d] = <<>> => c2s[d] = <<>>  BY <1>6, Zenon
<1>11. \A d \in Client : cpc'[d] = "connect" => cpc[d] = "connect"  BY <1>4, Zenon
<1> QED  BY <1>3, <1>6, <1>8, <1>9, <1>10, <1>11, ClientEchoInv, Zenon

\* Bytes sent wake the server, if they reach it.
LEMMA TransmitStep ==
    ASSUME TypeInv, ListedOnce, NEW c \in Client, Transmit(c)
    PROVE  /\ rdl' \in Seq(Sock) /\ Distinct(rdl') /\ c2s' \in [Client -> Seq(Byte)]
           /\ \A d \in Client : c2s'[d] = <<>> => c2s[d] = <<>>
           /\ \A d \in Client \ {c} : c2s'[d] = c2s[d]
           /\ c2s'[c] = IF c \in closed \cup cut THEN c2s[c] ELSE c2s[c] \o Message(c)
           /\ Message(c) \in Seq(Byte)
<1>2. rdl \in Seq(Sock) /\ Distinct(rdl)  BY Zenon DEF TypeInv, ListedOnce, Sock
<1>3. rdl' \in Seq(Sock) /\ Distinct(rdl')  BY <1>2, WakeClientList, Zenon DEF Transmit
<1>4. sent[c] \in Nat /\ c2s[c] \in Seq(Byte) /\ c2s \in [Client -> Seq(Byte)]  BY Zenon DEF TypeInv
<1>5. Message(c) \in Seq(Byte) /\ Message(c) # <<>>  BY <1>4, MessageBytes, Zenon
<1>6. c2s[c] \o Message(c) \in Seq(Byte) /\ c2s[c] \o Message(c) # <<>>
  <2>1. Len(Message(c)) \in Nat \ {0}  BY <1>5
  <2>2. c2s[c] \o Message(c) \in Seq(Byte) /\ Len(c2s[c] \o Message(c)) = Len(c2s[c]) + Len(Message(c))
    BY <1>4, <1>5
  <2> QED  BY <1>4, <2>1, <2>2
<1>7. CASE c \in closed \cup cut  BY <1>3, <1>4, <1>5, <1>7, Zenon DEF Transmit
<1>8. CASE c \notin closed \cup cut
  <2>1. c2s' = [c2s EXCEPT ![c] = c2s[c] \o Message(c)]  BY <1>8, Zenon DEF Transmit
  <2>2. /\ c2s' \in [Client -> Seq(Byte)] /\ c2s'[c] = c2s[c] \o Message(c)
        /\ \A d \in Client \ {c} : c2s'[d] = c2s[d]
    BY <1>4, <1>6, <2>1, Put, Zenon
  <2> QED  BY <1>3, <1>5, <1>6, <1>8, <2>2, Zenon
<1> QED  BY <1>7, <1>8, Zenon

\* A message sent keeps every connection in one place.
LEMMA SendEchoInv ==
    ASSUME EchoInv, NEW c \in Client, Send(c) \/ SendFreely(c)
    PROVE  EchoInv'
<1>1. TypeInv /\ ListedOnce  BY Zenon DEF EchoInv
<1>2. Transmit(c)  BY Zenon DEF Send, SendFreely
<1>3. /\ rdl' \in Seq(Sock) /\ Distinct(rdl') /\ c2s' \in [Client -> Seq(Byte)] /\ Message(c) \in Seq(Byte)
      /\ \A d \in Client : c2s'[d] = <<>> => c2s[d] = <<>>
  BY <1>1, <1>2, TransmitStep, Zenon
<1>4. /\ cpc' \in [Client -> {"connect", "send", "recv", "close", "done"}]
      /\ \A d \in Client : cpc'[d] = "connect" => cpc[d] = "connect"
  BY <1>1, Zenon DEF Send, SendFreely, TypeInv, clients
<1>5. sent' \in [Client -> Nat]
  <2>1. sent \in [Client -> Nat]  BY <1>1, Zenon DEF TypeInv
  <2> QED  BY <2>1 DEF Send, SendFreely, clients
<1>6. said' \in [Client -> Seq(Byte)]
  <2>1. said \in [Client -> Seq(Byte)] /\ said[c] \in Seq(Byte)  BY <1>1, Zenon DEF TypeInv
  <2>2. said[c] \o Message(c) \in Seq(Byte)  BY <1>3, <2>1, Joined, Zenon
  <2>3. said' = said \/ said' = [said EXCEPT ![c] = said[c] \o Message(c)]  BY Zenon DEF Send, SendFreely, clients
  <2>4. [said EXCEPT ![c] = said[c] \o Message(c)] \in [Client -> Seq(Byte)]  BY <2>1, <2>2, Put, Zenon
  <2> QED  BY <2>1, <2>3, <2>4, Zenon
<1>7. UNCHANGED <<srv, running, limit, conn, batch, backlog, s2c, fin, closed, cut, told, got>>
  BY Zenon DEF Send, SendFreely, server, clients
<1>8. TypeInv'  BY <1>1, <1>3, <1>4, <1>5, <1>6, <1>7, Zenon DEF TypeInv, Sock
<1>9. \A d \in Client : Gone(d) => Gone(d)'  BY <1>7, Zenon DEF Gone
<1> QED  BY <1>3, <1>4, <1>7, <1>8, <1>9, ClientEchoInv, Zenon

\* What a client's recv does.
LEMMA RecvStep ==
    ASSUME TypeInv, NEW c \in Client, Recv(c)
    PROVE  \E k \in 0 .. Len(s2c[c]) :
              /\ got' \in [Client -> Seq(Byte)] /\ s2c' \in [Client -> Seq(Byte)]
              /\ got'[c] = got[c] \o SubSeq(s2c[c], 1, k) /\ s2c'[c] = SubSeq(s2c[c], k + 1, Len(s2c[c]))
              /\ \A d \in Client \ {c} : got'[d] = got[d] /\ s2c'[d] = s2c[d]
              /\ Torn(c, k, s2c[c])
<1>1. PICK k \in 0 .. Len(s2c[c]) :
         /\ got' = [got EXCEPT ![c] = @ \o SubSeq(s2c[c], 1, k)]
         /\ s2c' = [s2c EXCEPT ![c] = SubSeq(@, k + 1, Len(@))]
         /\ Torn(c, k, s2c[c])
  BY Zenon DEF Recv
<1>2. /\ got \in [Client -> Seq(Byte)] /\ s2c \in [Client -> Seq(Byte)]
      /\ got[c] \in Seq(Byte) /\ s2c[c] \in Seq(Byte)
  BY Zenon DEF TypeInv
<1>3. SubSeq(s2c[c], 1, k) \in Seq(Byte) /\ SubSeq(s2c[c], k + 1, Len(s2c[c])) \in Seq(Byte)
  BY <1>1, <1>2, Parts, Zenon
<1>4. got[c] \o SubSeq(s2c[c], 1, k) \in Seq(Byte)  BY <1>2, <1>3, Joined, Zenon
<1>5. /\ got' = [got EXCEPT ![c] = got[c] \o SubSeq(s2c[c], 1, k)]
      /\ s2c' = [s2c EXCEPT ![c] = SubSeq(s2c[c], k + 1, Len(s2c[c]))]
  BY <1>1, Zenon
<1>6. /\ got' \in [Client -> Seq(Byte)] /\ got'[c] = got[c] \o SubSeq(s2c[c], 1, k)
      /\ \A d \in Client \ {c} : got'[d] = got[d]
  BY <1>2, <1>4, <1>5, Put, Zenon
<1>7. /\ s2c' \in [Client -> Seq(Byte)] /\ s2c'[c] = SubSeq(s2c[c], k + 1, Len(s2c[c]))
      /\ \A d \in Client \ {c} : s2c'[d] = s2c[d]
  BY <1>2, <1>3, <1>5, Put, Zenon
<1> QED  BY <1>1, <1>6, <1>7, Zenon

\* A client that takes echoed bytes or finds the end of its stream leaves the events
\* alone.
LEMMA RecvEchoInv ==
    ASSUME EchoInv, NEW c \in Client, Recv(c) \/ RecvFails(c)
    PROVE  EchoInv'
<1>1. TypeInv /\ ListedOnce  BY Zenon DEF EchoInv
<1>2. rdl \in Seq(Sock) /\ Distinct(rdl)  BY <1>1, Zenon DEF TypeInv, ListedOnce, Sock
<1>3. UNCHANGED <<srv, running, limit, conn, batch, backlog, rdl, c2s, fin, closed, cut, told, sent, said>>
  BY Zenon DEF Recv, RecvFails, server, network
<1>4. /\ cpc' \in [Client -> {"connect", "send", "recv", "close", "done"}] /\ cpc'[c] # "connect"
      /\ \A d \in Client \ {c} : cpc'[d] = cpc[d]
  BY <1>1, Zenon DEF Recv, RecvFails, TypeInv
<1>5. s2c' \in [Client -> Seq(Byte)] /\ got' \in [Client -> Seq(Byte)]
  <2>1. CASE RecvFails(c)  BY <1>1, <2>1, Zenon DEF RecvFails, network, TypeInv
  <2>2. CASE Recv(c)  BY <1>1, <2>2, RecvStep, Zenon
  <2> QED  BY <2>1, <2>2, Zenon
<1>6. TypeInv'  BY <1>1, <1>3, <1>4, <1>5, Zenon DEF TypeInv
<1>7. \A d \in Client : Gone(d) => Gone(d)'  BY <1>3, Zenon DEF Gone
<1>8. \A d \in Client : c2s'[d] = <<>> => c2s[d] = <<>>  BY <1>3, Zenon
<1>9. \A d \in Client : cpc'[d] = "connect" => cpc[d] = "connect"  BY <1>4, Zenon
<1> QED  BY <1>2, <1>3, <1>6, <1>7, <1>8, <1>9, ClientEchoInv, Zenon

\* A connection that fails is gone for the server once it is told, and nothing that
\* has arrived is taken back.
LEMMA NetworkEchoInv ==
    ASSUME EchoInv, NEW c \in Client, Network(c)
    PROVE  EchoInv'
<1>1. TypeInv /\ ListedOnce  BY Zenon DEF EchoInv
<1>2. rdl \in Seq(Sock) /\ Distinct(rdl)  BY <1>1, Zenon DEF TypeInv, ListedOnce, Sock
<1>3. CASE Unanswered(c)  BY <1>3, RecvEchoInv, Zenon DEF Unanswered
<1>4. CASE Cut(c) \/ Keepalive(c)
  <2>1. UNCHANGED <<srv, running, limit, conn, batch, backlog, c2s, s2c, fin, closed, cpc, sent, said, got>>
    BY <1>4, Zenon DEF Cut, Keepalive, server, clients
  <2>2. rdl' \in Seq(Sock) /\ Distinct(rdl')  BY <1>2, <1>4, WakeClientList, Zenon DEF Cut, Keepalive
  <2>3. cut' \subseteq Client /\ told' \subseteq cut'  BY <1>1, <1>4, Zenon DEF Cut, Keepalive, TypeInv
  <2>4. TypeInv'  BY <1>1, <2>1, <2>2, <2>3, Zenon DEF TypeInv, Sock
  <2>5. \A d \in Client : Gone(d) => Gone(d)'  BY <1>4, Zenon DEF Cut, Keepalive, Gone
  <2>6. \A d \in Client : c2s'[d] = <<>> => c2s[d] = <<>>  BY <2>1, Zenon
  <2>7. \A d \in Client : cpc'[d] = "connect" => cpc[d] = "connect"  BY <2>1, Zenon
  <2> QED  BY <2>1, <2>2, <2>4, <2>5, <2>6, <2>7, ClientEchoInv, Zenon
<1> QED  BY <1>3, <1>4, Zenon DEF Network

\* Whoever takes a step, no event becomes stale.
LEMMA ServerEchoInv ==
    ASSUME EchoInv, Server \/ Sigterm
    PROVE  EchoInv'
  BY LoopEchoInv, EpollWaitEchoInv, NewConnectionEchoInv, PeerClosedEchoInv, ReplyEchoInv, ShutdownEchoInv, Zenon DEF Server

\* Nor does one when a client or the network takes a step.
LEMMA TalkEchoInv ==
    ASSUME EchoInv, NEW c \in Client, Connect(c) \/ Talk(c) \/ Leave(c) \/ Network(c)
    PROVE  EchoInv'
  BY ConnectEchoInv, SendEchoInv, RecvEchoInv, LeaveEchoInv, NetworkEchoInv, Zenon DEF Talk, Close, RecvEnd

-----------------------------------------------------------------------------
(* Who closes a connection *)

\* The server closes only what its client has closed or what has failed, until it
\* is told to stop, and keeps nothing of a connection it has closed.
ClosedForCause ==
    /\ srv \in {"shut", "exit"} => ~running
    /\ running => \A c \in closed : Gone(c)
    /\ \A f \in Fd : conn[f] \notin closed
    /\ \A k \in DOMAIN backlog : backlog[k] \notin closed
    /\ \A c \in closed : cpc[c] # "connect"

\* No connection is closed at the start.
LEMMA InitClosedForCause == Init => ClosedForCause
  BY Zenon DEF Init, ClosedForCause

\* The server closes a connection on a hang-up, which is real, or when it exits.
LEMMA ServerClosedForCause ==
    ASSUME EchoInv, ClosedForCause, Server \/ Sigterm
    PROVE  ClosedForCause'
<1>1. TypeInv /\ OnePlace  BY Zenon DEF EchoInv
<1>2. CASE Check  BY <1>2, Zenon DEF Check, KeepRunning, ClosedForCause, network, clients, Gone
<1>3. CASE BatchDone \/ Sigterm  BY <1>3 DEF BatchDone, Sigterm, ClosedForCause, network, clients, Gone
<1>4. CASE EpollWait
  <2>1. srv' = "handle" /\ UNCHANGED <<running, conn, backlog, fin, closed, cut, told, cpc>>
    BY <1>4, Zenon DEF EpollWait, clients
  <2> QED  BY <2>1, Zenon DEF ClosedForCause, Gone
<1>5. CASE NewConnection
  <2>1. UNCHANGED <<srv, running, fin, closed, cut, told, cpc>>  BY <1>5, Zenon DEF NewConnection, clients
  <2>2. CASE UNCHANGED <<backlog, conn>>  BY <2>1, <2>2, Zenon DEF ClosedForCause, Gone
  <2>3. ASSUME NEW f \in 1 .. limit, backlog' = Tail(backlog), conn' = [conn EXCEPT ![f] = Head(backlog)]
        PROVE  ClosedForCause'
    <3>1. backlog \in Seq(Client) /\ backlog # <<>>
      <4>1. LISTEN \in Sock /\ Event(LISTEN)  BY <1>5, Zenon DEF Sock, NewConnection
      <4> QED  BY <1>1, <4>1, EventStep, Zenon DEF TypeInv, Current
    <3>2. Head(backlog) = backlog[1] /\ 1 \in DOMAIN backlog  BY <3>1
    <3>3. \A k \in DOMAIN backlog' : k + 1 \in DOMAIN backlog /\ backlog'[k] = backlog[k + 1]
      BY <2>3, <3>1
    <3>4. \A g \in Fd : conn'[g] = conn[g] \/ conn'[g] = backlog[1]
      BY <1>1, <2>3, <3>2, Zenon DEF TypeInv
    <3> QED  BY <2>1, <3>2, <3>3, <3>4, Zenon DEF ClosedForCause, Gone
  <2> QED  BY <1>5, <2>2, <2>3, Zenon DEF NewConnection
<1>6. CASE Shutdown
  <2>1. /\ srv = "shut" /\ conn' = [f \in Fd |-> None] /\ backlog' = <<>>
        /\ closed' = closed \cup Range(backlog) \cup {conn[f] : f \in {g \in Fd : conn[g] # None}}
        /\ UNCHANGED <<running, fin, cpc>>
    BY <1>6, Zenon DEF Shutdown, clients
  <2>2. EchoInv'  BY <1>6, ShutdownEchoInv, Zenon
  <2>3. closed' \subseteq Client /\ None \notin Client
    BY <2>2, TcpEchoAssumption, Zenon DEF EchoInv, TypeInv, Client
  <2>4. ~running  BY <2>1, Zenon DEF ClosedForCause
  <2>5. ASSUME NEW c \in closed' PROVE cpc[c] # "connect"
    <3>1. CASE c \in closed  BY <3>1, Zenon DEF ClosedForCause
    <3>2. CASE c \notin closed
      <4>1. c \in Client /\ (c \in Range(backlog) \/ \E f \in Fd : conn[f] = c)  BY <2>1, <2>3, <3>2, Zenon
      <4> QED  BY <1>1, <4>1, Zenon DEF OnePlace, Range
    <3> QED  BY <3>1, <3>2, Zenon
  <2> QED  BY <2>1, <2>3, <2>4, <2>5 DEF ClosedForCause
<1>7. ASSUME NEW f \in Fd, PeerClosed(f) PROVE ClosedForCause'
  <2>1. Gone(conn[f]) /\ conn[f] \in Client  BY <1>7, PeerClosedEchoInv, Zenon
  <2>2. /\ conn' = [conn EXCEPT ![f] = None] /\ closed' = closed \cup {conn[f]}
        /\ UNCHANGED <<srv, running, backlog, fin, cut, told, cpc>>
    BY <1>7, Zenon DEF PeerClosed, Disconnect, clients
  <2>3. conn[f] \in Client /\ closed \subseteq Client /\ conn[f] # None /\ None \notin closed
    BY <1>1, <2>1, TcpEchoAssumption, Zenon DEF TypeInv, Client
  <2>4. \A g \in Fd : conn'[g] = None \/ (g # f /\ conn'[g] = conn[g])  BY <1>1, <2>2, Zenon DEF TypeInv
  <2>5. \A g \in Fd : conn'[g] \notin closed'  BY <1>1, <2>2, <2>3, <2>4 DEF OnePlace, ClosedForCause
  <2>6. \A k \in DOMAIN backlog' : backlog'[k] \notin closed'  BY <1>1, <2>2, Zenon DEF OnePlace, ClosedForCause
  <2>7. \A c \in closed' : cpc'[c] # "connect"  BY <1>1, <2>2, <2>3, Zenon DEF OnePlace, ClosedForCause
  <2> QED  BY <2>1, <2>2, <2>5, <2>6, <2>7, Zenon DEF ClosedForCause, Gone
<1>8. ASSUME NEW f \in Fd, Reply(f) PROVE ClosedForCause'
  <2>1. UNCHANGED <<srv, running, conn, backlog, fin, closed, cut, told, cpc>>  BY <1>8, Zenon DEF Reply, clients
  <2> QED  BY <2>1, Zenon DEF ClosedForCause, Gone
<1> QED  BY <1>2, <1>3, <1>4, <1>5, <1>6, <1>7, <1>8, Zenon DEF Server

\* A client and the network close nothing on the server's side.
LEMMA TalkClosedForCause ==
    ASSUME EchoInv, ClosedForCause, NEW c \in Client, Connect(c) \/ Talk(c) \/ Leave(c) \/ Network(c)
    PROVE  ClosedForCause'
<1>1. TypeInv  BY Zenon DEF EchoInv
<1>2. CASE Connect(c)
  <2>1. UNCHANGED <<srv, running, conn, fin, closed, cut, told>> /\ backlog' = Append(backlog, c) /\ c \notin closed
    BY <1>2, Zenon DEF Connect, server, ClosedForCause
  <2>2. backlog \in Seq(Client)  BY <1>1, Zenon DEF TypeInv
  <2>3. \A k \in DOMAIN backlog' : (k \in DOMAIN backlog /\ backlog'[k] = backlog[k]) \/ backlog'[k] = c
    BY <2>1, <2>2
  <2>4. \A d \in closed : cpc'[d] # "connect"  BY <1>1, <1>2, Zenon DEF Connect, TypeInv, ClosedForCause
  <2> QED  BY <2>1, <2>3, <2>4, Zenon DEF ClosedForCause, Gone
<1>3. CASE Talk(c) \/ Leave(c)
  <2>1. UNCHANGED <<srv, running, conn, backlog, closed, cut, told>> /\ fin \subseteq fin'
    BY <1>3, Zenon DEF Talk, Send, SendFreely, Recv, RecvEnd, RecvFails, Close, Leave, server, network
  <2>2. \A d \in Client : cpc'[d] = "connect" => cpc[d] = "connect"
    BY <1>1, <1>3, Zenon DEF Talk, Send, SendFreely, Recv, RecvEnd, RecvFails, Close, Leave, TypeInv, clients
  <2>3. closed \subseteq Client  BY <1>1, Zenon DEF TypeInv
  <2> QED  BY <2>1, <2>2, <2>3, Zenon DEF ClosedForCause, Gone
<1>4. CASE Network(c)
  <2>1. UNCHANGED <<srv, running, conn, backlog, closed>>
    BY <1>4, Zenon DEF Network, Cut, Keepalive, Unanswered, RecvFails, server, network
  <2>2. \A d \in Client : cpc'[d] = "connect" => cpc[d] = "connect"
    BY <1>1, <1>4, Zenon DEF Network, Cut, Keepalive, Unanswered, RecvFails, TypeInv, clients
  <2>3. \A d \in closed : Gone(d) => Gone(d)'
    BY <1>4, Zenon DEF Network, Cut, Keepalive, Unanswered, RecvFails, network, Gone
  <2>4. closed \subseteq Client  BY <1>1, Zenon DEF TypeInv
  <2> QED  BY <2>1, <2>2, <2>3, <2>4, Zenon DEF ClosedForCause
<1> QED  BY <1>2, <1>3, <1>4, Zenon

-----------------------------------------------------------------------------
(* connect_with_timeout *)

\* What holds of the socket at each point of connect_with_timeout.
DialInv ==
    /\ dpc \in {"epoll", "resolve", "socket", "connect", "poll", "verdict", "giveup", "finish",
                "returned"}
    /\ count \in 0 .. Addresses /\ r \in Nat \ {0}
    /\ link \in [Dial!Address -> {"idle", "pending", "up", "down"}]
    /\ dpc \in {"epoll", "resolve"} => count = 0 /\ r = 1 /\ sfd = -1
    /\ dpc = "epoll" => open = {}
    /\ dpc = "resolve" => open = {Dial!EPFD}
    /\ dpc = "socket" => count > 0 /\ r <= count + 1 /\ sfd = -1 /\ open = {Dial!EPFD}
    /\ dpc \in {"connect", "poll", "verdict", "giveup"} =>
          r <= count /\ sfd = r /\ open = {Dial!EPFD, r}
    /\ dpc \in {"finish", "returned"} =>
          \/ sfd = -1 /\ count > 0 /\ r = count + 1 /\ open = {Dial!EPFD} \ (IF dpc = "finish" THEN {} ELSE {Dial!EPFD})
          \/ /\ sfd = r /\ r <= count /\ link[r] = "up" /\ r \in blocking
             /\ open = {Dial!EPFD, r} \ (IF dpc = "finish" THEN {} ELSE {Dial!EPFD})
          \/ dpc = "returned" /\ count = 0 /\ sfd = -1

-----------------------------------------------------------------------------
(* The exchange of the tcp_client *)

\* What the tcp_client has read, what is on its way back and what is on its way
\* there are, in this order, what it has sent; nothing of it is lost before the
\* connection is closed or fails.
Ordered ==
    LET c == Dialer
    IN  /\ Begins(got[c] \o s2c[c], said[c])
        /\ c \notin fin \cup closed \cup cut => (got[c] \o s2c[c]) \o c2s[c] = said[c]

Counted ==
    LET c == Dialer
    IN  /\ c \in fin => cpc[c] = "done"
        /\ c \in cut => c \in torn
        /\ cpc[c] = "connect" => sent[c] = 0
        /\ cpc[c] = "send" => sent[c] < MESSAGES
        /\ cpc[c] = "recv" => sent[c] <= MESSAGES

\* As long as every recv has returned all that was sent, the messages of the
\* tcp_client are on their way one at a time.
Whole ==
    LET c == Dialer
    IN  c \notin torn =>
           /\ c2s[c] = <<>> \/ s2c[c] = <<>>
           /\ cpc[c] \in {"connect", "send"} => c2s[c] = <<>> /\ s2c[c] = <<>>
           /\ cpc[c] = "close" /\ running => sent[c] = MESSAGES /\ got[c] = said[c]

InFlight == Ordered /\ Counted /\ Whole

\* The tcp_client talks over the connection that is up, the one to the server.
Talking ==
    /\ \A a \in Dial!Address : link[a] = "up" => a = Served
    /\ link[Served] = "up" => cpc[Dialer] # "connect"
    /\ link[Served] = "up" /\ cpc[Dialer] = "done" /\ running /\ Dialer \notin torn
         => sent[Dialer] = MESSAGES /\ got[Dialer] = said[Dialer]

DemoInv == DialInv /\ TypeInv /\ OnePlace /\ ListedOnce /\ EventHolds /\ ClosedForCause /\ InFlight /\ Talking

\* connect_with_timeout starts with no socket.
LEMMA InitDialInv == Dial!Init => DialInv
  BY TcpDemoAssumption DEF Dial!Init, DialInv, Dial!Address

\* Every step of connect_with_timeout, and every answer of the network, keeps the
\* socket in order.
LEMMA StepDialInv ==
    ASSUME DialInv, Dial!Next
    PROVE  DialInv'
<1> USE TcpDemoAssumption DEF DialInv, Dial!Address, Dial!EPFD
<1>1. CASE Dial!EpollCreate  BY <1>1, Zenon DEF Dial!EpollCreate
<1>2. CASE Dial!Resolve  BY <1>2, SMTT(30) DEF Dial!Resolve
<1>3. CASE Dial!Socket  BY <1>3, SMTT(30) DEF Dial!Socket, Dial!More
<1>4. CASE Dial!NoMoreAddresses  BY <1>4, SMTT(30) DEF Dial!NoMoreAddresses, Dial!More
<1>5. CASE Dial!Connect  BY <1>5 DEF Dial!Connect, Dial!Restored
<1>6. CASE Dial!PollAnswer  BY <1>6, Zenon DEF Dial!PollAnswer
<1>7. CASE Dial!PollNothing  BY <1>7, Zenon DEF Dial!PollNothing
<1>8. CASE Dial!Verdict  BY <1>8, Zenon DEF Dial!Verdict, Dial!Succeeds, Dial!Restored
<1>9. CASE Dial!GiveUp  BY <1>9 DEF Dial!GiveUp, Dial!Closed, Dial!AfterGiveUp
<1>10. CASE Dial!Finish  BY <1>10, Zenon DEF Dial!Finish
<1>11. CASE Dial!Answer  BY <1>11 DEF Dial!Answer
<1> QED  BY <1>1, <1>2, <1>3, <1>4, <1>5, <1>6, <1>7, <1>8, <1>9, <1>10, <1>11, Zenon DEF Dial!Next, Dial!Call

\* The invariant is enough for what the caller is promised.
LEMMA DialInvUsable == DialInv => UsableOrNone
  BY DEF DialInv, UsableOrNone, Dial!UsableOrNone, Dial!EPFD, Dial!Address

-----------------------------------------------------------------------------
(* The exchange of the tcp_client *)

\* The tcp_client is the one lockstep client.
LEMMA DialerClient == Dialer \in Client /\ Dialer \in Lockstep /\ Dialer \notin Free /\ Served \in Dial!Address
  BY TcpEchoAssumption, TcpDemoAssumption, Zenon DEF Client, Dial!Address

\* No message is under way at the start.
LEMMA InitInFlight == Init => InFlight
<1> SUFFICES ASSUME Init PROVE InFlight  BY Zenon
<1>1. /\ got[Dialer] = <<>> /\ said[Dialer] = <<>> /\ s2c[Dialer] = <<>> /\ c2s[Dialer] = <<>>
      /\ sent[Dialer] = 0 /\ cpc[Dialer] = "connect" /\ fin = {} /\ cut = {}
  BY DialerClient, Zenon DEF Init
<1>2. Ordered  BY <1>1 DEF Ordered, Begins
<1>3. Counted /\ Whole  BY <1>1, Zenon DEF Counted, Whole
<1> QED  BY <1>2, <1>3, Zenon DEF InFlight

\* The types of what the tcp_client has sent and read, and of what is on its way.
LEMMA DialerBytes ==
    ASSUME TypeInv
    PROVE  /\ got[Dialer] \in Seq(Byte) /\ said[Dialer] \in Seq(Byte) /\ c2s[Dialer] \in Seq(Byte)
           /\ s2c[Dialer] \in Seq(Byte) /\ got[Dialer] \o s2c[Dialer] \in Seq(Byte)
<1>1. /\ got[Dialer] \in Seq(Byte) /\ said[Dialer] \in Seq(Byte) /\ c2s[Dialer] \in Seq(Byte)
      /\ s2c[Dialer] \in Seq(Byte)
  BY DialerClient, Zenon DEF TypeInv
<1> QED  BY <1>1, Joined, Zenon

\* A step that leaves the tcp_client's own state and data alone.
LEMMA SameInFlight ==
    ASSUME InFlight,
           cpc'[Dialer] = cpc[Dialer], sent'[Dialer] = sent[Dialer],
           said'[Dialer] = said[Dialer], got'[Dialer] = got[Dialer],
           c2s'[Dialer] = c2s[Dialer], s2c'[Dialer] = s2c[Dialer],
           Dialer \in closed => Dialer \in closed', Dialer \in fin' <=> Dialer \in fin,
           Dialer \in cut' <=> Dialer \in cut, Dialer \in torn => Dialer \in torn', running' => running
    PROVE  InFlight'
<1>1. Ordered'  BY Zenon DEF InFlight, Ordered, Begins
<1>2. Counted'  BY Zenon DEF InFlight, Counted
<1>3. Whole'  BY Zenon DEF InFlight, Whole
<1> QED  BY <1>1, <1>2, <1>3, Zenon DEF InFlight

\* The server, when it closes the connection, drops what it has not read and maybe
\* what the client has not read.
LEMMA DroppedInFlight ==
    ASSUME InFlight, TypeInv, UNCHANGED <<cpc, sent, said, got, fin, cut, torn, running>>, Dialer \in closed',
           c2s'[Dialer] = <<>>, s2c'[Dialer] = s2c[Dialer] \/ s2c'[Dialer] = <<>>
    PROVE  InFlight'
<1>1. Ordered'
  <2>1. /\ got[Dialer] \in Seq(Byte) /\ said[Dialer] \in Seq(Byte) /\ s2c[Dialer] \in Seq(Byte)
    BY DialerBytes, Zenon
  <2>2. Begins(got[Dialer] \o s2c[Dialer], said[Dialer])  BY Zenon DEF InFlight, Ordered
  <2>3. Begins(got[Dialer] \o s2c'[Dialer], said[Dialer])
    <3>1. Begins(got[Dialer], said[Dialer])  BY <2>1, <2>2, BeginsShorter, Zenon
    <3>2. got[Dialer] \o <<>> = got[Dialer]  BY <2>1, NothingJoined, Zenon
    <3> QED  BY <2>2, <3>1, <3>2, Zenon
  <2> QED  BY <2>3, Zenon DEF Ordered, Begins
<1>2. Counted'  BY Zenon DEF InFlight, Counted
<1>3. Whole'  BY Zenon DEF InFlight, Whole
<1> QED  BY <1>1, <1>2, <1>3, Zenon DEF InFlight

\* The server's recv and send move bytes from one direction to the other.
LEMMA ReplyInFlight ==
    ASSUME EchoInv, ClosedForCause, InFlight, NEW f \in Fd, Reply(f)
    PROVE  InFlight'
<1>1. TypeInv /\ conn[f] \in Client /\ EchoInv'  BY ReplyEchoInv, Zenon DEF EchoInv
<1>2. UNCHANGED <<cpc, sent, said, got, fin, closed, cut, running>>  BY Zenon DEF Reply, clients
<1>3. PICK k \in 1 .. Len(c2s[conn[f]]) :
         /\ c2s' = [c2s EXCEPT ![conn[f]] = SubSeq(@, k + 1, Len(@))]
         /\ s2c' = IF conn[f] \in Free \cup fin \cup cut THEN s2c
                   ELSE [s2c EXCEPT ![conn[f]] = @ \o Echo(SubSeq(c2s[conn[f]], 1, k))]
         /\ Torn(conn[f], k, c2s[conn[f]])
  BY Zenon DEF Reply
<1>4. c2s \in [Client -> Seq(Byte)] /\ s2c \in [Client -> Seq(Byte)]  BY <1>1, Zenon DEF TypeInv
<1>5. Dialer \in torn => Dialer \in torn'  BY <1>3, Zenon DEF Torn
<1> USE DialerClient
<1>6. CASE conn[f] # Dialer
  <2>1. c2s'[Dialer] = c2s[Dialer] /\ s2c'[Dialer] = s2c[Dialer]  BY <1>3, <1>4, <1>6, Zenon
  <2> QED  BY <1>2, <1>5, <2>1, SameInFlight, Zenon
<1>7. CASE conn[f] = Dialer
  <2> DEFINE p == SubSeq(c2s[Dialer], 1, k)
             q == SubSeq(c2s[Dialer], k + 1, Len(c2s[Dialer]))
  <2>1. /\ got[Dialer] \in Seq(Byte) /\ said[Dialer] \in Seq(Byte) /\ c2s[Dialer] \in Seq(Byte)
        /\ s2c[Dialer] \in Seq(Byte) /\ got[Dialer] \o s2c[Dialer] \in Seq(Byte)
    BY <1>1, DialerBytes, Zenon
  <2>2. k \in 0 .. Len(c2s[Dialer]) /\ c2s[Dialer] # <<>>  BY <1>3, <1>7, <2>1
  <2>3. /\ p \in Seq(Byte) /\ q \in Seq(Byte) /\ p \o q = c2s[Dialer]
        /\ k = Len(c2s[Dialer]) => p = c2s[Dialer] /\ q = <<>>
    <3>1. c2s[Dialer] \in Seq(Byte) /\ k \in 0 .. Len(c2s[Dialer])  BY <2>1, <2>2, Zenon
    <3> QED  BY <3>1, Parts
  <2>4. c2s'[Dialer] = q  BY <1>3, <1>4, <1>7, Zenon
  <2>5. Dialer \notin torn' => Dialer \notin torn /\ k = Len(c2s[Dialer])
    <3>1. k \in Int /\ Len(c2s[Dialer]) \in Int /\ k <= Len(c2s[Dialer])  BY <2>1, <2>2
    <3>2. ~(k < Len(c2s[Dialer])) => k = Len(c2s[Dialer])  BY <3>1
    <3> QED  BY <1>3, <1>7, <3>2, Zenon DEF Torn
  <2>6. Dialer \notin closed  BY <1>7, Zenon DEF ClosedForCause
  <2>7. cpc[Dialer] \notin {"connect", "send"} \/ Dialer \in torn  BY <2>2, Zenon DEF InFlight, Whole
  <2>8. Counted'  BY <1>2, <1>5, Zenon DEF InFlight, Counted
  <2>9. Whole'
    <3>1. Dialer \notin torn' => c2s'[Dialer] = <<>> /\ cpc'[Dialer] \notin {"connect", "send"}
      BY <1>2, <2>3, <2>4, <2>5, <2>7, Zenon
    <3> QED  BY <1>2, <2>5, <3>1, Zenon DEF InFlight, Whole
  <2>10. CASE Dialer \in fin \cup cut
    <3>1. s2c'[Dialer] = s2c[Dialer]  BY <1>3, <1>7, <2>10, Zenon
    <3>2. Ordered'  BY <1>2, <2>10, <3>1, Zenon DEF InFlight, Ordered, Begins
    <3> QED  BY <2>8, <2>9, <3>2, Zenon DEF InFlight
  <2>11. CASE Dialer \notin fin \cup cut
    <3>1. s2c'[Dialer] = s2c[Dialer] \o p  BY <1>3, <1>4, <1>7, <2>11, Zenon DEF Echo
    <3>2. (got[Dialer] \o s2c[Dialer]) \o (p \o q) = said[Dialer]
      BY <2>3, <2>6, <2>11, Zenon DEF InFlight, Ordered
    <3> HIDE DEF p, q
    <3>3. /\ ((got[Dialer] \o s2c[Dialer]) \o p) \o q = (got[Dialer] \o s2c[Dialer]) \o (p \o q)
          /\ (got[Dialer] \o s2c[Dialer]) \o p = got[Dialer] \o (s2c[Dialer] \o p)
      <4>1. p \in Seq(Byte) /\ q \in Seq(Byte)  BY <2>3, Zenon
      <4>2. Regroups(got[Dialer] \o s2c[Dialer], p, q)  BY <2>1, <4>1, Assoc, Zenon
      <4>3. Regroups(got[Dialer], s2c[Dialer], p)  BY <2>1, <4>1, Assoc, Zenon
      <4> QED  BY <4>2, <4>3, Zenon DEF Regroups
    <3>4. (got[Dialer] \o s2c[Dialer]) \o p = got[Dialer] \o s2c'[Dialer]  BY <3>1, <3>3, Zenon
    <3>5. (got[Dialer] \o s2c'[Dialer]) \o q = said[Dialer]  BY <3>2, <3>3, <3>4, Zenon
    <3>6. got[Dialer] \o s2c'[Dialer] \in Seq(Byte)
      <4>1. (got[Dialer] \o s2c[Dialer]) \o p \in Seq(Byte)  BY <2>1, <2>3, Joined, Zenon
      <4> QED  BY <3>4, <4>1, Zenon
    <3>7. Begins(got[Dialer] \o s2c'[Dialer], said[Dialer])
      <4>1. Begins(got[Dialer] \o s2c'[Dialer], (got[Dialer] \o s2c'[Dialer]) \o q)  BY <2>3, <3>6, BeginsJoined, Zenon
      <4> QED  BY <3>5, <4>1, Zenon
    <3>8. Ordered'  BY <1>2, <2>4, <3>5, <3>7, Zenon DEF Ordered, Begins
    <3> QED  BY <2>8, <2>9, <3>8, Zenon DEF InFlight
  <2> QED  BY <2>10, <2>11, Zenon
<1> QED  BY <1>6, <1>7, Zenon

\* The server keeps the order of the bytes and drops nothing before it closes.
LEMMA ServerInFlight ==
    ASSUME EchoInv, ClosedForCause, InFlight, Server \/ Sigterm
    PROVE  InFlight'
<1>1. TypeInv /\ OnePlace  BY Zenon DEF EchoInv
<1> USE DialerClient
<1>2. CASE Check \/ EpollWait \/ BatchDone \/ NewConnection \/ Sigterm
  <2>1. UNCHANGED <<cpc, sent, said, got, c2s, s2c, closed, fin, cut, torn>> /\ (running' => running)
    BY <1>2 DEF Check, EpollWait, BatchDone, NewConnection, Sigterm, network, clients
  <2> QED  BY <2>1, SameInFlight, ZenonT(40)
<1>3. CASE Shutdown
  <2>1. UNCHANGED <<cpc, sent, said, got, fin, cut, torn, running>> /\ closed \subseteq closed'
    BY <1>3, Zenon DEF Shutdown, clients
  <2>2. /\ s2c'[Dialer] = s2c[Dialer] \/ (s2c'[Dialer] = <<>> /\ Dialer \in closed')
        /\ c2s'[Dialer] = IF Dialer \in closed' THEN <<>> ELSE c2s[Dialer]
    BY <1>3, Zenon DEF Shutdown
  <2>3. CASE Dialer \in closed'  BY <1>1, <2>1, <2>2, <2>3, DroppedInFlight, Zenon
  <2>4. CASE Dialer \notin closed'  BY <2>1, <2>2, <2>4, SameInFlight, Zenon
  <2> QED  BY <2>3, <2>4, Zenon
<1>4. ASSUME NEW f \in Fd, PeerClosed(f) PROVE InFlight'
  <2>1. /\ UNCHANGED <<cpc, sent, said, got, fin, cut, torn, running>> /\ closed' = closed \cup {conn[f]}
        /\ c2s' = [c2s EXCEPT ![conn[f]] = <<>>]
    BY <1>4, Zenon DEF PeerClosed, Disconnect, clients
  <2>2. s2c' = s2c \/ s2c' = [s2c EXCEPT ![conn[f]] = <<>>]  BY <1>4, Zenon DEF PeerClosed, Disconnect
  <2>3. c2s \in [Client -> Seq(Byte)] /\ s2c \in [Client -> Seq(Byte)]  BY <1>1, Zenon DEF TypeInv
  <2>4. CASE conn[f] = Dialer
    <3>1. c2s'[Dialer] = <<>> /\ (s2c'[Dialer] = s2c[Dialer] \/ s2c'[Dialer] = <<>>)
      BY <2>1, <2>2, <2>3, <2>4, Zenon
    <3> QED  BY <1>1, <2>1, <2>4, <3>1, DroppedInFlight, Zenon
  <2>5. CASE conn[f] # Dialer
    <3>1. c2s'[Dialer] = c2s[Dialer] /\ s2c'[Dialer] = s2c[Dialer]  BY <2>1, <2>2, <2>3, <2>5, Zenon
    <3> QED  BY <2>1, <3>1, SameInFlight, Zenon
  <2> QED  BY <2>4, <2>5, Zenon
<1>5. ASSUME NEW f \in Fd, Reply(f) PROVE InFlight'  BY <1>5, ReplyInFlight, Zenon
<1> QED  BY <1>2, <1>3, <1>4, <1>5, Zenon DEF Server

\* Other clients do not touch it.
LEMMA OthersInFlight ==
    ASSUME EchoInv, InFlight, NEW c \in Free, Connect(c) \/ Talk(c) \/ Network(c)
    PROVE  /\ InFlight' /\ cpc'[Dialer] = cpc[Dialer] /\ sent'[Dialer] = sent[Dialer]
           /\ said'[Dialer] = said[Dialer] /\ got'[Dialer] = got[Dialer]
           /\ (Dialer \in torn => Dialer \in torn') /\ running' = running
<1>1. TypeInv /\ ListedOnce /\ c # Dialer /\ c \in Client /\ Dialer \in Client
  BY DialerClient, Zenon DEF EchoInv, Client
<1>2. CASE Connect(c) \/ Close(c)
  <2>1. UNCHANGED <<sent, said, got, c2s, closed, cut, torn, running>>
    BY <1>2, Zenon DEF Connect, Close, Leave, server
  <2>2. cpc'[Dialer] = cpc[Dialer] /\ s2c'[Dialer] = s2c[Dialer]
    BY <1>1, <1>2, Zenon DEF Connect, Close, Leave, TypeInv
  <2>3. Dialer \in fin' <=> Dialer \in fin  BY <1>1, <1>2, Zenon DEF Connect, Close, Leave
  <2> QED  BY <2>1, <2>2, <2>3, SameInFlight, Zenon
<1>3. CASE Send(c)
  BY <1>1, <1>3, TcpEchoAssumption, Zenon DEF Send
<1>4. CASE SendFreely(c)
  <2>1. c2s'[Dialer] = c2s[Dialer]  BY <1>1, <1>4, TransmitStep, Zenon DEF SendFreely
  <2>2. UNCHANGED <<cpc, sent, said, got, s2c, fin, closed, cut, torn, running>>
    BY <1>4, Zenon DEF SendFreely, server, clients
  <2> QED  BY <2>1, <2>2, SameInFlight, Zenon
<1>5. CASE Recv(c)
  <2>1. UNCHANGED <<sent, said, c2s, fin, closed, cut, running>> /\ cpc'[Dialer] = cpc[Dialer]
    BY <1>1, <1>5, Zenon DEF Recv, server, TypeInv
  <2>2. got'[Dialer] = got[Dialer] /\ s2c'[Dialer] = s2c[Dialer]  BY <1>1, <1>5, RecvStep, Zenon
  <2>3. Dialer \in torn => Dialer \in torn'  BY <1>1, <1>5, RecvStep, Zenon DEF Torn
  <2> QED  BY <2>1, <2>2, <2>3, SameInFlight, Zenon
<1>6. CASE RecvEnd(c) \/ Unanswered(c)
  <2>1. UNCHANGED <<sent, said, got, c2s, s2c, fin, closed, cut, torn, running>>
    BY <1>6, Zenon DEF RecvEnd, Unanswered, RecvFails, server, network
  <2>2. cpc'[Dialer] = cpc[Dialer]  BY <1>1, <1>6, Zenon DEF RecvEnd, Unanswered, RecvFails, TypeInv
  <2> QED  BY <2>1, <2>2, SameInFlight, Zenon
<1>7. CASE Cut(c) \/ Keepalive(c)
  <2>1. UNCHANGED <<cpc, sent, said, got, c2s, s2c, fin, closed, running>>
    BY <1>7, Zenon DEF Cut, Keepalive, server, clients
  <2>2. (Dialer \in cut' <=> Dialer \in cut) /\ (Dialer \in torn => Dialer \in torn')
    BY <1>1, <1>7, Zenon DEF Cut, Keepalive
  <2> QED  BY <2>1, <2>2, SameInFlight, Zenon
<1> QED  BY <1>2, <1>3, <1>4, <1>5, <1>6, <1>7, Zenon DEF Talk, Network

\* The tcp_client's send puts a message behind what is on its way.
LEMMA DialerSendInFlight ==
    ASSUME EchoInv, InFlight, Send(Dialer)
    PROVE  InFlight'
<1> DEFINE c == Dialer
           m == Message(c)
<1>1. TypeInv /\ ListedOnce /\ c \in Client  BY DialerClient, Zenon DEF EchoInv
<1>2. /\ got[c] \in Seq(Byte) /\ said[c] \in Seq(Byte) /\ c2s[c] \in Seq(Byte)
      /\ s2c[c] \in Seq(Byte) /\ got[c] \o s2c[c] \in Seq(Byte)
  BY <1>1, DialerBytes, Zenon
<1>3. m \in Seq(Byte) /\ c2s'[c] = IF c \in closed \cup cut THEN c2s[c] ELSE c2s[c] \o m
  BY <1>1, TransmitStep, Zenon DEF Send
<1>4. /\ cpc[c] = "send" /\ cpc'[c] = "recv" /\ sent'[c] = sent[c] + 1 /\ said'[c] = said[c] \o m
      /\ UNCHANGED <<running, s2c, fin, closed, cut, got, torn>>
  BY <1>1, Zenon DEF Send, TypeInv, server
<1>5. Ordered'
  <2>1. Begins(got[c] \o s2c[c], said[c] \o m)
    <3>1. Begins(got[c] \o s2c[c], said[c])  BY Zenon DEF InFlight, Ordered
    <3> QED  BY <1>2, <1>3, <3>1, BeginsLonger, Zenon
  <2>2. c \notin fin \cup closed \cup cut => (got[c] \o s2c[c]) \o c2s'[c] = said[c] \o m
    <3>1. CASE c \in fin \cup closed \cup cut  BY <3>1, Zenon
    <3>2. CASE c \notin fin \cup closed \cup cut
      <4>1. (got[c] \o s2c[c]) \o c2s[c] = said[c]  BY <3>2, Zenon DEF InFlight, Ordered
      <4>2. c2s'[c] = c2s[c] \o m  BY <1>3, <3>2, Zenon
      <4>3. ((got[c] \o s2c[c]) \o c2s[c]) \o m = (got[c] \o s2c[c]) \o (c2s[c] \o m)
        <5>1. Regroups(got[c] \o s2c[c], c2s[c], m)  BY <1>2, <1>3, Assoc, Zenon
        <5> QED  BY <5>1, Zenon DEF Regroups
      <4> QED  BY <4>1, <4>2, <4>3, Zenon
    <3> QED  BY <3>1, <3>2, Zenon
  <2> QED  BY <1>4, <2>1, <2>2, Zenon DEF Ordered, Begins
<1>6. sent[c] \in Nat /\ sent[c] < MESSAGES  BY <1>1, <1>4, Zenon DEF TypeInv, InFlight, Counted
<1>7. sent[c] + 1 <= MESSAGES  BY <1>6, TcpEchoAssumption
<1>8. Counted'  BY <1>4, <1>7, Zenon DEF InFlight, Counted
<1>9. Whole'  BY <1>4, Zenon DEF InFlight, Whole
<1> QED  BY <1>5, <1>8, <1>9, Zenon DEF InFlight

\* Its recv takes what comes first.
LEMMA DialerRecvInFlight ==
    ASSUME EchoInv, ClosedForCause, InFlight, Recv(Dialer)
    PROVE  InFlight'
<1> DEFINE c == Dialer
<1>1. TypeInv /\ EchoInv' /\ c \in Client /\ c \in Lockstep  BY DialerClient, RecvEchoInv, Zenon DEF EchoInv
<1>2. /\ got[c] \in Seq(Byte) /\ said[c] \in Seq(Byte) /\ c2s[c] \in Seq(Byte) /\ s2c[c] \in Seq(Byte)
  BY <1>1, DialerBytes, Zenon
<1>3. PICK k \in 0 .. Len(s2c[c]) :
         /\ got'[c] = got[c] \o SubSeq(s2c[c], 1, k) /\ s2c'[c] = SubSeq(s2c[c], k + 1, Len(s2c[c]))
         /\ Torn(c, k, s2c[c])
  BY <1>1, RecvStep, Zenon
<1>4. /\ cpc[c] = "recv" /\ s2c[c] # <<>> /\ cpc'[c] = IF sent[c] < MESSAGES THEN "send" ELSE "close"
      /\ UNCHANGED <<running, c2s, fin, closed, cut, sent, said>>
  BY <1>1, Zenon DEF Recv, TypeInv, server
<1> DEFINE p == SubSeq(s2c[c], 1, k)
           q == SubSeq(s2c[c], k + 1, Len(s2c[c]))
<1>5. /\ p \in Seq(Byte) /\ q \in Seq(Byte) /\ p \o q = s2c[c]
      /\ k = Len(s2c[c]) => p = s2c[c] /\ q = <<>>
  BY <1>2, <1>3, Parts, Zenon
<1>6. got'[c] = got[c] \o p /\ s2c'[c] = q  BY <1>3, Zenon
<1>7. c \notin torn' => c \notin torn /\ k = Len(s2c[c])
  <2>1. k \in Int /\ Len(s2c[c]) \in Int /\ k <= Len(s2c[c])  BY <1>2, <1>3
  <2>2. ~(k < Len(s2c[c])) => k = Len(s2c[c])  BY <2>1
  <2> QED  BY <1>1, <1>3, <2>2, Zenon DEF Torn
<1> HIDE DEF p, q
<1>8. got'[c] \o s2c'[c] = got[c] \o s2c[c]
  <2>1. Regroups(got[c], p, q)  BY <1>2, <1>5, Assoc, Zenon
  <2> QED  BY <1>5, <1>6, <2>1, Zenon DEF Regroups
<1>9. Ordered'  BY <1>4, <1>8, Zenon DEF InFlight, Ordered, Begins
<1>10. c \notin fin  BY <1>4, Zenon DEF InFlight, Counted
<1>11. sent[c] <= MESSAGES /\ sent[c] \in Nat  BY <1>1, <1>4, Zenon DEF InFlight, Counted, TypeInv
<1>12. cpc'[c] = "send" => sent[c] < MESSAGES  BY <1>4, Zenon
<1>13. cpc'[c] = "close" => sent[c] = MESSAGES
  <2>1. ~(sent[c] < MESSAGES) => sent[c] = MESSAGES  BY <1>11, TcpEchoAssumption
  <2> QED  BY <1>4, <2>1, Zenon
<1>14. cpc'[c] \in {"send", "close"} /\ (c \in torn => c \in torn')  BY <1>3, <1>4, Zenon DEF Torn
<1>15. Counted'  BY <1>4, <1>10, <1>12, <1>14, Zenon DEF InFlight, Counted
<1>16. ASSUME c \notin torn' PROVE c2s[c] = <<>> /\ s2c'[c] = <<>> /\ (running => got'[c] = said[c])
  <2>1. c \notin torn /\ p = s2c[c] /\ q = <<>>  BY <1>5, <1>7, <1>16, Zenon
  <2>2. c2s[c] = <<>>  BY <1>4, <2>1, Zenon DEF InFlight, Whole
  <2>3. c \notin cut  BY <2>1, Zenon DEF InFlight, Counted
  <2>4. ASSUME running PROVE got'[c] = said[c]
    <3>1. c \notin closed
      <4>1. c \in closed => Gone(c)  BY <2>4, Zenon DEF ClosedForCause
      <4> QED  BY <1>1, <1>10, <2>3, <4>1, Zenon DEF Gone, TypeInv
    <3>2. (got[c] \o s2c[c]) \o c2s[c] = said[c]  BY <1>10, <2>3, <3>1, Zenon DEF InFlight, Ordered
    <3>3. got[c] \o s2c[c] \in Seq(Byte)  BY <1>2, Joined, Zenon
    <3>4. (got[c] \o s2c[c]) \o <<>> = got[c] \o s2c[c]  BY <3>3, NothingJoined, Zenon
    <3> QED  BY <1>6, <2>1, <2>2, <3>2, <3>4, Zenon
  <2> QED  BY <1>6, <2>1, <2>2, <2>4, Zenon
<1>17. Whole'  BY <1>4, <1>13, <1>16, Zenon DEF Whole
<1> QED  BY <1>9, <1>15, <1>17, Zenon DEF InFlight

\* The tcp_client sends one message, takes what it is sent back, and closes when it
\* has sent all of them, or the server has closed, or the connection has failed.
LEMMA DialerInFlight ==
    ASSUME EchoInv, ClosedForCause, InFlight,
           Connect(Dialer) \/ Talk(Dialer) \/ Leave(Dialer) \/ Network(Dialer)
    PROVE  InFlight'
<1> DEFINE c == Dialer
<1>1. TypeInv /\ c \in Client /\ c \in Lockstep /\ c \notin Free  BY DialerClient, Zenon DEF EchoInv
<1>2. CASE Connect(Dialer)
  <2>1. cpc[c] = "connect" /\ cpc'[c] = "send" /\ UNCHANGED <<running, c2s, s2c, fin, closed, cut, sent, said, got, torn>>
    BY <1>1, <1>2, Zenon DEF Connect, TypeInv, server
  <2>2. Ordered'  BY <2>1, Zenon DEF InFlight, Ordered, Begins
  <2>3. sent[c] = 0 /\ 0 < MESSAGES /\ c \notin fin
    <3>1. 0 < MESSAGES  BY TcpEchoAssumption
    <3> QED  BY <2>1, <3>1, Zenon DEF InFlight, Counted
  <2>4. Counted'  BY <2>1, <2>3, Zenon DEF InFlight, Counted
  <2>5. Whole'  BY <2>1, Zenon DEF InFlight, Whole
  <2> QED  BY <2>2, <2>4, <2>5, Zenon DEF InFlight
<1>3. CASE Leave(Dialer)
  <2>1. /\ cpc'[c] = "done" /\ c \in fin' /\ s2c'[c] = <<>>
        /\ UNCHANGED <<running, c2s, closed, cut, sent, said, got, torn>>
    BY <1>1, <1>3, Zenon DEF Leave, TypeInv, server
  <2>2. Ordered'
    <3>1. /\ got[Dialer] \in Seq(Byte) /\ said[Dialer] \in Seq(Byte) /\ s2c[Dialer] \in Seq(Byte)
      BY <1>1, DialerBytes, Zenon
    <3>2. Begins(got[c] \o s2c[c], said[c])  BY Zenon DEF InFlight, Ordered
    <3>3. Begins(got[c], said[c])  BY <3>1, <3>2, BeginsShorter, Zenon
    <3>4. got[c] \o <<>> = got[c]  BY <3>1, NothingJoined, Zenon
    <3>5. Begins(got[c] \o s2c'[c], said[c])  BY <2>1, <3>3, <3>4, Zenon
    <3> QED  BY <2>1, <3>5, Zenon DEF Ordered, Begins
  <2>3. Counted' /\ Whole'  BY <2>1, Zenon DEF InFlight, Counted, Whole
  <2> QED  BY <2>2, <2>3, Zenon DEF InFlight
<1>4. CASE Send(Dialer)  BY <1>4, DialerSendInFlight, Zenon
<1>5. CASE Recv(Dialer)  BY <1>5, DialerRecvInFlight, Zenon
<1>6. CASE RecvEnd(Dialer) \/ Unanswered(Dialer)
  <2>1. /\ cpc[c] = "recv" /\ cpc'[c] = "close" /\ (c \in closed \ cut \/ c \in cut)
        /\ UNCHANGED <<running, c2s, s2c, fin, closed, cut, told, sent, said, got, torn>>
    BY <1>1, <1>6, Zenon DEF RecvEnd, Unanswered, RecvFails, TypeInv, server, network
  <2>2. c \notin fin  BY <2>1, Zenon DEF InFlight, Counted
  <2>3. c \in torn \/ ~running
    <3>1. CASE c \in cut  BY <3>1, Zenon DEF InFlight, Counted
    <3>2. CASE c \in closed \ cut
      <4>1. running => Gone(c)  BY <3>2, Zenon DEF ClosedForCause
      <4> QED  BY <1>1, <2>2, <3>2, <4>1, Zenon DEF Gone, TypeInv
    <3> QED  BY <2>1, <3>1, <3>2, Zenon
  <2>4. Ordered'  BY <2>1, Zenon DEF InFlight, Ordered, Begins
  <2>5. Counted'  BY <2>1, <2>2, Zenon DEF InFlight, Counted
  <2>6. Whole'  BY <2>1, <2>3, Zenon DEF InFlight, Whole
  <2> QED  BY <2>4, <2>5, <2>6, Zenon DEF InFlight
<1>7. CASE Cut(Dialer)
  <2>1. c \in torn' /\ c \in cut' /\ UNCHANGED <<running, cpc, c2s, s2c, fin, closed, sent, said, got>>
    BY <1>7, Zenon DEF Cut, server, clients
  <2>2. Ordered'  BY <2>1, Zenon DEF InFlight, Ordered, Begins
  <2>3. Counted' /\ Whole'  BY <2>1, Zenon DEF InFlight, Counted, Whole
  <2> QED  BY <2>2, <2>3, Zenon DEF InFlight
<1>8. CASE Keepalive(Dialer)
  BY <1>8, SameInFlight, ZenonT(40) DEF Keepalive, server, clients
<1> QED  BY <1>1, <1>2, <1>3, <1>4, <1>5, <1>6, <1>7, <1>8, Zenon DEF Talk, Close, SendFreely, Network

-----------------------------------------------------------------------------
(* The client, the server and the network together *)

\* The client and the server start with the invariant.
LEMMA InitDemoInv == DemoInit => DemoInv
<1> SUFFICES ASSUME DemoInit PROVE DemoInv  BY Zenon
<1>1. Init /\ Dial!Init  BY Zenon DEF DemoInit
<1>2. Talking  BY <1>1, DialerClient, Zenon DEF Dial!Init, Talking
<1> QED  BY <1>1, <1>2, InitDialInv, InitEchoInv, InitClosedForCause, InitInFlight, Zenon DEF DemoInv, EchoInv

\* A step of the server, of another client or its network, or a signal.
LEMMA ElsewhereDemoInv ==
    ASSUME DemoInv, UNCHANGED dialVars,
           Server \/ Sigterm \/ \E c \in Free : Connect(c) \/ Talk(c) \/ Network(c)
    PROVE  DemoInv'
<1>1. EchoInv  BY Zenon DEF DemoInv, EchoInv
<1>2. DialInv'  BY Zenon DEF DemoInv, DialInv, dialVars
<1>3. CASE Server \/ Sigterm
  <2>1. EchoInv'  BY <1>1, <1>3, ServerEchoInv, Zenon
  <2>2. ClosedForCause'  BY <1>1, <1>3, ServerClosedForCause, Zenon DEF DemoInv
  <2>3. InFlight'  BY <1>1, <1>3, ServerInFlight, Zenon DEF DemoInv
  <2>4. UNCHANGED clients /\ torn \subseteq torn' /\ (running' => running)
    <3>1. CASE Check  BY <3>1, Zenon DEF Check
    <3>2. CASE BatchDone  BY <3>2, Zenon DEF BatchDone
    <3>3. CASE Sigterm  BY <3>3, Zenon DEF Sigterm
    <3>4. CASE EpollWait  BY <3>4, Zenon DEF EpollWait
    <3>5. CASE NewConnection  BY <3>5, Zenon DEF NewConnection
    <3>6. CASE Shutdown  BY <3>6, Zenon DEF Shutdown
    <3>7. CASE \E f \in Fd : PeerClosed(f)
      <4>1. PICK f \in Fd : PeerClosed(f)  BY <3>7, Zenon
      <4> QED  BY <4>1, Zenon DEF PeerClosed, Disconnect
    <3>8. CASE \E f \in Fd : Reply(f)
      <4>1. PICK f \in Fd : Reply(f)  BY <3>8, Zenon
      <4>2. UNCHANGED <<running, clients>>  BY <4>1, Zenon DEF Reply
      <4>3. \E k : Torn(conn[f], k, c2s[conn[f]])  BY <4>1, Zenon DEF Reply
      <4> QED  BY <4>2, <4>3, Zenon DEF Torn
    <3> QED  BY <1>3, <3>1, <3>2, <3>3, <3>4, <3>5, <3>6, <3>7, <3>8, ZenonT(40) DEF Server
  <2>5. Talking'  BY <2>4, Zenon DEF DemoInv, Talking, dialVars, clients
  <2> QED  BY <1>2, <2>1, <2>2, <2>3, <2>5, Zenon DEF DemoInv, EchoInv
<1>4. ASSUME NEW c \in Free, Connect(c) \/ Talk(c) \/ Network(c) PROVE DemoInv'
  <2>1. c \in Client  BY Zenon DEF Client
  <2>2. EchoInv'  BY <1>1, <1>4, <2>1, TalkEchoInv, Zenon
  <2>3. ClosedForCause'  BY <1>1, <1>4, <2>1, TalkClosedForCause, Zenon DEF DemoInv
  <2>4. /\ InFlight' /\ cpc'[Dialer] = cpc[Dialer] /\ sent'[Dialer] = sent[Dialer]
        /\ said'[Dialer] = said[Dialer] /\ got'[Dialer] = got[Dialer]
        /\ (Dialer \in torn => Dialer \in torn') /\ running' = running
    BY <1>1, <1>4, OthersInFlight, Zenon DEF DemoInv
  <2>5. Talking'  BY <2>4, Zenon DEF DemoInv, Talking, dialVars
  <2> QED  BY <1>2, <2>2, <2>3, <2>4, <2>5, Zenon DEF DemoInv, EchoInv
<1> QED  BY <1>3, <1>4, Zenon

\* A step of connect_with_timeout or of the network that the server does not see.
LEMMA UnseenDemoInv ==
    ASSUME DemoInv, Dial!Next, \A a \in Dial!Address : link'[a] = "up" <=> link[a] = "up", UNCHANGED vars
    PROVE  DemoInv'
<1>1. DialInv'  BY StepDialInv, Zenon DEF DemoInv
<1>2. UNCHANGED <<srv, running, limit, conn, batch, backlog, rdl, c2s, s2c, fin, closed, cut, told, cpc, sent, said, got, torn>>
  BY Zenon DEF vars, server, network, clients
<1>3. TypeInv'  BY <1>2, Zenon DEF DemoInv, TypeInv
<1>4. OnePlace' /\ ListedOnce'  BY <1>2, Zenon DEF DemoInv, OnePlace, ListedOnce, Distinct
<1>5. EventHolds'  BY <1>2, Zenon DEF DemoInv, EventHolds, Gone
<1>6. ClosedForCause'  BY <1>2, Zenon DEF DemoInv, ClosedForCause, Gone
<1>7. InFlight'  BY <1>2, SameInFlight, Zenon DEF DemoInv
<1>8. Talking'  BY <1>2, DialerClient, Zenon DEF DemoInv, Talking
<1> QED  BY <1>1, <1>3, <1>4, <1>5, <1>6, <1>7, <1>8, Zenon DEF DemoInv

\* The connection that comes up is the one to the server.
LEMMA EstablishedDemoInv ==
    ASSUME DemoInv, Dial!Connect \/ Dial!Answer, link[Served] # "up", link'[Served] = "up", Connect(Dialer)
    PROVE  DemoInv'
<1>1. EchoInv  BY Zenon DEF DemoInv, EchoInv
<1>2. DialInv'  BY StepDialInv, Zenon DEF DemoInv, Dial!Next, Dial!Call
<1>3. EchoInv'  BY <1>1, DialerClient, TalkEchoInv, Zenon
<1>4. ClosedForCause'  BY <1>1, DialerClient, TalkClosedForCause, Zenon DEF DemoInv
<1>5. InFlight'  BY <1>1, DialerInFlight, Zenon DEF DemoInv
<1>6. Talking'
  <2>1. link \in [Dial!Address -> {"idle", "pending", "up", "down"}]  BY Zenon DEF DemoInv, DialInv
  <2>2. link' = link \/ \E x, s : link' = [link EXCEPT ![x] = s]  BY Zenon DEF Dial!Connect, Dial!Answer
  <2>3. \A a \in Dial!Address : a # Served => link'[a] = link[a]  BY <2>1, <2>2, DialerClient, Zenon
  <2>4. cpc'[Dialer] = "send"  BY <1>1, DialerClient, Zenon DEF Connect, EchoInv, TypeInv
  <2> QED  BY <2>3, <2>4, Zenon DEF DemoInv, Talking
<1> QED  BY <1>2, <1>3, <1>4, <1>5, <1>6, Zenon DEF DemoInv, EchoInv

\* A connection given up is no longer up.
LEMMA AbandonedDemoInv ==
    ASSUME DemoInv, Abandoned
    PROVE  DemoInv'
<1>1. EchoInv  BY Zenon DEF DemoInv, EchoInv
<1>2. Dial!GiveUp /\ link[r] = "up" /\ Leave(Dialer)  BY Zenon DEF Abandoned
<1>3. DialInv'  BY <1>2, StepDialInv, Zenon DEF DemoInv, Dial!Next, Dial!Call
<1>4. EchoInv'  BY <1>1, <1>2, DialerClient, TalkEchoInv, Zenon
<1>5. ClosedForCause'  BY <1>1, <1>2, DialerClient, TalkClosedForCause, Zenon DEF DemoInv
<1>6. InFlight'  BY <1>1, <1>2, DialerInFlight, Zenon DEF DemoInv
<1>7. Talking'
  <2>1. r \in Dial!Address /\ sfd = r
    BY <1>2, TcpDemoAssumption DEF DemoInv, DialInv, Dial!GiveUp, Dial!Address
  <2>2. link \in [Dial!Address -> {"idle", "pending", "up", "down"}]  BY Zenon DEF DemoInv, DialInv
  <2>3. r = Served  BY <1>2, <2>1, Zenon DEF DemoInv, Talking
  <2>4. link' = [link EXCEPT ![r] = "idle"]  BY <1>2, Zenon DEF Dial!GiveUp, Dial!Closed
  <2>5. link'[Served] = "idle" /\ \A a \in Dial!Address : a # Served => link'[a] = link[a]
    BY <2>1, <2>2, <2>3, <2>4, Zenon
  <2> QED  BY <2>5, Zenon DEF DemoInv, Talking
<1> QED  BY <1>3, <1>4, <1>5, <1>6, <1>7, Zenon DEF DemoInv, EchoInv

\* Without a connection the program ends.
LEMMA NoConnectionDemoInv ==
    ASSUME DemoInv, NoConnection
    PROVE  DemoInv'
<1>1. EchoInv /\ TypeInv  BY Zenon DEF DemoInv, EchoInv
<1>2. cpc[Dialer] = "connect" /\ UNCHANGED <<dpc, count, r, sfd, open, watched, blocking, link>>
  BY Zenon DEF NoConnection, dialVars
<1>3. UNCHANGED <<srv, running, limit, conn, batch, backlog, rdl, c2s, s2c, fin, closed, cut, told, sent, said, got, torn>>
  BY Zenon DEF NoConnection, server, network
<1>4. /\ cpc' \in [Client -> {"connect", "send", "recv", "close", "done"}] /\ cpc'[Dialer] = "done"
      /\ \A d \in Client \ {Dialer} : cpc'[d] = cpc[d]
  BY <1>1, DialerClient, Zenon DEF NoConnection, TypeInv
<1>5. DialInv'  BY <1>2, Zenon DEF DemoInv, DialInv
<1>6. EchoInv'
  <2>1. rdl' \in Seq(Sock) /\ Distinct(rdl')  BY <1>1, <1>3, Zenon DEF EchoInv, TypeInv, ListedOnce, Sock
  <2>2. TypeInv'  BY <1>1, <1>3, <1>4, Zenon DEF TypeInv
  <2>3. \A d \in Client : Gone(d) => Gone(d)'  BY <1>3, Zenon DEF Gone
  <2>4. \A d \in Client : c2s'[d] = <<>> => c2s[d] = <<>>  BY <1>3, Zenon
  <2>5. \A d \in Client : cpc'[d] = "connect" => cpc[d] = "connect"  BY <1>4, Zenon
  <2> QED  BY <1>1, <1>3, <2>1, <2>2, <2>3, <2>4, <2>5, ClientEchoInv, Zenon
<1>7. ClosedForCause'
  <2>1. closed \subseteq Client  BY <1>1, Zenon DEF TypeInv
  <2> QED  BY <1>3, <1>4, <2>1, Zenon DEF DemoInv, ClosedForCause, Gone
<1>8. InFlight'
  <2>1. Ordered'  BY <1>3, Zenon DEF DemoInv, InFlight, Ordered, Begins
  <2>2. Counted' /\ Whole'  BY <1>2, <1>3, <1>4, Zenon DEF DemoInv, InFlight, Counted, Whole
  <2> QED  BY <2>1, <2>2, Zenon DEF InFlight
<1>9. Talking'  BY <1>2, <1>3, <1>4, Zenon DEF DemoInv, Talking
<1> QED  BY <1>5, <1>6, <1>7, <1>8, <1>9, Zenon DEF DemoInv, EchoInv

\* The exchange ends with all echoes, unless the server was told to stop, the
\* connection failed or a recv returned part of what was sent.
LEMMA ExchangeDemoInv ==
    ASSUME DemoInv, Exchange
    PROVE  DemoInv'
<1>1. EchoInv /\ TypeInv  BY Zenon DEF DemoInv, EchoInv
<1>2. Talk(Dialer) /\ UNCHANGED <<dpc, count, r, sfd, open, watched, blocking, link>>
  BY Zenon DEF Exchange, dialVars
<1>3. DialInv'  BY <1>2, Zenon DEF DemoInv, DialInv
<1>4. EchoInv'  BY <1>1, <1>2, DialerClient, TalkEchoInv, Zenon
<1>5. ClosedForCause'  BY <1>1, <1>2, DialerClient, TalkClosedForCause, Zenon DEF DemoInv
<1>6. InFlight'  BY <1>1, <1>2, DialerInFlight, Zenon DEF DemoInv
<1>7. Talking'
  <2>1. cpc'[Dialer] # "connect" /\ running' = running
    BY <1>1, <1>2, DialerClient, Zenon DEF Talk, Send, SendFreely, Recv, RecvEnd, RecvFails, Close, Leave, TypeInv, server
  <2>2. cpc'[Dialer] = "done" => cpc[Dialer] = "close" /\ UNCHANGED <<sent, said, got, torn>>
    BY <1>1, <1>2, DialerClient, Zenon DEF Talk, Send, SendFreely, Recv, RecvEnd, RecvFails, Close, Leave, TypeInv
  <2>3. cpc'[Dialer] = "done" /\ running' /\ Dialer \notin torn' => sent'[Dialer] = MESSAGES /\ got'[Dialer] = said'[Dialer]
    BY <2>1, <2>2, Zenon DEF DemoInv, InFlight, Whole
  <2> QED  BY <1>2, <2>1, <2>3, Zenon DEF DemoInv, Talking
<1> QED  BY <1>3, <1>4, <1>5, <1>6, <1>7, Zenon DEF DemoInv, EchoInv

\* The network fails the tcp_client's connection, or one of its ends learns of it.
LEMMA FailureDemoInv ==
    ASSUME DemoInv, Network(Dialer), UNCHANGED dialVars
    PROVE  DemoInv'
<1>1. EchoInv /\ TypeInv  BY Zenon DEF DemoInv, EchoInv
<1>2. DialInv'  BY Zenon DEF DemoInv, DialInv, dialVars
<1>3. EchoInv'  BY <1>1, DialerClient, TalkEchoInv, Zenon
<1>4. ClosedForCause'  BY <1>1, DialerClient, TalkClosedForCause, Zenon DEF DemoInv
<1>5. InFlight'  BY <1>1, DialerInFlight, Zenon DEF DemoInv
<1>6. Talking'
  <2>1. /\ cpc'[Dialer] = cpc[Dialer] \/ cpc'[Dialer] = "close"
        /\ UNCHANGED <<sent, said, got, running>> /\ torn \subseteq torn'
    BY <1>1, DialerClient, Zenon DEF Network, Cut, Keepalive, Unanswered, RecvFails, TypeInv, server, clients
  <2> QED  BY <2>1, Zenon DEF DemoInv, Talking, dialVars
<1> QED  BY <1>2, <1>3, <1>4, <1>5, <1>6, Zenon DEF DemoInv, EchoInv

\* In every reachable state: connect_with_timeout's socket is in order, a connection
\* is in one place, no event is stale, the server closes only for cause, and the
\* bytes of the tcp_client are on their way in order.
THEOREM TcpInvariance == DemoSpec => []DemoInv
<1>1. DemoInit => DemoInv  BY InitDemoInv, Zenon
<1>2. DemoInv /\ [DemoNext]_allVars => DemoInv'
  <2> SUFFICES ASSUME DemoInv, [DemoNext]_allVars PROVE DemoInv'  BY Zenon
  <2>1. CASE UNCHANGED allVars
    <3>1. UNCHANGED <<dpc, count, r, sfd, open, watched, blocking, link>>
      BY <2>1, Zenon DEF allVars, dialVars
    <3>2. UNCHANGED <<srv, running, limit, conn, batch, backlog, rdl, c2s, s2c, fin, closed, cut, told, cpc, sent, said, got, torn>>
      BY <2>1, Zenon DEF allVars, vars, server, network, clients
    <3>3. DialInv'  BY <3>1, Zenon DEF DemoInv, DialInv
    <3>4. TypeInv'  BY <3>2, Zenon DEF DemoInv, TypeInv
    <3>5. OnePlace' /\ ListedOnce'  BY <3>2, Zenon DEF DemoInv, OnePlace, ListedOnce, Distinct
    <3>6. EventHolds'  BY <3>2, Zenon DEF DemoInv, EventHolds, Gone
    <3>7. ClosedForCause'  BY <3>2, Zenon DEF DemoInv, ClosedForCause, Gone
    <3>8. InFlight'  BY <3>2, SameInFlight, Zenon DEF DemoInv
    <3>9. Talking'  BY <3>1, <3>2, Zenon DEF DemoInv, Talking
    <3> QED  BY <3>3, <3>4, <3>5, <3>6, <3>7, <3>8, <3>9, Zenon DEF DemoInv
  <2>2. CASE TcpServer \/ (Sigterm /\ UNCHANGED dialVars) \/ OtherClient
    BY <2>2, ElsewhereDemoInv, Zenon DEF TcpServer, OtherClient
  <2>9. CASE KeepaliveExpires \/ ConnectionFails
    <3>1. PICK c \in Client : Network(c) /\ UNCHANGED dialVars
      BY <2>9, Zenon DEF KeepaliveExpires, ConnectionFails, Network
    <3>2. c \in Free \/ c = Dialer  BY TcpDemoAssumption, Zenon DEF Client
    <3> QED  BY <3>1, <3>2, ElsewhereDemoInv, FailureDemoInv, Zenon
  <2>3. CASE Unseen(Dial!Call) \/ Unseen(Dial!Answer)
    BY <2>3, UnseenDemoInv, Zenon DEF Unseen, Dial!Next
  <2>4. CASE Established(Dial!Connect) \/ Established(Dial!Answer)
    BY <2>4, EstablishedDemoInv, Zenon DEF Established
  <2>5. CASE Abandoned  BY <2>5, AbandonedDemoInv, Zenon
  <2>6. CASE NoConnection  BY <2>6, NoConnectionDemoInv, Zenon
  <2>7. CASE Exchange  BY <2>7, ExchangeDemoInv, Zenon
  <2>8. CASE Over  BY <2>1, <2>8, Zenon DEF Over
  <2> QED  BY <2>1, <2>2, <2>3, <2>4, <2>5, <2>6, <2>7, <2>8, <2>9, Zenon DEF DemoNext, TcpClient
<1> QED  BY <1>1, <1>2, PTL DEF DemoSpec

\* No event of a batch is stale when its turn comes, for any number of clients and
\* descriptors and any batch size: accept4 never sees EAGAIN and handle_client never
\* its n <= 0.
THEOREM NoStaleEvent == DemoSpec => []EventHolds
<1>1. DemoInv => EventHolds  BY Zenon DEF DemoInv
<1> QED  BY <1>1, TcpInvariance, PTL

\* connect_with_timeout returns a connected blocking socket or -1 and leaks nothing,
\* however many addresses there are and whenever the network answers.
THEOREM UsableOrNoneHolds == DemoSpec => []UsableOrNone
<1>1. DemoInv => UsableOrNone  BY DialInvUsable, Zenon DEF DemoInv
<1> QED  BY <1>1, TcpInvariance, PTL

\* What a tcp_client prints is, but for the "ECHO: " of the replies, what it has
\* sent, from the first byte on and in order, however TCP splits it.  When it is done
\* it has printed every message, unless the server was told to stop, the connection
\* failed or a recv returned part of what was sent.
THEOREM EchoesComplete == DemoSpec => []AllReplied
<1>1. ASSUME DemoInv PROVE AllReplied
  <2>1. got[Dialer] \in Seq(Byte) /\ said[Dialer] \in Seq(Byte) /\ s2c[Dialer] \in Seq(Byte)
    BY <1>1, DialerBytes, Zenon DEF DemoInv
  <2>2. Begins(got[Dialer], said[Dialer])
    <3>1. Begins(got[Dialer] \o s2c[Dialer], said[Dialer])  BY <1>1, Zenon DEF DemoInv, InFlight, Ordered
    <3> QED  BY <2>1, <3>1, BeginsShorter, Zenon
  <2>3. ASSUME cpc[Dialer] = "done", dpc = "returned", sfd # -1, running, Dialer \notin torn
        PROVE  sent[Dialer] = MESSAGES /\ got[Dialer] = said[Dialer]
    <3>1. r \in Dial!Address /\ link[r] = "up"
      BY <1>1, <2>3, TcpDemoAssumption DEF DemoInv, DialInv, Dial!Address
    <3> QED  BY <1>1, <2>3, <3>1, Zenon DEF DemoInv, Talking
  <2> QED  BY <2>2, <2>3, Zenon DEF AllReplied
<1> QED  BY <1>1, TcpInvariance, PTL
=============================================================================
