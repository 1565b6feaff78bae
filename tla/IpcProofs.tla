------------------------------ MODULE IpcProofs ------------------------------
(***************************************************************************)
(* The pipes and the shared memory of 03_ipc, for every value of the       *)
(* constants.                                                              *)
(* pipe_demo.c: the child of the anonymous pipe gets the whole message,    *)
(* and no message sent through the FIFO is read twice, whichever runs are  *)
(* killed.                                                                 *)
(* shm_demo.c: the two semaphores are one token, and a run that does not   *)
(* overlap an earlier one hands its messages over one at a time, whatever  *)
(* killed runs have left behind.                                           *)
(***************************************************************************)
EXTENDS PipeDemo, ShmHandoff, TLAPS

-----------------------------------------------------------------------------
(* pipe_demo.c: demo_anon_pipe *)

Forked == child # "none"

\* The control points.  Before the fork there is no child; a child that has met the
\* end of file met it after the parent had closed the write end; SIGPIPE meets the
\* parent only after the child gave up or was killed.
AnonControl ==
    /\ parent \in {"pipe", "fork", "closeR", "write", "closeW", "wait", "done", "killed"}
    /\ child \in {"none", "closeW", "read", "closeR", "done", "errorR", "gave up", "killed"}
    /\ parent \in {"pipe", "fork"} => ~Forked
    /\ parent \in {"closeR", "write", "closeW", "wait", "killed"} => Forked
    /\ child \in {"closeR", "done"} => parent \in {"wait", "done"}
    /\ parent = "killed" => child \in {"gave up", "killed"}

\* Who holds which end.
AnonEnds ==
    Forked =>
      /\ writers = {p \in {"parent", "child"} :
                       \/ p = "child" /\ child = "closeW"
                       \/ p = "parent" /\ parent \in {"closeR", "write", "closeW"}}
      /\ readers = {p \in {"parent", "child"} :
                       \/ p = "child" /\ child \in {"closeW", "read", "closeR", "errorR"}
                       \/ p = "parent" /\ parent = "closeR"}

\* What the child has and what is still in the pipe is the message, once it has
\* been written; after the end of file nothing is in the pipe.
AnonBytes ==
    /\ received \in Seq(Nat) /\ pipe \in Seq(Nat)
    /\ received \o pipe = IF Forked /\ parent \in {"closeW", "wait", "done"}
                            THEN Anon!MessageBytes ELSE <<>>
    /\ child \in {"closeR", "done"} => pipe = <<>>

AnonInv == AnonControl /\ AnonEnds /\ AnonBytes

\* It holds before pipe().
LEMMA AnonInit == Anon!Init => AnonInv
<1> SUFFICES ASSUME Anon!Init PROVE AnonInv
  BY Zenon
<1>1. AnonControl /\ AnonEnds
  BY Zenon DEF Anon!Init, AnonControl, AnonEnds, Forked
<1>2. <<>> \o <<>> = <<>> /\ <<>> \in Seq(Nat)
  OBVIOUS
<1> QED BY <1>1, <1>2, Zenon DEF Anon!Init, AnonInv, AnonBytes, Forked

\* The message is a sequence of as many bytes as it is long.
LEMMA MessageType == Anon!MessageBytes \in Seq(Nat)
BY PipeDemoAssumption DEF Anon!MessageBytes

\* Two sequences of one length with the same elements are the same.
LEMMA SameElements ==
    ASSUME NEW S, NEW s \in Seq(S), NEW t \in Seq(S), Len(s) = Len(t),
           \A j \in 1 .. Len(s) : s[j] = t[j]
    PROVE  s = t
OBVIOUS

\* Whoever reads the front of a sequence and then the rest has it all.
LEMMA Rejoined ==
    ASSUME NEW S, NEW s \in Seq(S), NEW k \in 0 .. Len(s)
    PROVE  SubSeq(s, 1, k) \o SubSeq(s, k + 1, Len(s)) = s
<1> DEFINE f == SubSeq(s, 1, k) 
           b == SubSeq(s, k + 1, Len(s))
<1>1. f \in Seq(S) /\ Len(f) = k /\ \A j \in 1 .. k : f[j] = s[j]
  OBVIOUS
<1>2. b \in Seq(S) /\ Len(b) = Len(s) - k /\ \A j \in 1 .. Len(s) - k : b[j] = s[j + k]
  OBVIOUS
<1> HIDE DEF f, b
<1>3. /\ f \o b \in Seq(S) /\ Len(f \o b) = Len(s)
      /\ \A j \in 1 .. Len(s) : (f \o b)[j] = IF j <= k THEN f[j] ELSE b[j - k]
  BY <1>1, <1>2
<1>4. \A j \in 1 .. Len(s) : (f \o b)[j] = s[j]
  BY <1>1, <1>2, <1>3
<1>5. f \o b = s
  BY <1>3, <1>4, SameElements, Zenon
<1> QED BY <1>5, Zenon DEF f, b

\* A sequence over a set is one over a larger set.
LEMMA Wider == ASSUME NEW S, NEW T, S \subseteq T, NEW s \in Seq(S) PROVE s \in Seq(T)
<1>1. s \in [1 .. Len(s) -> T]
  OBVIOUS
<1> QED BY <1>1

\* Appending twice.
LEMMA ConcatTwice ==
    ASSUME NEW a \in Seq(Nat), NEW b \in Seq(Nat), NEW c \in Seq(Nat)
    PROVE  (a \o b) \o c = a \o (b \o c)
<1>1. /\ a \o b \in Seq(Nat) /\ Len(a \o b) = Len(a) + Len(b)
      /\ \A k \in 1 .. Len(a) + Len(b) : (a \o b)[k] = IF k <= Len(a) THEN a[k] ELSE b[k - Len(a)]
  OBVIOUS
<1>2. /\ b \o c \in Seq(Nat) /\ Len(b \o c) = Len(b) + Len(c)
      /\ \A k \in 1 .. Len(b) + Len(c) : (b \o c)[k] = IF k <= Len(b) THEN b[k] ELSE c[k - Len(b)]
  OBVIOUS
<1> DEFINE d == a \o b
           e == b \o c
<1> HIDE DEF d, e
<1>3. /\ d \o c \in Seq(Nat) /\ Len(d \o c) = Len(d) + Len(c)
      /\ \A k \in 1 .. Len(d) + Len(c) : (d \o c)[k] = IF k <= Len(d) THEN d[k] ELSE c[k - Len(d)]
  BY <1>1 DEF d
<1>4. /\ a \o e \in Seq(Nat) /\ Len(a \o e) = Len(a) + Len(e)
      /\ \A k \in 1 .. Len(a) + Len(e) : (a \o e)[k] = IF k <= Len(a) THEN a[k] ELSE e[k - Len(a)]
  BY <1>2 DEF e
<1>5. Len(a) \in Nat /\ Len(b) \in Nat /\ Len(c) \in Nat
  OBVIOUS
<1>6. Len(d) = Len(a) + Len(b) /\ Len(e) = Len(b) + Len(c)
  BY <1>1, <1>2, Zenon DEF d, e
<1>7. ASSUME NEW k \in 1 .. Len(d \o c) PROVE (d \o c)[k] = (a \o e)[k]
  <2>1. CASE k <= Len(a)
    BY <1>1, <1>3, <1>4, <1>5, <1>6, <2>1 DEF d
  <2>2. CASE Len(a) < k /\ k <= Len(a) + Len(b)
    <3>1. k - Len(a) \in 1 .. Len(b) + Len(c) /\ k - Len(a) <= Len(b)
      BY <1>3, <1>5, <1>6, <2>2
    <3>2. (d \o c)[k] = b[k - Len(a)]
      BY <1>1, <1>3, <1>5, <1>6, <2>2 DEF d
    <3>3. e[k - Len(a)] = b[k - Len(a)]
      BY <1>2, <3>1, Zenon DEF e
    <3>4. k \in 1 .. Len(a) + Len(e) /\ ~(k <= Len(a))
      BY <1>3, <1>5, <1>6, <2>2
    <3> QED BY <1>4, <3>2, <3>3, <3>4, Zenon
  <2>3. CASE Len(a) + Len(b) < k
    <3>1. k - Len(a) \in 1 .. Len(b) + Len(c) /\ ~(k - Len(a) <= Len(b)) /\ (k - Len(a)) - Len(b) = k - Len(d)
      BY <1>3, <1>5, <1>6, <2>3
    <3>2. (d \o c)[k] = c[k - Len(d)]
      BY <1>3, <1>5, <1>6, <2>3, SMTT(30)
    <3>3. e[k - Len(a)] = c[k - Len(d)]
      BY <1>2, <3>1, Zenon DEF e
    <3>4. k \in 1 .. Len(a) + Len(e) /\ ~(k <= Len(a))
      BY <1>3, <1>5, <1>6, <2>3
    <3> QED BY <1>4, <3>2, <3>3, <3>4, Zenon
  <2>4. k \in Int
    BY <1>3, <1>5, <1>6
  <2>5. k <= Len(a) \/ (Len(a) < k /\ k <= Len(a) + Len(b)) \/ Len(a) + Len(b) < k
    BY <1>5, <2>4
  <2> QED BY <2>1, <2>2, <2>3, <2>5, Zenon
<1>8. d \o c = a \o e
  <2> DEFINE f == d \o c
             g == a \o e
  <2>1. f \in Seq(Nat) /\ g \in Seq(Nat) /\ Len(f) = Len(g)
    BY <1>3, <1>4, <1>5, <1>6
  <2>2. \A k \in 1 .. Len(f) : f[k] = g[k]
    BY <1>7, Zenon
  <2> HIDE DEF f, g
  <2>3. f = g
    BY <2>1, <2>2, SameElements, Zenon
  <2> QED BY <2>3, Zenon DEF f, g
<1> QED BY <1>8, Zenon DEF d, e

\* A read takes the front of the pipe: nothing is lost between the two.
LEMMA ReadKeeps ==
    ASSUME received \in Seq(Nat), pipe \in Seq(Nat), Anon!ChildRead
    PROVE  /\ received' \in Seq(Nat) /\ pipe' \in Seq(Nat)
           /\ received' \o pipe' = received \o pipe
<1> DEFINE k == IF Len(pipe) < READ_MAX THEN Len(pipe) ELSE READ_MAX
<1>1. k \in 0 .. Len(pipe) /\ Len(pipe) \in Nat
  BY PipeDemoAssumption
<1>2. received' = received \o SubSeq(pipe, 1, k) /\ pipe' = SubSeq(pipe, k + 1, Len(pipe))
  BY Zenon DEF Anon!ChildRead, Anon!Left
<1> HIDE DEF k
<1>3. SubSeq(pipe, 1, k) \in Seq(Nat) /\ SubSeq(pipe, k + 1, Len(pipe)) \in Seq(Nat)
  BY <1>1, SMTT(30)
<1>4. SubSeq(pipe, 1, k) \o SubSeq(pipe, k + 1, Len(pipe)) = pipe
  BY <1>1, Rejoined, Zenon
<1>5. (received \o SubSeq(pipe, 1, k)) \o SubSeq(pipe, k + 1, Len(pipe))
      = received \o (SubSeq(pipe, 1, k) \o SubSeq(pipe, k + 1, Len(pipe)))
  BY <1>3, ConcatTwice, ZenonT(40)
<1>6. received \o SubSeq(pipe, 1, k) \in Seq(Nat)
  BY <1>3
<1> QED BY <1>2, <1>3, <1>4, <1>5, <1>6, Zenon

\* Every step of the two processes keeps it.
LEMMA AnonStep == AnonInv /\ [Anon!Next]_anonVars => AnonInv'
<1> SUFFICES ASSUME AnonInv, [Anon!Next]_anonVars PROVE AnonInv'
  BY Zenon
<1>1. ASSUME UNCHANGED <<received, pipe>>, AnonControl', AnonEnds', child' \in {"closeR", "done"} => pipe = <<>>,
             (Forked /\ parent \in {"closeW", "wait", "done"})'
             <=> (Forked /\ parent \in {"closeW", "wait", "done"})
      PROVE  AnonInv'
  BY <1>1, Zenon DEF AnonInv, AnonBytes
<1>2. CASE Anon!Pipe
  BY <1>1, <1>2, Zenon DEF Anon!Pipe, AnonInv, AnonControl, AnonEnds, Forked
<1>3. CASE Anon!Fork
  BY <1>1, <1>3, Zenon DEF Anon!Fork, AnonInv, AnonControl, AnonEnds, Forked, Anon!Both
<1>4. CASE Anon!ParentCloseR
  BY <1>1, <1>4, Zenon DEF Anon!ParentCloseR, AnonInv, AnonControl, AnonEnds, AnonBytes, Forked
<1>5. CASE Anon!ParentWrite /\ readers = {}
  <2>1. AnonControl' /\ AnonEnds'
    BY <1>5, Zenon DEF Anon!ParentWrite, AnonInv, AnonControl, AnonEnds, Forked
  <2> QED BY <1>1, <1>5, <2>1, Zenon DEF Anon!ParentWrite, AnonInv, AnonControl, AnonBytes, Forked
<1>6. CASE Anon!ParentWrite /\ readers # {}
  <2>1. AnonControl' /\ AnonEnds'
    BY <1>6, Zenon DEF Anon!ParentWrite, AnonInv, AnonControl, AnonEnds, Forked
  <2>2. received \in Seq(Nat) /\ pipe \in Seq(Nat) /\ received \o pipe = <<>>
    BY <1>6, Zenon DEF Anon!ParentWrite, AnonInv, AnonControl, AnonBytes
  <2>3. received = <<>> /\ pipe = <<>>
    BY <2>2
  <2>4. pipe' = Anon!MessageBytes /\ received' = <<>>
    BY <1>6, <2>3, MessageType DEF Anon!ParentWrite
  <2>5. received' \o pipe' = Anon!MessageBytes
    BY <2>4, MessageType
  <2>6. Forked' /\ parent' = "closeW" /\ child' \notin {"closeR", "done"}
    BY <1>6, Zenon DEF Anon!ParentWrite, AnonInv, AnonControl, Forked
  <2> QED BY <2>1, <2>2, <2>4, <2>5, <2>6, MessageType DEF AnonInv, AnonBytes
<1>7. CASE Anon!ParentCloseW
  BY <1>1, <1>7, Zenon DEF Anon!ParentCloseW, AnonInv, AnonControl, AnonEnds, AnonBytes, Forked
<1>8. CASE Anon!WaitPid
  BY <1>1, <1>8, Zenon DEF Anon!WaitPid, AnonInv, AnonControl, AnonEnds, AnonBytes, Forked
<1>9. CASE Anon!ChildCloseW
  BY <1>1, <1>9, Zenon DEF Anon!ChildCloseW, AnonInv, AnonControl, AnonEnds, AnonBytes, Forked
<1>10. CASE Anon!ChildRead
  <2>1. UNCHANGED <<parent, child, readers, writers>> /\ child = "read"
    BY <1>10, Zenon DEF Anon!ChildRead
  <2>2. AnonControl' /\ AnonEnds'
    BY <2>1, Zenon DEF AnonInv, AnonControl, AnonEnds, Forked
  <2>3. AnonBytes'
    BY <1>10, <2>1, ReadKeeps, Zenon DEF AnonInv, AnonBytes, Forked
  <2> QED BY <2>2, <2>3, Zenon DEF AnonInv
<1>11. CASE Anon!ChildEof
  <2>1. parent \in {"wait", "done"}
    BY <1>11, Zenon DEF Anon!ChildEof, Anon!AtEof, AnonInv, AnonControl, AnonEnds, Forked
  <2>2. AnonControl' /\ AnonEnds'
    BY <1>11, <2>1, Zenon DEF Anon!ChildEof, AnonInv, AnonControl, AnonEnds, Forked
  <2> QED BY <1>1, <1>11, <2>1, <2>2, Zenon DEF Anon!ChildEof, Anon!AtEof, Forked
<1>12. CASE Anon!ChildCloseR
  BY <1>1, <1>12, Zenon DEF Anon!ChildCloseR, AnonInv, AnonControl, AnonEnds, AnonBytes, Forked
<1>13. CASE Anon!ChildKilled
  BY <1>1, <1>13, Zenon DEF Anon!ChildKilled, AnonInv, AnonControl, AnonEnds, AnonBytes, Forked
<1>14. CASE UNCHANGED anonVars
  BY <1>14, ZenonT(40) DEF anonVars, AnonInv, AnonControl, AnonEnds, AnonBytes, Forked
<1>15. CASE Anon!ChildReadFails
  BY <1>1, <1>15, ZenonT(40) DEF Anon!ChildReadFails, AnonInv, AnonControl, AnonEnds, AnonBytes, Forked
<1> QED
  BY <1>2, <1>3, <1>4, <1>5, <1>6, <1>7, <1>8, <1>9, <1>10, <1>11, <1>12, <1>13, <1>14, <1>15, Zenon DEF Anon!Next, Anon!Parent, Anon!Child

\* The end of file comes after the whole message.
LEMMA AnonResult == AnonInv => EofAfterWholeMessage
<1> SUFFICES ASSUME AnonInv, child \in {"closeR", "done"} PROVE received = Anon!MessageBytes
  BY Zenon DEF EofAfterWholeMessage, Anon!EofAfterWholeMessage
<1>1. received \in Seq(Nat) /\ pipe = <<>> /\ received \o pipe = Anon!MessageBytes
  BY Zenon DEF AnonInv, AnonControl, AnonBytes, Forked
<1> QED BY <1>1

-----------------------------------------------------------------------------
(* demo_named_pipe *)

\* Message m (named after the run that writes it) is in s.
In(m, s) == \E k \in DOMAIN s : s[k] = m

\* The run has written its message, or never will.
Sent(m) == writer[m] \in {"close", "wait", "unlink", "done", "killed"}

WriterAt ==
    {"ready", "fork", "open", "opening", "write", "close", "wait", "unlink", "done", "killed", "failed"}
ReaderAt == {"none", "open", "opening", "read", "close", "done", "killed"}

FifoType ==
    /\ writer \in [Runs -> WriterAt] /\ reader \in [Runs -> ReaderAt]
    /\ name \in 0 .. MaxRuns
    /\ rf \in [Runs -> 0 .. MaxRuns] /\ wf \in [Runs -> 0 .. MaxRuns]
    /\ held \in [Runs -> Seq(Runs)] /\ got \in [Runs -> Seq(0 .. MaxRuns)]

\* A process past its open has the FIFO open.
HasOpen ==
    /\ \A r \in Runs : writer[r] \in {"opening", "write", "close"} => wf[r] # None
    /\ \A r \in Runs : reader[r] \in {"opening", "read", "close"} => rf[r] # None

\* A message is nowhere before it has been sent, and then in one FIFO, or with one
\* reader, or gone.
OnePlace ==
    \A m, p, q \in Runs :
       /\ In(m, held[p]) \/ In(m, got[p]) => Sent(m)
       /\ In(m, held[p]) /\ In(m, held[q]) => p = q
       /\ In(m, got[p]) /\ In(m, got[q]) => p = q
       /\ ~ (In(m, held[p]) /\ In(m, got[q]))

FifoInv == FifoType /\ HasOpen /\ OnePlace

\* Nothing is in an empty FIFO, and a reader that has not read has no message.
LEMMA InNothing == \A m \in Runs : ~In(m, <<>>) /\ ~In(m, Pending)
BY DEF In, Pending, None, Runs

\* What a FIFO holds after a write.
LEMMA InAppend ==
    ASSUME NEW s \in Seq(Runs), NEW m \in Runs, NEW r \in Runs, In(m, Append(s, r))
    PROVE  In(m, s) \/ m = r
<1>1. PICK k \in 1 .. Len(s) + 1 : Append(s, r)[k] = m
  BY DEF In
<1>2. CASE k \in 1 .. Len(s)
  BY <1>1, <1>2 DEF In
<1>3. CASE k = Len(s) + 1
  BY <1>1, <1>3
<1> QED BY <1>1, <1>2, <1>3

\* Before the first run.
LEMMA FifoInit == Init => FifoInv
<1> SUFFICES ASSUME Init PROVE FifoInv
  BY Zenon
<1>1. Pending \in Seq(0 .. MaxRuns) /\ <<>> \in Seq(Runs)
  BY FifoDemoAssumption DEF Pending, None
<1>2. FifoType /\ HasOpen
  BY <1>1, FifoDemoAssumption DEF Init, FifoType, HasOpen, None, Runs, WriterAt, ReaderAt
<1>3. OnePlace
  BY InNothing, Zenon DEF Init, OnePlace
<1> QED BY <1>2, <1>3, Zenon DEF FifoInv

\* What is dropped is a whole FIFO's contents.
LEMMA KeptType ==
    ASSUME FifoType, NEW R, NEW W
    PROVE  /\ Kept(R, W) \in [Runs -> Seq(Runs)]
           /\ \A f \in Runs : Kept(R, W)[f] \in {<<>>, held[f]}
<1>1. <<>> \in Seq(Runs)
  OBVIOUS
<1> QED BY <1>1, Zenon DEF FifoType, Kept

\* A step that moves no message.
LEMMA SamePlace ==
    ASSUME OnePlace, got' = got, \A f \in Runs : held'[f] \in {<<>>, held[f]},
           \A m \in Runs : Sent(m) => Sent(m)'
    PROVE  OnePlace'
<1>1. \A m, f \in Runs : In(m, held'[f]) => In(m, held[f])
  BY InNothing, Zenon
<1> QED BY <1>1, ZenonT(40) DEF OnePlace

\* A change of one control point.
LEMMA WriterMoves ==
    ASSUME FifoType, NEW r \in Runs, NEW from, NEW to \in WriterAt, Writer(r, from, to)
    PROVE  /\ writer' \in [Runs -> WriterAt]
           /\ writer[r] = from /\ writer'[r] = to /\ \A q \in Runs \ {r} : writer'[q] = writer[q]
BY Zenon DEF FifoType, Writer

\* So does a child.
LEMMA ReaderMoves ==
    ASSUME FifoType, NEW r \in Runs, NEW from, NEW to \in ReaderAt, Reader(r, from, to)
    PROVE  /\ reader' \in [Runs -> ReaderAt]
           /\ reader[r] = from /\ reader'[r] = to /\ \A q \in Runs \ {r} : reader'[q] = reader[q]
BY Zenon DEF FifoType, Reader

\* A process opens a FIFO or closes the one it has open.
LEMMA FileMoves ==
    ASSUME NEW of \in [Runs -> 0 .. MaxRuns], NEW r \in Runs, NEW f \in 0 .. MaxRuns
    PROVE  /\ [of EXCEPT ![r] = f] \in [Runs -> 0 .. MaxRuns] /\ [of EXCEPT ![r] = f][r] = f
           /\ \A q \in Runs \ {r} : [of EXCEPT ![r] = f][q] = of[q]
BY Zenon

\* The steps of the parent.
LEMMA ParentFifo ==
    ASSUME FifoInv, NEW r \in Runs, Parent(r) PROVE FifoInv'
<1> USE DEF FifoInv
<1>0. None \in 0 .. MaxRuns /\ \A f : f \in 0 .. MaxRuns /\ f # None <=> f \in Runs
  BY FifoDemoAssumption DEF None, Runs
<1>1. ASSUME NEW from \in WriterAt, NEW to \in WriterAt, Writer(r, from, to),
             from \in {"close", "wait", "unlink", "done", "killed"}
             => to \in {"close", "wait", "unlink", "done", "killed"}
      PROVE  /\ writer' \in [Runs -> WriterAt] /\ writer[r] = from /\ writer'[r] = to
             /\ \A q \in Runs \ {r} : writer'[q] = writer[q]
             /\ \A m \in Runs : Sent(m) => Sent(m)'
  <2>1. /\ writer' \in [Runs -> WriterAt] /\ writer[r] = from /\ writer'[r] = to
        /\ \A q \in Runs \ {r} : writer'[q] = writer[q]
    BY <1>1, WriterMoves, Zenon
  <2> QED BY <1>1, <2>1, Zenon DEF Sent
<1>2. CASE MkFifo(r)
  <2>0. PICK w \in {"fork", "failed"} : Writer(r, "ready", w)
    BY <1>2, Zenon DEF MkFifo
  <2>1. name' \in 0 .. MaxRuns /\ UNCHANGED <<reader, rf, wf, held, got>>
    BY <1>2, <1>0, Zenon DEF MkFifo, FifoType
  <2>2. /\ writer' \in [Runs -> WriterAt] /\ writer'[r] = w
        /\ \A q \in Runs \ {r} : writer'[q] = writer[q]
        /\ \A m \in Runs : Sent(m) => Sent(m)'
    BY <1>1, <2>0, Zenon DEF WriterAt
  <2>3. FifoType' /\ HasOpen'
    BY <2>0, <2>1, <2>2, Zenon DEF FifoType, HasOpen
  <2> QED BY <2>1, <2>2, <2>3, SamePlace, Zenon
<1>3. CASE Fork(r)
  <2>1. PICK w \in {"open", "failed"} : Writer(r, "fork", w)
    BY <1>3, Zenon DEF Fork
  <2>2. UNCHANGED <<name, rf, wf, held, got>>
    BY <1>3, Zenon DEF Fork
  <2>3. /\ writer' \in [Runs -> WriterAt] /\ writer'[r] = w
        /\ \A q \in Runs \ {r} : writer'[q] = writer[q]
        /\ \A m \in Runs : Sent(m) => Sent(m)'
    BY <1>1, <2>1, Zenon DEF WriterAt
  <2>4. reader' \in [Runs -> ReaderAt] /\ \A q \in Runs : reader'[q] = "open" \/ reader'[q] = reader[q]
    <3>1. CASE reader' = reader
      BY <3>1, Zenon DEF FifoType
    <3>2. CASE reader' = [reader EXCEPT ![r] = "open"]
      BY <3>2, Zenon DEF FifoType, ReaderAt
    <3> QED BY <1>3, <3>1, <3>2, Zenon DEF Fork
  <2>5. FifoType'
    BY <2>2, <2>3, <2>4, Zenon DEF FifoType
  <2>6. HasOpen'
    BY <2>1, <2>2, <2>3, <2>4, Zenon DEF HasOpen
  <2> QED BY <2>2, <2>3, <2>5, <2>6, SamePlace, Zenon
<1>4. CASE OpenWrite(r)
  <2>1. PICK w \in {"opening", "write"} : Writer(r, "open", w)
    BY <1>4, Zenon DEF OpenWrite
  <2>2. /\ name \in Runs /\ UNCHANGED <<name, rf, held, got>>
        /\ wf' = [wf EXCEPT ![r] = name] /\ reader' = Released(Users(rf, name), reader, "read")
    BY <1>4, <1>0, Zenon DEF OpenWrite, FifoType
  <2>3. /\ writer' \in [Runs -> WriterAt] /\ writer'[r] = w
        /\ \A q \in Runs \ {r} : writer'[q] = writer[q]
        /\ \A m \in Runs : Sent(m) => Sent(m)'
    BY <1>1, <2>1, Zenon DEF WriterAt
  <2>4. wf' \in [Runs -> 0 .. MaxRuns] /\ wf'[r] # None /\ \A q \in Runs \ {r} : wf'[q] = wf[q]
    BY <1>0, <2>2, FileMoves, SMTT(30) DEF FifoType
  <2>5. reader' \in [Runs -> ReaderAt] /\ \A q \in Runs : reader'[q] = reader[q] \/ reader[q] = "opening"
    BY <2>2, Zenon DEF FifoType, Released, ReaderAt
  <2>6. FifoType'
    BY <2>2, <2>3, <2>4, <2>5, Zenon DEF FifoType
  <2>7. HasOpen'
    BY <2>2, <2>3, <2>4, <2>5, Zenon DEF HasOpen
  <2> QED BY <2>2, <2>3, <2>6, <2>7, SamePlace, Zenon
<1>5. CASE (Write(r) /\ Users(rf, wf[r]) = {}) \/ CloseWrite(r)
  <2>1. PICK from \in {"write", "close"}, w \in {"killed", "wait"} : Writer(r, from, w)
    BY <1>5, Zenon DEF Write, CloseWrite
  <2>2. wf' = Closed(wf, r) /\ held' = Kept(rf, wf') /\ UNCHANGED <<reader, name, rf, got>>
    BY <1>5, Zenon DEF Write, CloseWrite
  <2>3. /\ writer' \in [Runs -> WriterAt] /\ writer'[r] = w
        /\ \A q \in Runs \ {r} : writer'[q] = writer[q]
        /\ \A m \in Runs : Sent(m) => Sent(m)'
    BY <1>1, <2>1, Zenon DEF WriterAt
  <2>4. wf' \in [Runs -> 0 .. MaxRuns] /\ \A q \in Runs \ {r} : wf'[q] = wf[q]
    BY <1>0, <2>2, FileMoves DEF FifoType, Closed
  <2>5. held' \in [Runs -> Seq(Runs)] /\ \A f \in Runs : held'[f] \in {<<>>, held[f]}
    BY <2>2, KeptType, Zenon
  <2>6. FifoType'
    BY <2>2, <2>3, <2>4, <2>5, Zenon DEF FifoType
  <2>7. HasOpen'
    BY <2>1, <2>2, <2>3, <2>4, Zenon DEF HasOpen
  <2> QED BY <2>2, <2>3, <2>5, <2>6, <2>7, SamePlace, Zenon
<1>6. CASE Write(r) /\ Users(rf, wf[r]) # {}
  <2>1. /\ Writer(r, "write", "close") /\ held' = [held EXCEPT ![wf[r]] = Append(@, r)]
        /\ UNCHANGED <<reader, name, rf, wf, got>>
    BY <1>6, Zenon DEF Write
  <2>2. /\ writer' \in [Runs -> WriterAt] /\ writer[r] = "write" /\ writer'[r] = "close"
        /\ \A q \in Runs \ {r} : writer'[q] = writer[q]
        /\ \A m \in Runs : Sent(m) => Sent(m)'
    BY <1>1, <2>1, Zenon DEF WriterAt
  <2>3. wf[r] \in Runs
    BY <1>0, <2>2, Zenon DEF FifoType, HasOpen
  <2>4. held[wf[r]] \in Seq(Runs) /\ Append(held[wf[r]], r) \in Seq(Runs)
    BY <2>3 DEF FifoType
  <2>5. /\ held' \in [Runs -> Seq(Runs)] /\ held'[wf[r]] = Append(held[wf[r]], r)
        /\ \A f \in Runs \ {wf[r]} : held'[f] = held[f]
    BY <2>1, <2>3, <2>4, Zenon DEF FifoType
  <2>6. FifoType'
    BY <2>1, <2>2, <2>5, Zenon DEF FifoType
  <2>7. HasOpen'
    BY <2>1, <2>2, Zenon DEF HasOpen
  <2>8. ASSUME NEW m \in Runs, NEW f \in Runs, In(m, held'[f])
        PROVE  In(m, held[f]) \/ (m = r /\ f = wf[r])
    <3>1. CASE f = wf[r]
      <4>1. In(m, Append(held[wf[r]], r))
        BY <2>5, <2>8, <3>1, Zenon
      <4> QED BY <2>4, <3>1, <4>1, InAppend, Zenon
    <3>2. CASE f # wf[r]
      BY <2>5, <2>8, <3>2, Zenon
    <3> QED BY <3>1, <3>2, Zenon
  <2>9. Sent(r)' /\ ~Sent(r)
    BY <2>2, Zenon DEF Sent
  <2>10. OnePlace'
    BY <2>1, <2>2, <2>8, <2>9 DEF OnePlace
  <2> QED BY <2>6, <2>7, <2>10, Zenon
<1>7. CASE WaitPid(r) \/ Unlink(r)
  <2>1. PICK from \in {"wait", "unlink"}, w \in {"unlink", "done"} : Writer(r, from, w)
    BY <1>7, Zenon DEF WaitPid, Unlink
  <2>2. name' \in 0 .. MaxRuns /\ UNCHANGED <<reader, rf, wf, held, got>>
    BY <1>7, <1>0, Zenon DEF WaitPid, Unlink, FifoType
  <2>3. /\ writer' \in [Runs -> WriterAt] /\ writer'[r] = w
        /\ \A q \in Runs \ {r} : writer'[q] = writer[q]
        /\ \A m \in Runs : Sent(m) => Sent(m)'
    BY <1>1, <2>1, Zenon DEF WriterAt
  <2>4. FifoType'
    BY <2>2, <2>3, Zenon DEF FifoType
  <2>5. HasOpen'
    BY <2>1, <2>2, <2>3, Zenon DEF HasOpen
  <2> QED BY <2>2, <2>3, <2>4, <2>5, SamePlace, Zenon
<1> QED BY <1>2, <1>3, <1>4, <1>5, <1>6, <1>7, Zenon DEF Parent

\* The steps of the child.
LEMMA ChildFifo ==
    ASSUME FifoInv, NEW r \in Runs, Child(r) PROVE FifoInv'
<1> USE DEF FifoInv
<1>0. None \in 0 .. MaxRuns /\ \A f : f \in 0 .. MaxRuns /\ f # None <=> f \in Runs
  BY FifoDemoAssumption DEF None, Runs
<1>1. ASSUME writer' = writer PROVE \A m \in Runs : Sent(m) => Sent(m)'
  BY <1>1, Zenon DEF Sent
<1>2. CASE OpenRead(r)
  <2>1. PICK w \in {"opening", "read"} : Reader(r, "open", w)
    BY <1>2, Zenon DEF OpenRead
  <2>2. /\ name \in Runs /\ UNCHANGED <<name, wf, held, got>>
        /\ rf' = [rf EXCEPT ![r] = name] /\ writer' = Released(Users(wf, name), writer, "write")
    BY <1>2, <1>0, Zenon DEF OpenRead, FifoType
  <2>3. reader' \in [Runs -> ReaderAt] /\ reader'[r] = w /\ \A q \in Runs \ {r} : reader'[q] = reader[q]
    BY <2>1, ReaderMoves DEF ReaderAt
  <2>4. rf' \in [Runs -> 0 .. MaxRuns] /\ rf'[r] # None /\ \A q \in Runs \ {r} : rf'[q] = rf[q]
    BY <1>0, <2>2, FileMoves, SMTT(30) DEF FifoType
  <2>5. writer' \in [Runs -> WriterAt] /\ \A q \in Runs : writer'[q] = writer[q] \/ writer[q] = "opening"
    BY <2>2, Zenon DEF FifoType, Released, WriterAt
  <2>6. FifoType'
    BY <2>2, <2>3, <2>4, <2>5, Zenon DEF FifoType
  <2>7. HasOpen'
    BY <2>2, <2>3, <2>4, <2>5, Zenon DEF HasOpen
  <2>8. \A m \in Runs : Sent(m) => Sent(m)'
    BY <2>5, Zenon DEF Sent
  <2> QED BY <2>2, <2>6, <2>7, <2>8, SamePlace, Zenon
<1>3. CASE OpenReadFails(r)
  <2>1. PICK w \in {"done", "killed"} : Reader(r, "open", w)
    BY <1>3, Zenon DEF OpenReadFails
  <2>2. UNCHANGED <<writer, name, rf, wf, held, got>>
    BY <1>3, Zenon DEF OpenReadFails
  <2>3. reader' \in [Runs -> ReaderAt] /\ reader'[r] = w /\ \A q \in Runs \ {r} : reader'[q] = reader[q]
    BY <2>1, ReaderMoves, ZenonT(40) DEF ReaderAt
  <2>4. FifoType'
    BY <2>2, <2>3, Zenon DEF FifoType
  <2>5. HasOpen'
    BY <2>1, <2>2, <2>3, Zenon DEF HasOpen
  <2> QED BY <1>1, <2>2, <2>4, <2>5, SamePlace, Zenon
<1>4. CASE Read(r)
  <2>1. /\ Reader(r, "read", "close") /\ got' = [got EXCEPT ![r] = held[rf[r]]] /\ held' = Taken(rf[r])
        /\ UNCHANGED <<writer, name, rf, wf>>
    BY <1>4, Zenon DEF Read
  <2>2. /\ reader' \in [Runs -> ReaderAt] /\ reader[r] = "read" /\ reader'[r] = "close"
        /\ \A q \in Runs \ {r} : reader'[q] = reader[q]
    BY <2>1, ReaderMoves, Zenon DEF ReaderAt
  <2>3. rf[r] \in Runs
    BY <1>0, <2>2, Zenon DEF FifoType, HasOpen
  <2>4. held[rf[r]] \in Seq(0 .. MaxRuns)
    <3>1. Runs \subseteq 0 .. MaxRuns /\ held[rf[r]] \in Seq(Runs)
      BY <1>0, <2>3, Zenon DEF FifoType
    <3> QED BY <3>1, Wider, Zenon
  <2>5. /\ got' \in [Runs -> Seq(0 .. MaxRuns)] /\ got'[r] = held[rf[r]]
        /\ \A q \in Runs \ {r} : got'[q] = got[q]
    BY <2>1, <2>4, Zenon DEF FifoType
  <2>6. <<>> \in Seq(Runs)
    OBVIOUS
  <2>7. /\ held' \in [Runs -> Seq(Runs)] /\ held'[rf[r]] = <<>>
        /\ \A f \in Runs \ {rf[r]} : held'[f] = held[f]
    BY <2>1, <2>3, <2>6, Zenon DEF FifoType, Taken
  <2>8. FifoType'
    BY <2>1, <2>2, <2>5, <2>7, Zenon DEF FifoType
  <2>9. HasOpen'
    BY <2>1, <2>2, Zenon DEF HasOpen
  <2>10. \A m, f \in Runs : In(m, held'[f]) => In(m, held[f]) /\ f # rf[r]
    BY <2>7, InNothing, Zenon
  <2>11. \A m, q \in Runs : In(m, got'[q]) => In(m, got[q]) \/ (q = r /\ In(m, held[rf[r]]))
    BY <2>5, Zenon
  <2>12. OnePlace'
    BY <1>1, <2>1, <2>3, <2>10, <2>11 DEF OnePlace
  <2> QED BY <2>8, <2>9, <2>12, Zenon
<1>5. CASE CloseRead(r)
  <2>1. Reader(r, "close", "done") /\ rf' = Closed(rf, r) /\ held' = Kept(rf', wf) /\ UNCHANGED <<writer, name, wf, got>>
    BY <1>5, Zenon DEF CloseRead
  <2>2. reader' \in [Runs -> ReaderAt] /\ reader'[r] = "done" /\ \A q \in Runs \ {r} : reader'[q] = reader[q]
    BY <2>1, ReaderMoves, Zenon DEF ReaderAt
  <2>3. rf' \in [Runs -> 0 .. MaxRuns] /\ \A q \in Runs \ {r} : rf'[q] = rf[q]
    BY <1>0, <2>1, FileMoves DEF FifoType, Closed
  <2>4. held' \in [Runs -> Seq(Runs)] /\ \A f \in Runs : held'[f] \in {<<>>, held[f]}
    BY <2>1, KeptType, Zenon
  <2>5. FifoType'
    BY <2>1, <2>2, <2>3, <2>4, Zenon DEF FifoType
  <2>6. HasOpen'
    BY <2>1, <2>2, <2>3, Zenon DEF HasOpen
  <2> QED BY <1>1, <2>1, <2>4, <2>5, <2>6, SamePlace, Zenon
<1> QED BY <1>2, <1>3, <1>4, <1>5, Zenon DEF Child

\* A kill, of either process, closes what it has open.
LEMMA KilledFifo ==
    ASSUME FifoInv, NEW r \in Runs, Killed(r) PROVE FifoInv'
<1> USE DEF FifoInv
<1>0. None \in 0 .. MaxRuns
  BY FifoDemoAssumption DEF None
<1>1. held' \in [Runs -> Seq(Runs)] /\ (\A f \in Runs : held'[f] \in {<<>>, held[f]}) /\ UNCHANGED <<name, got>>
  BY KeptType, Zenon DEF Killed
<1>2. CASE writer' = [writer EXCEPT ![r] = "killed"] /\ wf' = [wf EXCEPT ![r] = None] /\ UNCHANGED <<reader, rf>>
  <2>1. writer' \in [Runs -> WriterAt] /\ writer'[r] = "killed" /\ \A q \in Runs \ {r} : writer'[q] = writer[q]
    BY <1>2, Zenon DEF FifoType, WriterAt
  <2>2. wf' \in [Runs -> 0 .. MaxRuns] /\ \A q \in Runs \ {r} : wf'[q] = wf[q]
    BY <1>0, <1>2, FileMoves, ZenonT(40) DEF FifoType
  <2>3. FifoType'
    BY <1>1, <1>2, <2>1, <2>2, Zenon DEF FifoType
  <2>4. HasOpen'
    BY <1>2, <2>1, <2>2, Zenon DEF HasOpen
  <2>5. \A m \in Runs : Sent(m) => Sent(m)'
    BY <2>1, Zenon DEF Sent
  <2> QED BY <1>1, <2>3, <2>4, <2>5, SamePlace, Zenon
<1>3. CASE reader' = [reader EXCEPT ![r] = "killed"] /\ rf' = [rf EXCEPT ![r] = None] /\ UNCHANGED <<writer, wf>>
  <2>1. reader' \in [Runs -> ReaderAt] /\ reader'[r] = "killed" /\ \A q \in Runs \ {r} : reader'[q] = reader[q]
    BY <1>3, Zenon DEF FifoType, ReaderAt
  <2>2. rf' \in [Runs -> 0 .. MaxRuns] /\ \A q \in Runs \ {r} : rf'[q] = rf[q]
    BY <1>0, <1>3, FileMoves, ZenonT(40) DEF FifoType
  <2>3. FifoType'
    BY <1>1, <1>3, <2>1, <2>2, Zenon DEF FifoType
  <2>4. HasOpen'
    BY <1>3, <2>1, <2>2, Zenon DEF HasOpen
  <2>5. \A m \in Runs : Sent(m) => Sent(m)'
    BY <1>3, Zenon DEF Sent
  <2> QED BY <1>1, <2>3, <2>4, <2>5, SamePlace, Zenon
<1> QED BY <1>2, <1>3, Zenon DEF Killed

\* The first run is lost in its first demo.
LEMMA LostFifo == ASSUME FifoInv, FirstRunLost PROVE FifoInv'
<1>1. 1 \in Runs
  BY FifoDemoAssumption DEF Runs
<1>2. /\ writer' \in [Runs -> WriterAt] /\ writer'[1] = "killed"
      /\ \A q \in Runs \ {1} : writer'[q] = writer[q]
      /\ UNCHANGED <<reader, name, rf, wf, held, got>>
  BY <1>1, Zenon DEF FirstRunLost, FifoInv, FifoType, WriterAt
<1>3. FifoType' /\ HasOpen'
  BY <1>2, Zenon DEF FifoInv, FifoType, HasOpen
<1>4. \A m \in Runs : Sent(m) => Sent(m)'
  BY <1>2, Zenon DEF Sent
<1> QED BY <1>2, <1>3, <1>4, SamePlace, Zenon DEF FifoInv

\* One reader at most has a message.
LEMMA FifoResult == FifoInv => ReadAtMostOnce
BY ZenonT(40) DEF FifoInv, OnePlace, In, ReadAtMostOnce

-----------------------------------------------------------------------------
(* The program *)

PipeInv == AnonInv /\ FifoInv

\* The invariant of both demos holds throughout.
THEOREM PipeInvariance == DemoSpec => []PipeInv
<1>1. DemoInit => PipeInv
  BY AnonInit, FifoInit, Zenon DEF DemoInit, PipeInv
<1>2. ASSUME PipeInv, [DemoNext]_allVars PROVE PipeInv'
  <2>1. [Anon!Next]_anonVars
    BY <1>2, Zenon DEF DemoNext, AnonDemo, FifoDemoStep, FirstRunLost, allVars
  <2>2. ASSUME UNCHANGED vars PROVE FifoInv'
    <3>1. UNCHANGED <<writer, reader, name, rf, wf, held, got>>
      BY <2>2, Zenon DEF vars
    <3> QED BY <1>2, <3>1, ZenonT(40) DEF PipeInv, FifoInv, FifoType, HasOpen, OnePlace, Sent
  <2>3. FifoInv'
    BY <1>2, <2>2, ParentFifo, ChildFifo, KilledFifo, LostFifo, Zenon DEF DemoNext, AnonDemo, FifoDemoStep, PipeInv, allVars
  <2> QED BY <1>2, <2>1, <2>3, AnonStep, Zenon DEF PipeInv
<1> QED BY <1>1, <1>2, PTL DEF DemoSpec

\* A child of the anonymous pipe that has met the end of file has the whole message.
THEOREM WholeMessage == DemoSpec => []EofAfterWholeMessage
<1>1. PipeInv => EofAfterWholeMessage
  BY AnonResult, Zenon DEF PipeInv
<1> QED BY <1>1, PipeInvariance, PTL

\* However runs are killed and restarted at the one FIFO, no message is read twice.
THEOREM NoneReadTwice == DemoSpec => []ReadAtMostOnce
<1>1. PipeInv => ReadAtMostOnce
  BY FifoResult, Zenon DEF PipeInv
<1> QED BY <1>1, PipeInvariance, PTL

-----------------------------------------------------------------------------
(* shm_demo.c *)

BeforeFork == {"ready", "unlinkW", "unlinkR", "openW", "openR", "openRbad", "fork"}
After  == {"waitW", "num", "data", "postR", "reap", "dropW", "dropR", "dropShm", "done", "failed", "killed"}

TokenTypes ==
    /\ producer \in [Starts -> BeforeFork \cup After]
    /\ consumer \in [Starts -> {"none", "waitR", "num", "data", "postW", "done", "killed"}]
    /\ semW \in [Starts -> Nat] /\ semR \in [Starts -> Nat]

\* Tokens of run r, in its semaphores or with its processes.
Tokens(r) == semW[r] + semR[r] + (IF Writing(r) THEN 1 ELSE 0) + (IF Reading(r) THEN 1 ELSE 0)

\* The child exists once the parent is past fork; until then the parent has opened
\* the semaphores with 1 and 0.
TokenInv ==
    \A r \in Starts :
        /\ producer[r] \in BeforeFork \cup {"failed"} => consumer[r] = "none"
        /\ consumer[r] = "none" => producer[r] \in BeforeFork \cup {"failed", "killed"}
        /\ producer[r] \in {"openR", "fork"} => semW[r] = 1
        /\ producer[r] = "fork" => semR[r] = 0
        /\ consumer[r] # "none" => Tokens(r) <= 1

ShmInv == TokenTypes /\ TokenInv

\* No run has begun.
LEMMA ShmInitInv == ShmInit => ShmInv
BY DEF ShmInit, ShmInv, TokenTypes, TokenInv, BeforeFork, After

\* The semaphores of other runs, and their processes, are left alone by run r.
LEMMA OtherRuns ==
    ASSUME ShmInv, TokenTypes', NEW r \in Starts,
           \A q \in Starts \ {r} : /\ producer'[q] = producer[q] /\ consumer'[q] = consumer[q]
                                 /\ semW'[q] = semW[q] /\ semR'[q] = semR[q],
           /\ producer'[r] \in BeforeFork \cup {"failed"} => consumer'[r] = "none"
           /\ consumer'[r] = "none" => producer'[r] \in BeforeFork \cup {"failed", "killed"}
           /\ producer'[r] \in {"openR", "fork"} => semW'[r] = 1
           /\ producer'[r] = "fork" => semR'[r] = 0
           /\ consumer'[r] # "none" => Tokens(r)' <= 1
    PROVE  ShmInv'
BY DEF ShmInv, TokenInv, Tokens, Writing, Reading

\* Every step of a process, and every kill, keeps the invariant.
LEMMA ShmStepInv == ShmInv /\ [ShmNext]_shmVars => ShmInv'
<1> SUFFICES ASSUME ShmInv, [ShmNext]_shmVars PROVE ShmInv'
  BY Zenon
<1> USE DEF Producer, Consumer, BeforeFork, After, names, sems
<1>1. ASSUME NEW r \in Starts, Setup(r) PROVE ShmInv'
  <2> USE DEF ShmInv, TokenTypes, TokenInv, Tokens, Writing, Reading
  <2>1. CASE ShmOpen(r) BY <2>1, OtherRuns, ZenonT(40) DEF ShmOpen
  <2>2. CASE SemUnlink(r) BY <2>2, OtherRuns, SMTT(30) DEF SemUnlink
  <2>3. CASE SemOpenW(r) BY <2>3, OtherRuns, SMTT(30) DEF SemOpenW
  <2>4. CASE SemOpenR(r) BY <2>4, OtherRuns, SMTT(30) DEF SemOpenR, InitialR
  <2>5. CASE ForkConsumer(r) BY <2>5, OtherRuns, SMTT(30) DEF ForkConsumer
  <2> QED BY <1>1, <2>1, <2>2, <2>3, <2>4, <2>5, Zenon DEF Setup
<1>2. ASSUME NEW r \in Starts, Produce(r) PROVE ShmInv'
  <2> USE DEF ShmInv, TokenTypes, TokenInv, Tokens, Writing, Reading
  <2>1. CASE WaitW(r) BY <2>1, OtherRuns DEF WaitW
  <2>2. CASE WriteNum(r) BY <2>2, OtherRuns, ZenonT(40) DEF WriteNum, AfterNum
  <2>3. CASE WriteData(r) BY <2>3, OtherRuns, ZenonT(30) DEF WriteData
  <2>4. CASE PostR(r) BY <2>4, OtherRuns, SMTT(20) DEF PostR
  <2> QED BY <1>2, <2>1, <2>2, <2>3, <2>4, ZenonT(40) DEF Produce
<1>3. ASSUME NEW r \in Starts, Consume(r) PROVE ShmInv'
  <2> USE DEF ShmInv, TokenTypes, TokenInv, Tokens, Writing, Reading
  <2>1. CASE WaitR(r) BY <2>1, OtherRuns DEF WaitR
  <2>2. CASE ReadNum(r) BY <2>2, OtherRuns, ZenonT(30) DEF ReadNum
  <2>3. CASE ReadData(r) BY <2>3, OtherRuns, ZenonT(30) DEF ReadData
  <2>4. CASE PostW(r) BY <2>4, OtherRuns DEF PostW
  <2> QED BY <1>3, <2>1, <2>2, <2>3, <2>4, Zenon DEF Consume
<1>4. ASSUME NEW r \in Starts, Cleanup(r) PROVE ShmInv'
  <2> USE DEF ShmInv, TokenTypes, TokenInv, Tokens, Writing, Reading
  <2>1. CASE Reap(r) BY <2>1, OtherRuns, ZenonT(40) DEF Reap
  <2>2. CASE DropW(r) BY <2>2, OtherRuns, ZenonT(40) DEF DropW
  <2>3. CASE DropR(r) BY <2>3, OtherRuns, ZenonT(40) DEF DropR
  <2>4. CASE DropShm(r) BY <2>4, OtherRuns, ZenonT(30) DEF DropShm
  <2> QED BY <1>4, <2>1, <2>2, <2>3, <2>4, Zenon DEF Cleanup
<1>5. ASSUME NEW r \in Starts, KilledRun(r) PROVE ShmInv'
  BY <1>5, OtherRuns DEF KilledRun, Gone, ShmInv, TokenTypes, TokenInv, Tokens, Writing, Reading
<1>6. CASE UNCHANGED shmVars
  BY <1>6, Zenon DEF shmVars, ShmInv, TokenTypes, TokenInv, Tokens, Writing, Reading
<1> QED
  BY <1>1, <1>2, <1>3, <1>4, <1>5, <1>6, Zenon DEF ShmNext, Quiescent

\* shm_demo.c: parent and child never both have the record, nor is there a token
\* left over for the one while the other has it.
THEOREM OneTokenHolds == ShmSpec => []OneToken
<1>1. ShmInv => OneToken
  BY Zenon DEF ShmInv, TokenInv, Tokens, OneToken
<1> QED BY ShmInitInv, ShmStepInv, <1>1, PTL DEF ShmSpec

-----------------------------------------------------------------------------
(* The messages of the last run *)

\* A message's text, and what a child prints.
Texts   == {Text(r, k) : r, k \in Nat}
Printed == Nat \X Texts

HandoffTypes ==
    /\ wi \in [Starts -> Nat] /\ num \in [Starts -> Nat]
    /\ shm \in [Starts -> [num : Nat, data : Texts]]
    /\ mapped \in [Starts -> Starts \cup {Absent}] /\ shmName \in Starts \cup {Absent}
    /\ \A r \in Starts : producer[r] \notin {"ready", "failed"} => mapped[r] \in Starts
    /\ shown \in [Starts -> Seq(Printed)]

\* How far the child of the last run is behind its parent: with the token on the
\* writer's side it has printed all there is, with the token on its own side one
\* message is still to be printed.
Behind ==
    LET n == Len(shown[Last])
    IN  /\ producer[Last] \in BeforeFork => wi[Last] = 0 /\ shown[Last] = <<>>
        /\ wi[Last] \in n .. n + 1
        /\ producer[Last] \in {"waitW", "num", "data", "postR"} => wi[Last] < N_MESSAGES
        /\ Writing(Last) => wi[Last] = n
        /\ consumer[Last] # "none" /\ semW[Last] > 0 => wi[Last] = n
        /\ consumer[Last] = "postW" => wi[Last] = n
        /\ consumer[Last] # "none" /\ semR[Last] > 0 => wi[Last] = n + 1
        /\ consumer[Last] \in {"num", "data"} => wi[Last] = n + 1

\* A run that began alone stays alone: nobody else writes the record.
Alone == producer[Last] # "ready" => \A q \in Starts \ {Last} : Gone(q)

\* What the record holds while the last run, if alone, is in the midst of using it.
Record ==
    ~overlapped =>
        /\ Alone
        /\ producer[Last] = "data" => shm[mapped[Last]].num = wi[Last]
        /\ producer[Last] = "postR" =>
              shm[mapped[Last]] = [num |-> wi[Last], data |-> Text(Last, wi[Last])]
        /\ consumer[Last] = "data" => num[Last] = shm[mapped[Last]].num

\* Runs start in order.
Ordered == \A q, r \in Starts : q < r /\ producer[r] # "ready" => producer[q] # "ready"

HandoffInv == HandoffTypes /\ Behind /\ Ordered /\ Record

\* The text of any message is a text.
LEMMA TextType == \A r, k \in Nat : Text(r, k) \in Texts
BY DEF Texts

\* There are messages.
LEMMA NMessagesType == N_MESSAGES \in Nat /\ N_MESSAGES > 0
BY ShmHandoffAssumption

\* There is a run.
LEMMA MaxStartsType == MaxStarts \in Nat /\ MaxStarts > 0
BY ShmHandoffAssumption

\* No message has been written.
LEMMA InitHandoffInv == ShmInit => HandoffInv
<1> SUFFICES ASSUME ShmInit PROVE HandoffInv
  BY Zenon
<1> USE DEF ShmInit
<1>1. HandoffTypes
  <2>1. shm \in [Starts -> [num : Nat, data : Texts]]
    BY TextType, Zenon DEF Absent
  <2>2. <<>> \in Seq(Printed)
    OBVIOUS
  <2> QED BY <2>1, <2>2, Zenon DEF HandoffTypes
<1>2. Last \in Starts
  BY MaxStartsType, SMTT(30) DEF Last, Starts
<1>3. Behind /\ Record
  BY <1>2 DEF Behind, Writing, BeforeFork, Record, Alone
<1>4. Ordered
  BY Zenon DEF Ordered
<1> QED BY <1>1, <1>3, <1>4, Zenon DEF HandoffInv

\* Every step keeps the types, and the order in which runs start.
LEMMA StepHandoffTypes ==
    ASSUME ShmInv, HandoffTypes, Ordered, NEW r \in Starts,
           Setup(r) \/ Produce(r) \/ Consume(r) \/ Cleanup(r) \/ KilledRun(r)
    PROVE  HandoffTypes' /\ Ordered'
<1> USE DEF Producer, Consumer, names, sems
<1>1. consumer[r] # "none" => producer[r] \notin {"ready", "failed"}
  BY Zenon DEF ShmInv, TokenInv, BeforeFork
<1>2. CASE ShmOpen(r)
  <2>1. /\ shmName' \in Starts \cup {Absent}
        /\ producer'[r] \notin {"ready", "failed"} => mapped'[r] \in Starts
    BY <1>2, ZenonT(40) DEF ShmOpen, HandoffTypes, ShmInv, TokenTypes
  <2>2. HandoffTypes'
    <3>1. UNCHANGED <<wi, num, shm, shown>>
      BY <1>2, Zenon DEF ShmOpen
    <3>2. mapped' \in [Starts -> Starts \cup {Absent}]
      <4>1. \E x \in Starts : mapped' \in {mapped, [mapped EXCEPT ![r] = x]}
        BY <1>2, Zenon DEF ShmOpen, HandoffTypes
      <4> QED BY <4>1, Zenon DEF HandoffTypes
    <3>3. ASSUME NEW q \in Starts, producer'[q] \notin {"ready", "failed"} PROVE mapped'[q] \in Starts
      BY <1>2, <2>1, <3>3, ZenonT(40) DEF ShmOpen, HandoffTypes, ShmInv, TokenTypes
    <3> QED BY <2>1, <3>1, <3>2, <3>3, Zenon DEF HandoffTypes
  <2>3. ASSUME NEW q \in Starts, NEW s \in Starts, q < s, producer'[s] # "ready" PROVE producer'[q] # "ready"
    <3>1. CASE s # r
      BY <1>2, <2>3, <3>1, Zenon DEF ShmOpen, Ordered, ShmInv, TokenTypes
    <3>2. CASE s = r
      <4>1. r > 1 /\ r - 1 \in Starts /\ producer[r - 1] # "ready" /\ (q = r - 1 \/ q < r - 1)
        BY <1>2, <2>3, <3>2, MaxStartsType DEF ShmOpen, MayStart, Starts
      <4>2. producer[q] # "ready"
        BY <4>1, Zenon DEF Ordered
      <4> QED BY <1>2, <4>2, Zenon DEF ShmOpen, ShmInv, TokenTypes
    <3> QED BY <3>1, <3>2, Zenon
  <2> QED BY <2>2, <2>3, Zenon DEF Ordered
<1>3. ASSUME ~ShmOpen(r)
      PROVE  \A q \in Starts : /\ (producer'[q] = "ready") <=> (producer[q] = "ready")
                               /\ producer[q] = "failed" => producer'[q] = "failed"
  <2> USE DEF ShmInv, TokenTypes
  <2>1. CASE SemUnlink(r) \/ SemOpenW(r) \/ SemOpenR(r) \/ ForkConsumer(r)
    BY <2>1, Zenon DEF SemUnlink, SemOpenW, SemOpenR, ForkConsumer
  <2>2. CASE Produce(r)
    BY <2>2, Zenon DEF Produce, WaitW, WriteNum, WriteData, PostR, AfterNum
  <2>3. CASE Consume(r)
    BY <2>3, Zenon DEF Consume, WaitR, ReadNum, ReadData, PostW
  <2>4. CASE Cleanup(r)
    BY <2>4, Zenon DEF Cleanup, Reap, DropW, DropR, DropShm
  <2>5. CASE KilledRun(r)
    BY <2>5, Zenon DEF KilledRun, Gone
  <2> QED BY <1>3, <2>1, <2>2, <2>3, <2>4, <2>5, Zenon DEF Setup
<1>4. CASE SemUnlink(r) \/ SemOpenW(r) \/ SemOpenR(r) \/ ForkConsumer(r) \/ Cleanup(r) \/ KilledRun(r)
  <2>1. /\ UNCHANGED <<wi, num, shm, mapped, shown, overlapped>>
        /\ shmName' \in {shmName, Absent}
    BY <1>4, Zenon DEF SemUnlink, SemOpenW, SemOpenR, ForkConsumer, Cleanup, Reap, DropW, DropR, DropShm, KilledRun
  <2>2. ~ShmOpen(r)
    BY <1>4, Zenon DEF ShmOpen, SemUnlink, SemOpenW, SemOpenR, ForkConsumer, Cleanup, Reap, DropW, DropR, DropShm,
                KilledRun, Gone, ShmInv, TokenTypes
  <2>3. shmName' \in Starts \cup {Absent}
    BY <2>1, Zenon DEF HandoffTypes
  <2> QED BY <1>3, <2>1, <2>2, <2>3, Zenon DEF HandoffTypes, Ordered
<1>5. CASE Produce(r)
  <2>0. producer[r] # "ready" /\ mapped[r] \in Starts
    <3>1. producer[r] \in {"waitW", "num", "data", "postR"}
      BY <1>5, Zenon DEF Produce, WaitW, WriteNum, WriteData, PostR
    <3> QED BY <3>1, Zenon DEF HandoffTypes
  <2>1. ~ShmOpen(r)
    BY <2>0, Zenon DEF ShmOpen
  <2>2. wi' \in [Starts -> Nat] /\ UNCHANGED <<num, mapped, shmName, shown>>
    <3>1. CASE WaitW(r) \/ WriteNum(r) \/ WriteData(r)
      BY <3>1, Zenon DEF WaitW, WriteNum, WriteData, HandoffTypes
    <3>2. CASE PostR(r)  BY <3>2 DEF PostR, HandoffTypes
    <3> QED BY <1>5, <3>1, <3>2, Zenon DEF Produce
  <2>3. shm' \in [Starts -> [num : Nat, data : Texts]]
    <3>1. CASE WriteNum(r)  BY <2>0, <3>1, Zenon DEF WriteNum, HandoffTypes
    <3>2. CASE WriteData(r)
      <4>0. r \in Nat /\ wi[r] \in Nat  BY MaxStartsType DEF HandoffTypes, Starts
      <4>1. Text(r, wi[r]) \in Texts  BY <4>0, TextType, Zenon
      <4> QED BY <2>0, <3>2, <4>1, Zenon DEF WriteData, HandoffTypes
    <3>3. CASE WaitW(r) \/ PostR(r)  BY <3>3, Zenon DEF WaitW, PostR, HandoffTypes
    <3> QED BY <1>5, <3>1, <3>2, <3>3, Zenon DEF Produce
  <2> QED BY <1>3, <2>1, <2>2, <2>3, Zenon DEF HandoffTypes, Ordered
<1>6. CASE Consume(r)
  <2>1. UNCHANGED <<producer, wi, mapped, shm, shmName, overlapped>>
    BY <1>6, Zenon DEF Consume, WaitR, ReadNum, ReadData, PostW
  <2>2. mapped[r] \in Starts
    BY <1>1, <1>6, Zenon DEF HandoffTypes, Consume, WaitR, ReadNum, ReadData, PostW
  <2>3. shm[mapped[r]].num \in Nat /\ shm[mapped[r]].data \in Texts
    BY <2>2, Zenon DEF HandoffTypes
  <2>4. num' \in [Starts -> Nat]
    BY <1>6, <2>3, Zenon DEF HandoffTypes, Consume, WaitR, ReadNum, ReadData, PostW
  <2>5. shown' \in [Starts -> Seq(Printed)]
    <3>1. CASE ReadData(r)
      <4>1. <<num[r], shm[mapped[r]].data>> \in Printed
        BY <2>3, Zenon DEF HandoffTypes, Printed
      <4>2. shown[r] \in Seq(Printed)
        BY ZenonT(40) DEF HandoffTypes
      <4>3. Append(shown[r], <<num[r], shm[mapped[r]].data>>) \in Seq(Printed)
        BY <4>1, <4>2
      <4> QED BY <3>1, <4>3, Zenon DEF ReadData, HandoffTypes
    <3>2. CASE ~ReadData(r)
      BY <1>6, <3>2, Zenon DEF HandoffTypes, Consume, WaitR, ReadNum, PostW
    <3> QED BY <3>1, <3>2, Zenon
  <2> QED BY <2>1, <2>4, <2>5, Zenon DEF HandoffTypes, Ordered
<1> QED BY <1>2, <1>4, <1>5, <1>6, Zenon DEF Setup

\* What another run leaves alone: all that the last run's processes use, unless
\* the two overlap.
LEMMA OtherRunSteps ==
    ASSUME ShmInv, HandoffInv, NEW r \in Starts, r # Last,
           Setup(r) \/ Produce(r) \/ Consume(r) \/ Cleanup(r) \/ KilledRun(r)
    PROVE  /\ producer'[Last] = producer[Last] /\ consumer'[Last] = consumer[Last]
           /\ semW'[Last] = semW[Last] /\ semR'[Last] = semR[Last]
           /\ wi'[Last] = wi[Last] /\ num'[Last] = num[Last]
           /\ shown'[Last] = shown[Last] /\ mapped'[Last] = mapped[Last]
           /\ \/ producer[Last] = "ready"
              \/ overlapped' = overlapped /\ (overlapped \/ (Alone' /\ UNCHANGED shm))
<1> USE DEF Producer, Consumer, names, sems
<1>1. Last \in Starts /\ r < Last
  BY MaxStartsType DEF Last, Starts
<1>2. /\ producer'[Last] = producer[Last] /\ consumer'[Last] = consumer[Last]
      /\ semW'[Last] = semW[Last] /\ semR'[Last] = semR[Last]
  <2> USE <1>1 DEF ShmInv, TokenTypes
  <2>1. CASE Setup(r)
    BY <2>1, Zenon DEF Setup, ShmOpen, SemUnlink, SemOpenW, SemOpenR, ForkConsumer
  <2>2. CASE Produce(r)
    BY <2>2, Zenon DEF Produce, WaitW, WriteNum, WriteData, PostR
  <2>3. CASE Consume(r)
    BY <2>3, Zenon DEF Consume, WaitR, ReadNum, ReadData, PostW
  <2>4. CASE Cleanup(r) \/ KilledRun(r)
    BY <2>4, Zenon DEF Cleanup, Reap, DropW, DropR, DropShm, KilledRun
  <2> QED BY <2>1, <2>2, <2>3, <2>4, Zenon
<1>3. /\ wi'[Last] = wi[Last] /\ num'[Last] = num[Last]
      /\ shown'[Last] = shown[Last] /\ mapped'[Last] = mapped[Last]
  <2> USE <1>1 DEF HandoffInv, HandoffTypes
  <2>1. CASE Setup(r)
    BY <2>1, Zenon DEF Setup, ShmOpen, SemUnlink, SemOpenW, SemOpenR, ForkConsumer
  <2>2. CASE Produce(r)
    BY <2>2, Zenon DEF Produce, WaitW, WriteNum, WriteData, PostR
  <2>3. CASE Consume(r)
    BY <2>3, Zenon DEF Consume, WaitR, ReadNum, ReadData, PostW
  <2>4. CASE Cleanup(r) \/ KilledRun(r)
    BY <2>4, Zenon DEF Cleanup, Reap, DropW, DropR, DropShm, KilledRun
  <2> QED BY <2>1, <2>2, <2>3, <2>4, Zenon
<1>4. ASSUME producer[Last] # "ready" PROVE producer[r] # "ready"
  BY <1>1, <1>4, Zenon DEF HandoffInv, Ordered
<1>5. ASSUME producer[r] # "ready" PROVE overlapped' = overlapped
  <2>1. CASE Setup(r)
    BY <1>5, <2>1, Zenon DEF Setup, ShmOpen, SemUnlink, SemOpenW, SemOpenR, ForkConsumer
  <2>2. CASE Produce(r)
    BY <2>2, Zenon DEF Produce, WaitW, WriteNum, WriteData, PostR
  <2>3. CASE Consume(r)
    BY <2>3, Zenon DEF Consume, WaitR, ReadNum, ReadData, PostW
  <2>4. CASE Cleanup(r) \/ KilledRun(r)
    BY <2>4, Zenon DEF Cleanup, Reap, DropW, DropR, DropShm, KilledRun
  <2> QED BY <2>1, <2>2, <2>3, <2>4, Zenon
<1>6. ASSUME Gone(r) PROVE UNCHANGED <<producer, shm>>
  <2>1. ~Setup(r) /\ ~Produce(r) /\ ~Cleanup(r)
    BY <1>6, Zenon DEF Gone, Setup, ShmOpen, SemUnlink, SemOpenW, SemOpenR, ForkConsumer,
                Produce, WaitW, WriteNum, WriteData, PostR, Cleanup, Reap, DropW, DropR, DropShm
  <2>2. CASE Consume(r)
    BY <2>2, Zenon DEF Consume, WaitR, ReadNum, ReadData, PostW
  <2>3. CASE KilledRun(r)
    BY <1>6, <2>3, Zenon DEF KilledRun
  <2> QED BY <2>1, <2>2, <2>3, Zenon
<1>7. ASSUME producer[Last] # "ready", ~overlapped PROVE Alone' /\ UNCHANGED shm
  <2>1. Alone /\ Gone(r)
    BY <1>1, <1>7, Zenon DEF HandoffInv, Record, Alone
  <2> QED BY <1>6, <2>1, Zenon DEF Alone, Gone
<1> QED BY <1>2, <1>3, <1>4, <1>5, <1>7, Zenon

\* Other runs do not disturb the last one.
LEMMA OtherRunHandoff ==
    ASSUME ShmInv, HandoffInv, NEW r \in Starts, r # Last,
           Setup(r) \/ Produce(r) \/ Consume(r) \/ Cleanup(r) \/ KilledRun(r)
    PROVE  Behind' /\ Record'
<1>1. consumer[Last] # "none" => producer[Last] # "ready"
  BY MaxStartsType DEF ShmInv, TokenInv, BeforeFork, Last, Starts
<1>2. /\ producer'[Last] = producer[Last] /\ consumer'[Last] = consumer[Last]
      /\ semW'[Last] = semW[Last] /\ semR'[Last] = semR[Last]
      /\ wi'[Last] = wi[Last] /\ num'[Last] = num[Last]
      /\ shown'[Last] = shown[Last] /\ mapped'[Last] = mapped[Last]
      /\ \/ producer[Last] = "ready"
         \/ overlapped' = overlapped /\ (overlapped \/ (Alone' /\ UNCHANGED shm))
  BY OtherRunSteps, Zenon
<1>3. Behind'
  BY <1>2, Zenon DEF HandoffInv, Behind, Writing
<1>4. ASSUME producer[Last] = "ready" PROVE Record'
  BY <1>1, <1>2, <1>4, ZenonT(40) DEF Record, Alone
<1>5. ASSUME producer[Last] # "ready" PROVE Record'
  BY <1>2, <1>5 DEF HandoffInv, Record
<1> QED BY <1>3, <1>4, <1>5, Zenon

\* How the token of the last run stands, and what its types are.
LastFacts ==
    /\ Last \in Starts /\ Last \in Nat
    /\ producer[Last] \in BeforeFork \cup {"failed"} => consumer[Last] = "none"
    /\ consumer[Last] = "none" => producer[Last] \in BeforeFork \cup {"failed", "killed"}
    /\ producer[Last] = "fork" => semW[Last] = 1 /\ semR[Last] = 0
    /\ consumer[Last] # "none" => Tokens(Last) <= 1
    /\ semW[Last] \in Nat /\ semR[Last] \in Nat /\ wi[Last] \in Nat
    /\ shown[Last] \in Seq(Printed) /\ Len(shown[Last]) \in Nat
    /\ producer[Last] \notin {"ready", "failed"} => mapped[Last] \in Starts

\* They follow from the invariants.
LEMMA LastRun == ShmInv /\ HandoffInv => LastFacts
<1> SUFFICES ASSUME ShmInv, HandoffInv PROVE LastFacts
  BY Zenon
<1>1. Last \in Starts /\ Last \in Nat
  BY MaxStartsType DEF Last, Starts
<1>2. shown[Last] \in Seq(Printed) /\ wi[Last] \in Nat
  BY <1>1, Zenon DEF HandoffInv, HandoffTypes
<1>3. Len(shown[Last]) \in Nat
  BY <1>2
<1>4. producer[Last] \notin {"ready", "failed"} => mapped[Last] \in Starts
  BY <1>1, Zenon DEF HandoffInv, HandoffTypes
<1> QED BY <1>1, <1>2, <1>3, <1>4, Zenon DEF LastFacts, ShmInv, TokenInv, TokenTypes

\* The last run sets itself up.
LEMMA SetupHandoff ==
    ASSUME ShmInv, HandoffInv, Setup(Last)
    PROVE  Behind' /\ Record' /\ UNCHANGED <<wi, shown, shm>>
<1>0. LastFacts
  BY LastRun, Zenon
<1> USE <1>0 DEF LastFacts, Producer, Consumer, names, sems
<1>1. producer[Last] \in BeforeFork /\ UNCHANGED <<wi, shown, shm, num>>
  BY Zenon DEF Setup, ShmOpen, SemUnlink, SemOpenW, SemOpenR, ForkConsumer, BeforeFork
<1>2. /\ producer'[Last] \in BeforeFork \cup {"waitW", "failed"}
      /\ producer'[Last] # "waitW" => consumer'[Last] = "none"
      /\ consumer'[Last] # "none" => consumer'[Last] = "waitR" /\ semR'[Last] = 0
  BY <1>1, ZenonT(40) DEF Setup, ShmOpen, SemUnlink, SemOpenW, SemOpenR, ForkConsumer, BeforeFork, ShmInv, TokenTypes
<1>3. Behind'
  <2>1. wi[Last] = 0 /\ shown[Last] = <<>>
    BY <1>1, Zenon DEF HandoffInv, Behind
  <2>2. wi'[Last] = 0 /\ shown'[Last] = <<>> /\ Len(shown'[Last]) = 0
    BY <1>1, <2>1, ZenonT(40)
  <2> QED BY <1>2, <2>2, NMessagesType DEF Behind, Writing, BeforeFork
<1>4. CASE ShmOpen(Last)
  <2>1. ~overlapped' => Alone'
    BY <1>4, MaxStartsType, SMTT(30) DEF ShmOpen, Alone, Gone, Starts, Last, ShmInv, TokenTypes
  <2>2. producer'[Last] \in {"unlinkW", "failed"} /\ consumer'[Last] = "none"
    BY <1>2, <1>4, Zenon DEF ShmOpen, ShmInv, TokenTypes
  <2> QED BY <1>1, <1>3, <2>1, <2>2, Zenon DEF Record
<1>5. CASE ~ShmOpen(Last)
  <2>1. /\ producer[Last] # "ready" /\ overlapped' = overlapped
        /\ \A q \in Starts \ {Last} : producer'[q] = producer[q]
    BY <1>5, Zenon DEF Setup, SemUnlink, SemOpenW, SemOpenR, ForkConsumer, ShmInv, TokenTypes
  <2>2. ~overlapped' => Alone'
    BY <2>1, Zenon DEF HandoffInv, Record, Alone, Gone
  <2> QED BY <1>1, <1>2, <1>3, <2>2, Zenon DEF Record, BeforeFork
<1> QED BY <1>4, <1>5, Zenon

\* A step of the last run after which the others are as they were: of what
\* Record says only the contents are left to show.
LEMMA StaysAlone ==
    ASSUME ShmInv, HandoffInv, overlapped' = overlapped, producer[Last] # "ready",
           \A q \in Starts \ {Last} : producer'[q] = producer[q]
    PROVE  ~overlapped' => Alone'
BY Zenon DEF HandoffInv, Record, Alone, Gone

\* The parent of the last run writes.
LEMMA ProduceHandoff ==
    ASSUME ShmInv, HandoffInv, Produce(Last)
    PROVE  Behind' /\ Record'
<1>0. LastFacts
  BY LastRun, Zenon
<1> USE <1>0 DEF LastFacts, Producer, Consumer, names, sems
<1>1. /\ producer[Last] \in {"waitW", "num", "data", "postR"} /\ consumer[Last] # "none"
      /\ overlapped' = overlapped
      /\ \A q \in Starts \ {Last} : producer'[q] = producer[q]
      /\ UNCHANGED <<consumer, num, shown, mapped>>
  BY Zenon DEF Produce, WaitW, WriteNum, WriteData, PostR, ShmInv, TokenTypes, BeforeFork
<1>2. ~overlapped' => Alone'
  BY <1>1, StaysAlone, Zenon
<1>3. CASE WaitW(Last)
  <2>1. /\ producer'[Last] = "num" /\ semW[Last] > 0 /\ semW'[Last] = semW[Last] - 1
        /\ UNCHANGED <<wi, semR, shm>>
    BY <1>3, Zenon DEF WaitW, ShmInv, TokenTypes
  <2>2. semR[Last] = 0 /\ ~Reading(Last)
    BY <1>1, <2>1, SMTT(30) DEF Tokens
  <2>3. Behind'
    BY <1>1, <1>3, <2>1, <2>2, Zenon DEF HandoffInv, Behind, Writing, Reading, BeforeFork, WaitW
  <2> QED BY <1>1, <1>2, <2>1, <2>2, <2>3, Zenon DEF Record, Reading
<1>4. CASE WriteNum(Last)
  <2>1. /\ producer[Last] = "num" /\ producer'[Last] = "data"
        /\ shm'[mapped[Last]] = [num |-> wi[Last], data |-> shm[mapped[Last]].data]
        /\ UNCHANGED <<wi, semR, semW>>
    BY <1>1, <1>4, ZenonT(40) DEF WriteNum, AfterNum, ShmInv, TokenTypes, HandoffInv, HandoffTypes
  <2>2. ~Reading(Last)
    BY <1>1, <2>1 DEF Tokens, Writing
  <2>3. Behind'
    BY <1>1, <2>1, ZenonT(40) DEF HandoffInv, Behind, Writing, BeforeFork
  <2>4. /\ shm'[mapped'[Last]].num = wi'[Last]
        /\ producer'[Last] # "postR" /\ consumer'[Last] # "data"
    BY <1>1, <2>1, <2>2 DEF Reading
  <2> QED BY <1>2, <2>3, <2>4, Zenon DEF Record
<1>5. CASE WriteData(Last)
  <2>1. /\ producer[Last] = "data" /\ producer'[Last] = "postR"
        /\ shm'[mapped[Last]] = [num |-> shm[mapped[Last]].num, data |-> Text(Last, wi[Last])]
        /\ UNCHANGED <<wi, semR, semW>>
    BY <1>1, <1>5, ZenonT(40) DEF WriteData, ShmInv, TokenTypes, HandoffInv, HandoffTypes
  <2>2. ~Reading(Last)
    BY <1>1, <2>1 DEF Tokens, Writing
  <2>3. Behind'
    BY <1>1, <2>1, Zenon DEF HandoffInv, Behind, Writing, BeforeFork
  <2> QED BY <1>1, <1>2, <2>1, <2>2, <2>3, Zenon DEF HandoffInv, Record, Reading
<1>6. CASE PostR(Last)
  <2>1. /\ producer[Last] = "postR" /\ wi'[Last] = wi[Last] + 1 /\ semR'[Last] = semR[Last] + 1
        /\ producer'[Last] = (IF wi'[Last] < N_MESSAGES THEN "waitW" ELSE "reap")
        /\ UNCHANGED <<semW, shm>>
    BY <1>1, <1>6, ZenonT(40) DEF PostR, ShmInv, TokenTypes, HandoffInv, HandoffTypes
  <2>2. ~Reading(Last) /\ semW[Last] = 0 /\ wi[Last] = Len(shown[Last])
    BY <1>1, <2>1, SMTT(30) DEF Tokens, Writing, HandoffInv, Behind
  <2>3. Behind'
    BY <1>1, <2>1, <2>2, SMTT(30) DEF HandoffInv, Behind, Writing, BeforeFork, Reading
  <2> QED BY <1>1, <1>2, <2>1, <2>2, <2>3, Zenon DEF Record, Reading
<1> QED BY <1>3, <1>4, <1>5, <1>6, Zenon DEF Produce

\* The child of the last run reads and prints.
LEMMA ConsumeHandoff ==
    ASSUME ShmInv, HandoffInv, Consume(Last)
    PROVE  Behind' /\ Record'
<1>0. LastFacts
  BY LastRun, Zenon
<1> USE <1>0 DEF LastFacts, Producer, Consumer, names, sems
<1>1. consumer[Last] \in {"waitR", "num", "data", "postW"} /\ UNCHANGED <<producer, wi, shm, mapped, overlapped>>
  BY Zenon DEF Consume, WaitR, ReadNum, ReadData, PostW
<1>2. ~overlapped' => Alone'
  BY <1>1, Zenon DEF HandoffInv, Record, Alone, Gone
<1>3. producer[Last] \notin BeforeFork
  BY <1>1, Zenon
<1>4. CASE WaitR(Last)
  <2>1. /\ consumer'[Last] = "num" /\ semR[Last] > 0 /\ semR'[Last] = semR[Last] - 1
        /\ UNCHANGED <<num, shown, semW>>
    BY <1>4, Zenon DEF WaitR, ShmInv, TokenTypes
  <2>2. semW[Last] = 0 /\ ~Writing(Last)
    BY <1>1, <2>1, SMTT(30) DEF Tokens
  <2>3. Behind'
    BY <1>1, <1>3, <2>1, <2>2, Zenon DEF HandoffInv, Behind, Writing
  <2> QED BY <1>1, <1>2, <2>1, <2>2, <2>3, Zenon DEF Record, HandoffInv
<1>5. CASE ReadNum(Last)
  <2>1. /\ consumer[Last] = "num" /\ consumer'[Last] = "data" /\ num'[Last] = shm[mapped[Last]].num
        /\ UNCHANGED <<shown, semW, semR>>
    BY <1>5, Zenon DEF ReadNum, ShmInv, TokenTypes, HandoffInv, HandoffTypes
  <2>2. Behind'
    BY <1>1, <1>3, <2>1, Zenon DEF HandoffInv, Behind, Writing
  <2> QED BY <1>1, <1>2, <2>1, <2>2, Zenon DEF Record, HandoffInv
<1>6. CASE ReadData(Last)
  <2>1. /\ consumer[Last] = "data" /\ consumer'[Last] = "postW"
        /\ shown'[Last] = Append(shown[Last], <<num[Last], shm[mapped[Last]].data>>)
        /\ UNCHANGED <<num, semW, semR>>
    BY <1>6, Zenon DEF ReadData, ShmInv, TokenTypes, HandoffInv, HandoffTypes
  <2>2. Len(shown'[Last]) = Len(shown[Last]) + 1
    BY <2>1, SMTT(30)
  <2>3. semW[Last] = 0 /\ semR[Last] = 0 /\ ~Writing(Last)
    BY <1>1, <2>1, SMTT(30) DEF Tokens, Reading
  <2>4. Behind'
    BY <1>1, <1>3, <2>1, <2>2, <2>3, SMTT(30) DEF HandoffInv, Behind, Writing
  <2> QED BY <1>1, <1>2, <2>1, <2>4, Zenon DEF Record, HandoffInv
<1>7. CASE PostW(Last)
  <2>1. /\ consumer[Last] = "postW" /\ consumer'[Last] \in {"waitR", "done"}
        /\ semW'[Last] = semW[Last] + 1
        /\ UNCHANGED <<num, shown, semR>>
    BY <1>7, Zenon DEF PostW, ShmInv, TokenTypes
  <2>2. semR[Last] = 0 /\ ~Writing(Last)
    BY <1>1, <2>1, SMTT(30) DEF Tokens, Reading
  <2>3. Behind'
    BY <1>1, <1>3, <2>1, <2>2, Zenon DEF HandoffInv, Behind, Writing
  <2> QED BY <1>1, <1>2, <2>1, <2>3, Zenon DEF Record, HandoffInv
<1> QED BY <1>4, <1>5, <1>6, <1>7, Zenon DEF Consume

\* The last run cleans up, or one of its processes is killed.
LEMMA EndHandoff ==
    ASSUME ShmInv, HandoffInv, Cleanup(Last) \/ KilledRun(Last)
    PROVE  Behind' /\ Record' /\ UNCHANGED <<wi, shown, shm, mapped>>
<1>0. LastFacts
  BY LastRun, Zenon
<1> USE <1>0 DEF LastFacts, Producer, Consumer, names, sems
<1>1. UNCHANGED <<wi, shown, shm, mapped, num, overlapped, semW, semR>>
  BY Zenon DEF Cleanup, Reap, DropW, DropR, DropShm, KilledRun
<1>2. /\ producer[Last] # "ready" => producer'[Last] # "ready"
      /\ producer'[Last] \in {producer[Last], "dropW", "dropR", "dropShm", "done", "killed"}
      /\ consumer'[Last] \in {consumer[Last], "killed"}
      /\ consumer[Last] = "none" => consumer'[Last] = "none"
      /\ \A q \in Starts \ {Last} : producer'[q] = producer[q]
      /\ producer[Last] # "ready"
  BY Zenon DEF Cleanup, Reap, DropW, DropR, DropShm, KilledRun, Gone, ShmInv, TokenTypes, BeforeFork
<1>3. ~overlapped' => Alone'
  BY <1>1, <1>2, StaysAlone, Zenon
<1>4. Behind'
  BY <1>1, <1>2, Zenon DEF HandoffInv, Behind, Writing, BeforeFork
<1> QED BY <1>1, <1>2, <1>3, <1>4, Zenon DEF HandoffInv, Record

\* Every step keeps the invariant.
LEMMA StepHandoffInv == ShmInv /\ HandoffInv /\ [ShmNext]_shmVars => HandoffInv'
<1> SUFFICES ASSUME ShmInv, HandoffInv, [ShmNext]_shmVars PROVE HandoffInv'
  BY Zenon
<1>1. ASSUME NEW r \in Starts, Setup(r) \/ Produce(r) \/ Consume(r) \/ Cleanup(r) \/ KilledRun(r)
      PROVE  HandoffInv'
  <2>1. HandoffTypes' /\ Ordered'
    BY <1>1, StepHandoffTypes, Zenon DEF HandoffInv
  <2>2. Behind' /\ Record'
    BY <1>1, OtherRunHandoff, SetupHandoff, ProduceHandoff, ConsumeHandoff, EndHandoff, Zenon
  <2> QED BY <2>1, <2>2, Zenon DEF HandoffInv
<1>2. CASE UNCHANGED shmVars
  BY <1>2, ZenonT(40) DEF shmVars, names, sems, HandoffInv, HandoffTypes, Behind, Writing, Ordered, Record, Alone, Gone
<1> QED BY <1>1, <1>2, Zenon DEF ShmNext, Quiescent

\* Before the first message nothing is posted.
LEMMA NothingPosted ==
    ASSUME wi[Last] = 0, shown[Last] = <<>>, wi' = wi, shown' = shown
    PROVE  Posted(Last) = <<>> /\ Posted(Last)' = <<>>
BY DEF Posted

\* One step of the last run, alone, is a step of the channel or none.
LEMMA LastRunStep ==
    ASSUME ShmInv, HandoffInv, ~overlapped,
           Setup(Last) \/ Produce(Last) \/ Consume(Last) \/ Cleanup(Last) \/ KilledRun(Last)
    PROVE  [Handoff!Next]_<<Posted(Last), shown[Last]>>
<1>0. LastFacts
  BY LastRun, Zenon
<1> USE <1>0 DEF LastFacts, Producer, Consumer, names, sems
<1> DEFINE m == <<shm[mapped[Last]].num, shm[mapped[Last]].data>>
<1>1. CASE Setup(Last)
  <2>1. producer[Last] \in BeforeFork
    BY <1>1, Zenon DEF Setup, ShmOpen, SemUnlink, SemOpenW, SemOpenR, ForkConsumer, BeforeFork
  <2>2. wi[Last] = 0 /\ shown[Last] = <<>>
    BY <2>1, Zenon DEF HandoffInv, Behind
  <2>3. wi' = wi /\ shown' = shown
    BY <1>1, SetupHandoff, Zenon
  <2>4. Posted(Last) = <<>> /\ Posted(Last)' = <<>>
    BY <2>2, <2>3, NothingPosted, Zenon
  <2> QED BY <2>3, <2>4, Zenon
<1>2. CASE WaitW(Last) \/ WaitR(Last) \/ ReadNum(Last) \/ PostW(Last)
  BY <1>2, Zenon DEF WaitW, WaitR, ReadNum, PostW, Posted
<1>3. CASE Cleanup(Last) \/ KilledRun(Last)
  BY <1>3, EndHandoff, ZenonT(40) DEF Posted
<1>4. CASE WriteNum(Last) \/ WriteData(Last)
  <2>1. Writing(Last) /\ UNCHANGED <<wi, shown>>
    BY <1>4, Zenon DEF WriteNum, WriteData, Writing
  <2>2. wi[Last] = Len(shown[Last])
    BY <2>1, Zenon DEF HandoffInv, Behind
  <2> QED BY <2>1, <2>2 DEF Posted
<1>5. CASE PostR(Last)
  <2>1. /\ producer[Last] = "postR" /\ wi'[Last] = wi[Last] + 1 /\ UNCHANGED <<shm, mapped, shown>>
    BY <1>5, Zenon DEF PostR, HandoffInv, HandoffTypes
  <2>2. wi[Last] = Len(shown[Last]) /\ wi[Last] < N_MESSAGES
    BY <2>1, ZenonT(40) DEF HandoffInv, Behind, Writing
  <2>3. m = Message(Last, wi[Last])
    BY <2>1, SMTT(30) DEF HandoffInv, Record, Message
  <2>4. Posted(Last) = <<>> /\ Posted(Last)' = <<m>>
    BY <2>1, <2>2, SMTT(30) DEF Posted
  <2>5. wi[Last] \in 0 .. N_MESSAGES - 1
    BY <2>2, NMessagesType
  <2>6. Handoff!Put(Message(Last, wi[Last]))
    <3>1. <<m>> = Append(<<>>, m) /\ Len(<<>>) < 1
      OBVIOUS
    <3> QED BY <2>1, <2>3, <2>4, <3>1, Zenon DEF Handoff!Put
  <2> QED BY <2>5, <2>6, Zenon DEF Handoff!Next
<1>6. CASE ReadData(Last)
  <2>1. /\ consumer[Last] = "data" /\ UNCHANGED <<wi, shm, mapped>>
        /\ shown'[Last] = Append(shown[Last], <<num[Last], shm[mapped[Last]].data>>)
    BY <1>6, Zenon DEF ReadData, HandoffInv, HandoffTypes
  <2>2. wi[Last] = Len(shown[Last]) + 1 /\ num[Last] = shm[mapped[Last]].num
    BY <2>1, Zenon DEF HandoffInv, Behind, Record
  <2>3. Len(shown'[Last]) = Len(shown[Last]) + 1
    BY <2>1, SMTT(30)
  <2>4. Posted(Last) = <<m>> /\ Posted(Last)' = <<>>
    BY <2>1, <2>2, <2>3, SMTT(30) DEF Posted
  <2>5. Handoff!Get
    <3>1. <<m>> # <<>> /\ Head(<<m>>) = m /\ Tail(<<m>>) = <<>>
      OBVIOUS
    <3> QED BY <2>1, <2>2, <2>4, <3>1, ZenonT(40) DEF Handoff!Get
  <2> QED BY <2>5, Zenon DEF Handoff!Next
<1> QED BY <1>1, <1>2, <1>3, <1>4, <1>5, <1>6, Zenon DEF Produce, Consume

\* Steps of other runs do not show in the channel of the last one.
LEMMA OtherRunStep ==
    ASSUME ShmInv, HandoffInv, ~overlapped, NEW r \in Starts, r # Last,
           Setup(r) \/ Produce(r) \/ Consume(r) \/ Cleanup(r) \/ KilledRun(r)
    PROVE  UNCHANGED <<Posted(Last), shown[Last]>>
<1>0. LastFacts
  BY LastRun, Zenon
<1>1. /\ producer'[Last] = producer[Last] /\ wi'[Last] = wi[Last]
      /\ shown'[Last] = shown[Last] /\ mapped'[Last] = mapped[Last]
      /\ producer[Last] = "ready" \/ UNCHANGED shm
  BY OtherRunSteps, Zenon
<1>2. CASE producer[Last] = "ready"
  <2>1. wi[Last] = 0 /\ shown[Last] = <<>>
    BY <1>2, Zenon DEF HandoffInv, Behind, BeforeFork
  <2> QED BY <1>1, <2>1 DEF Posted
<1>3. CASE UNCHANGED shm
  BY <1>1, <1>3, Zenon DEF Posted
<1> QED BY <1>1, <1>2, <1>3, Zenon

\* shm_demo.c: the last run's child gets what its parent sends, once each and in
\* order, whatever earlier runs have left behind and however they ended, as long as
\* it does not run beside another.
THEOREM RestartIsCleanHolds == ShmSpec => RestartIsClean
<1>1. ShmInit => Handoff!Init
  <2> SUFFICES ASSUME ShmInit PROVE Handoff!Init
    BY Zenon
  <2>1. Last \in Starts
    BY MaxStartsType DEF Last, Starts
  <2> QED BY <2>1 DEF ShmInit, Handoff!Init, Posted
<1>2. ShmInv /\ HandoffInv /\ [ShmNext]_shmVars
        => [overlapped \/ Handoff!Next]_<<Posted(Last), shown[Last]>>
  <2> SUFFICES ASSUME ShmInv, HandoffInv, [ShmNext]_shmVars, ~overlapped
               PROVE  [Handoff!Next]_<<Posted(Last), shown[Last]>>
    BY Zenon
  <2>1. ASSUME NEW r \in Starts, Setup(r) \/ Produce(r) \/ Consume(r) \/ Cleanup(r) \/ KilledRun(r)
        PROVE  [Handoff!Next]_<<Posted(Last), shown[Last]>>
    BY <2>1, LastRunStep, OtherRunStep, Zenon
  <2>2. CASE UNCHANGED shmVars
    BY <2>2, Zenon DEF shmVars, Posted
  <2> QED BY <2>1, <2>2, Zenon DEF ShmNext, Quiescent
<1> QED
  BY ShmInitInv, ShmStepInv, InitHandoffInv, StepHandoffInv, <1>1, <1>2, PTL DEF ShmSpec, RestartIsClean
=============================================================================
