------------------------------ MODULE TempFiles ------------------------------
(***************************************************************************)
(* The demos that work on files under fixed names in /tmp: demos 1, 5 and  *)
(* 6 of 06_file_io/fileio_demo.c and demo 3 of 05_memory/memory_demo.c.    *)
(* Several runs of the same program may overlap, and a run may be killed   *)
(* anywhere; every system call is a step.  Demos 3 and 4 of fileio_demo.c, *)
(* which wait on pipes of their own, are run in their place.               *)
(*                                                                         *)
(* A program is the sequence of its calls.  A file is a sequence of chunks *)
(* <<run, n>>: the n-th line (or iovec, or page image) as that run writes  *)
(* it.  All runs write the same chunks at the same offsets, so offsets are *)
(* counted in chunks; Hole is what a write beyond the end skips.           *)
(***************************************************************************)
EXTENDS ProgramConstants, Sequences, FiniteSets, FiniteSetsExt

VARIABLES program,    \* "fileio" or "memory"
          pc,         \* per run: 0 not started, the call it is at, -1 killed
          name,       \* inode of each path, 0 if there is none
          data,       \* chunks of each inode
          fd, pos,    \* per run: inode and offset of its descriptor, 0 for none or -1
          dst, map,   \* per run: inode of demo_sendfile's second descriptor, of the mapping
          size,       \* per run: st.st_size
          bytes,      \* per run: bytes in its two pipes
          ready, events,    \* per run: epoll's ready list, what epoll_wait returned
          wrong,      \* history: undisturbed runs that have shown something else than they wrote
          failed,     \* history: runs of which a call failed
          disturbed,  \* history: runs that overlapped with another
          last        \* history: the run started last

files == <<name, data, fd, pos, dst, map, size>>
pipes == <<bytes, ready, events>>
hist  == <<wrong, disturbed, last>>
vars  == <<program, pc, files, pipes, wrong, failed, disturbed, last>>

Path  == {"txt", "src", "dst", "iov", "map"}
Inode == 1 .. 2 * Cardinality(Runs) + 2
Hole  == <<0, 0>>

Init ==
    /\ program \in {"fileio", "memory"} /\ pc = [r \in Runs |-> 0]
    /\ name = [p \in Path |-> 0] /\ data = [n \in Inode |-> <<>>]
    /\ fd = [r \in Runs |-> 0] /\ pos = fd /\ dst = fd /\ map = fd /\ size = fd
    /\ bytes = [r \in Runs |-> <<0, 0>>]
    /\ ready = [r \in Runs |-> {}] /\ events = ready
    /\ wrong = {} /\ failed = {} /\ disturbed = {} /\ last = 0

-----------------------------------------------------------------------------
(* The programs *)

BasicFileio ==
    << <<"open", "txt">>, <<"write", 1>>, <<"write", 2>>, <<"write", 3>>, <<"rewind", 0>>,
       <<"read", 3>>, <<"close", 0>>, <<"unlink", "txt">> >>
\* select is to find nothing, then one byte.
Select ==
    << <<"pipe", 0>>, <<"select", 0>>, <<"fill", <<1, 1>>>>, <<"select", 1>>, <<"pipes_closed", 0>> >>
Epoll ==
    << <<"pipe", 0>>, <<"pipe", 0>>, <<"pipe", 0>>,    \* the third is epoll_create1
       <<"fill", <<1, 5>>>>, <<"fill", <<2, 6>>>>, <<"epoll_wait", 0>>,
       <<"fill", <<1, 5>>>>, <<"epoll_wait", 0>>, <<"drain", 10>>, <<"pipes_closed", 0>> >>
Sendfile ==
    << <<"open", "src">> >> \o [k \in 1 .. LINES |-> <<"write", k>>] \o
    << <<"close", 0>>, <<"reopen", "src">>, <<"open_dst", "dst">>, <<"fstat", 0>>, <<"sendfile", LINES>>,
       <<"close", 0>>, <<"unlink", "src">>, <<"unlink", "dst">> >>
ScatterGather ==
    << <<"open", "iov">>, <<"writev", 3>>, <<"rewind", 0>>, <<"read", 3>>, <<"close", 0>>, <<"unlink", "iov">> >>
FileMmap ==
    << <<"open", "map">>, <<"ftruncate", 0>>, <<"pwrite", 1>>, <<"mmap", "map">>, <<"close", 0>>, <<"load", 1>>,
       <<"store", 2>>, <<"reopen", "map">>, <<"read_page", 2>>, <<"close", 0>>, <<"munmap", 0>>, <<"unlink", "map">> >>

Script ==
    IF program = "fileio" THEN BasicFileio \o Select \o Epoll \o Sendfile \o ScatterGather ELSE FileMmap

Active(r) == pc[r] \in 1 .. Len(Script)
Ended(r)  == pc[r] = Len(Script) + 1
At(r, op) == Active(r) /\ Script[pc[r]][1] = op
Arg(r)    == Script[pc[r]][2]
Advance(r) == pc' = [pc EXCEPT ![r] = @ + 1]
\* The end of the demo that the call belongs to.
Return(r) ==
    pc' = [pc EXCEPT ![r] = 1 + Min({k \in @ .. Len(Script) : Script[k][1] \in {"unlink", "pipes_closed"}})]

Own(r, n) == [k \in 1 .. n |-> <<r, k>>]
\* The run prints what it got, which may be what it wrote or not.  Of runs that
\* are disturbed or had a failure that is not recorded.
Shows(r, own) == wrong' = IF own \/ r \in disturbed \cup failed THEN wrong ELSE wrong \cup {r}
Fails(r) == failed' = failed \cup {r}

-----------------------------------------------------------------------------
(* Files *)

InUse == {name[p] : p \in Path} \cup UNION {{fd[r], dst[r], map[r]} : r \in Runs}
New   == Min(Inode \ InUse)
\* An inode without name or user is gone.
Store(contents) == data' = [n \in Inode |-> IF n \in InUse' THEN contents[n] ELSE <<>>]
Put(s, at, new) ==
    [k \in 1 .. Max({Len(s), at + Len(new)}) |->
        IF k \in at + 1 .. at + Len(new) THEN new[k - at] ELSE IF k <= Len(s) THEN s[k] ELSE Hole]

-----------------------------------------------------------------------------
(* Wrong variants of definitions below, each the shape of a plausible bug. *)

\* The file is read on from where the write has ended.
Rewind_Dropped(r) ==
    /\ At(r, "rewind") /\ Advance(r)
    /\ UNCHANGED <<program, files, pipes, failed, hist>>

-----------------------------------------------------------------------------
Start(r) ==
    /\ pc[r] = 0 /\ Advance(r) /\ last' = r
    /\ LET others == {q \in Runs : Active(q)}
       IN  disturbed' = IF others = {} THEN disturbed ELSE disturbed \cup others \cup {r}
    /\ UNCHANGED <<program, files, pipes, wrong, failed>>

\* The kernel closes the descriptors; names and contents stay.
Dies(r) ==
    /\ pc' = [pc EXCEPT ![r] = -1]
    /\ fd' = [fd EXCEPT ![r] = 0] /\ dst' = [dst EXCEPT ![r] = 0] /\ map' = [map EXCEPT ![r] = 0]
    /\ pos' = [pos EXCEPT ![r] = 0] /\ size' = [size EXCEPT ![r] = 0]
    /\ bytes' = [bytes EXCEPT ![r] = <<0, 0>>]
    /\ ready' = [ready EXCEPT ![r] = {}] /\ events' = [events EXCEPT ![r] = {}]
    /\ UNCHANGED name /\ Store(data)
    /\ UNCHANGED <<program, wrong, failed, disturbed, last>>
Kill(r) == Active(r) /\ Dies(r)

\* open with O_CREAT and O_TRUNC, into a descriptor.
Create(r, f, g) ==
    LET n == IF name[Arg(r)] = 0 THEN New ELSE name[Arg(r)]
    IN  /\ f' = [f EXCEPT ![r] = n] /\ UNCHANGED <<g, map>>
        /\ name' = [name EXCEPT ![Arg(r)] = n]
        /\ Store([data EXCEPT ![n] = <<>>])

\* Only demo 1 and demo_file_mmap look at the result.
Checked == {"txt", "map"}
Open(r) ==
    /\ At(r, "open") /\ pos' = [pos EXCEPT ![r] = 0]
    /\ \/ Create(r, fd, dst) /\ Advance(r) /\ UNCHANGED failed
       \/ /\ fd' = [fd EXCEPT ![r] = 0] /\ UNCHANGED <<name, data, dst, map>> /\ Fails(r)
          /\ IF Arg(r) \in Checked THEN Return(r) ELSE Advance(r)
    /\ UNCHANGED <<program, size, pipes, hist>>
OpenDst(r) ==
    /\ At(r, "open_dst") /\ Advance(r)
    /\ \/ Create(r, dst, fd) /\ UNCHANGED failed
       \/ UNCHANGED <<name, data, fd, dst, map>> /\ Fails(r)
    /\ UNCHANGED <<program, pos, size, pipes, hist>>
\* open with O_RDONLY; there may be no such file any more.
Reopen(r) ==
    /\ At(r, "reopen") /\ Advance(r)
    /\ \/ fd' = [fd EXCEPT ![r] = name[Arg(r)]] /\ UNCHANGED failed
       \/ UNCHANGED fd /\ Fails(r)
    /\ UNCHANGED <<program, name, data, pos, dst, map, size, pipes, hist>>

\* write of a line, and writev of several at once; they fail without descriptor.
Write(r) ==
    /\ At(r, "write") \/ At(r, "writev")
    /\ Advance(r)
    /\ LET new == IF At(r, "write") THEN << <<r, Arg(r)>> >> ELSE Own(r, Arg(r))
       IN  IF fd[r] = 0 THEN UNCHANGED <<data, pos>>
           ELSE /\ data' = [data EXCEPT ![fd[r]] = Put(@, pos[r], new)]
                /\ pos' = [pos EXCEPT ![r] = @ + Len(new)]
    /\ UNCHANGED <<program, name, fd, dst, map, size, pipes, failed, hist>>
Rewind(r) ==
    /\ At(r, "rewind") /\ Advance(r) /\ pos' = [pos EXCEPT ![r] = 0]
    /\ UNCHANGED <<program, name, data, fd, dst, map, size, pipes, failed, hist>>
\* read and readv of all that follows, or the read of the page of demo_file_mmap.
Read(r) ==
    /\ At(r, "read") \/ At(r, "read_page")
    /\ Advance(r)
    /\ LET own == IF At(r, "read") THEN Own(r, Arg(r)) ELSE << <<r, Arg(r)>> >>
       IN  Shows(r, fd[r] # 0 /\ SubSeq(data[fd[r]], pos[r] + 1, Len(data[fd[r]])) = own)
    /\ UNCHANGED <<program, files, pipes, failed, disturbed, last>>
Close(r) ==
    /\ At(r, "close") /\ Advance(r)
    /\ fd' = [fd EXCEPT ![r] = 0] /\ dst' = [dst EXCEPT ![r] = 0] /\ pos' = [pos EXCEPT ![r] = 0]
    /\ size' = [size EXCEPT ![r] = 0]
    /\ UNCHANGED <<name, map>> /\ Store(data)
    /\ UNCHANGED <<program, pipes, failed, hist>>
Unlink(r) ==
    /\ At(r, "unlink") /\ Advance(r)
    /\ name' = [name EXCEPT ![Arg(r)] = 0] /\ UNCHANGED <<fd, dst, map>> /\ Store(data)
    /\ UNCHANGED <<program, pos, size, pipes, failed, hist>>

(* demo_sendfile: the size is asked for before the copy. *)
Fstat(r) ==
    /\ At(r, "fstat") /\ Advance(r)
    /\ size' = [size EXCEPT ![r] = IF fd[r] = 0 THEN 0 ELSE Len(data[fd[r]])]
    /\ UNCHANGED <<program, name, data, fd, pos, dst, map, pipes, failed, hist>>
SendfileCall(r) ==
    /\ At(r, "sendfile") /\ Advance(r)
    /\ LET sent == IF fd[r] = 0 \/ dst[r] = 0 THEN <<>>
                   ELSE SubSeq(data[fd[r]], 1, Min({size[r], Len(data[fd[r]])}))
       IN  /\ data' = IF dst[r] = 0 THEN data ELSE [data EXCEPT ![dst[r]] = Put(@, 0, sent)]
           /\ Shows(r, sent = Own(r, Arg(r)))
    /\ UNCHANGED <<program, name, fd, pos, dst, map, size, pipes, failed, disturbed, last>>

(* demo_file_mmap: the file is one page. *)
Pwrite(r) ==
    /\ At(r, "pwrite") /\ Advance(r)
    /\ data' = [data EXCEPT ![fd[r]] = Put(@, 0, << <<r, Arg(r)>> >>)]
    /\ UNCHANGED <<program, name, fd, pos, dst, map, size, pipes, failed, hist>>
Ftruncate(r) ==
    /\ At(r, "ftruncate") /\ Advance(r)
    /\ data' = [data EXCEPT ![fd[r]] = IF @ = <<>> THEN <<Hole>> ELSE @]
    /\ UNCHANGED <<program, name, fd, pos, dst, map, size, pipes, failed, hist>>
\* The demo returns if mmap fails, and leaves the file.
Mmap(r) ==
    /\ At(r, "mmap")
    /\ \/ /\ map' = [map EXCEPT ![r] = fd[r]] /\ Advance(r) /\ UNCHANGED <<name, data, fd, pos, failed>>
       \/ /\ fd' = [fd EXCEPT ![r] = 0] /\ pos' = [pos EXCEPT ![r] = 0] /\ Return(r) /\ Fails(r)
          /\ UNCHANGED <<name, dst, map>> /\ Store(data)
    /\ UNCHANGED <<program, dst, size, pipes, hist>>
\* Reading the page and writing it; it raises SIGBUS while the file is empty.
Load(r) ==
    /\ At(r, "load") /\ data[map[r]] # <<>> /\ Advance(r)
    /\ Shows(r, data[map[r]] = << <<r, Arg(r)>> >>)
    /\ UNCHANGED <<program, files, pipes, failed, disturbed, last>>
StorePage(r) ==
    /\ At(r, "store") /\ data[map[r]] # <<>> /\ Advance(r)
    /\ data' = [data EXCEPT ![map[r]] = << <<r, Arg(r)>> >>]
    /\ UNCHANGED <<program, name, fd, pos, dst, map, size, pipes, failed, hist>>
Sigbus(r) == (At(r, "load") \/ At(r, "store")) /\ data[map[r]] = <<>> /\ Dies(r)
Munmap(r) ==
    /\ At(r, "munmap") /\ Advance(r)
    /\ map' = [map EXCEPT ![r] = 0] /\ UNCHANGED <<name, fd, dst>> /\ Store(data)
    /\ UNCHANGED <<program, pos, size, pipes, failed, hist>>

-----------------------------------------------------------------------------
(* demo_select and demo_epoll *)

\* pipe and epoll_create1; the demo returns when one fails.
Pipe(r) ==
    /\ At(r, "pipe")
    /\ \/ Advance(r) /\ UNCHANGED failed
       \/ Return(r) /\ Fails(r)
    /\ UNCHANGED <<program, files, pipes, hist>>
\* A write to a pipe makes its read end ready again, also if it was before.
Fill(r) ==
    /\ At(r, "fill") /\ Advance(r)
    /\ bytes' = [bytes EXCEPT ![r][Arg(r)[1]] = @ + Arg(r)[2]]
    /\ ready' = [ready EXCEPT ![r] = @ \cup {Arg(r)[1]}]
    /\ UNCHANGED <<program, files, events, failed, hist>>
\* The second call's timeout is what the first has left of it, 0.
SelectCall(r) ==
    /\ At(r, "select") /\ Advance(r) /\ Shows(r, bytes[r][1] = Arg(r))
    /\ UNCHANGED <<program, files, pipes, failed, disturbed, last>>
\* EPOLLET: an end that was reported leaves the ready list.
EpollWait(r) ==
    /\ At(r, "epoll_wait") /\ Advance(r)
    /\ events' = [events EXCEPT ![r] = ready[r]] /\ ready' = [ready EXCEPT ![r] = {}]
    /\ UNCHANGED <<program, files, bytes, failed, hist>>
\* Every end reported by the second epoll_wait is read until it is empty.
Drain(r) ==
    /\ At(r, "drain") /\ Advance(r)
    /\ bytes' = [bytes EXCEPT ![r] = [p \in 1 .. 2 |-> IF p \in events[r] THEN 0 ELSE @[p]]]
    /\ Shows(r, MapThenSumSet(LAMBDA p : bytes[r][p], events[r]) = Arg(r))
    /\ UNCHANGED <<program, files, ready, events, failed, disturbed, last>>
PipesClosed(r) ==
    /\ At(r, "pipes_closed") /\ Advance(r)
    /\ bytes' = [bytes EXCEPT ![r] = <<0, 0>>]
    /\ ready' = [ready EXCEPT ![r] = {}] /\ events' = [events EXCEPT ![r] = {}]
    /\ UNCHANGED <<program, files, failed, hist>>

-----------------------------------------------------------------------------
Next ==
    \E r \in Runs :
        \/ Start(r) \/ Kill(r)
        \/ Open(r) \/ OpenDst(r) \/ Reopen(r) \/ Write(r) \/ Rewind(r) \/ Read(r) \/ Close(r) \/ Unlink(r)
        \/ Fstat(r) \/ SendfileCall(r)
        \/ Ftruncate(r) \/ Pwrite(r) \/ Mmap(r) \/ Load(r) \/ StorePage(r) \/ Sigbus(r) \/ Munmap(r)
        \/ Pipe(r) \/ Fill(r) \/ SelectCall(r) \/ EpollWait(r) \/ Drain(r) \/ PipesClosed(r)

Spec == Init /\ [][Next]_vars

-----------------------------------------------------------------------------
\* A run during which no other one is active and of which no call fails shows what
\* it has written, and leaves no file, whatever runs that were killed had left;
\* and even runs that overlap leave no file if none is killed and no call fails.
CleanRuns ==
    /\ \A r \in Runs : last = r /\ Ended(r) /\ r \notin disturbed \cup failed =>
          r \notin wrong /\ \A p \in Path : name[p] = 0
    /\ (\A r \in Runs : Ended(r)) /\ failed = {} => \A p \in Path : name[p] = 0
=============================================================================
