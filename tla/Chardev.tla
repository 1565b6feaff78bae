------------------------------- MODULE Chardev -------------------------------
(***************************************************************************)
(* The character device driver 10_device_driver/chardev.c: loading with    *)
(* goto-style unwinding, unloading, and the file operations that several   *)
(* users call concurrently on the one buffer.                              *)
(*                                                                         *)
(* Loading and unloading take one step per kernel call.  A file operation  *)
(* is split where another user can run: at mutex_lock, at the copies from  *)
(* and to user memory (which may sleep or fault), and at the final update. *)
(*                                                                         *)
(* pc[u]: "closed", "open" (no call in progress), "lock" (at mutex_lock),  *)
(* "body" (just locked), "commit" (copied, about to update the buffer),    *)
(* "copyout" (GSIZE, after mutex_unlock), "copyin" (SECHO, before lock),   *)
(* "lost" (opened while a load was in progress that then failed: the file  *)
(* outlives the buffer and the module, and is not followed any further).   *)
(***************************************************************************)
EXTENDS Integers, Sequences, FiniteSets, Functions

CONSTANTS Users, Byte,
          Data,          \* what a write may be given
          BUF_SIZE,      \* size of the buffer (4096)
          MaxCount,      \* bound: bytes asked for in one read
          MaxCalls,      \* bound: calls made in a behaviour
          MaxLoads,      \* bound: times the module is loaded
          Junk,          \* contents of memory the driver has not filled
          NoUser

ASSUME ChardevAssumption ==
    /\ BUF_SIZE \in Nat \ {0}
    /\ MaxCount \in Nat /\ MaxCalls \in Nat /\ MaxLoads \in Nat
    /\ NoUser \notin Users
    /\ Junk \notin Byte /\ Data \subseteq Seq(Byte)

VARIABLES mod,      \* "unloaded", "init", "failing" (in the error labels), "live", "exiting"
          res,      \* kernel resources the module holds
          todo,     \* resources the cleanup in progress has still to release
          loads,    \* how often the module was loaded
          buf, buf_len, echo, owner,   \* g_dev
          pc, call, \* the users and the call each is in
          n,        \* the handler's local n or val
          ubuf,     \* bytes a read has copied to the user
          ret,      \* what the call that has just returned gave (for GSIZE, the size), 0 for the others
          calls,    \* calls made
          out       \* history: bytes consumed by successful reads

module == <<mod, res, todo, loads>>
device == <<buf, buf_len, echo>>
local  == <<call, n, ubuf>>
vars   == <<module, device, owner, pc, local, ret, calls, out>>

Cell == 0 .. BUF_SIZE - 1
Call ==
    [op : {"read"}, count : 0 .. MaxCount]
        \cup [op : {"write"}, data : Data]
        \cup [op : {"secho"}, val : BOOLEAN]
        \cup [op : {"reset", "gsize"}]
NoCall == [op |-> "none"]

EFAULT == -14
ENOTTY == -25
ENOSPC == -28
ESPIPE == -29
Resources == {"region", "buf", "cdev", "class", "device"}
FewerOf(a, b) == IF a < b THEN a ELSE b

Init ==
    /\ mod = "unloaded" /\ res = {} /\ todo = <<>> /\ loads = 0
    /\ buf = [k \in Cell |-> Junk] /\ buf_len = 0 /\ echo = FALSE
    /\ owner = NoUser
    /\ pc = [u \in Users |-> "closed"]
    /\ call = [u \in Users |-> NoCall]
    /\ n = [u \in Users |-> 0]
    /\ ubuf = [u \in Users |-> <<>>]
    /\ ret = [u \in Users |-> 0]
    /\ calls = 0
    /\ out = <<>>

IsOpen(u) == pc[u] \notin {"closed", "lost"}
InCall(u) == IsOpen(u) /\ pc[u] # "open"

\* Return r to the user; the handler's locals die.
Return(u, r) ==
    /\ pc' = [pc EXCEPT ![u] = "open"]
    /\ ret' = [v \in Users |-> IF v = u THEN r ELSE 0]
    /\ call' = [call EXCEPT ![u] = NoCall]
    /\ n' = [n EXCEPT ![u] = 0]
    /\ ubuf' = [ubuf EXCEPT ![u] = <<>>]

Goto(u, where) == pc' = [pc EXCEPT ![u] = where] /\ ret' = [v \in Users |-> 0]

-----------------------------------------------------------------------------
(* Wrong variants of definitions below, each the shape of a plausible bug. *)

\* A failing class_create jumps to err_buf, past cdev_del.
LabelOf_TooFar == [region |-> 5, buf |-> 4, cdev |-> 3, class |-> 3, device |-> 1]
\* A module without .owner in its file_operations.
Unused_NoOwner == TRUE
\* write stores at the start of the buffer.
WriteAt_Start == 0
\* the early return of a full write keeps the mutex.
WriteFull_KeepsLock(u) ==
    /\ pc[u] = "body" /\ call[u].op = "write"
    /\ buf_len = BUF_SIZE
    /\ Return(u, ENOSPC)
    /\ UNCHANGED <<module, device, owner, calls, out>>

-----------------------------------------------------------------------------
(* chardev_init and chardev_exit *)

AcquireOrder == <<"region", "buf", "cdev", "class", "device">>

\* The cleanup labels err_class, err_cdev, err_buf, err_chrdev fall through in
\* this order; LabelOf is where a failing call jumps to (5: plain return).
Labels == <<"class", "cdev", "buf", "region">>
LabelOf == [region |-> 5, buf |-> 4, cdev |-> 3, class |-> 2, device |-> 1]
Teardown == <<"device", "class", "cdev", "buf", "region">>

Insmod ==
    /\ mod = "unloaded" /\ loads < MaxLoads
    /\ mod' = "init" /\ loads' = loads + 1
    /\ UNCHANGED <<res, todo, device, owner, pc, local, ret, calls, out>>

\* chardev_init goes on with the first resource it does not hold yet.
NextResource ==
    AcquireOrder[CHOOSE k \in 1 .. 5 :
                     /\ AcquireOrder[k] \notin res
                     /\ \A j \in 1 .. k - 1 : AcquireOrder[j] \in res]

\* The next kernel call of chardev_init succeeds.  kmalloc leaves the buffer
\* uninitialised.  After device_create the function returns 0.
Acquire ==
    /\ mod = "init"
    /\ res' = res \cup {NextResource}
    /\ mod' = IF NextResource = "device" THEN "live" ELSE "init"
    /\ IF NextResource = "buf"
         THEN buf' = [k \in Cell |-> Junk] /\ buf_len' = 0 /\ echo' = TRUE
         ELSE UNCHANGED device
    /\ UNCHANGED <<todo, loads, owner, pc, local, ret, calls, out>>

\* It fails: jump to the label that releases what has been acquired so far.
AcquireFails ==
    /\ mod = "init"
    /\ todo' = SubSeq(Labels, LabelOf[NextResource], 4)
    /\ mod' = IF todo' = <<>> THEN "unloaded" ELSE "failing"
    /\ UNCHANGED <<res, loads, device, owner, pc, local, ret, calls, out>>

\* .owner = THIS_MODULE: an open file holds a reference, and the kernel refuses
\* to unload a module that is referenced.
Unused == \A u \in Users : ~IsOpen(u)

Rmmod ==
    /\ mod = "live" /\ Unused
    /\ mod' = "exiting" /\ todo' = Teardown
    /\ UNCHANGED <<res, loads, device, owner, pc, local, ret, calls, out>>

\* err_buf frees the buffer under the files that were opened since cdev_add.
FilesLost ==
    /\ pc' = [u \in Users |-> IF pc[u] = "closed" THEN "closed" ELSE "lost"]
    /\ call' = [u \in Users |-> NoCall]
    /\ n' = [u \in Users |-> 0] /\ ubuf' = [u \in Users |-> <<>>]
    /\ ret' = [u \in Users |-> 0]
    /\ owner' = NoUser

\* One release call of the cleanup labels or of chardev_exit.
Release ==
    /\ mod \in {"failing", "exiting"}
    /\ res' = res \ {Head(todo)}
    /\ todo' = Tail(todo)
    /\ mod' = IF todo' = <<>> THEN "unloaded" ELSE mod
    /\ IF Head(todo) = "buf"
         THEN buf' = [k \in Cell |-> Junk] /\ UNCHANGED <<buf_len, echo>>
         ELSE UNCHANGED device
    /\ IF Head(todo) = "buf" /\ mod = "failing" THEN FilesLost ELSE UNCHANGED <<owner, pc, local, ret>>
    /\ UNCHANGED <<loads, calls, out>>

-----------------------------------------------------------------------------
(* open, release, and the entry of every other call *)

\* The device can be opened from cdev_add on, before chardev_init has returned and
\* until its error labels have come to cdev_del; the node may be one of an earlier
\* load or made by hand.  A module that is being unloaded refuses the open.
Open(u) ==
    /\ pc[u] = "closed"
    /\ "cdev" \in res /\ mod # "exiting"
    /\ Goto(u, "open")
    /\ UNCHANGED <<module, device, owner, local, calls, out>>

Close(u) ==
    /\ pc[u] = "open"
    /\ Goto(u, "closed")
    /\ UNCHANGED <<module, device, owner, local, calls, out>>

\* Every call but SECHO, which copies its argument first, begins by locking.
Enter(u, c) ==
    /\ pc[u] = "open"
    /\ calls < MaxCalls
    /\ calls' = calls + 1
    /\ call' = [call EXCEPT ![u] = c]
    /\ Goto(u, IF c.op = "secho" THEN "copyin" ELSE "lock")
    /\ UNCHANGED <<module, device, owner, n, ubuf, out>>

\* A call that fails without looking at the device.
Rejected(u, r) ==
    /\ pc[u] = "open"
    /\ calls < MaxCalls
    /\ calls' = calls + 1
    /\ Return(u, r)
    /\ UNCHANGED <<module, device, owner, out>>

Llseek(u)       == Rejected(u, ESPIPE)
IoctlUnknown(u) == Rejected(u, ENOTTY)

Unlocked == owner = NoUser

MutexLock(u) ==
    /\ pc[u] = "lock"
    /\ Unlocked
    /\ owner' = u
    /\ Goto(u, "body")
    /\ UNCHANGED <<module, device, local, calls, out>>

In(u, op) == pc[u] = "body" /\ call[u].op = op

-----------------------------------------------------------------------------
(* chardev_read *)

ReadEmpty(u) ==
    /\ In(u, "read")
    /\ buf_len = 0
    /\ owner' = NoUser
    /\ Return(u, 0)
    /\ UNCHANGED <<module, device, calls, out>>

Bytes(k) == [j \in 1 .. k |-> buf[j - 1]]

\* copy_to_user of all n bytes.
ReadCopy(u) ==
    /\ In(u, "read")
    /\ buf_len # 0
    /\ n' = [n EXCEPT ![u] = FewerOf(call[u].count, buf_len)]
    /\ ubuf' = [ubuf EXCEPT ![u] = Bytes(n'[u])]
    /\ Goto(u, "commit")
    /\ UNCHANGED <<module, device, owner, call, calls, out>>

\* copy_to_user faults; what it copied before the fault is not counted.
ReadFault(u) ==
    /\ In(u, "read")
    /\ buf_len # 0 /\ call[u].count # 0
    /\ owner' = NoUser
    /\ Return(u, EFAULT)
    /\ UNCHANGED <<module, device, calls, out>>

\* memmove and buf_len -= n; the cells past the new end keep what they held.
ReadCommit(u) ==
    /\ pc[u] = "commit" /\ call[u].op = "read"
    /\ buf' = [k \in Cell |-> IF k + n[u] < buf_len THEN buf[k + n[u]] ELSE buf[k]]
    /\ buf_len' = buf_len - n[u]
    /\ out' = out \o ubuf[u]
    /\ owner' = NoUser
    /\ Return(u, n[u])
    /\ UNCHANGED <<module, echo, calls>>

(* chardev_write *)

WriteFull(u) ==
    /\ In(u, "write")
    /\ buf_len = BUF_SIZE
    /\ owner' = NoUser
    /\ Return(u, ENOSPC)
    /\ UNCHANGED <<module, device, calls, out>>

Space == BUF_SIZE - buf_len
WriteAt == buf_len

\* copy_from_user of m bytes, of which only the first k arrive.
CopiedIn(data, m, k) ==
    [c \in Cell |-> IF c \in WriteAt .. WriteAt + m - 1
                      THEN IF c < WriteAt + k THEN data[c - WriteAt + 1] ELSE Junk
                      ELSE buf[c]]

WriteCopy(u) ==
    /\ In(u, "write")
    /\ buf_len # BUF_SIZE
    /\ n' = [n EXCEPT ![u] = FewerOf(Len(call[u].data), Space)]
    /\ buf' = CopiedIn(call[u].data, n'[u], n'[u])
    /\ Goto(u, "commit")
    /\ UNCHANGED <<module, buf_len, echo, owner, call, ubuf, calls, out>>

\* copy_from_user faults after k bytes and zeroes the rest of the destination.
WriteFault(u) ==
    /\ In(u, "write")
    /\ buf_len # BUF_SIZE
    /\ LET m == FewerOf(Len(call[u].data), Space)
       IN  \E k \in 0 .. m - 1 : buf' = CopiedIn(call[u].data, m, k)
    /\ owner' = NoUser
    /\ Return(u, EFAULT)
    /\ UNCHANGED <<module, buf_len, echo, calls, out>>

WriteCommit(u) ==
    /\ pc[u] = "commit" /\ call[u].op = "write"
    /\ buf_len' = buf_len + n[u]
    /\ owner' = NoUser
    /\ Return(u, n[u])
    /\ UNCHANGED <<module, buf, echo, calls, out>>

(* chardev_ioctl *)

IoctlReset(u) ==
    /\ In(u, "reset")
    /\ buf' = [k \in Cell |-> Junk] /\ buf_len' = 0
    /\ owner' = NoUser
    /\ Return(u, 0)
    /\ UNCHANGED <<module, echo, calls, out>>

IoctlSize(u) ==
    /\ In(u, "gsize")
    /\ n' = [n EXCEPT ![u] = buf_len]
    /\ owner' = NoUser
    /\ Goto(u, "copyout")
    /\ UNCHANGED <<module, device, call, ubuf, calls, out>>

IoctlSizeOut(u) ==
    /\ pc[u] = "copyout"
    /\ Return(u, n[u]) \/ Return(u, EFAULT)
    /\ UNCHANGED <<module, device, owner, calls, out>>

IoctlEchoIn(u) ==
    /\ pc[u] = "copyin"
    /\ (Goto(u, "lock") /\ UNCHANGED local) \/ Return(u, EFAULT)
    /\ UNCHANGED <<module, device, owner, calls, out>>

IoctlEcho(u) ==
    /\ In(u, "secho")
    /\ echo' = call[u].val
    /\ owner' = NoUser
    /\ Return(u, 0)
    /\ UNCHANGED <<module, buf, buf_len, calls, out>>

-----------------------------------------------------------------------------
Handler(u) ==
    \/ ReadEmpty(u) \/ ReadCopy(u) \/ ReadFault(u) \/ ReadCommit(u)
    \/ WriteFull(u) \/ WriteCopy(u) \/ WriteFault(u) \/ WriteCommit(u)
    \/ IoctlReset(u) \/ IoctlSize(u) \/ IoctlSizeOut(u)
    \/ IoctlEchoIn(u) \/ IoctlEcho(u)

Lifecycle == Insmod \/ Acquire \/ AcquireFails \/ Rmmod \/ Release

\* Every load allowed by the bound has been used.
Finished == mod = "unloaded" /\ loads = MaxLoads /\ UNCHANGED vars

Next ==
    \/ Lifecycle
    \/ \E u \in Users : Open(u) \/ Close(u) \/ Llseek(u) \/ IoctlUnknown(u) \/ MutexLock(u) \/ Handler(u)
    \/ \E u \in Users, c \in Call : Enter(u, c)
    \/ Finished

Spec == Init /\ [][Next]_vars

\* The kernel runs a runnable task, and its mutex is handed over fairly.
Fairness == \A u \in Users : SF_vars(MutexLock(u)) /\ WF_vars(Handler(u))

-----------------------------------------------------------------------------
\* No operation touches a freed buffer.  While a file is open the buffer is there,
\* and the whole device once the load has succeeded, until the last file is closed;
\* a registered cdev always has its buffer behind it.  The exception is "lost": a
\* file that was opened before chardev_init returned keeps its buffer only until
\* the load fails.
NoUseAfterFree ==
    /\ (\E u \in Users : IsOpen(u)) => "buf" \in res /\ (mod \in {"init", "failing"} \/ res = Resources)
    /\ "cdev" \in res => "buf" \in res
    /\ "device" \in res => {"class", "cdev"} \subseteq res

\* A load that fails at any call, and an unload, release exactly what is held:
\* nothing is leaked and nothing is released twice.
NothingLeaked ==
    /\ mod = "unloaded" => res = {}
    /\ mod \in {"failing", "exiting"} => Range(todo) = res /\ IsInjective(todo)

\* The bytes a read can still get; freeing the buffer discards them.
Contents == IF "buf" \in res THEN Bytes(buf_len) ELSE <<>>

Stream == INSTANCE ByteStream WITH chan <- Contents, Capacity <- BUF_SIZE

\* The bytes in the buffer go without being read.
Discards == Contents # <<>> /\ Contents' = <<>> /\ out' = out

\* Concurrent calls, faults, resets and reloads together implement one bounded
\* byte stream: no byte is repeated, reordered or made up, and bytes are discarded
\* by CHARDEV_RESET and by the kfree of a load that fails or of an unload, and by
\* nothing else.  A call that returns -EFAULT leaves the stream as it was, even if
\* some bytes had been copied.
ImplementsStream ==
    /\ Stream!Spec
    /\ [][Discards => "buf" \notin res' \/ \E u \in Users : In(u, "reset") /\ ~InCall(u)']_vars
    /\ [][\A u \in Users : InCall(u) /\ ~InCall(u)' /\ ret'[u] = EFAULT
              => UNCHANGED <<Contents, out>>]_vars

\* Every call returns, unless the load that its file was opened in fails.
CallsReturn == \A u \in Users : InCall(u) ~> ~InCall(u)
=============================================================================
