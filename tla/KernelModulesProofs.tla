-------------------------- MODULE KernelModulesProofs --------------------------
(***************************************************************************)
(* The two kernel modules, proved with TLAPS for every set of users and of *)
(* readers, every buffer size, every value written to count and every      *)
(* number of loads: chardev.c releases exactly what it has acquired, no    *)
(* file operation finds the device half there and all of them together are *)
(* one byte stream; no code of hello_module.c runs while it is not loaded, *)
(* and what it prints agrees with the parameter.                           *)
(***************************************************************************)
EXTENDS KernelModules, TLAPS

-----------------------------------------------------------------------------
(* What chardev.c holds *)

\* The first k resources that chardev_init acquires.
Held(k) == {AcquireOrder[j] : j \in 1 .. k}

\* What is held is always a first part of what chardev_init acquires; a cleanup in
\* progress, of a load that failed or of an unload, has it all before it, newest
\* first; and a file is open only while the buffer is there and the module is not
\* being unloaded.
ResInv ==
    /\ pc \in [Users -> {"closed", "open", "lock", "body", "commit", "copyout", "copyin", "lost"}]
    /\ mod \in {"unloaded", "init", "failing", "live", "exiting"}
    /\ mod = "unloaded" => res = {}
    /\ mod = "init" => \E k \in 0 .. 4 : res = Held(k)
    /\ mod = "live" => res = Held(5)
    /\ mod \in {"failing", "exiting"} =>
          \E k \in 1 .. 5 :
              /\ res = Held(k)
              /\ todo \in Seq(Resources) /\ Len(todo) = k
              /\ \A j \in 1 .. k : todo[j] = AcquireOrder[k + 1 - j]
    /\ (\E u \in Users : IsOpen(u)) => mod \in {"init", "failing", "live"} /\ "buf" \in res

\* chardev_init acquires one resource after the other, and all five in the end.
LEMMA HeldGrows ==
    /\ Held(0) = {} /\ Held(5) = Resources
    /\ \A k \in 0 .. 4 : /\ Held(k + 1) = Held(k) \cup {AcquireOrder[k + 1]}
                         /\ AcquireOrder[k + 1] \notin Held(k)
    /\ \A k \in 0 .. 5 : Held(k) \subseteq Resources
BY DEF Held, AcquireOrder, Resources

\* The next resource is the one behind those that are held.
LEMMA NextToHeld ==
    ASSUME NEW k \in 0 .. 4, res = Held(k)
    PROVE  NextResource = AcquireOrder[k + 1]
<1> DEFINE First(m) == /\ AcquireOrder[m] \notin res
                       /\ \A j \in 1 .. m - 1 : AcquireOrder[j] \in res
<1>1. \A m, j \in 1 .. 5 : AcquireOrder[m] = AcquireOrder[j] => m = j
  BY DEF AcquireOrder
<1>2. \A j \in 1 .. 5 : AcquireOrder[j] \in res <=> j <= k
  BY <1>1 DEF Held
<1>3. k + 1 \in 1 .. 5 /\ First(k + 1)
  BY <1>2
<1>4. \A m \in 1 .. 5 : First(m) => m = k + 1
  BY <1>2
<1>5. (CHOOSE m \in 1 .. 5 : First(m)) = k + 1
  BY <1>3, <1>4, Zenon
<1> QED BY <1>5, Zenon DEF NextResource

\* What chardev_init is about to acquire is not held; what a cleanup is about to
\* release is gone after it.
LEMMA OneAtATime ==
    ASSUME ResInv
    PROVE  /\ Acquire => NextResource \notin res
           /\ Release => Head(todo) \notin res'
<1>1. ASSUME Acquire PROVE NextResource \notin res
  <2>1. PICK k \in 0 .. 4 : res = Held(k)
    BY <1>1, Zenon DEF Acquire, ResInv
  <2> QED BY <2>1, NextToHeld, HeldGrows, Zenon
<1> QED BY <1>1, Zenon DEF Release

-----------------------------------------------------------------------------
(* The file operations of chardev.c *)

\* The cells from a up to b hold bytes that a user has written.
DataIn(a, b) == \A k \in a .. b - 1 : buf[k] \in Byte

\* The variables of the device and of the calls in progress have their types.
DevType ==
    /\ owner \in Users \cup {NoUser}
    /\ buf \in [Cell -> Byte \cup {Junk}] /\ buf_len \in 0 .. BUF_SIZE
    /\ call \in [Users -> Call \cup {NoCall}]
    /\ n \in [Users -> 0 .. BUF_SIZE] /\ ubuf \in [Users -> Seq(Byte)] /\ ret \in [Users -> Int]
    /\ out \in Seq(Byte)

\* A user past mutex_lock owns the mutex.  A read that has copied holds the front
\* of the buffer, a write that has copied has put its bytes behind the end.
UserInv(u) ==
    /\ pc[u] \in {"body", "commit"} <=> owner = u
    /\ InCall(u) => call[u] \in Call
    /\ pc[u] = "commit" =>
         \/ /\ call[u].op = "read"
            /\ n[u] <= buf_len /\ ubuf[u] = Bytes(n[u])
         \/ /\ call[u].op = "write"
            /\ buf_len + n[u] <= BUF_SIZE /\ DataIn(buf_len, buf_len + n[u])

\* What chardev.c relies on between mutex_lock and mutex_unlock: the bytes below
\* buf_len are data, and nobody else moves them or buf_len.
StreamInv ==
    /\ DevType
    /\ "buf" \in res => DataIn(0, buf_len)
    /\ \A u \in Users : UserInv(u)

\* The arguments of a read and of a write.
LEMMA CallFields ==
    \A c \in Call : /\ c.op = "read" => c.count \in Nat
                    /\ c.op = "write" => c.data \in Seq(Byte)
<1> SUFFICES ASSUME NEW c \in Call
             PROVE  /\ c.op = "read" => c.count \in Nat
                    /\ c.op = "write" => c.data \in Seq(Byte)
  BY Zenon
<1>1. CASE c \in [op : {"read"}, count : 0 .. MaxCount]
  BY <1>1, ChardevAssumption
<1>2. CASE c \in [op : {"write"}, data : Data]
  BY <1>2, ChardevAssumption, Zenon
<1>3. CASE c \in [op : {"secho"}, val : BOOLEAN]
  BY <1>3, Zenon
<1>4. CASE c \in [op : {"reset", "gsize"}]
  BY <1>4, Zenon
<1> QED BY <1>1, <1>2, <1>3, <1>4, Zenon DEF Call

\* The first k cells, when they hold data, are a sequence of k bytes.
LEMMA BytesType ==
    ASSUME NEW k \in 0 .. BUF_SIZE, DataIn(0, k)
    PROVE  /\ Bytes(k) \in Seq(Byte) /\ Len(Bytes(k)) = k
           /\ \A j \in 1 .. k : Bytes(k)[j] = buf[j - 1]
<1>1. \A j \in 1 .. k : buf[j - 1] \in Byte
  BY ChardevAssumption DEF DataIn
<1>2. Bytes(k) \in [1 .. k -> Byte]
  BY <1>1, Zenon DEF Bytes
<1> QED BY <1>2, ChardevAssumption DEF Bytes

\* An open file means that the buffer is there.
LEMMA BufThere == ASSUME ResInv, NEW u \in Users, IsOpen(u) PROVE "buf" \in res
BY Zenon DEF ResInv

\* No data and no calls before the first load.
LEMMA InitStreamInv == Init => StreamInv
<1> SUFFICES ASSUME Init PROVE StreamInv
  BY Zenon
<1>1. DevType
  BY ChardevAssumption DEF Init, DevType, Cell
<1>2. \A u \in Users : UserInv(u)
  BY ChardevAssumption, Zenon DEF Init, UserInv, InCall, IsOpen
<1> QED BY <1>1, <1>2, Zenon DEF Init, StreamInv

\* A step that touches no data and no call keeps the stream invariant.
LEMMA QuietStreamInv ==
    ASSUME StreamInv, "buf" \in res' => "buf" \in res, UNCHANGED <<device, owner, pc, local, ret, out>>
    PROVE  StreamInv'
<1>1. DevType'
  BY Zenon DEF StreamInv, DevType, local, device
<1>2. "buf" \in res' => DataIn(0, buf_len)'
  BY Zenon DEF StreamInv, DataIn, device
<1>3. \A u \in Users : UserInv(u)'
  BY ZenonT(40) DEF StreamInv, UserInv, InCall, IsOpen, Bytes, DataIn, local, device
<1> QED BY <1>1, <1>2, <1>3, Zenon DEF StreamInv

\* So does one that changes the buffer, as long as no file is open after it.
LEMMA AloneStreamInv ==
    ASSUME DevType', \A u \in Users : ~IsOpen(u)' /\ owner' # u, "buf" \in res' => DataIn(0, buf_len)'
    PROVE  StreamInv'
<1>1. \A u \in Users : UserInv(u)'
  BY Zenon DEF UserInv, InCall, IsOpen
<1> QED BY <1>1, Zenon DEF StreamInv

\* While no file is open nobody is in a call, nor has the mutex.
LEMMA NobodyInside ==
    ASSUME StreamInv, \A u \in Users : ~IsOpen(u) PROVE \A u \in Users : owner # u
BY Zenon DEF StreamInv, UserInv, IsOpen

\* kmalloc and kfree come when no file is open, or leave none that is followed; the
\* other steps of a load or an unload touch no data.
LEMMA LifecycleStreamInv ==
    ASSUME ResInv, StreamInv, Lifecycle PROVE StreamInv'
<1>1. CASE Insmod \/ AcquireFails \/ Rmmod
  BY <1>1, QuietStreamInv, Zenon DEF Insmod, AcquireFails, Rmmod
<1>2. CASE Acquire /\ NextResource # "buf"
  BY <1>2, QuietStreamInv, Zenon DEF Acquire
<1>3. CASE Acquire /\ NextResource = "buf"
  <2>1. \A u \in Users : ~IsOpen(u)
    BY <1>3, OneAtATime, Zenon DEF ResInv
  <2>2. \A u \in Users : owner # u
    BY <2>1, NobodyInside, Zenon
  <2>3. /\ buf' = [k \in Cell |-> Junk] /\ buf_len' = 0
        /\ UNCHANGED <<owner, pc, local, ret, out>>
    BY <1>3, Zenon DEF Acquire
  <2>4. DevType'
    BY <2>3, ChardevAssumption DEF StreamInv, DevType, local
  <2>5. DataIn(0, buf_len)'
    BY <2>3 DEF DataIn
  <2>6. \A u \in Users : ~IsOpen(u)' /\ owner' # u
    BY <2>1, <2>2, <2>3, Zenon DEF IsOpen
  <2> QED BY <2>4, <2>5, <2>6, AloneStreamInv, Zenon
<1>4. CASE Release /\ Head(todo) # "buf"
  BY <1>4, QuietStreamInv, Zenon DEF Release
<1>5. CASE Release /\ Head(todo) = "buf" /\ mod = "failing"
  <2>1. FilesLost /\ buf' = [k \in Cell |-> Junk] /\ UNCHANGED <<buf_len, out>>
    BY <1>5, Zenon DEF Release
  <2>2. DevType'
    BY <2>1, ChardevAssumption DEF StreamInv, DevType, FilesLost
  <2>3. \A u \in Users : ~IsOpen(u)' /\ owner' # u
    BY <2>1, ChardevAssumption, Zenon DEF FilesLost, IsOpen
  <2> QED BY <1>5, <2>2, <2>3, OneAtATime, AloneStreamInv, Zenon
<1>6. CASE Release /\ Head(todo) = "buf" /\ mod # "failing"
  <2>1. \A u \in Users : ~IsOpen(u)
    BY <1>6, Zenon DEF ResInv, Release
  <2>2. \A u \in Users : owner # u
    BY <2>1, NobodyInside, Zenon
  <2>3. buf' = [k \in Cell |-> Junk] /\ UNCHANGED <<buf_len, owner, pc, local, ret, out>>
    BY <1>6, Zenon DEF Release
  <2>4. DevType'
    BY <2>3, ChardevAssumption DEF StreamInv, DevType, local
  <2>5. \A u \in Users : ~IsOpen(u)' /\ owner' # u
    BY <2>1, <2>2, <2>3, Zenon DEF IsOpen
  <2> QED BY <1>6, <2>4, <2>5, OneAtATime, AloneStreamInv, Zenon
<1> QED BY <1>1, <1>2, <1>3, <1>4, <1>5, <1>6, Zenon DEF Lifecycle

\* A call returns: its locals are gone.
LEMMA ReturnType ==
    ASSUME StreamInv, NEW u \in Users, NEW r \in Int, Return(u, r)
    PROVE  /\ call' \in [Users -> Call \cup {NoCall}] /\ n' \in [Users -> 0 .. BUF_SIZE]
           /\ ubuf' \in [Users -> Seq(Byte)] /\ ret' \in [Users -> Int]
           /\ \A v \in Users \ {u} : n'[v] = n[v] /\ ubuf'[v] = ubuf[v]
           /\ ret'[u] = r
<1>1. call' \in [Users -> Call \cup {NoCall}]
  BY Zenon DEF Return, StreamInv, DevType
<1>2. n' \in [Users -> 0 .. BUF_SIZE] /\ \A v \in Users \ {u} : n'[v] = n[v]
  BY ChardevAssumption DEF Return, StreamInv, DevType
<1>3. ubuf' \in [Users -> Seq(Byte)] /\ \A v \in Users \ {u} : ubuf'[v] = ubuf[v]
  BY DEF Return, StreamInv, DevType
<1>4. ret' \in [Users -> Int] /\ ret'[u] = r
  <2>1. 0 \in Int
    OBVIOUS
  <2> QED BY <2>1, Zenon DEF Return
<1> QED BY <1>1, <1>2, <1>3, <1>4, Zenon

\* A step of a user outside the critical section, which touches nothing but this
\* user's own locals.
LEMMA OutsideStreamInv ==
    ASSUME ResInv, StreamInv, NEW u \in Users, pc[u] \notin {"body", "commit"},
           NEW w \in {"closed", "open", "lock", "copyin"}, pc' = [pc EXCEPT ![u] = w],
           NEW c \in Call \cup {NoCall}, call' = [call EXCEPT ![u] = c],
           w \in {"lock", "copyin"} => c \in Call,
           \A v \in Users \ {u} : n'[v] = n[v] /\ ubuf'[v] = ubuf[v],
           DevType', UNCHANGED <<res, device, owner, out>>
    PROVE  StreamInv'
<1>2. ("buf" \in res => DataIn(0, buf_len))'
  BY Zenon DEF StreamInv, DataIn, device
<1>3. ASSUME NEW v \in Users PROVE UserInv(v)'
  <2>1. CASE v = u
    <3>1. pc'[u] = w /\ call'[u] = c /\ owner' # u
      BY DEF StreamInv, DevType, UserInv, ResInv
    <3> QED BY <2>1, <3>1, Zenon DEF UserInv, InCall, IsOpen
  <2>2. CASE v # u
    <3>1. pc'[v] = pc[v] /\ call'[v] = call[v] /\ n'[v] = n[v] /\ ubuf'[v] = ubuf[v]
      BY <2>2 DEF StreamInv, DevType, ResInv
    <3>2. Bytes(n[v])' = Bytes(n[v])
      BY <3>1, Zenon DEF Bytes, device
    <3>3. DataIn(buf_len, buf_len + n[v])' <=> DataIn(buf_len, buf_len + n[v])
      BY <3>1, Zenon DEF DataIn, device
    <3> QED BY <3>1, <3>2, <3>3, Zenon DEF StreamInv, UserInv, InCall, IsOpen, device
  <2> QED BY <2>1, <2>2, Zenon
<1> QED BY <1>2, <1>3, Zenon DEF StreamInv

\* A step that ends a critical section: what the others rely on is the device's
\* type and its data.
LEMMA UnlockStreamInv ==
    ASSUME ResInv, StreamInv, NEW u \in Users, pc[u] \in {"body", "commit"},
           NEW w \in {"open", "copyout"}, pc' = [pc EXCEPT ![u] = w], owner' = NoUser,
           NEW c \in Call \cup {NoCall}, call' = [call EXCEPT ![u] = c],
           w = "copyout" => c \in Call,
           DevType', DataIn(0, buf_len)'
    PROVE  StreamInv'
<1>1. ASSUME NEW v \in Users PROVE UserInv(v)'
  <2>1. CASE v = u
    BY <2>1, ChardevAssumption, Zenon DEF StreamInv, DevType, UserInv, InCall, IsOpen, ResInv
  <2>2. CASE v # u
    <3>1. pc[v] \notin {"body", "commit"} /\ pc'[v] = pc[v] /\ call'[v] = call[v]
      BY <2>2, Zenon DEF StreamInv, DevType, UserInv, ResInv
    <3> QED BY <3>1, ChardevAssumption, Zenon DEF StreamInv, UserInv, InCall, IsOpen
  <2> QED BY <2>1, <2>2, Zenon
<1> QED BY <1>1, Zenon DEF StreamInv

\* A step without a result sets the result to 0.
LEMMA GotoRet ==
    ASSUME StreamInv, NEW u \in Users, NEW w, Goto(u, w)
    PROVE  ret' \in [Users -> Int] /\ ret'[u] = 0
BY DEF Goto, StreamInv, DevType

\* The user in the critical section is the one who holds the lock, and finds the
\* buffer there.
LEMMA InSection ==
    ASSUME ResInv, StreamInv, NEW u \in Users, pc[u] \in {"body", "commit"}
    PROVE  /\ owner = u /\ DataIn(0, buf_len) /\ call[u] \in Call
           /\ n[u] \in Int /\ buf_len \in Int /\ BUF_SIZE \in Int
<1>1. IsOpen(u) /\ InCall(u)
  BY Zenon DEF IsOpen, InCall
<1>2. owner = u /\ DataIn(0, buf_len) /\ call[u] \in Call
  BY <1>1, BufThere, Zenon DEF StreamInv, UserInv
<1>3. n[u] \in 0 .. BUF_SIZE /\ buf_len \in 0 .. BUF_SIZE /\ BUF_SIZE \in Int
  BY ChardevAssumption DEF StreamInv, DevType
<1>4. n[u] \in Int /\ buf_len \in Int
  BY <1>3
<1> QED BY <1>2, <1>3, <1>4, Zenon

\* The steps outside the critical section keep the stream invariant.
LEMMA OutsideSteps ==
    ASSUME ResInv, StreamInv, NEW u \in Users,
           Open(u) \/ Close(u) \/ Llseek(u) \/ IoctlUnknown(u) \/ (IoctlSizeOut(u) /\ pc[u] = "copyout") \/ IoctlEchoIn(u)
    PROVE  StreamInv'
<1> USE DEF module
<1>2. CASE Open(u) \/ Close(u)
  <2>1. PICK w \in {"closed", "open"} : Goto(u, w)
    BY <1>2, Zenon DEF Open, Close
  <2>2. DevType'
    BY GotoRet, <1>2, <2>1, Zenon DEF StreamInv, DevType, Open, Close, device, local
  <2>3. call[u] \in Call \cup {NoCall} /\ call' = [call EXCEPT ![u] = call[u]]
    BY <1>2, Zenon DEF StreamInv, DevType, Open, Close, local
  <2>4. pc[u] \notin {"body", "commit"} /\ UNCHANGED <<res, device, owner, out, n, ubuf>>
    BY <1>2, Zenon DEF Open, Close, local
  <2> QED BY <2>1, <2>2, <2>3, <2>4, OutsideStreamInv, Zenon DEF Goto
<1>3. CASE Llseek(u) \/ IoctlUnknown(u) \/ (IoctlSizeOut(u) /\ pc[u] = "copyout")
  <2>1. PICK r \in Int : Return(u, r)
    BY <1>3 DEF Llseek, IoctlUnknown, Rejected, IoctlSizeOut, ESPIPE, ENOTTY, EFAULT, StreamInv, DevType
  <2>2. pc[u] \notin {"body", "commit"} /\ UNCHANGED <<res, device, owner, out>>
    BY <1>3, Zenon DEF Llseek, IoctlUnknown, Rejected, IoctlSizeOut
  <2>3. DevType'
    BY <2>1, <2>2, ReturnType, Zenon DEF StreamInv, DevType, device
  <2> QED BY <2>1, <2>2, <2>3, ReturnType, OutsideStreamInv, ZenonT(40) DEF Return
<1>4. CASE IoctlEchoIn(u)
  <2>1. pc[u] \notin {"body", "commit"} /\ UNCHANGED <<res, device, owner, out>>
    BY <1>4, Zenon DEF IoctlEchoIn
  <2>2. CASE Return(u, EFAULT)
    <3>1. EFAULT \in Int
      BY DEF EFAULT
    <3>2. DevType'
      BY <2>1, <2>2, <3>1, ReturnType, Zenon DEF StreamInv, DevType, device
    <3> QED BY <2>1, <2>2, <3>1, <3>2, ReturnType, OutsideStreamInv, Zenon DEF Return
  <2>3. CASE Goto(u, "lock") /\ UNCHANGED local
    <3>1. DevType'
      BY GotoRet, <2>1, <2>3, Zenon DEF StreamInv, DevType, device, local
    <3>2. call[u] \in Call /\ call' = [call EXCEPT ![u] = call[u]] /\ UNCHANGED <<n, ubuf>>
      BY <1>4, <2>3, Zenon DEF StreamInv, DevType, UserInv, InCall, IsOpen, IoctlEchoIn, local
    <3> QED BY <2>1, <2>3, <3>1, <3>2, OutsideStreamInv, Zenon DEF Goto
  <2> QED BY <1>4, <2>2, <2>3, Zenon DEF IoctlEchoIn
<1> QED BY <1>2, <1>3, <1>4, Zenon

\* So does taking the lock.
LEMMA LockStep == ASSUME ResInv, StreamInv, NEW u \in Users, MutexLock(u) PROVE StreamInv'
<1> USE DEF module
<1>1. DevType'
  BY GotoRet, Zenon DEF StreamInv, DevType, MutexLock, device, local
<1>2. ("buf" \in res => DataIn(0, buf_len))'
  BY Zenon DEF StreamInv, DataIn, MutexLock, device
<1>3. ASSUME NEW v \in Users PROVE UserInv(v)'
  <2>1. CASE v = u
    BY <2>1, Zenon DEF StreamInv, UserInv, InCall, IsOpen, MutexLock, Goto, ResInv, local
  <2>2. CASE v # u
    <3>1. pc'[v] = pc[v] /\ call'[v] = call[v] /\ owner' = u
      BY <2>2, Zenon DEF MutexLock, Goto, ResInv, local
    <3>2. pc[v] \notin {"body", "commit"}
      BY ChardevAssumption, Zenon DEF MutexLock, Unlocked, StreamInv, UserInv
    <3> QED BY <2>2, <3>1, <3>2, Zenon DEF StreamInv, UserInv, InCall, IsOpen
  <2> QED BY <2>1, <2>2, Zenon
<1> QED BY <1>1, <1>2, <1>3, Zenon DEF StreamInv

\* So do the calls that return, or go on without the lock, from the critical section.
LEMMA ReturnSteps ==
    ASSUME ResInv, StreamInv, NEW u \in Users,
           ReadEmpty(u) \/ ReadFault(u) \/ WriteFull(u) \/ IoctlEcho(u) \/ IoctlReset(u) \/ IoctlSize(u)
    PROVE  StreamInv'
<1> USE DEF module
<1>7. CASE ReadEmpty(u) \/ ReadFault(u) \/ WriteFull(u) \/ IoctlEcho(u)
  <2>1. PICK r \in Int : Return(u, r)
    BY <1>7 DEF ReadEmpty, ReadFault, WriteFull, IoctlEcho, EFAULT, ENOSPC
  <2>2. pc[u] \in {"body", "commit"} /\ owner' = NoUser /\ UNCHANGED <<res, buf, buf_len, out>>
    BY <1>7, Zenon DEF ReadEmpty, ReadFault, WriteFull, IoctlEcho, In, device
  <2>3. owner' = NoUser /\ buf' = buf /\ buf_len' = buf_len /\ out' = out
    BY <2>2, Zenon
  <2>4. DevType' /\ DataIn(0, buf_len)'
    BY InSection, ReturnType, <2>1, <2>2, <2>3, Zenon DEF StreamInv, DevType, DataIn
  <2> QED BY <2>1, <2>2, <2>4, UnlockStreamInv, ZenonT(40) DEF Return
<1>8. CASE IoctlReset(u)
  <2>1. Return(u, 0) /\ pc[u] = "body" /\ owner' = NoUser /\ UNCHANGED <<res, out>>
    BY <1>8, SMTT(30) DEF IoctlReset, In
  <2>2. DevType'
    BY <1>8, <2>1, ReturnType, ChardevAssumption, SMTT(30) DEF StreamInv, DevType, IoctlReset
  <2>3. DataIn(0, buf_len)'
    BY <1>8 DEF IoctlReset, DataIn
  <2> QED BY <2>1, <2>2, <2>3, UnlockStreamInv, ZenonT(40) DEF Return
<1>9. CASE IoctlSize(u)
  <2>1. Goto(u, "copyout") /\ pc[u] = "body" /\ owner' = NoUser /\ UNCHANGED <<res, device, call, ubuf, out>>
    BY <1>9 DEF IoctlSize, In
  <2>2. n' \in [Users -> 0 .. BUF_SIZE]
    BY <1>9, Zenon DEF IoctlSize, StreamInv, DevType
  <2>3. DevType'
    BY GotoRet, <2>1, <2>2, ZenonT(40) DEF StreamInv, DevType, device
  <2>4. DataIn(0, buf_len)'
    BY InSection, <2>1 DEF DataIn, device
  <2>5. call[u] \in Call /\ call' = [call EXCEPT ![u] = call[u]]
    BY InSection, <2>1, Zenon DEF StreamInv, DevType
  <2> QED BY <2>1, <2>3, <2>4, <2>5, UnlockStreamInv, ZenonT(40) DEF Goto
<1> QED BY <1>7, <1>8, <1>9, Zenon

\* So does what a read commits.
LEMMA ReadCommitStep == ASSUME ResInv, StreamInv, NEW u \in Users, ReadCommit(u) PROVE StreamInv'
<1> USE DEF module
<1>1. /\ Return(u, n[u]) /\ pc[u] = "commit" /\ owner' = NoUser
      /\ buf' = [k \in Cell |-> IF k + n[u] < buf_len THEN buf[k + n[u]] ELSE buf[k]]
      /\ buf_len' = buf_len - n[u] /\ out' = out \o ubuf[u]
  BY DEF ReadCommit
<1>sec. owner = u /\ DataIn(0, buf_len) /\ call[u] \in Call /\ n[u] \in Int /\ buf_len \in Int /\ BUF_SIZE \in Int
  BY <1>1, InSection, Zenon
<1>2. n[u] \in 0 .. buf_len /\ buf_len \in 0 .. BUF_SIZE
  BY SMTT(30) DEF ReadCommit, StreamInv, DevType, UserInv
<1>3. \A k \in Cell : k + n[u] < buf_len => k + n[u] \in Cell
  BY <1>2, <1>sec DEF Cell
<1>4. buf' \in [Cell -> Byte \cup {Junk}]
  BY <1>1, <1>3, Zenon DEF StreamInv, DevType
<1>5. out' \in Seq(Byte)
  BY <1>1 DEF StreamInv, DevType
<1>6. DevType'
  <2>1. buf_len' \in 0 .. BUF_SIZE
    BY <1>1, <1>2, <1>sec, SMTT(30)
  <2> QED BY <1>1, <1>4, <1>5, <1>sec, <2>1, ReturnType, ZenonT(40) DEF StreamInv, DevType
<1>7. DataIn(0, buf_len)'
  <2> SUFFICES ASSUME NEW k \in 0 .. buf_len' - 1 PROVE buf'[k] \in Byte
    BY Zenon DEF DataIn
  <2>0. k \in 0 .. buf_len - n[u] - 1
    BY <1>1, Zenon
  <2>1. k \in Cell /\ k + n[u] \in 0 .. buf_len - 1
    BY <1>sec, <1>2, <2>0 DEF Cell
  <2>2. k + n[u] < buf_len
    BY <1>sec, <2>1
  <2>3. buf'[k] = buf[k + n[u]]
    BY <1>1, <2>1, <2>2, Zenon
  <2> QED BY <1>sec, <1>1, <2>1, <2>3, SMTT(30) DEF DataIn
<1> QED BY <1>sec, <1>1, <1>6, <1>7, UnlockStreamInv, ZenonT(40) DEF Return

\* So does what a write commits.
LEMMA WriteCommitStep == ASSUME ResInv, StreamInv, NEW u \in Users, WriteCommit(u) PROVE StreamInv'
<1> USE DEF module
<1>1. /\ Return(u, n[u]) /\ pc[u] = "commit" /\ owner' = NoUser
      /\ buf_len' = buf_len + n[u] /\ UNCHANGED <<buf, out>>
  BY Zenon DEF WriteCommit
<1>sec. owner = u /\ DataIn(0, buf_len) /\ call[u] \in Call /\ n[u] \in Int /\ buf_len \in Int /\ BUF_SIZE \in Int
  BY <1>1, InSection, Zenon
<1>2. n[u] \in Nat /\ buf_len \in Nat /\ buf_len + n[u] <= BUF_SIZE /\ DataIn(buf_len, buf_len + n[u])
  BY SMTT(30) DEF WriteCommit, StreamInv, DevType, UserInv
<1>3. DevType'
  BY <1>1, <1>2, <1>sec, ReturnType, SMTT(30) DEF StreamInv, DevType
<1>4. DataIn(0, buf_len)'
  BY <1>sec, <1>1, <1>2 DEF DataIn
<1> QED BY <1>sec, <1>1, <1>3, <1>4, UnlockStreamInv, Zenon DEF Return

\* A write that finds room takes no more than it has, and no more than fits.
LEMMA WriteRoom ==
    ASSUME ResInv, StreamInv, NEW u \in Users, pc[u] = "body", call[u].op = "write", buf_len # BUF_SIZE
    PROVE  /\ call[u].data \in Seq(Byte)
           /\ FewerOf(Len(call[u].data), Space) \in 0 .. BUF_SIZE - buf_len
           /\ FewerOf(Len(call[u].data), Space) <= Len(call[u].data)
<1>sec. owner = u /\ DataIn(0, buf_len) /\ call[u] \in Call /\ n[u] \in Int /\ buf_len \in Int /\ BUF_SIZE \in Int
  BY InSection, Zenon
<1> QED BY <1>sec, CallFields, SMTT(30) DEF StreamInv, DevType, FewerOf, Space

\* copy_from_user leaves what can be read alone, and puts data behind it.
LEMMA CopiedInBytes ==
    ASSUME StreamInv, buf_len \in Int, BUF_SIZE \in Int, NEW data \in Seq(Byte),
           NEW m \in 0 .. BUF_SIZE - buf_len, m <= Len(data), NEW k \in 0 .. m
    PROVE  /\ CopiedIn(data, m, k) \in [Cell -> Byte \cup {Junk}]
           /\ \A c \in 0 .. buf_len - 1 : CopiedIn(data, m, k)[c] = buf[c]
           /\ \A c \in buf_len .. buf_len + k - 1 : CopiedIn(data, m, k)[c] \in Byte
<1>1. \A c \in buf_len .. buf_len + k - 1 : c - buf_len + 1 \in 1 .. Len(data)
  OBVIOUS
<1>2. \A c \in buf_len .. buf_len + k - 1 : data[c - buf_len + 1] \in Byte
  BY <1>1
<1>3. \A c \in Cell : c < buf_len + k /\ c \in buf_len .. buf_len + m - 1 => c \in buf_len .. buf_len + k - 1
  BY DEF Cell
<1>4. buf_len .. buf_len + k - 1 \subseteq Cell /\ 0 .. buf_len - 1 \subseteq Cell
  BY DEF StreamInv, DevType, Cell
<1>5. CopiedIn(data, m, k) \in [Cell -> Byte \cup {Junk}]
  BY <1>2, <1>3, Zenon DEF CopiedIn, WriteAt, StreamInv, DevType
<1>6. \A c \in 0 .. buf_len - 1 : c \notin buf_len .. buf_len + m - 1
  OBVIOUS
<1>7. \A c \in 0 .. buf_len - 1 : CopiedIn(data, m, k)[c] = buf[c]
  BY <1>4, <1>6, Zenon DEF CopiedIn, WriteAt
<1>8. \A c \in buf_len .. buf_len + k - 1 : c < buf_len + k /\ c \in buf_len .. buf_len + m - 1
  OBVIOUS
<1>9. \A c \in buf_len .. buf_len + k - 1 : CopiedIn(data, m, k)[c] \in Byte
  BY <1>2, <1>4, <1>8, Zenon DEF CopiedIn, WriteAt
<1> QED BY <1>5, <1>7, <1>9, Zenon

\* A step inside the critical section: what can be read stays, so the others are
\* not disturbed.
LEMMA BodyStreamInv ==
    ASSUME ResInv, StreamInv, NEW u \in Users, pc[u] = "body", Goto(u, "commit"),
           UNCHANGED <<owner, call, buf_len>>, DevType', UserInv(u)', \A c \in 0 .. buf_len - 1 : buf'[c] = buf[c]
    PROVE  StreamInv'
<1>sec. owner = u /\ DataIn(0, buf_len) /\ call[u] \in Call /\ n[u] \in Int /\ buf_len \in Int /\ BUF_SIZE \in Int
  BY InSection, Zenon
<1>1. DataIn(0, buf_len)'
  BY <1>sec, Zenon DEF DataIn
<1>2. ASSUME NEW v \in Users, v # u PROVE UserInv(v)'
  <2>1. pc[v] \notin {"body", "commit"} /\ pc'[v] = pc[v]
    BY <1>2, Zenon DEF StreamInv, UserInv, Goto, ResInv
  <2> QED BY <2>1, Zenon DEF StreamInv, UserInv, InCall, IsOpen
<1> QED BY <1>1, <1>2, Zenon DEF StreamInv

\* The copy of a write that faults keeps the stream invariant, whatever it has
\* copied.
LEMMA WriteFaultStep == ASSUME ResInv, StreamInv, NEW u \in Users, WriteFault(u) PROVE StreamInv'
<1> USE DEF module
<1>1. /\ Return(u, EFAULT) /\ EFAULT \in Int /\ pc[u] = "body" /\ call[u].op = "write" /\ owner' = NoUser
      /\ buf_len # BUF_SIZE /\ UNCHANGED <<res, buf_len, out>>
  BY DEF WriteFault, In, EFAULT
<1>sec. owner = u /\ DataIn(0, buf_len) /\ call[u] \in Call /\ n[u] \in Int /\ buf_len \in Int /\ BUF_SIZE \in Int
  BY <1>1, InSection, Zenon
<1> DEFINE m == FewerOf(Len(call[u].data), Space)
<1>2. PICK k \in 0 .. m - 1 : buf' = CopiedIn(call[u].data, m, k)
  BY Zenon DEF WriteFault
<1>3. m \in 0 .. BUF_SIZE - buf_len /\ m <= Len(call[u].data) /\ call[u].data \in Seq(Byte)
  BY WriteRoom, <1>1, Zenon
<1> HIDE DEF m
<1>4. k \in 0 .. m
  BY <1>sec, <1>1, <1>2, <1>3
<1>5. buf' \in [Cell -> Byte \cup {Junk}] /\ \A c \in 0 .. buf_len - 1 : buf'[c] = buf[c]
  BY CopiedInBytes, <1>sec, <1>1, <1>2, <1>3, <1>4, Zenon
<1>6. DevType'
  BY <1>1, <1>5, ReturnType, Zenon DEF StreamInv, DevType
<1>7. DataIn(0, buf_len)'
  BY <1>sec, <1>1, <1>5, Zenon DEF DataIn
<1> QED BY <1>1, <1>6, <1>7, UnlockStreamInv, Zenon DEF Return

\* So does the copy of a read.
LEMMA ReadCopyStep == ASSUME ResInv, StreamInv, NEW u \in Users, ReadCopy(u) PROVE StreamInv'
<1> USE DEF module
<1>1. /\ pc[u] = "body" /\ call[u].op = "read" /\ Goto(u, "commit")
      /\ n' = [n EXCEPT ![u] = FewerOf(call[u].count, buf_len)]
      /\ ubuf' = [ubuf EXCEPT ![u] = Bytes(n'[u])]
      /\ UNCHANGED <<res, device, owner, call, out>>
  BY Zenon DEF ReadCopy, In
<1>sec. owner = u /\ DataIn(0, buf_len) /\ call[u] \in Call /\ n[u] \in Int /\ buf_len \in Int /\ BUF_SIZE \in Int
  BY <1>1, InSection, Zenon
<1>2. FewerOf(call[u].count, buf_len) \in 0 .. buf_len /\ buf_len \in 0 .. BUF_SIZE
  BY <1>1, <1>sec, CallFields, SMTT(30) DEF StreamInv, DevType, FewerOf
<1>3. n'[u] = FewerOf(call[u].count, buf_len) /\ n'[u] \in 0 .. BUF_SIZE
  BY <1>sec, <1>1, <1>2 DEF StreamInv, DevType
<1>4. n' \in [Users -> 0 .. BUF_SIZE]
  BY <1>1, <1>3, ZenonT(40) DEF StreamInv, DevType
<1>5. DataIn(0, n'[u])
  BY <1>sec, <1>1, <1>2, <1>3 DEF DataIn
<1>6. Bytes(n'[u]) \in Seq(Byte)
  BY <1>3, <1>5, BytesType, Zenon
<1>7. ubuf' \in [Users -> Seq(Byte)] /\ ubuf'[u] = Bytes(n'[u])
  BY <1>1, <1>6, Zenon DEF StreamInv, DevType
<1>8. DevType'
  BY GotoRet, <1>1, <1>4, <1>7, ZenonT(40) DEF StreamInv, DevType, device
<1>9. ubuf'[u] = Bytes(n[u])'
  BY <1>1, <1>7, SMTT(30) DEF Bytes, device
<1>10. UserInv(u)'
  BY <1>sec, <1>1, <1>2, <1>3, <1>9 DEF UserInv, InCall, IsOpen, Goto, ResInv, device
<1> QED BY <1>1, <1>8, <1>10, BodyStreamInv, Zenon DEF device

\* So does the copy of a write.
LEMMA WriteCopyStep == ASSUME ResInv, StreamInv, NEW u \in Users, WriteCopy(u) PROVE StreamInv'
<1> USE DEF module
<1> DEFINE m == FewerOf(Len(call[u].data), Space)
<1>1. /\ pc[u] = "body" /\ call[u].op = "write" /\ Goto(u, "commit") /\ buf_len # BUF_SIZE
      /\ n' = [n EXCEPT ![u] = m] /\ buf' = CopiedIn(call[u].data, n'[u], n'[u])
      /\ UNCHANGED <<res, buf_len, owner, call, ubuf, out>>
  BY Zenon DEF WriteCopy, In
<1>sec. owner = u /\ DataIn(0, buf_len) /\ call[u] \in Call /\ n[u] \in Int /\ buf_len \in Int /\ BUF_SIZE \in Int
  BY <1>1, InSection, Zenon
<1>2. m \in 0 .. BUF_SIZE - buf_len /\ m <= Len(call[u].data) /\ call[u].data \in Seq(Byte)
  BY WriteRoom, <1>1, Zenon
<1> HIDE DEF m
<1>3. n'[u] = m /\ m \in 0 .. BUF_SIZE /\ m \in 0 .. m
  BY <1>sec, <1>1, <1>2 DEF StreamInv, DevType
<1>4. n' \in [Users -> 0 .. BUF_SIZE]
  BY <1>1, <1>3, Zenon DEF StreamInv, DevType
<1>5. /\ buf' \in [Cell -> Byte \cup {Junk}] /\ \A c \in 0 .. buf_len - 1 : buf'[c] = buf[c]
      /\ \A c \in buf_len .. buf_len + m - 1 : buf'[c] \in Byte
  <2>1. buf' = CopiedIn(call[u].data, m, m) /\ pc[u] = "body" /\ m \in 0 .. m
    BY <1>1, <1>3
  <2> QED BY CopiedInBytes, <1>sec, <1>2, <2>1, Zenon
<1>6. DevType'
  BY GotoRet, <1>1, <1>4, <1>5, Zenon DEF StreamInv, DevType
<1>7. UserInv(u)'
  <2>1. buf_len' = buf_len /\ n'[u] = m /\ buf_len \in Int /\ m \in Int
    BY <1>sec, <1>1, <1>3
  <2>2. DataIn(buf_len, buf_len + n[u])'
    BY <1>5, <2>1 DEF DataIn
  <2>3. pc'[u] = "commit" /\ owner' = u /\ call'[u] = call[u] /\ call[u] \in Call
    BY <1>sec, <1>1, Zenon DEF Goto, ResInv, StreamInv, UserInv, InCall, IsOpen
  <2>4. buf_len' + n'[u] <= BUF_SIZE
    BY <1>sec, <1>2, <2>1, ChardevAssumption, SMTT(30)
  <2> QED BY <1>1, <2>2, <2>3, <2>4, ZenonT(40) DEF UserInv
<1> QED BY <1>1, <1>5, <1>6, <1>7, BodyStreamInv, Zenon

\* Every step of a file operation keeps the stream invariant.
LEMMA UserStreamInv ==
    ASSUME ResInv, StreamInv, NEW u \in Users,
           Open(u) \/ Close(u) \/ Llseek(u) \/ IoctlUnknown(u) \/ MutexLock(u) \/ Handler(u)
    PROVE  StreamInv'
BY OutsideSteps, LockStep, ReturnSteps, ReadCommitStep, WriteCommitStep, WriteFaultStep, ReadCopyStep,
   WriteCopyStep, SMTT(30) DEF Handler, IoctlSizeOut

\* Every step of chardev.c keeps the stream invariant.
LEMMA StepStreamInv == ResInv /\ StreamInv /\ [Next]_vars => StreamInv'
<1> SUFFICES ASSUME ResInv, StreamInv, [Next]_vars PROVE StreamInv'
  BY Zenon
<1>1. ASSUME NEW u \in Users, NEW c \in Call, Enter(u, c) PROVE StreamInv'
  <2> DEFINE w == IF c.op = "secho" THEN "copyin" ELSE "lock"
  <2>1. /\ pc[u] \notin {"body", "commit"} /\ Goto(u, w) /\ call' = [call EXCEPT ![u] = c]
        /\ w \in {"closed", "open", "lock", "copyin"}
        /\ UNCHANGED <<res, device, owner, out, n, ubuf>>
    BY <1>1, Zenon DEF Enter, module
  <2> HIDE DEF w
  <2>2. DevType'
    BY <2>1, SMTT(30) DEF StreamInv, DevType, Goto, device
  <2> QED BY <2>1, <2>2, OutsideStreamInv, Zenon DEF Goto
<1>2. CASE UNCHANGED vars
  <2>1. UNCHANGED <<res, buf, buf_len, owner, pc, call, n, ubuf, ret, out>>
    BY <1>2, Zenon DEF vars, module, device, local
  <2> QED BY <2>1 DEF StreamInv, DevType, UserInv, DataIn, Bytes, InCall, IsOpen
<1> QED BY <1>1, <1>2, LifecycleStreamInv, UserStreamInv, Zenon DEF Next, Finished


-----------------------------------------------------------------------------
(* Loading and unloading chardev.c *)

\* The length and the elements of a part of a sequence.
LEMMA SubSeqFacts ==
    ASSUME NEW S, NEW s \in Seq(S), NEW a \in 1 .. Len(s) + 1, NEW b \in 0 .. Len(s)
    PROVE  /\ SubSeq(s, a, b) \in Seq(S)
           /\ Len(SubSeq(s, a, b)) = IF a <= b THEN b - a + 1 ELSE 0
           /\ \A j \in 1 .. b - a + 1 : SubSeq(s, a, b)[j] = s[a + j - 1]
OBVIOUS

\* The length and the elements of two sequences one behind the other.
LEMMA ConcatFacts ==
    ASSUME NEW S, NEW s \in Seq(S), NEW t \in Seq(S)
    PROVE  /\ s \o t \in Seq(S) /\ Len(s \o t) = Len(s) + Len(t)
           /\ \A j \in 1 .. Len(s) + Len(t) : (s \o t)[j] = IF j <= Len(s) THEN s[j] ELSE t[j - Len(s)]
OBVIOUS

\* Nothing behind a sequence leaves it as it is.
LEMMA ConcatNothing == ASSUME NEW S, NEW s \in Seq(S) PROVE s \o <<>> = s
OBVIOUS

\* Two sequences of one length with the same elements are the same.
LEMMA SameElements ==
    ASSUME NEW S, NEW s \in Seq(S), NEW t \in Seq(S), Len(s) = Len(t),
           \A j \in 1 .. Len(s) : s[j] = t[j]
    PROVE  s = t
OBVIOUS

\* A cleanup list is empty when its length is 0.
LEMMA EmptyList == \A s \in Seq(Resources) : s = <<>> <=> Len(s) = 0
OBVIOUS

\* Nothing is held and nobody has a file open before the first load.
LEMMA InitResInv == Init => ResInv
BY Zenon DEF Init, ResInv, IsOpen

\* The calls of users neither load nor unload, and need an open file.
LEMMA UserStep ==
    ASSUME ResInv, NEW u \in Users, IsOpen(u), UNCHANGED module,
           pc' \in {[pc EXCEPT ![u] = w] :
                       w \in {"closed", "open", "lock", "body", "commit", "copyout", "copyin"}}
    PROVE  ResInv'
BY ZenonT(40) DEF ResInv, IsOpen, module

\* Whatever is held is a first part of what chardev_init acquires.
LEMMA SomeHeld == ASSUME ResInv PROVE \E k \in 0 .. 5 : res = Held(k)
<1>1. CASE mod = "unloaded"
  <2>1. res = Held(0)
    BY <1>1, HeldGrows, Zenon DEF ResInv
  <2> QED BY <2>1
<1>2. CASE mod = "init"
  <2>1. PICK k \in 0 .. 4 : res = Held(k)
    BY <1>2, Zenon DEF ResInv
  <2> QED BY <2>1
<1>3. CASE mod = "live" BY <1>3 DEF ResInv
<1>4. CASE mod \in {"failing", "exiting"}
  <2>1. PICK k \in 1 .. 5 : res = Held(k)
    BY <1>4, Zenon DEF ResInv
  <2> QED BY <2>1
<1> QED BY <1>1, <1>2, <1>3, <1>4, Zenon DEF ResInv

\* Every step of a load, an unload and a call keeps the invariant.
LEMMA StepResInv == ResInv /\ [Next]_vars => ResInv'
<1> SUFFICES ASSUME ResInv, [Next]_vars PROVE ResInv'
  BY Zenon
<1> USE DEF Goto, Return, In
<1>1. CASE Insmod
  <2>1. res = Held(0)
    BY <1>1, HeldGrows, Zenon DEF Insmod, ResInv
  <2>2. 0 \in 0 .. 4
    OBVIOUS
  <2> QED BY <1>1, <2>1, <2>2, Zenon DEF Insmod, ResInv, IsOpen
<1>2. CASE Acquire
  <2>1. PICK k \in 0 .. 4 : res = Held(k)
    BY <1>2, Zenon DEF Acquire, ResInv
  <2>2. NextResource = AcquireOrder[k + 1] /\ res' = Held(k + 1)
    BY <1>2, <2>1, HeldGrows, NextToHeld, Zenon DEF Acquire
  <2>3. NextResource = "device" <=> k = 4
    BY <2>2 DEF AcquireOrder
  <2>4. \A u \in Users : IsOpen(u)' => IsOpen(u)
    BY <1>2, Zenon DEF Acquire, IsOpen
  <2>5. "buf" \in res => "buf" \in res'
    BY <1>2, Zenon DEF Acquire
  <2>6. pc' = pc /\ mod' \in {"init", "live"} /\ (mod' = "live" <=> k = 4)
    BY <1>2, <2>3, Zenon DEF Acquire
  <2>7. /\ mod' = "init" => \E c \in 0 .. 4 : res' = Held(c)
        /\ mod' = "live" => res' = Held(5)
    BY <2>2, <2>6
  <2> QED BY <2>4, <2>5, <2>6, <2>7, Zenon DEF ResInv
<1>3. CASE AcquireFails
  <2>1. PICK k \in 0 .. 4 : res = Held(k)
    BY <1>3, Zenon DEF AcquireFails, ResInv
  <2>2. NextResource = AcquireOrder[k + 1]
    BY <2>1, NextToHeld, Zenon
  <2>3. LabelOf[NextResource] = 5 - k
    BY <2>2 DEF LabelOf, AcquireOrder
  <2>4. Labels \in Seq(Resources) /\ Len(Labels) = 4
    BY DEF Labels, Resources
  <2>5. \A j \in 1 .. 4 : Labels[j] = AcquireOrder[5 - j]
    BY DEF Labels, AcquireOrder
  <2>6. todo' = SubSeq(Labels, 5 - k, 4)
    BY <1>3, <2>3, Zenon DEF AcquireFails
  <2>7. todo' \in Seq(Resources) /\ Len(todo') = k /\ \A j \in 1 .. k : todo'[j] = AcquireOrder[k + 1 - j]
    <3>1. /\ todo' \in Seq(Resources) /\ Len(todo') = k
          /\ \A j \in 1 .. k : todo'[j] = Labels[5 - k + j - 1]
      <4>1. 5 - k \in 1 .. Len(Labels) + 1 /\ 4 \in 0 .. Len(Labels)
        BY <2>4
      <4>2. /\ SubSeq(Labels, 5 - k, 4) \in Seq(Resources)
            /\ Len(SubSeq(Labels, 5 - k, 4)) = IF 5 - k <= 4 THEN 4 - (5 - k) + 1 ELSE 0
            /\ \A j \in 1 .. 4 - (5 - k) + 1 : SubSeq(Labels, 5 - k, 4)[j] = Labels[5 - k + j - 1]
        BY <2>4, <4>1, SubSeqFacts, ZenonT(40)
      <4>3. 4 - (5 - k) + 1 = k /\ (IF 5 - k <= 4 THEN 4 - (5 - k) + 1 ELSE 0) = k
        OBVIOUS
      <4>4. SubSeq(Labels, 5 - k, 4) \in Seq(Resources) /\ Len(SubSeq(Labels, 5 - k, 4)) = k
        BY <4>2, <4>3, Zenon
      <4>5. \A j \in 1 .. k : SubSeq(Labels, 5 - k, 4)[j] = Labels[5 - k + j - 1]
        BY <4>2, <4>3, Zenon
      <4> QED BY <2>6, <4>4, <4>5, Zenon
    <3>2. \A j \in 1 .. k : 5 - k + j - 1 \in 1 .. 4 /\ 5 - (5 - k + j - 1) = k + 1 - j
      OBVIOUS
    <3> QED BY <2>5, <3>1, <3>2, ZenonT(40)
  <2>8. mod' = IF k = 0 THEN "unloaded" ELSE "failing"
    BY <1>3, <2>7, EmptyList, Zenon DEF AcquireFails
  <2>9. CASE k = 0
    BY <1>3, <2>1, <2>8, <2>9, HeldGrows, Zenon DEF AcquireFails, ResInv, IsOpen
  <2>10. CASE k # 0
    <3>1. k \in 1 .. 5 /\ mod' = "failing" /\ res' = Held(k)
      BY <1>3, <2>1, <2>8, <2>10, SMTT(30) DEF AcquireFails
    <3> QED BY <1>3, <2>7, <3>1, Zenon DEF AcquireFails, ResInv, IsOpen
  <2> QED BY <2>9, <2>10, Zenon
<1>4. CASE Rmmod
  <2>1. Teardown \in Seq(Resources) /\ Len(Teardown) = 5
    BY DEF Teardown, Resources
  <2>2. \A j \in 1 .. 5 : Teardown[j] = AcquireOrder[6 - j]
    BY DEF Teardown, AcquireOrder
  <2>3. 5 \in 1 .. 5 /\ \A j \in 1 .. 5 : 6 - j = 5 + 1 - j
    OBVIOUS
  <2>4. \A u \in Users : ~IsOpen(u)'
    BY <1>4, Zenon DEF Rmmod, Unused, IsOpen
  <2>5. res' = Held(5) /\ todo' = Teardown /\ mod' = "exiting" /\ pc' = pc
    BY <1>4, Zenon DEF Rmmod, ResInv
  <2>6. \A j \in 1 .. 5 : todo'[j] = AcquireOrder[5 + 1 - j]
    BY <2>2, <2>3, <2>5, Zenon
  <2>7. \E k \in 1 .. 5 : /\ res' = Held(k) /\ todo' \in Seq(Resources) /\ Len(todo') = k
                          /\ \A j \in 1 .. k : todo'[j] = AcquireOrder[k + 1 - j]
    BY <2>1, <2>3, <2>5, <2>6, Zenon
  <2> QED BY <2>4, <2>5, <2>7, Zenon DEF ResInv
<1>5. CASE Release
  <2>1. PICK k \in 1 .. 5 : /\ res = Held(k)
                            /\ todo \in Seq(Resources) /\ Len(todo) = k
                            /\ \A j \in 1 .. k : todo[j] = AcquireOrder[k + 1 - j]
    BY <1>5, Zenon DEF Release, ResInv
  <2>2. Head(todo) = AcquireOrder[k]
    BY <2>1
  <2>3. res' = Held(k - 1)
    <3>1. k - 1 \in 0 .. 4 /\ (k - 1) + 1 = k
      OBVIOUS
    <3>2. Held(k) = Held(k - 1) \cup {AcquireOrder[k]} /\ AcquireOrder[k] \notin Held(k - 1)
      BY <3>1, HeldGrows, ZenonT(40)
    <3> QED BY <1>5, <2>1, <2>2, <3>2, ZenonT(40) DEF Release
  <2>4. /\ todo' \in Seq(Resources) /\ Len(todo') = k - 1
        /\ \A j \in 1 .. k - 1 : todo'[j] = AcquireOrder[k - j]
    BY <1>5, <2>1 DEF Release
  <2>5. mod' = IF k = 1 THEN "unloaded" ELSE mod
    <3>1. todo' = <<>> <=> k = 1
      BY <2>4, EmptyList
    <3> QED BY <1>5, <3>1, Zenon DEF Release
  <2>6. k # 1 => k - 1 \in 1 .. 5 /\ \A j \in 1 .. k - 1 : todo'[j] = AcquireOrder[(k - 1) + 1 - j]
    BY <2>4
  <2>7. k = 1 => res' = {}
    BY <2>3, HeldGrows
  <2>8. pc' \in [Users -> {"closed", "open", "lock", "body", "commit", "copyout", "copyin", "lost"}]
    <3>1. pc' = pc \/ FilesLost
      BY <1>5, Zenon DEF Release
    <3>2. CASE FilesLost
      BY <3>2, Zenon DEF FilesLost
    <3> QED BY <3>1, <3>2, Zenon DEF ResInv
  <2>9. mod' \in {"failing", "exiting"} =>
          \E c \in 1 .. 5 : /\ res' = Held(c) /\ todo' \in Seq(Resources) /\ Len(todo') = c
                           /\ \A j \in 1 .. c : todo'[j] = AcquireOrder[c + 1 - j]
    BY <2>3, <2>4, <2>5, <2>6, Zenon
  <2>10. ASSUME NEW u \in Users, IsOpen(u)' PROVE mod' = "failing" /\ "buf" \in res'
    <3>1. Head(todo) # "buf" /\ pc' = pc
      <4>1. CASE mod = "exiting"
        <5>1. ~IsOpen(u) /\ pc' = pc
          BY <1>5, <4>1, Zenon DEF Release, ResInv
        <5> QED BY <2>10, <5>1, Zenon DEF IsOpen
      <4>2. CASE mod = "failing" /\ Head(todo) = "buf"
        BY <1>5, <2>10, <4>2, ZenonT(40) DEF Release, FilesLost, IsOpen
      <4> QED BY <1>5, <4>1, <4>2, Zenon DEF Release
    <3>2. IsOpen(u)
      BY <2>10, <3>1, Zenon DEF IsOpen
    <3>3. mod = "failing" /\ "buf" \in res
      BY <1>5, <3>2, Zenon DEF Release, ResInv
    <3>4. "buf" \in res'
      BY <1>5, <3>1, <3>3, Zenon DEF Release
    <3> QED BY <2>5, <2>7, <3>3, <3>4, Zenon
  <2>11. mod' \in {"unloaded", "failing", "exiting"} /\ (mod' = "unloaded" => res' = {})
    BY <1>5, <2>5, <2>7, Zenon DEF Release
  <2> QED BY <2>8, <2>9, <2>10, <2>11, Zenon DEF ResInv
<1>6. ASSUME NEW u \in Users, Open(u) PROVE ResInv'
  <2>1. \E k \in 0 .. 5 : res = Held(k)
    BY SomeHeld, Zenon
  <2>2. "cdev" \in res => "buf" \in res
    BY <2>1 DEF Held, AcquireOrder
  <2>3. mod # "unloaded"
    BY <1>6, Zenon DEF Open, ResInv
  <2> QED BY <1>6, <2>2, <2>3, Zenon DEF Open, ResInv, module
<1>7. ASSUME NEW u \in Users, Close(u) \/ Llseek(u) \/ IoctlUnknown(u) \/ MutexLock(u) PROVE ResInv'
  BY <1>7, UserStep, Zenon DEF Close, Llseek, IoctlUnknown, Rejected, MutexLock, IsOpen
<1>8. ASSUME NEW u \in Users, Handler(u) PROVE ResInv'
  <2>1. /\ IsOpen(u) /\ UNCHANGED module
        /\ pc' \in {[pc EXCEPT ![u] = w] : w \in {"open", "lock", "commit", "copyout"}}
    BY <1>8, Zenon DEF Handler, ReadEmpty, ReadCopy, ReadFault, ReadCommit, WriteFull, WriteCopy, WriteFault,
                WriteCommit, IoctlReset, IoctlSize, IoctlSizeOut, IoctlEchoIn, IoctlEcho, IsOpen
  <2> QED BY <2>1, UserStep, Zenon
<1>9. ASSUME NEW u \in Users, NEW c \in Call, Enter(u, c) PROVE ResInv'
  BY <1>9, UserStep, Zenon DEF Enter, IsOpen
<1>10. CASE UNCHANGED vars
  BY <1>10, Zenon DEF ResInv, IsOpen, vars, module
<1> QED
  BY <1>1, <1>2, <1>3, <1>4, <1>5, <1>6, <1>7, <1>8, <1>9, <1>10, ZenonT(40) DEF Next, Lifecycle, Finished

\* However a load of chardev.c fails, and whenever it is unloaded, what is left to
\* release is what is held.
LEMMA ResInvLeaks == ResInv => NothingLeaked
<1>1. ASSUME ResInv PROVE NothingLeaked
  <2>1. ASSUME mod \in {"failing", "exiting"} PROVE Range(todo) = res /\ IsInjective(todo)
    <3>1. PICK k \in 1 .. 5 : /\ res = Held(k)
                              /\ todo \in Seq(Resources) /\ Len(todo) = k
                              /\ \A j \in 1 .. k : todo[j] = AcquireOrder[k + 1 - j]
      BY <1>1, <2>1, Zenon DEF ResInv
    <3>2. \A j \in 1 .. k : k + 1 - j \in 1 .. k /\ k + 1 - (k + 1 - j) = j
      OBVIOUS
    <3>3. DOMAIN todo = 1 .. k
      BY <3>1, SMTT(30)
    <3>4. Range(todo) = Held(k)
      <4>1. Range(todo) = {todo[j] : j \in 1 .. k}
        BY <3>3, Zenon DEF Range
      <4>2. \A j \in 1 .. k : todo[j] \in Held(k)
        BY <3>1, <3>2, Zenon DEF Held
      <4>3. ASSUME NEW j \in 1 .. k PROVE \E m \in 1 .. k : AcquireOrder[j] = todo[m]
        <5>1. k + 1 - j \in 1 .. k /\ todo[k + 1 - j] = AcquireOrder[j]
          BY <3>1, <3>2, Zenon
        <5> QED BY <5>1, Zenon
      <4> QED BY <4>1, <4>2, <4>3, Zenon DEF Held
    <3>5. \A j, m \in 1 .. 5 : AcquireOrder[j] = AcquireOrder[m] => j = m
      BY DEF AcquireOrder
    <3>6. ASSUME NEW j \in 1 .. k, NEW m \in 1 .. k, todo[j] = todo[m] PROVE j = m
      <4>1. AcquireOrder[k + 1 - j] = AcquireOrder[k + 1 - m]
        BY <3>1, <3>6, Zenon
      <4>2. k + 1 - j = k + 1 - m
        BY <3>5, <4>1
      <4> QED BY <4>2
    <3>7. IsInjective(todo)
      BY <3>3, <3>6, Zenon DEF IsInjective
    <3> QED BY <3>1, <3>4, <3>7, Zenon
  <2> QED BY <1>1, <2>1, Zenon DEF ResInv, NothingLeaked
<1> QED BY <1>1, Zenon

\* While a file is open the buffer is held, and all five resources once the load
\* has succeeded.
LEMMA ResInvUses == ResInv => NoUseAfterFree
<1>1. ASSUME ResInv PROVE NoUseAfterFree
  <2>1. \E k \in 0 .. 5 : res = Held(k)
    BY <1>1, SomeHeld, Zenon
  <2>2. "cdev" \in res => "buf" \in res
    BY <2>1 DEF Held, AcquireOrder
  <2>3. "device" \in res => {"class", "cdev"} \subseteq res
    BY <2>1 DEF Held, AcquireOrder
  <2>4. (\E u \in Users : IsOpen(u)) => "buf" \in res /\ (mod \in {"init", "failing"} \/ res = Resources)
    BY <1>1, HeldGrows, Zenon DEF ResInv
  <2> QED BY <2>2, <2>3, <2>4, Zenon DEF NoUseAfterFree
<1> QED BY <1>1, Zenon

-----------------------------------------------------------------------------
(* The file operations of chardev.c as a byte stream *)

\* Bytes are discarded on purpose: by kfree, or by CHARDEV_RESET.
Dropped == "buf" \notin res' \/ \E u \in Users : In(u, "reset") /\ ~InCall(u)'

\* A call has ended with -EFAULT.
Faulted(u) == InCall(u) /\ ~InCall(u)' /\ ret'[u] = EFAULT

\* What can be read stays the same when buf_len and the cells below it do.
LEMMA SameBytes ==
    ASSUME "buf" \in res' <=> "buf" \in res, buf_len' = buf_len, buf_len \in Nat,
           \A c \in 0 .. buf_len - 1 : buf'[c] = buf[c]
    PROVE  Contents' = Contents
<1>1. \A j \in 1 .. buf_len : j - 1 \in 0 .. buf_len - 1
  OBVIOUS
<1> QED BY <1>1, Zenon DEF Contents, Bytes

\* A read takes the bytes it has copied from the front of the stream.
LEMMA CommitReads ==
    ASSUME ResInv, StreamInv, ResInv', StreamInv', NEW u \in Users, ReadCommit(u), n[u] # 0
    PROVE  Stream!Read
<1>1. pc[u] = "commit" /\ "buf" \in res /\ res' = res /\ call[u].op = "read"
  BY BufThere, Zenon DEF ReadCommit, module, IsOpen
<1>2. n[u] \in 1 .. buf_len /\ buf_len \in 0 .. BUF_SIZE /\ ubuf[u] = Bytes(n[u]) /\ BUF_SIZE \in Nat
  <2>1. n[u] <= buf_len /\ ubuf[u] = Bytes(n[u])
    BY <1>1 DEF StreamInv, UserInv
  <2>2. n[u] \in 0 .. BUF_SIZE /\ buf_len \in 0 .. BUF_SIZE /\ BUF_SIZE \in Nat
    BY ChardevAssumption, Zenon DEF StreamInv, DevType
  <2> QED BY <2>1, <2>2, SMTT(30)
<1>3. Contents = Bytes(buf_len) /\ Contents' = Bytes(buf_len)'
  BY <1>1, Zenon DEF Contents
<1>4. DataIn(0, buf_len) /\ DataIn(0, buf_len)' /\ buf_len' = buf_len - n[u] /\ buf_len' \in 0 .. BUF_SIZE
  BY <1>1, ZenonT(40) DEF StreamInv, DevType, ReadCommit
<1>5. /\ Contents \in Seq(Byte) /\ Len(Contents) = buf_len
      /\ \A j \in 1 .. buf_len : Contents[j] = buf[j - 1]
  BY <1>2, <1>3, <1>4, BytesType
<1>6. Contents' = [j \in 1 .. buf_len - n[u] |-> buf'[j - 1]]
  BY <1>3, <1>4, Zenon DEF Bytes
<1>7. \A j \in 1 .. buf_len - n[u] : buf'[j - 1] = Contents[j + n[u]]
  <2> SUFFICES ASSUME NEW j \in 1 .. buf_len - n[u] PROVE buf'[j - 1] = Contents[j + n[u]]
    BY SMTT(30)
  <2>1. j - 1 \in Cell /\ (j - 1) + n[u] < buf_len /\ j + n[u] \in 1 .. buf_len /\ (j + n[u]) - 1 = (j - 1) + n[u]
    BY <1>2, SMTT(30) DEF Cell
  <2>2. buf'[j - 1] = buf[(j - 1) + n[u]]
    BY <2>1 DEF ReadCommit
  <2> QED BY <1>5, <2>1, <2>2, SMTT(30)
<1>8. Contents' = SubSeq(Contents, n[u] + 1, Len(Contents))
  <2> DEFINE t == SubSeq(Contents, n[u] + 1, buf_len)
  <2>1. n[u] + 1 \in 1 .. Len(Contents) + 1 /\ buf_len \in 0 .. Len(Contents)
    BY <1>2, <1>5, SMTT(30)
  <2>2. Contents \in Seq(Byte)
    BY <1>5, Zenon
  <2>3. /\ t \in Seq(Byte) /\ Len(t) = IF n[u] + 1 <= buf_len THEN buf_len - (n[u] + 1) + 1 ELSE 0
        /\ \A j \in 1 .. buf_len - (n[u] + 1) + 1 : t[j] = Contents[n[u] + 1 + j - 1]
    BY <2>1, <2>2, SubSeqFacts, ZenonT(40)
  <2> HIDE DEF t
  <2>4. Len(t) = buf_len - n[u] /\ \A j \in 1 .. buf_len - n[u] : t[j] = Contents[j + n[u]]
    BY <1>2, <2>3, SMTT(30)
  <2>5. Contents' \in Seq(Byte) /\ Len(Contents') = buf_len - n[u]
    <3>1. buf_len' \in Nat /\ \A j \in 1 .. buf_len' : buf'[j - 1] \in Byte
      BY <1>4, <1>2 DEF DataIn
    <3>2. Contents' \in [1 .. buf_len' -> Byte]
      BY <1>4, <1>6, <3>1, Zenon
    <3> QED BY <1>4, <3>1, <3>2
  <2>6. \A j \in 1 .. buf_len - n[u] : Contents'[j] = t[j]
    BY <1>6, <1>7, <2>4, Zenon
  <2>7. Contents' = t
    BY <2>3, <2>4, <2>5, <2>6, SameElements, Zenon
  <2> QED BY <1>5, <2>7, ZenonT(40) DEF t
<1>9. ubuf[u] = SubSeq(Contents, 1, n[u])
  <2>1. SubSeq(Contents, 1, n[u]) = [j \in 1 .. n[u] |-> Contents[j]]
    BY <1>2, <1>5, SMTT(30)
  <2>2. \A j \in 1 .. n[u] : Contents[j] = buf[j - 1]
    BY <1>2, <1>5
  <2> QED BY <1>2, <2>1, <2>2, Zenon DEF Bytes
<1>10. out' = out \o SubSeq(Contents, 1, n[u])
  BY <1>9, Zenon DEF ReadCommit
<1>11. n[u] \in 1 .. Len(Contents)
  BY <1>2, <1>5, Zenon
<1> QED BY <1>8, <1>10, <1>11, Zenon DEF Stream!Read

\* A write appends the bytes it has copied.
LEMMA CommitWrites ==
    ASSUME ResInv, StreamInv, ResInv', StreamInv', NEW u \in Users, WriteCommit(u), n[u] # 0
    PROVE  Stream!Write
<1>1. pc[u] = "commit" /\ "buf" \in res /\ res' = res /\ buf' = buf /\ out' = out /\ call[u].op = "write"
  BY BufThere, Zenon DEF WriteCommit, module, IsOpen
<1>2. /\ n[u] \in 1 .. BUF_SIZE - buf_len /\ buf_len \in 0 .. BUF_SIZE /\ BUF_SIZE \in Nat
      /\ DataIn(buf_len, buf_len + n[u])
  <2>1. buf_len + n[u] <= BUF_SIZE /\ DataIn(buf_len, buf_len + n[u])
    BY <1>1, Zenon DEF StreamInv, UserInv
  <2>2. n[u] \in 0 .. BUF_SIZE /\ buf_len \in 0 .. BUF_SIZE /\ BUF_SIZE \in Nat
    BY ChardevAssumption, Zenon DEF StreamInv, DevType
  <2> QED BY <2>1, <2>2
<1>3. Contents = Bytes(buf_len) /\ Contents' = Bytes(buf_len)'
  BY <1>1, Zenon DEF Contents
<1>4. DataIn(0, buf_len) /\ buf_len' = buf_len + n[u]
  BY <1>1, Zenon DEF StreamInv, WriteCommit
<1>5. /\ Contents \in Seq(Byte) /\ Len(Contents) = buf_len
      /\ \A j \in 1 .. buf_len : Contents[j] = buf[j - 1]
  BY <1>2, <1>3, <1>4, BytesType, Zenon
<1> DEFINE s == [j \in 1 .. n[u] |-> buf[buf_len + j - 1]]
<1>6. s \in [1 .. n[u] -> Byte]
  BY <1>2 DEF DataIn
<1>7. \A j \in 1 .. n[u] : s[j] = buf[buf_len + j - 1]
  BY <1>2, Zenon
<1> HIDE DEF s
<1>8. s \in Seq(Byte) /\ Len(s) = n[u]
  BY <1>2, <1>6
<1>9. /\ Contents \o s \in Seq(Byte) /\ Len(Contents \o s) = buf_len + n[u]
      /\ \A j \in 1 .. buf_len + n[u] :
            (Contents \o s)[j] = IF j <= buf_len THEN Contents[j] ELSE s[j - buf_len]
  <2>1. /\ Contents \o s \in Seq(Byte) /\ Len(Contents \o s) = Len(Contents) + Len(s)
        /\ \A j \in 1 .. Len(Contents) + Len(s) :
              (Contents \o s)[j] = IF j <= Len(Contents) THEN Contents[j] ELSE s[j - Len(Contents)]
    BY ConcatFacts, <1>5, <1>8, Zenon
  <2> QED BY <1>5, <1>8, <2>1, Zenon
<1>10. ASSUME NEW j \in 1 .. buf_len + n[u]
       PROVE  buf[j - 1] = IF j <= buf_len THEN Contents[j] ELSE s[j - buf_len]
  <2>1. CASE j <= buf_len
    BY <1>2, <1>5, <2>1
  <2>2. CASE ~ (j <= buf_len)
    <3>1. j - buf_len \in 1 .. n[u] /\ buf_len + (j - buf_len) - 1 = j - 1
      BY <1>2, <2>2
    <3> QED BY <1>7, <2>2, <3>1, Zenon
  <2> QED BY <2>1, <2>2, Zenon
<1>11. Contents' = Contents \o s
  <2>1. Contents' = [j \in 1 .. buf_len + n[u] |-> buf[j - 1]]
    BY <1>1, <1>3, <1>4, Zenon DEF Bytes
  <2>2. buf_len + n[u] \in Nat /\ \A j \in 1 .. buf_len + n[u] : buf[j - 1] \in Byte
    BY <1>2, <1>4 DEF DataIn
  <2>3. Contents' \in [1 .. buf_len + n[u] -> Byte]
    BY <2>1, <2>2, Zenon
  <2>4. Contents' \in Seq(Byte) /\ Len(Contents') = buf_len + n[u]
    BY <2>2, <2>3
  <2>5. \A j \in 1 .. buf_len + n[u] : Contents'[j] = (Contents \o s)[j]
    BY <1>9, <1>10, <2>1, Zenon
  <2> QED BY <1>9, <2>4, <2>5, SameElements, Zenon
<1>12. n[u] \in 1 .. BUF_SIZE - Len(Contents)
  BY <1>2, <1>5, Zenon
<1> QED BY <1>1, <1>6, <1>11, <1>12, Zenon DEF Stream!Write

\* What can be read is a sequence of bytes.
LEMMA ContentsType == ASSUME StreamInv PROVE Contents \in Seq(Byte)
<1>1. CASE "buf" \in res
  BY <1>1, BytesType, Zenon DEF StreamInv, DevType, Contents
<1>2. CASE "buf" \notin res
  <2>1. <<>> \in Seq(Byte)
    OBVIOUS
  <2> QED BY <1>2, <2>1, Zenon DEF Contents
<1> QED BY <1>1, <1>2, Zenon

\* A read and a write of the stream discard nothing.
LEMMA NoneDiscarded ==
    ASSUME Contents \in Seq(Byte), out \in Seq(Byte), Stream!Read \/ Stream!Write PROVE ~Discards
<1>1. CASE Stream!Read
  <2>1. PICK k \in 1 .. Len(Contents) : out' = out \o SubSeq(Contents, 1, k)
    BY <1>1, Zenon DEF Stream!Read
  <2>2. SubSeq(Contents, 1, k) \in Seq(Byte) /\ Len(SubSeq(Contents, 1, k)) = k
    BY <2>1
  <2>3. Len(out') # Len(out)
    BY <2>1, <2>2
  <2> QED BY <2>3, Zenon DEF Discards
<1>2. CASE Stream!Write
  <2>1. PICK k \in 1 .. BUF_SIZE - Len(Contents) : \E t \in [1 .. k -> Byte] : Contents' = Contents \o t
    BY <1>2, Zenon DEF Stream!Write
  <2>2. PICK t \in [1 .. k -> Byte] : Contents' = Contents \o t
    BY <2>1, Zenon
  <2>3. t \in Seq(Byte) /\ Len(t) = k /\ k >= 1
    BY <2>1, <2>2, ChardevAssumption, SMTT(30)
  <2>4. Len(Contents') # 0
    BY <2>2, <2>3
  <2>5. Len(<<>>) = 0
    OBVIOUS
  <2> QED BY <2>4, <2>5, Zenon DEF Discards
<1> QED BY <1>1, <1>2, Zenon

\* A step of chardev.c changes neither what can be read nor what has been read, or
\* it is a step of the byte stream by which no call fails with -EFAULT and no byte
\* is discarded but on purpose.
LEMMA StreamStep ==
    ASSUME ResInv, StreamInv, ResInv', StreamInv', [Next]_vars
    PROVE  \/ UNCHANGED <<Contents, out>>
           \/ Stream!Next /\ (Discards => Dropped) /\ \A u \in Users : ~Faulted(u)
<1>0. buf_len \in Nat /\ \A c \in 0 .. buf_len - 1 : c \in Cell
  BY ChardevAssumption DEF StreamInv, DevType, Cell
<1>1. CASE Lifecycle
  <2>1. out' = out /\ \A u \in Users : ~Faulted(u)
    <3>1. out' = out
      BY <1>1, Zenon DEF Lifecycle, Insmod, Acquire, AcquireFails, Rmmod, Release
    <3>2. pc' = pc \/ FilesLost
      BY <1>1, Zenon DEF Lifecycle, Insmod, Acquire, AcquireFails, Rmmod, Release
    <3>3. CASE pc' = pc
      BY <3>1, <3>3, Zenon DEF Faulted, InCall, IsOpen
    <3>4. CASE FilesLost
      <4>1. ASSUME NEW u \in Users PROVE ret'[u] = 0
        BY <3>4, Zenon DEF FilesLost
      <4>2. EFAULT # 0
        BY DEF EFAULT
      <4> QED BY <3>1, <4>1, <4>2, Zenon DEF Faulted
    <3> QED BY <3>2, <3>3, <3>4, Zenon
  <2>2. CASE ("buf" \in res' <=> "buf" \in res) /\ UNCHANGED device
    BY <1>0, <2>1, <2>2, SameBytes, Zenon DEF device
  <2>3. CASE Acquire /\ NextResource = "buf"
    <3>1. Contents' = <<>>
      BY <2>3 DEF Acquire, Contents, Bytes
    <3>2. Contents = <<>>
      BY <2>3, OneAtATime, Zenon DEF Contents
    <3> QED BY <2>1, <3>1, <3>2, Zenon
  <2>4. CASE Release /\ Head(todo) = "buf"
    <3>1. "buf" \notin res' /\ Contents' = <<>>
      BY <2>4, OneAtATime, Zenon DEF Contents
    <3> QED BY <2>1, <3>1, Zenon DEF Stream!Next, Stream!Flush, Dropped
  <2>5. CASE Insmod \/ AcquireFails \/ Rmmod
    BY <2>2, <2>5, Zenon DEF Insmod, AcquireFails, Rmmod
  <2>6. CASE Acquire /\ NextResource # "buf"
    BY <2>2, <2>6, Zenon DEF Acquire
  <2>7. CASE Release /\ Head(todo) # "buf"
    BY <2>2, <2>7, Zenon DEF Release
  <2> QED BY <1>1, <2>3, <2>4, <2>5, <2>6, <2>7, Zenon DEF Lifecycle
<1>2. ASSUME UNCHANGED <<res, buf_len, out>>, \A c \in 0 .. buf_len - 1 : buf'[c] = buf[c]
      PROVE  UNCHANGED <<Contents, out>>
  BY <1>0, <1>2, SameBytes, Zenon
<1>3. CASE UNCHANGED <<res, buf, buf_len, out>>
  BY <1>2, <1>3, Zenon
<1>4. ASSUME NEW u \in Users, WriteCopy(u) \/ WriteFault(u)
      PROVE  UNCHANGED <<Contents, out>>
  <2>1. UNCHANGED <<res, buf_len, out>>
    BY <1>4, ZenonT(40) DEF WriteCopy, WriteFault, module
  <2>2. PICK data, m, k : buf' = CopiedIn(data, m, k)
    BY <1>4 DEF WriteCopy, WriteFault
  <2>3. \A c \in 0 .. buf_len - 1 : c \in Cell /\ c \notin buf_len .. buf_len + m - 1
    BY <1>0
  <2>4. \A c \in 0 .. buf_len - 1 : buf'[c] = buf[c]
    BY <2>2, <2>3, Zenon DEF CopiedIn, WriteAt
  <2> QED BY <1>2, <2>1, <2>4, Zenon
<1>5. ASSUME NEW u \in Users, NEW r \in Int, Return(u, r), r # EFAULT
      PROVE  \A v \in Users : ~Faulted(v)
  <2>1. ASSUME NEW v \in Users, v # u PROVE InCall(v) => InCall(v)'
    BY <1>5, <2>1, Zenon DEF InCall, IsOpen, Return, ResInv
  <2>2. ret'[u] # EFAULT
    BY <1>5, ReturnType, Zenon
  <2> QED BY <2>1, <2>2, Zenon DEF Faulted
<1>6. ASSUME NEW u \in Users, n[u] = 0, ReadCommit(u) \/ WriteCommit(u)
      PROVE  UNCHANGED <<Contents, out>>
  <2>1. res' = res /\ buf_len' = buf_len
    BY <1>0, <1>6, SMTT(30) DEF ReadCommit, WriteCommit, module
  <2>2. \A c \in 0 .. buf_len - 1 : buf'[c] = buf[c]
    BY <1>0, <1>6 DEF ReadCommit, WriteCommit
  <2>3. out' = out
    <3>1. CASE ReadCommit(u)
      <4>1. ubuf[u] = Bytes(0) /\ out \in Seq(Byte)
        BY <1>6, <3>1, Zenon DEF ReadCommit, StreamInv, DevType, UserInv
      <4>2. Bytes(0) = <<>>
        BY DEF Bytes
      <4> QED BY <3>1, <4>1, <4>2, ConcatNothing, SMTT(30) DEF ReadCommit
    <3>2. CASE WriteCommit(u)
      BY <3>2, Zenon DEF WriteCommit
    <3> QED BY <1>6, <3>1, <3>2, ZenonT(40)
  <2> QED BY <1>2, <2>1, <2>2, <2>3, ZenonT(40)
<1>7. ASSUME NEW u \in Users, n[u] # 0, ReadCommit(u) \/ WriteCommit(u)
      PROVE  Stream!Next /\ (Discards => Dropped) /\ \A v \in Users : ~Faulted(v)
  <2>1. Return(u, n[u]) /\ n[u] \in Int /\ n[u] # EFAULT
    <3>1. Return(u, n[u])
      BY <1>7, Zenon DEF ReadCommit, WriteCommit
    <3>2. n[u] \in 0 .. BUF_SIZE
      BY Zenon DEF StreamInv, DevType
    <3> QED BY <3>1, <3>2, ChardevAssumption DEF EFAULT
  <2>2. \A v \in Users : ~Faulted(v)
    BY <1>5, <2>1, Zenon
  <2>3. Stream!Read \/ Stream!Write
    BY <1>7, CommitReads, CommitWrites, Zenon
  <2>4. ~Discards
    BY <2>3, NoneDiscarded, ContentsType, Zenon DEF StreamInv, DevType
  <2> QED BY <2>2, <2>3, <2>4, Zenon DEF Stream!Next
<1>8. ASSUME NEW u \in Users, IoctlReset(u)
      PROVE  Stream!Next /\ (Discards => Dropped) /\ \A v \in Users : ~Faulted(v)
  <2>1. \A v \in Users : ~Faulted(v)
    BY <1>5, <1>8, SMTT(30) DEF IoctlReset, EFAULT
  <2>2. Contents' = <<>> /\ out' = out
    BY <1>8 DEF IoctlReset, Contents, Bytes
  <2>3. In(u, "reset") /\ ~InCall(u)'
    BY <1>8, Zenon DEF IoctlReset, Return, InCall, ResInv
  <2> QED BY <2>1, <2>2, <2>3, Zenon DEF Stream!Next, Stream!Flush, Dropped
<1>9. ASSUME NEW u \in Users, Open(u) \/ Close(u) \/ Llseek(u) \/ IoctlUnknown(u) \/ MutexLock(u)
      PROVE  UNCHANGED <<res, buf, buf_len, out>>
  BY <1>9, Zenon DEF Open, Close, Llseek, IoctlUnknown, Rejected, MutexLock, module, device
<1>10. ASSUME NEW u \in Users, ReadEmpty(u) \/ ReadCopy(u) \/ ReadFault(u) \/ WriteFull(u) \/ IoctlSize(u)
                               \/ IoctlSizeOut(u) \/ IoctlEchoIn(u) \/ IoctlEcho(u)
       PROVE  UNCHANGED <<res, buf, buf_len, out>>
  BY <1>10, Zenon DEF ReadEmpty, ReadCopy, ReadFault, WriteFull, IoctlSize, IoctlSizeOut, IoctlEchoIn, IoctlEcho,
               module, device
<1>11. ASSUME NEW u \in Users, NEW c \in Call, Enter(u, c) PROVE UNCHANGED <<res, buf, buf_len, out>>
  BY <1>11, Zenon DEF Enter, module, device
<1>12. CASE UNCHANGED vars
  BY <1>3, <1>12, Zenon DEF vars, module, device
<1> QED
  BY <1>1, <1>3, <1>4, <1>6, <1>7, <1>8, <1>9, <1>10, <1>11, <1>12, ZenonT(40) DEF Next, Handler, Finished

-----------------------------------------------------------------------------
(* Loading and unloading hello_module.c *)

\* How far a load or an unload has got says whether the entry takes new calls and
\* whether there is memory; a call in progress is one the entry has let in.
LoadInv ==
    /\ h_pc \in [Readers -> {"closed", "opening", "open", "show", "loop"}]
    /\ h_mod \in {"unloaded", "init", "alloc", "live", "undo", "exit", "free"}
    /\ entry = IF h_mod \in {"alloc", "live"} THEN "live"
               ELSE IF h_mod \in {"undo", "exit"} THEN "dying" ELSE "none"
    /\ kmem = IF h_mod \in {"live", "exit", "free"} THEN "held" ELSE "none"
    /\ \A r \in Readers : Hello!InModule(r) => entry # "none"

\* It holds before the first load.
LEMMA InitLoadInv == Hello!Init => LoadInv
BY Zenon DEF Hello!Init, LoadInv, Hello!InModule

\* Loading and unloading keep it.
LEMMA LifecycleLoadInv == LoadInv /\ Hello!Lifecycle => LoadInv'
<1> SUFFICES ASSUME LoadInv, Hello!Lifecycle PROVE LoadInv'
  BY Zenon
<1> USE DEF LoadInv, Hello!InModule
<1>1. CASE Hello!Insmod BY <1>1, Zenon DEF Hello!Insmod
<1>2. CASE Hello!ProcCreate BY <1>2, Zenon DEF Hello!ProcCreate
<1>3. CASE Hello!Kmalloc BY <1>3, Zenon DEF Hello!Kmalloc
<1>4. CASE Hello!KmallocFails BY <1>4, Zenon DEF Hello!KmallocFails, Hello!Refuse
<1>5. CASE Hello!Rmmod BY <1>5, Zenon DEF Hello!Rmmod, Hello!Refuse
<1>6. CASE Hello!ProcRemoved BY <1>6, Zenon DEF Hello!ProcRemoved
<1>7. CASE Hello!Kfree BY <1>7, ZenonT(40) DEF Hello!Kfree
<1> QED BY <1>1, <1>2, <1>3, <1>4, <1>5, <1>6, <1>7, Zenon DEF Hello!Lifecycle

\* So do the readers' calls.
LEMMA ReaderLoadInv ==
    ASSUME LoadInv, NEW r \in Readers, Hello!Open(r) \/ Hello!Read(r) \/ Hello!Close(r) \/ Hello!Handler(r)
    PROVE  LoadInv'
<1> USE DEF LoadInv, Hello!InModule, Hello!Goto, Hello!module
<1>1. CASE Hello!Open(r) BY <1>1, Zenon DEF Hello!Open
<1>2. CASE Hello!Read(r) BY <1>2, Zenon DEF Hello!Read
<1>3. CASE Hello!Close(r) BY <1>3, Zenon DEF Hello!Close
<1>4. CASE Hello!Opened(r) BY <1>4, Zenon DEF Hello!Opened
<1>5. CASE Hello!ShowHeader(r) BY <1>5, Zenon DEF Hello!ShowHeader
<1>6. CASE Hello!Greet(r) BY <1>6, Zenon DEF Hello!Greet
<1>7. CASE Hello!Overflow(r) BY <1>7, Zenon DEF Hello!Overflow
<1>8. CASE Hello!Shown(r) BY <1>8, Zenon DEF Hello!Shown, Hello!Delivers
<1> QED BY <1>1, <1>2, <1>3, <1>4, <1>5, <1>6, <1>7, <1>8, SMTT(30) DEF Hello!Handler

\* Every step keeps it; a write to count touches nothing of it.
LEMMA StepLoadInv == LoadInv /\ [Hello!Next]_helloVars => LoadInv'
<1> SUFFICES ASSUME LoadInv, [Hello!Next]_helloVars PROVE LoadInv'
  BY Zenon
<1>1. ASSUME NEW v \in Counts, Hello!SetCount(v) PROVE LoadInv'
  BY <1>1, Zenon DEF Hello!SetCount, LoadInv, Hello!InModule, Hello!module
<1>2. CASE UNCHANGED helloVars
  BY <1>2, Zenon DEF helloVars, LoadInv, Hello!InModule, Hello!module
<1> QED BY <1>1, <1>2, LifecycleLoadInv, ReaderLoadInv, Zenon DEF Hello!Next

-----------------------------------------------------------------------------
(* What hello_module.c prints *)

\* While a show is in its loop, lo and hi bound count and the count it has printed,
\* and no more greetings have been printed than some value of count allowed.
GreetInv ==
    /\ count \in Int
    /\ i \in [Readers -> Int] /\ header \in [Readers -> Int]
    /\ lo \in [Readers -> Int] /\ hi \in [Readers -> Int]
    /\ \A r \in Readers : h_pc[r] = "loop" =>
          /\ 0 <= i[r] /\ i[r] <= Hello!Larger(hi[r], 0)
          /\ lo[r] <= count /\ count <= hi[r]
          /\ lo[r] <= header[r] /\ header[r] <= hi[r]

\* Nothing is printed before the first load.
LEMMA InitGreetInv == Hello!Init => GreetInv
BY DEF Hello!Init, GreetInv, Hello!Default

\* A show that does not enter or leave its loop, and does not run, keeps it.
LEMMA SameGreetInv ==
    ASSUME LoadInv, GreetInv, UNCHANGED <<count, i, header, lo, hi>>,
           \A r \in Readers : h_pc'[r] = "loop" => h_pc[r] = "loop"
    PROVE  GreetInv'
BY ZenonT(40) DEF GreetInv, Hello!Larger

\* A show that is over leaves nothing behind.
LEMMA ClearGreetInv ==
    ASSUME LoadInv, GreetInv, NEW r \in Readers, Hello!Clear(r), count' = count,
           NEW w \in {"show", "open"}, Hello!Goto(r, w)
    PROVE  GreetInv'
<1>1. i' \in [Readers -> Int] /\ \A q \in Readers \ {r} : i'[q] = i[q]
  BY SMTT(30) DEF GreetInv, Hello!Clear
<1>2. header' \in [Readers -> Int] /\ \A q \in Readers \ {r} : header'[q] = header[q]
  BY SMTT(30) DEF GreetInv, Hello!Clear
<1>3. lo' \in [Readers -> Int] /\ \A q \in Readers \ {r} : lo'[q] = lo[q]
  BY SMTT(30) DEF GreetInv, Hello!Clear
<1>4. hi' \in [Readers -> Int] /\ \A q \in Readers \ {r} : hi'[q] = hi[q]
  BY DEF GreetInv, Hello!Clear
<1>5. h_pc'[r] # "loop" /\ \A q \in Readers \ {r} : h_pc'[q] = h_pc[q]
  BY Zenon DEF Hello!Goto, LoadInv
<1>6. ASSUME NEW q \in Readers, h_pc'[q] = "loop"
      PROVE  q # r /\ h_pc[q] = "loop"
  BY <1>5, <1>6, Zenon
<1> QED BY <1>1, <1>2, <1>3, <1>4, <1>6, SMTT(30) DEF GreetInv, Hello!Larger

\* Every step of hello_module.c keeps it: a load resets count only while no show
\* runs, and a write to count widens the range of every show that does.
LEMMA StepGreetInv == LoadInv /\ GreetInv /\ [Hello!Next]_helloVars => GreetInv'
<1> SUFFICES ASSUME LoadInv, GreetInv, [Hello!Next]_helloVars PROVE GreetInv'
  BY Zenon
<1> USE DEF Hello!Goto
<1>1. CASE Hello!Insmod
  <2>1. \A r \in Readers : h_pc'[r] # "loop"
    BY <1>1, Zenon DEF Hello!Insmod, LoadInv, Hello!InModule
  <2>2. count' \in Int /\ UNCHANGED <<i, header, lo, hi>>
    BY <1>1 DEF Hello!Insmod, Hello!Default, Hello!show
  <2> QED BY <2>1, <2>2, Zenon DEF GreetInv
<1>2. CASE Hello!ProcCreate \/ Hello!Kmalloc \/ Hello!KmallocFails \/ Hello!Rmmod \/ Hello!ProcRemoved \/ Hello!Kfree
  BY <1>2, SameGreetInv, Zenon DEF Hello!ProcCreate, Hello!Kmalloc, Hello!KmallocFails, Hello!Rmmod,
     Hello!ProcRemoved, Hello!Kfree, Hello!param, Hello!show
<1>3. ASSUME NEW r \in Readers, Hello!Open(r) \/ Hello!Read(r) \/ Hello!Close(r) \/ Hello!Opened(r) PROVE GreetInv'
  <2>1. UNCHANGED <<count, i, header, lo, hi>>
    BY <1>3, Zenon DEF Hello!Open, Hello!Read, Hello!Close, Hello!Opened, Hello!param, Hello!show
  <2>2. PICK w \in {"closed", "opening", "open", "show"} : h_pc' = [h_pc EXCEPT ![r] = w]
    BY <1>3, Zenon DEF Hello!Open, Hello!Read, Hello!Close, Hello!Opened
  <2>3. \A q \in Readers : h_pc'[q] = "loop" => h_pc[q] = "loop"
    BY <2>2, ZenonT(40) DEF LoadInv
  <2> QED BY <2>1, <2>3, SameGreetInv, Zenon
<1>4. ASSUME NEW r \in Readers, Hello!ShowHeader(r) PROVE GreetInv'
  <2>1. i' \in [Readers -> Int] /\ i'[r] = 0 /\ \A q \in Readers \ {r} : i'[q] = i[q]
    BY <1>4 DEF GreetInv, Hello!ShowHeader
  <2>2. header' \in [Readers -> Int] /\ header'[r] = count /\ \A q \in Readers \ {r} : header'[q] = header[q]
    BY <1>4, Zenon DEF GreetInv, Hello!ShowHeader
  <2>3. lo' \in [Readers -> Int] /\ lo'[r] = count /\ \A q \in Readers \ {r} : lo'[q] = lo[q]
    BY <1>4, Zenon DEF GreetInv, Hello!ShowHeader
  <2>4. hi' \in [Readers -> Int] /\ hi'[r] = count /\ \A q \in Readers \ {r} : hi'[q] = hi[q]
    BY <1>4, Zenon DEF GreetInv, Hello!ShowHeader
  <2>5. count' = count /\ \A q \in Readers \ {r} : h_pc'[q] = h_pc[q]
    BY <1>4, Zenon DEF Hello!ShowHeader, Hello!param, LoadInv
  <2>6. count \in Int
    BY ZenonT(40) DEF GreetInv
  <2>7. 0 <= i'[r] /\ i'[r] <= Hello!Larger(hi'[r], 0) /\ lo'[r] <= count' /\ count' <= hi'[r]
        /\ lo'[r] <= header'[r] /\ header'[r] <= hi'[r]
    BY <2>1, <2>2, <2>3, <2>4, <2>5, <2>6, SMTT(30) DEF Hello!Larger
  <2> QED BY <2>1, <2>2, <2>3, <2>4, <2>5, <2>7, SMTT(30) DEF GreetInv
<1>5. ASSUME NEW r \in Readers, Hello!Greet(r) PROVE GreetInv'
  <2>1. UNCHANGED <<count, h_pc, header, lo, hi>> /\ i[r] < count /\ h_pc[r] = "loop"
    BY <1>5, ZenonT(40) DEF Hello!Greet, Hello!More, Hello!param
  <2>2. i' \in [Readers -> Int] /\ i'[r] = i[r] + 1 /\ \A q \in Readers \ {r} : i'[q] = i[q]
    BY <1>5, SMTT(30) DEF GreetInv, Hello!Greet
  <2>3. 0 <= i'[r] /\ i'[r] <= Hello!Larger(hi[r], 0)
    BY <2>1, <2>2 DEF GreetInv, Hello!Larger
  <2> QED BY <2>1, <2>2, <2>3, Zenon DEF GreetInv, Hello!Larger
<1>6. ASSUME NEW r \in Readers, Hello!Overflow(r) \/ Hello!Shown(r) PROVE GreetInv'
  BY <1>6, ClearGreetInv, ZenonT(40) DEF Hello!Overflow, Hello!Shown, Hello!param
<1>7. ASSUME NEW v \in Counts, Hello!SetCount(v) PROVE GreetInv'
  <2>1. count' = v /\ v \in Int /\ UNCHANGED <<h_pc, i, header>>
    BY <1>7, CountsAssumption, Zenon DEF Hello!SetCount
  <2>2. /\ lo' \in [Readers -> Int] /\ hi' \in [Readers -> Int]
        /\ \A r \in Readers : h_pc[r] = "loop" =>
              lo'[r] = Hello!Smaller(lo[r], v) /\ hi'[r] = Hello!Larger(hi[r], v)
    BY <1>7, <2>1, Zenon DEF Hello!SetCount, GreetInv, Hello!Smaller, Hello!Larger
  <2> QED BY <2>1, <2>2 DEF GreetInv, Hello!Smaller, Hello!Larger
<1>8. CASE UNCHANGED helloVars
  BY <1>8, SameGreetInv, Zenon DEF helloVars
<1> QED
  BY <1>1, <1>2, <1>3, <1>4, <1>5, <1>6, <1>7, <1>8, ZenonT(40) DEF Hello!Next, Hello!Lifecycle, Hello!Handler

-----------------------------------------------------------------------------
(* The modules *)

\* What holds of the one that is loaded and of the one that is not.
KernelInv == ResInv /\ StreamInv /\ LoadInv /\ GreetInv

\* A step of one of the modules is a step of each, or leaves it alone.
LEMMA StepOfModules == [KernelNext]_allVars => [Next]_vars /\ [Hello!Next]_helloVars
BY Zenon DEF KernelNext, HelloNext, allVars

\* The invariant holds throughout.
THEOREM KernelInvariance == KernelSpec => []KernelInv
<1>1. KernelInit => KernelInv
  BY InitResInv, InitStreamInv, InitLoadInv, InitGreetInv, Zenon DEF KernelInit, KernelInv
<1>2. KernelInv /\ [KernelNext]_allVars => KernelInv'
  BY StepOfModules, StepResInv, StepStreamInv, StepLoadInv, StepGreetInv, Zenon DEF KernelInv
<1> QED BY <1>1, <1>2, PTL DEF KernelSpec

\* A load of chardev.c that fails at any call, and an unload, leave nothing behind
\* and release nothing twice.
THEOREM NothingLeakedHolds == KernelSpec => []NothingLeaked
<1>1. KernelInv => NothingLeaked
  BY ResInvLeaks, Zenon DEF KernelInv
<1> QED BY <1>1, KernelInvariance, PTL

\* No file operation of chardev.c runs on a buffer that is not there: not during a
\* load, and not until the last file is closed after a load that has succeeded.  A
\* file opened during a load is followed until the load fails.
THEOREM NoUseAfterFreeHolds == KernelSpec => []NoUseAfterFree
<1>1. KernelInv => NoUseAfterFree
  BY ResInvUses, Zenon DEF KernelInv
<1> QED BY <1>1, KernelInvariance, PTL

\* The file operations of chardev.c, its faults, resets and reloads implement one
\* bounded byte stream, which a call that returns -EFAULT leaves as it was and which
\* only CHARDEV_RESET and kfree empty without a read.
THEOREM StreamRefinement == KernelSpec => ImplementsStream
<1>1. KernelInit => Stream!Init
  BY Zenon DEF KernelInit, Init, Stream!Init, Contents
<1>2. KernelInv /\ KernelInv' /\ [KernelNext]_allVars => [Stream!Next]_(Stream!streamVars)
  BY StepOfModules, StreamStep, Zenon DEF KernelInv, Stream!streamVars
<1>3. KernelInv /\ KernelInv' /\ [KernelNext]_allVars
      => [\A u \in Users : InCall(u) /\ ~InCall(u)' /\ ret'[u] = EFAULT => UNCHANGED <<Contents, out>>]_vars
  BY StepOfModules, StreamStep, Zenon DEF KernelInv, Faulted
<1>4. KernelInv /\ KernelInv' /\ [KernelNext]_allVars
      => [Discards => "buf" \notin res' \/ \E u \in Users : In(u, "reset") /\ ~InCall(u)']_vars
  BY StepOfModules, StreamStep, Zenon DEF KernelInv, Dropped, Discards
<1> QED BY <1>1, <1>2, <1>3, <1>4, KernelInvariance, PTL DEF KernelSpec, ImplementsStream, Stream!Spec

\* hello_module.c: no handler runs without the module, and neither a load that
\* fails nor an unload leaves the proc entry or the memory.
THEOREM NothingAfterUnloadHolds == KernelSpec => []NothingAfterUnload
<1>1. KernelInv => NothingAfterUnload
  BY Zenon DEF KernelInv, LoadInv, NothingAfterUnload, Hello!NothingAfterUnload
<1> QED BY <1>1, KernelInvariance, PTL

\* What a read of /proc/hello_module delivers agrees with the values count had
\* while it was made.
THEOREM GreetingsInRangeHolds == KernelSpec => []GreetingsInRange
<1>1. ASSUME KernelInv PROVE GreetingsInRange
  BY <1>1 DEF KernelInv, GreetInv, GreetingsInRange, Hello!GreetingsInRange, Hello!Delivers, Hello!More,
     Hello!Larger
<1> QED BY <1>1, KernelInvariance, PTL
=============================================================================
