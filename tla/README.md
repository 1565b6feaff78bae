# TLA+ models of the embedded Linux demos

The repository is a set of small C programs, two kernel modules and a few shell
scripts, each showing one part of the Linux programming interface.  What makes
them hard to test is what happens between their steps: threads that wait for each
other, processes that die and leave named objects behind, signals inside signal
handlers, an answer that arrives with a timeout.  This directory models those
programs in TLA+, checks them with TLC on small instances, and proves their safety
with TLAPS for every value of the constants.

`PROJECT.json` lists the components, the runs, the source lines behind every
definition and the hazards.

## The system and its parts

The programs do not call each other; what interacts is inside each directory.

| Part | Source | Interaction | Module |
|---|---|---|---|
| condition-variable queue | `02_threads/thread_demo.c` 145-212 | producers and consumers, one mutex, two condition variables | `CondQueue` |
| counter hand-off | same, 370-419 | two threads that hold the mutex through their loops | `CountHandoff` |
| semaphore ring | same, 214-290 | one producer, one consumer, no mutex | `SemQueue` |
| mutex counter | same, 99-141 | four incrementing threads | `MutexCounter` |
| read-write lock | same, 292-338 | three readers, two writers | `RwLock` |
| basic threads, thread-local storage | same, 59-97 and 340-368 | threads created and joined by `main` | `WorkerThreads` |
| character driver | `10_device_driver/chardev.c` | module load and unload, user processes | `Chardev` |
| procfs module | `09_kernel_module/hello_module.c` | load and unload, readers, a parameter written from outside | `HelloModule`, with the driver in `KernelModules` |
| shared memory | `03_ipc/shm_demo.c` | two processes, names that outlive them | `ShmHandoff` |
| message queue | `03_ipc/mq_demo.c` | two processes, a queue that outlives them | `MqDemo` |
| anonymous pipe, FIFO | `03_ipc/pipe_demo.c` | two processes | `AnonPipe`, `FifoDemo`, together in `PipeDemo` |
| TCP server and client | `07_networking/tcp_server.c`, `tcp_client.c` | one server, many clients | `TcpEcho`, `TcpDemo` |
| timed connect | `07_networking/tcp_client.c` 40-117 | caller and network | `ConnectTimeout`, with the server in `TcpDemo` |
| UDP echo | `07_networking/udp_demo.c` | two processes, a lossy network, others | `UdpEcho` |
| processes | `01_processes/process_demo.c` | a parent and its children | `ProcessDemo` |
| signals | `04_signals/signal_demo.c` | one thread, nested handlers, senders | `SignalDemo` |
| timers | `08_timers/timer_demo.c` | one thread and the kernel's timers | `TimerDemo` |
| file I/O | `06_file_io/fileio_demo.c` | runs that share files in `/tmp` | `TempFiles` |
| file mapping | `05_memory/memory_demo.c` 122-156 | runs that share a mapped file | `TempFiles` |
| allocation tracker | same, 181-249 | its caller and the allocator | `LeakTracker` |
| GPIO and hardware watchdog | `15_gpio/gpio_demo.c` | the program, the clock, the watchdog driver | `GpioDemo` |
| process supervisor | `14_shell_scripts/watchdog.sh` | the script and the process it watches | `Supervisor` |

`BoundedFifo` and `ByteStream` are abstract: what a queue and what a byte device
promise, with no code of their own.  `ThreadDemo` is `main` of `thread_demo.c` and
runs its six demos in order.  `SmallPrograms` and `KernelModules` put components side
by side that share no state: the initial state chooses which one a behaviour is about.
`MCThreadDemo` and `MCKernelModules` define the sets that a configuration cannot write
down: the writers of the code, the data written to the driver, and the values written to
`count`.  `ThreadConstants` and
`ProgramConstants` declare the constants the components share, with what is assumed of
them.

The theorems are in eight modules, each of which extends the modules it is about:

| Module | About |
|---|---|
| `QueueProofs` | `CondQueue`, `MqDemo` |
| `ThreadDemoProofs` | `ThreadDemo` with `WorkerThreads`, `CountHandoff`, `SemQueue`, `RwLock` |
| `MutexProofs` | `ThreadDemo` with `MutexCounter` |
| `KernelModulesProofs` | `KernelModules` with `Chardev`, `HelloModule` |
| `IpcProofs` | `PipeDemo` with `AnonPipe`, `FifoDemo`; `ShmHandoff` |
| `TcpDemoProofs` | `TcpDemo` with `TcpEcho`, `ConnectTimeout` |
| `SystemProofs` | `ProcessDemo`, `SignalDemo`, `TimerDemo`, `UdpEcho` |
| `SmallProgramsProofs` | `SmallPrograms` with `LeakTracker`, `GpioDemo`, `Supervisor` |

Where a proof module extends several programs, their variables and actions have names of
their own (`MqSpec`, `TimerSpec`, `producer` and `consumer` in `ShmHandoff`).

### Not modelled

* `demo_address_layout`, `demo_anon_mmap` and `demo_alignment` of `memory_demo.c`,
  `demo_ioctl` of `fileio_demo.c` and `demo_clock_nanosleep` of `timer_demo.c` print
  addresses, the terminal's size or the time.  They have one thread, no object that
  outlives them, and no state a property could relate.
* `device_driver_test.c` is a straight line of calls that the users of `Chardev` make
  in any order.
* `16_uart/uart_demo.c` writes once to a serial line and reads once; it is not built.
* `13_debugging/debug_demo.c` has its bugs on purpose, for a debugger to find.
* `gpio_toggle.sh`, `sys_info.sh` and `debug_commands.sh` print, or copy values to and
  from `/sys` and `/proc`.
* `11_bootloader` and `12_build_systems` hold documents only.

## How the models read the code

* A step of a model is one access to something another actor can see: a lock, a
  shared variable, a system call.  The build uses `-O0`, so `x++` on shared memory
  is a load and a store.
* Kernel and library objects (mutex, condition variable, semaphore, queue, pipe,
  socket, epoll, signal) are modelled from how the code uses them and are marked
  external in the map.  A condition variable may wake its waiter spuriously, a
  signal wakes one waiter of any choice, and a woken thread contends for the mutex.
* A system call whose failure the code handles may fail where the run allows it.
* Sleeps only make an order likely.  The models let every order happen.
* Printing is left out, except where a property is about the value printed: then a
  variable (`shown`, `got`, `seen`) records it.
* Variables that nobody will read again are reset to a fixed value, so that states that differ in dead values only are one.
* Each module has a section of wrong variants (`Name_Variant`).  They are not part
  of the specification; putting one in place of the definition it varies must
  make a property fail, and each property has such a variant.

### Threads

`CondQueue` has one action per step of `queue_push` and `queue_pop`: lock, test of
the `while`, wait, relock, and the update with signal and unlock.  `q` is the
struct; a sleeping thread has its `pc` at "wait".  The code has one
producer and one consumer; the module takes any finite sets of both, because that
is where signalling one waiter could go wrong.

`CountHandoff` follows `producer2` and `consumer2`, whose loops run with the mutex
held: the mutex changes hands only in `pthread_cond_wait` and at the end.

`SemQueue` has every access to the ring as a step.  `Permits` is the initial value
of `sem_not_full`, which is 5 while the ring has 8 slots.  `MutexCounter` and
`RwLock` include creation and joins, since `CHECK` ends the process when a creation
fails.  `RwLock` has the default kind of lock: readers overtake waiting writers.

`WorkerThreads` has demos 1 and 5.  The first passes `i` by value inside the pointer,
so a thread cannot see a later one's number; the second passes addresses of different
array elements.

`ThreadDemo` puts the six demos in sequence, each beginning when the one before has
joined its threads.  `main` does not call `demo_cond_var`; `CondQueue` models it as it
stands in the file.

### The kernel modules

`Chardev` has the module (`mod`, `res`, `todo`), the device (`buf`, `buf_len`,
`echo`, the mutex) and the users.  `Acquire` and `AcquireFails` are the five
acquisitions of `chardev_init`; `todo` is what the label jumped to, or
`chardev_exit`, still has to release.  A user copy may fail part of the way.
An open file holds a module reference, so unloading waits for it.  But `cdev_add` makes
the device reachable before `chardev_init` has returned: a user may open it then, and
when a later call of the load fails the files of such users are cut off from a buffer
that `err_buf` frees (`FilesLost`).  What a lost file does afterwards is not followed.

In `HelloModule` it does not: procfs entries pin no module.  `proc_remove` refuses new
calls and waits for those in progress (`Refuse`, `ProcRemoved`), and a read of a file
still open then fails without entering the module.  The entry is live from
`proc_create` on, so a reader may be inside when `kmalloc` fails.  `hello_seq_show`
reads `count` once for its line and again for each greeting, and `seq_read` runs it
again with twice the buffer when the output did not fit.

### Inter-process communication

`ShmHandoff`, `FifoDemo`, `MqDemo` and `ProcessDemo` model several runs of the
program, because named objects outlive a killed process.  An object is identified
by the run that created it, so that two processes can hold different objects which
they found under one name.  In `MqDemo` `mq_send` inserts a message behind those of its
priority (`Insert`), and the initial queue is any sequence that `mq_send` can have left.
The module leaves the sender of the first demo open: its source, `mq_send.c`, is not in the
repository.  `PipeDemo` is `main` of `pipe_demo.c`: the anonymous pipe, then the FIFO, in
several runs.  A failing call of either (`pipe`, `fork`, `read`, `mkfifo`, `open`, and
`shm_open`, `mmap` and `sem_open` in `ShmHandoff`) takes the branch it has in the code.

### Networking

`TcpEcho` keeps epoll's ready list and the batch one `epoll_wait` returned; the
server acts on the event mask as it was then, while clients go on.  Descriptors are
reused.  TCP carries bytes: a `recv` of either side returns any first part of what was
sent.  `torn` records that one returned less than all, since `tcp_client` reads once per
message and does not wait for the rest.  The network may stop carrying a connection
(`Cut`); the server's end learns of it by `SO_KEEPALIVE`, the client's may never.
`ConnectTimeout`
takes the addresses one by one; the answer to a connect may come at any time, also
after the timeout.  `TcpDemo` joins the two: a connection that is established
appears in the server's backlog in the same step, and one that the client gives up
too late is closed under the server.  How many descriptors the server has is chosen
in the initial state.  `UdpEcho` loses datagrams, lets `bind` and `recvfrom` fail and
strangers send; `disturbed` records a failure, a loss, or a stranger's datagram that the
server accepts.

### Signals and timers

`SignalDemo` has dispositions, masks, pending sets and a stack of handlers under
way.  `nested` records that SIGINT came between load and store of the increment in the
handler of SIGTERM, which the `sa_mask` of the code lets happen.  `TimerDemo` lets a timer expire at any moment while it is armed.

### Files, memory, watchdogs

`TempFiles` gives each demo as the sequence of its system calls, and each call its
effect on paths, inodes, descriptors, mappings and pipes.  Two runs of the same program
interleave call by call, and each may be killed, or have an `open`, `mmap`, `pipe` or
`epoll_create1` fail.  Contents are sequences of chunks that name the run that wrote
them.  An access to a mapping whose file another run has truncated raises SIGBUS.

`LeakTracker` lets any client call `tracked_malloc` and `tracked_free`, with the
allocator giving out freed addresses again.  The record's own `malloc` is not tested in
the code; when it fails the program dereferences NULL, and `crashed` says so.

`GpioDemo` has the three demos of `main` and the watchdog timer: `open` starts it, a
write restarts it, and a close, the kernel's close of a killed process included, stops it only
after a `V`.  `Tick` is a second; it may pass at any step, so the program may be delayed
at will, and `late` counts seconds it did not itself sleep.

`Supervisor` is the loop of `watchdog.sh`.  A process that was started is visible to
`pgrep` some time later, `pgrep` may fail, and under `set -e` a failing `tee` ends the
script.  `missed` counts the times a process was there and was not found.

## The runs

All runs check deadlock unless the program itself ends or may wait for good; then
that it ends where it should is a property of its own.

| Run | Distinct states | What it shows |
|---|---|---|
| `cond_queue` | 38,647 | two producers and two consumers on two slots: no lost wake-up, the queue refines `BoundedFifo`, all threads end |
| `thread_demo` | 74,970 | the program with its real sizes: no lost update, no orphaned sleeper, disjoint slots and FIFO order in the semaphore ring, values stable under the rwlock, every join returns with its own thread's result |
| `kernel_modules` | 134,405 | driver: resources through failed loads, unloads and reloads; refines `ByteStream`, and a fault keeps the stream.  procfs module: no code runs unloaded, as many greetings as `count` said.  Every call returns, every unload ends |
| `shm` | 211,114 | two runs, killed anywhere, also at the same time: one token per pair of semaphores, a clean restart, every run ends |
| `mq` | 51,966 | priority order with leftovers, isolation of the second demo, completion with two named exceptions |
| `pipe` | 141,592 | end of file after the whole message; no FIFO message read twice; runs end with one named exception |
| `tcp` | 278,421 | bytes split at will and a connection that may fail: no stale event, a usable socket or none, echoes in order and complete with named exceptions, no connection leaked, client and server finish |
| `udp` | 911 | echoes match; completes when undisturbed |
| `process` | 21,882 | every wait gets its own child, leftovers shown only after a failure |
| `timer` | 821 | no signal outlives its handler, no expiration missed, demos end |
| `signal` | 5,474 | every signal counted with one named exception, own signals survived, no read waits for ever |
| `small_programs` | 194,187 | an undisturbed run of the file demos shows its own data and leaves no file; the tracker's list is exactly the live blocks; the machine is reset if the watchdog was abandoned and otherwise only if the demo was delayed; one supervised process at most but for those `pgrep` missed, and a new one when it is gone |

Several properties name the exceptions under which the code does not do what one
would like (`Starved` and `Jammed` in `MqDemo`, `Interferes` in `PipeDemo`, `Crowded`,
`torn` and `cut` in `TcpDemo`, `disturbed` in `UdpEcho`, `overlapped` in `ShmHandoff`,
`nested` in `SignalDemo`, lost files in `Chardev`, `failed` in `ProcessDemo`, `disturbed`
and `failed` in `TempFiles`, `missed` in `Supervisor`, `Abandoned` and `late` in
`GpioDemo`).  The run then shows that outside the named cases the property holds; inside
them it says nothing.

### Where code and comments disagree

The models follow the code.  While writing them these places came up where a
comment or a document says something else:

* `thread_demo.c:243`, `:251`: `count++` and `count--` of the semaphore ring race
  (`SemQueue` has them as load and store), which line 21 of the same file calls
  undefined behaviour.  Nothing reads `count`.
* `shm_demo.c:62`: a second run unlinks the semaphores of a run in progress and
  shares its memory, so they are not the "mutual exclusion" of line 6 between runs.
* `mq_demo.c:73`: `./build/mq_send` is not there (`03_ipc/CMakeLists.txt:10` names a
  source that is missing, and the program would be in `build/03_ipc`); the parent then
  waits in `mq_receive` for good, although `README.md:66` lists the demo to be run.
* `pipe_demo.c:92`: a FIFO that is there already is used (`:91`, "ignore EEXIST"); a
  reader left by a killed run may take the message, and the run hangs.
* `tcp_server.c:161`: data that arrives together with the close is not read; line 10
  speaks of "graceful client disconnect handling".
* `device_driver_test.c:30`: "read should return 0 (EOF)"; it returns the five
  bytes written before, unless another process has read them.
* `process_demo.c:115`: "NOT calling wait() for 10 s"; the sleep at `:122` is commented
  out, so the parent may end before there is a zombie to see.
* `signal_demo.c:66`: SIGINT interrupts the SIGTERM handler inside the increment and
  one signal is not counted; line 54 says "reliable signal handling".
* `watchdog.sh:4`: "restarts it if it dies"; `restart_count` is never reset, so the limit
  counts over the script's whole life.
* `watchdog.sh:14`: "close to stop"; the watchdog of `gpio_demo.c` stops only after the `V`
  that its line 111 writes.
* `signal_demo.c:136`: "Restore default" restores SIGINT only.

## Bounds

Where the real constants are small enough they are used: the limits 10 and 100 of
`CountHandoff`, the semaphore ring (8 slots, 5 permits, 10 values), the four and three
threads of demos 1 and 5 with 5 increments, five kicks, five restarts, `mq` (8, 4), `udp` (4),
`timer` (5 ticks), `process` (6 polls), four counting threads, three readers and two
writers.  The others:

* `CondQueue` on two slots with two threads a side: the ring gets full and empty,
  wraps, and both condition variables have two sleepers at a time.  The proofs
  cover every other size.
* `MutexCounter` counts to 2 per thread in place of 100000: a lost update takes one
  round of two threads.
* `Chardev` has 2 bytes of buffer in place of 4096, reads of up to 2 bytes (`MaxCount`)
  and writes of none, one or three (`SomeData`): empty, full, partial and over-full
  transfers and a shift by one all happen.  `MaxCalls` and
  `MaxLoads` end the exploration; a second load sees what the first left.
* `MaxRuns` (`MaxStarts` in `ShmHandoff`) is 2 or 3 where runs follow each other: one that leaves something and
  one that finds it, and in `pipe` a third for a leftover of a leftover.  `shm` hands
  over 2 messages in place of 5: the first, whose turn the initial value of a
  semaphore gives, and one whose turn the other side gives.
* `HelloModule` has two readers, two writes of `count` (a negative value and one above the
  default of 3), two loads, and a first buffer for two greetings, so that the
  default output already needs a second pass.
* `TempFiles` has two runs and two lines in place of 100 in `demo_sendfile`, so that the
  other run can come in between two writes.  `LeakTracker` has three addresses, enough
  for a record at the front, in the middle and at the end.  `Margins` has a watchdog
  that leaves one second of slack and one slower than the softdog's 10.
* The message of the anonymous pipe has 3 bytes, read one at a time or all at once.
* `tcp` has a `tcp_client` with 2 messages in place of 3, another client, one or two
  descriptors, two addresses of which the server has the second, and batches of two
  events: one event of a batch can close the descriptor that the other would reuse.  A
  message has `WIDTH` = 2 bytes, so that it can be split; `BYTES` is how far the other
  client is ahead of the server, and `Failing` names the `tcp_client` as the one whose
  connection may fail.
* `mq` starts with up to six leftovers, enough to leave the sender no room.
* `MaxFired`, `MaxExternal` and `MaxPolls` bound expirations, signals and polls; in
  `TimerDemo` beyond `MaxFired` a timer still expires when it is waited for.
* No symmetry is used: every run that has interchangeable values also checks liveness.

## Fairness

* Every thread and process that can move eventually does (weak fairness): the
  scheduler's promise.
* Acquiring a mutex is strongly fair in `CondQueue`, `CountHandoff`, `MutexCounter`
  and `Chardev`: contenders are not passed over for ever.  The kernel mutex hands over to
  its longest waiter; POSIX does not promise as much for a pthread mutex, the threads
  here take it finitely often.  `RwLock` needs weak fairness only, as each thread
  takes the lock once, and `SemQueue` too, as each semaphore has one waiter.
* A call into a kernel module, `proc_remove` and `kfree` run on; the clock ticks; `watchdog.sh`
  runs.  The supervised process is not assumed to come up, nor a user of a module to make
  another call.
* The timeout of `epoll_wait` expires, a periodic timer that is armed expires again, and
  so does the keep-alive timer of a connection that is cut (`KeepaliveExpires`).
* Nothing is assumed of kills, faults, spurious wake-ups, signals from outside,
  strangers, loss, connections that fail, or clients other than `tcp_client`.

## What is proved

Every safety property that a run checks is also a theorem for every value of the
constants, with the one exception named at the end.  The proofs assume what the modules'
`ASSUME`s say and no more: a ring of at least one slot, finite disjoint sets of threads,
at most as many permits as slots, a sentinel that is no value, natural numbers for
timeouts and limits.  Each theorem comes from an inductive invariant, which says what the
property leaves out and the code relies on; the steps are taken one action at a time.
The programs that `main` runs in sequence, or that share nothing, have one invariant each:
a step of the whole is a step of one of them and leaves the variables of the others alone
(`StepOfDemos`, `StepOfMutex`, `StepOfPrograms`).

### `QueueProofs`

*Condition-variable queue*, for any finite sets of producers and consumers and any ring.
`TypeOK /\ LockInv /\ RingInv` is inductive: the bound on the count needs the test
made under the mutex, and `RingInv` (tail = head + count modulo the size) is what
makes the slots of `Contents` the right ones.  `NoLostWakeup` is preserved on top
of it: sleepers on a condition variable imply at least as many awake threads of
that side as there are items (or free slots) for them, or no sleeper at all.  A
signal adds both an item and, if anyone sleeps, an awake thread; a pop takes both
away.  The counting is in the four `Covered...` lemmas.  `Refinement` maps the ring to
the sequence of its occupied slots; `PushAppends` and `PopTakesHead` show that the
updates of the ring are append and tail.

*Message queue*, for every capacity, number of messages and set of priorities.
`HighestPriorityFirst` is about what was received, so `MqInv` adds that the queue is in
that order at all times (`QueueOrder`), that each message received comes before those
still queued, and that the sender numbers its messages upwards.  `InsertAt` says where
the elements of the queue are after `mq_send`.

### `ThreadDemoProofs` and `MutexProofs`

*`demo_cond_var2`*: `CountInv` ties the count to the two loop indices.  `WaitJustified`,
that a thread sleeps only while its condition holds, needs the mutex: the test and the
wait happen under it, and so does every update, with a signal.  `NoOrphanedSleeper`
follows by arithmetic: once one thread has done all its rounds the other's condition is
false.

*Semaphore ring*: `PermitsConserved` counts the permits in both semaphores and those in the
hands of the two threads.  `SlotsDisjoint` is not inductive: that two cursors differ
follows from how far they are apart, so `RingInv` states that distance from the
semaphores and the control points.  `RingIsFifo` maps the ring to the values
written and not yet read; the store of `raw_queue_push` is the append and the load of
`raw_queue_pop` the tail, wherever the cursors are.

*Read-write lock*: `StableUnderLock` needs `RwExclusion`, that a writer inside is alone, and
what each thread knows of the shared value at its control point (`RwKnows`).

*Demos 1 and 5*: `OwnResultsShown` is the safety half of `DemosEnd`.

*`demo_mutex`*: `NoLostUpdate` speaks of the end; `MutexInv` equates the counter with the
number of stores made so far, which are a finite set of pairs of thread and round.  That
one store adds one pair rests on `MutexOwner`: what a thread has loaded is current because
nobody but the owner stores.

### `KernelModulesProofs`

*Resources of the driver*.  `NothingLeaked` speaks of what is still to be released and not
of why that is right, so `ResInv` adds that what is held is always a first part of
`AcquireOrder`, of a length that the step of the load tells, and that `todo` is the same
part backwards.  Each goto label is then right because it skips as many releases as calls
were not made.  `NoUseAfterFree` follows since a file that is not lost is open only from
`cdev_add` on, during a load or while the module cannot be unloaded, and a load that fails
loses the files when it frees the buffer.

*The driver as a stream*.  `StreamInv` says what the code relies on between `mutex_lock`
and `mutex_unlock`: the cells below `buf_len` are data, a read that has copied holds a
first part of them, a write that has copied has its bytes behind them, and the user past
the lock is its owner.  `StreamStep` then shows for each step that it leaves the contents
alone, is a read or a write of `ByteStream` in which no call fails, or empties it by
CHARDEV_RESET or kfree.

*procfs module*.  `LoadInv` gives the state of the entry and of the memory for each point
of load and unload, and says that a call in progress was let in by an entry that is not
gone; `ProcRemoved` keeps that because it waits.  `GreetInv` bounds what a show in progress
has printed by the smallest and largest value that `count` had since it began.

### `IpcProofs`

*Anonymous pipe*.  `AnonInv`: what the child has and what is in the pipe is together the
message once it is written; who holds the ends follows from the control points, so the
end of file means that the parent has written and closed.  `ReadKeeps` and `ConcatTwice`
show that a read of any size only moves the border.

*FIFO*.  `OnePlace`: a message is nowhere before it is sent, and then in one FIFO, with one
reader or gone, whichever processes are killed.

*Shared memory*.  `OneToken` is about runs whose processes exist; `TokenInv` adds that
before the fork the semaphores are 1 and 0, which is where the token comes from, and that
no consumer runs before it.  Kills only take tokens away.  `RestartIsClean` is a
refinement, of the last run to `BoundedFifo`: `HandoffInv` adds that the runs before are
gone when it starts unless they overlap (`Alone`), how far the consumer is behind the
producer, and what the shared record holds at each point of the two.  Steps of other
runs are stutters, as their semaphores are other objects (`OtherRunStep`).

### `TcpDemoProofs`

`EventHolds` says that an event is true when its turn comes.  It is inductive with
`OnePlace` (a connection is queued once or behind one descriptor) and `ListedOnce` (no
descriptor twice in the ready list or a batch): closing or reading one connection then
leaves what the other events report.  `Ordered` says that what the client has read, what
is on its way back and what is on its way out are, joined, what it has sent, or its first
part once the connection is closed or cut; `ClosedForCause` and `InFlight` add who closes, and that
unless `torn` one message at most is under way, whole.  `AllReplied`, the safety half of
`ClientFinishes`, follows.  `DialInv` gives the socket, the descriptors and the link at each
point of `connect_with_timeout`.

### `SystemProofs`

*Processes*.  `wait(NULL)` takes any child, so `OwnChildCollected` needs `DemosInv`: which
children are uncollected in which demo, for all six.  `OutputInv` says that, as long as
every run has unlinked it, `/test` exists in `demo_vfork` only.

*Signals*.  `ActionsInv` is about the dispositions and the mask that keeps SIGTERM out of the
handler of SIGINT; with it `CountInv` says, unless `nested`, that what a handler under way
has loaded is the count, and that on it there is at most one other: that of SIGINT on that
of SIGTERM before its load (`Stacked`).

*Timers*.  `TimerInv` says where each timer may be armed and its signal pending; a call that
takes the handler or the timer away is entered with none pending, and what has fired is
what was counted, the overruns of a pending signal and what is still to be read.

*UDP*.  `OneUnderWay`: a datagram of the client is in one of three places at most and has
the number the client waits for, so what it reads is the echo of its last one
(`EchoesMatch`, the safety half of `Completes`).

### `SmallProgramsProofs`

*Tracker*.  `TrackerInv` carries the partial sums of the sizes from each record on (`Sums`), so
that unlinking a record takes its size off the sums before it.

*Watchdog*.  `DogInv` bounds the timer from below by the timeout less the time the demo was
late and the second it may have slept, and says that a `V` is remembered only at the
close.

*Supervisor*.  `SupInv` adds to `OneProcess` that, once the script has decided to start a
process, all those there are were missed by `pgrep`.

### Only model-checked

* The liveness properties (`Termination`, `DemosEnd`, `CallsAndUnloadsReturn`, `RunsEnd`,
  `DemoCompletes`, `ClosesFollow`, `ClientFinishes`, `ShutdownHappens`, `Completes`,
  `TimersComplete`, `SignalsComplete`, and the halves `AbandonedReboots` and `Restarts`
  of `ResetIfAbandoned` and `KeepsOneRunning`): fairness and ENABLED are out of the prover's
  reach.  Where such a property has an invariant as a conjunct, that conjunct is proved.
* `CleanRuns` of `TempFiles`: what an undisturbed run shows depends on a sequence of calls
  that is itself data of the model, and on folds over it.
