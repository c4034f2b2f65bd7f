# Pintos in TLA+

A TLA+ model of the Pintos kernel in `src/pintos/src` (with the user-program
project), checked with TLC on small instances and, for the scheduler, the
semaphores, the locks and condition variables, the lists of child processes,
the page allocator, the bits of page tables and the disk driver, proved with
TLAPS for every size. Paths and line numbers below are relative to
`src/pintos/src`.
`PROJECT.json` lists the parts, the runs, the source lines each definition
models, the hazards and the theorems.

## The parts and how they interact

The kernel runs on one processor. What runs with interrupts off is one step; a
thread can be preempted by the timer between any two steps at which interrupts
are on. Interrupt handlers run to their end and may wake threads and ask for a
yield on return.

* **Threads** (`threads/thread.c`, `synch.c`) are scheduled round robin.
  Semaphores sit on the scheduler; locks and condition variables sit on the
  semaphores; almost everything else uses locks.
* **Memory**: `palloc.c` hands out pages and is also called by the scheduler,
  which frees dead threads and cannot take a lock; `malloc.c` cuts pages into
  blocks; `pagedir.c` and `load()` build address spaces.
* **Processes** (`userprog/process.c`, `syscall.c`) create, wait for and report
  to each other through lists and parent pointers in struct threads, whose
  pages are freed and reused.
* **Files**: system calls keep descriptors in lists; `filesys/` keeps the free
  map, the directory and inodes, with no lock of its own; `fsutil.c` moves
  files from and to an archive on the scratch device.
* **Devices**: drivers share queues and flags between threads and interrupt
  handlers.
* **The library** (`lib/`, `lib/kernel/`) has lists, hash tables, bitmaps,
  division, sorting, strings and formatted output.

## Modules

### Threads and synchronization

| module | code | state | actions |
| --- | --- | --- | --- |
| `Sched` | scheduling in `threads/thread.c` | status, run queue, current and idle thread, interrupt level, ticks of the slice | operators: `thread_block`, `thread_unblock`, `schedule`, ... |
| `Sema` | semaphores of `threads/synch.c` on that scheduler | value, waiters | operators |
| `Threads` | boot, `idle()`, `thread_create()`, `thread_exit()`, semaphores, the timer | + where each thread is, the list of all threads | one for each section between preemption points |
| `Semaphore` | what semaphores promise, without a processor | value, waiters, `waitsFor` | call, pass, sleep, try, up |
| `Synch` | locks and conditions, step by step, on `Semaphore` | holder, waiter lists, where each thread is | one for each step |
| `Monitor` | what locks and conditions promise | owner, queue, due | acquire, release, wait, signal |

`Threads` implements `Semaphore`, `Synch` is built on `Semaphore` and
implements `Monitor`. That is the composition: what is proved of `Synch` needs
of the scheduler only that it implements `Semaphore`.

### Processes, memory and files

| module | code | what a step is |
| --- | --- | --- |
| `Process` | `process_execute`, `start_process`, `process_wait`, `exit`, `thread_exit`, `page_fault` | what a process does between two preemption points that matter |
| `Args` | `parse()` and the stack set-up of `start_process()` | one word into the shared matrix |
| `Load` | `load()`, `load_segment()`, `setup_stack()`, `process_exit()` | one header, page or release |
| `Syscall` | stubs of `lib/user/syscall.c`, `syscall_handler()` and the readers of arguments | one access of the handler |
| `Palloc`, `PageAlloc` | `threads/palloc.c`; what it promises | one access to a bit of the bitmap |
| `Malloc` | `threads/malloc.c` | a section under a descriptor's lock |
| `Pagedir` | bits of page table entries, and the translation buffer | a change, and the invalidation after it |
| `Fds` | file system calls, `fd_list`, `fds_ll`, `removing_list` | what lies between two accesses to shared lists |
| `Filesys` | free map, directory, inodes, files, `filesys_*` | one transfer to disk or change of shared state |
| `Inode` | `inode_read_at`, `inode_write_at`, `file_read`, `file_write`, ... | a transfer |
| `Archive`, `Ustar` | `filesys/fsutil.c`; headers in `lib/ustar.c` | one sector; one header |

### Devices

| module | code |
| --- | --- |
| `Intr` | `threads/interrupt.c`: the flag, the controllers, nesting, yield on return |
| `Serial` | `devices/serial.c`, `input.c`, `intq.c` |
| `Console` | `lib/kernel/console.c`, `lib/kernel/debug.c` |
| `Kbd` | `devices/kbd.c` |
| `Ide` | `devices/ide.c`, one channel with its two disks |
| `Partition` | `devices/partition.c`, registration and checks of `devices/block.c` |
| `Timer`, `Sleep` | `devices/timer.c`: calibration and delays; `timer_sleep()` |

### Library

`Lists` (on prev and next pointers), `Hash`, `Bitmap` (on words), `Arith`
(64-bit division), `Stdlib` (heap sort and binary search), `Strings`, `Printf`.
Each is checked against a definition in terms of sequences, sets or arithmetic.

Names of operators and variables follow the code where TLA+ allows it. A
definition named `Mut...` is a variant of the one after it with a plausible
error; nothing uses it, and replacing its neighbour by it must break a
property.

### Modules for TLC

`Threads` and `Process` are checked as they are; `MCSynch` gives `Synch` its
locks and conditions. `MCPages` extends `Palloc` and `Pagedir`: a behaviour
takes steps of one of them, and the variables of the other keep their initial
values. `MCMachine`, `MCFiles` and `MCLive` each put several independent parts
into one state space: Init chooses `part`, the variables of that part are the
first of `v1`, `v2`, ..., and the rest stay 0. A behaviour is thus a behaviour
of exactly one part; a property of part x reads `part = "x" => X!Property`, or
the like for steps. `MCMachine` extends `Ide`, so that the property the run
checks of the driver is the one the proof is about, and `MCFiles` extends
`Filesys` in the same way; their variables keep their initial values in the
other parts.

## Runs that pass

Every property has a comment at its definition; a property named for a part
(`ListsRight`, `BlocksSound`, ...) joins all that is promised of it, its types
included. This is what the runs ask.

* **threads** (`Threads`): five thread pages, two semaphores with values up to
  2, slices of four ticks. No assertion of the scheduler fails, the one list
  element of a thread is never in two lists, no wake-up is lost, every blocked
  thread is accounted for, the run queue is first come first served, and the
  whole implements `Semaphore`. Five pages are the initial thread, the idle
  thread and three others: enough for one to run, one to be woken and one to be
  created or to die meanwhile.
* **synch** (`MCSynch`): four threads, two locks, two conditions on one of
  them. Locks have one owner, a signal reaches a semaphore that is still on a
  waiter's stack, no signal is lost, and the whole implements `Monitor`. Four
  threads are two waiters, a signaller and one that takes the lock in between.
* **process** (`Process`): the initial thread and two pages for up to three
  programs, so that a page is reused while a dangling parent pointer names it.
  Each child is recorded at most once, a recorded code is that child's, and a
  recorded code is final: nothing the child does later, and no process that
  gets its page, writes it again.
* **pages** (`MCPages`): two threads on pools of three pages and one page; two
  processes with a page each. No page is handed out twice although
  `palloc_free_multiple()` takes no lock, the page allocator implements
  `PageAlloc`, and no stale translation is used. The proofs below have the same
  properties for any numbers of threads and pages.
* **machine** (`MCMachine`), blocks and devices: two block sizes on three pages,
  of which none is handed out twice; queues of three bytes that wrap, with a
  writer and a reader and with two readers; console calls nested twice and
  panics three times; eleven keys; two threads on two disks, with all kinds of
  devices and one disk whose commands may fail; three interrupt lines; a tick counter
  whose low word wraps; every partition table of two entries on six sectors;
  calibration of about a thousand speeds, from 1024 loops a tick to a little
  over twice that, so that every way through the refinement loop is taken. The
  library, for all inputs up to a bound: four list elements with equal keys,
  five hash elements of which two are equal, all pairs of 8-bit operands with
  4-bit words (the algorithm is uniform in the width), arrays of up to six
  elements, memories of five bytes, the formats made of two argument types and
  all flags.
* **files** (`MCFiles`): two processes with up to three descriptors, both with
  descriptors of their own and with any (`fds_shared`); a file system of seven
  sectors with two names and one open file, with the machine stopping after any
  step and memory running out at any allocation; transfers across the sectors of
  a file of two and in one of half a sector; archives with stops;
  system calls with stack pointers on and across page boundaries. Sectors are
  never shared, counts of openers are right, sectors are lost only in a stop or
  where `filesys_create()` fails in `dir_add()`, the kernel makes the call the
  stub was asked for. Starting a program: command lines at and around the real
  limits; every segment in a 16-byte address space with 2-byte pages, pairs of
  segments, and every pattern of failing allocations. Images are right, nothing
  leaks, and the page directory in use is never a freed one. Archive names have
  up to three bytes, or the five the field holds. Seven sectors leave three
  beyond the four of the free map and the directory: an inode and its data, and
  one that a second file without data may take.
* **live** (`MCLive`): what must eventually happen. Ready threads run, the boot
  ends, a free lock with sleepers is taken, a signalled thread leaves
  `cond_wait()`, output drains, the disk channel and the pool lock are given
  back, sleepers return, and a panic halts.

Where `CHECK_DEADLOCK FALSE` stands in a cfg the system may stop:
all threads may sleep, the kernel may have panicked, or a bound
on created processes, ticks or bytes is reached. `MCMachine` and `MCFiles` check
deadlock: `MayStop`, and the last disjunct of Next in `MCFiles`, name the parts
that come to an end.

Some instances keep to what the callers in the repository do or to the case in
which the code is right, by a constant that says so: `Tidy` (processes close
their files before they end), `Alone` (command lines are parsed one at a time),
one member in `Proc` of `Filesys` (file system calls come one at a time), `Own`
(descriptors are one's own; `fds_shared` lifts it), and `Factors` of `Malloc`
(small products in `calloc()`). For `Tidy` and `Proc` a run below shows what
happens otherwise; for the others see the list of differences.

Symmetry is used for sets of threads, processes, pages and names (those in the
memory of processes together with their addresses) that the models never order, and only in runs that check invariants, step properties and refinements
without fairness. `View` in `MCMachine` and `MCFiles` drops fields that nothing
reads again (stale pointers of unlinked elements, unnamed inodes, the record of
the last transfer, which only step properties use).

### Fairness

Only `MCLive` states fairness. The timer ticks for ever, and an interrupted
thread is resumed: weak fairness of both. For the threads' own steps in the
part `threads` strong fairness is assumed, since a thread is enabled only while
it runs: a slice is long enough to get one step done. In the other parts each
thread that can go on inside a function is weakly fair, which is what
`WaitersRun` says of the part `threads`. The serial port sends what it holds
and the disk answers or times out; handlers of raised interrupts run, since
every section with interrupts off ends. No thread need make a call, no program
need end, and no disk need work without a fault.

## Runs that end in a violation

Each states what a comment, an assertion or a document says, and TLC shows a
behaviour of the code that does otherwise.

* **unblock_panics**: `process_wait()` sets `is_waited_by_parent` and blocks in
  two steps with interrupts on between them. A child that exits there calls
  `thread_unblock()` on a thread that is not blocked, which fails
  `ASSERT (t->status == THREAD_BLOCKED)` (`threads/thread.c:304`).
* **wait_status**: `get_exit_code()` returns the code of the first entry of the
  list, so a wait for the second child returns the status of the first.
* **filesys_race**: with two calls at a time, both may take one sector from the
  free map. `userprog/syscall.c:46` speaks of a lock for all system calls;
  nothing acquires it.
* **woken_early**: `process_wait()` looks a child up and sets its
  `is_waited_by_parent` with interrupts on in between (`get_thread_by_pid()`
  switches them on, `threads/thread.c:758`). The child may die there and its page
  go to a process of somebody else. That process then wakes its parent when it
  exits, although the parent waits for another child, which lives; the comment
  says "Waits for thread TID to die" (`userprog/process.c:251`). It takes four
  pages; to find it soon the run leaves out `exit()` calls with a code (`Code` is
  empty: programs end because they cannot be loaded or make a wrong call), and
  faults and failing allocations (`Calm`).
* **fds_exit**: `exit()` forgets open files and does not close them, against
  "close all the files opened" (`userprog/syscall.c:309`).

## Other differences met while modelling

The modules do what the code does here; no run states the promise.

* `thread_exit()` reads the flag and dies in two steps; a parent that sets it
  in between sleeps for ever (`threads/thread.c:353`).
* The loop of `exit()` over children (`userprog/syscall.c:338`) converts list
  elements to the wrong type; what it writes is outside the modelled state and
  it is modelled as leaving that state alone.
* `open()` looks at `removing_list` before it takes `fd_lock`, so a file that
  is being removed can still be opened (`userprog/syscall.c:465`); `close()`
  looks for other requests but not for other users of a file
  (`userprog/syscall.c:687`); a full `fd_list` leaves the file open
  (`userprog/syscall.c:490`); long console output repeats its first chunk
  (`userprog/syscall.c:554`).
* Two command lines parsed at once share one matrix (`userprog/process.c:35`).
* The overflow test of `calloc()` misses some wrapped products
  (`threads/malloc.c:165`).
* The second of two readers of an interrupt queue may find it not empty when it
  gets the lock, which `wait()` asserts it is (`devices/intq.c:46`).
* For an extended partition sector 0 is read again, so the scan nests until the
  stack ends (`devices/partition.c:91`).

## Proofs

Proved with TLAPS for all values of the constants that satisfy the named
assumptions. `Sched`, `Sema`, `Threads` and `Synch` assume that null pointers
are no threads or semaphores, that the initial thread is a thread, that slices
and values are positive, that `Thread` is finite, that each condition has one
lock, and that the semaphores of `Synch` are one for each lock and one for each
waiting thread. `ProcessAssumption` says that the initial thread is one of the
pages, that the bounds are natural numbers, and that `NULL` and `JUNK` (an exit
code nobody has written) are different from everything they are told from.
`PallocAssumption` says that sizes are natural numbers and that `NULL` is no
thread. `IdeAssumption` says that `NULL` is no thread, that sectors are natural
numbers of 28 bits, that disks hold values and which kinds of devices there are.
`Pagedir` assumes nothing.

* `SeqLemmas`: appending to and removing from lists without duplicates.
* `ThreadsProofs`: lemmas on what each operation of the scheduler does to each
  part of the invariant; with them, `IInv` of `Threads` is inductive. `NoPanic`,
  `ElemExclusive` and `OneRunning` are not inductive by themselves: that
  `thread_unblock()` meets a blocked thread depends on where that thread is. So
  `IInv` adds how the place of a thread determines its status (`PcStatus`), the
  semaphore it is in (`PcWaits`), the thread it is creating (`PcChild`), which
  thread is idle (`PcIdle`, `IdleAlive`) and how far the boot has come
  (`BootInv`). One lemma for each action. From it: `TypeCorrect`,
  `NoAssertFails`, `ElemShared`, `RunningUnique`, and `SemaphoreRefinement`
  (every step is a step of `Semaphore` or leaves its variables alone). Three
  results stand on top of `IInv`:
  * `WakeupsKept`, that a semaphore with sleepers has at most as many units as
    threads on their way to take one. The argument counts `Woken(s)`:
    `sema_up()` adds a unit and a woken thread, a pass takes both away, and a
    thread joins the list only at value 0.
  * `ThreadsAccounted`: who blocks is on a wait list, is being created or is
    the idle thread, and the list of all threads has the living ones. The proof
    restates the latter by places (`AllPlaced`), which only
    `thread_create()` and `thread_exit()` change.
  * `FirstComeFirstServed`: every step keeps the run queue, adds at its end or
    takes its front.
* `SynchProofs`: `IInv` of `Synch` is inductive. It adds to the promised
  properties what the place of a thread says about its lock (`PcLock`) and
  condition (`PcCond`), who sleeps on what (`Sleepers`), that a waiter off the
  list has its semaphore up or a signaller about to up it (`SignalState`), and
  that a thread that has not yet released its lock is last on its list
  (`LastJoined`). From it: `TypeCorrect`, `MutualExclusion`,
  `WaitersOutliveSignals`, `SignalsKept`.
* `MonitorProofs`: `MonitorRefinement`. An owner is the thread between the
  `sema_down()` and the `sema_up()` of the lock, whatever `holder` says in
  between; the queue leaves out a last waiter that has not yet released its
  lock. This makes `cond_wait()` atomic at its release although it takes five
  steps.
* `ProcessProofs`: `IInv` of `Process` is inductive. A pointer to a parent may
  lead to a page that is free or belongs to somebody else, so what the lists
  say rests on tids: no two pages have one, a tid not yet given has no parent
  and no end (`TidsUnique`), a child about to be recorded is the caller's and is
  not recorded yet (`Unrecorded`), and a process that has ended or left a status
  does not return to its program (`EndedGone`). From it:
  `ChildrenAlwaysRecorded` and `StatusWrittenOnce`.
* `PallocProofs`: `IInv` of `Palloc` is inductive. That a bit found reset is
  still reset when it is marked rests on the lock of the pool (`LockHeld`), on
  the pools being disjoint (`PoolFacts`, from the arithmetic of `palloc_init()`
  and `init_pool()`), and on frees only resetting bits: what a scan has passed
  stays reset (`Scanned`). `Progress` says how far a thread is in its group and
  that the group lies in the pool; `OwnedInPools` that a free finds the pool of
  its page. From it: `PagesNeverShared`, and `AllocatorRefinement`, in which the
  return of a group and the call of a free are the atomic steps.
* `IdeProofs`: `IInv` of `Ide` is inductive. A command that is under way is
  the one of the thread that holds the lock of the channel: where that thread is
  determines what the registers hold, what the disk does and whether an
  interrupt or a completion is outstanding, and without a holder nothing is
  outstanding at all. Before the channel is in use the same is said of the steps
  of detection. That a read returns what the sector holds needs that the
  registers `select_sector()` writes in four parts make up the sector again
  (28 bits). From it: `DisksAreSound`, which is all of `DisksSound`.
* `Pagedir`: the buffer agrees with the active directory, in the kernel too,
  unless that directory is the one to be invalidated (`Coherent`); from it
  `PagesKnown`.

Each invariant was checked with TLC on the instances above before it was
proved. `IInv` of `Process` is for `Page`, `Code` and bounds of any size; that a
parent is woken by the right death looked true on the instance of the run
process and is not, see woken_early.

Only model-checked, so shown for the instances given:

* Liveness, all of `MCLive`: the prover has no rules for fairness.
* The library, command lines, archive headers, `Load`, `Malloc`, `Serial`,
  `Inode` and `Archive`: what they promise is about recursive functions of their
  data (sequences of bytes, blocks in an arena, images of segments), and needs
  induction over that data, which the installed provers cannot do.
* `Filesys`: its invariant joins the free map, the directory, the inodes on
  disk and in memory and the place of a call, and it is changed by some thirty
  steps; the proof is too large for a module that the prover can check in
  reasonable time.
* `Fds`, `Syscall`, `Intr`, `Console`, `Kbd`, `Partition`, `Timer` and `Sleep`:
  no proof has been written.

## Not modelled

* Boot code, `init.c`, the loader, the context switch, descriptor tables and
  task state: they run once before there is anything to interleave with, or
  move registers; the models start after them or take them as one step.
* The display, the interval timer and speaker, the real-time clock, shutdown:
  writes to and reads of ports with no state that anything else depends on.
* Random numbers, backtraces, names of partition types, statistics, the text of
  messages.
* The user library apart from its stubs, the example programs and the utilities
  for the host: to the kernel they are calls in any order, which `Syscall`,
  `Fds` and `Process` make.
* Inside modelled parts: `hash_apply()`, `hash_destroy()` and the hash functions
  themselves, `print_human_readable_size()`, `dir_readdir()`, the reopen
  functions, `file_read_at()` and `file_write_at()`, `fsutil_ls()`,
  `fsutil_cat()` and `fsutil_rm()`, registration of interrupt handlers, roles
  and statistics of block devices. Each reads only, is not called, or is a
  sequence of modelled calls.
* Priorities are stored and never used by this scheduler; the advanced
  scheduler's functions are not implemented in the code.
