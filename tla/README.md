# TLA+ models of the Pintos-KAIST kernel (week_10)

The repository holds three snapshots of one teaching kernel (`src/week_08`,
`src/week_09`, `src/week_10`). Each contains the work of the one before;
`week_10` is the one modelled, and every path below is relative to
`src/week_10`. The kernel runs on one processor. A section of code with
interrupts off is atomic; everywhere else the timer may switch threads.
The build has assertions on, so a failed `ASSERT` is a kernel panic.

## 1. Inventory

| part | state | operations | what is hard | correct means |
|---|---|---|---|---|
| kernel lists (`lib/kernel/list.c`) | intrusive doubly linked lists | insert, ordered insert, sort, remove, front | one `elem` serves several lists | elements neither lost nor duplicated |
| scheduler (`threads/thread.c`, `threads/interrupt.c`) | `ready_list`, `priority`, `status` | block, unblock, yield, comp_ready, set_priority, preemption | keys change under a sorted list; interrupt context | an element is in one list, which `status` names; the highest priority runs |
| donation (`thread.c`, `synch.c`) | `init_priority`, `wait_lock`, `dona` | donate, remove_with_lock, refresh_priority | chains of holders, interrupts are on | the holder inherits; the donation ends with the lock |
| semaphores, locks (`threads/synch.c`) | `value`, `waiters`, `holder` | down, try_down, up, acquire, try_acquire, release | woken waiter against newcomer; windows where `holder` is NULL | exclusion, no lost wake-up, wake by priority |
| condition variables (`synch.c`) | list of one-shot semaphores | wait, signal, broadcast | release and sleep are two steps | no lost signal; highest waiter first |
| alarm (`devices/timer.c`, `thread.c`) | `sleep_list`, `ticks`, next wake-up tick | timer_sleep, thread_sleep, thread_awake | handler against sleeper; the cached minimum | nobody sleeps past the tick, nobody wakes before |
| interrupt queues, serial port (`devices/intq.c`, `serial.c`, `input.c`) | rings, waiting thread, enable register | getc, putc, flush, interrupt | full and empty, handler and thread, panic | bytes in order; no sleeper left behind |
| processes (`userprog/process.c`) | `child_list`, three semaphores, `exit_status` | fork, exec, wait, exit | a parent reads a child that is being freed | wait returns the status once; nothing dead is touched |
| system calls, file descriptors (`userprog/syscall.c`) | `file_descriptor_table`, `fdidx` | open, close, read, write, ... | table bounds, shared files after fork | a descriptor names one open file |
| program loading (`userprog/process.c`) | the new address space, `argv`, the first stack page | split the line, read headers, enter segments, lay out arguments | 32-bit sums, pages shared by file and zeros, page faults of the kernel | segments where the headers say, `main` gets its arguments |
| virtual memory (`vm/*.c`) | page tables, `frame_table`, swap bitmap | claim, fault, evict, swap, fork copy, mmap | frames shared by no two pages; eviction of another's page | contents of a page survive eviction |
| page and block allocators (`threads/palloc.c`, `malloc.c`) | bitmaps, descriptors, free lists, arenas | get, free, realloc | pages are freed without the lock; arenas freed when empty | no page or block is lost or handed out twice |
| page tables (`threads/mmu.c`) | trees of pages, `cr3`, TLB | create, set, clear, destroy, activate | allocation fails half-way; a timer interrupt in `process_cleanup` | a map of addresses; the processor never uses freed tables or stale entries |
| file system (`filesys/*.c`) | open inodes, free map, directories | create, open, close, remove, read, write | no lock in some paths; partial failure | sectors have one owner; removed files live until closed |
| disk (`devices/disk.c`) | channel lock, completion semaphore | read, write, interrupt | expecting or spurious interrupt | one request at a time gets its own completion |
| hash table, bitmap (`lib/kernel`) | buckets, bits | insert, find, delete, rehash; scan, flip | rehash limits; scan at the end | behaves as a set |
| boot, descriptors, console, formatting, user library | - | - | - | not modelled: sequential set-up and pure I/O |
| FAT, page cache | - | - | - | not modelled: the code is a skeleton |

Interaction: devices interrupt and up semaphores; system calls run in kernel
threads and take `filesys_lock`, allocator locks and disk locks; every wait in
the kernel ends up in `sema_down`, so the scheduler with semaphores and locks
is the core and was modelled first.

## 2. Plan

| module | models | composes | state |
|---|---|---|---|
| `KernelLists` | list operations | - | done |
| `ThreadSched` | ready list and switch | `KernelLists` | done |
| `PriorityLocks` | semaphores, locks, donation, preemption, `thread_set_priority` | `ThreadSched` | done |
| `Mutex` | what locks promise | refined by `PriorityLocks` | done |
| `Monitor` | condition variables | `PriorityLocks` | done |
| `Alarm`, `Timers` | sleeping and the timer, and what an alarm clock promises | `ThreadSched` | done |
| `ProcessLife` | fork, wait, exit | - | done |
| `IntQueue`, `Serial`, `Stream` | interrupt queue, serial port and input, and their promise | - | done |
| `Frames` | supplemental page table, frames, swap, mmap | - | done |
| `Inodes`, `FileCalls`, `FileStore` | disk layout and inodes, the calls and descriptors over them, and what a file system promises | `FileCalls` extends `Inodes` | done |
| `DiskChannel`, `AtomicDisk` | requests and completions of an ATA channel, and their promise | - | done, refinement proved |
| `PagePool`, `Malloc`, `PageTables`, `AddressMaps` | the kernel pool and its two users, and what page tables promise | `Malloc` and `PageTables` extend `PagePool` | done |
| `HashTable`, `KeyedSet` | the hash table and its promise | - | done |
| `KernelMemory` | heap, page tables and hash table on one pool | the three modules above | done, all proved |
| `Loading` | from the command line to the first instruction of a program | - | done |
| `ListSort` | the merge sort, against `Sorted` of `KernelLists` | `KernelLists`; extended by `PriorityLocks` | done, proved |

Section 13 says what is proved: every invariant and safety property of the runs, but for
the one exception it names at its end.

The set of runs is kept to a dozen: one per component or group of components
that share state, and two for disagreements between the code and what its
comments and tests say (`V_WaitReturnsStatus`, `V_ForkReturns`, section 6). The other disagreements are told in the
sections below. Each run has an `MC` module that gives the constants their values and, where several
uses of a component share a run, says which there are: `MCContended`, `MCLockUses`, `MCKernelMemory`.

A run checks the invariants of a component as one conjunction, which is also what
the proofs establish, and the sections below speak of its parts:

| checked | parts |
|---|---|
| `LockInv` | `TypeOK`, `AtLabels`, `HolderClear`, `LockExclusive` |
| `MonitorInv` | `MonitorTypeOK`, `WaiterState`, `LockOnReturn`, `SignalSorts` |
| `AlarmInv` | `TypeOK`, `SleepersBlocked` |
| `ProcessInv` | `TypeOK`, `SemasFollow`, `OneTracker`, `TrackedStay`, `DestroyDying`, `ParentHeld` |
| `SerialInv`, `CallsServed` | `TypeOK`, `SleeperRegistered`, `IerCurrent`, `SleeperServed`; `WriterServed`, `ReaderServed` |
| `FramesInv`, `MemoryKept` | `TypeOK`, `FrameOfOnePage`, `SlotOfOnePage`; `ContentsKept`, `MappedSaved` |
| `FilesInv` | `TypeOK`, `SectorsOwned`, `InodesAgree`, `CallUnderway`, `FdsOfLiving`, `OpenCounts`, `ReadsContent` |
| `ChannelInv` | `DiskTypeOK`, `InterruptsOwed`, `AnswerComes`, `TransferMatches`, `OneRequest`, `DriveFollows`, `RequestsGoOn` |
| `PoolInv`, `HeapInv`, `ProcessorInv` | `TypeOK`, `PagesOwned`, `FramesOwned`; `BlocksDisjoint`, `ArenaCounts`, `ContentsKept`, `LocksReleased`, `CallsGoOn`; `TlbCurrent`, `ActiveTreeWhole` |
| `ImageLoaded` | `LoadTypeOK`, `UserPages`, `SegmentsLoaded` |

## 3. Locks and the scheduler

`ThreadSched` has the scheduler functions as operators on a record
`k = [cur, status, ready]`; `PriorityLocks` adds the data of `synch.c` and one
program counter per thread. `lock_acquire`, `lock_release` and
`thread_set_priority` run with interrupts on and are cut at every access to data another thread writes:

    lock_acquire         AcquireTest, AcquireRead, AcquireInsert, per round of dona_priority
                         DonateTest, DonateHolder, DonateGive, then AcquireDown [Retry], AcquireOwn
    lock_release         ReleaseStart, RemoveWithLock, RefreshReset, RefreshRaise, ReleaseUp
    thread_set_priority  SetPriority, SetRaise

A thread may so be switched out between the two reads of `wait_lock` of a round, between reading
`holder` and writing its priority, or with the priority already lowered to `init_priority` and its donors
not looked at yet. `refresh_priority` writes `priority` once more at the end (`RefreshRaise`),
in one step with the sort of its donors.

`Preempt` is the yield that the timer interrupt makes on return, `InterruptUp` a
`sema_up` from a device's handler. A thread switched out in `sema_down` resumes in
its loop with interrupts still off, so `Preempt` is disabled at "retry".

`dona` lists: they link `dona_elem`, but are ordered by `more`, which subtracts the
offset of `elem`. With the layout of `struct thread` (`dona_elem` is 64 bytes after
`elem`, `priority` 16 bytes before `elem`) it compares the low half of
`dona.tail.prev`, which points to the last donor or to the list's own head. As
every thread structure starts a page of its own, that order is the order of pages,
which the constant `Addr` gives (`DonaKey`).

Abstractions: a list operation is one step even where interrupts are on
(`remove_with_lock`, the insertion into `dona`), so lists torn by a switch in the
middle of a pointer update are not explored; a kernel that has faulted
(`fault`) stops; clients do not nest locks in a cyclic order (`Order`), which is a
rule of the callers and not of `synch.c`; thread creation and exit are left to
`ProcessLife`.

| run | question | bounds |
|---|---|---|
| `LocksContended` | exclusion, refinement of `Mutex`, lost wake-ups, list elements, wake order; signals and broadcasts of a condition (section 4) | two uses (`MCContended`): 3 threads of 3 priorities, 2 locks, 1 event, only `t1` loses its time slice, `lock_try_acquire` of `l1`, and calls of `thread_set_priority`: `t1` of 1 and `t2` of 2, their own, which goes through `refresh_priority` with the donors they have, and `t3` of 2 (`New3`); 3 threads of equal priority, 1 lock and 1 condition, `t1` and `t2` lose their time slices anywhere |
| `LocksLive` | strict priority without donation; is a freed lock taken again; the merge sort (section 11) | two uses (`MCLockUses`): 3 threads that set any priority, 2 events with up to 2 units; 3 threads of equal priority on 1 lock, `t1` and `t2` preempted anywhere and `t3` only outside `synch.c` |
Three threads are what a chain of donation with an intruder needs (holder, waiter,
and one that runs in between); two locks are what a chain needs. `Sliced` bounds who
may be preempted: a thread that is not in it still loses the processor
whenever it blocks or wakes a higher priority. `MaxUnits` bounds how far clients
up an event.

Fairness (`Fairness`, in `LocksLive`): weak for the code of `synch.c` and for the idle loop, because
the processor executes the running thread; strong for `Preempt`, because the timer
is periodic and a thread that returns to code with interrupts on is hit
sooner or later. Clients get none: one may keep a lock for ever.
`FreedLockTaken` needs equal priorities: a busy thread of higher priority starves
the others by design.

Where the code disagrees with its comments: `holder` is read a second time and may
be NULL by then (`synch.c:212`, fault `NullHolder`), while `synch.c:194` says that
`lock_acquire` sleeps until the lock is available; donors are ordered by address
(`thread.c:653`), while `thread.c:650` speaks of the highest priority; `sema_up` in a
handler must yield (`synch.c:131`, fault `YieldInIntr`, the same assertion that
`thread_awake` meets at `thread.c:192`), while `synch.c:111` allows the call there. The
model stops at the two faults. Also seen: a donation
raises a ready thread and leaves the ready list in its old order, so a lower one
is picked first (`thread.c:624`); a donor whose holder released in between stays
linked in a list nobody cleans and may be linked twice (`synch.c:212`); the
donation of a thread that comes between `sema_down` and `holder = t` is lost
(`synch.c:218`).

## 4. Condition variables

`Monitor` extends `PriorityLocks` with one condition. `cond` is `condition.waiters`,
each element standing for the thread whose stack it is on; the one-shot
semaphore of thread `t` is the event `Waiter[t]`. `stage` says where a thread is in
`cond_wait` (`CondWait`, `CondSleep`, `CondReacquire`, `CondReturn`) or in
`cond_broadcast`, and the steps inside `lock_release`, `sema_down` and `lock_acquire` are
those of `PriorityLocks`. All of it runs with interrupts on, so threads switch
between releasing the lock and sleeping. Clients of `cond_signal` hold the lock,
as its assertion demands.

The second use of `LocksContended` (3 threads of equal priority, 2 of them preempted anywhere): a
waiter is on the list or has been signalled exactly once, the window included
(`WaiterState`); the lock is held on return and given up while waiting
(`LockOnReturn`); a broadcast leaves nobody behind although others run between its
signals (`BroadcastWakesAll`). That all threads wait for a signal nobody sends is no deadlock of the
kernel (`AllWait`). `sema_more` reads priority 0 for a waiter that has
released the lock and does not sleep yet, so such a waiter is not woken in the
order of priority; with equal priorities that makes no difference here.

## 5. Alarm clock

`Alarm` keeps `wakeup_time - ticks` per thread instead of the clock. `timer_sleep` is
two steps, `ReadTicks` and `ThreadSleep`, with ticks allowed in between. `Tick` is the
whole timer interrupt: the tick, the time slice of `thread_tick`, and `thread_awake` with
one `thread_unblock` per sleeper that is due (`Awaken`). A woken thread with priority
over the interrupted one makes `thread_awake` yield in the handler, which fails
the assertion of `thread_yield`: `panic`, after which nothing runs.

`AlarmClock` (3 threads, one of lower priority; sleeps of -1, 0, 1 and 2 ticks;
`TIME_SLICE` 4 as in the code) shows that the code implements `Timers`, where a
sleeper is awake in the tick it asked for and in no earlier one; that sleepers
are blocked and in one list; and round-robin among threads of the top priority
(`GetsProcessor`). Two sleepers due in one tick, and a wakeup time that passes before
the thread sleeps, both occur within these bounds. 
Here the code and a test part: `thread_sleep` blocks whatever it is given, so a
`timer_sleep(0)` waits for the next tick, while `tests/threads/alarm-zero.c:1` calls it
"timer_sleep(0), which should return immediately". The test passes all the same, since it
only waits for the call to end. `ImplementsTimers` takes neither side:
a sleep of 0 or less (`noTime`) is no sleep of `Timers` (`DueIn`). The other sleepers are
promised their ticks whoever else makes such calls, and `AlarmInv` and
`GetsProcessor` cover these calls too; of a negative one `alarm-negative.c:1` wants only that it not crash.

Fairness: the timer is periodic. It is stated as `[]<>panic \/ []<><<Tick>>_vars`, which is
weak fairness of `Tick` because a tick is possible until the panic. Threads need
not do anything, except that the processor executes `thread_sleep` and the idle loop.

## 6. Processes

`ProcessLife` has one program counter per thread; its labels name what comes next:

| label | code |
|---|---|
| `fork_down` | `process_fork` at `sema_down (&child->sema_fork)` (141) |
| `wait_down`, `wait_remove`, `wait_up`, `wait_read` | `process_wait` 351, 352, 353, 359 |
| `exit_wait`, `exit_fork`, `exit_free` | `process_exit` 384, 385, 386 |
| `exit_last`, `dying`, `freed` | end of `thread_exit`, in `destruction_req`, page freed by a later `do_schedule` |

All processes have one priority, so the model needs no ready list: any thread
that is not asleep may make the next step. `Yield` is `do_schedule`, which frees what
is in `destruction_req`; `thread_block` does not go through it. A freed page is
filled with 0xcc by `palloc_free_multiple`: `Poison`.

What the code does and a reader may not expect: the `sema_up` calls of `__do_fork` are
commented out (260, 270), so `process_fork` returns when the child *exits* (385), and a
parent never runs beside its child. An orphan sleeps on `sema_free` for ever. Killing by an
exception goes through `thread_exit` and leaves `exit_status` 0.

`ProcessFamily` (4 threads: the initial one and three processes, which siblings,
grandchildren and orphans need): no walk of `child_list` meets a freed thread
(`ChildrenAllocated`), a parent stands still while its child is being made (`ParentHeld`, which says nothing of the time after),
somebody can always run (`NeverStuck`, of the three semaphores of a thread), and under fairness parents resume
(`ParentResumes`) and collected children are freed (`CollectedFreed`). Fairness is weak for
the kernel code of each process and for the timer; user programs have none.
`V_ForkReturns`: under the same fairness a parent does not get out of `process_fork` once the child has been
made and runs (`ForkReturns`), although the comment at `userprog/process.c:261` says of the line commented out that the
child is made and goes on, and tests such as `tests/vm/page-parallel.c:1` ("Runs 4 child-linear processes at
once.") count on it; with a child that never ends, the parent never returns.
`V_WaitReturnsStatus`: the status is read after the child was let go, from a page that
may have been freed. A killed process is reported as 0 (`userprog/exception.c:89` leaves
`exit_status` alone), while `userprog/process.c:319` promises -1; no run is spent on that.

Left out: that `process_exit` closes the files of the process first (375-378), under `filesys_lock`. `ThreadExit` takes
that for a step that succeeds; where the lock was lost (`CloseConsole`, section 9) it blocks for
ever, and then the parent does, too, which `ParentResumes` does not exclude: its promise begins when the
child has got past its files (`Finished`). Also left out: what `__do_fork` copies (memory, see section 8; files, section 9), a failing first
`exec`, which panics, and `thread_create` without memory, which returns and changes
nothing.

## 7. Serial port and input

`IntQueue` has the ring buffer of `intq.c` as operators, indices and waiting thread
included. `Serial` uses two of them: `txq` and the input `buffer`. Its actors are the
thread that holds the console lock and prints, a thread in `input_getc`, the serial
and keyboard interrupts, the UART, and `debug_panic`, which prints with interrupts
off and then flushes. Bytes are numbered, so that the two directions can be
compared with `Stream`, where the n-th byte out is the n-th in.

`serial_init_queue` sets the mode with interrupts on and writes the enable register in a section of its
own, so there are a step for each (`InitQueue`, `EnableQueue`) and a mode "starting" in between. The UART
takes a byte from the line only when the one before has been read (`Receive`): a line that overran the receiver
would lose bytes in the hardware, before the code could see them.

`SerialPort` (rings of 3 positions, 2 usable; 4 bytes printed, 3 by a panic that may
strike anywhere, 3 received, any number of keys): `OutputDelivered` is the
refinement of `Stream` with its fairness, across polling, interrupts and panic;
`InputInOrder` the one for input; `IerCurrent` relates the enable register to both queues;
`SleeperRegistered` is the absence of lost wake-ups; `WriterServed` and `ReaderServed` are
the two handshakes that need the interrupt. Two usable places and a panic of
three bytes make the queue full, empty and wrap in every phase. Fairness: the
UART and its interrupts, the panic, and a thread that was woken inside a call.

One writer and one reader: writers hold `console_lock`, and `input_getc` has no caller
in this kernel, so it is modelled as the operation it offers. A second thread in
`intq_getc` would get `intq.lock` after a byte has come and fail the assertion of `wait`.

## 8. Virtual memory

`Frames` is one program from `load` to exit. A virtual address is its page number
and a page holds one value. `page` is the supplemental page table, `frame`,
`accessed` and `dirty` the page table of the processor; `frame_table` is `1..used`, since
frames are never given back while the program runs. `memory` and `unmapped` are history
variables: what the program last wrote, `Unknown` where it wrote nothing yet (a new
stack page holds whatever its frame held), and the pages `munmap` was called for.

| action | code |
|---|---|
| `Claim` (in `Fault`, `StackGrowth`) | `vm_do_claim_page`: `vm_get_frame`, the victim's `swap_out`, `pml4_set_page`, `swap_in` |
| `Victim`, `Passed` | the second-chance walk of `vm_get_victim`, from `start` |
| `Fault`, `StackGrowth` | the two branches of `vm_try_handle_fault` |
| `Mmap`, `Munmap` | `do_mmap`, `do_munmap` |
| `Exit` | `supplemental_page_table_kill`, with its `do_munmap` per file page |
| `Read`, `Write` | the program; dirty and accessed bits are kept where the code asks for them |

`AddressSpace` (5 pages: one segment, a file of one full page and a rest, a stack of
up to three; 2 frames, 2 slots): every page that is not unmapped reads as it was last
written, wherever it is (`ContentsKept`); the page table, `frame_table` and the pages agree (`FrameOfOnePage`);
slots are taken exactly while a page is in them (`SlotOfOnePage`); at exit files have every
write to a page that was mapped, whether it was evicted, unmapped or neither (`MappedSaved`); no accessed page
is evicted before one that is not (`SecondChance`). The program writes both values to a file while it is mapped, only 0 to what
`munmap` has left and only 1 elsewhere (`Written`). With these bounds every page gets
evicted, the slots run out, the stack meets the mapping, and after `munmap` a
page is left with two frames. Bytes of a mapped page beyond the end of its file
are not kept by the code: eviction drops them, and `ContentsKept` leaves them out.

The code has no answer in three situations. `Frames` goes to `state = "broken"` there
(`Damage`) and stops. The code goes on, with wrong contents in the first case: that is a part of
its behaviour that is not modelled, and no property says anything of it.

- The swap disk is full. `anon_swap_out` returns false (`vm/anon.c:86`), `vm_evict_frame`
  does not look (`vm/vm.c:195`, `202`), and the frame is given away while still mapped, so
  two pages share it.
- `do_munmap` (`vm/file.c:146`) goes on to the first address without a page, and takes
  pages of segments or the stack that are adjacent for pages of the file.
- `vm_alloc_page_with_initializer` panics where a page exists (`vm/vm.c:114`): `do_mmap`
  creates one page too many when the length is a multiple of the page size
  (`vm/file.c:112`), and the stack may grow into a mapping.

`do_munmap` leaves the pages in the supplemental page table, so the region can still
be read and written after `munmap`: `Fault` loads it again, and writes reach the file. `tests/vm/mmap-unmap.c:1` says
that the region "is inaccessible", so no property promises anything of these accesses: `ContentsKept`
leaves unmapped pages out, and a page that is written to after `munmap` is `Unknown` for `MappedSaved`, too. The
steps stay in the model, because they take frames and leave pages with two of them. `anon_initializer` ends without the
`return` it had; built with `-O0` its caller sees the low byte of the address of the
union, which is 72 or 200 for a `struct page` from `malloc`, so the result is true.

Left out: a second process. `frame_table` has no lock, a new frame has no page
yet (`vm/vm.c:318`), a victim is looked up in the page table of the faulting
process, `exec` and exit leave `frame_table` pointing at freed pages, and a fork copies
from pages that may be swapped out; with two processes none of the properties holds.
Also left out: write protection, and a lazy load whose read fails (section 12 has it).

## 9. File system

`Inodes` is the disk with its layout (`filesys/inode.c`, `free-map.c`, `directory.c`,
`filesys.c`): sectors, free map, root directory, and the list of open inodes.
`FileCalls` extends it with the file objects, the descriptor tables and the system
calls. `FileStore` is the promise: names, files that live as long as they are named
or open, their cells, and a power failure that closes files and loses nothing
else.

| steps | code |
|---|---|
| `CreateSector`, `CreateData`, `CreateInode`, `CreateZeros`, `CreateEntry`, `CreateUndo` | `filesys_create`, with `inode_create` and `dir_add` |
| `Open`, `Close`, `Read`, `Write`/`WriteChunk`/`EndWrite`, `Seek`, `Remove` | the calls of `syscall.c` down to the sectors |
| `CloseInode`, `ReleaseInode`, `ReleaseData` | `inode_close` |
| `StartProgram`, `Exec`, `Mmap` | `load` and `do_mmap`, which open a file and never close it (`held`) |
| `Fork`, `Exit`, `ExitClose`, `ExitDone` | `__do_fork` copies the table with `file_duplicate`, `process_exit` closes it |
| `Crash` | power failure, `halt` and panics: memory goes, the disk stays |

Each write to the disk is a step, so that the machine may stop between any two.
The processes are a stack of which the top runs: a parent is in
`process_fork` until its child has ended (section 6), the kernel runs one program, and
so calls of two processes do not interleave, however little of the file system
`filesys_lock` covers. Sector 0 stands for what `do_format` lays out; a free map of
up to 4096 bits is one sector and is written as a whole, so its copies
in memory and on the disk are one variable.

`FileSystem` (6 sectors of 2 cells, 2 directory entries, 2 names, 2 processes, one
descriptor each from 2 to `MaxFd`-1, up to 2 creations and 2 opens without a
close; lengths -1, 0, 1 and a first file of 3 cells, which takes two sectors):
sectors have one owner at every moment at which the machine may stop
(`SectorsOwned`); the disk, the inodes in memory and the call in progress agree (`InodesAgree`,
`CallUnderway`); open and deny counters match the file objects (`OpenCounts`); reads
return what the file has (`ReadsContent`); sectors are only lost where `LostOnlyThere`
says; a file that denies writes is unchanged until the last denying descriptor is
closed (`DeniedUnchanged`); and the whole refines `FileStore` (`ImplementsFileStore`). The
bounds make the disk and the directory full, a file be removed while parent and
child have it open, and its sectors be used again.

What the code does and a reader may not expect:

- A creation that fails at `dir_add` loses the data sectors (`filesys/filesys.c:72`).
- `close` of descriptor 0 or 1 faults in `file_close` with `filesys_lock` held
  (`CloseConsole`); the lock is lost with the process, and later opens and
  writes block for ever.
- `load` and `do_mmap` never close their file. A program that is removed never frees its
  sectors.
- `open` searches for a descriptor from the last one given out and never goes back.
- `tell` ends the process whatever file it is given (`userprog/syscall.c:427`).

## 10. Disk

`DiskChannel` is one ATA channel (`devices/disk.c`) with its lock, its two drives, the
completion semaphore and the interrupt line. `req[t].at` says where a thread is in
`disk_read` or `disk_write`: `acquire`, `select` and `sector` (`select_sector` with its two
`wait_until_idle`), `command`, `await` (`sema_down`), `busy` (`wait_while_busy`), `data`, `release`.
The drives are external and modelled from the registers the driver uses: a read
interrupts when data are ready, a write asks for data without an interrupt and
interrupts when they are stored, reading the status clears the interrupt.
`AtomicDisk` is the promise: each request takes effect at one moment between call and
return.

`DiskRequests` (2 threads, 2 drives of 2 sectors, 2 values, three requests, one
spurious interrupt): the thread transfers the sector it asked for and the drive
never fails to ask for data (`TransferMatches`); interrupts and units of the semaphore
never exceed what the request in progress and spurious interrupts account for
(`InterruptsOwed`); one request at a time is on the channel (`OneRequest`) and the drive
is where the thread that has the lock takes it to be (`DriveFollows`); requests are atomic (`ImplementsAtomicDisk`) and return
(`RequestsReturn`). Requests stop at their bound, so the run does not check for deadlock.
Fairness: threads are scheduled, the drives answer, interrupts are delivered, each
weak.

`expecting_interrupt` is set by `issue_pio_command` and never cleared (`devices/disk.c:431`), so
after the first request any interrupt is expected. A spurious one then ends the
wait of a later write before the drive has stored the data, while the comment at
`devices/disk.c:230` says that `disk_write` returns after the disk has acknowledged them. The
next request waits until the drive is idle, which is why the properties hold with
spurious interrupts, too; a power failure in between would lose the write.

Left out: detection and reset of drives, which run once at boot with nobody else,
and the time limits of the polling loops: 30 seconds in `wait_while_busy`, and 1000 times 10 microseconds in
`wait_until_idle` (its comment says 10 seconds), which then prints a line and goes on with a drive that is
not idle. The drive is assumed to answer in that time; what a slower one would do to the next
command is not modelled, so the properties, `TransferMatches` after a spurious interrupt among them, say nothing of it.
The threads have one priority: otherwise the `sema_up` of the handler can reach
`thread_yield` and fail its assertion that it is not in an interrupt (`threads/thread.c:448`), a panic that
`PriorityLocks` models as `InterruptUp` with `YieldInIntr` and that would end every run of this module.
## 11. Kernel memory, hash table, sort

`PagePool` is the kernel pool of the page allocator: a set of taken pages, the lock,
and per actor the pages its call works on. Taking is two steps under the lock
(`GetScan`, `GetFlip`), giving back is a fill with 0xcc and then one step per bit, without
the lock, as in `palloc.c`. Two clients build on it:

| module | steps | code |
|---|---|---|
| `Malloc` | `Alloc`, `AskPages`, `GotPages`, `Pop`, `Return` | `malloc`, `calloc`, the first half of `realloc` |
| | `FreeClear`, `FreePut`, `FillPages`, `ClearPages` | `free`, and the end of `realloc` |
| `PageTables` | `Create`, `SetPage`, `Walk`, `GotPage`, `Unwind`, `Unlink` | `pml4_create`, `pml4_set_page` with `pml4e_walk` and its failure |
| | `ClearPage`, `SetDirty`, `SetAccessed`, `Access` | entries of a process and the processor that uses them |
| | `Cleanup`, `ActivateBase`, `DestroyNext`, `Destroyed`, `Switch` | `process_cleanup`, `pml4_destroy`, `process_activate` |

`HashTable` is `hash.c` call by call: buckets, `elem_cnt`, and a `rehash` whose
allocation may fail. `KernelMemory` puts the three on one machine. `load` chooses who
is at work: two threads on the heap; two processes that build and destroy trees; one
process whose tree fills the pool and that uses its memory; a thread and a process
on one pool; or the table. That is a bound, and every property is about all five.

`KernelMemory` (up to 5 pages of 4 units, headers of 2, so that an arena has two
blocks and a big block has two pages; up to 3 blocks; 2 addresses that share the
first two levels, 2 frames; 6 elements with 5 keys that collide): pages and frames
have exactly one owner between any two steps (`PagesOwned`, `FramesOwned`); blocks are
disjoint, in valid arenas, and free or handed out (`BlocksDisjoint`); counters match the
free lists and empty arenas go back (`ArenaCounts`); contents survive what others
allocate, free and copy (`ContentsKept`); the TLB is never behind the tables
(`TlbCurrent`); the active root is never a freed one (`ActiveTreeWhole`); the trees refine
maps of addresses (`ImplementsAddressMaps`), the table a set (`TableSound`, `ImplementsKeyedSet`).
The pool runs out at every level of a walk within these bounds, arenas become
empty while another thread waits for the descriptor, and the table grows, shrinks
and fails to. Actors of a kind are interchangeable, which the symmetry of the run
uses; no liveness is checked there.

Abstractions: what happens under a descriptor's lock is cut only at calls of the
page allocator; a page table entry is read and written in one step, whole: `pml4_set_dirty` and `pml4_set_accessed` mask it with a 32-bit constant
(`threads/mmu.c:288`, `318`), which clears the upper half of the entry as well, and that changes nothing but the dirty or
accessed bit while frames lie below 4 GiB and no upper bit is set, as here; frames of the
user pool are taken and freed in one step, as `PagePool` shows for pages; sizes
are scaled down with the page; `calloc` differs from `malloc` in what `mem` holds, and its
zeroes count as data. User addresses are those of entry 0 of the root, the only
one that `pml4_destroy` frees. When a walk fails, a node is back in the pool
before the entry that leads to it is zeroed (`threads/mmu.c:52-53`): in between the
entry may lead into a node of another process, which nobody follows, and the
refinement mapping leaves it out (`Live`). `calloc` looks for overflow with
`size < a || size < b` (`threads/malloc.c:155`), which does not find every overflow; the
model has no sizes of that kind.

`ListSort` is `list_sort` as it works, runs and merges in place: each of its loops is the
function from the number of rounds to what they have done. `MergeSortAgrees`, in the run
`LocksLive`, says that the passes end with one run and give the stable order that `Sorted` of
`KernelLists` defines, for every list of up to 5 elements with 3 priorities and for the
waiters and donors of every reachable state; `SignalSorts`, in `LocksContended`, for the waiters of
the condition. Section 13 proves it for lists of any length. The actions use `Sorted`.

## 12. Program loading

`Loading` is `load` (`userprog/process.c`, built with `VM`) from the command line to the
registers of the new program, one step per word, program header or push:

| step | code |
|---|---|
| `Create`, `Open` | `pml4_create`; `filesys_open` and the ELF header |
| `Token` | one call of `strtok_r`, which writes a NUL into the line |
| `ProgramHeader` | one round of the loop 555-604: `validate_segment`, `load_segment` |
| `SetupStack` | `setup_stack` |
| `PushString`, `PushNull`, `PushPointer`, `PushReturn` | 622-662 |
| `Touch` | the program touches a page: `vm_claim_page`, `lazy_load_segment` |

A push is a `memcpy` or `memset` to user memory: where no page is in memory, the kernel
faults and `vm_try_handle_fault` reads the page, grows the stack or ends the process
(`Fault`), and the push starts again. `present` are the pages in memory; a page whose bytes
the file does not have (`Whole`) cannot be read, and the fault fails. `Found` is what
`lazy_load_segment` puts at an address: the byte of the file, known by its offset, zero, or
nothing, where it fails; `Promised` is the same by the program header alone.
`uint32_t` and `uint64_t` sums are taken modulo `CountRange`
and `AddressRange`.

`ProgramLoading`: pages of 16 bytes, pointers of two bytes of 16 values, user space up
to 128, the stack from 112 down, `uint32_t` to 63. 5700 single segments take every
position of start, file end and memory end within a page and at the limits of file,
user space and `uint32_t`; pairs of segments overlap, share a page or are refused;
command lines are all those of up to five bytes, two that need more than one
stack page, and one with more words than `argv` has elements. Pages of a program
that starts lie in user space, above page 0, and hold the file and zeros the headers ask
for; one that lacks bytes of its file is never in memory, not even when the program
has touched it (`ImageLoaded`); `main` finds its words in order, whole, NUL-terminated
and with a NULL behind them (`ArgumentsPassed`). Every load ends, so deadlock is not
checked.

What the code does and a reader may not expect:

- `argv` and `address` have 64 elements and nobody counts the words; the model stops there
  ("overrun").
- The file opened is the line from its start: with a space in front, `load` looks for
  a file whose name begins with the space.
- The stack grows only for addresses from 8 below the stack pointer of the *old* program's last
  system call (`vm/vm.c:270`, `thread.rsp_stack`), and not at all before the first one,
  where that pointer is 0. Arguments of more than a page end such a process
  ("killed"). It grows below its lowest page, whatever address was hit, and panics
  where a segment lies there.
- Two segments that share a page panic (`vm/vm.c:115`). A segment of 4 GiB or more is cut off.
- `validate_segment` looks at `p_offset`, not at `p_offset + p_filesz`: a segment that
  ends beyond its file is found out when the page is first touched (847-850). The frame is
  freed while the page table still maps it, and the process is killed, unless the address
  is also one at which the stack would grow: then the fault counts as handled and the
  program goes on in a freed frame ("freed", where the model stops).
- Arguments may overwrite a segment that ends where the stack begins, read-only
  ones included, since the kernel runs without `CR0_WP` (`threads/start.S:100`).
- The stack pointer of the program is a multiple of 8, not of 16.
- When `load` fails, `process_exec` returns to a caller whose address space
  `process_cleanup` has taken down.
## 13. Proofs

`ThreadSchedProofs`: insertion and sorting return the elements they were given,
without duplicates. Sorting is defined by positions (`Place`), and the
proof that places are a bijection is by counting predecessors. Then, each scheduler
operation keeps the scheduler state well formed, and every thread where its status
says (`Placed`): the running one on the CPU, the ready ones in `ready_list`, once each.

`SynchProofs`, of locks and semaphores:

- `LockInvariant`: `Spec => []LockInv`. `LockExclusive` is not inductive alone: it
  needs that at each label `arg` is what the code works on (`AtLabels`) and that
  `holder` is NULL while a thread has the unit and `holder` does not say so
  (`HolderClear`), otherwise the end of `lock_release` could leave a second owner.
- Every step has one of three effects on ownership (`Keeps`, `Takes`, `Gives`);
  exclusion and the refinement both follow from that alone.
- `TypeCorrect`, `Exclusion`, `Refinement` follow.

`SynchProofs`, of the merge sort: `MergeSortCorrect`, for a list of any length. A round of `inplace_merge`
moves an element only in front of smaller ones, so the list stays a stable reordering of the one
given (`Reordered`), and what is merged falls from high to low (`Falls`, `MergedFalls`). A pass that
finds more than one run leaves a longer first run (`PassProgress`), so the passes end. A stable
reordering that falls is `Sorted`, by counting what stands before each element
(`ReorderedSorted`). `SortingAgrees`, `Spec => []MergeSortAgrees`, and `SignalSorts` in `MonitorInv` apply it to the
waiters of semaphores and conditions and to the donors of threads; with it nothing that the other
proofs say of sorting rests on `Sorted` alone.

`NoneLost` and `OneList` follow from `WaitInvariant`, in the same module. The blocked threads are
those in the lists of the semaphores, no thread is in two, and each waits at the
label of the semaphore whose list it is in; that last part is what makes the first two
inductive, since it is how `sema_up` is known to wake a thread that then takes the
unit. A unit beside a sleeping waiter always has a woken thread underway to it.

`WokenInOrder` (`WakesHighest`) rests on `SortedFront`: the front of a sorted list is the element
that comes before all others. `HighestRun` is `Spec /\ Undonated => []HighestRuns`: `HighInv` says that
the ready list runs from high to low and that nobody in it is above the running thread, at
any label but the one between the two halves of `refresh_priority` in `thread_set_priority`
(`Rescheduling`), which `thread_comp_ready` ends, and each operation of the scheduler establishes both from a list in order
(`ScheduleHighest` and the lemmas after it). `Undonated`, no step but `thread_set_priority` changes
a priority, is needed: a donation to a ready thread leaves it where it was
in `ready_list`, and TLC finds `HighestRuns` violated in the instance of `LocksContended`. Every behaviour
of the run `LocksLive` is `Undonated`.

`SynchProofs`, of condition variables: `MonitorInvariant`, `BroadcastComplete`, and `UsesLocks`, `MonitorSpec => Spec`:
a condition variable is a client of the lock and of its waiters' semaphores, so
the theorems on `PriorityLocks` hold below it. `AllInPlace` ties each stage of `cond_wait` to the
labels of the lock code under it and to the count of the waiter's own semaphore: it
is 1 exactly between a signal and the end of the sleep, in the window before the
waiter sleeps as well. A step of one thread disturbs its own place only, which
leaves the step of `cond_signal` as the one that touches two threads.

`DeviceProofs`, of the timer: `AlarmInvariant` and `AlarmRefinement`, `AlarmSpec => ImplementsTimers`. One timer interrupt
wakes any number of sleepers, one after the other, which the model writes as
a recursive function (`Awaken`). Induction on how many have been woken goes through a set
of the naturals for which the claim holds (`SetInduction` of `ThreadSchedProofs`, since a finite set has no
injection into a smaller one), because the library's own induction takes an
operator.

`DeviceProofs`, of the serial port: `SerialInvariant`, `InputOrder` and `OutputOrder`, for any size of the queues. `SleeperRegistered`
and `IerCurrent` are inductive together with what a thread inside a call may assume
of the mode and of the panic (`Budget`). For the order, a position of the ring is told
by its distance from the tail (`Turn`); the bytes between the last delivered one and
the last queued one are in the ring in that order (`HoldsLine`), keys of the keyboard
between them, so that `LineFits` bounds what is held and `Deliver` is always of the next. `OutputOrder` is
`Spec => Out!Spec`, the safety part of `OutputDelivered`: the bytes between the last one sent and the last one
printed are in the output ring in order (`OutputKept`), none while the port is polled, and a ring with
room bounds them. `SleepersWoken` adds `SleeperServed` to `SleeperRegistered`: while a writer sleeps the transmitter is
sending or its interrupt is enabled, and a byte that arrives while a reader sleeps interrupts. It follows
from `IerCurrent` and a sleeper's queue being full or empty, and is what `CallsServed` rests on besides fairness.

`FramesProofs`: `FramesInvariant`, `NothingForgotten` and `AccessedStay`, all that the run of `Frames` checks.
`FrameOfOnePage` and `SlotOfOnePage` need that each frame up to `used` is of a page that has
been claimed and, if that page is anonymous, is the frame it is in (`FramesHeld`): a frame
that `munmap` left behind may still name its file page, but an anonymous page never has
two frames. `ContentsHeld` is `ContentsKept` of unmapped pages, too: the induction needs it, as what `munmap` wrote to the
file has to stay there. `PagesTyped` relates the operations of a page to its type, the stack to
`stackBottom` and dirty bits to present pages. Contents are kept because a file
page that is present and not dirty is equal to its file (`CleanSaved`). `ClaimEffect` states once
what `vm_do_claim_page` does to each table, so that faults and stack growth share one
proof (`ClaimTables`, `ClaimMemory`). `Least`, by counting, stands in for the induction that the
victim and `bitmap_scan` need (`VictimIsIn`, `MinIsIn`).

`ProcessProofs`, of processes: `ProcessInvariant`, `Spec => []ProcessInv`, for any number of
processes. `ChildrenAllocated` and `ParentHeld` are not inductive alone. `OneTracker` says
that a child is in one `child_list` or about to be let go by that parent;
`TrackedStay`, that a tracked child has not passed `sema_free`; `SemasFollow`, what a
raised semaphore says about its thread, without which the semaphores could count
beyond 1; `DestroyDying`, that only dying threads are freed. `NoDanglingChild`,
`ParentsHeld` and `TypeCorrect` follow. `NobodyStuck` adds that the initial thread is nobody's child
(`MainApart`) and that a child at the end of `process_exit` has upped what its parent waits for
(`Owed`). If nobody could run, `child` would map the parents that sleep, the initial thread among
them, one to one into the same set without the initial thread (`ChildSleeps`, `ChildrenDiffer`),
which a finite set does not allow.

`ProcessProofs`, of loading: `Image` and `Arguments`, all that the run of `Loading` checks, for any executable,
command line and sizes of pages and address space.

- `ImageLoaded` follows from `LoadInv`: the pages of the headers processed so far are there and stay
  (`HeadersDone`), those of the stack lie in one row below `USER_STACK` (`OnStack`), every
  address that the kernel has written to is on them (`MemoryTyped`), and no page that
  could not be read is in memory (`InMemory`). `SegmentSums` and `InSegment` say which byte of
  which page a segment puts at an address, with the sums of `load` cut to `uint32_t`, and `WholeIs`
  when the file has the bytes of a page: a program that starts has passed
  `validate_segment` for each of its headers, and only then are its sums those of the header.
- `ArgumentsPassed` follows from `ArgInv`, which adds that `strtok_r` has found the words before
  `save_ptr`, in order, each ended by a NUL, and has not touched what comes behind (`Tokenized`); and
  that memory is written from the top of the stack down without a gap, so that no push
  overwrites an earlier one (`Layout`). A word is numbered by how many begin before it.

`DeviceProofs`, of the disk: `ChannelInvariant`, `DiskSpec => []ChannelInv`, and `Refinement`, `DiskSpec => ImplementsAtomicDisk`,
for any threads, sectors, values and number of requests and of spurious interrupts. That
the data of a transfer are those of the request (`TransferMatches`) needs that one
thread at a time is between `acquire` and `release` (`OneRequest`) and that at each of its
labels the drive is in the phase that the driver takes for granted (`DriveFollows`), and so does the
account of interrupts (`InterruptsOwed`, alone in `NoSurplus`).
`NoneStuck`: from its command on a thread has announced the interrupt it expects, so that the handler does not take
it for a spurious one, and what it waits for is under way, pending or counted (`AnswerComes`); and with
`DriveFollows` that is enough for some step to be open whenever a request is (`RequestsGoOn`), which leaves
fairness alone to `RequestsReturn`. For the
refinement, a write takes effect when its data are handed to the drive, whether or
not they are stored yet (`Stored`), a read when its data are taken from it, and every
other step of the drive or of a thread leaves the abstract disk alone.

`FileCallsProofs`: `FilesInvariant`, `NothingLost`, `DeniedStay` and `FilesRefine`,
`Spec => ImplementsFileStore`, all that the run of `FileCalls` checks, for any disk and sector
size, directory, number of processes and descriptors, and any names, lengths, positions and sizes.

- `SectorsOwned` is not inductive alone. It needs that the disk describes each living file and an
  inode in memory what the disk describes, with `removed` set exactly when no entry
  names the file (`InodesAgree`), otherwise the last close could miss a release or release a named
  file; that the call in progress has on the disk what its next step relies on
  (`CallUnderway`); that only living processes have descriptors (`FdsOfLiving`), since
  `process_exit` empties them first; and the counters (`OpenCounts`), which tell the last close.
- `StepIs` sorts all steps. Most are `Calm`: every living file stays where it is, only
  free sectors are taken and only those of the call in progress given back
  (`OwnedKept`). Three are not: a file ends (`Releases`), loses its name (`Unnames`) or gets one (`Enters`).
- The reads (`ReadsContent`) follow from the rest: `ReadPart` shows by induction on the cells
  left that the loop of `inode_read_at` returns a part of the file, through the set of
  lengths for which it does (`Least`). `Near` and `BeforeEnd` say what
  rounding to sectors comes to; the loop of `inode_write_at` rests on them too.
- Counters are cardinalities of sets of descriptors; `PutFile`, `TakeFile` and `CopyFiles` say what
  open, close and fork do to them.
- A write of the store is one chunk of `inode_write_at` (`StoreWrites`), a creation the moment of
  `dir_add` (`StoreCreates`), a removal that of its counterpart; a file whose last close is still
  releasing sectors has ended already. `BlocksKept`: no write to the disk hits a living file
  but the one it is meant for. `DeniedStay` and the refinement follow from it.

`KernelMemoryProofs`, of the hash table: `Table` and `TableRefines`, `Spec => ImplementsKeyedSet`, for any elements, keys
and hash function. `TableInv` adds to `TableSound` that no two elements have the same key, so that
`find_elem` finds the only equal one. `rehash` is two recursive functions, over the buckets
and over the elements of each; after any number of rounds the new table is `Sound` and has the elements that have
been moved (`FromSound`, `MovedSound`).

`KernelMemoryProofs` and `KernelHeapProofs`, of the heap and the page tables, for any number of pages, frames,
addresses, threads, processes and blocks: `PoolIsSound`, `HeapIsSound`, `ProcessorIsSound`
and `TreesAreMaps`, `Spec => ImplementsAddressMaps`; with the hash table that is all that the run of
`KernelMemory` checks. None of these properties is inductive. `KernelInv`, which is
(`KernelKeepsInv`), has two halves, since the heap and the trees meet at nothing but the pool:

- `MemInv`, of pool and trees. `OwnInv` and `FrameInv` say what `PagesOwned` and `FramesOwned` count, as
  sets: which pages and frames are in use and that no two owners share one. They need that a page is one node
  of one tree (`Injective`), that a page in no tree has no entries (`Outside`), and where
  each process is (`Phase`): the page that it gives back is a leaf of the tree it is
  still linked in (`Victim`), and the nodes that a walk has made are a chain with nothing
  beside it, down to the entry that still leads to a freed node (`Chain`). A page found by
  `bitmap_scan` is not in use until the bits are flipped, because the actor at `flip` has the pool's lock (`LockInv`).
- `HeapOK`, of arenas, blocks and what memory holds: `SpansApart` (arenas do not overlap), `ListsInv` (a free block is on the
  list of its arena, once), `OwnersInv` and `SoleOwner` (a block in use is of an arena and has one
  owner, also while `realloc` copies it), `CountsInv` (what `free_cnt` counts; only a new arena is
  all free, and only while its maker has the descriptor's lock), `CallsInv` (where each call is and what it
  holds: from the scan to `pop` the descriptor's lock, and its list stays empty) and `Kept`.
- `TableKeeps` shows that a step of a process keeps `MemInv`, `HeapStepKeeps` that one of a thread
  on the heap keeps both, and `HeapStays`, `MemStays`, `OthersAfter` that the rest stays as it is. `HandsApart`
  is where the halves meet: pages that a call has just taken are in no arena, tree or other call.

`LocksGiven` is about the locks that the two halves take for granted. No path of `malloc` and
`free`, failed or not, keeps one (`LocksReleased`), and a thread waits for the pool's lock with a
descriptor's in hand but never the other way round, so that whenever somebody is inside a call somebody
there need not wait (`CallsGoOn`; `WaitsEnd` follows the chain of at most two waits).

`CacheIsCurrent` adds `CacheInv`: the processor has the tables of the process that runs, and each cached
translation is what that tree says, with the bits that the processor set. It stays because each call of `mmu.c`
that changes an entry the processor may have cached flushes it or loads `cr3`, and calls of other processes change trees that are
not in force (`OnlyBy`, `OthersMap`, `CacheStays`). For the refinement the tree is read without what has been freed
(`Live`), so that a failed walk or a destruction in progress shows as no change (`SameMap`, `Shown`).

Assumptions: `ThreadsAssumption` (finitely many threads, idle is none of them),
`LocksAssumption` (kinds of constants are disjoint, priorities are naturals),
`MonitorAssumption` (each thread has a semaphore of its own to wait on), `AlarmAssumption`
(a time slice is a positive number of ticks), `FramesAssumption` (at least one frame,
segments and mappings inside the address space and apart from the first stack page),
`IntQueueAssumption` (a queue has at least two positions), `SerialAssumption` (two
threads, bounds that are naturals), `InodesAssumption` and `FileCallsAssumption` (an inode
fits in a sector, the first program fits on the disk, programs have valid names),
`LoadingAssumption` (page and word sizes divide what they divide in the code, a page of
the stack lies below its largest extent, a file has at most the headers it announces; and
that powers of the size of a byte are positive, which the provers cannot find out),
`ProcessAssumption`, `DiskAssumption`, `HashAssumption` (hash values are naturals),
`PoolAssumption` (the pool has a page), `MallocAssumption` (an arena's header takes up at
most half of a page), `TablesAssumption` (entry 0 of a table exists), `LoadsAssumption` (the
actors on the pool are the threads at work on the heap and the processes at work on their trees, no one both). TLC evaluates each of
them with the constants of the runs.

Only model-checked: liveness under fairness, which is beyond the prover. Every invariant and safety
property that a passing run checks is a theorem for all values of the constants, with one
hypothesis: `HighestRuns` is proved for `Undonated` behaviours, and does not hold where priorities are donated.

## 14. Not modelled

- `week_08` and `week_09`: earlier states of the files that `week_10` has in full.
- Boot (`threads/init.c`, `threads/loader.S`, `threads/start.S`), segment descriptors and task state
  (`userprog/gdt.c`, `tss.c`), context switch in assembly: set-up that runs once with
  interrupts off, or code below the level of the models. The sizes the pools get at
  boot are constants here.
- Console, `printf` and the string library, the user library and the test
  programs: output and pure functions, except `strtok_r` (section 12).
- Keyboard scan codes: a key is a byte that arrives (section 7).
- Detection and reset of disks, and the time limits of polling loops.
- `dir_readdir`, which no system call reaches, and `list_reverse`, `list_unique`, `list_max`, `list_min`, which
  the kernel does not call.
- FAT and page cache: skeletons with empty bodies. The `mlfqs` functions are stubs.
- A second process in `Frames`: `frame_table` has no lock and keeps pointers to pages
  that exec and exit have freed; with two processes in the pool the code does not
  keep any of the properties.
