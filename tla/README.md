# Verification of CMSIS-RTOS

TLA+ models of the kernel of CMSIS-RTOS and of the libraries over it that keep state, TLC instances
that check them and TLAPS proofs about the core. Paths below are relative to the source directory;
`PROJECT.json` has the same facts in a form tools can read (components, runs, mutants, the map from definitions to lines, findings,
hazards, theorems).

- [The system](#the-system): its components, their state, operations and interactions
- [The models](#the-models): modules, and how state and actions correspond to the code
- [The runs](#the-runs): what each shows, its bounds, the fairness assumed
- [What the code does otherwise than it says](#what-the-code-does-otherwise-than-it-says)
- [The proofs](#the-proofs)
- [Not modelled](#not-modelled), [Plan](#plan)

## The system

CMSIS-RTOS is a single-core real-time kernel for Cortex-M (with a simulation on x86) and a set of
libraries over it. Threads, supervisor calls, the PendSV scheduler, SysTick and device interrupts
interleave; shared words are changed with LDREX/STREX or, on Cortex-M0 and x86, with critical
sections or a compare-and-exchange.

| component | state it keeps | operations | talks to the rest by |
|---|---|---|---|
| thread kernel (`thread.c`, `svc.c`, `sys/thread.h`) | ring of TCBs (`tcb_list`, `next`), `current_thread`, the event word of each thread (status, value, timestamp, timeout), stack pool bit map | create, exit, yield, sleep, event wait, flags set/clear/wait, notify, priority; SVC handlers; PendSV and `osThreadScheduler` | polls the semaphores and flags parked threads wait for |
| semaphores (`semaphore.h`) | one count | enter (take if not 0), leave | fast path in threads, grants in the scheduler, leave from anywhere |
| tick (`kernel.c`) | `system_ticks`, `system_microsec`, timer list | SysTick | pends PendSV, calls timer work, `clock()` |
| CMSIS calls (`mutex.c`, `semaphore.c`, `semaphore2.c`) | a count each | wait, release, acquire | semaphore fast path, then `osEventWait`; read the event word afterwards |
| lists of free nodes (`r3_slice.c`, `memory_pool.c`, `atomic.h`) | top pointer, next pointers in the nodes, memory from `malloc` | alloc, free, growth by a block | called by every context |
| queues (`queue.c`, `async_queue.c`, `message_queue.c`) | linked lists, counts | put, get, push, pop | slices for nodes, semaphores for counts |
| CMSIS pool, message, mail (`pool.c`, `message.c`, `mail.c`) | bit maps, chains through the elements of a pool | alloc/free, put/get | queues of `queue.c` |
| timers (`timer.c`; `ptimer.c`, whose work nobody calls) | linked lists of timers | start, stop, settime; work in SysTick | callbacks, notifications |
| C11 and POSIX threads (`c11_*.c`, `pthread.c`) | owner, count, waiter lists, once flag, rwlock and barrier counts | lock/unlock, cond wait/signal, rwlock, barrier, once, join | semaphores; every wait is SVC_CLOCK_WAIT, for which there is no handler |
| signals, services (`signal.c`, `service.c`) | queues and event words | raise, work flow | the event word of a thread |
| heap (`malloc.c`) | end of the last block, headers | aligned_alloc, free, collection | slices, ELF loader |
| configuration store (`config.c`) | journal in flash, offset | save, log, load | flash driver |
| pipe, command queue (`pipe.c`, `ocl.c`) | indices, counts, event flags | read/write, enqueue | threads, interrupts |
| devices, descriptors (`r3_dtree.c`, `pdevice.c`, `poll.c`) | reference counts, descriptor map | open, close, poll | drivers |
| trees of objects (`r3_tree.c`, `tree_*.c`) | root, subtrees and weights of the nodes | insert (atomically or alone), look up, replace, remove, merge, weigh, balance | the object server |
| file system (`r3_fs.c`, unfinished) | lists of extents: free, bad, of the journal, of each file | new file, allocation, release, journal flush and replay | the flash driver, the object tree |
| calendar (`r3_stdlib_mktime.c`) | none | `localtime_r`, `_mktime` | |
| ciphers, digests, checksums (`aes.c`, `kuznyechik.c`, `magma.c`, `stribog.c`, `md5.c`, `crc16.c`) | contexts of their callers | expand a key, encrypt, decrypt; update, finish | |
| lists of values, protocols, compression, rest of the C library, ELF loader | none shared | pure or sequential | |

### Hard behaviours, and the properties that make each part correct

- *Switching.* A wait is a store into the event word and a request for PendSV; the thread must not
  execute another instruction until it is runnable again, although interrupts come between the two
  (`ExecutingIsRunning`). A thread that is killed frees the stack it still runs on (`RunsOnOwnStack`,
  `StacksExact`). The ring is singly linked and spliced by create and kill (`RingExact`).
- *Waking.* The scheduler polls: it competes with the fast path of a thread and with `leave` from
  interrupts for the same count, and with an expiring timeout measured by a clock that wraps
  (`TokensConserved`, `WokenForAReason`, `FlagsReported`). Everything runnable must run, everything
  available must be noticed (`RoundRobin`, `NoIgnoredWakeup`).
- *Results.* Callers derive success from the event word, each with a comparison of its own: some take a
  timeout for a token, others a token for an error (`Exclusion`, `NoTokenLost`, `MutexObtained`).
- *Lock-free lists.* A pop reads a next pointer before its conditional store (`ListExact`,
  `OnePlace`, `ImplementsFreeList`).
- *Queues.* Many producers push onto a chain that one consumer takes whole; a semaphore counts what
  was pushed but not yet taken (`ImplementsFifo`, `OnePlace`, `TokenFindsMessage`). A priority queue
  is sorted batch by batch (`HighestFirst`, `EarlierChainFirst`). A bit of a pool is set by what was
  read of its word before (`OnePlace`).
- *Locks of C11 and POSIX threads.* Readers, writers and unlocks share a count (`RWExclusion`); an owner
  is stored after the count is taken (`C11Exclusion`).
- *Timers.* A clock of two words read while it is updated (`TimeWasNow`); timers started and stopped
  in several stores while SysTick walks their list, with a word of time that wraps (`TimerOnTime`).
- *Configuration store.* A power failure between any two writes, and what a load accepts afterwards
  (`LoadRestores`, `NothingInvented`).
- *Heap.* Allocation between the steps of the collection, which reads headers and stores `last_block`
  without an atomic operation (`HeapTiled` until the two have raced, `BlocksApart`).
- *Services.* Signals raised between the steps of the work flow (`SignalsOnce`).
- *Trees.* Insertion by several threads, and turning by weights that are not the sizes of the subtrees
  (`TreeHolds`).
- *Arithmetic with two forms.* Decryption against encryption, tables against products, pieces against
  the whole, multiplications against divisions (`InverseRestores`, `FastAgrees`, `DigestOfWhole`,
  `CalendarAgrees`).

`hazards` in `PROJECT.json` lists these at their lines, with the properties that cover them or the
reason why none does.

## The models

| module | models | state |
|---|---|---|
| `Thread` | the thread kernel, semaphores, SysTick | TCB fields, event words, stack map, counts, clock, processor mode |
| `EventWait` | the promise of the kernel: threads wait for tokens, flags or time | event words and counts only |
| `Sync` | the blocking calls of CMSIS over `EventWait` | plus where each caller is and what it was told |
| `AtomicList` | the lock-free list of free nodes, one memory access a step | top, next pointers, call locals, reservation |
| `FreeList` | the promise of that list: a stack of free nodes | the stack, who holds what, memory not made yet |
| `Queue` | `queue.c`, `async_queue.c`, `message_queue.c`; the bit maps of `pool.c` | top of the chain, links, receiver's list, map, priorities, count, where each context is |
| `Fifo` | the promise of the first two | the elements, oldest first |
| `RWLock`, `C11`, `Locks` | the reader-writer lock of `pthread.c`; `c11_mutex.c`; `Sync` and `RWLock` side by side | counts, owner, where each thread is and what it was told |
| `Clock`, `Timer`, `Calendar`, `Timers` | `kernel.c`; `timer.c`; `r3_stdlib_mktime.c`; the first two under one SysTick | uptime and its copy; list and fields of timers; the day |
| `ConfigLog`, `Heap`, `Service`, `Tree` | `config.c`; `malloc.c`; `service.c`; `r3_tree.c`, `tree_*.c` | flash and RAM; headers; signals and event words; the tree |
| `Bytes`, `Cipher`, `Aes`, `Kuznyechik`, `Magma`, `Stribog` | words of bytes; the ciphers and the compression of Stribog, round by round | block, keys, round |
| `Digest`, `Crc` | how `magma.c`, `md5.c`, `stribog.c` cut a message; `crc16.c` | buffer, length, blocks; registers |
| `Device` | the parts of the last three rows side by side | which part a behaviour is about |
| `MCThread`, `MCAtomicList`, `MCQueue`, `MCLocks`, `MCTimers`, `MCDevice` | constants and symmetries for TLC | |
| `ThreadProofs`, `SyncProofs`, `AtomicListProofs`, `QueueProofs`, `LocksProofs`, `TimersProofs`, `DeviceProofs`, `CryptoProofs` | theorems | |

`Thread` implements `EventWait` and `AtomicList` implements `FreeList` (checked and proved); `Sync`
EXTENDS `EventWait`, so what it shows holds over the kernel; `Queue` implements `Fifo` (checked and
proved).
`Locks` and `Device` put components that share nothing side by side, one a behaviour, so that one run
serves them; in `Timers` SysTick advances the clock and looks at the timers in one step, as in
`kernel.c`.

### Thread

*Granularity.* SVC and PendSV share the lowest exception priority, so an SVC handler is one step to
threads and the scheduler; a thread's call is one step where it makes one atomic access or one SVC.
PendSV is an entry step (`PendSV`, saves the stack pointer) and one step (`Turn`) for each turn of
the loop of `osThreadScheduler`, with interrupts in between; the last turn dispatches and returns.
SysTick and `osThreadNotify` come between any two steps. The short sleep of `svc_handler_usleep`
spins inside the handler (`mode = "svc"`): ticks go on, nothing else runs.

*State.* `next`, `sp`, `prio` are TCB fields; `status`, `wsem`, `wflags`, `timestamp`, `timeout` are
the `osEvent` of the thread's process, its status a set of flags (the value 0, `osEventComplete`, is
the empty set) and its value split by what the status makes of it (a semaphore or a mask);
`map` is `stack_pool.map`; `sem` the counts; `clock` `system_ticks` modulo a width; `slice` the
divider of SysTick; `pend` ICSR.PENDSVSET. `holders`, `exited` and `creations` are history: they
record what the code does and are read by no handler (`exited` also stops a thread that spins
after `thrd_exit`, and `creations` bounds the run).

*Actions.* `ThrdCreate`, `SvcExit` (with `SvcKill`), `ThrdExit`, `SemWait`/`FlagsWait`/`ThrdSleep` (over
`SvcEventWait`), `Usleep`/`UsleepReturn`, `ThrdYield`, `SetPriority`, `SemTry`, `SemaphoreLeave`,
`SignalSet`, `SignalClear`, `Notify`, `SysTick`, `PendSV`, `Turn`. Arithmetic on time is modulo
`2^ClockBits`, including the multiplication by 1000 (`ToMicrosec`).

*The end of a thread.* `SvcExit` is SVC_EXIT, whose handler unlinks the thread and frees its stack. Of
its callers `pthread_exit` passes a result where the handler takes a thread (`pthread.c:211`), and those
in `signal.c` and `c11_thread.c` pass a pointer that is never assigned; the action takes the identifier
the handler is written for, that of the thread that ends. `ThrdExit` is `thrd_exit` of `thread.c`, and
the return from a thread's function: it makes SVC_SIGNAL, which has no handler, so that the thread spins
for ever, linked and runnable, whatever its comment says (`thread.c:328`).

*Left out of the module.* Register frames, MPU and privilege, names, `osThreadJoin`, processes with
more than one thread, and the signal queue drained at the head of the scheduler: its count starts at
0 and `sig_queue_put` refuses every put while it is 0, so it is always empty.

### Sync

Each call is: `semaphore_enter` (`EnterFree`, or `EnterBusy` when the count was 0), the SVC
(`SvcWait`), the wait itself as the kernel performs it (`KernelGrant`, `KernelTimeout`), and the
return (`Return`), which reads the event word as the call does (`ReportsToken`: `osMutexWait` and
`osSemaphoreWait` compare it with `osEventTimeout`, `osSemaphoreAcquire` and `osMemoryPoolAlloc`
with `osEventSemaphore`, `osMessageQueueGet` tests the timeout bit). Every wait may end with its timeout,
also one for `osWaitForever`, since the calls multiply it by 1000. `believes` is what the caller was
told, and a caller acts by it: it releases what it believes it has, so that a call that reports wrongly
changes the count as well. `holders`, of `EventWait`, is what it was given. `osMutexDelete` and the like
are not modelled.

### AtomicList

`PopLoad` (LDREX of the top), `PopNext` (the load of `ref->next`), `PopStore` (STREX); `Cut`
(`g_slice_init`: malloc and linking), `FreeCall`, `PushLoad`, `PushStore`; `Use` is the user writing
over a node it holds, which overwrites the next pointer. With exclusive access a store succeeds
only if the context still has the reservation: the core has one, and the entry or return of every
exception clears it, so any step of another context clears it (`Preempts`). With `ValueCAS` a store
succeeds when the top has the value loaded, as in the versions of
`atomic_pointer_compare_and_exchange` for Cortex-M0 and Intel. `list` is history: the nodes in the
order they were pushed. The module stands for one pool; a pool that cannot grow (`osMemoryPoolAlloc`)
is the case where `heap` has been used up.

### Queue

One module for the three queues and for the pool, chosen by `kind` at the start. A node is one the
caller has at hand or from a slice (`SliceAlloc`; the slices are `FreeList`). A sender pushes it onto the
chain (`PutLoad`, `PutStore`, `PutRetry`) and, for a message, counts it (`PutLeave`). The receiver passes
the semaphore (`GetEnter`), looks at its own list (`GetHead`), takes the whole chain (`GetTake`) and
puts it in order one node at a time, as the loops of the code do. A chain of `queue.c` or of an
asynchronous queue is turned over (`GetTurn`), and `queue_pop` returns the last node of it without
linking it (`GetLast`). The cursor `at` walks the list of messages (`GetWalk`) behind those of at
least the priority of the next node, which is linked there (`GetInsert`). The first of the list is
removed (`GetPop`) and the node freed (`Release`), which a sender may take again while another still
holds a loaded pointer to it. `chain`, `batch` and `list` are history: the nodes in the queue, in the
chain that was taken and in the receiver's list, which the next pointers have to lead through;
`before` and `old` are what was there when the receiver passed the semaphore and when it took the
chain. A conditional store succeeds when the chain starts with the node loaded, so that this reuse
can deceive it, and may fail even then. There is one receiver: `queue_pop` and the insertion of
messages have no atomic operation for their list.

The nodes lie apart in memory. That is so for nodes from slices and for a caller that pushes a structure
of its own; it is not so for the elements of `pool.c`, whose size is counted in words (line 46) and used
as a number of bytes (line 68), so that the link in one lies in its neighbour. The queues of `mail.c` and
`message.c` link such elements and are left out. What `pool.c` gives by itself, a bit for each numbered
element, is the kind "pool": a context finds a clear bit in what it has read of a map word, sets it, and
sees in the word as it was whether another has been faster (`PoolLoad`, `PoolSet`, `PoolNext`,
`PoolFree`). The remaining caller of `queue_push`, `ocl.c`, has a pool of its own whose elements lie
apart; its line 474 may push one node several times, which `Queue` does not consider.

### RWLock, C11

`RWLock` is a count: 1 free, 0 written, less 2 for each reader. `RdLock` and `WrLock` are the calls that
get the lock at once, `RWUnlock` decides from the count alone whose lock it gives back. A `wrlock` of a
lock that is taken makes SVC_CLOCK_WAIT. Nothing handles that call and nobody parks: it returns at once,
and its result is what `osEventClockWait` reads through `thread_current` of `pthread.c`, a pointer that
is never set (`WrTaken`: the caller is told either, and `misled` records that it was told a lock).

`C11` has `mtx_lock` and `mtx_trylock`: `MtxEnter` takes the count, `MtxOwn` stores the owner,
`MtxCompare` is a call that found the count taken and compares the owner of record with itself.
`mtx_timedlock`, and so `mtx_lock`, then makes SVC_CLOCK_WAIT too and returns at once by the event word of
an earlier wait (`MtxNoWait`; `Leftover` has the words considered). `MtxUnlock` adds 1 and leaves the owner.

### Clock, Timer, Calendar

`Clock` is SysTick's second and nanosecond and the loop of `clock_gettime` that copies both words
until the seconds agree. `Timer` has `osTimerStart` in its four stores (`StartInterval`,
`StartStamp`, `StartLoad`, `StartLink`), `osTimerStop`, and the look of SysTick at the timer under its
cursor (`TimerWork`). Words of time wrap; the history counts without. `Calendar` goes on by a day a step:
`LocalTime` and `MkTime` are the computations of `localtime_r` and `_mktime`, `wall` a calendar that
turns a leaf a day. The code divides by multiplying and shifting; the module has the divisions, and
`MultiplicationsDivide` proves each of them equal to its multiplication for every word of 32 bits.

### ConfigLog, Heap, Service, Tree

*ConfigLog.* `FLASH_SaveConfig` (`SavePage`, `SaveRest`, `SaveErase`), `FLASH_LogData` in three writes
(`LogHeader`, `LogWord`, `LogCrc`), `PowerFails` between any two, `FLASH_LoadConfig` at the next boot
(`Load` takes the segment, `ReplayRecord` a record, until one does not check or `ReplayEnds` because it
does not fit). A word written twice is spoilt; a CRC is what it was computed over. `stages` is
history: the segment as it was saved and after each record that was completed since; it is emptied
when power cuts a save or a record is written over another.

*Heap.* `aligned_alloc` is two steps (`Claim` moves the end, `WriteHeader` writes the header), `free`
one. `r3_mem_garbage` looks at a block (`GarbageStart`), joins up to five (`GarbageJoin`, one a step) and
gives the last one back (`GarbageGive`, a step after `last_block` was compared). Allocations come between
any two of these steps. The collection may so read a header that is not written yet, whose contents are
those of the memory, or give back a block that is no longer the last; `raced` records either, and the
collection is not followed after it.

*Service.* The work flow step by step (`TestSignals`, `TakeSignals`, `TestTimeout`, `Call`, `Clear`,
`Finish`) while `RaiseSignal`, `ServiceRun` and the tick come from elsewhere.

*Tree.* `tree_insert_tree` descends and takes an empty place with a compare-and-exchange (`InsertDown`,
`InsertTake`, one level a step); `tree_insert`, `tree_remove` with `tree_merge`, `tree_depth` and
`tree_balance` run alone, a step each, over the weights the nodes really have, which atomic insertion
leaves alone.

### Ciphers, Digest, Crc

A step is a round: of the key schedule, of encryption, of decryption; of AES also the change of the
schedule in place that its decryption needs. The tables of the sources are given by what they are
tables of (logarithms, powers, images of a matrix), so that a round by tables is really compared with
the operation it stands for. `Stribog` has the compression of a block and the four other forms of its
round that the test at the end of `stribog.c` prints side by side. `Digest` names bytes by their
place in the message and keeps the blocks that reach the compression. `Crc` feeds one message to all
forms of the checksums.

## The runs

TLC finishes every run in less than four minutes on two cores.

| run | shows |
|---|---|
| `thread_ring` | 4 threads, 3 stacks, 4 creations, at most 2 threads that have ended at a time, notifications of any thread, priorities, short sleeps that spin in their handler: ring, stack map and running stack are exact, with threads that end and threads left spinning in `thrd_exit` |
| `thread_semaphore` | 3 threads, one token, a wait with a timeout, a 2-bit clock, one thread that has ended at a time: no interleaving of fast path, grant, timeout and release loses a token; nobody runs parked or is woken for nothing |
| `thread_live` | under fairness, 2 threads, a flag and a semaphore, sleeps that park with an interval of 0: `RoundRobin`, `NoIgnoredWakeup`; a flags wait reports flags that are set; every step is one of `EventWait` |
| `list_exclusive` | 2 contexts, 4 nodes in batches of 2, exclusive access: the list is exact, no node in two places, `FreeList` implemented |
| `queues` | each kind of queue with 2 senders and the pool with 3 users, 4 nodes, map words of 2 bits, 2 priorities: nothing lost or given twice, first in first out (`Fifo` implemented), a token finds its message, priorities kept, a bit has one owner |
| `locks` | 3 threads on a mutex, a queue of 2 tokens and a semaphore of `osSemaphoreAcquire`, every wait of which may time out: no token is made up by the calls that fail on a timeout, none lost by those that succeed on a grant; 3 threads on a rwlock: a writer is alone |
| `timers` | 2 ticks a second, 6 ticks: reading the clock; 2 CMSIS timers with intervals of 1 and 2 and a word of 4 values; the calendar from 1970 to February 2106, every day of 32 bits of seconds |
| `device` | each part of `Device`: 4 words of configuration, 2 of them logged, 3 records, 2 power failures; a heap of 9 words and 2 callers; 2 services, 2 signals, a clock of 3 values; a tree of 4 keys of 16 that wrap and 2 inserters; the ciphers on the examples of their tests, digests of messages around each boundary of a block, checksums of short messages and of their check value |
| `thread_notify`, `mutex_timeout`, `c11_owner`, `heap_collect` | the next section |

*Bounds.* Two threads are the least for a switch, three for two waiters of one token, four for two
neighbours of a removed ring element that are not main; four creations reuse a TCB and a stack after
an exit. The threads of the runs never outnumber the stacks of the pool. A clock of 1 or 2 bits wraps in every behaviour, and timeouts of up to its range are below,
at and above the wrap. One token is the mutex; two tokens on the queue let a release race a timeout
with a token left over. Two contexts with a batch of two reach every interference of a push or a pop
with another. Four nodes of two map words let a node be freed, claimed and pushed again between a
load and its store, and a chain of two be taken behind another. Three threads give a rwlock two readers and a writer.
Six ticks pass the wrap of the word of time and the turn of a second
twice. The tree's keys lie on both sides of the wrap; with `MaxWeight` 4 the weights can be wrong by
more than the tree is high. Two power failures let the second fall into what the first left.
Nine words hold four blocks of one word each, so that a block is joined with several behind it while
another is allocated; the end of the collection's count of five joins needs twelve (the theorem, and the run
`heap_collect`, have it). `MaxCreate`, `MaxExited` (threads that have ended, at a time), `MaxCount`, `MaxFree`, `MaxDepth`, `MaxTaken`, `MaxTicks`, `LastDay`,
`LogRecords`, `MaxFailures`, `HeapWords`, `MaxWeight`, `MaxCmac`, `MaxMd5` and `Putter` (who puts into a queue; the pool has all of `Sender`) are
the bounds in guards. A third user of the pool is needed to find a map word of two bits full. `Scale`, `Slice`, `ShortSleep`,
`PoolBits`, `MapBits`, `TicksPerSec` are small values of 1000, the ticks of a slice, 1000, 32, 32
and the frequency. The rounds of `Stribog` add a stand-in for the table C: nothing depends on it.

`CHECK_DEADLOCK` is on for the kernel, the calls, the locks, the lists and the queues: SysTick always
ticks, and a thread or a call can always go on. It is off for `timers`, `device` and `heap_collect`, whose
behaviours end: with the last tick or day, a finished cipher, a full heap.

*Fairness* (`FairSpec`): weak fairness of SysTick (the hardware ticks), of PendSV (a pending
exception is taken when the core is in thread mode) and of `Turn` (a handler continues). Threads owe
nothing: a thread may spin for ever, and round robin must hold all the same. `thread_live` has no thread
of Realtime priority, which keeps the core to itself, and no SVC_USLEEP of 0, which spins in its handler:
with either, `RoundRobin` is not what the code gives. Safety runs use `Spec`.

*Mutants.* Definitions named `Slip...` are a definition of the model with one plausible mistake (no
reset of the slice, no unlink on exit, a pop that reads the wrong pointer, an insertion before equals
instead of behind them, a comparison that does not wrap, ...); no specification uses them, and for
each property of a passing run one of them, put in place, makes TLC report that property.

## What the code does otherwise than it says

Each is a run in which TLC finds the property violated (see `findings`):

- `thread_notify`: `osThreadNotify` for the current thread sets PENDSVCLR, which may cancel the
  switch a wait has just requested; the thread then goes on without what it waited for.
- `mutex_timeout`: `osMutexWait` compares the event word with `osEventTimeout` alone (`mutex.c:49`), beside
  which the scheduler leaves `osEventRunning`: a wait that timed out returns `osOK`, against `mutex.c:37`,
  and two threads are inside. `osSemaphoreWait` has the same comparison.
- `c11_owner`: `mtx_unlock` leaves the owner, and a lock stores its own only after it has taken the
  count: a thread that locks again in between passes for a recursive owner beside the holder.
- `heap_collect`: the collection compares the end of its free block with `last_block` and then stores
  `last_block`, while an allocation moves it with a compare-and-exchange: a block allocated in between is
  given out again (`malloc.c:67-68`).

Met while modelling, without a run of their own. The models have the code as it is where the behaviour
is one of theirs; where a call cannot be followed further (it never returns, reads through NULL, or
does not compile) the model says so and leaves it out.

*Kernel and calls.*

- `osSemaphoreAcquire` (`semaphore2.c:58`) and `osMemoryPoolAlloc` (`memory_pool.c:86`) compare the event
  word with `osEventSemaphore` alone, beside which the scheduler leaves `osEventRunning`, and take a grant
  for an error: the token is lost. `Sync` has all the comparisons; `Exclusion` is about the calls that fail
  on a timeout, `NoTokenLost` about those that succeed on a grant.
- With the `thrd_exit` of `thread.c` a thread never leaves the ring: SVC_SIGNAL has no handler.
- SVC_CLOCK_WAIT has no handler either (`svc.h:10` names it). Everything that waits by it returns at once:
  `pthread_rwlock_wrlock`, `mtx_lock` of a mutex that is taken, `cnd_wait`, the waits of `pthread_mutex`,
  `pthread_cond`, `sem_wait` and so `pthread_barrier_wait`. `osEventClockWait` then reads its result
  through a pointer that is NULL (`pthread.c:77-85`), the calls of C11 read the word of an earlier wait.
- `osFlagsWaitAll` has the value of `osEventRunning`, so a wait with it does not wait.
- A wait for several signals ends with the first: the comparison with the whole mask is commented
  out (`thread.c:792`), although `cmsis_os.h:686` says "wait until all specified signal flags set".
- `osEventWait` and its users multiply `osWaitForever` by 1000 before the handler compares it, so
  such a wait times out after about 71 minutes (`thread.c:902`).
- The loop of `svc_handler_usleep` has its condition the wrong way round (`thread.c:235`): a short
  sleep returns at once, except one of 0, which spins.
- Where the conditional store of `r3_slice.c:33` compares values (Cortex-M0, Intel), a node popped and
  pushed again between load and store makes a stale next pointer the top. `AtomicList` has this
  under `ValueCAS`.

*Queues and pools.* Equal priorities of one batch of messages come out in reverse
(`message_queue.c:95`). In `pool.c` the size of an element is counted in words (46) and used as bytes (68),
so elements overlap; `mail.c` and `message.c` keep the link of their queue in such an element. The last map
word may have bits beyond the pool. `osPoolFree` returns `osErrorResource` for a block that was allocated
(131) and `osOK` for one that was not, against its comment (115). `osMessageGet` reads through NULL after a
timeout. `ocl.c:474` pushes one node once for each command that waits.

*Locks.* `pthread_once` returns before the initialiser is done (289). `pthread_cond_wait` links the mutex
itself and does not unlock; `cnd_timedwait` stores 0 in the count instead of unlocking, and leaves its node
behind. A thread that is killed never signals `thrd_join`.

*Timers.* `osTimerStart` of the timer at the head of the list cuts the others off; the first timer
ever started points to itself, so the cursor stays with it and later ones are looked at once.
`osTimerStop` and a once-timer that has fired leave `sigev_notify` at −1, so a new start never fires;
`osTimerStop` of a timer that is not linked never returns (`timer.c:82`). `osTimerWork2` is called by
nobody, so no timer of `ptimer.c` ever fires; a running one may be set again there while it is linked.
`timer_gettime` multiplies by 1000000. `clock_gettime` is right only if the copy reads the seconds
first, which C leaves open (constant `SecondsFirst`). `_mktime` is a day late from March 2100 and
never sets `tm_yday`.

*Configuration.* A record that reaches the end of the segment (its size counts the header), or whose
offset is 0, ends the replay, and the next append overwrites. A torn record leaves `log_offset` at the
start of the log, with the same result. The CRC of a record is put at an unaligned place and looked
for at an aligned one. A save is skipped when the RAM CRC has not changed, although the log has newer
records. A save cut before its erase lets old records be replayed over the new image. `FLASH_LogRead`
copies 4 bytes too many. Saving and logging do not exclude each other.

*Heap, services, trees.* `aligned_alloc` with an alignment above a pointer's returns an address
without the padding it computed (`malloc.c:167`). The collection may read a header that is not written yet
(148-153). Nothing looks at `heap_size`. In `service.c` a pointer is
compared with 0, so no service is ever completed, and a signal disarms a pending timer. `tree_insert`
into an empty tree inserts nothing; `tree_balance` after `tree_insert` reads through NULL unless
`tree_depth` ran first (the history `bent` keeps them apart); `tree_find` rotates the wrong way and is
called by nobody.

*File system.* `rfs_journal_init` does not compile (531). `rfs_vector_release` (196-201) frees a joined
extent that stays linked. `rfs_space` and `default_fs.space` point to the same first extent until one of
them uses it up. On a full volume the journal is given block 0, the superblock. The second search of an
allocation does not set `*actual_size`.

*Ciphers, digests, checksums.* `magma_ctr` reads `v` before it is set. The CMAC of an empty message
treats an empty buffer as a full block. `crc_from_block` of size 0 counts down from 0. The BZIP2 form
of `CRC32_update` does not compile. `md5.c` says of itself that it does not work.

*In code that is not modelled.* `signal_queue_get` takes an entry whether or not it is ready
(the semicolon at `signal.c:129`), its semaphore `rdlock` is never initialised, and `sigtimedwait` hands
it no queue. `ocl.c` creates event flags with the number of
items for a length and spins after 32 of them. A descriptor whose `open` fails is not given back
(`pdevice.c`), a device that is still linked is freed at the first close (`nlink` is never raised), and
`poll` writes the `revents` of the first descriptor only. `tss_destroy` frees the size of a key.
`r3_encode_tag` uses lengths 254 and 255 that are also its escapes; `r3_asn_encode_unsigned` shifts by 4;
`r3_asn_decode_signed` does not extend the sign of 3 bytes. `modbus_server_state` has an offset with
the wrong sign (`modbus.c:170`). The length of a UTF-8 sequence is computed wrongly for characters of
8, 12, 13 and 14 bits, and `mbtowc` drops the continuation byte.

## The proofs

All are safety properties of `Spec`, for every number of threads, semaphores, flags, stacks, nodes,
messages, timers, records, rounds, keys, blocks, pieces and every width of the clock; TLC checked each
inductive invariant on small instances first, but for those of `CryptoProofs`, which speak of all the
blocks a cipher went through. The theorems of `DeviceProofs` and `CryptoProofs` are about the
specifications of the parts (`ConfigSpec`, `HeapSpec`, `ServiceSpec`, `AesSpec`, `MagmaSpec`,
`DigestSpec`): a behaviour of `Device` is one of a part while the others keep one state.

| theorem | argument |
|---|---|
| `TypeCorrect` | one lemma per group of actions; `TypeOK` is inductive with the module's assumptions |
| `RingCorrect` | `RingInv`: the ring is the live threads, the current thread is live or has just exited, and its successor, from which the scheduler goes on, is live. The ring is the least set closed under `next`, so that splicing is reasoned about with closed sets and not by induction along the list |
| `StacksCorrect`, `RunsOnOwnStackCorrect` | `StackInv` adds: a live thread with a stack has one of the pool, main has its own, and only a thread that runs has no saved stack pointer |
| `TokensCorrect`, `ExecutingCorrect` | `TokenInv`: counts and holders add up, a parked thread holds no token it waits for, and a current thread that is not runnable has a switch pending |
| `WokenCorrect` | from `TokenInv`, by which a grant gives a token not held before: only a turn of the scheduler makes a parked thread runnable, and each way it does so has its reason |
| `FlagsReportedCorrect` | from `TypeOK`: only the flags turn leaves both bits set, and it stores the flags it found |
| `KernelImplementsEventWait` | initial states map to initial states, each action to one of `EventWait` or a stutter, using the invariants above |
| `ExclusionCorrect`, `NoTokenLostCorrect` | `SyncInv`: counts and holders add up, and for a thread inside a call its event word says how the wait stands (`Call`); who was given a token and has returned from its wait believes so, and with a call that fails on a timeout nobody else does (`Told`). The properties follow by counting |
| `ListCorrect`, `OnePlaceCorrect` | `ListInv` below |
| `ListImplementsFreeList` | a call takes effect at its conditional store: a pop is `Alloc`, a push of one node `Free`, of a batch `Grow`; all else stutters |
| `RWExclusionCorrect` | `RWInv`: until a `wrlock` of a taken lock has reported it, the count is 1 less 2 for each reader, or 0 with one writer |
| `SyncTypeCorrect` | `SyncTypeOK` is inductive with the type invariant of `EventWait` |
| `OnePlaceCorrect` (queues) | `PlaceInv` below |
| `QueueImplementsFifo` | with `PlaceInv` each step maps: a put takes effect at its conditional store, a get where the first node of the receiver leaves its list or the chain it has taken; all else stutters |
| `HighestFirstCorrect`, `EarlierChainFirstCorrect` | `OrderInv`: the list is sorted and the cursor stands behind messages of enough priority (`Ordered`), and what was there when the token came has not gone (`Served`) |
| `TokenFindsMessageCorrect` | `CountInv`: the tokens, those that senders have still to add and the one the receiver has taken off are as many as the messages in chain, batch and list |
| `TimeWasNowCorrect` | `ClockInv`: a copy whose seconds are still the clock's is of a moment since the call; if they are not, the comparison sees it |
| `TimerOnTimeCorrect` | `StampInv`: the word of a timer is that of the instant it counts from, except between two stores of a start, which a tick does not look past; then a comparison that wraps is right |
| `CalendarCorrect` | `CalendarInv`: the wall has `LocalTime` of the day. A day further the century, the year from March on and the month go on or start over (`Centuries`, `DayTurns`, `MonthTurns`), each just where the date on the wall does (`LeafTurns`); without bound on the days |
| `MultiplicationsDivide` | the multiplier is a power of two over the divisor, rounded up; for a word of 32 bits (31 for `rem7`) what it adds stays below what is missing to the next multiple: linear arithmetic for each divisor (`Div5` to `Div86400`) |
| `SignalsOnceCorrect` | `ServiceInv`: only the service at hand runs, and what its timer runs it for carries no signals of an earlier call |
| `HeapTiledCorrect` | `HeapInv` while the collection has not raced: no two blocks overlap and each ends where another starts, the blocks of callers between their two steps included; the block the collection joins to is free and has a header, so that what it joins, or gives back, was nobody's |
| `NothingInventedCorrect` | `InventInv`: every CRC in flash, whole or in a log half overwritten, is of words that were saved or logged; the segment does not change while it is saved |
| `LoadRestoresCorrect` | `RestoreInv`: the log is the records of the stages one after another, then at most one without its CRC, then erased flash (`LogHolds`); the next record goes to the end of them, or over the first (`AtRecord`) |
| `MagmaRestores` | `MagmaRetraces`: there are the pairs of words that encryption went through (`MagmaTrail`), and decryption stands before a turn with the pair encryption had after it, crossed. A turn undoes a turn because `Xor` takes itself back, whatever `g` gives as long as it is a word |
| `AesRestores` | `AesRetraces`: there is the schedule that KeyExpansion made and the blocks that encryption went through with it (`AesTrail`), the schedule of decryption is that one by `InvMixColumns` inside, and decryption stands with the block the tables gave in the round it has come back to. `UnmixedOfMixed` and `UnmixedOfSum` below |
| `DigestOfWholeCorrect` | `DigestLeads`: while a digest is open, the blocks so far are whole pieces of the message from its first byte, as many as have come, and the buffer holds the bytes after them; a closed one has the blocks of the padded message (`CmacFiniKeeps`, `Md5FiniKeeps`, `StribogRestKeeps`) |

*Why `PlaceInv` is needed.* A conditional store of a queue succeeds when the top is the node that was
loaded, which may have left the chain and come back since. `PlaceInv` says what the pointers of chain,
batch and list spell out (`PointersExact`), that no two places share a node (`Apart`) and what each
program counter says of the node in hand (`Stages`), so that a stale top does no harm: the node pushed
is linked to the top there is.

*Why `ListInv` is needed.* `ListExact` is not inductive: a pop stores a pointer that it read two steps
before. `ListInv` adds `Loaded` (while the reservation lasts, what was loaded is still so), `Segments`
(a chain about to be pushed is one held node, or a batch of fresh linked ones) and `Apart` (no two
places share a node, so that writing over a held node or a chain leaves the list alone).

*Why `gmul_ivec4` undoes `gmul_vec4`.* Both are written as sums of doubled columns, turned by 1 to 3
bytes. A byte of the result is the sum of five bytes, or doubled bytes, of the column (`Mixed`), and of
eleven for the inverse (`Unmixed`); doubling passes through sums (`DoubleOfSum`), so a bit of the two one
after the other is a sum of 55 bits, in which every one but that of the byte itself comes an even number
of times (`UnmixedOfMixed`). Since `Unmixed` passes through sums as well (`UnmixedOfSum`), AES_decrypt may
add the key after InvMixColumns, if the key has gone through it: `BlockMixedSum`.

*Assumptions.* The named ASSUMEs of the modules; in addition no interrupt calls `osThreadNotify`
(`NotifyTargets = {}`) for the theorems of `ThreadProofs` about tokens and flags, since
with it `ExecutingIsRunning` is false (`thread_notify`). The rest excludes what the list above says of
the code: no wait for flags has the option `osFlagsWaitAll` (`FlagsReportedCorrect`); access is exclusive
(`~ValueCAS`) for the theorems of `AtomicListProofs`. Where the code breaks a promise the property says up to
when or of which calls it holds, and the theorem assumes nothing: `Exclusion` and `NoTokenLost` name the
calls, `RWExclusion` ends with `misled`, `HeapTiled` with `raced`.
For the queues the senders, kinds and priorities are finite sets (`SenderAssumption`, `KindsAssumption`,
`PriorityAssumption`). `TimeWasNowCorrect` needs the copy to read the seconds first (`SecondsFirst`), which C
leaves open; `LoadRestoresCorrect` needs the logged words to lie
where a header can say so (`RecordsFit`: for the last word of the segment TLC finds a completed record
that is not restored). `SignalsOnceCorrect`, `HeapTiledCorrect` and `NothingInventedCorrect` need
nothing more. `AesAssumption`, `MagmaAssumption` and `DigestAssumption` say that keys, blocks and lengths are
such. `TablesAssumption`, that the tables of the S-box undo each other, is about 256 constants and not
about a parameter: TLC evaluates it in full on every run of `Device`, and what it says is proved of
nothing else than those tables.
"No more threads than stacks" is part of `ThreadAssumption`: the code says so in a comment and does not
check it.

*Only model-checked.* `RoundRobin` and `NoIgnoredWakeup`: liveness under fairness is out of the prover's
reach. `TreeHolds` is about a recursive structure and needs induction over it; `FastAgrees` is about
remainders of messages of whatever length, which are folds, and about the examples of the tests.

## Not modelled

- *No behaviour of its own:* the signal queues, of which that in `thread.c` refuses every put
  and that in `signal.c` is handed to nobody; the
  pipe, whose update is in a comment; the command queue, written for devices that are not there;
  the registration of devices and descriptors, tables of callbacks into drivers that are not in the
  repository; the tracer, which only writes.
- *Contents of messages:* properties and services of the object server, ASN.1, Modbus, DLMS, the
  socket layer, the ELF loader: sequential code over external formats, whose correctness is agreement
  with a peer and not a relation between its own states.
- *Calls that come down to a missing system call:* `pthread_mutex`, condition variables of either kind,
  barriers and semaphores of `pthread.c` wait by SVC_CLOCK_WAIT, for which nothing is registered. They do
  not wait, so they have no protocol between waiters and signals to state a property of. POSIX timers are
  never looked at.
- *Queues over overlapping elements:* `mail.c`, `message.c` (see `pool.c` above).
- *Unfinished:* the file system `r3_fs.c`, which does not compile.
- *Text and numbers:* printf, strtol, UTF-8, strftime: their properties are about digits.
- *Arithmetic on long words:* Galois counter mode, the compression function of MD5, the closing sums of
  Stribog, the `#if 0` parts of `aes.c` and `kuznyechik.c`. lz4 and lzjb2 have a decoder and no
  encoder to be its inverse.
- *Sorted and linked lists* of `r3_slist*.c` and `bsearch`: sequential, a few lines each, well tested by
  examples. The atomic list of values (`r3_ttl_list.c`) uses the operations `AtomicList` has.
- *Parts of modelled components*, named in the notes of `components`: information and delete calls,
  join, thread-specific storage, alignments, several configuration segments.

*Share of the code.* Of the lines of the repository about a third are code of C files that is compiled;
the rest is comments, interface headers of CMSIS, tables and code under `#if 0`. The map covers some
12% of all lines and so more than a third of what could be modelled at all; the remainder is in the list
above.

## Plan

1. *Done:* `Thread` over `EventWait`, `Sync`, `AtomicList` over `FreeList`, `Locks`, and their proofs;
   `Queue` over `Fifo`, `Timers`, `Device`.
   The theorems of the queues, the timers, the calendar, the heap, the configuration, the services, the
   ciphers that decrypt and the digests.
2. Compositions: `osMemoryPoolAlloc` as `Sync` over `AtomicList`, with the block that a grant taken for an
   error loses; the mail that waits for its pool, once its elements lie apart.
3. The locks, condition variables and barriers that wait by SVC_CLOCK_WAIT, once it has a handler.
