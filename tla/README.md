# A TLA+ model of the perspicua kernel

perspicua is an AArch64 UNIX-like kernel in C with a small user land. This
directory holds TLA+ modules translated from its source, the TLC
configurations that check them on small instances, and proofs that TLAPS checks
for every instance.

    tlc -workers 2 -config MCSched.cfg MCSched     # a run
    tlapm SchedProofs.tla                          # a proof module

`PROJECT.json` lists, for every definition, the source lines it models; for
every run, what it checks; for every property, a faulty variant of the model
that breaks it; and the hazards of the code with the properties that cover them.

## The system

| part | source (`src/kernel/`) | modules | what makes it hard |
|---|---|---|---|
| scheduler, timer tick | `sched/sched.c`, `arch/switch.S` | `Sched` | a task made ready while its core still runs on its stack; release of the stack one is on |
| wait queues | `sched/wait.c`, `include/sched/wait.h` | `Sched`, `Pipe`, `Tty`, `Sd` | a wake-up between the test and the sleep |
| spinlocks, lock validator | `core/lock.c`, `core/lockdep.c` | `Lockdep` | orders that go round through a third lock |
| sleeping mutex | `core/mutex.c` | `Sd` | barging; ownership after a wake-up |
| processes | `sched/process.c` | `Process`, `UserMemory`, `Vfs` | reuse of pids, orphans, the unlocked windows of fork and exit |
| signals, job control | `core/signals.c`, `core/syscall.c` | `Process`, `SignalFrames` | a sender and a sleeper that look at each other; stop against continue; handlers that nest over restarted calls |
| address space identifiers | `mm/asid.c` | `Asid` | rollover while others run; exec and exit preempted with a base in a register |
| page tables, program loading, mmap | `mm/mmu.c`, `core/elf.c`, `core/syscall.c` | `UserMemory` | copy on write outside the lock; undoing half a call |
| page, heap and slab allocators | `mm/pmm.c`, `mm/heap.c`, `mm/slab.c` | `Pmm`, `KernelHeap` | long sequences of splits and merges; a pool that grows outside its lock |
| pipes | `fs/pipe.c` | `Pipe`, `ByteChannel` | lost wake-ups, partial writes, last close against sleepers |
| page cache, block cache | `fs/pagecache.c`, `driver/block.c` | `PageCache`, `BlockCache` | I/O outside the lock between a test and its use |
| FAT32 | `fs/fat32.c` | `Fat32`, `Readdir`, `PageCache` | a sequence of block writes that fails or loses power half-way |
| VFS, procfs | `fs/vfs.c`, `fs/procfs.c` | `Vfs`, `Readdir` | references shared by fork, unlink and a path walk; listings over several calls |
| terminal, UART | `core/tty.c`, `driver/uart.c` | `Tty` | an interrupt that is armed, disarmed and raised by three parties |
| SD card | `driver/sd.c` | `Sd` | a completion that comes after its time-out |
| init | `src/user/apps/init.c` | `InitLoop` | the reaper of everyone's orphans also forks, sleeps and fails |
| shell | `src/user/apps/sh` | `Shell` | stages that exit or stop while the pipeline is being built |

The parts meet in a few places. Everything that sleeps does so through a task
state of the scheduler; signals wake tasks out of wait queues; fork, exec and
exit tie the process table to address spaces and to open files; the pipe is an
open file on top of two wait queues; both caches sit between the file systems
and the block driver. Where a part depends on another, its module has of the
other what it can see: `KernelHeap` extends `Pmm` and shares its state,
`PageCache` has the `fat32_lock` of its callers, `Sd` the mutex, `Shell` what the
kernel's job control calls do for it.

## The modules

The grain of a step is what another actor can see: a section under a lock, a
transfer outside it, or one atomic access. Operators whose comment says what is
wrong with them are used by no specification: they are the bugs that the
properties are shown to catch.

**Sched.** `state`, `on_core`, `rq`, `prev` (`sched_prev_task`), `cleanup`
(`sched_cleanup`) are the variables of the code. `cur` is `tpidr_el1` and `stk`
the stack a core really executes on; they differ inside the context switch,
which is where the code is delicate. `tpc` and `cpc` are program counters of
tasks and cores, `hand` the task a waker has made READY and not queued yet. Time
is abstracted: a drain finds any subset of the sleep queue expired.

**Asid.** A TLB is the set of translation bases (table, ASID) it has cached
walks of. Destroying a table turns its cached entries into entries of memory
that belongs to nobody, so a missing flush shows. `Speculation` lets the walker
of a core also run ahead in kernel mode; the runs set it to FALSE. The theorem on
`TlbIsolation` needs that, the others hold for both values.

**Process.** A task is ACTIVE, BLOCKED or STOPPED; which core runs it is left to
`Sched`. `pc` names the windows between the locked sections of fork, waitpid,
kill, delivery and exit. `resumed` is a history variable: no stop signal was sent
since the last SIGCONT. **InitLoop** lets process 1 run its own program instead of
any call it likes: `loop` is its place in it (before the fork, after a fork that
failed, in the waitpid loop, after the shell's exit) and `shell` its `shell_pid`.

**SignalFrames.** One process: the frames that delivery pushes and sigreturn pops,
on the main and the alternate stack; masks, with the one sigsuspend displaces;
SA_RESTART, SA_NODEFER, SA_RESETHAND, SA_ONSTACK; a fault that raises SIGSEGV; a
read, sigsuspend and nanosleep that are interrupted and issued again. `user` is
what the program expects to find: its mask and the end of its sleep at each
level of nesting.

**Lockdep.** Each core is one thread that takes and gives back spinlocks in any
order it likes. `held_locks`, `lock_nodes` and `graph_edges` are the validator's
records and its graph; `at` says where in `spin_lock` or `spin_unlock` a core is, the loop over
the held locks included. A panic ends the machine.

**Pmm**, **KernelHeap.** The operations of the page allocator are operators from
one state `pmm` to the next, because they run under `pmm_lock` within steps of
others. `refs` is what the clients own and `claimed` the addresses that boot code
reserved. In `KernelHeap` cores run `kmalloc` and `kfree` in the steps that
`heap_lock` and the slab lock separate. Addresses are in units of which several
make a page, so that headers, footers and splits are exact.

**UserMemory.** `space[p]` is the table and the region list of a process, `count`
the references of the pages, `data` what they hold and `view[p]` what the process
must read there. The calls that build or destroy a space are one step,
with every allocation in them free to fail; a copy-on-write fault goes through
the steps that `mmu_lock` separates.

**BlockCache**, **PageCache.** A request is what a task has left to do; a transfer
to the disk is a step between two holds of the lock. `expected` is what the last
completed write of a page left. `unsure` and `spoiled` name the blocks and pages
set apart below.

**Fat32.** `vol` is the disk: two FATs and the sectors of the directories. An
operation is one action, because `fat32_lock` is held throughout, but each of its
block writes is counted and one of them may fail, or be the last before the power
goes. `vn` are the vnodes in memory, `orphans` the files unlinked while open,
`kept` the files whose name the last operation was not to take. `scar` names the
damage that the code does not repair, and `strays` are the clusters known to have
leaked; both are described under "Set apart".

**Vfs.** `nodes`, `files`, `fd_table`, `cwd` and `mounts` with their reference
counts; `call[p]` is where process `p` is in a path walk and what it holds there.
`loose` is set when a reader of `/proc/<pid>/cwd` took a vnode that was already
freed. **Readdir** is one listing, read in batches, over the three phases of
`vfs_readdir` and the slots of a FAT32 directory, cluster by cluster; a read of a
sector or of a FAT entry may fail, and `cut` says that a FAT entry did.

**Pipe.** The ring, the two ends and the queues are those of `struct pipe`. The
tasks that hold the file of an end stand for its reference count (several
descriptors of one task count once), and the last one to let go runs
`pipe_close` in a step of its own, since `vfs_file_put` drops the count before it
takes the lock. A queue is a set because only `wq_wake_all` is used on it. Bytes
are numbered modulo `Modulus`. **ByteChannel** models no code: it is what a pipe
promises.

**Tty.** Writers, readers, the interrupt handler and a core that prints, against a
PL011 with its FIFOs, its interrupt level and its mask; `act` is where each of
them is. **Sd.** Tasks in the read and write calls and the boot task in `sd_probe`;
the controller and the card (`ctl`, `card`, `interrupt`) are external and answer
late, never or with an error. **Shell.** `sh` are the locals of `execute_pipeline`
and of `fg`, `proc` the children with their groups, pending signals and pipe ends.

## Runs

| run | configuration | distinct states | shows |
|---|---|---|---|
| `sched` | `MCSched.cfg` | 537,048 | stacks are exclusive, queue links single, READY tasks queued, timers belong to their wait, no panic |
| `sched_live` | `MCSchedLive.cfg` | 69,812 | a READY task runs |
| `asid` | `MCAsid.cfg` | 600,540 | ASIDs are unique, no base dangles, user mode never hits a foreign TLB entry |
| `asid_exec` | `MCAsidExec.cfg` | violation | the TLB property without the restriction of `asid` on exec |
| `proc` | `MCProcess.cfg` | 154,916 | parents live, waiters hear of zombies |
| `proc_live` | `MCInit.cfg` | 19,435 | init reaps unless its forks go on failing; SIGKILL kills whoever waits, sleeps or is stopped |
| `proc_jobs` | `MCProcessJobs.cfg` | 338,695 | deliverable signals end sleeps; no stop after a later SIGCONT; waiters hear of stops |
| `proc_ignore` | `MCProcessIgnore.cfg` | violation | the SIGCONT property for a process that ignores SIGCONT |
| `pipe_live` | `MCPipeLive.cfg` | 24,402 | signalled calls and calls whose other end is gone return |
| `memory` | `MCMemory.cfg` | 999,210 | allocators lose and duplicate nothing, private memory is private, the block cache agrees with the disk, handlers return to what they interrupted, cores never spin in a circle |
| `storage` | `MCStorage.cfg` | 468,636 | the page cache agrees with the last write; FAT32 keeps chains, clusters and names through faults; every reference is counted; listings are complete |
| `blocking` | `MCBlocking.cfg` | 886,174 | the pipe implements `ByteChannel`, no wake-up is lost on pipes, terminal and mutex, transfers are real, the shell leaves nothing behind |

`memory`, `storage` and `blocking` are suites: the initial state picks one of
several instances that share no state (`part`), and only that one moves. The
properties of the parts that do not run hold there by their initial state.

### Bounds

* `sched`: two cores with their idle and boot tasks and one process task. Every
  race of the switch is between two cores over one task; the boot tasks are
  further runnable tasks, so queues of several entries and stealing past
  ineligible ones occur. The theorems remove the bound.
* `asid`: two cores, three processes, four tables, two ASIDs and two generations:
  three processes on two ASIDs force the rollover, and the fourth table is the
  new image of an exec. At most one process is in the tail of exec or exit at a
  time (`OneTail`). The theorems remove these bounds.
* `proc`: four processes on five slots, the least in which an exit has to tell
  both a parent other than init and init. Signals and groups are left out. The
  theorems on `Process` have them, and remove the bounds of this run and the next.
* `proc_live`: init with its program, its shell and one more process on four slots
  and three task structs. The initial state chooses between processes that leave
  each other as orphans and processes that send each other SIGTSTP and SIGKILL,
  twice at most, while they wait, sleep and stop. What the instance
  leaves out never disables a step that fairness is about.
* `proc_jobs`: init and one child with every call it has, two signals sent by
  programs (`MaxSends`), three task structs so that a dying task coexists with
  the next owner of its slot.
* `pipe_live` and the pipe of `blocking`: two bytes of ring, counts 0, 1 and 3
  (nothing, a part, more than the ring), two or three tasks named in the order of
  their birth, of which the second is sent signals; any may get SIGPIPE.
  `Modulus` is 4, so a byte is not mistaken for the one that was in its slot
  before. Nothing else is bounded: the ring turns for ever.
* `memory`, pages: six pages up to order 2 with reserved ranges that begin, end
  and overlap inside pages, and counts of at most 2. Heap: the same pages, two
  cores, two objects per slab page, requests of two sizes to a pool that has to
  grow, three live at a time (`MaxLive`). Spaces: eight pages for two processes.
  The smallest image takes four, so an exec succeeds when nothing else is mapped
  and fails otherwise; a fork runs out at its first table, or at its
  second with half of the parent's entries already shared; an mmap of two pages
  runs out between them. One image has two segments on a page, one does not fit.
  Blocks: three blocks, two cached, requests of one and two blocks that overlap.
  Frames: a signal that terminates and one that stops, every handler flag, room
  for one frame on the main stack and two on the other, three ticks; the program
  installs its handlers before anything else (`SetUpFirst`). Locks: three cores
  and three locks, the least in which a circle goes through a third lock; the
  theorem removes the bound.
* `storage`, pages: two pages of one file in a cache of one page, so every use
  evicts; one task writes, truncates and unlinks, the other reads and syncs.
  FAT32: four clusters of three slots (the first one is the root), three names of
  which one is long and one a directory's, two vnodes, files of two pages, four
  operations (`MaxOps`) of which any one write fails or is the last
  (`MaxFaults`). VFS: two processes, two descriptors each, two open files, four
  vnodes, a mount, paths with `..` across it. Listing: four slots, three names of
  which one is long, clusters of two slots of which any read may fail, two mounts,
  buffers of one to three entries.
* `blocking`, terminal: a ring of three slots, FIFOs of one byte, two writers of a
  byte or a newline; once with kernel messages and no input, once with input and
  a reader and no messages. Card: two blocks, sizes modulo 4 so that a request
  past the end and one that wraps occur, two tasks. Shell: two children and two
  stages.

Deadlock is checked except where the system may really stop: in the job runs and
in `proc_live` a parent may wait for a stopped child and nobody has a signal left
to send; the
suites hold a machine that panicked, a process that was killed, a FAT32 part
after its last operation and a pipe without files.

### Fairness

* `Sched`: weak fairness of a core's steps inside the kernel, which run with
  interrupts masked and never wait; strong fairness of `Schedule`, the timer
  interrupt that comes again whatever the core does in between.
* `Process`: weak fairness of a task's steps in the kernel (what `ReadyRuns`
  provides); strong fairness of signal delivery, which is on every way back to
  user mode.
* `InitLoop`: the same, and weak fairness of init's steps: it goes on with its
  program and its sleeps end. Where the program leads is not assumed.
* `Pipe`: weak fairness of woken sleepers and of a close that has begun. No
  program is assumed ever to read, write or close.

The other parts have no liveness run. "Nobody sleeps in vain" is stated there as
an invariant instead (`SleepersHaveToWait`, `MutexHandsOver`, `TerminalWakes`):
whoever sleeps has a reason to, or a waker on its way.

## Findings

* **exec and a rollover** (`asid_exec`, `sched/process.c:673`). exec makes sure of
  a valid ASID and then reads `p->asid` again with interrupts enabled. Preempted
  between that load and the `msr`, it can come back after a rollover and install
  an ASID that another process owns. `asid` checks the same property with that
  one preemption left out, and it holds.
* **an ignored SIGCONT** (`proc_ignore`, `core/signals.c:148`). A stop signal is
  popped before the lock is taken; whether a SIGCONT came in between is read off
  the pending set, which an ignored SIGCONT never enters. The process stops
  after the SIGCONT.

### Where the code and its comments part

Six further properties are stated in the modules, each in the words of a comment
of the source, and TLC finds each of them violated. No run is kept for them; to
see one, give the configuration the specification named here and the property as
its only invariant. Where a passing run has the weaker form of one, it sets apart
exactly the case described.

| property | configuration, specification | what happens |
|---|---|---|
| `WritersWake` | `MCBlocking`, `OutputSpec` | `tty_pump_tx` tests the ring once to wake writers and again to keep the interrupt on (`core/tty.c:63-80`); a kernel message that empties the ring in between leaves a writer asleep with the interrupt off. The comment at `tty.c:329`: "Arms the TX interrupt, which is what wakes us once space frees up." `TerminalWakes` is the rest. |
| `LateCompletionsDropped` | `MCBlocking`, `CardSpec` | the handler reads the status (`driver/sd.c:205-208`) and posts it after `sd_send_cmd` has cleared what was pending: a completion of an abandoned request satisfies the next one, against the comment at `sd.c:234`. `TransfersAreReal` is the rest. |
| `HalfBuiltTakenDown` | `MCBlocking`, `ShellSpec`, with `Pids = {1, 2, 3}` and `MaxStages = 3` | a stage forked after its leader has exited stays in the shell's own group, so the kill of the job's group misses it. `sh/exec.c:366`: "A half-built pipeline is taken down and reaped, not left running." |
| `SleepsOnce` | `MCMemory`, `Spec` | an interrupt between the rewind of a sleep and its re-issued `svc` clears `sleep_resume_at` (`core/signals.c:312`), and the whole time is slept again, against the comment at `core/syscall.c:595`. |
| `NothingWritesThroughFreed` | `MCStorage`, `ReleaseSpec` | sync has pinned a page and dropped the lock when the last reference to its vnode goes; it then writes through that vnode. The passing run lets vnodes go only while sync uses none of their pages. |
| `StampIsCurrent` | `MCStorage`, `Spec`, with `MaxOps = 5` or more and `MaxFaults = 0` | another vnode of the file grows it between the revalidation of this one and its write or truncation; one of these that changes nothing then stamps the vnode as current with its old size (`fs/fat32.c:2318`, `2475`), against the comment at `fat32.c:609-613`. |

### Set apart in the passing runs

* `BlockCacheCoherent`: blocks on which a write and another request met between
  a transfer and the update of the cache, which only raw access to `/dev/<disk>`
  beside the file system brings about; and blocks whose multi-block write failed.
* `ReadsSeeWrites`: pages that a truncation, a delete or a failed write could not
  remove because sync had them pinned.
* `ChainsSound`: five kinds of damage that the code does not repair, the values
  of `scar`.
  - `link`: a link whose write to the second FAT failed is rolled back by freeing
    the new cluster, which the first FAT already names (`fs/fat32.c:410-413`).
  - `cut`: a truncation frees the tail although it could not end the kept part
    (`2462-2467`).
  - `names`: a rename could not clear the old name, and the file has two
    (`2143`); removing one takes the clusters from the other.
  - `stale`: a directory was linked to a new cluster that could not be zeroed
    (`1650`).
  - `alias`: an entry without a cluster, matched by its name alone, is another
    file's.

  After the first three the property still asks that the pages of every recorded
  size are allocated and belong to one file; of the other two nothing is asked.
  The volume goes no further after any of them, so what later operations make of
  the damage is not covered: a file may then lose data. `NameKept` is checked up
  to and in that state.
* `NothingLeaks`: the same five, and `strays`: clusters that an interrupted
  operation left, and two leaks that need no fault. A file without a cluster
  that is written after it was unlinked gets one that its last close does not free
  (`fs/fat32.c:73`, `879-884`), and so does what is put into a directory that was
  removed while open.
* `NameKept`: the file renamed into a directory that is itself removed.
* `RefsAccounted`: `process_exit` puts `p->cwd` without the `fd_lock` and clears it
  afterwards (`sched/process.c:741-743`); a reader of `/proc/<pid>/cwd` between the
  two takes a reference to a vnode that may be freed (`fs/procfs.c:364-368`). The
  property asks that this is the only way to reach a freed vnode, and the instance
  stops there.
* `ListedOnce`: a FAT entry that cannot be read ends the walk as the end of the
  directory does (`fs/fat32.c:1725`, `1812`), so a listing is short and reports no
  error. Such listings (`cut`) are not asked to be complete.
* `InitReaps`: init whose fork fails sleeps and forks again with no waitpid in
  between (`src/user/apps/init.c:30-34`). If zombies of its own fill the table, it
  does so for ever, although its comment (`43-44`) has it reap the orphans it is
  given. Without the premise on `loop`, TLC shows that behaviour.

Other things the translation showed and no property is about: O_APPEND takes its
offset, and rename its ancestor check, before `fat32_lock`; the position of a
directory that two processes share after fork is updated without a lock; ACMD41
succeeding at the last try is reported as a time-out (`driver/sd.c:361-373`);
`lockdep_release` is called before the store that gives the lock back, where
`lockdep.h` says after; the shell keeps one stopped group and drops segments past
the sixteenth.

## Proofs

| module | content |
|---|---|
| `SchedProofs` | invariant, preservation and theorems of `Sched` |
| `AsidProofs` | the same of `Asid`; then the invariant on the TLBs |
| `ProcessInv` | the invariant of the process table, its preservation, and what follows from it alone |
| `ProcessProofs` | three invariants on top of it: signals, job control, waitpid |
| `PipeProofs` | invariant, preservation and theorems of `Pipe` |
| `LockdepProofs` | the same of `Lockdep` |
| `SdProofs` | the same of `Sd` and its mutex |
| `PageCacheProofs` | the same of `PageCache` |

They assume what the modules' named `ASSUME`s state: at least one core, the null
values distinct from tasks, processes, tables and cores, idle, boot and heap
tasks distinct from each other, finitely many locks, a ring of at least one byte,
at least two process slots and no handler for SIGKILL, a card of at least one
block, finitely many users of the page cache and numbered hash buckets. What a
theorem assumes beyond that is part of its statement.

**Scheduler**, for any number of cores and tasks: `TypeCorrect`,
`StacksNeverShared`, `NeverQueuedTwice`, `WakeUpsAreKept`, `TimersBelongToWaits`,
`PanicsUnreachable`. None of the properties is inductive. `StackExclusive` talks
of cores; what keeps it is a fact about tasks: `on_core[t] = c` exactly when `c`
runs `t`, executes on its stack, or still has to release it through
`sched_prev_task` (`OnCoreInv`). rq_dequeue takes only tasks with `on_core = -1`,
so what it takes is on no core. That a task is queued once needs that what a
waker has in its hands is READY, unqueued and in no other hands (`HandInv`): the
CAS to READY is what makes one waker win. `CleanupInv` and `PlaceInv` tie a dead
task to the core it died on and a task's state to its own operation; `SleepInv`
says who may be in the sleep queue.

**ASIDs**, for any number of cores, processes, tables, ASIDs and rollovers:
`TypeCorrect`, `AsidsAreUnique`, `TablesNeverDangle`, `NoForeignTranslations`. `PoolInv` adds to uniqueness
that no generation is ahead of the pool's. `TableInv` says that a table belongs
to one process, as its current or its old one, according to its place in exec or
exit. `CoreInv` says that a process is on one core at a time and which of its
tables that core's base may name at each place; freeing the old table is then
safe because by that place no base names it.

`NoForeignTranslations` is `TlbIsolation` of the behaviours of `QuietSpec`, in
which exec keeps its core between its read of `p->asid` and the `msr` (the finding
`asid_exec` shows why), with `Speculation` FALSE. `TlbInv` tells cores that have
caught up with the generation from cores that are behind. On the former every TLB
entry has an owner: a process with that ASID in this generation, whose current
table it is, or whose old one if the flush of exec or exit is still to come
(`Owned`). The latter have cached nothing but the base in use since the rollover
flushed them (`Behind`), so an ASID that is given out again cannot be hit there.
`asid_get_active` moves a core from the second kind to the first, and its lemma
says what becomes of every other core.

**Processes**, for any number of slots, tasks and signals sent: `TypeCorrect`,
`ParentsLive`, `SignalsThrough`, `ContinueCancels`, `WaitersNotified`. What
everything rests on is that a process and its task name each other from
`process_start_task` until the zombie is published (`TaskInv`), that a slot which
fork has claimed is touched by nobody else (`ForkInv`), that init stays, and that
a parent has a task which has not handed its children over yet (`ParentInv`).

* `SignalsThrough` adds `ThroughInv`: a sleeper has looked for signals after it
  stored its state, and a sender looks at the state after it posted the bit.
* `ContinueCancels` adds `ContinueInv`: SIGCONT takes pending stops away, and a
  task that had popped one before finds SIGCONT pending. It assumes that no
  program ignores SIGCONT, which is what the finding `proc_ignore` is about.
* `WaitersNotified` adds `WaitersInv`: a waiter over a zombie is on the list of an
  exiting task, or is init while a task that handed zombies to it has yet to draw
  up its list. It assumes that init waits for exits only (`InitWaitsForExits`), as
  `init.c:47` does: `process_exit` announces the zombies it hands to init and not
  the stopped children.

**Pipes**, for rings of any size, any counts and any number of tasks:
`NoLostWakeup`, `NobodyUsesAFreedPipe`. `SleepersHaveToWait` is preserved because
whoever changes the fill of the ring empties the queue of everyone that slept on
it (`WakesSleepers`), and a ring that is neither empty nor full has no sleeper at
all. The second theorem adds that a task is queued only within a call on that
end (`Linked`), holds the file of the end all through it (`Holding`), and that an
end is counted until the one task that put its last reference has run
`pipe_close` (`Counted`): with both ends uncounted nobody holds a file, so nobody
is in a call, so nobody is queued.

**SD card**, for any number of tasks, any card and any transfers:
`MutexIsHandedOn`, `BlocksReallyMove`. `MutexInv` says that the owner of
`sd_op_mutex` is the one task at the controller, or the probe before the card is
up, and that the queue holds the tasks that wait, once each; an unlock that finds
a sleeper is then followed by the wake-up of one. `RealInv` follows a command from
the place where the stale bits are dropped: what is in flight between controller,
handler and `sd_irq_pending` since then belongs to it, so a data bit means that
its block has moved. Bits that the handler had read before are set apart
(`reposted`), as in the table above.

**Page cache**, for any number of tasks, files and pages, any number of cached
pages, and both forms of the specification (vnodes released at any time or not
under a sync): `CachedOnce`, `ReadsReturnWrites`. `LockInv` says who is inside
`fat32_lock`. Only they add entries or change what an entry holds, so a page that
was not cached when `pagecache_add_page` dropped its lock still is not when it has
the lock again (`EvictInv`), and the disk still has what it read. `PinInv` says
that the pin count of an entry is the number of tasks that use it, hence that a
page in use is cached and stays. `DataInv` then says that disk and cache have
what the last completed write left for every page nobody is writing; the page that
is being written satisfies it again when the write has landed (`LandedInv`) or the
page of a failed write is dropped.

**Spinlocks**, for any number of cores and any finite number of locks and any
limits of the validator: `LocksNeverCircle`, `HoldersAreNotPreempted`. The
invariant `OrderInv` says that the graph is a strict order at every step,
although it is closed edge by edge, and that a core that spins for a lock the
graph knows has it after every lock it holds. Of the locks that a circle of
cores waits for take one that has the fewest locks after it: its holder waits for
a lock that has fewer, which is a contradiction. `CountInv` says that
`preempt_count` covers the held locks and the one on its way in or out.

**Only model-checked:**

* liveness, which this prover has no rules for;
* what rests on recursive operators, which it cannot reason about: `BuddySound`
  and `HeapSound` (splits and merges of `Pmm`), `ChainsSound`, `NothingLeaks` and
  `NameKept` (chains of `Fat32`), `RefsAccounted` (the path walk of `Vfs`) and
  `ListedOnce`;
* that a pipe implements `ByteChannel`, which needs arithmetic modulo a symbolic
  ring size;
* `PagesAccounted`, `PrivateMemory`, `RegionsAreMapped`, `BlockCacheCoherent`,
  `HandlersReturn`, `TerminalWakes` and `BackAtPrompt`, for which no inductive
  invariant has been worked out.

## Not modelled

* Boot, the device tree, the kernel's own map, the display, the debugger, the
  exception vectors and the interrupt controller: they run once, or move bytes
  and registers without state that other parts share. Interrupts are modelled by
  their effect. The polling path of the SD driver runs only without a device tree
  entry for its interrupt.
* procfs and devfs but for `/proc/<pid>/cwd`: they format the state of others.
* Canonical input and echo of the terminal, which nothing turns on;
  `tty_session_exit`; the shell's parser and line editor.
* Bounds checks of ELF headers, FAT32's boot sector and FSInfo, and FAT32 running
  out of kernel memory; a page of a file without a cluster written back by
  `fat32_write_page` itself (`fs/fat32.c:714-725`).
* The user library: sequential code on one process's own memory.
* The composition of the modules. Each has of its neighbours what it can see of
  them; that, say, the sleep of `Pipe` is a sleep of `Sched` is an assumption on
  which both rest, not a checked refinement.

Memory is sequentially consistent in all modules: the code uses sequentially
consistent atomics and locks at the places modelled.
