# A TLA+ verification of the NovariaOS kernel

NovariaOS is a small x86-64 kernel whose programs run as bytecode in the NVM, a
virtual machine inside the kernel.  This directory keeps TLA+ models of the
kernel's parts, TLC configurations that check them on small instances, and
TLAPS proofs of the main invariants for every size.  Each definition is a
translation of C code; `PROJECT.json` maps it to its lines.

## 1. Inventory

| Part | State | Operations | Interacts with |
|---|---|---|---|
| NVM scheduler (`nvm.c`) | `processes[]`, `current_process`, `timer_ticks` | create, tick, slice loop | shell, keyboard loop (they call the tick), syscalls |
| Instruction set (`instructions/*.c`) | ip, sp, fp, stack, locals, heap of a process | 43 handlers | scheduler |
| Syscalls (`syscalls.c`) | message queue, `next_offset`, process table | exit, spawn, files, messages, ports | VFS, procfs, memory, capabilities |
| Capabilities (`caps.c`) | a list per process | has, add, remove, copy | syscalls, shell |
| procfs (`procfs.c`) | 64 entries, an argument table | register, unregister, set/clear args, open, read | process life cycle, VFS |
| Work queues, spinlock, SMP (`arch/`) | a locked ring per CPU, CPU states | submit, run, pending, start-up | all CPUs |
| Memory (`mem/`) | buddy bitmaps and counts, per-CPU pools, slab pages | kmalloc, kfree and what they call | everything |
| VFS, devfs (`vfs.c`, `devfs.c`) | files, 64 handles, mounts, devices | open, read, write, seek, close, delete, mount, umount | file systems, syscalls |
| File systems (`ext2.c`, `fat32.c`, `iso9660.c`, `inode.c`, `bitmap.c`) | on-disk structures, inode cache | mount, allocate, extend, truncate, directory changes | block devices |
| Block devices and drivers | device table, queues, rings | read and write blocks, poll, keyboard input | file systems, shell |
| Shell, boot (`shell.c`, `kernel.c`) | input line | start programs, drive the scheduler, initialise | everything |
| Console, graphics, crypto, ELF, time | registers, pixels, tables | conversions and output | - |

Behaviours that are hard to test: the interleaving of process instructions with
the shell's commands; reuse of process slots whose fields, stack, mail and
procfs entries survive their previous owner; allocation that fails in the middle
of a creation; arbitrary bytecode at the edges of stack, code, heap and of
32-bit arithmetic; CPUs inside the same ring; a lock that is not fair; tables of
descriptors, handles and mounts that run full in the middle of an open; a disk
that runs full, fails or loses power between two of the writes that make up one
change.  The `hazards` of `PROJECT.json` list them at their lines.

## 2. Modules

| Module | Models | State and actions |
|---|---|---|
| `NvmSched` | scheduler, IPC | the table reduced to `active`, `blocked`, `done` (ip has reached the code size), `sp`; the message queue; the slice in progress.  One action per instruction class, `nvm_scheduler_tick`, `shell_run_program` |
| `Mailbox` | what IPC promises | a FIFO per address, one shared capacity |
| `NvmRecv` | `NvmSched` with a history of who waits | - |
| `NvmInstr` | every handler and the stack effect of every syscall | one slot with an arbitrary program: opcodes and operands are nondeterministic, stack, sp, fp and ip exact.  History variables record the cells the process has written and what the last instruction touched outside its code, these cells, the stack and the heap, and `wrapped` that sp fell below zero |
| `NvmWord` | ALU arithmetic on words of WIDTH bits | operators |
| `NvmProc` | life of processes | table, heap and code blocks, capabilities, procfs entries and arguments; kmalloc may fail at any time |
| `WorkQueue` | per-CPU rings and spinlock | program counters; a step under a lock is one test, one copy of an item or one move of an index |
| `WorkFifo` | what the rings promise | a bounded FIFO per CPU |
| `Buddy` | `buddy.c`, `cpu_pool.c`, kmalloc and kfree of blocks | free areas as sets of indices per order, counters, a stack of blocks per CPU and order, a program counter per CPU; buddy_alloc and buddy_free are one step each, as they hold the lock throughout |
| `Slab` | `slab.c` on top of `Buddy`: kmalloc and kfree of small objects | the pages with their free objects and owner, a partial and a full list per cache, the objects in use, and the blocks that kfree took for objects (`mistaken`).  Composed with `Buddy`: pages come from buddy_alloc, and a request that finds no page goes on to the page pools |
| `Fat32` | `fat32.c` behind the VFS interface | the copies of the FAT, the clusters (directory entries or data units), open files; one action per call of the driver, made of its device writes in order |
| `Ext2` | `ext2.c` behind the VFS interface | bitmaps, group descriptors on the device and in memory, inodes, blocks (cells, tables, directory records), open files; one action per call, made of its device writes in order |
| `Vfs` | `vfs.c`, with devfs and procfs as mounted drivers | file table, descriptors, file handles, mounts, registered file systems, and which file handles have private data of a driver; one action per call |
| `Shell` | the file commands of `shell.c` as sequences of VFS calls | composed with `Vfs` |
| `VfsReaddir` | `vfs_readdir` and the shell's `ls` | operators on the state of `Vfs`; listing changes nothing |
| `MC*` | instances for TLC | - |
| `*Proofs` | theorems | - |

The three NVM models look at the same process table from different sides.
`NvmSched` has any stack depth result from an ordinary instruction; `NvmInstr`
says which ones do; `NvmProc` lets any active process take the next step, of
which `NvmSched` says when.  Each over-approximates what it leaves to the others,
so its safety properties hold of the whole.

The modules of the file systems thread a record of the whole state (`Machine`)
through the calls that a function of the code makes, so a definition reads in the
order of its C function, with `Try` for the early return after an error.  A call is
one action, because nothing in this kernel preempts it; what can interrupt it is a
fault.  `Fat32` and `Ext2` number the writes of a call.  At any one of them the
device may fail, and the code goes on with its error path, or the machine may
stop, which leaves the device as it is and closes everything.  `hit` records where
that was (the purpose of the write, which copy, and whether the machine stopped).
The volume is examined as it is found then: a fault is the last thing that happens.
Reads and kmalloc fail in `Fat32` only where mkdir looks for the name, because mkdir
takes any failure there for an absent name; everywhere else a failure returns before
the next write, or does what a failure of that write does.

Where the code leaves what a model can follow, a history variable records it, the
behaviour ends, and the properties say what holds until then: `wrapped` in `NvmSched`
and `NvmInstr` (SYS_SPAWN has popped below the stack), `corrupt` in `Slab` (the data of
a block have been used as the header of a slab page), `diverged` in `Fat32` (the chain
of a file has changed under another handle, or an 8.3 name has been made twice),
`undercut` in `Ext2` (a file was truncated under another handle).

`Fat32` and `Ext2` start at the driver's operations (`vfs_fs_ops_t`), `Vfs` ends
there: for `Vfs` a driver is a set of entries that may refuse an open, `Ops` says
what it implements, `StartOf` where it places a file opened to append, and `live`
records its private data.

The VM runs on the boot processor only and the tick is called from polling
loops, never from an interrupt, so an instruction (with its syscall) is one
atomic step.  The work queues are the one part with real concurrency; there the
steps of the CPUs interleave inside the critical sections, and `MutualExclusion` is what
makes it harmless to take the few loads of one test or one copy together.

## 3. Runs

| Run | Shows | Instance |
|---|---|---|
| `sched` | no lost or spurious wakeup, isolation of processes, the queue implements `Mailbox`, round robin is fair, mail is attended to, run-off processes end | 2 processes, 2 cells, 2 messages, 2 contents, every second tick schedules, slices of 2 |
| `instr` | stack, code and heap safety, no cell of an earlier process is read | 4-bit words, 3 cells, 2 heap bytes in words of 2, programs of 4 or 5 bytes behind a signature of 1, of which SYS_SPAWN takes the shorter length for an argc |
| `proc` | one owner per buffer, consistent procfs, no authority for a process whose creation failed | 2 slots, 6 blocks, 2 files per process, room for 5 entries |
| `work_queue` | mutual exclusion, lock discipline, the rings implement `WorkFifo`, work is run | 2 CPUs, rings of 3 slots, 4 submissions, any number of wq_pending |
| `buddy` | memory is partitioned into blocks, counters match bitmaps, buddies are merged, requests fit, slab pages are on the right lists with the right owner, failure only without room | 2 CPUs, 3 orders, pools of 2 blocks, memory of 4 smallest blocks, or of 2 with the largest order missing; 2 classes of objects, 2 or 1 in a page; one block taken for an object |
| `fat32` | the volume stays sound and leaks nothing, open files agree with their entries, no file shows another's data, a fault is contained but at the named sites | 4 clusters of 2 units, 2 copies of the FAT, a directory d, 2 files and one with a long name that stands for the 8.3 name d, 2 handles, of two files or of one |
| `ext2` | the volume and the counts stay sound, every cell is found where it was written, a fault is contained but at the named sites | 2 groups of 4 blocks and 2 inodes, 2 cells or pointers in a block, 1 direct block and three levels of tables, the paths /a and ba, which both lead to a file called a, 2 handles, sparse files of up to 16 cells |
| `vfs` | descriptors, handles, mounts and driver data correspond, numbers are found, positions fit, directories list everything once | 4 files, 3 descriptors, 3 mounts, 3 registered file systems, files of 1 byte, paths inside and outside mounts, opened to append or not |
| `receive` | violated: a blocked receive does not return the message | as `sched` |
| `div_trap` | violated: INT_MIN / -1 panics the kernel | as `instr` |
| `heap_missing` | violated: a failed heap allocation leaves a running slot | as `proc` |
| `spawn_caps` | violated: SPAWN copies capabilities from child to parent | as `proc` |

The instances are small but reach the cases that matter: a queue that fills up, slots
reused with mail in the queue, a ring that fills and wraps while a work function
submits to it, more procfs entries than fit (5 for two registrations of 2 and a third
that is cut), fewer blocks than two processes with arguments can leak, saved frame
pointers overwritten with the extremes and with what lies in and around the stack,
jump targets before, in and behind the code, programs that loop, CPU pools that run
full and empty while the other CPU splits and merges, a pool smaller than the largest
block (with pools of 2 a refill is a single block), slab pages filled before and
adopted after slab_cpu_init, volumes that run full in the middle of a write, a
directory that needs a second cluster or block, writes across the boundary of every
level of tables, two handles that write to one file in turn, an open that finds each
of the VFS's tables full.

Some bounds are not sizes of the code.  `MAX_CALLS` limits how often `wq_submit` is
called.  `Bound` in `MCNvmInstr` follows a process while its cells hold words that the
handlers tell apart (`Followed`), its unwritten cells hold zeros and its fp is no less
than -1: a read of an unwritten cell is recorded whatever it holds, and the handlers
treat all negative frame pointers alike.  The proofs have neither bound.  `Bound` in
`MCBuddy` lets the second CPU rest while small objects exist (they are the boot
processor's) or a block was taken for one, which happens once, and keeps other blocks
out of the larger memory meanwhile.  `Bound` in `MCFat32` does nothing more with a file
that was opened under the name of the directory, and has two handles of one file while
the volume is not full.  `Bound` in `MCExt2` opens the second handle on the file of the
first, the only one then, and keeps it in the first blocks.  `Bound` in `MCVfs` has one
descriptor moved and one file filled at a time, at most one orphaned file handle, and
one descriptor open to append, without the others.  `MaxPos` and `Counts` bound
positions and lengths in the file systems.

Fairness.  `NvmSched` assumes weak fairness of the tick, because `shell_run`,
`keyboard_getchar` and the loop of `kmain` call it for ever, and of the slice
loop, which is sequential code.  `WorkQueue` assumes that a CPU inside a function
takes its next step, that an application processor calls `wq_run` again and again
(`ap_entry`), and that work functions return: that is strong fairness of their return,
as they may call `wq_submit` and `wq_pending` in between; nothing is assumed of other
callers.  Acquiring the spinlock is only weakly fair, so a CPU may spin for ever behind
others that take the lock again and again, and `WorkIsRun` exempts one that does, on
its own lock or on another's.

### Disagreements met on the way

Besides the four that have a run, the models show these differences between code
and documents: LOAD_HEAP and STORE_HEAP accept offsets just below INT_MAX,
whose sum with 3 wraps (`docs/2.1-Bytecode.md:219`, see `HeapSafe`); SYS_SPAWN
reads two operands after checking for one (`:217`, see `StackSafe`); syscalls push
a result only on some paths (`:102`); SYS_EXIT drops the bytecode pointer without
freeing it (`docs/3.2-Exit-syscall.md:21`); HALT and errors leave the directory in
/proc (`docs/4.4-procfs.md:25`).  In the allocator, kmalloc ignores the header for
sizes just below a pool's block and gives requests above the largest order a
block that is too small; `RequestFits` names these exceptions.
kfree asks slab_owns, which goes by the first word of the page, whether a pointer is a
slab object; a block whose own data begin with SLAB_MAGIC is lost, or its data are used
as a header (`Slab!slab_owns`).

In the file systems: a write to FAT32 that runs out of space after its first
cluster returns what it wrote but skips the end of the function, so position and
size stay behind (fat32.c:1275-1288; the comment at 1300 says "Update in-memory file
size and flush to disk if we extended the file").  Truncation frees the chain, or
the blocks, before it writes the entry, or the inode, that leads to them, in both
file systems; the truncation of ext2 also forgets the indirect blocks, and a write
of ext2 that fails leaves its blocks allocated.  ext2_dir_add_entry ignores a
failing ext2_bmap_set.  A failed read of an indirect block of ext2 looks like a hole.
A second handle of a file is not told of what the first does: in FAT32 the size of an
entry is the one that was flushed last, and a truncation, an unlink or the first cluster
of an empty file leaves the other handle with a chain that is no longer the file's; in
ext2 a truncation does.  fat32_create_file_entry does not look for the 8.3 name it
makes, which may be there as the short name of a long one, and mkdir makes a name again
when the look-up fails.  ext2_resolve_parent accepts the path without a slash that
ext2_resolve_path refuses, and drops its first character, so each creation by such a
path adds another file of the same name.
`ExposedSites` and `StaleSites` name the writes at which a fault does more than leak.

In the VFS: vfs_umount tests a ref_count that nothing raises (`DriversSound` exempts
the handles this orphans); a mount that its driver refuses keeps the driver in its
free slot; vfs_open never creates a file of the table (docs/4.1-VFS.md says that the
system log is one); mounted files cannot be moved by vfs_seek although drivers
implement it; a file opened to append is placed at its end by the driver, but the
first transfer goes by the descriptor's position, which is 0; vfs_link_std_fd looks in
the table for devices that are not there; vfs_find_mount removes the leading slash
that ext2_resolve_path insists on; vfs_pseudo_register_with_fd and
vfs_unregister_filesystem have no caller (they are modelled, the latter under its own
conditions).

## 4. Proofs

TLAPS checks every theorem for all values of the constants, under the named
assumptions of each module: sizes are positive and fit their C types.
`PowerAssumption` (and `IsWidth`, a hypothesis of the theorems about the ALU) state
2^(k+1) = 2 * 2^k, which the provers do not know of exponentiation.

- `NvmSchedProofs`: `TypeCorrect`; `WakeupNotLost` with the inductive invariant
  TypeOK /\ NoLostWakeup, whose interesting step is that RemoveAt and Append
  change nobody else's mail; `WakeupCause` and `ProcessesIsolated` as action
  properties from TypeOK.  `MessagesImplementMailbox` is the refinement of `Mailbox`.
  The mailbox of a pid is the messages for it in queue order, the k-th being the one
  at the position with k of them up to it; that there is exactly one such position
  is an injection between sets of the same size (`CountNumbers`).  Appending adds a
  last message to one mailbox, and removing the first message for a pid shifts the
  numbers of that pid alone.  The places in all mailboxes are as many as the positions
  of the queue (`WaitingCount`), so the shared capacity is the queue's.
- `NvmInstrProofs`: `Interpreter` proves TypeOK together with the four safety
  invariants inductive, one step per handler; `TypeCorrect`, `StackSafety`,
  `StackPrivacy`, `CodeSafety` and `HeapSafety` follow.  NoStaleRead needs the
  strengthening that all cells below sp are written by the process; stack safety needs
  the type of fp, which is any word, because programs can overwrite saved frame
  pointers.  SYS_SPAWN with one operand wraps sp where it takes the code size for argc;
  the theorems cover it, and StackSafe says that programs longer than 32 bytes
  (MAX_ARGC) do not get there.  The interpreter takes the ALU as a parameter of
  which it assumes that it yields words; `AluYieldsWords` proves that of the
  arithmetic, comparing and shifting instructions of `NvmWord` at every width, and
  `DivisionFits` proves the law of DIV and MOD there.
- `NvmProcProofs`: `TypeCorrect`, `MemoryHasOneOwner`, `DirectoriesListed`,
  `FailedCreationPowerless`, `ArgumentsRecorded`.  OneOwner covers dead slots as well: a
  process that halted keeps its pointers and they must stay unshared until the slot is
  reused.  ArgsRecorded is a pigeonhole argument: entries of ended processes stay in
  the table, but no pid has two, so a creation that first clears the entry of its pid
  finds a slot.
- `WorkQueueProofs`: `TypeCorrect`; `QueuesExclusive` and `LocksAreHeld` from the
  invariant that a lock is taken exactly while one CPU is in the section;
  `RingsImplementFifo`, the refinement of `WorkFifo`.  The queue of a CPU is mapped to
  the slots from head to tail, so the abstract append happens at the store of tail and
  the abstract take at the store of head; every other access is a stutter.  Beside
  mutual exclusion the inductive invariant says three things: what pc says about a
  CPU's locals (`FlowInv`); what a CPU that has looked at a ring relies on until it
  advances it, room in wq_submit and a waiting item in wq_run (`SectionInv`, which
  only the lock preserves); and that every submission has an item of its own
  (`FreshInv`).  The lemmas on `%` show that advancing an index that wraps changes the
  length by one and nothing else.
- `AllocProofs`, `BuddyProofs`: the blocks of memory, for every memory size, number of
  CPUs, pool size and interleaving.  The inductive invariant `BlocksSound` gathers all
  the places a block can be in: the free areas, the CPUs' pools, a block that cpu_pool
  is about to flush, the blocks of callers (the ones kfree took for slab objects stay
  there), the slab pages.  It says that these
  *divide* the memory (every smallest block is in exactly one place), that no two
  free buddies are apart, that counters agree with bitmaps, and what pc says about a
  call on its way.  The split of alloc_block and the merge of free_block are described
  by the chain of ancestors of a block (`Chain`): a split replaces the top of a chain
  by its bottom and the buddies on the way, a merge the reverse, and such a replacement
  keeps the memory divided (`Replaces`).  `AllocProofs` has the lemmas, up to the steps
  of kmalloc; `BuddyProofs` has kfree, the slab's steps and the theorems:
  `MemoryPartitioned`, `CountersAgree`, `BuddiesMerge`, `RequestsFit`, and the action
  property `NullOnlyWhenFull`, for which it is shown that where no free block is large
  enough, the smaller ones do not make one up either, because buddies are merged.
  Assumption: the page pools have at least two entries.  All of it holds until `corrupt`.
- `SlabProofs`: `SlabStaysSound` from `ListsSound`: each list has exactly the pages
  that its cache and their free objects ask for, each once; an object is free or in
  the hands of one caller; and a small request that goes on to the page pools found
  every page of its class full.  It holds until `corrupt`, too.  (Added to the
  invariants of the run `buddy`, ListsSound holds there too.)
- `VfsProofs`: `TablesStaySound`, an invariant of the tables that every call of the VFS
  and every command of the shell keeps, and from it `DescriptorsStaySound`,
  `PositionsStayFit` and `DriversStaySound`.  Its five parts are about the file table
  (names are distinct), descriptors (numbers are distinct and lead to a used file or
  file handle), positions, mounts (distinct, of registered drivers), and what drivers
  have lent: a file handle is used exactly while one descriptor refers to it and its
  driver holds data for it, or its mount was removed under it.  One lemma per C function
  says that a sound table stays sound, and the commands of the shell compose them.
  `ProcfsAssumption`: a device without a write operation is no longer than
  MAX_FILE_SIZE.  `CountsAssumption`: a length added to a position in the table does not
  exceed SIZE_MAX; vfs_writefd does not test it.  A descriptor and its file handle are at
  one place, except that a file opened to append is at its end for the driver until it is
  used.

Some leaves name a prover or a time limit: their obligations are large, or only one
of the provers finds them.

Only model-checked, and why: liveness (`RunnableRuns`, `MailAttended`, `WorkIsRun`),
which is beyond the prover; the invariants of `Fat32` and `Ext2`, whose modules follow
chains and trees of blocks with recursive operators; `MountsListed`, because what a
fold over the mounts yields needs an induction over data; and that AND, OR, XOR and NOT
yield words (TLC evaluates `AluAssumption` for 4-bit words), which is about sums of
powers of two over sets of bits.

## 5. Not modelled

- Start-up: `smp_init` with its time-out, the order of `kmain`, `wq_init` resetting
  the locks of rings that are already polled.  The models start behind it.
- Memory: where buddy_init puts the bitmaps; the memory of the models is what is left
  beside them.
- Slab: an object freed on a CPU that does not own its page, which corrupts the
  lists but is not reached, as nothing submits work to the other processors.
- VFS: the working directory and the textual normalisation of paths (a path is a
  sequence of names); vfs_ioctl and vfs_list, which change nothing; the contents of
  devices and of the files of /proc; the static file object of procfs_open.
- FAT32: the geometry in fat32_mount.  ext2: totals of the superblock, i_blocks,
  ext2_vfs_stat, subdirectories (the driver cannot create them), ext2_dir_remove_entry
  (no caller).  ISO 9660: a read-only parser.
- Inode cache and bitmap functions: nothing calls them.
- Block layer and disk drivers: one polled command at a time; in the models a
  device is a write that can fail.
- Keyboard: polled and read by the same loop.
- Pixel and register output, date conversion, ChaCha20, the ELF parser, string
  functions: no lasting state, or no property that a model would show better than
  a test.

Also outside the models: the contents of files and memory in the NVM, which are
arbitrary values, and the uninitialised argv entries SYS_SPAWN frees when a program
passes fewer strings than it announces.
