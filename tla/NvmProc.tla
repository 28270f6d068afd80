------------------------------ MODULE NvmProc ------------------------------
(***************************************************************************)
(* The life of NVM processes in core/kernel/nvm: what creation and the     *)
(* different ways to end do to the process table, the heap and bytecode    *)
(* buffers, the capabilities, the entries of procfs and its argument       *)
(* table.  Which process runs when is the subject of NvmSched; here any    *)
(* active process may take the next step.                                  *)
(*                                                                         *)
(* Buffers are blocks of one pool.  kmalloc returns any free block, or     *)
(* NULL at any time, because the rest of the kernel uses the pool as well; *)
(* kfree returns a block.  Buffers that a call allocates and frees again   *)
(* before it returns do not appear.  Programs pass SYS_SPAWN as many       *)
(* argument strings as they announce.                                      *)
(***************************************************************************)
EXTENDS Integers, Sequences, FiniteSetsExt

CONSTANTS MAX_PROCESSES,   \* slots of the process table
          Blocks,          \* the memory kmalloc hands out
          NULL,
          HEAP_SIZE,
          PROC_FILES,      \* procfs entries of a process (5), the directory first
          PROC_ENTRIES,    \* procfs entries left for processes (64 - 6)
          MAX_ARGS         \* argument strings of a process

ASSUME NvmProcAssumption ==
    /\ MAX_PROCESSES \in Nat \ {0}
    /\ NULL \notin Blocks
    /\ HEAP_SIZE \in Nat \ {0}
    /\ PROC_FILES \in Nat \ {0}
    /\ PROC_ENTRIES \in Nat
    /\ MAX_ARGS \in Nat

VARIABLES active, bytecode, heap, heap_size,
          caps,            \* capabilities[0 .. caps_count-1]
          allocated,       \* the blocks kmalloc has handed out
          procfs_entries,  \* how many entries name file k of process p
          procfs_args      \* the argument table; NULL: not used

vars == <<active, bytecode, heap, heap_size, caps, allocated, procfs_entries,
          procfs_args>>

Pids == 0 .. MAX_PROCESSES - 1
Files == 1 .. PROC_FILES
Args == [pid : Pids, strings : {A \in SUBSET Blocks : Cardinality(A) <= MAX_ARGS}]

\* An unused slot of the argument table differs from every entry.
ASSUME NullAssumption == NULL \notin Args

CapsLists == {<<>>, <<"CAPS_NONE">>, <<"CAP_ALL">>}

\* The capabilities for which caps_has_capability holds; the ones the VM asks
\* for are all alike here, since every list is empty, {CAPS_NONE} or {CAP_ALL}.
Rights(p) == IF \E i \in 1 .. Len(caps[p]) : caps[p][i] = "CAP_ALL"
             THEN {"CAP_FS_READ", "CAP_FS_WRITE", "CAP_FS_CREATE", "CAP_FS_DELETE",
                   "CAP_DRV_ACCESS"}
             ELSE {}

Init ==
    /\ active = [p \in Pids |-> FALSE]
    /\ bytecode = [p \in Pids |-> NULL]
    /\ heap = [p \in Pids |-> NULL]
    /\ heap_size = [p \in Pids |-> 0]
    /\ caps = [p \in Pids |-> <<>>]
    /\ allocated = {}
    /\ procfs_entries = [p \in Pids |-> [k \in Files |-> 0]]
    /\ procfs_args = [s \in Pids |-> NULL]

-----------------------------------------------------------------------------
(* procfs.c                                                                *)

EntriesUsed ==
    MapThenSumSet(LAMBDA p : MapThenSumSet(LAMBDA k : procfs_entries[p][k], Files), Pids)

\* procfs_add_entry five times: entries are added while there is room, also
\* next to entries of the same name, and silently dropped when there is none.
procfs_register(p) ==
    \E n \in 0 .. PROC_FILES :
        /\ EntriesUsed + n <= PROC_ENTRIES
        /\ n = PROC_FILES \/ EntriesUsed + n = PROC_ENTRIES
        /\ procfs_entries' = [procfs_entries EXCEPT ![p] =
               [k \in Files |-> IF k <= n THEN @[k] + 1 ELSE @[k]]]

\* Mutant of procfs_remove_entries: the files are left in place.
procfs_remove_entries_OnlyDir(p) ==
    procfs_entries' = [procfs_entries EXCEPT ![p][1] = IF @ > 0 THEN @ - 1 ELSE 0]

\* procfs_remove_entry for every file: each takes out one entry of the name.
procfs_remove_entries(p) ==
    procfs_entries' = [procfs_entries EXCEPT ![p] =
        [k \in Files |-> IF @[k] > 0 THEN @[k] - 1 ELSE 0]]

HasArgs(s, p) == procfs_args[s] # NULL /\ procfs_args[s].pid = p

StringsOf(p) == UNION {procfs_args[s].strings : s \in {t \in Pids : HasArgs(t, p)}}

\* Mutant of WithoutArgs: the entry of the slot's previous process stays.
WithoutArgs_Kept(p) == procfs_args

\* The argument table with the entry for p gone.
WithoutArgs(p) == [s \in Pids |-> IF HasArgs(s, p) THEN NULL ELSE procfs_args[s]]

\* Mutant of procfs_set_args: the strings are copied without a look at
\* MAX_ARGS_PER_PROCESS.
procfs_set_args_NoLimit(p, used) ==
    LET table == WithoutArgs(p)
        kept == used \ StringsOf(p)
    IN  \/ \E s \in Pids, A \in SUBSET (Blocks \ kept) :
             /\ table[s] = NULL /\ \A t \in 0 .. s - 1 : table[t] # NULL
             /\ procfs_args' = [table EXCEPT ![s] = [pid |-> p, strings |-> A]]
             /\ allocated' = kept \cup A
        \/ /\ \A s \in Pids : table[s] # NULL
           /\ procfs_args' = table
           /\ allocated' = kept

\* procfs_set_args: drop what is recorded for p, take the first unused slot
\* and copy the strings; a string for which there is no memory is left out.
procfs_set_args(p, used) ==
    LET table == WithoutArgs(p)
        kept == used \ StringsOf(p)
    IN  \/ \E s \in Pids, A \in SUBSET (Blocks \ kept) :
             /\ table[s] = NULL /\ \A t \in 0 .. s - 1 : table[t] # NULL
             /\ Cardinality(A) <= MAX_ARGS
             /\ procfs_args' = [table EXCEPT ![s] = [pid |-> p, strings |-> A]]
             /\ allocated' = kept \cup A
        \/ /\ \A s \in Pids : table[s] # NULL
           /\ procfs_args' = table
           /\ allocated' = kept

procfs_clear_args(p) == procfs_args' = WithoutArgs(p)

-----------------------------------------------------------------------------
(* nvm_create_process and its two callers.                                 *)

FirstFree(i) == ~active[i] /\ \A j \in 0 .. i - 1 : active[j]

\* Mutant of NewCaps: caps_count is not reset before the heap is allocated.
NewCaps_Stale(i, h, list) == IF h = NULL THEN caps[i] ELSE list

\* The capabilities of the process created in slot i with heap h: caps_count
\* is zero until the heap has been allocated.
NewCaps(i, h, list) == IF h = NULL THEN <<>> ELSE list

\* Slot i is taken for the code b, with heap h.  Without memory for the heap
\* nvm_create_process returns -1 and leaves the slot active, with the old
\* heap_size, not registered in procfs and without arguments; the caller then
\* frees the code.
nvm_create_process(i, b, h) ==
    /\ FirstFree(i)
    /\ b \in Blocks \ allocated
    /\ active' = [active EXCEPT ![i] = TRUE]
    /\ bytecode' = [bytecode EXCEPT ![i] = b]
    /\ heap' = [heap EXCEPT ![i] = h]
    /\ \/ /\ h \in Blocks \ (allocated \cup {b})
          /\ heap_size' = [heap_size EXCEPT ![i] = HEAP_SIZE]
          /\ procfs_register(i)
          /\ procfs_set_args(i, allocated \cup {b, h})
       \/ /\ h = NULL
          /\ UNCHANGED <<heap_size, procfs_entries, procfs_args, allocated>>

\* The shell starts a program from /bin.
execute_command ==
    \E i \in Pids, b \in Blocks, h \in Blocks \cup {NULL} :
        /\ nvm_create_process(i, b, h)
        /\ caps' = [caps EXCEPT ![i] = NewCaps(i, h, <<"CAP_ALL">>)]

\* A process starts another.  The child is created with CAPS_NONE, and
\* caps_copy then copies the child's capabilities to the parent.
SYS_SPAWN(p) ==
    /\ active[p]
    /\ "CAP_FS_READ" \in Rights(p)
    /\ \E i \in Pids, b \in Blocks, h \in Blocks \cup {NULL} :
         /\ nvm_create_process(i, b, h)
         /\ caps' = IF h = NULL
                    THEN [caps EXCEPT ![i] = NewCaps(i, h, <<"CAPS_NONE">>)]
                    ELSE [caps EXCEPT ![i] = <<"CAPS_NONE">>, ![p] = <<"CAPS_NONE">>]

-----------------------------------------------------------------------------
(* The ends of a process.                                                  *)

\* Mutant of SYS_EXIT: the freed heap stays in the process table.
SYS_EXIT_StaleHeap(p) ==
    /\ active[p]
    /\ active' = [active EXCEPT ![p] = FALSE]
    /\ procfs_remove_entries(p)
    /\ procfs_clear_args(p)
    /\ bytecode' = [bytecode EXCEPT ![p] = NULL]
    /\ allocated' = (allocated \ StringsOf(p)) \ {heap[p]}
    /\ UNCHANGED <<heap, heap_size, caps>>

\* SYS_EXIT, and SYS_PRINT with an operand: procfs_unregister, the reference
\* to the code is dropped, the heap is freed.
SYS_EXIT(p) ==
    /\ active[p]
    /\ active' = [active EXCEPT ![p] = FALSE]
    /\ procfs_remove_entries(p)
    /\ procfs_clear_args(p)
    /\ bytecode' = [bytecode EXCEPT ![p] = NULL]
    /\ heap' = [heap EXCEPT ![p] = NULL]
    /\ allocated' = (allocated \ StringsOf(p)) \ {heap[p]}
    /\ UNCHANGED <<heap_size, caps>>

\* HALT, an error in an instruction, an unknown syscall, and running off the
\* code: only active changes (and the exit code).
Stop(p) ==
    /\ active[p]
    /\ active' = [active EXCEPT ![p] = FALSE]
    /\ UNCHANGED <<bytecode, heap, heap_size, caps, allocated, procfs_entries,
                   procfs_args>>

\* A creation that gets no slot, no memory for the code or no signature gives
\* back what it has taken.
Refused == UNCHANGED vars

Next ==
    \/ execute_command
    \/ Refused
    \/ \E p \in Pids : SYS_SPAWN(p) \/ SYS_EXIT(p) \/ Stop(p)

Spec == Init /\ [][Next]_vars

-----------------------------------------------------------------------------
(* Properties.                                                             *)

\* Type invariant.  In particular an argument entry never records more strings
\* than it has room for.
TypeOK ==
    /\ active \in [Pids -> BOOLEAN]
    /\ bytecode \in [Pids -> Blocks \cup {NULL}]
    /\ heap \in [Pids -> Blocks \cup {NULL}]
    /\ heap_size \in [Pids -> {0, HEAP_SIZE}]
    /\ caps \in [Pids -> CapsLists]
    /\ allocated \subseteq Blocks
    /\ procfs_entries \in [Pids -> [Files -> Nat]]
    /\ procfs_args \in [Pids -> Args \cup {NULL}]

\* The buffers process p owns.  A slot whose heap could not be allocated owns
\* none: its bytecode still points to the code, but the code was freed by the
\* caller of nvm_create_process and may be anybody's by now.
Buffers(p) == IF heap[p] = NULL THEN {} ELSE {heap[p], bytecode[p]}

\* Memory has one owner.  The heap and the code of a process that was created
\* with a heap, dead or alive, and the argument strings recorded in procfs are
\* allocated blocks that no other process and no other argument entry refers to.
\* So neither SYS_EXIT nor procfs_clear_args nor procfs_set_args frees a block
\* twice, or frees one that another process uses; a process that ends without SYS_EXIT keeps its
\* pointers until its slot is taken again.
OneOwner ==
    /\ \A p \in Pids :
         /\ Buffers(p) \subseteq allocated
         /\ heap[p] # NULL => heap[p] # bytecode[p]
         /\ \A q \in Pids \ {p} : Buffers(p) \cap Buffers(q) = {}
    /\ \A s \in Pids : procfs_args[s] # NULL =>
         /\ procfs_args[s].strings \subseteq allocated
         /\ \A p \in Pids : Buffers(p) \cap procfs_args[s].strings = {}
         /\ \A t \in Pids \ {s} : procfs_args[t] # NULL =>
              procfs_args[s].strings \cap procfs_args[t].strings = {}

\* No two argument entries are for the same pid, and every process that was
\* created with a heap and still runs has one: although HALT leaves entries
\* behind, the table cannot fill up with them.
ArgsRecorded ==
    /\ \A s, t \in Pids : \A p \in Pids : HasArgs(s, p) /\ HasArgs(t, p) => s = t
    /\ \A p \in Pids : active[p] /\ heap[p] # NULL => \E s \in Pids : HasArgs(s, p)

\* A creation that failed half way gives no authority: the process that runs
\* in a slot whose heap could not be allocated has no capability, whatever the
\* slot's earlier processes held and whoever asked for the creation.
HeaplessPowerless == \A p \in Pids : active[p] /\ heap[p] = NULL => Rights(p) = {}

\* No file without its directory: however creations, failed creations, halts
\* and exits follow each other and wherever the table filled up, procfs has at
\* least as many entries for /proc/<pid> as for any file in it.
DirectoryListed ==
    \A p \in Pids : \A k \in Files : procfs_entries[p][k] <= procfs_entries[p][1]

\* docs/2.1-Bytecode.md: a process is created with an allocated heap.
ActiveHasHeap == \A p \in Pids : active[p] => heap[p] # NULL

\* docs/3.3-Spawn-syscall.md: the parent's capabilities are copied to the
\* child.
SpawnInherits ==
    [][\A p, i \in Pids : SYS_SPAWN(p) /\ ~active[i] /\ active'[i] /\ heap'[i] # NULL
         => Rights(i)' = Rights(p)]_vars
=============================================================================
