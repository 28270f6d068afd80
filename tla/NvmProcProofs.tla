---------------------------- MODULE NvmProcProofs ----------------------------
(***************************************************************************)
(* Memory ownership, authority and procfs consistency of NvmProc, for any  *)
(* number of process slots, blocks and procfs entries.                     *)
(***************************************************************************)
EXTENDS NvmProc, FiniteSetTheorems, TLAPS

\* The argument table after procfs_set_args or procfs_clear_args.
LEMMA WithoutArgsType ==
    ASSUME TypeOK, NEW p \in Pids
    PROVE  /\ WithoutArgs(p) \in [Pids -> Args \cup {NULL}]
           /\ StringsOf(p) \subseteq Blocks
<1>1. \A s \in Pids : HasArgs(s, p) => procfs_args[s] \in Args
  BY DEF TypeOK, HasArgs
<1> QED
  BY <1>1 DEF TypeOK, WithoutArgs, StringsOf, Args

LEMMA SetArgsType ==
    ASSUME TypeOK, NEW p \in Pids, NEW used, used \subseteq Blocks,
           procfs_set_args(p, used)
    PROVE  procfs_args' \in [Pids -> Args \cup {NULL}] /\ allocated' \subseteq Blocks
<1>1. WithoutArgs(p) \in [Pids -> Args \cup {NULL}]
  BY WithoutArgsType
<1>2. CASE procfs_args' = WithoutArgs(p) /\ allocated' = used \ StringsOf(p)
  BY <1>1, <1>2
<1>3. ASSUME NEW s \in Pids, NEW A \in SUBSET (Blocks \ (used \ StringsOf(p))),
             Cardinality(A) <= MAX_ARGS,
             procfs_args' = [WithoutArgs(p) EXCEPT ![s] = [pid |-> p, strings |-> A]],
             allocated' = (used \ StringsOf(p)) \cup A
      PROVE  procfs_args' \in [Pids -> Args \cup {NULL}] /\ allocated' \subseteq Blocks
  <2>1. [pid |-> p, strings |-> A] \in Args
    BY <1>3 DEF Args
  <2> QED
    BY <1>1, <1>3, <2>1
<1> QED
  BY <1>2, <1>3 DEF procfs_set_args

LEMMA RegisterType ==
    ASSUME TypeOK, NEW p \in Pids, procfs_register(p)
    PROVE  procfs_entries' \in [Pids -> [Files -> Nat]]
<1>1. PICK n \in 0 .. PROC_FILES :
        procfs_entries' = [procfs_entries EXCEPT ![p] =
            [k \in Files |-> IF k <= n THEN procfs_entries[p][k] + 1
                                       ELSE procfs_entries[p][k]]]
  BY ZenonT(30) DEF procfs_register, TypeOK
<1>2. procfs_entries \in [Pids -> [Files -> Nat]]
  BY DEF TypeOK
<1>3. [k \in Files |-> IF k <= n THEN procfs_entries[p][k] + 1
                                 ELSE procfs_entries[p][k]] \in [Files -> Nat]
  BY <1>2
<1> QED
  BY <1>1, <1>2, <1>3

LEMMA CreateType ==
    ASSUME TypeOK, NEW i \in Pids, NEW b \in Blocks, NEW h \in Blocks \cup {NULL},
           nvm_create_process(i, b, h)
    PROVE  /\ active' \in [Pids -> BOOLEAN]
           /\ bytecode' \in [Pids -> Blocks \cup {NULL}]
           /\ heap' \in [Pids -> Blocks \cup {NULL}]
           /\ heap_size' \in [Pids -> {0, HEAP_SIZE}]
           /\ procfs_entries' \in [Pids -> [Files -> Nat]]
           /\ procfs_args' \in [Pids -> Args \cup {NULL}]
           /\ allocated' \subseteq Blocks
<1>1. /\ active' \in [Pids -> BOOLEAN]
      /\ bytecode' \in [Pids -> Blocks \cup {NULL}]
      /\ heap' \in [Pids -> Blocks \cup {NULL}]
  BY DEF nvm_create_process, TypeOK
<1>2. CASE /\ h \in Blocks \ (allocated \cup {b})
           /\ heap_size' = [heap_size EXCEPT ![i] = HEAP_SIZE]
           /\ procfs_register(i)
           /\ procfs_set_args(i, allocated \cup {b, h})
  <2>1. allocated \cup {b, h} \subseteq Blocks
    BY <1>2 DEF TypeOK
  <2>2. heap_size' \in [Pids -> {0, HEAP_SIZE}]
    BY <1>2 DEF TypeOK
  <2> QED
    BY <1>1, <1>2, <2>1, <2>2, RegisterType, SetArgsType
<1>3. CASE UNCHANGED <<heap_size, procfs_entries, procfs_args, allocated>>
  BY <1>1, <1>3 DEF TypeOK
<1> QED
  BY <1>2, <1>3 DEF nvm_create_process

LEMMA InitTypeOK == Init => TypeOK
BY NvmProcAssumption DEF Init, TypeOK, CapsLists

LEMMA NextTypeOK == TypeOK /\ [Next]_vars => TypeOK'
<1> SUFFICES ASSUME TypeOK, [Next]_vars PROVE TypeOK'
  OBVIOUS
<1>0. <<>> \in CapsLists /\ <<"CAPS_NONE">> \in CapsLists /\ <<"CAP_ALL">> \in CapsLists
  BY DEF CapsLists
<1>1. CASE execute_command
  <2>1. PICK i \in Pids, b \in Blocks, h \in Blocks \cup {NULL} :
          /\ nvm_create_process(i, b, h)
          /\ caps' = [caps EXCEPT ![i] = NewCaps(i, h, <<"CAP_ALL">>)]
    BY <1>1, ZenonT(30) DEF execute_command
  <2>2. caps' \in [Pids -> CapsLists]
    BY <1>0, <2>1 DEF TypeOK, NewCaps
  <2> QED
    BY <2>1, <2>2, CreateType DEF TypeOK
<1>2. ASSUME NEW p \in Pids, SYS_SPAWN(p) PROVE TypeOK'
  <2>1. PICK i \in Pids, b \in Blocks, h \in Blocks \cup {NULL} :
          /\ nvm_create_process(i, b, h)
          /\ caps' = IF h = NULL
                     THEN [caps EXCEPT ![i] = NewCaps(i, h, <<"CAPS_NONE">>)]
                     ELSE [caps EXCEPT ![i] = <<"CAPS_NONE">>, ![p] = <<"CAPS_NONE">>]
    BY <1>2, ZenonT(30) DEF SYS_SPAWN
  <2>2. caps' \in [Pids -> CapsLists]
    BY <1>0, <2>1, ZenonT(30) DEF TypeOK, NewCaps
  <2> QED
    BY <2>1, <2>2, CreateType, ZenonT(30) DEF TypeOK
<1>3. ASSUME NEW p \in Pids, SYS_EXIT(p) PROVE TypeOK'
  <2>1. procfs_args' \in [Pids -> Args \cup {NULL}] /\ allocated' \subseteq Blocks
    BY <1>3, WithoutArgsType DEF SYS_EXIT, procfs_clear_args, TypeOK
  <2>2. procfs_entries' \in [Pids -> [Files -> Nat]]
    BY <1>3 DEF SYS_EXIT, procfs_remove_entries, TypeOK
  <2> QED
    BY <1>3, <2>1, <2>2, ZenonT(30) DEF SYS_EXIT, TypeOK
<1>4. ASSUME NEW p \in Pids, Stop(p) PROVE TypeOK'
  BY <1>4 DEF Stop, TypeOK
<1>5. CASE UNCHANGED vars
  BY <1>5 DEF vars, TypeOK
<1> QED
  BY <1>1, <1>2, <1>3, <1>4, <1>5 DEF Next, Refused

\* Every variable of the process life cycle keeps its type.
THEOREM TypeCorrect == Spec => []TypeOK
BY InitTypeOK, NextTypeOK, PTL DEF Spec

-----------------------------------------------------------------------------
(* procfs entries.                                                         *)

LEMMA RegisterListed ==
    ASSUME TypeOK, DirectoryListed, NEW p \in Pids, procfs_register(p)
    PROVE  DirectoryListed'
<1>1. PICK n \in 0 .. PROC_FILES :
        procfs_entries' = [procfs_entries EXCEPT ![p] =
            [k \in Files |-> IF k <= n THEN procfs_entries[p][k] + 1
                                       ELSE procfs_entries[p][k]]]
  BY ZenonT(30) DEF procfs_register, TypeOK
<1>2. \A q \in Pids : procfs_entries[q] \in [Files -> Nat]
  BY DEF TypeOK
<1>3. SUFFICES ASSUME NEW q \in Pids, NEW k \in Files
               PROVE  procfs_entries'[q][k] <= procfs_entries'[q][1]
  BY DEF DirectoryListed
<1>4. 1 \in Files
  BY NvmProcAssumption DEF Files
<1>5. CASE q = p
  <2>1. /\ procfs_entries'[q][k] = IF k <= n THEN procfs_entries[p][k] + 1
                                             ELSE procfs_entries[p][k]
        /\ procfs_entries'[q][1] = IF 1 <= n THEN procfs_entries[p][1] + 1
                                             ELSE procfs_entries[p][1]
    BY <1>1, <1>4, <1>5 DEF TypeOK
  <2>2. procfs_entries[p][k] \in Nat /\ procfs_entries[p][1] \in Nat
    BY <1>2, <1>4
  <2>3. procfs_entries[p][k] <= procfs_entries[p][1] /\ 1 <= k /\ k \in Int
    BY DEF DirectoryListed, Files
  <2> QED
    BY <2>1, <2>2, <2>3
<1>6. CASE q # p
  BY <1>1, <1>6 DEF TypeOK, DirectoryListed
<1> QED
  BY <1>5, <1>6

LEMMA RemoveListed ==
    ASSUME TypeOK, DirectoryListed, NEW p \in Pids, procfs_remove_entries(p)
    PROVE  DirectoryListed'
<1>1. SUFFICES ASSUME NEW q \in Pids, NEW k \in Files
               PROVE  procfs_entries'[q][k] <= procfs_entries'[q][1]
  BY DEF DirectoryListed
<1>2. 1 \in Files
  BY NvmProcAssumption DEF Files
<1>3. procfs_entries[q][k] \in Nat /\ procfs_entries[q][1] \in Nat
      /\ procfs_entries[q][k] <= procfs_entries[q][1]
  BY <1>2 DEF TypeOK, DirectoryListed
<1>4. CASE q = p
  <2>1. /\ procfs_entries'[q][k] = IF procfs_entries[q][k] > 0
                                   THEN procfs_entries[q][k] - 1 ELSE 0
        /\ procfs_entries'[q][1] = IF procfs_entries[q][1] > 0
                                   THEN procfs_entries[q][1] - 1 ELSE 0
    BY <1>2, <1>4 DEF procfs_remove_entries, TypeOK
  <2> QED
    BY <1>3, <2>1
<1>5. CASE q # p
  BY <1>3, <1>5 DEF procfs_remove_entries, TypeOK
<1> QED
  BY <1>4, <1>5

LEMMA NextDirectoryListed ==
    TypeOK /\ DirectoryListed /\ [Next]_vars => DirectoryListed'
<1> SUFFICES ASSUME TypeOK, DirectoryListed, [Next]_vars PROVE DirectoryListed'
  OBVIOUS
<1>1. CASE UNCHANGED procfs_entries
  BY <1>1 DEF DirectoryListed
<1>2. ASSUME NEW i \in Pids, NEW b, NEW h, nvm_create_process(i, b, h)
      PROVE  DirectoryListed'
  BY <1>1, <1>2, RegisterListed DEF nvm_create_process
<1>3. ASSUME NEW p \in Pids, SYS_EXIT(p) PROVE DirectoryListed'
  BY <1>3, RemoveListed DEF SYS_EXIT
<1>4. ASSUME NEW p \in Pids, Stop(p) PROVE DirectoryListed'
  BY <1>1, <1>4 DEF Stop
<1>5. CASE UNCHANGED vars
  BY <1>1, <1>5 DEF vars
<1> QED
  BY <1>2, <1>3, <1>4, <1>5 DEF Next, Refused, execute_command, SYS_SPAWN

\* /proc/<pid> is listed at least as often as any file in it.
THEOREM DirectoriesListed == Spec => []DirectoryListed
<1>1. Init => DirectoryListed
  BY NvmProcAssumption DEF Init, DirectoryListed, Files
<1> QED
  BY <1>1, TypeCorrect, NextDirectoryListed, PTL DEF Spec

-----------------------------------------------------------------------------
(* Authority.                                                              *)

LEMMA NextHeaplessPowerless ==
    TypeOK /\ HeaplessPowerless /\ [Next]_vars => HeaplessPowerless'
<1> SUFFICES ASSUME TypeOK, HeaplessPowerless, [Next]_vars,
                    NEW q \in Pids, active'[q], heap'[q] = NULL
             PROVE  Rights(q)' = {}
  BY DEF HeaplessPowerless
<1>1. CASE active[q] /\ heap[q] = NULL /\ caps'[q] = caps[q]
  BY <1>1 DEF HeaplessPowerless, Rights
<1>2. CASE caps'[q] = <<>> \/ caps'[q] = <<"CAPS_NONE">>
  BY <1>2 DEF Rights
<1>3. ASSUME NEW i \in Pids, NEW b \in Blocks, NEW h \in Blocks \cup {NULL},
             nvm_create_process(i, b, h)
      PROVE  /\ q = i => h = NULL
             /\ q # i => active[q] /\ heap[q] = NULL
  BY <1>3, NvmProcAssumption DEF nvm_create_process, TypeOK
<1>4. CASE execute_command
  <2>1. PICK i \in Pids, b \in Blocks, h \in Blocks \cup {NULL} :
          /\ nvm_create_process(i, b, h)
          /\ caps' = [caps EXCEPT ![i] = NewCaps(i, h, <<"CAP_ALL">>)]
    BY <1>4, ZenonT(30) DEF execute_command
  <2>2. CASE q = i
    BY <1>2, <1>3, <2>1, <2>2 DEF TypeOK, NewCaps
  <2>3. CASE q # i
    BY <1>1, <1>3, <2>1, <2>3 DEF TypeOK
  <2> QED
    BY <2>2, <2>3
<1>5. ASSUME NEW p \in Pids, SYS_SPAWN(p) PROVE Rights(q)' = {}
  <2>1. PICK i \in Pids, b \in Blocks, h \in Blocks \cup {NULL} :
          /\ nvm_create_process(i, b, h)
          /\ caps' = IF h = NULL
                     THEN [caps EXCEPT ![i] = NewCaps(i, h, <<"CAPS_NONE">>)]
                     ELSE [caps EXCEPT ![i] = <<"CAPS_NONE">>, ![p] = <<"CAPS_NONE">>]
    BY <1>5, ZenonT(30) DEF SYS_SPAWN
  <2>2. CASE q = i
    BY <1>2, <1>3, <2>1, <2>2 DEF TypeOK, NewCaps
  <2>3. CASE q # i
    <3>1. caps'[q] = caps[q] \/ caps'[q] = <<"CAPS_NONE">>
      BY <2>1, <2>3 DEF TypeOK
    <3> QED
      BY <1>1, <1>2, <1>3, <2>1, <2>3, <3>1
  <2> QED
    BY <2>2, <2>3
<1>6. ASSUME NEW p \in Pids, SYS_EXIT(p) \/ Stop(p) PROVE Rights(q)' = {}
  BY <1>1, <1>6 DEF SYS_EXIT, Stop, TypeOK
<1>7. CASE UNCHANGED vars
  BY <1>1, <1>7 DEF vars
<1> QED
  BY <1>4, <1>5, <1>6, <1>7 DEF Next, Refused

\* A process left behind by a creation that got no heap has no capability.
THEOREM FailedCreationPowerless == Spec => []HeaplessPowerless
<1>1. Init => HeaplessPowerless
  BY DEF Init, HeaplessPowerless
<1> QED
  BY <1>1, TypeCorrect, NextHeaplessPowerless, PTL DEF Spec

-----------------------------------------------------------------------------
(* Memory.                                                                 *)

\* Freeing the argument strings of p frees nothing that anybody else refers
\* to, and nothing that the entries left in the table refer to.
LEMMA StringsPrivate ==
    ASSUME TypeOK, OneOwner, NEW p \in Pids
    PROVE  /\ StringsOf(p) \subseteq allocated
           /\ \A q \in Pids : Buffers(q) \cap StringsOf(p) = {}
           /\ \A s \in Pids : WithoutArgs(p)[s] # NULL =>
                /\ WithoutArgs(p)[s] = procfs_args[s] /\ procfs_args[s] # NULL
                /\ procfs_args[s].strings \cap StringsOf(p) = {}
<1>1. \A s \in Pids : HasArgs(s, p) =>
        /\ procfs_args[s] # NULL
        /\ procfs_args[s].strings \subseteq allocated
        /\ \A q \in Pids : Buffers(q) \cap procfs_args[s].strings = {}
  BY DEF OneOwner, HasArgs
<1>2. StringsOf(p) \subseteq allocated
  BY <1>1 DEF StringsOf
<1>3. \A q \in Pids : Buffers(q) \cap StringsOf(p) = {}
  BY <1>1 DEF StringsOf
<1>4. ASSUME NEW s \in Pids, WithoutArgs(p)[s] # NULL
      PROVE  /\ WithoutArgs(p)[s] = procfs_args[s] /\ procfs_args[s] # NULL
             /\ procfs_args[s].strings \cap StringsOf(p) = {}
  <2>1. WithoutArgs(p)[s] = procfs_args[s] /\ ~HasArgs(s, p) /\ procfs_args[s] # NULL
    BY <1>4 DEF WithoutArgs
  <2>2. \A t \in Pids : HasArgs(t, p) =>
          procfs_args[s].strings \cap procfs_args[t].strings = {}
    BY <1>1, <2>1 DEF OneOwner
  <2> QED
    BY <2>1, <2>2 DEF StringsOf
<1> QED
  BY <1>2, <1>3, <1>4

LEMMA NextOneOwner == TypeOK /\ OneOwner /\ [Next]_vars => OneOwner'
<1> SUFFICES ASSUME TypeOK, OneOwner, [Next]_vars PROVE OneOwner'
  OBVIOUS
<1>1. CASE UNCHANGED <<bytecode, heap, allocated, procfs_args>>
  BY <1>1 DEF OneOwner, Buffers
<1>2. ASSUME NEW i \in Pids, NEW b \in Blocks, NEW h \in Blocks \cup {NULL},
             nvm_create_process(i, b, h)
      PROVE  OneOwner'
  <2>1. /\ \A q \in Pids \ {i} : Buffers(q)' = Buffers(q)
        /\ Buffers(i)' = IF h = NULL THEN {} ELSE {h, b}
        /\ \A q \in Pids \ {i} : heap'[q] = heap[q] /\ bytecode'[q] = bytecode[q]
        /\ heap'[i] = h /\ bytecode'[i] = b
        /\ b \notin allocated
    BY <1>2 DEF nvm_create_process, Buffers, TypeOK
  <2>2. CASE h = NULL /\ UNCHANGED <<heap_size, procfs_entries, procfs_args, allocated>>
    BY <2>1, <2>2 DEF OneOwner
  <2>3. CASE /\ h \in Blocks \ (allocated \cup {b})
             /\ procfs_set_args(i, allocated \cup {b, h})
    <3> DEFINE kept == (allocated \cup {b, h}) \ StringsOf(i)
    <3>1. PICK A \in SUBSET (Blocks \ kept), E \in SUBSET Pids :
            /\ allocated' = kept \cup A
            /\ \A s \in Pids \ E : procfs_args'[s] = WithoutArgs(i)[s]
            /\ \A s \in E : procfs_args'[s].strings = A
            /\ \A s, t \in E : s = t
      <4>1. WithoutArgs(i) \in [Pids -> Args \cup {NULL}]
        BY WithoutArgsType
      <4>2. CASE procfs_args' = WithoutArgs(i) /\ allocated' = kept
        <5>1. \A s \in Pids \ {} : procfs_args'[s] = WithoutArgs(i)[s]
          BY <4>2
        <5>2. {} \in SUBSET Pids /\ {} \in SUBSET (Blocks \ kept) /\ allocated' = kept \cup {}
          BY <4>2
        <5> QED
          BY <5>1, <5>2, ZenonT(30)
      <4>3. ASSUME NEW s \in Pids, NEW A \in SUBSET (Blocks \ kept),
                   procfs_args' = [WithoutArgs(i) EXCEPT ![s] = [pid |-> i, strings |-> A]],
                   allocated' = kept \cup A
            PROVE  \E B \in SUBSET (Blocks \ kept), E \in SUBSET Pids :
                     /\ allocated' = kept \cup B
                     /\ \A t \in Pids \ E : procfs_args'[t] = WithoutArgs(i)[t]
                     /\ \A t \in E : procfs_args'[t].strings = B
                     /\ \A t, u \in E : t = u
        <5>1. procfs_args'[s].strings = A
          BY <4>1, <4>3
        <5>2. \A t \in Pids \ {s} : procfs_args'[t] = WithoutArgs(i)[t]
          BY <4>1, <4>3
        <5>3. {s} \in SUBSET Pids /\ \A t \in {s} : procfs_args'[t].strings = A
          BY <5>1
        <5> QED
          BY <4>3, <5>2, <5>3, ZenonT(30)
      <4> QED
        BY <2>3, <4>2, <4>3, ZenonT(30) DEF procfs_set_args
    <3> HIDE DEF kept
    <3>2. /\ \A q \in Pids \ {i} : Buffers(q) \subseteq kept /\ {h, b} \cap Buffers(q) = {}
          /\ {h, b} \subseteq kept /\ h # b /\ h # NULL
      BY <2>1, <2>3, StringsPrivate, NvmProcAssumption, SMTT(30) DEF kept, OneOwner
    <3>3. \A q \in Pids : Buffers(q)' \subseteq kept
      BY <2>1, <3>2
    <3>4. \A s \in Pids \ E : procfs_args'[s] # NULL =>
            /\ procfs_args'[s] = procfs_args[s] /\ procfs_args[s] # NULL
            /\ procfs_args[s].strings \subseteq kept /\ procfs_args[s].strings \subseteq allocated
      BY <3>1, StringsPrivate DEF kept, OneOwner
    <3>5. \A p \in Pids :
            /\ Buffers(p)' \subseteq allocated'
            /\ heap'[p] # NULL => heap'[p] # bytecode'[p]
            /\ \A q \in Pids \ {p} : Buffers(p)' \cap Buffers(q)' = {}
      <4>1. \A p \in Pids : Buffers(p)' \subseteq allocated'
        BY <3>1, <3>3
      <4>2. \A p \in Pids : heap'[p] # NULL => heap'[p] # bytecode'[p]
        BY <2>1, <3>2 DEF OneOwner
      <4>3. \A p \in Pids : \A q \in Pids \ {p} : Buffers(p)' \cap Buffers(q)' = {}
        BY <2>1, <3>2 DEF OneOwner
      <4> QED
        BY <4>1, <4>2, <4>3
    <3>6. ASSUME NEW s \in Pids, procfs_args'[s] # NULL
          PROVE  /\ procfs_args'[s].strings \subseteq allocated'
                 /\ \A p \in Pids : Buffers(p)' \cap procfs_args'[s].strings = {}
                 /\ \A t \in Pids \ {s} : procfs_args'[t] # NULL =>
                      procfs_args'[s].strings \cap procfs_args'[t].strings = {}
      <4>1. CASE s \in E
        <5>1. procfs_args'[s].strings = A /\ A \cap kept = {}
          BY <3>1, <3>6, <4>1, NvmProcAssumption
        <5> QED
          BY <3>1, <3>3, <3>4, <4>1, <5>1
      <4>2. CASE s \notin E
        <5>1. /\ procfs_args'[s] = procfs_args[s] /\ procfs_args[s] # NULL
              /\ procfs_args[s].strings \subseteq kept
              /\ procfs_args[s].strings \subseteq allocated
          BY <3>4, <3>6, <4>2
        <5>2. \A p \in Pids : Buffers(p)' \cap procfs_args[s].strings = {}
          BY <2>1, <2>3, <5>1 DEF OneOwner
        <5>3. ASSUME NEW t \in Pids \ {s}, procfs_args'[t] # NULL
              PROVE  procfs_args'[s].strings \cap procfs_args'[t].strings = {}
          <6>1. CASE t \in E
            <7>1. procfs_args'[t].strings = A /\ A \cap kept = {}
              BY <3>1, <5>3, <6>1, NvmProcAssumption
            <7> QED
              BY <5>1, <7>1
          <6>2. CASE t \notin E
            BY <3>4, <5>1, <5>3, <6>2 DEF OneOwner
          <6> QED
            BY <6>1, <6>2
        <5> QED
          BY <3>1, <5>1, <5>2, <5>3
      <4> QED
        BY <4>1, <4>2
    <3> QED
      BY <3>5, <3>6 DEF OneOwner
  <2> QED
    BY <1>2, <2>2, <2>3 DEF nvm_create_process
<1>3. ASSUME NEW p \in Pids, SYS_EXIT(p) PROVE OneOwner'
  <2>1. /\ \A q \in Pids \ {p} : Buffers(q)' = Buffers(q)
        /\ \A q \in Pids \ {p} : heap'[q] = heap[q] /\ bytecode'[q] = bytecode[q]
        /\ heap'[p] = NULL /\ Buffers(p)' = {}
        /\ allocated' = (allocated \ StringsOf(p)) \ {heap[p]}
        /\ procfs_args' = WithoutArgs(p)
    BY <1>3 DEF SYS_EXIT, procfs_clear_args, Buffers, TypeOK
  <2>2. \A q \in Pids \ {p} : heap[p] \notin Buffers(q)
    <3>1. CASE heap[p] = NULL
      <4>1. \A q \in Pids : Buffers(q) \subseteq Blocks
        BY DEF OneOwner, TypeOK
      <4> QED
        BY <3>1, <4>1, NvmProcAssumption
    <3>2. CASE heap[p] # NULL
      <4>1. heap[p] \in Buffers(p)
        BY <3>2 DEF Buffers
      <4> QED
        BY <4>1 DEF OneOwner
    <3> QED
      BY <3>1, <3>2
  <2>3. \A s \in Pids : procfs_args[s] # NULL => heap[p] \notin procfs_args[s].strings
    BY NvmProcAssumption DEF OneOwner, Buffers, TypeOK, Args
  <2>4. \A q \in Pids :
          /\ Buffers(q)' \subseteq allocated'
          /\ heap'[q] # NULL => heap'[q] # bytecode'[q]
          /\ \A r \in Pids \ {q} : Buffers(q)' \cap Buffers(r)' = {}
    BY <2>1, <2>2, StringsPrivate DEF OneOwner
  <2>5. ASSUME NEW s \in Pids, procfs_args'[s] # NULL
        PROVE  /\ procfs_args'[s].strings \subseteq allocated'
               /\ \A q \in Pids : Buffers(q)' \cap procfs_args'[s].strings = {}
               /\ \A t \in Pids \ {s} : procfs_args'[t] # NULL =>
                    procfs_args'[s].strings \cap procfs_args'[t].strings = {}
    <3>1. /\ procfs_args'[s] = procfs_args[s] /\ procfs_args[s] # NULL
          /\ procfs_args[s].strings \cap StringsOf(p) = {}
      BY <2>1, <2>5, StringsPrivate
    <3>2. procfs_args'[s].strings \subseteq allocated'
      BY <2>1, <2>3, <3>1 DEF OneOwner
    <3>3. \A q \in Pids : Buffers(q)' \cap procfs_args'[s].strings = {}
      BY <2>1, <3>1 DEF OneOwner
    <3>4. \A t \in Pids \ {s} : procfs_args'[t] # NULL =>
            procfs_args'[s].strings \cap procfs_args'[t].strings = {}
      BY <2>1, <3>1, StringsPrivate DEF OneOwner
    <3> QED
      BY <3>2, <3>3, <3>4
  <2> QED
    BY <2>4, <2>5 DEF OneOwner
<1>4. ASSUME NEW p \in Pids, Stop(p) PROVE OneOwner'
  BY <1>1, <1>4 DEF Stop
<1>5. CASE UNCHANGED vars
  BY <1>1, <1>5 DEF vars
<1> QED
  BY <1>2, <1>3, <1>4, <1>5 DEF Next, Refused, execute_command, SYS_SPAWN

\* Every buffer of a process and every argument string has one owner, and
\* nothing is freed twice.
THEOREM MemoryHasOneOwner == Spec => []OneOwner
<1>1. Init => OneOwner
  BY DEF Init, OneOwner, Buffers
<1> QED
  BY <1>1, TypeCorrect, NextOneOwner, PTL DEF Spec

-----------------------------------------------------------------------------
(* Arguments.                                                              *)

\* Once the entry of p is gone a slot of the argument table is unused: there
\* are as many slots as pids, and no two entries are for the same pid.
LEMMA RoomForArgs ==
    ASSUME TypeOK, ArgsRecorded, NEW p \in Pids
    PROVE  \E s \in Pids : WithoutArgs(p)[s] = NULL
<1> SUFFICES ASSUME \A s \in Pids : WithoutArgs(p)[s] # NULL
             PROVE  FALSE
  OBVIOUS
<1> DEFINE f == [s \in Pids |-> procfs_args[s].pid]
<1>1. \A s \in Pids : procfs_args[s] \in Args /\ HasArgs(s, procfs_args[s].pid)
                     /\ procfs_args[s].pid # p
  BY DEF WithoutArgs, HasArgs, TypeOK
<1>2. f \in [Pids -> Pids \ {p}]
  BY <1>1 DEF Args
<1>3. IsFiniteSet(Pids) /\ Cardinality(Pids) = MAX_PROCESSES
  BY FS_Interval, NvmProcAssumption DEF Pids
<1>4. IsFiniteSet(Pids \ {p}) /\ Cardinality(Pids \ {p}) < Cardinality(Pids)
  <2>1. /\ IsFiniteSet(Pids \ {p})
        /\ Cardinality(Pids \ {p}) = IF p \in Pids THEN Cardinality(Pids) - 1
                                                   ELSE Cardinality(Pids)
    BY <1>3, FS_RemoveElement, Zenon
  <2> QED
    BY <1>3, <2>1, NvmProcAssumption
<1>f. \A s \in Pids : f[s] = procfs_args[s].pid
  OBVIOUS
<1> HIDE DEF f
<1>5. PICK s \in Pids, t \in Pids : s # t /\ f[s] = f[t]
  BY <1>2, <1>3, <1>4, FS_PigeonHole, Zenon
<1>6. HasArgs(s, f[s]) /\ HasArgs(t, f[s]) /\ f[s] \in Pids
  BY <1>1, <1>2, <1>5, <1>f
<1> QED
  BY <1>5, <1>6 DEF ArgsRecorded

\* What nvm_create_process does to the argument table.
LEMMA SetArgsRecorded ==
    ASSUME TypeOK, ArgsRecorded, NEW p \in Pids, NEW used, procfs_set_args(p, used)
    PROVE  /\ \E s \in Pids : HasArgs(s, p)'
           /\ \A s, t \in Pids : \A q \in Pids : HasArgs(s, q)' /\ HasArgs(t, q)' => s = t
           /\ \A s, q \in Pids : q # p /\ HasArgs(s, q) => HasArgs(s, q)'
<1>1. PICK s \in Pids, A \in SUBSET Blocks :
        /\ WithoutArgs(p)[s] = NULL
        /\ Cardinality(A) <= MAX_ARGS
        /\ procfs_args' = [WithoutArgs(p) EXCEPT ![s] = [pid |-> p, strings |-> A]]
  BY RoomForArgs, ZenonT(30) DEF procfs_set_args
<1> DEFINE entry == [pid |-> p, strings |-> A]
<1>2. entry # NULL /\ entry.pid = p
  BY <1>1, NullAssumption DEF Args
<1>3. procfs_args'[s] = entry
  BY <1>1 DEF WithoutArgs
<1>4. \A t \in Pids \ {s} : procfs_args'[t] = IF HasArgs(t, p) THEN NULL ELSE procfs_args[t]
  BY <1>1 DEF WithoutArgs
<1> HIDE DEF entry
<1>5. \A t, q \in Pids : HasArgs(t, q)' <=> \/ t = s /\ q = p
                                            \/ t # s /\ q # p /\ HasArgs(t, q)
  BY <1>2, <1>3, <1>4 DEF HasArgs
<1>6. \A q \in Pids : HasArgs(s, q) => q = p
  BY <1>1 DEF WithoutArgs, HasArgs
<1> QED
  BY <1>5, <1>6 DEF ArgsRecorded

LEMMA NextArgsRecorded == TypeOK /\ ArgsRecorded /\ [Next]_vars => ArgsRecorded'
<1> SUFFICES ASSUME TypeOK, ArgsRecorded, [Next]_vars PROVE ArgsRecorded'
  OBVIOUS
<1>1. ASSUME NEW i \in Pids, NEW b \in Blocks, NEW h \in Blocks \cup {NULL},
             nvm_create_process(i, b, h)
      PROVE  ArgsRecorded'
  <2>1. /\ \A p \in Pids \ {i} : active'[p] = active[p] /\ heap'[p] = heap[p]
        /\ heap'[i] = h
    BY <1>1 DEF nvm_create_process, TypeOK
  <2>2. CASE h \in Blocks /\ procfs_set_args(i, allocated \cup {b, h})
    BY <2>1, <2>2, SetArgsRecorded DEF ArgsRecorded
  <2>3. CASE h = NULL /\ UNCHANGED procfs_args
    BY <2>1, <2>3 DEF ArgsRecorded, HasArgs
  <2> QED
    BY <1>1, <2>2, <2>3, ZenonT(30) DEF nvm_create_process
<1>2. ASSUME NEW p \in Pids, SYS_EXIT(p) PROVE ArgsRecorded'
  <2>1. /\ \A q \in Pids \ {p} : active'[q] = active[q] /\ heap'[q] = heap[q]
        /\ ~active'[p]
    BY <1>2 DEF SYS_EXIT, TypeOK
  <2>2. \A s, q \in Pids : HasArgs(s, q)' <=> q # p /\ HasArgs(s, q)
    BY <1>2 DEF SYS_EXIT, procfs_clear_args, WithoutArgs, HasArgs
  <2> QED
    BY <2>1, <2>2 DEF ArgsRecorded
<1>3. ASSUME NEW p \in Pids, Stop(p) PROVE ArgsRecorded'
  BY <1>3 DEF Stop, ArgsRecorded, HasArgs, TypeOK
<1>4. CASE UNCHANGED vars
  BY <1>4 DEF vars, ArgsRecorded, HasArgs
<1> QED
  BY <1>1, <1>2, <1>3, <1>4 DEF Next, Refused, execute_command, SYS_SPAWN

\* Every running process with a heap has its one entry in the argument table
\* of procfs, which cannot fill up with the entries HALT leaves behind.
THEOREM ArgumentsRecorded == Spec => []ArgsRecorded
<1>1. Init => ArgsRecorded
  BY DEF Init, ArgsRecorded, HasArgs
<1> QED
  BY <1>1, TypeCorrect, NextArgsRecorded, PTL DEF Spec
=============================================================================
