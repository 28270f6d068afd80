------------------------------ MODULE NvmInstr ------------------------------
(***************************************************************************)
(* The instruction set of the NVM: every handler of                        *)
(* core/kernel/nvm/instructions and the stack effect of every syscall, as  *)
(* executed by one slot of the process table.                              *)
(*                                                                         *)
(* The program is arbitrary: the opcode at ip and the bytes of its         *)
(* operands are nondeterministic, and so is everything a handler reads     *)
(* from locals, heap, memory, ports and files.  The stack, its depth, the  *)
(* frame pointer and the control flow are exact.  What the last            *)
(* instruction touched outside its code, its own cells of the stack and    *)
(* its heap is recorded in history variables.  The process has its heap: a *)
(* slot that a failed creation left without one is the subject of NvmProc. *)
(* A process whose sp has wrapped around works on memory that is not its   *)
(* own; that it does is recorded, and it is followed no further.           *)
(*                                                                         *)
(* The sizes of the code are parameters: an int32_t ranges over            *)
(* -INT_MAX-1 .. INT_MAX, the signature takes HEADER bytes (4), an         *)
(* immediate operand IMM bytes (4), a heap word HEAP_WORD bytes (4).       *)
(***************************************************************************)
EXTENDS Integers

CONSTANTS STACK_SIZE,  \* cells of the stack (1024)
          HEAP_SIZE,   \* bytes of the heap
          HEAP_WORD,   \* bytes LOAD_HEAP and STORE_HEAP access
          INT_MAX,     \* largest int32_t
          BYTE_MAX,    \* largest uint8_t
          SP_MOD,      \* 2^16: sp is a uint16_t
          HEADER,      \* length of the signature
          IMM,         \* length of an immediate operand
          MAX_ARGC,    \* largest argc SYS_SPAWN accepts (32)
          Sizes,       \* lengths of programs
          Alu(_, _, _) \* Alu(op, second, top): the result of an ALU instruction

Int32 == -INT_MAX - 1 .. INT_MAX
Byte == 0 .. BYTE_MAX
Cells == 0 .. STACK_SIZE - 1
Heap == 0 .. HEAP_SIZE - 1
BinaryOps == {"ADD", "SUB", "MUL", "DIV", "MOD", "CMP", "EQ", "NEQ", "GT", "LT",
              "AND", "OR", "XOR", "SHL", "SHR", "SAR"}

\* Every size fits its C type, and a program is so much shorter than 4 GiB
\* (kmalloc hands out 1 MiB at most) that ip + 3 does not wrap.
ASSUME NvmInstrAssumption ==
    /\ INT_MAX \in Nat /\ BYTE_MAX \in 0 .. INT_MAX /\ SP_MOD \in Nat
    /\ STACK_SIZE \in 1 .. INT_MAX /\ STACK_SIZE + 1 < SP_MOD
    /\ HEAP_SIZE \in 1 .. INT_MAX /\ HEAP_WORD \in Nat \ {0}
    /\ HEADER \in Nat /\ IMM \in Nat \ {0} /\ MAX_ARGC \in Nat
    /\ Sizes \subseteq 0 .. 2 * INT_MAX + 1 - IMM

\* An ALU instruction yields a word, if its operands do not make idiv trap.
ASSUME AluAssumption ==
    \A op \in BinaryOps \cup {"NOT"}, a, b \in Int32 :
        (op \in {"DIV", "MOD"} => b # 0 /\ ~(a = -INT_MAX - 1 /\ b = -1))
            => Alu(op, a, b) \in Int32

VARIABLES ip, sp, fp, stack, active, exit_code,
          size,        \* length of the program
          next_offset, \* static variable of SYS_READ, shared by all processes
          trap,        \* the CPU raised an exception: the kernel panics
          wrapped,     \* history: sp has fallen below zero, and is huge
          own,         \* history: stack cells written since creation
          \* History of the last instruction:
          fetched,     \* bytes it read as code outside the code
          rd, wr,      \* cells it read outside own and wrote outside the stack
          heapb        \* bytes it accessed as heap outside the heap

vars == <<ip, sp, fp, stack, active, exit_code, size, next_offset, trap, wrapped,
          fetched, rd, wr, heapb, own>>

Code == HEADER .. size - 1

\* Two's complement conversion to int32_t, and to uint32_t.
UINT_MOD == 2 * (INT_MAX + 1)
Wrap(n) == ((n + INT_MAX + 1) % UINT_MOD) - (INT_MAX + 1)
Unsigned(n) == n % UINT_MOD

\* A process that nvm_create_process has put in the slot.  It accepts a program
\* of any length.  The stack keeps what the previous process left there.
Fresh(i, n, f, a, e, l) ==
    i = HEADER /\ n = 0 /\ f = -1 /\ a = TRUE /\ e = 0 /\ l \in Sizes

Init ==
    /\ Fresh(ip, sp, fp, active, exit_code, size)
    /\ stack = [c \in Cells |-> 0]
    /\ next_offset = 0
    /\ trap = FALSE /\ wrapped = FALSE
    /\ fetched = {} /\ rd = {} /\ wr = {} /\ heapb = {} /\ own = {}

nvm_create_process ==
    /\ ~active
    /\ Fresh(ip', sp', fp', active', exit_code', size')
    /\ fetched' = {} /\ rd' = {} /\ wr' = {} /\ heapb' = {} /\ own' = {}
    /\ UNCHANGED <<stack, next_offset, trap, wrapped>>

-----------------------------------------------------------------------------
(* What the handlers share.                                                *)

\* ip after nvm_execute_instruction has read the opcode.
at == ip + 1

\* An instruction that read k operand bytes, left depth n, read the stack
\* cells r and wrote the cells w.
Access(k, n, r, w) ==
    /\ fetched' = (ip .. ip + k) \ Code
    /\ sp' = n
    /\ rd' = r \ own
    /\ wr' = w \ Cells
    /\ own' = own \cup w
    /\ UNCHANGED <<size, wrapped>>

NoHeap == heapb' = {} /\ UNCHANGED <<next_offset, trap>>

Continue == UNCHANGED <<active, exit_code>>

\* An error path: exit_code = -1, active = false, return false.
Fail == active' = FALSE /\ exit_code' = -1

\* The error path of a handler that has read k operand bytes and popped
\* down to depth n.
FailAt(k, n, r) ==
    /\ ip' = at + k
    /\ Access(k, n, r, {})
    /\ Fail
    /\ UNCHANGED <<stack, fp>>
    /\ NoHeap

\* Nothing but ip changes.
Skip(k) ==
    /\ ip' = at + k
    /\ Access(k, sp, {}, {})
    /\ Continue
    /\ UNCHANGED <<stack, fp>>
    /\ NoHeap

\* Depth becomes n after reading r; go on at address a.
PopTo(k, a, n, r) ==
    /\ ip' = a
    /\ Access(k, n, r, {})
    /\ Continue
    /\ UNCHANGED <<stack, fp>>
    /\ NoHeap

\* Cell c receives v and depth becomes n; go on at address a.
Put(k, a, n, r, c, v) ==
    /\ ip' = a
    /\ Access(k, n, r, {c})
    /\ stack' = [stack EXCEPT ![c] = v]
    /\ Continue
    /\ UNCHANGED fp
    /\ NoHeap

HasByte == at < size

\* Mutant of HasImm: the last byte of the operand may lie behind the code.
HasImm_OffByOne == at + IMM - 1 <= size

HasImm == at + IMM - 1 < size

-----------------------------------------------------------------------------
(* stack.c                                                                 *)

handle_halt ==
    /\ ip' = at
    /\ Access(0, sp, {}, {})
    /\ active' = FALSE
    /\ exit_code' = 0
    /\ UNCHANGED <<stack, fp>>
    /\ NoHeap

handle_nop == Skip(0)

handle_push ==
    \/ HasImm /\ sp < STACK_SIZE /\ \E v \in Int32 : Put(IMM, at + IMM, sp + 1, {}, sp, v)
    \/ HasImm /\ sp >= STACK_SIZE /\ FailAt(IMM, sp, {})
    \/ ~HasImm /\ FailAt(0, sp, {})

handle_pop ==
    \/ sp > 0 /\ PopTo(0, at, sp - 1, {})
    \/ sp = 0 /\ FailAt(0, sp, {})

handle_dup ==
    \/ sp = 0 /\ FailAt(0, sp, {})
    \/ sp >= STACK_SIZE /\ FailAt(0, sp, {})
    \/ sp > 0 /\ sp < STACK_SIZE /\ Put(0, at, sp + 1, {sp - 1}, sp, stack[sp - 1])

handle_swap ==
    \/ /\ sp >= 2
       /\ ip' = at
       /\ Access(0, sp, {sp - 2, sp - 1}, {sp - 2, sp - 1})
       /\ stack' = [stack EXCEPT ![sp - 2] = stack[sp - 1], ![sp - 1] = stack[sp - 2]]
       /\ Continue
       /\ UNCHANGED fp
       /\ NoHeap
    \/ sp < 2 /\ FailAt(0, sp, {})

\* Push fp, make it the new frame, push n zeros.
handle_enter ==
    \/ \E n \in Byte :
         /\ HasByte
         /\ sp + 1 + n <= STACK_SIZE
         /\ ip' = at + 1
         /\ Access(1, sp + 1 + n, {}, sp .. sp + n)
         /\ stack' = [c \in Cells |-> IF c = sp THEN fp
                                      ELSE IF c \in sp + 1 .. sp + n THEN 0
                                      ELSE stack[c]]
         /\ fp' = sp
         /\ Continue
         /\ NoHeap
    \/ HasByte /\ (\E n \in Byte : sp + 1 + n > STACK_SIZE) /\ FailAt(1, sp, {})
    \/ ~HasByte /\ FailAt(0, sp, {})

\* Mutant of handle_leave: the check of sp against fp is missing.
handle_leave_NoSpCheck ==
    \/ (fp < 0 \/ fp >= STACK_SIZE) /\ FailAt(0, sp, {})
    \/ /\ fp \in Cells
       /\ ip' = at
       /\ Access(0, fp, {fp}, {})
       /\ fp' = stack[fp]
       /\ Continue
       /\ UNCHANGED stack
       /\ NoHeap

handle_leave ==
    \/ (fp < 0 \/ fp >= STACK_SIZE) /\ FailAt(0, sp, {})
    \/ fp \in Cells /\ sp < fp + 1 /\ FailAt(0, sp, {})
    \/ /\ fp \in Cells
       /\ sp >= fp + 1
       /\ ip' = at
       /\ Access(0, fp, {fp}, {})
       /\ fp' = stack[fp]
       /\ Continue
       /\ UNCHANGED stack
       /\ NoHeap

-----------------------------------------------------------------------------
(* arithmetic.c and bitwise.c: two operands are replaced by a result.      *)

Binary(op) ==
    \/ sp >= 2 /\ Put(0, at, sp - 1, {sp - 2, sp - 1}, sp - 2,
                      Alu(op, stack[sp - 2], stack[sp - 1]))
    \/ sp < 2 /\ FailAt(0, sp, {})

\* The quotient of INT_MIN by -1 does not fit: idiv raises #DE.
Overflows == stack[sp - 2] = -INT_MAX - 1 /\ stack[sp - 1] = -1

\* DIV and MOD: a zero divisor ends the process.
Divide(op) ==
    \/ sp < 2 /\ FailAt(0, sp, {})
    \/ sp >= 2 /\ stack[sp - 1] = 0 /\ FailAt(0, sp, {sp - 2, sp - 1})
    \/ /\ sp >= 2 /\ stack[sp - 1] # 0 /\ ~Overflows
       /\ Put(0, at, sp - 1, {sp - 2, sp - 1}, sp - 2,
              Alu(op, stack[sp - 2], stack[sp - 1]))
    \/ /\ sp >= 2 /\ Overflows
       /\ trap' = TRUE
       /\ ip' = at
       /\ Access(0, sp, {sp - 2, sp - 1}, {})
       /\ heapb' = {}
       /\ UNCHANGED <<fp, stack, active, exit_code, next_offset>>

handle_add == Binary("ADD")
handle_sub == Binary("SUB")
handle_mul == Binary("MUL")
handle_div == Divide("DIV")
handle_mod == Divide("MOD")
handle_cmp == Binary("CMP")
handle_eq == Binary("EQ")
handle_neq == Binary("NEQ")
handle_gt == Binary("GT")
handle_lt == Binary("LT")

handle_and == Binary("AND")
handle_or == Binary("OR")
handle_xor == Binary("XOR")
handle_shl == Binary("SHL")
handle_shr == Binary("SHR")
handle_sar == Binary("SAR")

handle_not ==
    \/ sp >= 1 /\ Put(0, at, sp, {sp - 1}, sp - 1, Alu("NOT", stack[sp - 1], 0))
    \/ sp < 1 /\ FailAt(0, sp, {})

-----------------------------------------------------------------------------
(* flowcontrol.c                                                           *)

\* A jump target; any value of an immediate operand is some Unsigned(v).
Target(a) == a >= HEADER /\ a < size

\* Mutant of handle_jmp: the target may lie in the signature.
handle_jmp_IntoHeader ==
    \/ HasImm /\ \E v \in Int32 : LET a == Unsigned(v) IN
         \/ a < size /\ PopTo(IMM, a, sp, {})
         \/ a >= size /\ FailAt(IMM, sp, {})
    \/ ~HasImm /\ Skip(0)

handle_jmp ==
    \/ HasImm /\ \E v \in Int32 : LET a == Unsigned(v) IN
         \/ Target(a) /\ PopTo(IMM, a, sp, {})
         \/ ~Target(a) /\ FailAt(IMM, sp, {})
    \/ ~HasImm /\ Skip(0)

\* JZ and JNZ: the condition is popped before the operand is looked at.
Branch(taken(_)) ==
    \/ sp = 0 /\ FailAt(0, sp, {})
    \/ sp > 0 /\ ~HasImm /\ FailAt(0, sp - 1, {sp - 1})
    \/ /\ sp > 0 /\ HasImm /\ ~taken(stack[sp - 1])
       /\ PopTo(IMM, at + IMM, sp - 1, {sp - 1})
    \/ /\ sp > 0 /\ HasImm /\ taken(stack[sp - 1])
       /\ \E v \in Int32 : LET a == Unsigned(v) IN
            \/ Target(a) /\ PopTo(IMM, a, sp - 1, {sp - 1})
            \/ ~Target(a) /\ FailAt(IMM, sp - 1, {sp - 1})

handle_jz == Branch(LAMBDA v : v = 0)
handle_jnz == Branch(LAMBDA v : v # 0)

\* The return address is pushed before the target is checked.
handle_call ==
    \/ ~HasImm /\ FailAt(0, sp, {})
    \/ HasImm /\ sp >= STACK_SIZE - 1 /\ FailAt(IMM, sp, {})
    \/ HasImm /\ sp < STACK_SIZE - 1 /\ \E v \in Int32 : LET a == Unsigned(v) IN
         \/ Target(a) /\ Put(IMM, a, sp + 1, {}, sp, Wrap(at + IMM))
         \/ /\ ~Target(a)
            /\ ip' = at + IMM
            /\ Access(IMM, sp + 1, {}, {sp})
            /\ stack' = [stack EXCEPT ![sp] = Wrap(at + IMM)]
            /\ Fail
            /\ UNCHANGED fp
            /\ NoHeap

handle_ret ==
    \/ sp = 0 /\ FailAt(0, sp, {})
    \/ sp > 0 /\ LET a == Unsigned(stack[sp - 1]) IN
         \/ Target(a) /\ PopTo(0, a, sp - 1, {sp - 1})
         \/ ~Target(a) /\ FailAt(0, sp - 1, {sp - 1})

handle_load_arg ==
    \/ ~HasByte /\ Skip(0)
    \/ HasByte /\ fp <= 0 /\ FailAt(1, sp, {})
    \/ HasByte /\ fp > 0 /\ \E off \in Byte : LET idx == (fp - 2) - off IN
         IF idx >= 0 /\ idx < sp /\ sp < STACK_SIZE
         THEN Put(1, at + 1, sp + 1, {idx}, sp, stack[idx])
         ELSE Skip(1)

handle_store_arg ==
    \/ ~HasByte /\ Skip(0)
    \/ HasByte /\ fp <= 0 /\ FailAt(1, sp, {})
    \/ HasByte /\ fp > 0 /\ \E off \in Byte : LET idx == (fp - 2) - off IN
         IF idx >= 0 /\ idx < STACK_SIZE /\ sp > 0
         THEN Put(1, at + 1, sp - 1, {sp - 1}, idx, stack[sp - 1])
         ELSE Skip(1)

-----------------------------------------------------------------------------
(* memory.c                                                                *)

handle_load ==
    \/ ~HasByte /\ Skip(0)
    \/ HasByte /\ sp < STACK_SIZE /\ \E v \in Int32 : Put(1, at + 1, sp + 1, {}, sp, v)
    \/ HasByte /\ sp >= STACK_SIZE /\ Skip(1)

handle_store ==
    \/ ~HasByte /\ Skip(0)
    \/ HasByte /\ sp > 0 /\ PopTo(1, at + 1, sp - 1, {sp - 1})
    \/ HasByte /\ sp = 0 /\ Skip(1)

handle_load_rel ==
    \/ ~HasByte /\ Skip(0)
    \/ HasByte /\ fp < 0 /\ FailAt(1, sp, {})
    \/ HasByte /\ fp >= 0 /\ \E off \in Byte : LET idx == Wrap(fp + 1 + off) IN
         IF idx >= 0 /\ idx < sp /\ sp < STACK_SIZE
         THEN Put(1, at + 1, sp + 1, {idx}, sp, stack[idx])
         ELSE FailAt(1, sp, {})

\* Mutant of handle_store_rel: the index is only checked from below.
handle_store_rel_NoUpper ==
    \/ ~HasByte /\ Skip(0)
    \/ HasByte /\ fp < 0 /\ FailAt(1, sp, {})
    \/ HasByte /\ fp >= 0 /\ \E off \in Byte : LET idx == Wrap(fp + 1 + off) IN
         IF idx >= 0 /\ sp > 0
         THEN Put(1, at + 1, sp - 1, {sp - 1}, idx, stack[sp - 1])
         ELSE Skip(1)

handle_store_rel ==
    \/ ~HasByte /\ Skip(0)
    \/ HasByte /\ fp < 0 /\ FailAt(1, sp, {})
    \/ HasByte /\ fp >= 0 /\ \E off \in Byte : LET idx == Wrap(fp + 1 + off) IN
         IF idx >= 0 /\ idx < STACK_SIZE /\ sp > 0
         THEN Put(1, at + 1, sp - 1, {sp - 1}, idx, stack[sp - 1])
         ELSE Skip(1)

\* LOAD_ABS and STORE_ABS access physical memory, with CAP_DRV_ACCESS and in
\* two address ranges; otherwise nothing happens.
handle_load_abs ==
    \/ FailAt(0, sp, {})
    \/ Skip(0)
    \/ sp > 0 /\ \E v \in Int32 : Put(0, at, sp, {sp - 1}, sp - 1, v)

handle_store_abs ==
    \/ FailAt(0, sp, {})
    \/ Skip(0)
    \/ sp >= 2 /\ PopTo(0, at, sp - 2, {sp - 2, sp - 1})

\* Mutant of HeapOutside: only the first byte of the word is checked.
HeapOutside_FirstByte(offset) == offset < 0 \/ offset >= HEAP_SIZE

\* The bounds check of LOAD_HEAP and STORE_HEAP; the sum is an int32_t.
HeapOutside(offset) == offset < 0 \/ Wrap(offset + HEAP_WORD - 1) >= HEAP_SIZE

HeapWord(offset) == offset .. offset + HEAP_WORD - 1

handle_load_heap ==
    \/ sp < 1 /\ FailAt(0, sp, {})
    \/ sp >= 1 /\ HeapOutside(stack[sp - 1]) /\ FailAt(0, sp - 1, {sp - 1})
    \/ /\ sp >= 1 /\ ~HeapOutside(stack[sp - 1])
       /\ ip' = at
       /\ Access(0, sp, {sp - 1}, {sp - 1})
       /\ \E v \in Int32 : stack' = [stack EXCEPT ![sp - 1] = v]
       /\ heapb' = HeapWord(stack[sp - 1]) \ Heap
       /\ Continue
       /\ UNCHANGED <<fp, next_offset, trap>>

handle_store_heap ==
    \/ sp < 2 /\ FailAt(0, sp, {})
    \/ sp >= 2 /\ HeapOutside(stack[sp - 2]) /\ FailAt(0, sp - 2, {sp - 2, sp - 1})
    \/ /\ sp >= 2 /\ ~HeapOutside(stack[sp - 2])
       /\ ip' = at
       /\ Access(0, sp - 2, {sp - 2, sp - 1}, {})
       /\ heapb' = HeapWord(stack[sp - 2]) \ Heap
       /\ Continue
       /\ UNCHANGED <<fp, stack, next_offset, trap>>

-----------------------------------------------------------------------------
(* system.c and the stack effect of syscalls.c.  handle_syscall ignores the *)
(* result of syscall_handler, so an error that breaks out before it pops is *)
(* Skip(1): a missing capability, too few operands, a full message queue,   *)
(* no message, a stack without room.                                       *)

\* Outcomes shared by the syscalls: pop to depth n, or replace cell c.
SysPop(n, r) == PopTo(1, at + 1, n, r)
SysPut(n, r, c, v) == Put(1, at + 1, n, r, c, v)

\* The process ends but handle_syscall returns true.
SysEnd(code, n, r) ==
    /\ ip' = at + 1
    /\ Access(1, n, r, {})
    /\ active' = FALSE
    /\ exit_code' = code
    /\ UNCHANGED <<stack, fp>>
    /\ NoHeap

SYS_EXIT ==
    \/ sp >= 1 /\ SysEnd(stack[sp - 1], sp - 1, {sp - 1})
    \/ sp = 0 /\ SysEnd(0, 0, {})

\* The member of nvm_process_t in front of the stack is size, so that is what
\* stack[-1] reads.
CellAt(c) == IF c = -1 THEN Wrap(size) ELSE stack[c]

\* fd and argc are read when there is one operand; both are popped if argc is
\* acceptable.  The argument strings below them are popped as far as the scan
\* for their terminators gets, which any depth below may be.  With a single
\* operand the length of the program is taken for argc: if it is acceptable sp
\* wraps around and the scan goes through the memory behind the stack.
SYS_SPAWN ==
    \/ Skip(1)
    \/ /\ sp >= 1 /\ CellAt(sp - 2) \notin 0 .. MAX_ARGC
       /\ SysPop(sp, {sp - 2, sp - 1})
    \/ /\ sp >= 2 /\ CellAt(sp - 2) \in 0 .. MAX_ARGC
       /\ \E n \in 0 .. sp - 2 : SysPop(n, 0 .. sp - 1)
    \/ /\ sp = 1 /\ CellAt(sp - 2) \in 0 .. MAX_ARGC
       /\ wrapped' = TRUE
       /\ ip' = at + 1
       /\ fetched' = (ip .. ip + 1) \ Code
       /\ sp' \in 0 .. SP_MOD - 1
       /\ rd' = (-1 .. SP_MOD - 2) \ own
       /\ wr' = {}
       /\ Continue
       /\ UNCHANGED <<stack, fp, size, own>>
       /\ NoHeap

\* The name is read from the heap at the popped offset; an offset outside the
\* heap or an empty name breaks out with the operand gone.
SYS_OPEN ==
    \/ Skip(1)
    \/ sp >= 1 /\ SysPop(sp - 1, {sp - 1})
    \/ /\ sp >= 1 /\ stack[sp - 1] \in 0 .. HEAP_SIZE - 1
       /\ ip' = at + 1
       /\ Access(1, sp, {sp - 1}, {sp - 1})
       /\ \E fd \in Int32 : stack' = [stack EXCEPT ![sp - 1] = fd]
       /\ \E last \in stack[sp - 1] .. HEAP_SIZE - 1 :
            heapb' = (stack[sp - 1] .. last) \ Heap
       /\ Continue
       /\ UNCHANGED <<fp, next_offset, trap>>

\* Bytes are stored from next_offset on until the file ends, a zero is read
\* or the heap is full, and the terminator after them; once next_offset has
\* reached the heap size the operand is popped and nothing pushed.
SYS_READ ==
    \/ Skip(1)
    \/ sp >= 1 /\ stack[sp - 1] < 0 /\ SysPop(sp - 1, {sp - 1})
    \/ /\ sp >= 1 /\ stack[sp - 1] >= 0 /\ next_offset >= HEAP_SIZE
       /\ SysPop(sp - 1, {sp - 1})
    \/ /\ sp >= 1 /\ stack[sp - 1] >= 0
       /\ \E last \in next_offset .. HEAP_SIZE - 1 :
            heapb' = (next_offset .. last) \ Heap /\ next_offset' = last + 1
       /\ ip' = at + 1
       /\ Access(1, sp, {sp - 1}, {sp - 1})
       /\ stack' = [stack EXCEPT ![sp - 1] = next_offset]
       /\ Continue
       /\ UNCHANGED <<fp, trap>>

SYS_WRITE ==
    \/ Skip(1)
    \/ sp >= 2 /\ SysPop(sp - 2, {sp - 2, sp - 1})
    \/ /\ sp >= 2 /\ stack[sp - 2] >= 0 /\ stack[sp - 1] \in 0 .. HEAP_SIZE - 1
       /\ ip' = at + 1
       /\ Access(1, sp - 1, {sp - 2, sp - 1}, {sp - 2})
       /\ \E n \in -1 .. HEAP_SIZE : stack' = [stack EXCEPT ![sp - 2] = n]
       /\ \E last \in stack[sp - 1] .. HEAP_SIZE - 1 :
            heapb' = (stack[sp - 1] .. last) \ Heap
       /\ Continue
       /\ UNCHANGED <<fp, next_offset, trap>>

\* The name is the cells above the topmost one whose low byte is zero.
SYS_DELETE ==
    \/ Skip(1)
    \/ \E c \in 0 .. sp - 1 :
         /\ stack[c] % (BYTE_MAX + 1) = 0
         /\ \A d \in c + 1 .. sp - 1 : stack[d] % (BYTE_MAX + 1) # 0
         /\ SysPop(c, c .. sp - 1)

SYS_MSG_SEND == Skip(1) \/ (sp >= 2 /\ SysPop(sp - 2, {sp - 2, sp - 1}))

SYS_MSG_RECEIVE ==
    \/ Skip(1)
    \/ /\ sp + 1 < STACK_SIZE
       /\ ip' = at + 1
       /\ Access(1, sp + 2, {}, {sp, sp + 1})
       /\ \E pid \in Byte, content \in Byte :
            stack' = [stack EXCEPT ![sp] = pid, ![sp + 1] = content]
       /\ Continue
       /\ UNCHANGED fp
       /\ NoHeap

SYS_PORT_IN_BYTE ==
    Skip(1) \/ (sp > 0 /\ \E v \in Byte : SysPut(sp, {sp - 1}, sp - 1, v))

SYS_PORT_OUT_BYTE == Skip(1) \/ (sp >= 2 /\ SysPop(sp - 2, {sp - 2, sp - 1}))

SYS_PRINT == (sp < 1 /\ Skip(1)) \/ (sp >= 1 /\ SysEnd(-1, sp - 1, {}))

SYS_unknown == SysEnd(-1, sp, {})

syscall_handler ==
    \/ SYS_EXIT \/ SYS_SPAWN \/ SYS_OPEN \/ SYS_READ \/ SYS_WRITE \/ SYS_DELETE
    \/ SYS_MSG_SEND \/ SYS_MSG_RECEIVE \/ SYS_PORT_IN_BYTE \/ SYS_PORT_OUT_BYTE
    \/ SYS_PRINT \/ SYS_unknown

handle_syscall == (HasByte /\ syscall_handler) \/ (~HasByte /\ Skip(0))

handle_break == Skip(0)

-----------------------------------------------------------------------------
\* A byte that is no opcode is skipped like NOP.
Instruction ==
    \/ handle_halt \/ handle_nop \/ handle_push \/ handle_pop \/ handle_dup
    \/ handle_swap \/ handle_enter \/ handle_leave
    \/ handle_add \/ handle_sub \/ handle_mul \/ handle_div \/ handle_mod
    \/ handle_cmp \/ handle_eq \/ handle_neq \/ handle_gt \/ handle_lt
    \/ handle_and \/ handle_or \/ handle_xor \/ handle_not
    \/ handle_shl \/ handle_shr \/ handle_sar
    \/ handle_jmp \/ handle_jz \/ handle_jnz \/ handle_call \/ handle_ret
    \/ handle_load_arg \/ handle_store_arg
    \/ handle_load \/ handle_store \/ handle_load_rel \/ handle_store_rel
    \/ handle_load_abs \/ handle_store_abs
    \/ handle_load_heap \/ handle_store_heap
    \/ handle_syscall \/ handle_break

nvm_execute_instruction ==
    active /\ ip < size /\ ~trap /\ ~wrapped /\ Instruction

\* The slice loop ends a process that ran off its code.
RunOff ==
    /\ active /\ ip >= size /\ ~trap /\ ~wrapped
    /\ active' = FALSE
    /\ exit_code' = 0
    /\ UNCHANGED <<ip, sp, fp, stack, size, next_offset, trap, wrapped,
                   fetched, rd, wr, heapb, own>>

\* panic() never returns.
panic == trap /\ UNCHANGED vars

\* What a process does whose sp has wrapped around is undefined.
Undefined == wrapped /\ UNCHANGED vars

Next == nvm_execute_instruction \/ RunOff \/ nvm_create_process \/ panic \/ Undefined

Spec == Init /\ [][Next]_vars

-----------------------------------------------------------------------------
(* Properties.                                                             *)

\* Type invariant: every field holds a value of its C type, and ip stays within
\* the code behind the signature.
TypeOK ==
    /\ size \in Sizes
    /\ ip \in Nat /\ HEADER <= ip /\ (ip <= size \/ ip = HEADER)
    /\ sp \in 0 .. SP_MOD - 1
    /\ fp \in Int32
    /\ stack \in [Cells -> Int32]
    /\ active \in BOOLEAN /\ trap \in BOOLEAN /\ wrapped \in BOOLEAN
    /\ exit_code \in Int32
    /\ next_offset \in 0 .. HEAP_SIZE
    /\ rd \subseteq Int /\ wr \subseteq Int /\ own \subseteq Int
    /\ fetched \subseteq Int /\ heapb \subseteq Int

\* Stack safety: whatever the program, its operands and its frame pointer, sp
\* stays within the stack, and an instruction writes only cells of the stack and
\* reads only cells of the stack or the word in front of it (SYS_SPAWN with one
\* operand).  There is one way out, and only programs of at most MAX_ARGC bytes
\* find it: SYS_SPAWN with one operand, which pops two.
StackSafe ==
    IF wrapped
    THEN active /\ size <= MAX_ARGC
    ELSE /\ sp \in 0 .. STACK_SIZE
         /\ wr = {} /\ own \subseteq Cells /\ rd \subseteq Cells \cup {-1}

\* The stack of a process holds only cells it has written itself since it was
\* created, and it reads no others: nvm_create_process leaves the cells of the
\* slot's previous process in place, and nothing of them is visible, unless sp has
\* wrapped around (StackSafe says when).
NoStaleRead == ~wrapped => 0 .. sp - 1 \subseteq own /\ rd \subseteq {-1}

\* Every byte the interpreter fetches lies in the program, and never in its
\* signature.
CodeSafe == fetched = {}

\* The bounds check of LOAD_HEAP and STORE_HEAP can only be fooled by an
\* offset so large that adding the word length overflows; OPEN, READ and
\* WRITE never leave the heap, however often READ has advanced next_offset.
HeapSafe == \A b \in heapb : b > INT_MAX - HEAP_WORD + 1

\* docs/2.0-What-is-NVM.md: the failure of a program is contained within its
\* NVM instance.
FailureContained == ~trap
=============================================================================
