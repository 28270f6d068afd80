--------------------------- MODULE NvmInstrProofs ---------------------------
(***************************************************************************)
(* Stack, code and heap safety of the interpreter, for every program and   *)
(* every size of stack, heap, code and word.                               *)
(***************************************************************************)
EXTENDS NvmInstr, NvmWord, TLAPS

Inv == TypeOK /\ StackSafe /\ NoStaleRead /\ CodeSafe /\ HeapSafe

\* The state in which nvm_execute_instruction calls a handler.
Ready == Inv /\ active /\ ip < size /\ ~trap /\ ~wrapped

-----------------------------------------------------------------------------
(* Words.                                                                  *)

LEMMA WrapIsWord == ASSUME NEW n \in Int PROVE Wrap(n) \in Int32
BY NvmInstrAssumption DEF Wrap, Int32, UINT_MOD

LEMMA WrapIdentity == ASSUME NEW n \in 0 .. INT_MAX PROVE Wrap(n) = n
<1>1. (n + INT_MAX + 1) % UINT_MOD = n + INT_MAX + 1
  BY NvmInstrAssumption DEF UINT_MOD
<1> QED
  BY <1>1, NvmInstrAssumption DEF Wrap

\* The length of a program that SYS_SPAWN can take for an argc.
LEMMA ShortProgram ==
    ASSUME NEW n \in Sizes, Wrap(n) \in 0 .. MAX_ARGC
    PROVE  n <= MAX_ARGC
<1>1. n \in Nat /\ n <= 2 * INT_MAX + 1 /\ INT_MAX \in Nat /\ IMM \in Nat
  BY NvmInstrAssumption
<1>2. CASE n <= INT_MAX
  BY <1>1, <1>2, WrapIdentity, NvmInstrAssumption
<1>3. CASE n > INT_MAX
  <2>1. (n + INT_MAX + 1) % UINT_MOD = n - INT_MAX - 1
    BY <1>1, <1>3 DEF UINT_MOD
  <2>2. Wrap(n) < 0
    BY <1>1, <2>1 DEF Wrap
  <2> QED
    BY <2>2, NvmInstrAssumption
<1> QED
  BY <1>1, <1>2, <1>3

LEMMA UnsignedIsNat == ASSUME NEW n \in Int PROVE Unsigned(n) \in Nat
BY NvmInstrAssumption DEF Unsigned, UINT_MOD

-----------------------------------------------------------------------------
(* The forms a handler takes.                                              *)

\* An address at which the interpreter may go on.
GoodAddress(a) == a \in Nat /\ a >= HEADER /\ a <= size

\* k operand bytes lie within the code.
GoodOperands(k) == k \in Nat /\ ip + k < size

LEMMA ReadyFacts ==
    ASSUME Ready
    PROVE  /\ ip \in Nat /\ ip >= HEADER /\ ip < size /\ at = ip + 1 /\ size \in Nat
           /\ sp \in 0 .. STACK_SIZE /\ fp \in Int32
           /\ stack \in [Cells -> Int32]
           /\ 0 .. sp - 1 \subseteq own /\ own \subseteq Cells
           /\ GoodAddress(at) /\ GoodOperands(0)
           /\ (HasByte => GoodAddress(at + 1) /\ GoodOperands(1))
           /\ (HasImm => GoodAddress(at + IMM) /\ GoodOperands(IMM))
BY NvmInstrAssumption
DEF Ready, Inv, TypeOK, StackSafe, NoStaleRead, at, GoodAddress, GoodOperands, HasByte, HasImm

\* An access that reads below sp (or the word in front of the stack), writes
\* within the stack and grows it only over cells it writes.
GoodAccess(k, n, r, w) ==
    /\ GoodOperands(k)
    /\ n \in 0 .. STACK_SIZE
    /\ r \subseteq 0 .. sp - 1 \cup {-1}
    /\ w \subseteq Cells
    /\ 0 .. n - 1 \subseteq 0 .. sp - 1 \cup w

\* The part of Inv about the depth and the history of accesses.
AccessInv ==
    /\ StackSafe /\ NoStaleRead /\ CodeSafe
    /\ sp \in 0 .. SP_MOD - 1 /\ size \in Sizes /\ wrapped \in BOOLEAN
    /\ own \subseteq Int /\ rd \subseteq Int /\ wr \subseteq Int /\ fetched \subseteq Int

LEMMA AccessSafe ==
    ASSUME Ready, NEW k, NEW n, NEW r, NEW w, GoodAccess(k, n, r, w), Access(k, n, r, w)
    PROVE  AccessInv'
<1>1. /\ 0 .. sp - 1 \subseteq own /\ own \subseteq Cells
      /\ ip \in Nat /\ ip >= HEADER /\ ip + k < size /\ k \in Nat /\ size \in Nat
  BY ReadyFacts DEF GoodOperands, GoodAccess
<1>2. own' \subseteq Cells /\ wr' = {} /\ rd' \subseteq {-1}
  BY <1>1, ZenonT(30) DEF Access, GoodAccess
<1>a. sp' \in 0 .. STACK_SIZE /\ wrapped' = FALSE /\ size' = size
  BY DEF Access, GoodAccess, Ready, Inv, TypeOK
<1>3. StackSafe'
  BY <1>2, <1>a, Zenon DEF StackSafe
<1>4. NoStaleRead'
  BY <1>1, <1>2 DEF Access, NoStaleRead, GoodAccess
<1>5. ip .. ip + k \subseteq Code
  BY <1>1, NvmInstrAssumption DEF Code
<1>6. CodeSafe' /\ fetched' \subseteq Int
  BY <1>5 DEF Access, CodeSafe
<1>7. sp' \in 0 .. SP_MOD - 1 /\ size' \in Sizes /\ wrapped' \in BOOLEAN
  <2>1. sp' \in 0 .. SP_MOD - 1
    BY <1>a, NvmInstrAssumption
  <2> QED
    BY <1>a, <2>1, Zenon DEF Ready, Inv, TypeOK
<1>8. own' \subseteq Int /\ rd' \subseteq Int /\ wr' \subseteq Int
  BY <1>2, NvmInstrAssumption DEF Cells
<1> QED
  BY <1>3, <1>4, <1>6, <1>7, <1>8 DEF AccessInv

\* The part of Inv about heap accesses, and that the kernel has not trapped.
HeapInv ==
    /\ HeapSafe /\ heapb \subseteq Int
    /\ next_offset \in 0 .. HEAP_SIZE /\ trap \in BOOLEAN

LEMMA NoHeapSafe == ASSUME Ready, NoHeap PROVE HeapInv'
BY DEF Ready, Inv, TypeOK, NoHeap, HeapSafe, HeapInv

\* The rest of Inv: where ip, the stack, the frame and the exit code are.
RestInv ==
    /\ ip \in Nat /\ HEADER <= ip /\ (ip <= size \/ ip = HEADER)
    /\ stack \in [Cells -> Int32] /\ fp \in Int32
    /\ active \in BOOLEAN /\ exit_code \in Int32

LEMMA InvPartsPrime == AccessInv' /\ HeapInv' /\ RestInv' => Inv'
BY DEF Inv, TypeOK, AccessInv, HeapInv, RestInv

LEMMA PopToSafe ==
    ASSUME Ready, NEW k, NEW a, NEW n, NEW r,
           GoodOperands(k), GoodAddress(a), n \in 0 .. sp,
           r \subseteq 0 .. sp - 1 \cup {-1}, PopTo(k, a, n, r)
    PROVE  Inv'
<1>1. GoodAccess(k, n, r, {})
  BY ReadyFacts, NvmInstrAssumption DEF GoodAccess
<1>2. AccessInv'
  BY <1>1, AccessSafe DEF PopTo
<1>3. HeapInv'
  BY NoHeapSafe DEF PopTo
<1>4. RestInv'
  BY DEF PopTo, Continue, Ready, Inv, TypeOK, RestInv, GoodAddress, Access
<1> QED
  BY <1>2, <1>3, <1>4, InvPartsPrime

LEMMA SkipSafe ==
    ASSUME Ready, NEW k, GoodOperands(k), GoodAddress(at + k), Skip(k)
    PROVE  Inv'
<1>1. PopTo(k, at + k, sp, {})
  BY DEF Skip, PopTo
<1>2. sp \in 0 .. sp
  BY ReadyFacts
<1> QED
  BY <1>1, <1>2, PopToSafe

LEMMA PutSafe ==
    ASSUME Ready, NEW k, NEW a, NEW n, NEW r, NEW c, NEW v,
           GoodAddress(a), GoodAccess(k, n, r, {c}), v \in Int32,
           Put(k, a, n, r, c, v)
    PROVE  Inv'
<1>1. AccessInv'
  BY AccessSafe DEF Put
<1>2. HeapInv'
  BY NoHeapSafe DEF Put
<1>3. c \in Cells
  BY DEF GoodAccess
<1>4. RestInv'
  BY <1>3 DEF Put, Continue, Ready, Inv, TypeOK, RestInv, GoodAddress, Access
<1> QED
  BY <1>1, <1>2, <1>4, InvPartsPrime

LEMMA FailAtSafe ==
    ASSUME Ready, NEW k, NEW n, NEW r,
           GoodOperands(k), GoodAddress(at + k), n \in 0 .. sp,
           r \subseteq 0 .. sp - 1 \cup {-1}, FailAt(k, n, r)
    PROVE  Inv'
<1>1. GoodAccess(k, n, r, {})
  BY ReadyFacts, NvmInstrAssumption DEF GoodAccess
<1>2. AccessInv'
  BY <1>1, AccessSafe DEF FailAt
<1>3. HeapInv'
  BY NoHeapSafe DEF FailAt
<1>4. -1 \in Int32
  BY NvmInstrAssumption DEF Int32
<1>5. RestInv'
  BY <1>4, ZenonT(30) DEF FailAt, Fail, Ready, Inv, TypeOK, RestInv, GoodAddress, Access
<1> QED
  BY <1>2, <1>3, <1>5, InvPartsPrime

LEMMA SysEndSafe ==
    ASSUME Ready, HasByte, NEW code \in Int32, NEW n, NEW r, n \in 0 .. sp,
           r \subseteq 0 .. sp - 1 \cup {-1}, SysEnd(code, n, r)
    PROVE  Inv'
<1>0. GoodOperands(1) /\ GoodAddress(at + 1)
  BY ReadyFacts
<1>1. GoodAccess(1, n, r, {})
  BY <1>0, ReadyFacts, NvmInstrAssumption DEF GoodAccess
<1>2. AccessInv'
  BY <1>1, AccessSafe DEF SysEnd
<1>3. HeapInv'
  BY NoHeapSafe DEF SysEnd
<1>4. RestInv'
  BY <1>0, ZenonT(30) DEF SysEnd, Ready, Inv, TypeOK, RestInv, GoodAddress, Access
<1> QED
  BY <1>2, <1>3, <1>4, InvPartsPrime

\* An access that reads below sp and writes the m cells it grows the stack by.
LEMMA GrowAccess ==
    ASSUME Ready, NEW k, NEW r, NEW m \in Nat, GoodOperands(k), sp + m <= STACK_SIZE,
           r \subseteq 0 .. sp - 1 \cup {-1}
    PROVE  GoodAccess(k, sp + m, r, sp .. sp + m - 1)
<1>1. sp \in Nat /\ STACK_SIZE \in Nat
  BY ReadyFacts, NvmInstrAssumption
<1>2. sp + m \in 0 .. STACK_SIZE
  BY <1>1
<1>3. sp .. sp + m - 1 \subseteq Cells
  BY <1>1 DEF Cells
<1>4. 0 .. (sp + m) - 1 \subseteq 0 .. sp - 1 \cup sp .. sp + m - 1
  BY <1>1
<1> QED
  BY <1>2, <1>3, <1>4 DEF GoodAccess

LEMMA PushAccess ==
    ASSUME Ready, NEW k, NEW r, GoodOperands(k), sp < STACK_SIZE,
           r \subseteq 0 .. sp - 1 \cup {-1}
    PROVE  GoodAccess(k, sp + 1, r, {sp})
<1>1. sp \in Nat /\ STACK_SIZE \in Nat
  BY ReadyFacts, NvmInstrAssumption
<1>2. sp .. sp + 1 - 1 = {sp} /\ sp + 1 <= STACK_SIZE /\ 1 \in Nat
  BY <1>1
<1>3. GoodAccess(k, sp + 1, r, sp .. sp + 1 - 1)
  BY <1>2, GrowAccess, ZenonT(30)
<1> QED
  BY <1>2, <1>3, ZenonT(30)

\* Push a word, or overwrite a cell without growing the stack.
LEMMA PushSafe ==
    ASSUME Ready, NEW k, NEW a, NEW r, NEW v \in Int32,
           GoodOperands(k), GoodAddress(a), sp < STACK_SIZE,
           r \subseteq 0 .. sp - 1 \cup {-1}, Put(k, a, sp + 1, r, sp, v)
    PROVE  Inv'
<1>1. GoodAccess(k, sp + 1, r, {sp})
  BY PushAccess, ZenonT(30)
<1> QED
  BY <1>1, PutSafe

LEMMA OverwriteSafe ==
    ASSUME Ready, NEW k, NEW a, NEW n, NEW r, NEW c \in Cells, NEW v \in Int32,
           GoodOperands(k), GoodAddress(a), n \in 0 .. sp,
           r \subseteq 0 .. sp - 1 \cup {-1}, Put(k, a, n, r, c, v)
    PROVE  Inv'
<1>1. GoodAccess(k, n, r, {c})
  BY ReadyFacts, NvmInstrAssumption DEF GoodAccess
<1> QED
  BY <1>1, PutSafe

\* The cells near the top of the stack.
LEMMA TopCells ==
    ASSUME Ready
    PROVE  /\ {} \subseteq 0 .. sp - 1 \cup {-1}
           /\ sp >= 1 => /\ {sp - 1} \subseteq 0 .. sp - 1 \cup {-1}
                         /\ sp - 1 \in Cells /\ stack[sp - 1] \in Int32
                         /\ sp - 1 \in 0 .. sp
           /\ sp >= 2 => /\ {sp - 2, sp - 1} \subseteq 0 .. sp - 1 \cup {-1}
                         /\ sp - 2 \in Cells /\ stack[sp - 2] \in Int32
                         /\ sp - 2 \in 0 .. sp
           /\ sp \in 0 .. sp
           /\ (sp > 0 <=> sp >= 1) /\ (~(sp < 1) <=> sp >= 1) /\ (sp # 0 <=> sp >= 1)
BY ReadyFacts, NvmInstrAssumption DEF Cells

\* A jump to a checked target.
LEMMA TargetIsGood ==
    ASSUME Ready, NEW v \in Int32, Target(Unsigned(v))
    PROVE  GoodAddress(Unsigned(v))
BY ReadyFacts, UnsignedIsNat, NvmInstrAssumption DEF Target, GoodAddress, Int32

-----------------------------------------------------------------------------
(* stack.c                                                                 *)

LEMMA StackHandlers ==
    ASSUME Ready,
           \/ handle_halt \/ handle_nop \/ handle_push \/ handle_pop
           \/ handle_dup \/ handle_swap \/ handle_enter \/ handle_leave
    PROVE  Inv'
<1> USE ReadyFacts, TopCells
<1>0. GoodOperands(0) /\ GoodAddress(at + 0)
  BY DEF GoodAddress, at
<1>1. CASE handle_halt
  <2>1. GoodAccess(0, sp, {}, {})
    BY NvmInstrAssumption DEF GoodAccess
  <2>2. AccessInv'
    BY <1>1, <2>1, AccessSafe DEF handle_halt
  <2>3. HeapInv'
    BY <1>1, NoHeapSafe DEF handle_halt
  <2>4. 0 \in Int32
    BY NvmInstrAssumption DEF Int32
  <2>5. RestInv'
    BY <1>1, <2>4, ZenonT(30) DEF handle_halt, Ready, Inv, TypeOK, RestInv, GoodAddress, Access
  <2> QED
    BY <2>2, <2>3, <2>5, InvPartsPrime
<1>2. CASE handle_nop
  BY <1>0, <1>2, SkipSafe DEF handle_nop
<1>3. CASE handle_push
  <2>1. CASE HasImm /\ sp < STACK_SIZE /\ \E v \in Int32 : Put(IMM, at + IMM, sp + 1, {}, sp, v)
    BY <2>1, PushSafe
  <2>2. CASE HasImm /\ sp >= STACK_SIZE /\ FailAt(IMM, sp, {})
    BY <2>2, FailAtSafe
  <2>3. CASE ~HasImm /\ FailAt(0, sp, {})
    BY <1>0, <2>3, FailAtSafe
  <2> QED
    BY <1>3, <2>1, <2>2, <2>3 DEF handle_push
<1>4. CASE handle_pop
  <2>1. CASE sp > 0 /\ PopTo(0, at, sp - 1, {})
    BY <2>1, PopToSafe
  <2>2. CASE sp = 0 /\ FailAt(0, sp, {})
    BY <1>0, <2>2, FailAtSafe
  <2> QED
    BY <1>4, <2>1, <2>2 DEF handle_pop
<1>5. CASE handle_dup
  <2>1. CASE FailAt(0, sp, {})
    BY <1>0, <2>1, FailAtSafe
  <2>2. CASE sp > 0 /\ sp < STACK_SIZE /\ Put(0, at, sp + 1, {sp - 1}, sp, stack[sp - 1])
    BY <2>2, PushSafe
  <2> QED
    BY <1>5, <2>1, <2>2 DEF handle_dup
<1>6. CASE handle_swap
  <2>1. CASE sp < 2
    BY <1>0, <1>6, <2>1, FailAtSafe DEF handle_swap
  <2>2. CASE sp >= 2
    <3>1. GoodAccess(0, sp, {sp - 2, sp - 1}, {sp - 2, sp - 1})
      BY <2>2, NvmInstrAssumption DEF GoodAccess
    <3>2. AccessInv'
      BY <1>6, <2>2, <3>1, AccessSafe DEF handle_swap
    <3>3. HeapInv'
      BY <1>6, <2>2, NoHeapSafe DEF handle_swap
    <3>a. stack' = [stack EXCEPT ![sp - 2] = stack[sp - 1], ![sp - 1] = stack[sp - 2]]
          /\ ip' = at /\ Continue /\ fp' = fp /\ size' = size
      BY <1>6, <2>2 DEF handle_swap, FailAt, Access
    <3>b. stack' \in [Cells -> Int32]
      BY <2>2, <3>a
    <3>4. RestInv'
      BY <3>a, <3>b DEF Continue, Ready, Inv, TypeOK, RestInv, GoodAddress, Access
    <3> QED
      BY <3>2, <3>3, <3>4, InvPartsPrime
  <2> QED
    BY <2>1, <2>2
<1>7. CASE handle_enter
  <2>1. CASE FailAt(1, sp, {}) /\ HasByte
    BY <2>1, FailAtSafe
  <2>2. CASE FailAt(0, sp, {})
    BY <1>0, <2>2, FailAtSafe
  <2>3. ASSUME NEW n \in Byte, HasByte, sp + 1 + n <= STACK_SIZE, ip' = at + 1,
               Access(1, sp + 1 + n, {}, sp .. sp + n),
               stack' = [c \in Cells |-> IF c = sp THEN fp
                                         ELSE IF c \in sp + 1 .. sp + n THEN 0
                                         ELSE stack[c]],
               fp' = sp, Continue, NoHeap
        PROVE  Inv'
    <3>0. /\ n + 1 \in Nat /\ sp + (n + 1) <= STACK_SIZE
          /\ sp + (n + 1) = sp + 1 + n /\ sp + (n + 1) - 1 = sp + n
      BY <2>3, NvmInstrAssumption, SMTT(30) DEF Byte
    <3>a. GoodOperands(1) /\ {} \subseteq 0 .. sp - 1 \cup {-1}
      BY <2>3
    <3>b. GoodAccess(1, sp + (n + 1), {}, sp .. sp + (n + 1) - 1)
      BY <3>0, <3>a, GrowAccess
    <3>1. GoodAccess(1, sp + 1 + n, {}, sp .. sp + n)
      BY <3>0, <3>b
    <3>2. AccessInv'
      BY <2>3, <3>1, AccessSafe
    <3>3. HeapInv'
      BY <2>3, NoHeapSafe
    <3>4. sp \in Int32 /\ 0 \in Int32
      BY <2>3, NvmInstrAssumption, SMTT(30) DEF Int32
    <3>5. RestInv'
      BY <2>3, <3>4 DEF Continue, Ready, Inv, TypeOK, RestInv, GoodAddress, Access
    <3> QED
      BY <3>2, <3>3, <3>5, InvPartsPrime
  <2> QED
    BY <1>7, <2>1, <2>2, <2>3 DEF handle_enter
<1>8. CASE handle_leave
  <2>1. CASE FailAt(0, sp, {})
    BY <1>0, <2>1, FailAtSafe
  <2>2. ASSUME fp \in Cells, sp >= fp + 1, ip' = at, Access(0, fp, {fp}, {}),
               fp' = stack[fp], Continue, UNCHANGED stack, NoHeap
        PROVE  Inv'
    <3>1. GoodAccess(0, fp, {fp}, {})
      BY <2>2, NvmInstrAssumption, SMTT(30) DEF GoodAccess, Cells
    <3>2. AccessInv'
      BY <2>2, <3>1, AccessSafe
    <3>3. HeapInv'
      BY <2>2, NoHeapSafe
    <3>4. RestInv'
      BY <2>2 DEF Continue, Ready, Inv, TypeOK, RestInv, GoodAddress, Access
    <3> QED
      BY <3>2, <3>3, <3>4, InvPartsPrime
  <2> QED
    BY <1>8, <2>1, <2>2 DEF handle_leave
<1> QED
  BY <1>1, <1>2, <1>3, <1>4, <1>5, <1>6, <1>7, <1>8
-----------------------------------------------------------------------------
(* arithmetic.c and bitwise.c                                              *)

LEMMA BinarySafe ==
    ASSUME Ready, NEW op \in BinaryOps, op \notin {"DIV", "MOD"}, Binary(op)
    PROVE  Inv'
<1> USE ReadyFacts, TopCells
<1>1. CASE sp >= 2 /\ Put(0, at, sp - 1, {sp - 2, sp - 1}, sp - 2,
                          Alu(op, stack[sp - 2], stack[sp - 1]))
  <2>1. Alu(op, stack[sp - 2], stack[sp - 1]) \in Int32
    BY <1>1, AluAssumption
  <2> QED
    BY <1>1, <2>1, OverwriteSafe
<1>2. CASE FailAt(0, sp, {})
  <2>1. GoodAddress(at + 0)
    BY DEF GoodAddress, at
  <2> QED
    BY <1>2, <2>1, FailAtSafe
<1> QED
  BY <1>1, <1>2 DEF Binary

LEMMA DivideSafe ==
    ASSUME Ready, NEW op \in {"DIV", "MOD"}, Divide(op)
    PROVE  Inv'
<1> USE ReadyFacts, TopCells
<1>0. GoodAddress(at + 0)
  BY DEF GoodAddress, at
<1>1. CASE FailAt(0, sp, {})
  BY <1>0, <1>1, FailAtSafe
<1>2. CASE sp >= 2 /\ FailAt(0, sp, {sp - 2, sp - 1})
  BY <1>0, <1>2, FailAtSafe
<1>3. CASE /\ sp >= 2 /\ stack[sp - 1] # 0 /\ ~Overflows
           /\ Put(0, at, sp - 1, {sp - 2, sp - 1}, sp - 2,
                  Alu(op, stack[sp - 2], stack[sp - 1]))
  <2>1. Alu(op, stack[sp - 2], stack[sp - 1]) \in Int32
    BY <1>3, AluAssumption DEF Overflows, BinaryOps
  <2> QED
    BY <1>3, <2>1, OverwriteSafe
<1>4. CASE /\ sp >= 2
           /\ trap' = TRUE
           /\ ip' = at
           /\ Access(0, sp, {sp - 2, sp - 1}, {})
           /\ heapb' = {}
           /\ UNCHANGED <<fp, stack, active, exit_code, next_offset>>
  <2>1. GoodAccess(0, sp, {sp - 2, sp - 1}, {})
    BY <1>4, NvmInstrAssumption DEF GoodAccess
  <2>2. AccessInv'
    BY <1>4, <2>1, AccessSafe
  <2>3. HeapInv' /\ RestInv'
    BY <1>4 DEF HeapInv, HeapSafe, Ready, Inv, TypeOK, RestInv, GoodAddress, Access
  <2> QED
    BY <2>2, <2>3, InvPartsPrime
<1> QED
  BY <1>1, <1>2, <1>3, <1>4, ZenonT(30) DEF Divide

LEMMA AluHandlers ==
    ASSUME Ready,
           \/ handle_add \/ handle_sub \/ handle_mul \/ handle_div \/ handle_mod
           \/ handle_cmp \/ handle_eq \/ handle_neq \/ handle_gt \/ handle_lt
           \/ handle_and \/ handle_or \/ handle_xor \/ handle_not
           \/ handle_shl \/ handle_shr \/ handle_sar
    PROVE  Inv'
<1>1. CASE \E op \in BinaryOps \ {"DIV", "MOD"} : Binary(op)
  BY <1>1, BinarySafe
<1>2. CASE handle_div \/ handle_mod
  BY <1>2, DivideSafe DEF handle_div, handle_mod
<1>3. CASE handle_not
  <2> USE ReadyFacts, TopCells
  <2>1. CASE sp >= 1 /\ Put(0, at, sp, {sp - 1}, sp - 1, Alu("NOT", stack[sp - 1], 0))
    <3>1. 0 \in Int32
      BY NvmInstrAssumption DEF Int32
    <3>2. Alu("NOT", stack[sp - 1], 0) \in Int32
      BY <2>1, <3>1, AluAssumption, ZenonT(30)
    <3> QED
      BY <2>1, <3>2, OverwriteSafe
  <2>2. CASE FailAt(0, sp, {})
    <3>1. GoodAddress(at + 0)
      BY DEF GoodAddress, at
    <3> QED
      BY <2>2, <3>1, FailAtSafe
  <2> QED
    BY <1>3, <2>1, <2>2 DEF handle_not
<1> QED
  BY <1>1, <1>2, <1>3
  DEF BinaryOps, handle_add, handle_sub, handle_mul, handle_cmp, handle_eq,
      handle_neq, handle_gt, handle_lt, handle_and, handle_or, handle_xor,
      handle_shl, handle_shr, handle_sar

-----------------------------------------------------------------------------
(* flowcontrol.c                                                           *)

\* The two ways a conditional branch ends.
LEMMA BranchOutcome ==
    ASSUME Ready, sp > 0, HasImm, NEW v \in Int32,
           \/ PopTo(IMM, at + IMM, sp - 1, {sp - 1})
           \/ Target(Unsigned(v)) /\ PopTo(IMM, Unsigned(v), sp - 1, {sp - 1})
           \/ FailAt(IMM, sp - 1, {sp - 1})
    PROVE  Inv'
<1> USE ReadyFacts, TopCells
<1>1. CASE PopTo(IMM, at + IMM, sp - 1, {sp - 1})
  BY <1>1, PopToSafe
<1>2. CASE Target(Unsigned(v)) /\ PopTo(IMM, Unsigned(v), sp - 1, {sp - 1})
  BY <1>2, PopToSafe, TargetIsGood
<1>3. CASE FailAt(IMM, sp - 1, {sp - 1})
  BY <1>3, FailAtSafe
<1> QED
  BY <1>1, <1>2, <1>3

LEMMA FlowHandlers ==
    ASSUME Ready,
           \/ handle_jmp \/ handle_jz \/ handle_jnz \/ handle_call \/ handle_ret
           \/ handle_load_arg \/ handle_store_arg
    PROVE  Inv'
<1> USE ReadyFacts, TopCells
<1>0. GoodOperands(0) /\ GoodAddress(at + 0)
  BY DEF GoodAddress, at
<1>a. ASSUME FailAt(0, sp, {}) PROVE Inv'
  BY <1>0, <1>a, FailAtSafe
<1>b. ASSUME Skip(0) PROVE Inv'
  BY <1>0, <1>b, SkipSafe
<1>1. CASE handle_jmp
  <2>1. ASSUME HasImm, NEW v \in Int32, Target(Unsigned(v)), PopTo(IMM, Unsigned(v), sp, {})
        PROVE  Inv'
    BY <2>1, PopToSafe, TargetIsGood
  <2>2. CASE HasImm /\ FailAt(IMM, sp, {})
    BY <2>2, FailAtSafe
  <2> QED
    BY <1>1, <1>b, <2>1, <2>2 DEF handle_jmp
<1>2. CASE handle_jz \/ handle_jnz
  <2>1. CASE sp > 0 /\ FailAt(0, sp - 1, {sp - 1})
    BY <1>0, <2>1, FailAtSafe
  <2>2. CASE handle_jz
    BY <2>2, <1>a, <2>1, BranchOutcome DEF handle_jz, Branch
  <2>3. CASE handle_jnz
    BY <2>3, <1>a, <2>1, BranchOutcome, ZenonT(30) DEF handle_jnz, Branch
  <2> QED
    BY <1>2, <2>2, <2>3
<1>3. CASE handle_call
  <2>0. HasImm => Wrap(at + IMM) \in Int32
    BY WrapIsWord, NvmInstrAssumption
  <2>1. CASE HasImm /\ FailAt(IMM, sp, {})
    BY <2>1, FailAtSafe
  <2>2. ASSUME HasImm, sp < STACK_SIZE - 1, NEW v \in Int32, Target(Unsigned(v)),
               Put(IMM, Unsigned(v), sp + 1, {}, sp, Wrap(at + IMM))
        PROVE  Inv'
    <3>1. sp < STACK_SIZE
      BY <2>2, NvmInstrAssumption
    <3> QED
      BY <2>0, <2>2, <3>1, PushSafe, TargetIsGood
  <2>3. ASSUME HasImm, sp < STACK_SIZE - 1, ip' = at + IMM,
               Access(IMM, sp + 1, {}, {sp}),
               stack' = [stack EXCEPT ![sp] = Wrap(at + IMM)],
               Fail, UNCHANGED fp, NoHeap
        PROVE  Inv'
    <3>a. sp < STACK_SIZE /\ GoodOperands(IMM) /\ {} \subseteq 0 .. sp - 1 \cup {-1}
      BY <2>3, NvmInstrAssumption
    <3>1. GoodAccess(IMM, sp + 1, {}, {sp})
      BY <3>a, PushAccess
    <3>2. AccessInv'
      BY <2>3, <3>1, AccessSafe
    <3>3. HeapInv'
      BY <2>3, NoHeapSafe
    <3>4. -1 \in Int32
      BY NvmInstrAssumption DEF Int32
    <3>5. RestInv'
      BY <2>0, <2>3, <3>4, ZenonT(30) DEF Fail, Ready, Inv, TypeOK, RestInv, GoodAddress, Access
    <3> QED
      BY <3>2, <3>3, <3>5, InvPartsPrime
  <2> QED
    BY <1>3, <1>a, <2>1, <2>2, <2>3 DEF handle_call
<1>4. CASE handle_ret
  <2>1. CASE sp > 0 /\ FailAt(0, sp - 1, {sp - 1})
    BY <1>0, <2>1, FailAtSafe
  <2>2. CASE /\ sp > 0 /\ Target(Unsigned(stack[sp - 1]))
             /\ PopTo(0, Unsigned(stack[sp - 1]), sp - 1, {sp - 1})
    BY <2>2, PopToSafe, TargetIsGood
  <2> QED
    BY <1>4, <1>a, <2>1, <2>2 DEF handle_ret
<1>5. CASE handle_load_arg
  <2>1. CASE HasByte /\ FailAt(1, sp, {})
    BY <2>1, FailAtSafe
  <2>2. CASE HasByte /\ Skip(1)
    BY <2>2, SkipSafe
  <2>3. ASSUME HasByte, NEW idx \in Int, idx >= 0, idx < sp, sp < STACK_SIZE,
               Put(1, at + 1, sp + 1, {idx}, sp, stack[idx])
        PROVE  Inv'
    <3>1. {idx} \subseteq 0 .. sp - 1 \cup {-1} /\ stack[idx] \in Int32
      BY <2>3, NvmInstrAssumption DEF Cells
    <3> QED
      BY <2>3, <3>1, PushSafe
  <2>4. \A off \in Byte : (fp - 2) - off \in Int
    BY NvmInstrAssumption DEF Byte, Int32
  <2> QED
    BY <1>5, <1>b, <2>1, <2>2, <2>3, <2>4, ZenonT(30) DEF handle_load_arg
<1>6. CASE handle_store_arg
  <2>1. CASE HasByte /\ FailAt(1, sp, {})
    BY <2>1, FailAtSafe
  <2>2. CASE HasByte /\ Skip(1)
    BY <2>2, SkipSafe
  <2>3. ASSUME HasByte, NEW idx \in Int, idx >= 0, idx < STACK_SIZE, sp > 0,
               Put(1, at + 1, sp - 1, {sp - 1}, idx, stack[sp - 1])
        PROVE  Inv'
    <3>1. idx \in Cells
      BY <2>3, NvmInstrAssumption DEF Cells
    <3> QED
      BY <2>3, <3>1, OverwriteSafe
  <2>4. \A off \in Byte : (fp - 2) - off \in Int
    BY NvmInstrAssumption DEF Byte, Int32
  <2> QED
    BY <1>6, <1>b, <2>1, <2>2, <2>3, <2>4, ZenonT(30) DEF handle_store_arg
<1> QED
  BY <1>1, <1>2, <1>3, <1>4, <1>5, <1>6
-----------------------------------------------------------------------------
(* memory.c                                                                *)

\* The bounds check of LOAD_HEAP and STORE_HEAP.
LEMMA HeapCheck ==
    ASSUME NEW o \in Int32, ~HeapOutside(o), NEW b \in HeapWord(o)
    PROVE  b \in Heap \/ b > INT_MAX - HEAP_WORD + 1
<1>1. o >= 0 /\ Wrap(o + HEAP_WORD - 1) < HEAP_SIZE /\ o \in Int /\ HEAP_WORD \in Nat \ {0}
  <2>1. o + HEAP_WORD - 1 \in Int
    BY NvmInstrAssumption DEF Int32
  <2>2. Wrap(o + HEAP_WORD - 1) \in Int
    BY <2>1, WrapIsWord, NvmInstrAssumption DEF Int32
  <2> QED
    BY <2>2, NvmInstrAssumption DEF HeapOutside, Int32
<1>2. b \in Int /\ b >= o /\ b <= o + HEAP_WORD - 1
  BY <1>1 DEF HeapWord
<1>3. CASE o + HEAP_WORD - 1 <= INT_MAX
  <2>1. Wrap(o + HEAP_WORD - 1) = o + HEAP_WORD - 1
    BY <1>1, <1>3, WrapIdentity, NvmInstrAssumption
  <2> QED
    BY <1>1, <1>2, <2>1, NvmInstrAssumption DEF Heap
<1>4. CASE o + HEAP_WORD - 1 > INT_MAX
  BY <1>1, <1>2, <1>4, NvmInstrAssumption
<1> QED
  BY <1>1, <1>3, <1>4, NvmInstrAssumption

LEMMA HeapWordSafe ==
    ASSUME Ready, NEW o \in Int32, ~HeapOutside(o), heapb' = HeapWord(o) \ Heap,
           UNCHANGED <<next_offset, trap>>
    PROVE  HeapInv'
<1>1. HeapSafe'
  BY HeapCheck DEF HeapSafe
<1>2. heapb' \subseteq Int
  BY NvmInstrAssumption DEF HeapWord, Int32
<1> QED
  BY <1>1, <1>2 DEF HeapInv, Ready, Inv, TypeOK

LEMMA MemoryHandlers ==
    ASSUME Ready,
           \/ handle_load \/ handle_store \/ handle_load_rel \/ handle_store_rel
           \/ handle_load_abs \/ handle_store_abs
           \/ handle_load_heap \/ handle_store_heap
    PROVE  Inv'
<1> USE ReadyFacts, TopCells
<1>0. GoodOperands(0) /\ GoodAddress(at + 0)
  BY DEF GoodAddress, at
<1>a. ASSUME FailAt(0, sp, {}) PROVE Inv'
  BY <1>0, <1>a, FailAtSafe
<1>b. ASSUME Skip(0) PROVE Inv'
  BY <1>0, <1>b, SkipSafe
<1>c. ASSUME HasByte, FailAt(1, sp, {}) PROVE Inv'
  BY <1>c, FailAtSafe
<1>d. ASSUME HasByte, Skip(1) PROVE Inv'
  BY <1>d, SkipSafe
<1>e. \A off \in Byte : Wrap(fp + 1 + off) \in Int
  <2> TAKE off \in Byte
  <2>1. fp + 1 + off \in Int
    BY NvmInstrAssumption DEF Byte, Int32
  <2> QED
    BY <2>1, WrapIsWord, NvmInstrAssumption DEF Int32
<1>1. CASE handle_load
  <2>1. ASSUME HasByte, sp < STACK_SIZE, NEW v \in Int32, Put(1, at + 1, sp + 1, {}, sp, v)
        PROVE  Inv'
    BY <2>1, PushSafe
  <2> QED
    BY <1>1, <1>b, <1>d, <2>1 DEF handle_load
<1>2. CASE handle_store
  <2>1. CASE HasByte /\ sp > 0 /\ PopTo(1, at + 1, sp - 1, {sp - 1})
    BY <2>1, PopToSafe
  <2> QED
    BY <1>2, <1>b, <1>d, <2>1 DEF handle_store
<1>3. CASE handle_load_rel
  <2>1. ASSUME HasByte, NEW idx \in Int, idx >= 0, idx < sp, sp < STACK_SIZE,
               Put(1, at + 1, sp + 1, {idx}, sp, stack[idx])
        PROVE  Inv'
    <3>1. {idx} \subseteq 0 .. sp - 1 \cup {-1} /\ stack[idx] \in Int32
      BY <2>1, NvmInstrAssumption DEF Cells
    <3> QED
      BY <2>1, <3>1, PushSafe
  <2> QED
    BY <1>3, <1>b, <1>c, <1>e, <2>1, ZenonT(30) DEF handle_load_rel
<1>4. CASE handle_store_rel
  <2>1. ASSUME HasByte, NEW idx \in Int, idx >= 0, idx < STACK_SIZE, sp > 0,
               Put(1, at + 1, sp - 1, {sp - 1}, idx, stack[sp - 1])
        PROVE  Inv'
    <3>1. idx \in Cells
      BY <2>1, NvmInstrAssumption DEF Cells
    <3> QED
      BY <2>1, <3>1, OverwriteSafe
  <2> QED
    BY <1>4, <1>b, <1>c, <1>d, <1>e, <2>1, ZenonT(30) DEF handle_store_rel
<1>5. CASE handle_load_abs
  <2>1. ASSUME sp > 0, NEW v \in Int32, Put(0, at, sp, {sp - 1}, sp - 1, v)
        PROVE  Inv'
    BY <2>1, OverwriteSafe
  <2> QED
    BY <1>5, <1>a, <1>b, <2>1 DEF handle_load_abs
<1>6. CASE handle_store_abs
  <2>1. CASE sp >= 2 /\ PopTo(0, at, sp - 2, {sp - 2, sp - 1})
    BY <2>1, PopToSafe
  <2> QED
    BY <1>6, <1>a, <1>b, <2>1 DEF handle_store_abs
<1>7. CASE handle_load_heap
  <2>1. CASE sp >= 1 /\ FailAt(0, sp - 1, {sp - 1})
    BY <1>0, <2>1, FailAtSafe
  <2>2. ASSUME sp >= 1, ~HeapOutside(stack[sp - 1]), ip' = at,
               Access(0, sp, {sp - 1}, {sp - 1}),
               NEW v \in Int32, stack' = [stack EXCEPT ![sp - 1] = v],
               heapb' = HeapWord(stack[sp - 1]) \ Heap, Continue,
               UNCHANGED <<fp, next_offset, trap>>
        PROVE  Inv'
    <3>1. GoodAccess(0, sp, {sp - 1}, {sp - 1})
      BY <2>2, NvmInstrAssumption DEF GoodAccess
    <3>2. AccessInv'
      BY <2>2, <3>1, AccessSafe
    <3>3. HeapInv'
      BY <2>2, HeapWordSafe
    <3>4. RestInv'
      BY <2>2, ZenonT(30) DEF Continue, Ready, Inv, TypeOK, RestInv, GoodAddress, Access
    <3> QED
      BY <3>2, <3>3, <3>4, InvPartsPrime
  <2> QED
    BY <1>7, <1>a, <2>1, <2>2 DEF handle_load_heap
<1>8. CASE handle_store_heap
  <2>1. CASE sp >= 2 /\ FailAt(0, sp - 2, {sp - 2, sp - 1})
    BY <1>0, <2>1, FailAtSafe
  <2>2. ASSUME sp >= 2, ~HeapOutside(stack[sp - 2]), ip' = at,
               Access(0, sp - 2, {sp - 2, sp - 1}, {}),
               heapb' = HeapWord(stack[sp - 2]) \ Heap, Continue,
               UNCHANGED <<fp, stack, next_offset, trap>>
        PROVE  Inv'
    <3>1. GoodAccess(0, sp - 2, {sp - 2, sp - 1}, {})
      BY <2>2, NvmInstrAssumption DEF GoodAccess
    <3>2. AccessInv'
      BY <2>2, <3>1, AccessSafe
    <3>3. HeapInv'
      BY <2>2, HeapWordSafe
    <3>4. RestInv'
      BY <2>2, ZenonT(30) DEF Continue, Ready, Inv, TypeOK, RestInv, GoodAddress, Access
    <3> QED
      BY <3>2, <3>3, <3>4, InvPartsPrime
  <2> QED
    BY <1>8, <1>a, <2>1, <2>2, ZenonT(30) DEF handle_store_heap
<1> QED
  BY <1>1, <1>2, <1>3, <1>4, <1>5, <1>6, <1>7, <1>8
-----------------------------------------------------------------------------
(* syscalls.c                                                              *)

\* OPEN and WRITE: the top cell is a heap offset and one cell is replaced.
LEMMA HeapCallSafe ==
    ASSUME Ready, HasByte, NEW n, NEW r, NEW c \in Cells, NEW v \in Int32,
           NEW o \in 0 .. HEAP_SIZE - 1, NEW last \in o .. HEAP_SIZE - 1,
           n \in 0 .. sp, r \subseteq 0 .. sp - 1 \cup {-1},
           ip' = at + 1, Access(1, n, r, {c}), stack' = [stack EXCEPT ![c] = v],
           heapb' = (o .. last) \ Heap, Continue, UNCHANGED fp,
           next_offset' \in 0 .. HEAP_SIZE, UNCHANGED trap
    PROVE  Inv'
<1>1. GoodAccess(1, n, r, {c})
  BY ReadyFacts, NvmInstrAssumption DEF GoodAccess
<1>2. AccessInv'
  BY <1>1, AccessSafe
<1>3. HeapInv'
  <2>1. heapb' = {}
    BY NvmInstrAssumption DEF Heap
  <2> QED
    BY <2>1 DEF HeapInv, HeapSafe, Ready, Inv, TypeOK
<1>4. RestInv'
  BY ReadyFacts DEF Continue, Ready, Inv, TypeOK, RestInv, GoodAddress, Access
<1> QED
  BY <1>2, <1>3, <1>4, InvPartsPrime

LEMMA SyscallHandlers ==
    ASSUME Ready, HasByte, syscall_handler
    PROVE  Inv'
<1> USE ReadyFacts, TopCells
<1>a. ASSUME Skip(1) PROVE Inv'
  BY <1>a, SkipSafe
<1>b. ASSUME NEW n, NEW r, n \in 0 .. sp, r \subseteq 0 .. sp - 1 \cup {-1}, SysPop(n, r)
      PROVE  Inv'
  BY <1>b, PopToSafe, ZenonT(30) DEF SysPop
<1>c. 0 \in Int32 /\ -1 \in Int32
  BY NvmInstrAssumption, SMTT(30) DEF Int32
<1>1. CASE SYS_EXIT
  <2>1. CASE sp >= 1 /\ SysEnd(stack[sp - 1], sp - 1, {sp - 1})
    BY <2>1, SysEndSafe
  <2>2. CASE sp = 0 /\ SysEnd(0, 0, {})
    BY <1>c, <2>2, SysEndSafe
  <2> QED
    BY <1>1, <2>1, <2>2 DEF SYS_EXIT
<1>2. CASE SYS_SPAWN
  <2>1. CASE sp >= 1 /\ SysPop(sp, {sp - 2, sp - 1})
    <3>1. {sp - 2, sp - 1} \subseteq 0 .. sp - 1 \cup {-1}
      BY <2>1
    <3> QED
      BY <1>b, <2>1, <3>1
  <2>2. ASSUME sp >= 2, NEW n \in 0 .. sp - 2, SysPop(n, 0 .. sp - 1) PROVE Inv'
    <3>1. n \in 0 .. sp /\ 0 .. sp - 1 \subseteq 0 .. sp - 1 \cup {-1}
      BY <2>2
    <3> QED
      BY <1>b, <2>2, <3>1, ZenonT(30)
  <2>3. ASSUME sp = 1, CellAt(sp - 2) \in 0 .. MAX_ARGC, wrapped' = TRUE, ip' = at + 1,
               fetched' = (ip .. ip + 1) \ Code, sp' \in 0 .. SP_MOD - 1,
               rd' = (-1 .. SP_MOD - 2) \ own, wr' = {}, Continue,
               UNCHANGED <<stack, fp, size, own>>, NoHeap
        PROVE  Inv'
    <3>1. size' <= MAX_ARGC
      <4>1. size \in Sizes
        BY DEF Ready, Inv, TypeOK
      <4>2. Wrap(size) \in 0 .. MAX_ARGC
        BY <2>3 DEF CellAt
      <4> QED
        BY <2>3, <4>1, <4>2, ShortProgram
    <3>2. StackSafe' /\ NoStaleRead'
      BY <2>3, <3>1 DEF StackSafe, NoStaleRead, Continue, Ready
    <3>3. ip .. ip + 1 \subseteq Code
      BY NvmInstrAssumption DEF Code, HasByte
    <3>4. CodeSafe' /\ fetched' \subseteq Int
      BY <2>3, <3>3 DEF CodeSafe
    <3>5. own' \subseteq Int /\ rd' \subseteq Int /\ wr' \subseteq Int
      BY <2>3, NvmInstrAssumption DEF Ready, Inv, TypeOK
    <3>6. AccessInv'
      BY <2>3, <3>2, <3>4, <3>5, Zenon DEF AccessInv, Ready, Inv, TypeOK
    <3>7. HeapInv'
      BY <2>3, NoHeapSafe
    <3>8. RestInv'
      BY <2>3 DEF Continue, Ready, Inv, TypeOK, RestInv, GoodAddress
    <3> QED
      BY <3>6, <3>7, <3>8, InvPartsPrime
  <2> QED
    BY <1>2, <1>a, <2>1, <2>2, <2>3 DEF SYS_SPAWN
<1>3. CASE SYS_OPEN
  <2>1. ASSUME sp >= 1, stack[sp - 1] \in 0 .. HEAP_SIZE - 1, ip' = at + 1,
               Access(1, sp, {sp - 1}, {sp - 1}),
               NEW fd \in Int32, stack' = [stack EXCEPT ![sp - 1] = fd],
               NEW last \in stack[sp - 1] .. HEAP_SIZE - 1,
               heapb' = (stack[sp - 1] .. last) \ Heap, Continue,
               UNCHANGED <<fp, next_offset, trap>>
        PROVE  Inv'
    <3>1. next_offset' \in 0 .. HEAP_SIZE
      BY <2>1, ZenonT(30) DEF Ready, Inv, TypeOK
    <3> QED
      BY <2>1, <3>1, HeapCallSafe, ZenonT(30)
  <2> QED
    BY <1>3, <1>a, <1>b, <2>1, ZenonT(30) DEF SYS_OPEN
<1>4. CASE SYS_READ
  <2>1. ASSUME sp >= 1, NEW last \in next_offset .. HEAP_SIZE - 1,
               heapb' = (next_offset .. last) \ Heap, next_offset' = last + 1,
               ip' = at + 1, Access(1, sp, {sp - 1}, {sp - 1}),
               stack' = [stack EXCEPT ![sp - 1] = next_offset],
               Continue, UNCHANGED <<fp, trap>>
        PROVE  Inv'
    <3>1. next_offset \in 0 .. HEAP_SIZE - 1 /\ next_offset' \in 0 .. HEAP_SIZE
      BY <2>1, NvmInstrAssumption, SMTT(30) DEF Ready, Inv, TypeOK
    <3>2. next_offset \in Int32
      BY <3>1, NvmInstrAssumption, SMTT(30) DEF Int32
    <3> QED
      BY <2>1, <3>1, <3>2, HeapCallSafe, ZenonT(30)
  <2> QED
    BY <1>4, <1>a, <1>b, <2>1, ZenonT(30) DEF SYS_READ
<1>5. CASE SYS_WRITE
  <2>1. ASSUME sp >= 2, stack[sp - 1] \in 0 .. HEAP_SIZE - 1, ip' = at + 1,
               Access(1, sp - 1, {sp - 2, sp - 1}, {sp - 2}),
               NEW n \in -1 .. HEAP_SIZE, stack' = [stack EXCEPT ![sp - 2] = n],
               NEW last \in stack[sp - 1] .. HEAP_SIZE - 1,
               heapb' = (stack[sp - 1] .. last) \ Heap, Continue,
               UNCHANGED <<fp, next_offset, trap>>
        PROVE  Inv'
    <3>1. next_offset' \in 0 .. HEAP_SIZE
      BY <2>1, ZenonT(30) DEF Ready, Inv, TypeOK
    <3>2. n \in Int32
      <4>1. HEAP_SIZE \in Int /\ HEAP_SIZE <= INT_MAX /\ INT_MAX \in Nat
        BY NvmInstrAssumption, SMTT(30)
      <4> HIDE ReadyFacts, TopCells
      <4> QED
        BY <2>1, <4>1 DEF Int32
    <3>3. sp - 1 \in 0 .. sp /\ sp - 2 \in Cells /\ stack[sp - 1] \in 0 .. HEAP_SIZE - 1
      BY <2>1
    <3>4. {sp - 2, sp - 1} \subseteq 0 .. sp - 1 \cup {-1}
      BY <2>1
    <3>5. UNCHANGED fp /\ UNCHANGED trap
      BY <2>1
    <3> HIDE ReadyFacts, TopCells
    <3> QED
      BY <2>1, <3>1, <3>2, <3>3, <3>4, <3>5, HeapCallSafe, ZenonT(30)
  <2> QED
    BY <1>5, <1>a, <1>b, <2>1, ZenonT(30) DEF SYS_WRITE
<1>6. CASE SYS_DELETE
  <2>1. ASSUME NEW c \in 0 .. sp - 1, SysPop(c, c .. sp - 1) PROVE Inv'
    <3>1. c \in 0 .. sp /\ c .. sp - 1 \subseteq 0 .. sp - 1 \cup {-1}
      BY <2>1
    <3> QED
      BY <1>b, <2>1, <3>1
  <2> QED
    BY <1>6, <1>a, <2>1 DEF SYS_DELETE
<1>7. CASE SYS_MSG_SEND \/ SYS_PORT_OUT_BYTE
  BY <1>7, <1>a, <1>b DEF SYS_MSG_SEND, SYS_PORT_OUT_BYTE
<1>8. CASE SYS_MSG_RECEIVE
  <2>1. ASSUME sp + 1 < STACK_SIZE, ip' = at + 1, Access(1, sp + 2, {}, {sp, sp + 1}),
               NEW pid \in Byte, NEW content \in Byte,
               stack' = [stack EXCEPT ![sp] = pid, ![sp + 1] = content],
               Continue, UNCHANGED fp, NoHeap
        PROVE  Inv'
    <3>0. STACK_SIZE \in Nat
      BY NvmInstrAssumption
    <3>1. GoodAccess(1, sp + 2, {}, {sp, sp + 1})
      <4>1. {sp, sp + 1} \subseteq Cells /\ sp + 2 \in 0 .. STACK_SIZE
        BY <2>1, <3>0, SMTT(30) DEF Cells
      <4>2. 0 .. (sp + 2) - 1 \subseteq 0 .. sp - 1 \cup {sp, sp + 1}
        BY <3>0, SMTT(30)
      <4> QED
        BY <2>1, <4>1, <4>2 DEF GoodAccess
    <3>2. AccessInv'
      BY <2>1, <3>1, AccessSafe
    <3>3. HeapInv'
      BY <2>1, NoHeapSafe
    <3>a. pid \in Int32 /\ content \in Int32
      BY <2>1, NvmInstrAssumption DEF Byte, Int32
    <3>4. stack' \in [Cells -> Int32]
      BY <2>1, <3>a, ZenonT(30)
    <3>5. RestInv'
      BY <2>1, <3>4, ZenonT(30) DEF Continue, Ready, Inv, TypeOK, RestInv, GoodAddress, Access
    <3> QED
      BY <3>2, <3>3, <3>5, InvPartsPrime
  <2> QED
    BY <1>8, <1>a, <2>1 DEF SYS_MSG_RECEIVE
<1>9. CASE SYS_PORT_IN_BYTE
  <2>1. ASSUME sp > 0, NEW v \in Byte, SysPut(sp, {sp - 1}, sp - 1, v) PROVE Inv'
    <3>1. v \in Int32
      BY <2>1, NvmInstrAssumption DEF Byte, Int32
    <3> QED
      BY <2>1, <3>1, OverwriteSafe DEF SysPut
  <2> QED
    BY <1>9, <1>a, <2>1, ZenonT(30) DEF SYS_PORT_IN_BYTE
<1>10. CASE SYS_PRINT
  <2>1. CASE sp >= 1 /\ SysEnd(-1, sp - 1, {})
    BY <1>c, <2>1, SysEndSafe
  <2> QED
    BY <1>10, <1>a, <2>1 DEF SYS_PRINT
<1>11. CASE SYS_unknown
  BY <1>11, <1>c, SysEndSafe DEF SYS_unknown
<1> QED
  BY <1>1, <1>2, <1>3, <1>4, <1>5, <1>6, <1>7, <1>8, <1>9, <1>10, <1>11
  DEF syscall_handler

-----------------------------------------------------------------------------
LEMMA InitInv == Init => Inv
<1> SUFFICES ASSUME Init PROVE Inv
  OBVIOUS
<1>1. -1 \in Int32 /\ 0 \in Int32
  BY NvmInstrAssumption DEF Int32
<1>2. TypeOK
  <2>1. stack \in [Cells -> Int32]
    BY <1>1 DEF Init
  <2>2. /\ ip \in Nat /\ HEADER <= ip /\ ip = HEADER
        /\ sp \in 0 .. STACK_SIZE /\ sp \in 0 .. SP_MOD - 1 /\ fp \in Int32
        /\ exit_code \in Int32 /\ size \in Sizes /\ next_offset \in 0 .. HEAP_SIZE
    BY <1>1, NvmInstrAssumption DEF Init, Fresh
  <2>3. /\ rd \subseteq Int /\ wr \subseteq Int /\ own \subseteq Int
        /\ fetched \subseteq Int /\ heapb \subseteq Int
        /\ active \in BOOLEAN /\ trap \in BOOLEAN /\ wrapped \in BOOLEAN
    BY ZenonT(30) DEF Init, Fresh
  <2> QED
    BY <2>1, <2>2, <2>3 DEF TypeOK
<1>3. NoStaleRead
  BY DEF Init, Fresh, NoStaleRead
<1>4. StackSafe /\ CodeSafe /\ HeapSafe
  BY NvmInstrAssumption DEF Init, Fresh, StackSafe, CodeSafe, HeapSafe
<1> QED
  BY <1>2, <1>3, <1>4 DEF Inv

LEMMA NextInv == Inv /\ [Next]_vars => Inv'
<1> SUFFICES ASSUME Inv, [Next]_vars PROVE Inv'
  OBVIOUS
<1>1. CASE nvm_execute_instruction
  <2>1. Ready
    BY <1>1 DEF nvm_execute_instruction, Ready
  <2>2. CASE handle_syscall
    <3>1. CASE HasByte /\ syscall_handler
      BY <2>1, <3>1, SyscallHandlers
    <3>2. CASE Skip(0)
      <4>1. GoodOperands(0) /\ GoodAddress(at + 0)
        BY <2>1, ReadyFacts DEF GoodAddress, at
      <4> QED
        BY <2>1, <3>2, <4>1, SkipSafe
    <3> QED
      BY <2>2, <3>1, <3>2 DEF handle_syscall
  <2>3. CASE handle_break
    BY <2>1, <2>3, StackHandlers DEF handle_break, handle_nop
  <2> QED
    BY <1>1, <2>1, <2>2, <2>3, StackHandlers, AluHandlers, FlowHandlers, MemoryHandlers
    DEF nvm_execute_instruction, Instruction
<1>2. CASE RunOff
  <2>1. 0 \in Int32
    BY NvmInstrAssumption DEF Int32
  <2> QED
    BY <1>2, <2>1, ZenonT(30) DEF RunOff, Inv, TypeOK, StackSafe, NoStaleRead, CodeSafe, HeapSafe
<1>3. CASE nvm_create_process
  <2>1. -1 \in Int32 /\ 0 \in Int32
    BY NvmInstrAssumption DEF Int32
  <2>2. TypeOK'
    BY <1>3, <2>1, NvmInstrAssumption DEF nvm_create_process, Fresh, Inv, TypeOK
  <2>3. ~wrapped'
    BY <1>3 DEF nvm_create_process, Inv, TypeOK, StackSafe
  <2> QED
    BY <1>3, <2>2, <2>3, NvmInstrAssumption
    DEF nvm_create_process, Fresh, Inv, StackSafe, NoStaleRead, CodeSafe, HeapSafe
<1>4. CASE UNCHANGED vars
  BY <1>4 DEF vars, Inv, TypeOK, StackSafe, NoStaleRead, CodeSafe, HeapSafe
<1> QED
  BY <1>1, <1>2, <1>3, <1>4 DEF Next, panic, Undefined

\* The inductive invariant of the interpreter.
THEOREM Interpreter == Spec => []Inv
BY InitInv, NextInv, PTL DEF Spec

\* Every field of a process keeps its type, and ip never enters the signature
\* or leaves the code.
THEOREM TypeCorrect == Spec => []TypeOK
BY Interpreter, PTL DEF Inv

\* For every program, long or short: no instruction and no syscall takes sp out of
\* the stack, writes outside it, or reads outside it but for the word in front of it
\* that SYS_SPAWN takes for an operand.  The one exception is that SYS_SPAWN itself,
\* and only in programs of at most MAX_ARGC bytes.
THEOREM StackSafety == Spec => []StackSafe
BY Interpreter, PTL DEF Inv

\* A process sees nothing of what the previous process in its slot left on
\* the stack, as long as sp has not wrapped around.
THEOREM StackPrivacy == Spec => []NoStaleRead
BY Interpreter, PTL DEF Inv

\* The interpreter fetches only bytes of the program behind its signature.
THEOREM CodeSafety == Spec => []CodeSafe
BY Interpreter, PTL DEF Inv

\* A heap access leaves the heap only by the overflow of the bounds check.
THEOREM HeapSafety == Spec => []HeapSafe
BY Interpreter, PTL DEF Inv

-----------------------------------------------------------------------------
(* The ALU: NvmWord, which is what a run takes for Alu.                    *)

\* What the proofs use of powers of two: WIDTH is any width for which they hold.
IsWidth ==
    /\ WIDTH \in Nat \ {0, 1}
    /\ \A k \in 0 .. WIDTH : 2 ^ k \in Nat \ {0} /\ 2 ^ (k + 1) = 2 * 2 ^ k

LEMMA WordBounds ==
    ASSUME IsWidth
    PROVE  /\ MAXIMUM \in Nat \ {0} /\ MINIMUM = -MAXIMUM - 1 /\ Modulus = 2 * MAXIMUM + 2
           /\ Modulus \in Nat \ {0}
           /\ \A n : n \in Words <=> n \in Int /\ -MAXIMUM - 1 <= n /\ n <= MAXIMUM
<1>1. WIDTH - 2 \in 0 .. WIDTH /\ WIDTH - 1 \in 0 .. WIDTH /\ (WIDTH - 2) + 1 = WIDTH - 1 /\ (WIDTH - 1) + 1 = WIDTH
  BY DEF IsWidth
<1>2. PICK g, h : g = 2 ^ (WIDTH - 2) /\ h = 2 ^ (WIDTH - 1)
  OBVIOUS
<1>3. g \in Nat \ {0} /\ h = 2 * g /\ 2 ^ WIDTH = 2 * h
  <2>1. 2 ^ (WIDTH - 2) \in Nat \ {0} /\ 2 ^ ((WIDTH - 2) + 1) = 2 * 2 ^ (WIDTH - 2)
    BY <1>1, Zenon DEF IsWidth
  <2>2. 2 ^ ((WIDTH - 1) + 1) = 2 * 2 ^ (WIDTH - 1)
    BY <1>1, Zenon DEF IsWidth
  <2> QED
    BY <1>1, <1>2, <2>1, <2>2, Zenon
<1>4. MAXIMUM = h - 1 /\ MINIMUM = -h /\ Modulus = 2 * h
  BY <1>2, <1>3, Zenon DEF MAXIMUM, MINIMUM, Modulus
<1>5. MAXIMUM \in Nat \ {0} /\ MINIMUM = -MAXIMUM - 1 /\ Modulus = 2 * MAXIMUM + 2 /\ Modulus \in Nat \ {0}
  BY <1>3, <1>4
<1> QED
  BY <1>5 DEF Words

LEMMA SignedIsWord ==
    ASSUME IsWidth, NEW n \in Int
    PROVE  Signed(n) \in Words
<1>1. PICK m, x, y : m = Modulus /\ x = MAXIMUM /\ y = MINIMUM
  OBVIOUS
<1>2. x \in Nat /\ y = -x - 1 /\ m = 2 * x + 2
  BY <1>1, WordBounds
<1>3. ((n - y) % m) + y \in Int /\ -x - 1 <= ((n - y) % m) + y /\ ((n - y) % m) + y <= x
  BY <1>2
<1> QED
  BY <1>1, <1>3, WordBounds DEF Signed

\* Division of naturals.
LEMMA Quotient ==
    ASSUME NEW a \in Nat, NEW b \in Nat \ {0}
    PROVE  /\ a \div b \in Nat /\ a = b * (a \div b) + (a % b) /\ a % b \in 0 .. b - 1
           /\ a \div b <= a /\ (b # 1 => 2 * (a \div b) <= a)
<1>1. a \div b \in Nat /\ a = b * (a \div b) + (a % b) /\ a % b \in 0 .. b - 1
  OBVIOUS
<1>2. PICK q, r : q = a \div b /\ r = a % b
  OBVIOUS
<1>3. q \in Nat /\ r \in Nat /\ a = b * q + r
  BY <1>1, <1>2
<1>4. q <= b * q /\ (b # 1 => 2 * q <= b * q)
  BY <1>3
<1>5. b * q \in Nat
  BY <1>3
<1>6. q <= a /\ (b # 1 => 2 * q <= a)
  BY <1>3, <1>4, <1>5
<1> QED
  BY <1>1, <1>2, <1>6

LEMMA Products ==
    ASSUME NEW b \in Int, NEW q \in Int
    PROVE  (-b) * q = -(b * q) /\ b * (-q) = -(b * q) /\ (-b) * (-q) = b * q /\ b * q \in Int
OBVIOUS

LEMMA SameSign ==
    ASSUME NEW a \in Int, NEW r \in Int, (a >= 0 /\ r >= 0) \/ (a <= 0 /\ r <= 0)
    PROVE  r * a >= 0
OBVIOUS

\* handle_div and handle_mod fit together, for words of every width: the quotient is a word,
\* quotient times divisor plus remainder is the dividend, and the remainder is smaller than the
\* divisor and has the sign of the dividend.
THEOREM DivisionFits ==
    ASSUME IsWidth, NEW a \in Words, NEW b \in Words
    PROVE  DivisionLaw(a, b)
<1> SUFFICES ASSUME b # 0, ~(a = MINIMUM /\ b = -1)
             PROVE  /\ div(a, b) \in Words /\ a = b * div(a, b) + mod(a, b)
                    /\ Abs(mod(a, b)) < Abs(b) /\ mod(a, b) * a >= 0
  BY Zenon DEF DivisionLaw
<1>1. PICK x : x = MAXIMUM
  OBVIOUS
<1>2. /\ x \in Nat /\ a \in Int /\ b \in Int /\ -x - 1 <= a /\ a <= x /\ -x - 1 <= b /\ b <= x
      /\ ~(a = -x - 1 /\ b = -1)
      /\ \A n \in Int : -x - 1 <= n /\ n <= x => n \in Words
  BY <1>1, WordBounds
<1>3. PICK A, B : A = Abs(a) /\ B = Abs(b)
  OBVIOUS
<1>4. /\ A \in Nat /\ B \in Nat \ {0} /\ A <= x + 1
      /\ (a < 0 => A = -a /\ a = -A) /\ (~(a < 0) => A = a) /\ (b < 0 => B = -b /\ b = -B) /\ (~(b < 0) => B = b)
  BY <1>2, <1>3 DEF Abs
<1>5. PICK q, r : q = A \div B /\ r = A % B
  OBVIOUS
<1>6. q \in Nat /\ r \in 0 .. B - 1 /\ A = B * q + r /\ q <= A /\ (B # 1 => 2 * q <= A)
  BY <1>4, <1>5, Quotient
<1>7. PICK d : d = div(a, b)
  OBVIOUS
<1>8. d = IF (a < 0) = (b < 0) THEN q ELSE -q
  BY <1>3, <1>5, <1>7 DEF div
<1>9. b * d = IF a < 0 THEN -(B * q) ELSE B * q
  <2>1. /\ (-B) * q = -(B * q) /\ B * (-q) = -(B * q) /\ (-B) * (-q) = B * q
    BY <1>4, <1>6, Products
  <2> QED
    BY <1>4, <1>8, <2>1
<1>10. PICK m : m = mod(a, b)
  OBVIOUS
<1>11. m = a - b * d
  BY <1>7, <1>10 DEF mod
<1>12. PICK p : p = B * q
  OBVIOUS
<1>13. p \in Int /\ A = p + r /\ b * d = IF a < 0 THEN -p ELSE p
  BY <1>4, <1>6, <1>9, <1>12, Products
<1>14. m = (IF a < 0 THEN -r ELSE r) /\ a = b * d + m
  BY <1>2, <1>4, <1>6, <1>11, <1>13
<1>15. d \in Words
  <2>1. d \in Int /\ -x - 1 <= d
    BY <1>2, <1>4, <1>6, <1>8
  <2>2. d <= x
    BY <1>2, <1>4, <1>6, <1>8
  <2> QED
    BY <1>2, <2>1, <2>2
<1>16. Abs(m) < B
  BY <1>4, <1>6, <1>14 DEF Abs
<1>17. m * a >= 0
  <2>1. m \in Int /\ ((a >= 0 /\ m >= 0) \/ (a <= 0 /\ m <= 0))
    BY <1>2, <1>6, <1>14
  <2> QED
    BY <1>2, <2>1, SameSign
<1> QED
  BY <1>3, <1>7, <1>10, <1>14, <1>15, <1>16, <1>17, Zenon

\* An arithmetic shift to the right.
LEMMA FloorIsWord ==
    ASSUME IsWidth, NEW a \in Words, NEW d \in Nat \ {0}
    PROVE  a \div d \in Words
<1>1. PICK x : x = MAXIMUM
  OBVIOUS
<1>2. /\ x \in Nat /\ a \in Int /\ -x - 1 <= a /\ a <= x
      /\ \A n \in Int : -x - 1 <= n /\ n <= x => n \in Words
  BY <1>1, WordBounds
<1>3. PICK q, r : q = a \div d /\ r = a % d
  OBVIOUS
<1>4. q \in Int /\ r \in 0 .. d - 1 /\ a = d * q + r
  BY <1>2, <1>3
<1>5. q >= 0 => q <= d * q /\ q <= a
  BY <1>2, <1>4
<1>6. -x - 1 <= q /\ q <= x
  <2>1. CASE q >= 0
    BY <1>2, <1>4, <1>5, <2>1
  <2>2. CASE q < 0
    <3>1. PICK e : e = -q
      OBVIOUS
    <3>2. e \in Nat \ {0} /\ a = r - d * e
      BY <1>4, <2>2, <3>1
    <3>3. e * d >= e + d - 1 /\ e * d = d * e
      BY <3>2
    <3>4. a <= -e
      BY <1>2, <1>4, <3>2, <3>3
    <3> QED
      BY <1>2, <1>4, <2>2, <3>1, <3>2, <3>4
  <2> QED
    BY <1>4, <2>1, <2>2
<1> QED
  BY <1>2, <1>3, <1>4, <1>6


\* The handlers of arithmetic.c and the shifts of bitwise.c leave a word on the stack, for
\* words of every width and whatever the operands, but for those that make idiv trap: what
\* AluAssumption asks of Alu.
THEOREM AluYieldsWords ==
    ASSUME IsWidth, NEW a \in Words, NEW b \in Words,
           NEW op \in {"ADD", "SUB", "MUL", "DIV", "MOD", "CMP", "EQ", "NEQ", "GT", "LT", "SHL", "SHR", "SAR"},
           op \in {"DIV", "MOD"} => b # 0 /\ ~(a = MINIMUM /\ b = -1)
    PROVE  Result(op, a, b) \in Words
<1>1. a \in Int /\ b \in Int /\ Modulus \in Nat \ {0} /\ MAXIMUM \in Nat \ {0}
  BY WordBounds
<1>2. -1 \in Words /\ 0 \in Words /\ 1 \in Words
  BY <1>1, WordBounds
<1>3. add(a, b) \in Words /\ sub(a, b) \in Words /\ mul(a, b) \in Words
  <2>1. b + a \in Int /\ a - b \in Int /\ a * b \in Int
    BY <1>1
  <2> QED
    BY <2>1, SignedIsWord, Zenon DEF add, sub, mul
<1>4. /\ cmp(a, b) \in Words /\ eq(a, b) \in Words /\ neq(a, b) \in Words
      /\ gt(a, b) \in Words /\ lt(a, b) \in Words
  BY <1>2, Zenon DEF cmp, eq, neq, gt, lt, Bool
<1>5. Shift(b) \in 0 .. WIDTH /\ AsUnsigned(a) \in Nat
  BY <1>1 DEF IsWidth, Shift, AsUnsigned
<1>6. PICK d : d = 2 ^ Shift(b)
  OBVIOUS
<1>7. d \in Nat \ {0}
  BY <1>5, <1>6, Zenon DEF IsWidth
<1>8. shl(a, b) \in Words /\ shr(a, b) \in Words /\ sar(a, b) \in Words
  <2>1. AsUnsigned(a) * d \in Int /\ AsUnsigned(a) \div d \in Int
    BY <1>5, <1>7
  <2>2. a \div d \in Words
    BY <1>7, FloorIsWord
  <2> QED
    BY <1>6, <2>1, <2>2, SignedIsWord, Zenon DEF shl, shr, sar
<1>9. op \in {"DIV", "MOD"} => div(a, b) \in Words /\ mod(a, b) \in Words
  <2>1. SUFFICES ASSUME b # 0, ~(a = MINIMUM /\ b = -1) PROVE div(a, b) \in Words /\ mod(a, b) \in Words
    OBVIOUS
  <2>2. div(a, b) \in Words /\ a = b * div(a, b) + mod(a, b) /\ Abs(mod(a, b)) < Abs(b)
    BY <2>1, DivisionFits, Zenon DEF DivisionLaw
  <2>3. PICK d1, m : d1 = div(a, b) /\ m = mod(a, b)
    OBVIOUS
  <2>4. m \in Int
    BY <1>1, <2>2, <2>3, WordBounds DEF mod
  <2>5. Abs(m) < Abs(b)
    BY <2>2, <2>3
  <2>6. m \in Words
    BY <2>4, <2>5, WordBounds DEF Abs
  <2> QED
    BY <2>2, <2>3, <2>6
<1> QED
  BY <1>3, <1>4, <1>8, <1>9 DEF Result
=============================================================================
