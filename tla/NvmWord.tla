------------------------------- MODULE NvmWord -------------------------------
(***************************************************************************)
(* The arithmetic of the NVM's ALU instructions on words of WIDTH bits     *)
(* (32 in the code), as the compiled handlers of arithmetic.c and          *)
(* bitwise.c compute it: two's complement that wraps around, division that *)
(* truncates towards zero, shift amounts masked with WIDTH - 1.            *)
(***************************************************************************)
EXTENDS Integers, FiniteSets, FiniteSetsExt

CONSTANT WIDTH

Modulus == 2 ^ WIDTH
MAXIMUM == 2 ^ (WIDTH - 1) - 1
MINIMUM == -(2 ^ (WIDTH - 1))
Words == MINIMUM .. MAXIMUM

\* Conversions between int32_t and uint32_t.
Signed(n) == ((n - MINIMUM) % Modulus) + MINIMUM
AsUnsigned(n) == n % Modulus

Abs(n) == IF n < 0 THEN -n ELSE n

Bool(b) == IF b THEN 1 ELSE 0

\* The operands in the order of the stack: a is the second cell, b the top.
add(a, b) == Signed(b + a)
sub(a, b) == Signed(a - b)
mul(a, b) == Signed(a * b)

\* C division truncates; the remainder takes the sign of the dividend.
div(a, b) == LET q == Abs(a) \div Abs(b) IN IF (a < 0) = (b < 0) THEN q ELSE -q
mod(a, b) == a - b * div(a, b)

cmp(a, b) == IF a < b THEN -1 ELSE IF a = b THEN 0 ELSE 1
eq(a, b) == Bool(a = b)
neq(a, b) == Bool(a # b)
gt(a, b) == Bool(a > b)
lt(a, b) == Bool(a < b)

\* The bits of a word, and the word of a set of bits.
BitsOf(n) == {i \in 0 .. WIDTH - 1 : (AsUnsigned(n) \div 2 ^ i) % 2 = 1}
OfBits(B) == Signed(FoldSet(LAMBDA i, acc : acc + 2 ^ i, 0, B))

bit_and(a, b) == OfBits(BitsOf(a) \cap BitsOf(b))
bit_or(a, b) == OfBits(BitsOf(a) \cup BitsOf(b))
bit_xor(a, b) == OfBits((BitsOf(a) \cup BitsOf(b)) \ (BitsOf(a) \cap BitsOf(b)))
bit_not(a) == OfBits((0 .. WIDTH - 1) \ BitsOf(a))

\* top & 31
Shift(b) == AsUnsigned(b) % WIDTH

shl(a, b) == Signed(AsUnsigned(a) * 2 ^ Shift(b))

shr(a, b) == Signed(AsUnsigned(a) \div 2 ^ Shift(b))

sar(a, b) == a \div 2 ^ Shift(b)

Result(op, a, b) ==
    CASE op = "ADD" -> add(a, b) [] op = "SUB" -> sub(a, b)
      [] op = "MUL" -> mul(a, b) [] op = "DIV" -> div(a, b)
      [] op = "MOD" -> mod(a, b) [] op = "CMP" -> cmp(a, b)
      [] op = "EQ" -> eq(a, b) [] op = "NEQ" -> neq(a, b)
      [] op = "GT" -> gt(a, b) [] op = "LT" -> lt(a, b)
      [] op = "AND" -> bit_and(a, b) [] op = "OR" -> bit_or(a, b)
      [] op = "XOR" -> bit_xor(a, b) [] op = "NOT" -> bit_not(a)
      [] op = "SHL" -> shl(a, b) [] op = "SHR" -> shr(a, b)
      [] op = "SAR" -> sar(a, b)

-----------------------------------------------------------------------------
(* A law, of the two topmost cells of the stack.                           *)

\* DIV and MOD fit together: the quotient times the divisor plus the
\* remainder is the dividend, and the remainder is smaller than the divisor
\* and does not have the opposite sign of the dividend.  INT_MIN / -1 traps.
DivisionLaw(second, top) ==
    top # 0 /\ ~(second = MINIMUM /\ top = -1) =>
        /\ div(second, top) \in Words
        /\ second = top * div(second, top) + mod(second, top)
        /\ Abs(mod(second, top)) < Abs(top)
        /\ mod(second, top) * second >= 0
=============================================================================
