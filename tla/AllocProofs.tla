------------------------------ MODULE AllocProofs ------------------------------
(***************************************************************************)
(* The memory of the kernel is divided into blocks, each in one place: the *)
(* inductive invariant of the buddy allocator and the CPUs' page pools,    *)
(* and that the steps of kmalloc keep it, for memory and pools of any size.*)
(* The split of alloc_block and the merge of free_block keep the memory    *)
(* divided, keep buddies merged and leave no memory free in pieces only.   *)
(***************************************************************************)
EXTENDS Buddy, FiniteSetTheorems, SequenceTheorems, WellFoundedInduction, TLAPS

-----------------------------------------------------------------------------
(* Arithmetic.                                                             *)

LEMMA Bounds ==
  /\ MAX_ORDER \in Nat /\ MAX_ORDER >= 1 /\ CACHE_SIZE \in Nat /\ CACHE_SIZE >= 2
  /\ UNIT \in Nat /\ UNIT >= 1 /\ HEADER \in Nat /\ SIZES \subseteq Nat
  /\ POOLS \subseteq Nat \ {0}
<1>1. MAX_ORDER \in Nat \ {0} /\ CACHE_SIZE \in Nat \ {0, 1} /\ UNIT \in Nat \ {0}
  BY BuddyAssumption, Zenon
<1>2. HEADER \in Nat /\ SIZES \subseteq Nat /\ POOLS \subseteq Nat \ {0}
  BY BuddyAssumption
<1> QED
  BY <1>1, <1>2

LEMMA Power ==
  /\ 2^0 = 1
  /\ \A k \in 0 .. MAX_ORDER : 2^k \in Nat /\ 2^k >= 1 /\ 2^(k + 1) = 2 * 2^k
BY PowerAssumption

LEMMA Successor == \A n \in Nat : n + 1 \in Nat
OBVIOUS

LEMMA Products ==
  \A a, b \in Int : /\ a * b \in Int
                    /\ a * (2 * b) = 2 * (a * b) /\ (2 * a) * b = 2 * (a * b)
                    /\ (a + 1) * b = a * b + b /\ (2 * a + 1) * b = 2 * (a * b) + b
OBVIOUS

LEMMA ProductsPositive ==
  \A a, b \in Nat : /\ a * b \in Nat
                    /\ a >= 1 => a * b >= b
OBVIOUS

LEMMA DivideTwice ==
  ASSUME NEW b \in Nat, NEW p \in Nat, p >= 1
  PROVE  b \div (2 * p) = (b \div p) \div 2
OBVIOUS

\* A set of numbers has a least one.
LEMMA LeastNumber ==
  ASSUME NEW S \in SUBSET Nat, S # {}
  PROVE  Min(S) \in S /\ \A y \in S : Min(S) <= y
<1> USE Zenon
<1> DEFINE R == OpToRel(<, Nat)
<1>1. IsWellFoundedOn(R, Nat)
  BY NatLessThanWellFounded
<1>2. \A x, y \in Nat : y < x => <<y, x>> \in R
  BY DEF OpToRel
<1> HIDE DEF R
<1>3. PICK x \in S : \A y \in S : ~(<<y, x>> \in R)
  BY <1>1, WFMin
<1>4. \A y \in S : ~(y < x)
  BY <1>2, <1>3
<1>5. \A y \in S : x <= y
  BY <1>4, SMT
<1> QED
  BY <1>5 DEF Min

\* A set of numbers up to n has a greatest one.
LEMMA GreatestNumber ==
  ASSUME NEW n \in Nat, NEW S \in SUBSET (0 .. n), S # {}
  PROVE  Max(S) \in S /\ \A y \in S : y <= Max(S)
<1> DEFINE T == {d \in Nat : d <= n /\ n - d \in S}
<1>1. PICK s \in S : TRUE
  BY Zenon
<1>2. n - s \in T
  OBVIOUS
<1>3. T \in SUBSET Nat /\ T # {}
  BY <1>2
<1>4. Min(T) \in T /\ \A d \in T : Min(T) <= d
  BY <1>3, LeastNumber, Zenon
<1> DEFINE x == n - Min(T)
<1>5. x \in S
  BY <1>4
<1>6. \A y \in S : y <= x
  <2> SUFFICES ASSUME NEW y \in S PROVE y <= x
    OBVIOUS
  <2>1. n - y \in T
    OBVIOUS
  <2>2. Min(T) <= n - y /\ Min(T) \in Nat
    BY <1>4, <2>1
  <2> QED
    BY <2>2
<1> HIDE DEF x
<1>7. \A y \in S : x >= y
  BY <1>5, <1>6
<1> QED
  BY <1>5, <1>7, Zenon DEF Max

LEMMA PowerSum ==
  ASSUME NEW k \in Nat
  PROVE  \A j \in Nat : j + k <= MAX_ORDER => 2^(j + k) = 2^j * 2^k
<1> DEFINE S == {j \in Nat : j + k <= MAX_ORDER /\ 2^(j + k) # 2^j * 2^k}
<1> SUFFICES ASSUME S # {} PROVE FALSE
  BY Zenon
<1>1. PICK j \in S : \A i \in S : j <= i
  <2>1. S \in SUBSET Nat
    OBVIOUS
  <2> QED
    BY <2>1, LeastNumber, Zenon
<1>2. j # 0
  <2> SUFFICES ASSUME j = 0 PROVE FALSE
    OBVIOUS
  <2>1. k \in 0 .. MAX_ORDER /\ j + k = k
    BY <1>1, Bounds
  <2>2. 2^k \in Nat /\ 2^j = 1
    BY <2>1, Power
  <2>3. 2^j * 2^k = 2^k
    BY <2>2
  <2>4. 2^(j + k) = 2^k
    BY <2>1
  <2> QED
    BY <1>1, <2>3, <2>4, Zenon
<1> DEFINE i == j - 1
<1>3. i \in Nat /\ j = i + 1 /\ i + k \in 0 .. MAX_ORDER /\ i \in 0 .. MAX_ORDER /\ k \in 0 .. MAX_ORDER
  BY <1>1, <1>2, Bounds
<1>4. i \notin S
  BY <1>1, <1>3
<1>5. 2^(i + k) = 2^i * 2^k
  BY <1>1, <1>3, <1>4
<1>6. 2^((i + k) + 1) = 2 * 2^(i + k) /\ 2^(i + 1) = 2 * 2^i
  BY <1>3, Power
<1>7. (i + k) + 1 = j + k
  BY <1>3
<1>8. 2^i \in Int /\ 2^k \in Int
  BY <1>3, Power
<1>9. (2 * 2^i) * 2^k = 2 * (2^i * 2^k)
  BY <1>8, Products
<1> QED
  BY <1>1, <1>3, <1>5, <1>6, <1>7, <1>9

LEMMA PowerMonotonic ==
  ASSUME NEW k \in 0 .. MAX_ORDER, NEW j \in 0 .. k
  PROVE  /\ 2^j <= 2^k
         /\ j < k => 2 * 2^j <= 2^k
<1>1. j \in 0 .. MAX_ORDER /\ k - j \in 0 .. MAX_ORDER /\ (k - j) + j = k
  BY Bounds
<1>2. 2^k = 2^(k - j) * 2^j
  BY <1>1, PowerSum, Bounds
<1>3. 2^j \in Nat /\ 2^(k - j) \in Nat /\ 2^(k - j) >= 1 /\ 2^k \in Nat
  BY <1>1, Power
<1>4. 2^j <= 2^k
  BY <1>2, <1>3, ProductsPositive
<1>5. ASSUME j < k PROVE 2 * 2^j <= 2^k
  <2> DEFINE i == k - (j + 1)
  <2>1. i \in 0 .. MAX_ORDER /\ j + 1 \in 0 .. MAX_ORDER /\ i + (j + 1) = k
    BY <1>1, <1>5, Bounds
  <2>2. 2^k = 2^i * 2^(j + 1)
    BY <2>1, PowerSum, Bounds
  <2>3. 2^(j + 1) \in Nat /\ 2^i \in Nat /\ 2^i >= 1 /\ 2^(j + 1) = 2 * 2^j
    BY <1>1, <2>1, Power
  <2> QED
    BY <2>2, <2>3, ProductsPositive
<1> QED
  BY <1>4, <1>5

-----------------------------------------------------------------------------
(* Blocks, their halves and their buddies.                                 *)

LEMMA UnitsOf ==
  ASSUME NEW o \in 0 .. MAX_ORDER, NEW i \in Nat
  PROVE  /\ i * 2^o \in Nat /\ 2^o \in Nat /\ 2^o >= 1
         /\ Units(<<o, i>>) = i * 2^o .. i * 2^o + (2^o - 1)
<1>1. 2^o \in Nat /\ 2^o >= 1
  BY Power
<1>2. i * 2^o \in Nat
  BY <1>1, ProductsPositive
<1>3. (i + 1) * 2^o = i * 2^o + 2^o
  BY <1>1, Products
<1>4. (i + 1) * 2^o - 1 = i * 2^o + (2^o - 1)
  BY <1>1, <1>2, <1>3
<1> QED
  BY <1>1, <1>2, <1>4 DEF Units

\* Different blocks of one order have no unit in common.
LEMMA SameOrder ==
  ASSUME NEW o \in 0 .. MAX_ORDER, NEW i \in Nat, NEW j \in Nat, NEW u,
         u \in Units(<<o, i>>), u \in Units(<<o, j>>)
  PROVE  i = j
<1> DEFINE p == 2^o
<1>1. /\ p \in Nat /\ p >= 1 /\ i * p \in Nat /\ j * p \in Nat
      /\ u \in i * p .. i * p + (p - 1) /\ u \in j * p .. j * p + (p - 1)
  BY UnitsOf
<1> HIDE DEF p
<1>2. \A a, b \in Nat : a < b => b * p >= a * p + p
  BY <1>1
<1>3. ~(i < j) /\ ~(j < i)
  BY <1>1, <1>2
<1> QED
  BY <1>3

LEMMA BuddyIndex ==
  ASSUME NEW x \in Nat
  PROVE  /\ get_buddy(x) \in Nat /\ get_buddy(x) # x
         /\ get_buddy(get_buddy(x)) = x
         /\ x \div 2 \in Nat /\ get_buddy(x) \div 2 = x \div 2
         /\ \/ x = 2 * (x \div 2) /\ get_buddy(x) = 2 * (x \div 2) + 1
            \/ x = 2 * (x \div 2) + 1 /\ get_buddy(x) = 2 * (x \div 2)
BY DEF get_buddy

\* A block consists of its two halves, which are buddies.
LEMMA Halves ==
  ASSUME NEW k \in Nat, k < MAX_ORDER, NEW x \in Nat
  PROVE  /\ \A u : u \in Units(<<k + 1, x \div 2>>) <=>
                     u \in Units(<<k, x>>) \/ u \in Units(<<k, get_buddy(x)>>)
         /\ \A u : ~(u \in Units(<<k, x>>) /\ u \in Units(<<k, get_buddy(x)>>))
<1> DEFINE y == x \div 2
           p == 2^k
           a == y * p
           P(u) == u \in a + a .. (a + a) + (p - 1)
           Q(u) == u \in (a + a) + p .. ((a + a) + p) + (p - 1)
<1>1. k \in 0 .. MAX_ORDER /\ k + 1 \in 0 .. MAX_ORDER /\ y \in Nat /\ get_buddy(x) \in Nat
  BY Bounds, BuddyIndex
<1>2. p \in Nat /\ p >= 1 /\ 2^(k + 1) = 2 * p
  BY <1>1, Power
<1>3. a \in Nat /\ y * (2 * p) = a + a /\ (2 * y) * p = a + a /\ (2 * y + 1) * p = (a + a) + p
  BY <1>1, <1>2, Products, ProductsPositive
<1>4. /\ Units(<<k + 1, y>>) = y * 2^(k + 1) .. y * 2^(k + 1) + (2^(k + 1) - 1)
      /\ Units(<<k, x>>) = x * p .. x * p + (p - 1)
      /\ Units(<<k, get_buddy(x)>>) = get_buddy(x) * p .. get_buddy(x) * p + (p - 1)
  BY <1>1, UnitsOf, Zenon
<1>5. Units(<<k + 1, y>>) = a + a .. (a + a) + (2 * p - 1)
  BY <1>2, <1>3, <1>4, Zenon
<1>6. \A u : u \in Units(<<k + 1, y>>) <=> P(u) \/ Q(u)
  <2> HIDE DEF a, p
  <2> QED
    BY <1>2, <1>3, <1>5
<1>7. \A u : ~(P(u) /\ Q(u))
  <2> HIDE DEF a, p
  <2> QED
    BY <1>2, <1>3
<1>8. CASE x = 2 * y /\ get_buddy(x) = 2 * y + 1
  <2>1. \A u : (u \in Units(<<k, x>>) <=> P(u)) /\ (u \in Units(<<k, get_buddy(x)>>) <=> Q(u))
    BY <1>3, <1>4, <1>8, Zenon
  <2> QED
    BY <1>6, <1>7, <2>1, Zenon
<1>9. CASE x = 2 * y + 1 /\ get_buddy(x) = 2 * y
  <2>1. \A u : (u \in Units(<<k, x>>) <=> Q(u)) /\ (u \in Units(<<k, get_buddy(x)>>) <=> P(u))
    BY <1>3, <1>4, <1>9, Zenon
  <2> QED
    BY <1>6, <1>7, <2>1, Zenon
<1> QED
  BY <1>8, <1>9, BuddyIndex, Zenon

\* The blocks that lie in the first block of the order mo.
InRange(mo, o, i) == o \in 0 .. mo /\ i \in Nat /\ i < 2^(mo - o)

LEMMA RangeOrder ==
  ASSUME NEW mo \in 0 .. MAX_ORDER, NEW o, NEW i, InRange(mo, o, i)
  PROVE  /\ o \in 0 .. MAX_ORDER /\ o \in Nat /\ o <= mo /\ i \in Nat
         /\ 2^(mo - o) \in Nat /\ 2^o \in Nat /\ 2^mo \in Nat /\ 2^mo = 2^(mo - o) * 2^o
<1>1. o \in 0 .. MAX_ORDER /\ o \in Nat /\ o <= mo /\ i \in Nat /\ mo - o \in 0 .. MAX_ORDER
      /\ (mo - o) + o = mo /\ mo <= MAX_ORDER /\ mo \in Nat
  BY Bounds DEF InRange
<1>2. 2^mo = 2^(mo - o) * 2^o
  BY <1>1, PowerSum
<1> QED
  BY <1>1, <1>2, Power

LEMMA RangeUnits ==
  ASSUME NEW mo \in 0 .. MAX_ORDER, NEW o, NEW i, InRange(mo, o, i)
  PROVE  /\ Units(<<o, i>>) \subseteq 0 .. 2^mo - 1
         /\ i * 2^o \in Units(<<o, i>>)
         /\ i * 2^o \in Nat /\ i * 2^o + 2^o <= 2^mo
<1> DEFINE p == 2^o
           q == 2^(mo - o)
<1>1. o \in 0 .. MAX_ORDER /\ i \in Nat /\ p \in Nat /\ q \in Nat /\ 2^mo = q * p /\ i < q /\ 2^mo \in Nat
  BY RangeOrder, Zenon DEF InRange
<1>2. i * p \in Nat /\ p >= 1 /\ Units(<<o, i>>) = i * p .. i * p + (p - 1)
  BY <1>1, UnitsOf
<1> HIDE DEF p, q
<1>3. \A a, b \in Nat : a < b => a * p + p <= b * p
  BY <1>1
<1>4. i * p + p <= 2^mo
  BY <1>1, <1>3
<1> QED
  BY <1>1, <1>2, <1>4 DEF p

LEMMA RangeUp ==
  ASSUME NEW mo \in 0 .. MAX_ORDER, NEW o, NEW i, InRange(mo, o, i), o < mo
  PROVE  InRange(mo, o + 1, i \div 2) /\ InRange(mo, o, get_buddy(i))
<1>1. o \in Nat /\ mo \in Nat /\ i \in Nat /\ mo - (o + 1) \in 0 .. MAX_ORDER /\ (mo - (o + 1)) + 1 = mo - o
  BY Bounds DEF InRange
<1>2. 2^(mo - o) = 2 * 2^(mo - (o + 1)) /\ 2^(mo - (o + 1)) \in Nat
  BY <1>1, Power
<1>3. i < 2 * 2^(mo - (o + 1))
  BY <1>2 DEF InRange
<1>4. i \div 2 \in Nat /\ get_buddy(i) \in Nat /\ i \div 2 < 2^(mo - (o + 1)) /\ get_buddy(i) < 2 * 2^(mo - (o + 1))
  BY <1>1, <1>2, <1>3, BuddyIndex
<1>5. o + 1 \in 0 .. mo /\ o \in 0 .. mo
  BY <1>1
<1> QED
  BY <1>2, <1>4, <1>5 DEF InRange

\* x[lo], ..., x[hi] are the blocks that contain the block x[lo], order by order.
Chain(x, lo, hi) ==
  /\ lo \in Nat /\ hi \in Nat /\ lo <= hi /\ hi <= MAX_ORDER
  /\ x \in [lo .. hi -> Nat]
  /\ \A k \in lo .. hi - 1 : x[k + 1] = x[k] \div 2

LEMMA ChainStep ==
  ASSUME NEW x, NEW lo, NEW hi, Chain(x, lo, hi), NEW k \in lo .. hi - 1
  PROVE  /\ k \in Nat /\ k < MAX_ORDER /\ k \in lo .. hi /\ k + 1 \in lo .. hi
         /\ x[k] \in Nat /\ get_buddy(x[k]) \in Nat
         /\ \A u : u \in Units(<<k + 1, x[k + 1]>>) <=>
                     u \in Units(<<k, x[k]>>) \/ u \in Units(<<k, get_buddy(x[k])>>)
         /\ \A u : ~(u \in Units(<<k, x[k]>>) /\ u \in Units(<<k, get_buddy(x[k])>>))
<1>1. k \in Nat /\ k < MAX_ORDER /\ k \in lo .. hi /\ k + 1 \in lo .. hi
  BY Bounds DEF Chain
<1>2. x[k] \in Nat /\ x[k + 1] = x[k] \div 2
  BY <1>1 DEF Chain
<1> QED
  BY <1>1, <1>2, Halves, BuddyIndex, Zenon

LEMMA ChainIncreases ==
  ASSUME NEW x, NEW lo, NEW hi, Chain(x, lo, hi), NEW j \in lo .. hi, NEW u, u \in Units(<<j, x[j]>>)
  PROVE  \A k \in j .. hi : u \in Units(<<k, x[k]>>)
<1> DEFINE S == {k \in j .. hi : u \notin Units(<<k, x[k]>>)}
<1> SUFFICES ASSUME S # {} PROVE FALSE
  OBVIOUS
<1>0. lo \in Nat /\ hi \in Nat
  BY DEF Chain
<1>1. PICK k \in S : \A i \in S : k <= i
  <2>1. S \in SUBSET Nat
    BY <1>0
  <2> QED
    BY <2>1, LeastNumber, Zenon
<1>2. k # j /\ k \in j .. hi
  BY <1>1
<1> DEFINE i == k - 1
<1>3. i \in j .. hi /\ i \in lo .. hi - 1 /\ i + 1 = k /\ ~(k <= i)
  BY <1>0, <1>2
<1>4. i \notin S
  BY <1>1, <1>3, Zenon
<1>5. u \in Units(<<i, x[i]>>)
  BY <1>3, <1>4, Zenon
<1>6. u \in Units(<<i + 1, x[i + 1]>>)
  BY <1>3, <1>5, ChainStep, Zenon
<1> QED
  BY <1>1, <1>3, <1>6, Zenon

\* The block at the end of a chain consists of the one at its beginning and of the buddies
\* on the way.
LEMMA ChainUnits ==
  ASSUME NEW x, NEW lo, NEW hi, Chain(x, lo, hi), NEW u
  PROVE  u \in Units(<<hi, x[hi]>>) <=>
           u \in Units(<<lo, x[lo]>>) \/ \E k \in lo .. hi - 1 : u \in Units(<<k, get_buddy(x[k])>>)
<1> USE Zenon
<1>0. lo \in Nat /\ hi \in Nat /\ lo \in lo .. hi /\ hi \in lo .. hi
  BY SMT DEF Chain
<1>1. ASSUME u \in Units(<<lo, x[lo]>>) PROVE u \in Units(<<hi, x[hi]>>)
  BY <1>0, <1>1, ChainIncreases
<1>2. ASSUME NEW k \in lo .. hi - 1, u \in Units(<<k, get_buddy(x[k])>>) PROVE u \in Units(<<hi, x[hi]>>)
  <2>1. u \in Units(<<k + 1, x[k + 1]>>) /\ k + 1 \in lo .. hi
    BY <1>2, ChainStep
  <2>2. hi \in k + 1 .. hi
    BY <1>0, SMT
  <2> QED
    BY <2>1, <2>2, ChainIncreases
<1>3. ASSUME u \in Units(<<hi, x[hi]>>), u \notin Units(<<lo, x[lo]>>)
      PROVE  \E k \in lo .. hi - 1 : u \in Units(<<k, get_buddy(x[k])>>)
  <2> DEFINE S == {k \in lo .. hi : u \in Units(<<k, x[k]>>)}
  <2>1. PICK k \in S : \A i \in S : k <= i
    <3>1. S \in SUBSET Nat /\ S # {}
      BY <1>0, <1>3, SMT
    <3> QED
      BY <3>1, LeastNumber
  <2>2. k # lo /\ k \in lo .. hi
    BY <1>3, <2>1, SMT
  <2> DEFINE i == k - 1
  <2>3. i \in lo .. hi - 1 /\ i \in lo .. hi /\ i + 1 = k /\ ~(k <= i)
    BY <1>0, <2>2, SMT
  <2>4. u \notin Units(<<i, x[i]>>)
    BY <2>1, <2>3
  <2>5. u \in Units(<<i + 1, x[i + 1]>>)
    BY <2>1, <2>3
  <2>6. u \in Units(<<i, get_buddy(x[i])>>)
    BY <2>3, <2>4, <2>5, ChainStep
  <2> QED
    BY <2>3, <2>6
<1> QED
  BY <1>1, <1>2, <1>3

\* The buddies on the way have no unit in common, with one another or with the beginning.
LEMMA ChainApart ==
  ASSUME NEW x, NEW lo, NEW hi, Chain(x, lo, hi), NEW u, NEW k \in lo .. hi - 1,
         u \in Units(<<k, get_buddy(x[k])>>)
  PROVE  /\ \A j \in lo .. k : u \notin Units(<<j, x[j]>>)
         /\ \A j \in lo .. hi - 1 : u \in Units(<<j, get_buddy(x[j])>>) => j = k
<1>0. lo \in Nat /\ hi \in Nat
  BY DEF Chain
<1>1. \A i \in lo .. hi - 1 : u \in Units(<<i, get_buddy(x[i])>>) =>
        /\ \A j \in lo .. i : u \notin Units(<<j, x[j]>>)
        /\ \A j \in i + 1 .. hi : u \in Units(<<j, x[j]>>)
  <2> USE Zenon
  <2> SUFFICES ASSUME NEW i \in lo .. hi - 1, u \in Units(<<i, get_buddy(x[i])>>)
               PROVE  /\ \A j \in lo .. i : u \notin Units(<<j, x[j]>>)
                      /\ \A j \in i + 1 .. hi : u \in Units(<<j, x[j]>>)
    OBVIOUS
  <2>1. u \in Units(<<i + 1, x[i + 1]>>) /\ i + 1 \in lo .. hi /\ u \notin Units(<<i, x[i]>>)
    BY ChainStep
  <2>2. \A j \in lo .. i : j \in lo .. hi /\ i \in j .. hi
    BY <1>0, SMT
  <2>3. \A j \in lo .. i : u \notin Units(<<j, x[j]>>)
    BY <2>1, <2>2, ChainIncreases
  <2> QED
    BY <2>1, <2>3, ChainIncreases
<1>2. ASSUME NEW j \in lo .. hi - 1, u \in Units(<<j, get_buddy(x[j])>>) PROVE j = k
  <2>1. CASE j < k
    <3>1. k \in j + 1 .. hi /\ k \in lo .. k
      BY <1>0, <2>1
    <3> QED
      BY <1>1, <1>2, <3>1, Zenon
  <2>2. CASE k < j
    <3>1. j \in k + 1 .. hi /\ j \in lo .. j
      BY <1>0, <2>2
    <3> QED
      BY <1>1, <1>2, <3>1, Zenon
  <2> QED
    BY <1>0, <2>1, <2>2
<1> QED
  BY <1>1, <1>2, Zenon

\* The blocks that free_block forms one after the other.
Ancestors(x, lo, hi, b) == x = [k \in lo .. hi |-> b \div 2^(k - lo)]

LEMMA UpChain ==
  ASSUME NEW lo \in Nat, NEW hi \in lo .. MAX_ORDER, NEW b \in Nat, NEW x, Ancestors(x, lo, hi, b)
  PROVE  Chain(x, lo, hi) /\ x[lo] = b
<1> USE DEF Ancestors
<1>1. \A k \in lo .. hi : k - lo \in 0 .. MAX_ORDER
  BY Bounds
<1>2. \A k \in lo .. hi : 2^(k - lo) \in Nat /\ 2^(k - lo) >= 1
  BY <1>1, Power, Zenon
<1>3. \A p \in Nat : p >= 1 => b \div p \in Nat
  OBVIOUS
<1>4. x \in [lo .. hi -> Nat]
  BY <1>2, <1>3
<1>5. ASSUME NEW k \in lo .. hi - 1 PROVE x[k + 1] = x[k] \div 2
  <2>1. k \in lo .. hi /\ k + 1 \in lo .. hi /\ (k + 1) - lo = (k - lo) + 1
    BY Bounds
  <2>2. 2^((k - lo) + 1) = 2 * 2^(k - lo)
    BY <1>1, <2>1, Power
  <2>3. x[k + 1] = b \div (2 * 2^(k - lo))
    BY <2>1, <2>2
  <2>4. x[k] = b \div 2^(k - lo)
    BY <2>1
  <2> QED
    BY <1>2, <2>1, <2>3, <2>4, DivideTwice, Zenon
<1>6. x[lo] = b
  <2>1. lo - lo = 0 /\ lo \in lo .. hi
    BY Bounds
  <2>2. x[lo] = b \div 1
    BY <2>1, Power
  <2> QED
    BY <2>2
<1>7. hi \in Nat /\ lo <= hi /\ hi <= MAX_ORDER
  BY Bounds
<1> QED
  BY <1>4, <1>5, <1>6, <1>7, Zenon DEF Chain

\* The left halves that alloc_block takes one after the other.
LeftHalves(x, lo, hi, b) == x = [k \in lo .. hi |-> b * 2^(hi - k)]

LEMMA LeftChain ==
  ASSUME NEW lo \in Nat, NEW hi \in lo .. MAX_ORDER, NEW b \in Nat, NEW x, LeftHalves(x, lo, hi, b)
  PROVE  /\ Chain(x, lo, hi) /\ x[hi] = b
         /\ \A k \in lo .. hi - 1 : get_buddy(x[k]) = x[k] + 1
<1> USE DEF LeftHalves
<1>1. \A k \in lo .. hi : hi - k \in 0 .. MAX_ORDER
  BY Bounds
<1>2. \A k \in lo .. hi : 2^(hi - k) \in Nat
  BY <1>1, Power
<1>3. x \in [lo .. hi -> Nat]
  BY <1>2, ProductsPositive
<1>4. ASSUME NEW k \in lo .. hi - 1 PROVE x[k] = 2 * x[k + 1] /\ x[k + 1] \in Nat
  <2>1. k \in lo .. hi /\ k + 1 \in lo .. hi /\ (hi - (k + 1)) + 1 = hi - k
    BY Bounds
  <2>2. 2^((hi - (k + 1)) + 1) = 2 * 2^(hi - (k + 1))
    BY <1>1, <2>1, Power, Zenon
  <2>3. x[k] = b * (2 * 2^(hi - (k + 1)))
    BY <2>1, <2>2
  <2>4. x[k + 1] = b * 2^(hi - (k + 1)) /\ 2^(hi - (k + 1)) \in Int
    BY <1>2, <2>1
  <2>5. x[k] = 2 * x[k + 1]
    BY <2>3, <2>4, Products
  <2> QED
    BY <1>3, <2>1, <2>5
<1>5. \A y, z \in Nat : y = 2 * z => z = y \div 2 /\ get_buddy(y) = y + 1
  BY DEF get_buddy
<1>6. \A k \in lo .. hi - 1 : k \in lo .. hi
  BY Bounds
<1>7. \A k \in lo .. hi - 1 : x[k + 1] = x[k] \div 2 /\ get_buddy(x[k]) = x[k] + 1
  BY <1>3, <1>4, <1>5, <1>6, Zenon
<1>8. hi \in Nat /\ lo <= hi /\ hi <= MAX_ORDER
  BY Bounds
<1>9. x[hi] = b
  <2>1. hi - hi = 0 /\ hi \in lo .. hi
    BY Bounds
  <2>2. x[hi] = b * 1
    BY <2>1, Power
  <2> QED
    BY <2>2
<1> QED
  BY <1>3, <1>7, <1>8, <1>9, Zenon DEF Chain

LEMMA ChainInRange ==
  ASSUME NEW mo \in 0 .. MAX_ORDER, NEW x, NEW lo, NEW hi, Chain(x, lo, hi), hi <= mo,
         InRange(mo, lo, x[lo])
  PROVE  \A k \in lo .. hi : InRange(mo, k, x[k])
<1> DEFINE S == {k \in lo .. hi : ~InRange(mo, k, x[k])}
<1> SUFFICES ASSUME S # {} PROVE FALSE
  OBVIOUS
<1>0. lo \in Nat /\ hi \in Nat /\ mo \in Nat
  BY Bounds DEF Chain
<1>1. PICK k \in S : \A i \in S : k <= i
  <2>1. S \in SUBSET Nat
    BY <1>0
  <2> QED
    BY <2>1, LeastNumber, Zenon
<1>2. k # lo /\ k \in lo .. hi
  BY <1>1
<1> DEFINE i == k - 1
<1>3. i \in lo .. hi - 1 /\ i \in lo .. hi /\ i + 1 = k /\ ~(k <= i) /\ i < mo
  BY <1>0, <1>2
<1>4. InRange(mo, i, x[i])
  BY <1>1, <1>3, Zenon
<1>5. x[i + 1] = x[i] \div 2
  BY <1>3 DEF Chain
<1> QED
  BY <1>1, <1>3, <1>4, <1>5, RangeUp, Zenon

LEMMA LeftInRange ==
  ASSUME NEW mo \in 0 .. MAX_ORDER, NEW lo \in Nat, NEW hi \in lo .. mo, NEW b, InRange(mo, hi, b), NEW x,
         LeftHalves(x, lo, hi, b)
  PROVE  \A k \in lo .. hi : InRange(mo, k, x[k])
<1> SUFFICES ASSUME NEW k \in lo .. hi PROVE InRange(mo, k, x[k])
  OBVIOUS
<1> DEFINE p == 2^(hi - k)
           q == 2^(mo - hi)
<1>1. /\ hi - k \in 0 .. MAX_ORDER /\ mo - hi \in Nat /\ mo - hi \in 0 .. MAX_ORDER
      /\ (mo - hi) + (hi - k) = mo - k
      /\ (mo - hi) + (hi - k) <= MAX_ORDER /\ hi - k \in Nat /\ k \in 0 .. mo
  BY Bounds
<1>2. 2^(mo - k) = q * p
  BY <1>1, PowerSum
<1>3. p \in Nat /\ p >= 1 /\ q \in Nat /\ b \in Nat /\ b < q
  BY <1>1, Power DEF InRange
<1> HIDE DEF p, q
<1>4. \A a, c \in Nat : a < c => a * p < c * p /\ a * p \in Nat
  BY <1>3
<1>5. b * p < q * p /\ b * p \in Nat
  BY <1>3, <1>4
<1>6. x[k] = b * p
  BY DEF p, LeftHalves
<1> QED
  BY <1>1, <1>2, <1>5, <1>6 DEF InRange

-----------------------------------------------------------------------------
(* Places.  Each has a block, its second component.                        *)

IsBlock(mo, b) == \E o, i : b = <<o, i>> /\ InRange(mo, o, i)
HasUnit(p, u) == u \in Units(p[2])

\* The blocks in the places divide the first block of the order mo.
Divided(P, mo) ==
  /\ \A p \in P : IsBlock(mo, p[2])
  /\ \A p, q \in P : \A u : HasUnit(p, u) /\ HasUnit(q, u) => p = q
  /\ \A u \in 0 .. 2^mo - 1 : \E p \in P : HasUnit(p, u)

\* The places Q are P with B instead of A.
Swapped(P, A, B, Q) ==
  /\ A \subseteq P /\ B \subseteq Q
  /\ \A p \in P : p \in A \/ p \in Q
  /\ \A q \in Q : q \in B \/ (q \in P /\ q \notin A)

\* The blocks of B are disjoint, and have the units of A.
Replaces(B, A, mo) ==
  /\ \A q \in B : IsBlock(mo, q[2])
  /\ \A p, q \in B : \A u : HasUnit(p, u) /\ HasUnit(q, u) => p = q
  /\ \A u : (\E p \in A : HasUnit(p, u)) <=> (\E q \in B : HasUnit(q, u))

LEMMA Exchange ==
  ASSUME NEW mo, NEW P, Divided(P, mo), NEW A, NEW B, NEW Q, Swapped(P, A, B, Q), Replaces(B, A, mo)
  PROVE  Divided(Q, mo)
<1> USE Zenon
<1> USE DEF Swapped, Replaces
<1>1. \A q \in Q : IsBlock(mo, q[2])
  BY DEF Divided
<1>2. \A u \in 0 .. 2^mo - 1 : \E q \in Q : HasUnit(q, u)
  BY DEF Divided
<1>3. ASSUME NEW p \in Q, NEW q \in Q, NEW u, HasUnit(p, u), HasUnit(q, u) PROVE p = q
  <2>1. CASE p \in B /\ q \in B
    BY <1>3, <2>1
  <2>2. CASE p \in B /\ q \notin B
    <3>1. q \in P /\ q \notin A
      BY <2>2
    <3>2. PICK r \in A : HasUnit(r, u)
      BY <1>3, <2>2
    <3> QED
      BY <1>3, <3>1, <3>2 DEF Divided
  <2>3. CASE p \notin B /\ q \in B
    <3>1. p \in P /\ p \notin A
      BY <2>3
    <3>2. PICK r \in A : HasUnit(r, u)
      BY <1>3, <2>3
    <3> QED
      BY <1>3, <3>1, <3>2 DEF Divided
  <2>4. CASE p \notin B /\ q \notin B
    BY <1>3, <2>4 DEF Divided
  <2> QED
    BY <2>1, <2>2, <2>3, <2>4
<1> QED
  BY <1>1, <1>2, <1>3 DEF Divided

\* One place is exchanged for another with the same block.
LEMMA Move ==
  ASSUME NEW mo, NEW P, Divided(P, mo), NEW p \in P, NEW q, q[2] = p[2], NEW Q,
         \A r \in P : r = p \/ r \in Q,
         \A r \in Q : r = q \/ (r \in P /\ r # p),
         q \in Q
  PROVE  Divided(Q, mo)
<1> USE Zenon
<1> DEFINE A == {p}
           B == {q}
<1>1. Swapped(P, A, B, Q)
  BY DEF Swapped
<1>2. Replaces(B, A, mo)
  BY DEF Replaces, Divided, HasUnit
<1> HIDE DEF A, B
<1> QED
  BY <1>1, <1>2, Exchange

-----------------------------------------------------------------------------
(* The free areas.                                                         *)

LEMMA MaxOrder ==
  ASSUME pool \in POOLS
  PROVE  /\ max_order \in 0 .. MAX_ORDER /\ max_order \in Nat /\ pool \in Nat /\ pool_size \in Nat
         /\ 2^max_order \in Nat /\ 2^max_order <= pool_size /\ pool_size <= pool
         /\ max_order < MAX_ORDER => pool_size = 2^max_order
<1> DEFINE S == {o \in Orders : pool \div 2^o > 0}
           mo == max_order
           p == 2^mo
<1>1. pool \in Nat /\ pool >= 1
  BY Bounds
<1>2. 0 \in S
  BY <1>1, Power, Bounds DEF Orders
<1>3. S \in SUBSET (0 .. MAX_ORDER) /\ S # {}
  BY <1>2, Zenon DEF Orders
<1>4. Max(S) \in S /\ \A y \in S : y <= Max(S)
  BY <1>3, Bounds, GreatestNumber, Zenon
<1>5. mo \in S /\ \A y \in S : y <= mo
  BY <1>4, Zenon DEF max_order
<1> HIDE DEF mo
<1>6. mo \in 0 .. MAX_ORDER /\ mo \in Nat /\ pool \div p > 0
  BY <1>5, Bounds DEF Orders
<1>7. p \in Nat /\ p >= 1
  BY <1>6, Power
<1>8. pool_size = (pool \div p) * p
  BY DEF pool_size, mo
<1>9. ASSUME mo < MAX_ORDER PROVE pool < 2 * p
  <2>1. mo + 1 \in Orders /\ ~(mo + 1 <= mo)
    BY <1>6, <1>9, Bounds DEF Orders
  <2>2. ~(pool \div 2^(mo + 1) > 0)
    BY <1>5, <2>1
  <2>3. 2^(mo + 1) = 2 * p
    BY <1>6, Power
  <2>4. ~(pool \div (2 * p) > 0)
    BY <2>2, <2>3
  <2> HIDE DEF p
  <2> QED
    BY <1>1, <1>7, <2>4
<1>10. \A d, q \in Nat : q >= 1 /\ d \div q > 0 =>
         /\ d \div q \in Nat /\ (d \div q) * q \in Nat /\ q <= (d \div q) * q /\ (d \div q) * q <= d
         /\ d < 2 * q => d \div q = 1
  OBVIOUS
<1> HIDE DEF p
<1>11. /\ pool_size \in Nat /\ p <= pool_size /\ pool_size <= pool
       /\ pool < 2 * p => pool \div p = 1
  BY <1>1, <1>6, <1>7, <1>8, <1>10
<1>12. mo < MAX_ORDER => pool_size = p
  BY <1>7, <1>8, <1>9, <1>11
<1> QED
  BY <1>1, <1>6, <1>7, <1>11, <1>12 DEF mo, p

Free(o, i) == <<"free", <<o, i>>>>
FreePlaces(fa) == UNION {{<<"free", <<o, i>>>> : i \in fa[o]} : o \in Orders}

LEMMA FreeMember ==
  ASSUME NEW fa
  PROVE  /\ \A p \in FreePlaces(fa) : \E o \in Orders : \E i \in fa[o] : p = Free(o, i)
         /\ \A o \in Orders : \A i \in fa[o] : Free(o, i) \in FreePlaces(fa)
<1>1. ASSUME NEW p \in FreePlaces(fa) PROVE \E o \in Orders : \E i \in fa[o] : p = Free(o, i)
  <2>1. PICK o \in Orders : p \in {<<"free", <<o, i>>>> : i \in fa[o]}
    BY DEF FreePlaces
  <2> QED
    BY <2>1, Zenon DEF Free
<1>2. ASSUME NEW o \in Orders, NEW i \in fa[o] PROVE Free(o, i) \in FreePlaces(fa)
  <2>1. Free(o, i) \in {<<"free", <<o, j>>>> : j \in fa[o]}
    BY Zenon DEF Free
  <2> QED
    BY <2>1 DEF FreePlaces
<1> QED
  BY <1>1, <1>2, Zenon

LEMMA FreeFields ==
  ASSUME NEW o, NEW i
  PROVE  Free(o, i)[1] = "free" /\ Free(o, i)[2] = <<o, i>>
BY DEF Free

LEMMA FreeSame ==
  ASSUME NEW o, NEW i, NEW o1, NEW i1, Free(o, i) = Free(o1, i1)
  PROVE  o = o1 /\ i = i1
BY DEF Free

\* The free blocks that are the buddies of the blocks of a chain.
Buddies(x, lo, hi) == {Free(k, get_buddy(x[k])) : k \in lo .. hi - 1}

LEMMA BuddyMember ==
  ASSUME NEW x, NEW lo, NEW hi
  PROVE  /\ \A p \in Buddies(x, lo, hi) : \E k \in lo .. hi - 1 : p = Free(k, get_buddy(x[k]))
         /\ \A k \in lo .. hi - 1 : Free(k, get_buddy(x[k])) \in Buddies(x, lo, hi)
BY Zenon DEF Buddies

LEMMA FreeUnit ==
  ASSUME NEW o, NEW i, NEW u
  PROVE  HasUnit(Free(o, i), u) <=> u \in Units(<<o, i>>)
BY FreeFields, Zenon DEF HasUnit

\* The counters agree with the bitmaps, and no two free buddies are left.
FreeSound(fa, fs, mo) ==
  /\ fa \in [Orders -> SUBSET Nat] /\ fs \in [Orders -> Int]
  /\ \A o \in Orders : IsFiniteSet(fa[o]) /\ fs[o] = Cardinality(fa[o])
  /\ \A o \in 0 .. mo - 1 : \A i \in fa[o] : get_buddy(i) \notin fa[o]

\* Places that are not in a free area.
Taken(R) == \A p \in R : p[1] # "free"

\* A free block of the order from is split down to the order; right halves stay.
Split(fa, fs, ga, gs, order, from, index, x) ==
  /\ index \in fa[from]
  /\ ga \in [Orders -> SUBSET Nat] /\ gs \in [Orders -> Int]
  /\ ga[from] = fa[from] \ {index} /\ gs[from] = fs[from] - 1
  /\ \A k \in order .. from - 1 : fa[k] = {} /\ ga[k] = {x[k] + 1} /\ gs[k] = 1
  /\ \A k \in Orders \ (order .. from) : ga[k] = fa[k] /\ gs[k] = fs[k]

LEMMA AllocSteps ==
  ASSUME NEW mo \in 0 .. MAX_ORDER, NEW R, FreeSound(free_area, free_area_size, mo),
         Divided(FreePlaces(free_area) \cup R, mo),
         NEW order \in Orders, NEW block, alloc_block(order, block)
  PROVE  \E from \in order .. mo, index \in Nat : \E x :
           /\ InRange(mo, from, index) /\ LeftHalves(x, order, from, index)
           /\ block = <<order, x[order]>>
           /\ Split(free_area, free_area_size, free_area', free_area_size', order, from, index, x)
<1> DEFINE from == Min(Larger(order))
           index == Min(free_area[from])
           x == [k \in order .. from |-> index * 2^(from - k)]
<1>1. /\ Larger(order) # {} /\ free_area[from] # {}
  BY DEF alloc_block, Exhausted
<1>2. Larger(order) \in SUBSET Nat
  BY Bounds DEF Larger, Orders
<1>3. from \in Larger(order) /\ \A k \in Larger(order) : from <= k
  BY <1>1, <1>2, LeastNumber
<1> HIDE DEF from
<1>4. from \in order .. MAX_ORDER /\ from \in Orders /\ from \in Nat /\ order \in Nat
  BY <1>3, Bounds DEF Larger, Orders
<1>5. free_area[from] \in SUBSET Nat
  BY <1>4 DEF FreeSound
<1>6. index \in free_area[from] /\ index \in Nat
  BY <1>1, <1>5, LeastNumber
<1> HIDE DEF index
<1>7. InRange(mo, from, index)
  <2>1. Free(from, index) \in FreePlaces(free_area)
    BY <1>4, <1>6, FreeMember, Zenon
  <2>2. IsBlock(mo, Free(from, index)[2])
    BY <2>1, Zenon DEF Divided
  <2>3. PICK o, i : <<from, index>> = <<o, i>> /\ InRange(mo, o, i)
    BY <2>2, FreeFields, Zenon DEF IsBlock
  <2> QED
    BY <2>3
<1>8. from \in order .. mo
  BY <1>4, <1>7 DEF InRange
<1>9. ASSUME NEW k \in order .. from - 1 PROVE free_area[k] = {} /\ free_area_size[k] = 0
  <2>1. k \in Orders /\ k \in order .. MAX_ORDER /\ ~(from <= k)
    BY <1>4, Bounds DEF Orders
  <2>2. ~(free_area_size[k] > 0)
    BY <1>3, <2>1 DEF Larger
  <2>3. IsFiniteSet(free_area[k]) /\ free_area_size[k] = Cardinality(free_area[k])
    BY <2>1 DEF FreeSound
  <2>4. Cardinality(free_area[k]) \in Nat
    BY <2>3, FS_CardinalityType
  <2>5. free_area_size[k] = 0
    BY <2>2, <2>3, <2>4
  <2> QED
    BY <2>3, <2>5, FS_EmptySet, Zenon
<1>10. /\ block = <<order, index * 2^(from - order)>>
       /\ free_area' = [k \in Orders |->
             CASE k = from -> free_area[k] \ {index}
               [] k \in order .. from - 1 ->
                    (free_area[k] \cup {index * 2^(from - k) + 1}) \ {index * 2^(from - k)}
               [] OTHER -> free_area[k]]
       /\ free_area_size' = [k \in Orders |->
             CASE k = from -> free_area_size[k] - 1
               [] k \in order .. from - 1 -> SplitCount(free_area_size[k])
               [] OTHER -> free_area_size[k]]
  BY Zenon DEF alloc_block, from, index
<1>11. \A k \in order .. from - 1 : k \in Orders /\ k # from /\ k \in order .. from
  BY <1>4, Bounds DEF Orders
<1>12. \A k \in order .. from : x[k] = index * 2^(from - k) /\ x[k] \in Nat
  <2>1. \A k \in order .. from : from - k \in 0 .. MAX_ORDER
    BY <1>4, Bounds
  <2>2. \A k \in order .. from : 2^(from - k) \in Nat
    BY <2>1, Power
  <2> QED
    BY <1>6, <2>2, ProductsPositive
<1>13. order \in order .. from
  BY <1>4
<1>14. \A k \in order .. from - 1 : free_area'[k] = {x[k] + 1} /\ free_area_size'[k] = 1
  <2> SUFFICES ASSUME NEW k \in order .. from - 1
               PROVE  free_area'[k] = {x[k] + 1} /\ free_area_size'[k] = 1
    OBVIOUS
  <2>1. free_area'[k] = (free_area[k] \cup {x[k] + 1}) \ {x[k]}
    BY <1>10, <1>11, <1>12
  <2>2. free_area_size'[k] = SplitCount(free_area_size[k])
    BY <1>10, <1>11
  <2>3. x[k] \in Nat
    BY <1>11, <1>12
  <2>4. x[k] + 1 # x[k]
    BY <2>3
  <2>5. free_area[k] = {} /\ free_area_size[k] = 0
    BY <1>9
  <2>6. free_area_size'[k] = 1
    BY <2>2, <2>5 DEF SplitCount
  <2> HIDE DEF x
  <2> QED
    BY <2>1, <2>4, <2>5, <2>6, Zenon
<1>15. \A k \in Orders \ (order .. from) :
         free_area'[k] = free_area[k] /\ free_area_size'[k] = free_area_size[k]
  <2>1. \A k \in Orders \ (order .. from) : k # from /\ k \notin order .. from - 1
    BY <1>4 DEF Orders
  <2> QED
    BY <1>10, <2>1
<1>16. free_area'[from] = free_area[from] \ {index} /\ free_area_size'[from] = free_area_size[from] - 1
  BY <1>4, <1>10
<1>17. \A k \in Orders : free_area'[k] \in SUBSET Nat /\ free_area_size'[k] \in Int
  <2>1. \A k \in Orders : k = from \/ k \in order .. from - 1 \/ k \in Orders \ (order .. from)
    BY <1>4 DEF Orders
  <2>2. \A k \in Orders : free_area[k] \in SUBSET Nat /\ free_area_size[k] \in Int
    BY DEF FreeSound
  <2>3. \A k \in order .. from - 1 : {x[k] + 1} \in SUBSET Nat
    BY <1>11, <1>12
  <2> HIDE DEF x
  <2> QED
    BY <1>4, <1>14, <1>15, <1>16, <2>1, <2>2, <2>3
<1>18. free_area' \in [Orders -> SUBSET Nat] /\ free_area_size' \in [Orders -> Int]
  BY <1>10, <1>17
<1>19. block = <<order, x[order]>>
  BY <1>10, <1>12, <1>13
<1>20. LeftHalves(x, order, from, index)
  BY DEF LeftHalves
<1> HIDE DEF x
<1>21. Split(free_area, free_area_size, free_area', free_area_size', order, from, index, x)
  BY <1>6, <1>9, <1>14, <1>15, <1>16, <1>18, Zenon DEF Split
<1> QED
  BY <1>6, <1>7, <1>8, <1>19, <1>20, <1>21, Zenon

\* alloc_block moves the units of one free block to the block it returns and to the right
\* halves that it leaves free.
LEMMA AllocSound ==
  ASSUME NEW mo \in 0 .. MAX_ORDER, NEW R, FreeSound(free_area, free_area_size, mo),
         Divided(FreePlaces(free_area) \cup R, mo), Taken(R),
         NEW order \in Orders, NEW block, alloc_block(order, block),
         NEW q, q[2] = block, q[1] # "free"
  PROVE  /\ FreeSound(free_area', free_area_size', mo)
         /\ Divided(FreePlaces(free_area') \cup (R \cup {q}), mo)
         /\ \E i \in Nat : block = <<order, i>>
<1> USE Zenon
<1> DEFINE S(from, index, x) ==
             Split(free_area, free_area_size, free_area', free_area_size', order, from, index, x)
<1>1. PICK from \in order .. mo, index \in Nat : \E x :
         /\ InRange(mo, from, index) /\ LeftHalves(x, order, from, index)
         /\ block = <<order, x[order]>> /\ S(from, index, x)
  BY AllocSteps, SMT
<1>2. PICK x : /\ InRange(mo, from, index) /\ LeftHalves(x, order, from, index)
               /\ block = <<order, x[order]>> /\ S(from, index, x)
  BY <1>1
<1>3. /\ order \in Nat /\ from \in Nat /\ from \in order .. MAX_ORDER /\ from \in Orders /\ order <= from
      /\ order \in order .. from /\ from \in order .. from
      /\ \A k \in order .. from - 1 : k \in Orders /\ k # from /\ k < mo /\ k \in order .. from
      /\ \A k \in Orders : k = from \/ k \in order .. from - 1 \/ k \in Orders \ (order .. from)
  BY Bounds, SMT DEF Orders
<1>4. /\ Chain(x, order, from) /\ x[from] = index
      /\ \A k \in order .. from - 1 : get_buddy(x[k]) = x[k] + 1
  <2>1. LeftHalves(x, order, from, index)
    BY <1>2
  <2> QED
    BY <1>3, <2>1, LeftChain, SMT
<1>5. \A k \in order .. from : InRange(mo, k, x[k])
  BY <1>2, <1>3, LeftInRange
<1>6. \A k \in order .. from : x[k] \in Nat
  BY <1>5 DEF InRange
<1>7. \A k \in order .. from - 1 : InRange(mo, k, get_buddy(x[k]))
  BY <1>3, <1>5, RangeUp
<1>s. /\ index \in free_area[from]
      /\ free_area' \in [Orders -> SUBSET Nat] /\ free_area_size' \in [Orders -> Int]
      /\ free_area'[from] = free_area[from] \ {index} /\ free_area_size'[from] = free_area_size[from] - 1
      /\ \A k \in order .. from - 1 : /\ free_area[k] = {} /\ free_area_size'[k] = 1
                                     /\ free_area'[k] = {get_buddy(x[k])}
      /\ \A k \in Orders \ (order .. from) :
           free_area'[k] = free_area[k] /\ free_area_size'[k] = free_area_size[k]
  BY <1>2, <1>4 DEF Split
<1> DEFINE F == {Free(from, index)}
           G == Buddies(x, order, from)
           P == FreePlaces(free_area) \cup R
           Q == FreePlaces(free_area') \cup (R \cup {q})
<1>8. Replaces(G \cup {q}, F, mo)
  <2>1. \A p \in G : IsBlock(mo, p[2])
    <3> SUFFICES ASSUME NEW p \in G PROVE IsBlock(mo, p[2])
      BY SMT
    <3>1. PICK k \in order .. from - 1 : p = Free(k, get_buddy(x[k]))
      BY DEF Buddies
    <3>2. p[2] = <<k, get_buddy(x[k])>> /\ InRange(mo, k, get_buddy(x[k]))
      BY <1>7, <3>1, FreeFields, SMT
    <3> QED
      BY <3>2 DEF IsBlock
  <2>2. IsBlock(mo, q[2])
    BY <1>2, <1>3, <1>5 DEF IsBlock
  <2>3. \A u : HasUnit(q, u) <=> u \in Units(<<order, x[order]>>)
    BY <1>2 DEF HasUnit
  <2>4. \A u : (\E p \in F : HasUnit(p, u)) <=> (\E p \in G \cup {q} : HasUnit(p, u))
    <3> SUFFICES ASSUME NEW u
                 PROVE (\E p \in F : HasUnit(p, u)) <=> (\E p \in G \cup {q} : HasUnit(p, u))
      BY SMT
    <3>1. u \in Units(<<from, x[from]>>) <=>
            u \in Units(<<order, x[order]>>) \/ \E k \in order .. from - 1 : u \in Units(<<k, get_buddy(x[k])>>)
      BY <1>4, ChainUnits
    <3>2. (\E p \in F : HasUnit(p, u)) <=> u \in Units(<<from, x[from]>>)
      BY <1>4, FreeUnit
    <3>3. (\E p \in G : HasUnit(p, u)) <=> \E k \in order .. from - 1 : u \in Units(<<k, get_buddy(x[k])>>)
      <4>1. ASSUME NEW p \in G, HasUnit(p, u)
            PROVE  \E k \in order .. from - 1 : u \in Units(<<k, get_buddy(x[k])>>)
        <5>1. PICK k \in order .. from - 1 : p = Free(k, get_buddy(x[k]))
          BY DEF Buddies
        <5>2. u \in Units(<<k, get_buddy(x[k])>>)
          BY <4>1, <5>1, FreeUnit
        <5> QED
          BY <5>2
      <4>2. ASSUME NEW k \in order .. from - 1, u \in Units(<<k, get_buddy(x[k])>>)
            PROVE  \E p \in G : HasUnit(p, u)
        <5>1. HasUnit(Free(k, get_buddy(x[k])), u) /\ Free(k, get_buddy(x[k])) \in G
          BY <4>2, FreeUnit, BuddyMember
        <5> QED
          BY <5>1
      <4> QED
        BY <4>1, <4>2
    <3> QED
      BY <2>3, <3>1, <3>2, <3>3
  <2>5. ASSUME NEW p \in G \cup {q}, NEW r \in G \cup {q}, NEW u, HasUnit(p, u), HasUnit(r, u)
        PROVE  p = r
    <3>1. CASE p \in G /\ r \in G
      <4>1. PICK k \in order .. from - 1 : p = Free(k, get_buddy(x[k]))
        BY <3>1 DEF Buddies
      <4>2. PICK j \in order .. from - 1 : r = Free(j, get_buddy(x[j]))
        BY <3>1 DEF Buddies
      <4>3. u \in Units(<<k, get_buddy(x[k])>>) /\ u \in Units(<<j, get_buddy(x[j])>>)
        BY <2>5, <4>1, <4>2, FreeUnit
      <4>4. j = k
        BY <1>4, <4>3, ChainApart
      <4> QED
        BY <4>1, <4>2, <4>4
    <3>2. ASSUME NEW t \in G, HasUnit(t, u), HasUnit(q, u) PROVE FALSE
      <4>1. PICK k \in order .. from - 1 : t = Free(k, get_buddy(x[k]))
        BY <3>2 DEF Buddies
      <4>2. order \in order .. k
        BY <1>3, SMT
      <4>3. u \in Units(<<k, get_buddy(x[k])>>)
        BY <3>2, <4>1, FreeUnit
      <4> QED
        BY <1>4, <2>3, <3>2, <4>2, <4>3, ChainApart
    <3> QED
      BY <2>5, <3>1, <3>2
  <2> HIDE DEF F, G
  <2> QED
    BY <2>1, <2>2, <2>4, <2>5 DEF Replaces
<1>9. Swapped(P, F, G \cup {q}, Q)
  <2>1. F \subseteq P
    <3>1. Free(from, index) \in FreePlaces(free_area)
      BY <1>3, <1>s, FreeMember
    <3> QED
      BY <3>1
  <2>2. G \subseteq Q
    <3> SUFFICES ASSUME NEW p \in G PROVE p \in FreePlaces(free_area')
      OBVIOUS
    <3>1. PICK k \in order .. from - 1 : p = Free(k, get_buddy(x[k]))
      BY DEF Buddies
    <3>2. get_buddy(x[k]) \in free_area'[k] /\ k \in Orders
      BY <1>s, <1>3, ZenonT(30)
    <3>3. Free(k, get_buddy(x[k])) \in FreePlaces(free_area')
      BY <3>2, FreeMember
    <3> QED
      BY <3>1, <3>3
  <2>3. ASSUME NEW o \in Orders, NEW i \in free_area[o]
        PROVE  Free(o, i) \in F \/ Free(o, i) \in FreePlaces(free_area')
    <3>1. (o = from /\ i = index) \/ i \in free_area'[o]
      BY <1>s, <1>3
    <3> QED
      BY <3>1, FreeMember
  <2>4. ASSUME NEW o \in Orders, NEW i \in free_area'[o]
        PROVE  Free(o, i) \in G \/ (Free(o, i) \in FreePlaces(free_area) /\ Free(o, i) \notin F)
    <3>1. (o \in order .. from - 1 /\ i = get_buddy(x[o])) \/ (i \in free_area[o] /\ (o # from \/ i # index))
      <4>1. CASE o = from
        BY <1>s, <2>4, <4>1
      <4>2. CASE o \in order .. from - 1
        BY <1>s, <2>4, <4>2, ZenonT(30)
      <4>3. CASE o \in Orders \ (order .. from)
        BY <1>s, <1>3, <2>4, <4>3
      <4> QED
        BY <1>3, <4>1, <4>2, <4>3
    <3>2. (o # from \/ i # index) => Free(o, i) # Free(from, index)
      BY FreeSame
    <3> QED
      BY <3>1, <3>2, FreeMember, BuddyMember
  <2>5. \A p \in R : p \notin F
    BY FreeFields DEF Taken
  <2>6. \A p \in FreePlaces(free_area) : p \in F \/ p \in Q
    <3> SUFFICES ASSUME NEW p \in FreePlaces(free_area) PROVE p \in F \/ p \in Q
      BY SMT
    <3>1. PICK o \in Orders : \E i \in free_area[o] : p = Free(o, i)
      BY FreeMember
    <3>2. PICK i \in free_area[o] : p = Free(o, i)
      BY <3>1
    <3> QED
      BY <2>3, <3>2
  <2>7. \A p \in FreePlaces(free_area') : p \in G \/ (p \in P /\ p \notin F)
    <3> SUFFICES ASSUME NEW p \in FreePlaces(free_area') PROVE p \in G \/ (p \in P /\ p \notin F)
      BY SMT
    <3>1. PICK o \in Orders : \E i \in free_area'[o] : p = Free(o, i)
      BY FreeMember
    <3>2. PICK i \in free_area'[o] : p = Free(o, i)
      BY <3>1
    <3> QED
      BY <2>4, <3>2
  <2> HIDE DEF F, G
  <2> QED
    BY <2>1, <2>2, <2>5, <2>6, <2>7 DEF Swapped
<1>10. Divided(Q, mo)
  <2> HIDE DEF F, G, P, Q
  <2>1. Divided(P, mo)
    BY DEF P
  <2> QED
    BY <1>8, <1>9, <2>1, Exchange
<1>11. ASSUME NEW k \in Orders
       PROVE  IsFiniteSet(free_area'[k]) /\ free_area_size'[k] = Cardinality(free_area'[k])
  <2>0. IsFiniteSet(free_area[k]) /\ free_area_size[k] = Cardinality(free_area[k])
    BY DEF FreeSound
  <2>1. CASE k = from
    <3>1. IsFiniteSet(free_area[k] \ {index}) /\ Cardinality(free_area[k] \ {index}) = Cardinality(free_area[k]) - 1
      BY <1>s, <2>0, <2>1, FS_RemoveElement
    <3> QED
      BY <1>s, <2>0, <2>1, <3>1
  <2>2. CASE k \in order .. from - 1
    <3>1. free_area'[k] = {get_buddy(x[k])} /\ free_area_size'[k] = 1
      BY <1>s, <2>2
    <3> QED
      BY <3>1, FS_Singleton
  <2>3. CASE k \in Orders \ (order .. from)
    BY <1>s, <2>0, <2>3
  <2> QED
    BY <1>3, <2>1, <2>2, <2>3
<1>12. ASSUME NEW k \in 0 .. mo - 1, NEW i \in free_area'[k] PROVE get_buddy(i) \notin free_area'[k]
  <2>0. k \in Orders /\ \A j \in free_area[k] : get_buddy(j) \notin free_area[k]
    BY Bounds, SMT DEF FreeSound, Orders
  <2>1. CASE k = from
    BY <1>s, <1>12, <2>0, <2>1
  <2>2. CASE k \in order .. from - 1
    <3>1. free_area'[k] = {get_buddy(x[k])} /\ x[k] \in Nat
      BY <1>s, <1>3, <1>6, <2>2
    <3>2. get_buddy(get_buddy(x[k])) # get_buddy(x[k])
      BY <3>1, BuddyIndex
    <3> QED
      BY <1>12, <3>1, <3>2
  <2>3. CASE k \in Orders \ (order .. from)
    BY <1>s, <1>12, <2>0, <2>3
  <2> QED
    BY <1>3, <2>0, <2>1, <2>2, <2>3
<1>13. FreeSound(free_area', free_area_size', mo)
  BY <1>s, <1>11, <1>12 DEF FreeSound
<1> QED
  BY <1>2, <1>3, <1>6, <1>10, <1>13

\* buddy_free with its definitions named, when the loop does not end with a lost block.
Up(b, k) == b[2] \div 2^(k - b[1])
Lost(b, k) == Merges(k, Up(b, k)) /\ Up(b, k + 1) >= max_blocks(k + 1)
Top(b) == Min({k \in b[1] .. MAX_ORDER : ~Merges(k, Up(b, k)) \/ Lost(b, k)})

Freed(b, top) ==
  /\ free_area' = [k \in Orders |->
        CASE k \in b[1] .. top - 1 -> free_area[k] \ {Up(b, k), get_buddy(Up(b, k))}
          [] k = top -> free_area[k] \cup {Up(b, k)}
          [] OTHER -> free_area[k]]
  /\ free_area_size' = [k \in Orders |->
        CASE k \in b[1] .. top - 1 -> free_area_size[k] + 1 - 2
          [] k = top -> free_area_size[k] + 1
          [] OTHER -> free_area_size[k]]

LEMMA FreeUnfold ==
  ASSUME NEW b, buddy_free(b), is_valid_block(b[1], b[2]), NEW top, top = Top(b),
         ~Lost(b, top), top \notin b[1] .. top - 1
  PROVE  Freed(b, top)
<1> DEFINE merged(k) == k \in b[1] .. top - 1 \/ (k = top /\ Lost(b, k))
<1>2. /\ free_area' = [k \in Orders |->
             CASE merged(k) -> free_area[k] \ {Up(b, k), get_buddy(Up(b, k))}
               [] k = top /\ ~merged(k) -> free_area[k] \cup {Up(b, k)}
               [] OTHER -> free_area[k]]
      /\ free_area_size' = [k \in Orders |->
             CASE merged(k) -> free_area_size[k] + 1 - 2
               [] k = top /\ ~merged(k) -> free_area_size[k] + 1
               [] OTHER -> free_area_size[k]]
  BY Zenon DEF buddy_free, Top, Up, Lost
<1>3. \A k : merged(k) <=> k \in b[1] .. top - 1
  BY Zenon
<1>4. \A k : k = top /\ ~merged(k) <=> k = top
  BY Zenon
<1> HIDE DEF merged
<1> QED
  BY <1>2, <1>3, <1>4 DEF Freed

\* A block that is freed is joined with its free buddies up to the order top.
Joined(fa, fs, ga, gs, order, top, x, mo) ==
  /\ ga \in [Orders -> SUBSET Nat] /\ gs \in [Orders -> Int]
  /\ \A k \in order .. top - 1 :
       get_buddy(x[k]) \in fa[k] /\ ga[k] = fa[k] \ {get_buddy(x[k])} /\ gs[k] = fs[k] - 1
  /\ x[top] \notin fa[top] /\ ga[top] = fa[top] \cup {x[top]} /\ gs[top] = fs[top] + 1
  /\ top < mo => get_buddy(x[top]) \notin fa[top]
  /\ \A k \in Orders \ (order .. top) : ga[k] = fa[k] /\ gs[k] = fs[k]

\* What the tests of free_block find at an order up to the largest.
LEMMA MergeTests ==
  ASSUME pool \in POOLS, NEW mo, mo = max_order, NEW k, NEW y, InRange(mo, k, y)
  PROVE  /\ is_valid_block(k, y) /\ y < max_blocks(k)
         /\ k < mo => (Merges(k, y) <=> get_buddy(y) \in free_area[k])
         /\ k = mo => ~Merges(k, y)
<1>1. /\ mo \in 0 .. MAX_ORDER /\ mo \in Nat /\ pool \in Nat /\ pool_size \in Nat /\ 2^mo \in Nat
      /\ 2^mo <= pool_size /\ pool_size <= pool /\ (mo < MAX_ORDER => pool_size = 2^mo)
  BY MaxOrder, Zenon
<1>2. \A z : InRange(mo, k, z) => is_valid_block(k, z) /\ z < max_blocks(k)
  <2> SUFFICES ASSUME NEW z, InRange(mo, k, z) PROVE is_valid_block(k, z) /\ z < max_blocks(k)
    OBVIOUS
  <2>1. k \in 0 .. MAX_ORDER /\ z \in Nat /\ 2^k \in Nat
    BY <1>1, RangeOrder, Zenon
  <2>2. z * 2^k \in Nat /\ z * 2^k + 2^k <= 2^mo
    BY <1>1, RangeUnits, Zenon
  <2>3. 2^k >= 1
    BY <2>1, Power
  <2>4. z * 2^k < pool_size
    BY <1>1, <2>1, <2>2, <2>3
  <2>5. \A a, q, n \in Nat : q >= 1 /\ a * q + q <= n => a < n \div q
    OBVIOUS
  <2>6. z * 2^k + 2^k <= pool
    BY <1>1, <2>1, <2>2
  <2>7. z < pool \div 2^k
    BY <1>1, <2>1, <2>3, <2>5, <2>6
  <2> QED
    BY <2>4, <2>7 DEF is_valid_block, max_blocks
<1>3. k \in 0 .. MAX_ORDER /\ k \in Nat /\ y \in Nat /\ k <= mo
  BY <1>1, RangeOrder, Zenon
<1>4. ASSUME k < mo PROVE Merges(k, y) <=> get_buddy(y) \in free_area[k]
  <2>1. InRange(mo, k, get_buddy(y))
    BY <1>1, <1>4, RangeUp, Zenon
  <2>2. is_valid_block(k, get_buddy(y)) /\ get_buddy(y) < max_blocks(k)
    BY <1>2, <2>1, Zenon
  <2>3. k < MAX_ORDER
    BY <1>1, <1>3, <1>4, Bounds
  <2> QED
    BY <2>2, <2>3, Zenon DEF Merges, test_bit
<1>5. ASSUME k = mo PROVE ~Merges(k, y)
  <2>1. CASE mo < MAX_ORDER
    <3>1. y < 2^(mo - mo)
      BY <1>5 DEF InRange
    <3>2. 2^(mo - mo) = 1
      <4>1. mo - mo = 0
        BY <1>1
      <4> QED
        BY <4>1, Power, Zenon
    <3>3. y = 0
      BY <1>3, <3>1, <3>2
    <3>4. get_buddy(y) = 1
      BY <3>3 DEF get_buddy
    <3>5. ~(1 * 2^k < pool_size)
      BY <1>1, <1>5, <2>1
    <3> QED
      BY <3>4, <3>5 DEF Merges, is_valid_block
  <2>2. CASE ~(mo < MAX_ORDER)
    BY <1>5, <2>2 DEF Merges
  <2> QED
    BY <2>1, <2>2
<1> QED
  BY <1>2, <1>4, <1>5, Zenon

LEMMA FreeSteps ==
  ASSUME pool \in POOLS, NEW mo, mo = max_order, NEW R, FreeSound(free_area, free_area_size, mo),
         Divided(FreePlaces(free_area) \cup R, mo), Taken(R), NEW p \in R, NEW b, p[2] = b, buddy_free(b)
  PROVE  \E order \in 0 .. mo : \E top \in order .. mo : \E x :
           /\ InRange(mo, order, x[order]) /\ Chain(x, order, top) /\ b = <<order, x[order]>>
           /\ Joined(free_area, free_area_size, free_area', free_area_size', order, top, x, mo)
<1> USE Zenon
<1> DEFINE order == b[1]
           i == b[2]
           z == [k \in order .. mo |-> i \div 2^(k - order)]
           S == {k \in order .. MAX_ORDER : ~Merges(k, Up(b, k)) \/ Lost(b, k)}
           top == Top(b)
           x == [k \in order .. top |-> i \div 2^(k - order)]
<1>1. mo \in 0 .. MAX_ORDER /\ mo \in Nat
  BY MaxOrder
<1>2. InRange(mo, order, i) /\ b = <<order, i>>
  <2>1. IsBlock(mo, b)
    BY DEF Divided
  <2>2. PICK o, j : b = <<o, j>> /\ InRange(mo, o, j)
    BY <2>1 DEF IsBlock
  <2>3. b[1] = o /\ b[2] = j
    BY <2>2, SMT
  <2> QED
    BY <2>2, <2>3
<1>3. order \in 0 .. MAX_ORDER /\ order \in Nat /\ order <= mo /\ i \in Nat
  BY <1>1, <1>2, RangeOrder
<1>4. Ancestors(z, order, mo, i) /\ Ancestors(x, order, top, i)
  BY DEF Ancestors
<1>5. \A k \in order .. mo : Up(b, k) = z[k]
  BY SMT DEF Up
<1>6. \A k \in order .. top : x[k] = Up(b, k)
  BY SMT DEF Up
<1> HIDE DEF order, i, z, x, top, S
<1>7. Chain(z, order, mo) /\ z[order] = i
  <2>1. mo \in order .. MAX_ORDER
    BY <1>1, <1>3, Bounds, SMT
  <2> QED
    BY <1>3, <1>4, <2>1, UpChain
<1>8. \A k \in order .. mo : InRange(mo, k, z[k])
  <2>1. mo <= mo /\ InRange(mo, order, z[order])
    BY <1>1, <1>2, <1>7, SMT
  <2> QED
    BY <1>1, <1>7, <2>1, ChainInRange
<1>9. \A k \in order .. mo :
        /\ InRange(mo, k, Up(b, k)) /\ ~Lost(b, k)
        /\ k < mo => (Merges(k, Up(b, k)) <=> get_buddy(Up(b, k)) \in free_area[k])
        /\ k = mo => ~Merges(k, Up(b, k))
  <2> SUFFICES ASSUME NEW k \in order .. mo
               PROVE  /\ InRange(mo, k, Up(b, k)) /\ ~Lost(b, k)
                      /\ k < mo => (Merges(k, Up(b, k)) <=> get_buddy(Up(b, k)) \in free_area[k])
                      /\ k = mo => ~Merges(k, Up(b, k))
    OBVIOUS
  <2>1. InRange(mo, k, Up(b, k))
    BY <1>5, <1>8
  <2>2. /\ k < mo => (Merges(k, Up(b, k)) <=> get_buddy(Up(b, k)) \in free_area[k])
        /\ k = mo => ~Merges(k, Up(b, k))
    BY <2>1, MergeTests
  <2>3. ASSUME k < mo PROVE ~Lost(b, k)
    <3>1. k + 1 \in order .. mo
      BY <1>1, <1>3, <2>3, SMT
    <3>2. InRange(mo, k + 1, Up(b, k + 1))
      BY <1>5, <1>8, <3>1
    <3>3. Up(b, k + 1) < max_blocks(k + 1) /\ Up(b, k + 1) \in Nat
      BY <3>2, MergeTests DEF InRange
    <3>4. max_blocks(k + 1) \in Int
      <4>1. k + 1 \in 0 .. MAX_ORDER
        BY <1>1, <1>3, <3>1, Bounds, SMT
      <4>2. 2^(k + 1) \in Nat /\ 2^(k + 1) >= 1
        BY <4>1, Power, SMT
      <4>3. pool \in Nat
        BY MaxOrder
      <4> QED
        BY <4>2, <4>3, SMT DEF max_blocks
    <3>5. ~(Up(b, k + 1) >= max_blocks(k + 1))
      BY <3>3, <3>4, SMT
    <3> QED
      BY <3>5 DEF Lost
  <2>4. ASSUME k = mo PROVE ~Lost(b, k)
    BY <2>2, <2>4 DEF Lost
  <2>5. k < mo \/ k = mo
    BY <1>1, <1>3, SMT
  <2> QED
    BY <2>1, <2>2, <2>3, <2>4, <2>5
<1>10. /\ top \in order .. mo /\ ~Merges(top, Up(b, top))
       /\ \A k \in order .. top - 1 : Merges(k, Up(b, k))
  <2>1. mo \in order .. mo /\ mo \in order .. MAX_ORDER
    BY <1>1, <1>3, Bounds, SMT
  <2>2. mo \in S
    BY <1>9, <2>1 DEF S
  <2>3. S \in SUBSET Nat /\ S # {}
    BY <1>3, <2>2, Bounds, SMT DEF S
  <2>4. Min(S) \in S /\ \A k \in S : Min(S) <= k
    BY <2>3, LeastNumber
  <2>5. top = Min(S)
    BY DEF top, Top, S, order
  <2>6. top \in order .. MAX_ORDER /\ top <= mo /\ (~Merges(top, Up(b, top)) \/ Lost(b, top))
    BY <2>2, <2>4, <2>5 DEF S
  <2>7. top \in order .. mo
    BY <1>1, <1>3, <2>6, Bounds, SMT
  <2>8. ASSUME NEW k \in order .. top - 1 PROVE Merges(k, Up(b, k))
    <3>1. k \in order .. MAX_ORDER /\ ~(top <= k)
      BY <1>1, <1>3, <2>7, Bounds, SMT
    <3>2. k \notin S
      BY <2>4, <2>5, <3>1
    <3> QED
      BY <3>1, <3>2 DEF S
  <2> QED
    BY <1>9, <2>6, <2>7, <2>8
<1>11. /\ top \in Nat /\ top \in Orders /\ top \in order .. MAX_ORDER /\ top \in order .. top /\ order \in order .. top
       /\ top \notin order .. top - 1 /\ order \in 0 .. mo
       /\ \A k \in order .. top - 1 : /\ k \in order .. top /\ k \in order .. mo /\ k \in Orders
                                      /\ k < mo /\ k # top
       /\ \A k \in order .. top : k \in order .. mo /\ k \in Orders
       /\ \A k \in Orders \ (order .. top) : k # top /\ k \notin order .. top - 1
       /\ \A k \in Orders : k = top \/ k \in order .. top - 1 \/ k \in Orders \ (order .. top)
  BY <1>1, <1>3, <1>10, Bounds, SMT DEF Orders
<1>12. Chain(x, order, top) /\ x[order] = i
  BY <1>3, <1>4, <1>11, UpChain
<1>13. \A k \in order .. top : x[k] \notin free_area[k] /\ x[k] \in Nat
  <2> SUFFICES ASSUME NEW k \in order .. top PROVE x[k] \notin free_area[k] /\ x[k] \in Nat
    BY SMT
  <2>1. SUFFICES ASSUME x[k] \in free_area[k] PROVE FALSE
    BY <1>12, SMT DEF Chain
  <2>2. i * 2^order \in Units(<<order, i>>)
    BY <1>1, <1>2, RangeUnits
  <2>3. k \in order .. top
    BY SMT
  <2>4. i * 2^order \in Units(<<k, x[k]>>)
    BY <1>11, <1>12, <2>2, ChainIncreases
  <2>5. HasUnit(Free(k, x[k]), i * 2^order) /\ Free(k, x[k]) \in FreePlaces(free_area)
    BY <1>11, <2>1, <2>4, FreeUnit, FreeMember
  <2>6. HasUnit(p, i * 2^order)
    BY <1>2, <2>2 DEF HasUnit
  <2>7. p = Free(k, x[k])
    BY <2>5, <2>6 DEF Divided
  <2> QED
    BY <2>7, FreeFields DEF Taken
<1>14. is_valid_block(b[1], b[2])
  BY <1>2, MergeTests DEF order, i
<1>15. /\ free_area' = [k \in Orders |->
             CASE k \in order .. top - 1 -> free_area[k] \ {Up(b, k), get_buddy(Up(b, k))}
               [] k = top -> free_area[k] \cup {Up(b, k)}
               [] OTHER -> free_area[k]]
       /\ free_area_size' = [k \in Orders |->
             CASE k \in order .. top - 1 -> free_area_size[k] + 1 - 2
               [] k = top -> free_area_size[k] + 1
               [] OTHER -> free_area_size[k]]
  <2>1. top = Top(b) /\ ~Lost(b, top) /\ top \notin b[1] .. top - 1
    BY <1>9, <1>10, <1>11 DEF order, top
  <2>2. Freed(b, top)
    BY <1>14, <2>1, FreeUnfold
  <2> QED
    BY <2>2 DEF Freed, order
<1>16. \A k \in Orders : free_area[k] \in SUBSET Nat /\ free_area_size[k] \in Int
  BY SMT DEF FreeSound
<1>17. ASSUME NEW k \in order .. top - 1
       PROVE  /\ get_buddy(x[k]) \in free_area[k] /\ free_area'[k] = free_area[k] \ {get_buddy(x[k])}
              /\ free_area_size'[k] = free_area_size[k] - 1
  <2>1. k \in Orders /\ x[k] = Up(b, k) /\ x[k] \notin free_area[k]
    BY <1>6, <1>11, <1>13
  <2>2. get_buddy(x[k]) \in free_area[k]
    BY <1>9, <1>10, <1>11, <2>1
  <2>3. free_area'[k] = free_area[k] \ {x[k], get_buddy(x[k])} /\ free_area_size'[k] = free_area_size[k] + 1 - 2
    BY <1>15, <2>1, SMT
  <2>4. free_area[k] \ {x[k], get_buddy(x[k])} = free_area[k] \ {get_buddy(x[k])}
    BY <2>1
  <2>5. free_area_size[k] + 1 - 2 = free_area_size[k] - 1
    BY <1>16, <2>1, SMT
  <2> QED
    BY <2>2, <2>3, <2>4, <2>5
<1>18. /\ x[top] \notin free_area[top] /\ free_area'[top] = free_area[top] \cup {x[top]}
       /\ free_area_size'[top] = free_area_size[top] + 1
       /\ top < mo => get_buddy(x[top]) \notin free_area[top]
  <2>1. x[top] = Up(b, top) /\ x[top] \notin free_area[top]
    BY <1>6, <1>11, <1>13
  <2>2. free_area'[top] = free_area[top] \cup {Up(b, top)} /\ free_area_size'[top] = free_area_size[top] + 1
    BY <1>11, <1>15, SMT
  <2> QED
    BY <1>9, <1>10, <2>1, <2>2
<1>19. \A k \in Orders \ (order .. top) : free_area'[k] = free_area[k] /\ free_area_size'[k] = free_area_size[k]
  BY <1>11, <1>15, SMT
<1>20. free_area' \in [Orders -> SUBSET Nat] /\ free_area_size' \in [Orders -> Int]
  <2>1. \A k \in Orders : free_area'[k] \in SUBSET Nat /\ free_area_size'[k] \in Int
    <3> SUFFICES ASSUME NEW k \in Orders PROVE free_area'[k] \in SUBSET Nat /\ free_area_size'[k] \in Int
      BY SMT
    <3>1. CASE k \in order .. top - 1
      BY <1>16, <1>17, <3>1, SMT
    <3>2. CASE k = top
      BY <1>11, <1>13, <1>16, <1>18, <3>2, SMT
    <3>3. CASE k \in Orders \ (order .. top)
      BY <1>16, <1>19, <3>3, SMT
    <3> QED
      BY <1>11, <3>1, <3>2, <3>3
  <2> QED
    BY <1>15, <2>1, SMT
<1>21. Joined(free_area, free_area_size, free_area', free_area_size', order, top, x, mo)
  BY <1>17, <1>18, <1>19, <1>20 DEF Joined
<1>22. InRange(mo, order, x[order]) /\ b = <<order, x[order]>>
  BY <1>2, <1>12
<1> QED
  BY <1>10, <1>11, <1>12, <1>21, <1>22

\* free_block moves the units of the block and of the free buddies it joins it with to one
\* free block.
LEMMA FreedSound ==
  ASSUME pool \in POOLS, NEW mo, mo = max_order, NEW R, FreeSound(free_area, free_area_size, mo),
         Divided(FreePlaces(free_area) \cup R, mo), Taken(R), NEW p \in R, NEW b, p[2] = b, buddy_free(b)
  PROVE  /\ FreeSound(free_area', free_area_size', mo)
         /\ Divided(FreePlaces(free_area') \cup (R \ {p}), mo)
<1> USE Zenon
<1> DEFINE J(order, top, x) ==
             Joined(free_area, free_area_size, free_area', free_area_size', order, top, x, mo)
<1>1. PICK order \in 0 .. mo : \E top \in order .. mo : \E x :
         /\ InRange(mo, order, x[order]) /\ Chain(x, order, top) /\ b = <<order, x[order]>> /\ J(order, top, x)
  BY FreeSteps
<1>2. PICK top \in order .. mo : \E x :
         /\ InRange(mo, order, x[order]) /\ Chain(x, order, top) /\ b = <<order, x[order]>> /\ J(order, top, x)
  BY <1>1
<1>3. PICK x : /\ InRange(mo, order, x[order]) /\ Chain(x, order, top) /\ b = <<order, x[order]>>
               /\ J(order, top, x)
  BY <1>2
<1>4. /\ free_area' \in [Orders -> SUBSET Nat] /\ free_area_size' \in [Orders -> Int]
      /\ \A k \in order .. top - 1 :
           /\ get_buddy(x[k]) \in free_area[k] /\ free_area'[k] = free_area[k] \ {get_buddy(x[k])}
           /\ free_area_size'[k] = free_area_size[k] - 1
      /\ x[top] \notin free_area[top] /\ free_area'[top] = free_area[top] \cup {x[top]}
      /\ free_area_size'[top] = free_area_size[top] + 1
      /\ top < mo => get_buddy(x[top]) \notin free_area[top]
      /\ \A k \in Orders \ (order .. top) :
           free_area'[k] = free_area[k] /\ free_area_size'[k] = free_area_size[k]
  BY <1>3 DEF Joined
<1>5. mo \in 0 .. MAX_ORDER /\ mo \in Nat
  BY MaxOrder
<1>6. /\ order \in Nat /\ top \in Nat /\ top \in Orders /\ top <= mo /\ top \in order .. top /\ order \in order .. top
      /\ \A k \in order .. top - 1 : k \in Orders /\ k # top /\ k \in order .. top /\ order \in order .. k
      /\ \A k \in Orders : k = top \/ k \in order .. top - 1 \/ k \in Orders \ (order .. top)
  BY <1>5, Bounds, SMT DEF Orders
<1>7. \A k \in order .. top : InRange(mo, k, x[k]) /\ x[k] \in Nat
  <2>1. \A k \in order .. top : InRange(mo, k, x[k])
    BY <1>3, <1>5, <1>6, ChainInRange
  <2> QED
    BY <2>1 DEF InRange
<1> DEFINE G == Buddies(x, order, top)
           f == Free(top, x[top])
           P == FreePlaces(free_area) \cup R
           Q == FreePlaces(free_area') \cup (R \ {p})
<1>8. Replaces({f}, G \cup {p}, mo)
  <2>1. IsBlock(mo, f[2])
    <3>1. f[2] = <<top, x[top]>> /\ InRange(mo, top, x[top])
      BY <1>6, <1>7, FreeFields
    <3> QED
      BY <3>1 DEF IsBlock
  <2>2. \A u : HasUnit(p, u) <=> u \in Units(<<order, x[order]>>)
    BY <1>3 DEF HasUnit
  <2>3. \A u : (\E r \in G \cup {p} : HasUnit(r, u)) <=> (\E r \in {f} : HasUnit(r, u))
    <3> SUFFICES ASSUME NEW u
                 PROVE (\E r \in G \cup {p} : HasUnit(r, u)) <=> (\E r \in {f} : HasUnit(r, u))
      BY SMT
    <3>1. u \in Units(<<top, x[top]>>) <=>
            u \in Units(<<order, x[order]>>) \/ \E k \in order .. top - 1 : u \in Units(<<k, get_buddy(x[k])>>)
      BY <1>3, ChainUnits
    <3>2. (\E r \in {f} : HasUnit(r, u)) <=> u \in Units(<<top, x[top]>>)
      BY FreeUnit
    <3>3. (\E r \in G : HasUnit(r, u)) <=> \E k \in order .. top - 1 : u \in Units(<<k, get_buddy(x[k])>>)
      <4>1. ASSUME NEW r \in G, HasUnit(r, u)
            PROVE  \E k \in order .. top - 1 : u \in Units(<<k, get_buddy(x[k])>>)
        <5>1. PICK k \in order .. top - 1 : r = Free(k, get_buddy(x[k]))
          BY DEF Buddies
        <5>2. u \in Units(<<k, get_buddy(x[k])>>)
          BY <4>1, <5>1, FreeUnit
        <5> QED
          BY <5>2
      <4>2. ASSUME NEW k \in order .. top - 1, u \in Units(<<k, get_buddy(x[k])>>)
            PROVE  \E r \in G : HasUnit(r, u)
        <5>1. HasUnit(Free(k, get_buddy(x[k])), u) /\ Free(k, get_buddy(x[k])) \in G
          BY <4>2, FreeUnit, BuddyMember
        <5> QED
          BY <5>1
      <4> QED
        BY <4>1, <4>2
    <3> QED
      BY <2>2, <3>1, <3>2, <3>3
  <2> HIDE DEF f, G
  <2> QED
    BY <2>1, <2>3 DEF Replaces
<1>9. Swapped(P, G \cup {p}, {f}, Q)
  <2>1. G \subseteq FreePlaces(free_area)
    <3> SUFFICES ASSUME NEW r \in G PROVE r \in FreePlaces(free_area)
      OBVIOUS
    <3>1. PICK k \in order .. top - 1 : r = Free(k, get_buddy(x[k]))
      BY DEF Buddies
    <3>2. get_buddy(x[k]) \in free_area[k] /\ k \in Orders
      BY <1>4, <1>6
    <3>3. Free(k, get_buddy(x[k])) \in FreePlaces(free_area)
      BY <3>2, FreeMember
    <3> QED
      BY <3>1, <3>3
  <2>2. f \in FreePlaces(free_area')
    <3>1. x[top] \in free_area'[top] /\ top \in Orders
      BY <1>4, <1>6
    <3> QED
      BY <3>1, FreeMember
  <2>3. ASSUME NEW r \in FreePlaces(free_area) PROVE r \in G \/ r \in FreePlaces(free_area')
    <3>1. PICK o \in Orders : \E i \in free_area[o] : r = Free(o, i)
      BY FreeMember
    <3>2. PICK i \in free_area[o] : r = Free(o, i)
      BY <3>1
    <3>3. (o \in order .. top - 1 /\ i = get_buddy(x[o])) \/ i \in free_area'[o]
      <4>1. CASE o = top
        BY <1>4, <4>1
      <4>2. CASE o \in order .. top - 1
        BY <1>4, <4>2
      <4>3. CASE o \in Orders \ (order .. top)
        BY <1>4, <4>3
      <4> QED
        BY <1>6, <4>1, <4>2, <4>3
    <3> QED
      BY <3>2, <3>3, FreeMember, BuddyMember
  <2>4. ASSUME NEW r \in FreePlaces(free_area') PROVE r = f \/ (r \in FreePlaces(free_area) /\ r \notin G)
    <3>1. PICK o \in Orders : \E i \in free_area'[o] : r = Free(o, i)
      BY FreeMember
    <3>2. PICK i \in free_area'[o] : r = Free(o, i)
      BY <3>1
    <3>3. \/ o = top /\ i = x[top]
          \/ i \in free_area[o] /\ ~(o \in order .. top - 1 /\ i = get_buddy(x[o]))
      <4>1. CASE o = top
        BY <1>4, <1>6, <3>2, <4>1
      <4>2. CASE o \in order .. top - 1
        BY <1>4, <3>2, <4>2
      <4>3. CASE o \in Orders \ (order .. top)
        BY <1>4, <1>6, <3>2, <4>3
      <4> QED
        BY <1>6, <4>1, <4>2, <4>3
    <3>4. CASE o = top /\ i = x[top]
      BY <3>2, <3>4
    <3>5. CASE i \in free_area[o] /\ ~(o \in order .. top - 1 /\ i = get_buddy(x[o]))
      <4>1. r \in FreePlaces(free_area)
        BY <3>2, <3>5, FreeMember
      <4>2. ASSUME r \in G PROVE FALSE
        <5>1. PICK k \in order .. top - 1 : r = Free(k, get_buddy(x[k]))
          BY <4>2 DEF Buddies
        <5>2. Free(o, i) = Free(k, get_buddy(x[k]))
          BY <3>2, <5>1
        <5>3. o = k /\ i = get_buddy(x[k])
          BY <5>2, SMT DEF Free
        <5> QED
          BY <3>5, <5>3
      <4> QED
        BY <4>1, <4>2
    <3> QED
      BY <3>3, <3>4, <3>5
  <2>5. \A r \in R : r \notin FreePlaces(free_area) /\ r \notin FreePlaces(free_area')
    <3> SUFFICES ASSUME NEW r \in R, NEW fa, r \in FreePlaces(fa) PROVE FALSE
      OBVIOUS
    <3>1. PICK o \in Orders : \E i \in fa[o] : r = Free(o, i)
      BY FreeMember
    <3>2. PICK i \in fa[o] : r = Free(o, i)
      BY <3>1
    <3> QED
      BY <3>2, FreeFields DEF Taken
  <2> HIDE DEF f, G
  <2>6. G \cup {p} \subseteq P /\ {f} \subseteq Q
    BY <2>1, <2>2
  <2>7. \A r \in P : r \in G \cup {p} \/ r \in Q
    BY <2>3
  <2>8. \A r \in Q : r \in {f} \/ (r \in P /\ r \notin G \cup {p})
    BY <2>1, <2>4, <2>5
  <2> HIDE DEF P, Q
  <2> QED
    BY <2>6, <2>7, <2>8 DEF Swapped
<1>10. Divided(Q, mo)
  <2> HIDE DEF f, G, P, Q
  <2>1. Divided(P, mo)
    BY DEF P
  <2> QED
    BY <1>8, <1>9, <2>1, Exchange
<1>11. ASSUME NEW k \in Orders
       PROVE  IsFiniteSet(free_area'[k]) /\ free_area_size'[k] = Cardinality(free_area'[k])
  <2>0. IsFiniteSet(free_area[k]) /\ free_area_size[k] = Cardinality(free_area[k])
    BY DEF FreeSound
  <2>1. CASE k = top
    <3>1. IsFiniteSet(free_area[k] \cup {x[top]}) /\ Cardinality(free_area[k] \cup {x[top]}) = Cardinality(free_area[k]) + 1
      BY <1>4, <2>0, <2>1, FS_AddElement
    <3> QED
      BY <1>4, <2>0, <2>1, <3>1
  <2>2. CASE k \in order .. top - 1
    <3> DEFINE j == get_buddy(x[k])
    <3>1. j \in free_area[k] /\ free_area'[k] = free_area[k] \ {j} /\ free_area_size'[k] = free_area_size[k] - 1
      BY <1>4, <2>2
    <3> HIDE DEF j
    <3>2. IsFiniteSet(free_area[k] \ {j}) /\ Cardinality(free_area[k] \ {j}) = Cardinality(free_area[k]) - 1
      BY <2>0, <3>1, FS_RemoveElement
    <3> QED
      BY <2>0, <3>1, <3>2
  <2>3. CASE k \in Orders \ (order .. top)
    BY <1>4, <2>0, <2>3
  <2> QED
    BY <1>6, <2>1, <2>2, <2>3
<1>12. ASSUME NEW k \in 0 .. mo - 1, NEW i \in free_area'[k] PROVE get_buddy(i) \notin free_area'[k]
  <2>0. k \in Orders /\ (\A j \in free_area[k] : get_buddy(j) \notin free_area[k]) /\ free_area[k] \subseteq Nat
    <3>1. k \in Orders
      BY <1>5, Bounds, SMT DEF Orders
    <3>2. free_area[k] \in SUBSET Nat
      BY <3>1 DEF FreeSound
    <3> QED
      BY <3>1, <3>2 DEF FreeSound
  <2>1. CASE k = top
    <3>1. get_buddy(x[top]) \notin free_area[top] /\ x[top] \in Nat /\ free_area'[k] = free_area[k] \cup {x[top]}
      BY <1>4, <1>5, <1>6, <1>7, <2>1, SMT
    <3>2. get_buddy(x[top]) # x[top] /\ get_buddy(get_buddy(x[top])) = x[top]
      BY <3>1, BuddyIndex
    <3>3. CASE i = x[top]
      BY <2>1, <3>1, <3>2, <3>3
    <3>4. CASE i \in free_area[k]
      <4>1. i \in Nat /\ get_buddy(i) \notin free_area[k]
        BY <2>0, <3>4
      <4>2. ASSUME get_buddy(i) = x[top] PROVE FALSE
        <5>1. get_buddy(get_buddy(i)) = i
          BY <4>1, BuddyIndex
        <5>2. get_buddy(x[top]) = i
          BY <4>2, <5>1
        <5> QED
          BY <2>1, <3>1, <3>4, <5>2
      <4> QED
        BY <3>1, <4>1, <4>2
    <3> QED
      BY <1>12, <3>1, <3>3, <3>4
  <2>2. CASE k \in order .. top - 1
    <3>1. free_area'[k] \subseteq free_area[k]
      BY <1>4, <2>2
    <3> QED
      BY <1>12, <2>0, <3>1
  <2>3. CASE k \in Orders \ (order .. top)
    BY <1>4, <1>12, <2>0, <2>3
  <2> QED
    BY <1>6, <2>0, <2>1, <2>2, <2>3
<1>13. FreeSound(free_area', free_area_size', mo)
  BY <1>4, <1>11, <1>12 DEF FreeSound
<1> QED
  BY <1>10, <1>13

-----------------------------------------------------------------------------
(* When no block is free.                                                  *)

\* A block that shares memory with one of a larger order is part of it.
LEMMA Nested ==
  ASSUME NEW k \in Nat, NEW m \in k .. MAX_ORDER, NEW i \in Nat, NEW j \in Nat, NEW u,
         u \in Units(<<k, i>>), u \in Units(<<m, j>>)
  PROVE  \A w \in Units(<<k, i>>) : w \in Units(<<m, j>>)
<1>1. PICK x : Ancestors(x, k, m, i)
  BY Zenon DEF Ancestors
<1>2. k \in k .. m /\ m \in k .. m /\ m \in 0 .. MAX_ORDER /\ m \in Nat
  BY Bounds
<1>3. Chain(x, k, m) /\ x[k] = i
  BY <1>1, UpChain
<1>4. \A w \in Units(<<k, i>>) : w \in Units(<<m, x[m]>>)
  BY <1>2, <1>3, ChainIncreases, Zenon
<1>5. x[m] \in Nat
  BY <1>2, <1>3 DEF Chain
<1>6. x[m] = j
  BY <1>2, <1>4, <1>5, SameOrder, Zenon
<1> QED
  BY <1>4, <1>6

\* Memory is never free in pieces only: if no free block is as large as the order, then no block
\* of the order is free altogether.
LEMMA NoneInPieces ==
  ASSUME NEW mo \in 0 .. MAX_ORDER, NEW fa, NEW fs, FreeSound(fa, fs, mo), NEW R,
         Divided(FreePlaces(fa) \cup R, mo), NEW order \in 0 .. mo,
         \A k \in order .. MAX_ORDER : fa[k] = {}, NEW i \in Nat,
         \A u \in Units(<<order, i>>) : \E o \in Orders : \E j \in fa[o] : u \in Units(<<o, j>>)
  PROVE  FALSE
<1> DEFINE Meets(k) == k \in Orders /\ \E j \in fa[k] : \E u \in Units(<<order, i>>) : u \in Units(<<k, j>>)
           K == {k \in Nat : Meets(k)}
<1>1. /\ order \in Nat /\ order \in 0 .. MAX_ORDER /\ mo \in Nat /\ \A k \in Orders : k \in Nat /\ k \in 0 .. MAX_ORDER
      /\ \A k \in Orders : k < order \/ k \in order .. MAX_ORDER
  BY Bounds DEF Orders
<1>2. fa \in [Orders -> SUBSET Nat]
  BY Zenon DEF FreeSound
<1>3. \A k \in Orders : \A j \in fa[k] : j \in Nat
  BY <1>2
<1>4. i * 2^order \in Units(<<order, i>>)
  BY <1>1, UnitsOf
<1>5. K # {}
  BY <1>1, <1>4, Zenon
<1>6. K \in SUBSET Nat
  OBVIOUS
<1> HIDE DEF K
<1>7. PICK k : k \in K /\ \A y \in K : k <= y
  BY <1>5, <1>6, LeastNumber, Zenon
<1>8. Meets(k) /\ \A y \in Nat : Meets(y) => k <= y
  BY <1>7 DEF K
<1>9. PICK j \in fa[k] : \E u \in Units(<<order, i>>) : u \in Units(<<k, j>>)
  BY <1>8, Zenon
<1>10. PICK u \in Units(<<order, i>>) : u \in Units(<<k, j>>)
  BY <1>9, Zenon
<1>11. k \in Orders /\ k \in Nat /\ j \in Nat /\ k < order
  BY <1>1, <1>3, <1>8, Zenon
<1>12. k < MAX_ORDER /\ k + 1 \in Nat /\ order \in k + 1 .. MAX_ORDER /\ j \div 2 \in Nat /\ get_buddy(j) \in Nat
       /\ k \in 0 .. MAX_ORDER /\ k \in 0 .. mo - 1
  BY <1>1, <1>11, Bounds, BuddyIndex
<1>12a. PICK p, r : p = k + 1 /\ r = j \div 2
  OBVIOUS
<1>12b. p \in Nat /\ r \in Nat /\ order \in p .. MAX_ORDER
  BY <1>12, <1>12a
<1> DEFINE P == <<p, r>>
           b == get_buddy(j)
<1>13. \A w : w \in Units(P) <=> w \in Units(<<k, j>>) \/ w \in Units(<<k, b>>)
  BY <1>11, <1>12, <1>12a, Halves
<1>14. \A w \in Units(P) : w \in Units(<<order, i>>)
  BY <1>12b, <1>10, <1>13, Nested, Zenon
<1>15. b * 2^k \in Units(<<k, b>>)
  BY <1>12, UnitsOf
<1> DEFINE w == b * 2^k
<1> HIDE DEF w
<1>16. w \in Units(<<k, b>>) /\ w \in Units(P) /\ w \in Units(<<order, i>>)
  BY <1>13, <1>14, <1>15, Zenon DEF w
<1>17. PICK m \in Orders : \E l \in fa[m] : w \in Units(<<m, l>>)
  BY <1>16, Zenon
<1>18. PICK l \in fa[m] : w \in Units(<<m, l>>)
  BY <1>17, Zenon
<1>19. m \in Nat /\ k <= m /\ l \in Nat
  BY <1>1, <1>3, <1>8, <1>16, <1>18, Zenon
<1>20. CASE m = k
  <2>1. l = b
    BY <1>12, <1>16, <1>18, <1>19, <1>20, SameOrder
  <2>2. b \in fa[k]
    BY <1>18, <1>20, <2>1
  <2> QED
    BY <1>12, <2>2, Zenon DEF FreeSound
<1>21. CASE m # k
  <2> USE Zenon
  <2>1. m \in p .. MAX_ORDER
    BY <1>12a, <1>1, <1>11, <1>19, <1>21, SMT DEF Orders
  <2>2. \A y \in Units(P) : y \in Units(<<m, l>>)
    BY <1>12b, <1>16, <1>18, <1>19, <2>1, Nested
  <2>3. u \in Units(<<m, l>>)
    BY <1>10, <1>13, <2>2
  <2>4. Free(k, j) \in FreePlaces(fa) /\ Free(m, l) \in FreePlaces(fa)
    BY <1>11, FreeMember
  <2>5. HasUnit(Free(k, j), u) /\ HasUnit(Free(m, l), u)
    BY <1>10, <2>3, FreeUnit
  <2>6. Free(k, j) = Free(m, l)
    BY <2>4, <2>5 DEF Divided
  <2> QED
    BY <1>21, <2>6, FreeSame
<1> QED
  BY <1>20, <1>21

-----------------------------------------------------------------------------
(* The places that are not free.                                           *)

Blocks == Orders \X Nat
Stacks == [CPUs -> [pool_orders -> Seq(Blocks)]]

Pool(b, c, o, i) == <<"pool", b, <<c, o>>, i>>
PoolPlaces(bl) ==
  UNION {{<<"pool", bl[x[1]][x[2]][i], x, i>> : i \in DOMAIN bl[x[1]][x[2]]} : x \in CPUs \X pool_orders}

LEMMA PoolFields ==
  ASSUME NEW b, NEW c, NEW o, NEW i
  PROVE  Pool(b, c, o, i)[1] = "pool" /\ Pool(b, c, o, i)[2] = b
BY DEF Pool

LEMMA PoolMember ==
  ASSUME NEW bl \in Stacks
  PROVE  /\ \A p \in PoolPlaces(bl) : \E c \in CPUs : \E o \in pool_orders : \E i \in 1 .. Len(bl[c][o]) :
              p = Pool(bl[c][o][i], c, o, i)
         /\ \A c \in CPUs : \A o \in pool_orders : \A i \in 1 .. Len(bl[c][o]) :
              Pool(bl[c][o][i], c, o, i) \in PoolPlaces(bl)
<1>1. \A c \in CPUs : \A o \in pool_orders : DOMAIN bl[c][o] = 1 .. Len(bl[c][o])
  BY DEF Stacks
<1>2. ASSUME NEW p \in PoolPlaces(bl)
      PROVE  \E c \in CPUs : \E o \in pool_orders : \E i \in 1 .. Len(bl[c][o]) : p = Pool(bl[c][o][i], c, o, i)
  <2> USE Zenon
  <2>1. PICK x \in CPUs \X pool_orders : p \in {<<"pool", bl[x[1]][x[2]][i], x, i>> : i \in DOMAIN bl[x[1]][x[2]]}
    BY DEF PoolPlaces
  <2>2. PICK i \in DOMAIN bl[x[1]][x[2]] : p = <<"pool", bl[x[1]][x[2]][i], x, i>>
    BY <2>1
  <2>3. x[1] \in CPUs /\ x[2] \in pool_orders /\ x = <<x[1], x[2]>>
    BY <2>1, SMT
  <2>4. p = Pool(bl[x[1]][x[2]][i], x[1], x[2], i)
    BY <2>2, <2>3 DEF Pool
  <2> QED
    BY <1>1, <2>2, <2>3, <2>4
<1>3. ASSUME NEW c \in CPUs, NEW o \in pool_orders, NEW i \in 1 .. Len(bl[c][o])
      PROVE  Pool(bl[c][o][i], c, o, i) \in PoolPlaces(bl)
  <2> DEFINE x == <<c, o>>
             T(y) == {<<"pool", bl[y[1]][y[2]][j], y, j>> : j \in DOMAIN bl[y[1]][y[2]]}
  <2>1. x \in CPUs \X pool_orders /\ x[1] = c /\ x[2] = o
    OBVIOUS
  <2>2. Pool(bl[c][o][i], c, o, i) = <<"pool", bl[c][o][i], x, i>>
    BY Zenon DEF Pool
  <2> HIDE DEF x
  <2>3. <<"pool", bl[c][o][i], x, i>> \in T(x)
    BY <1>1, <1>3, <2>1
  <2>4. PoolPlaces(bl) = UNION {T(y) : y \in CPUs \X pool_orders}
    BY Zenon DEF PoolPlaces
  <2> HIDE DEF T
  <2> QED
    BY <2>1, <2>2, <2>3, <2>4, Zenon
<1> QED
  BY <1>2, <1>3, Zenon

\* The stack of one CPU and order is replaced.
SetStack(bl, bm, c, o, s) == bm = [bl EXCEPT ![c][o] = s]
IsStack(bl, bm, c, o, s) ==
  /\ bm \in Stacks /\ bm[c][o] = s
  /\ \A d \in CPUs : \A q \in pool_orders : d # c \/ q # o => bm[d][q] = bl[d][q]

LEMMA StackSet ==
  ASSUME NEW bl \in Stacks, NEW c \in CPUs, NEW o \in pool_orders, NEW s \in Seq(Blocks), NEW bm,
         SetStack(bl, bm, c, o, s)
  PROVE  IsStack(bl, bm, c, o, s)
<1>1. bm = [bl EXCEPT ![c] = [bl[c] EXCEPT ![o] = s]]
  BY DEF SetStack
<1>2. bl[c] \in [pool_orders -> Seq(Blocks)] /\ \A d \in CPUs : bl[d] \in [pool_orders -> Seq(Blocks)]
  BY DEF Stacks
<1> DEFINE row == [bl[c] EXCEPT ![o] = s]
<1>3. /\ row \in [pool_orders -> Seq(Blocks)] /\ row[o] = s
      /\ \A q \in pool_orders : q # o => row[q] = bl[c][q]
  BY <1>2
<1> HIDE DEF row
<1>4. bm = [bl EXCEPT ![c] = row]
  BY <1>1 DEF row
<1>5. bm[c] = row /\ \A d \in CPUs : d # c => bm[d] = bl[d]
  BY <1>4 DEF Stacks
<1>6. bm \in Stacks
  BY <1>3, <1>4 DEF Stacks
<1> QED
  BY <1>3, <1>5, <1>6, Zenon DEF IsStack

LEMMA Push ==
  ASSUME NEW s \in Seq(Blocks), NEW b \in Blocks
  PROVE  /\ Append(s, b) \in Seq(Blocks) /\ Len(Append(s, b)) = Len(s) + 1 /\ Len(s) \in Nat
         /\ Append(s, b)[Len(s) + 1] = b /\ \A i \in 1 .. Len(s) : Append(s, b)[i] = s[i]
         /\ 1 .. Len(s) + 1 = (1 .. Len(s)) \cup {Len(s) + 1}
<1>1. Len(s) \in Nat
  OBVIOUS
<1>2. 1 .. Len(s) + 1 = (1 .. Len(s)) \cup {Len(s) + 1}
  BY <1>1
<1> QED
  BY <1>1, <1>2

IsPop(s, t) ==
  /\ t \in Seq(Blocks) /\ Len(t) = Len(s) - 1 /\ Len(s) \in Nat /\ Len(s) >= 1
  /\ \A i \in 1 .. Len(t) : t[i] = s[i]
  /\ 1 .. Len(s) = (1 .. Len(t)) \cup {Len(s)} /\ Len(s) \notin 1 .. Len(t)
  /\ Len(s) \in 1 .. Len(s) /\ s[Len(s)] \in Blocks

LEMMA Pop ==
  ASSUME NEW s \in Seq(Blocks), s # <<>>
  PROVE  IsPop(s, SubSeq(s, 1, Len(s) - 1))
<1> DEFINE t == SubSeq(s, 1, Len(s) - 1)
<1>1. Len(s) \in Nat /\ Len(s) >= 1
  BY EmptySeq
<1>2. t \in Seq(Blocks) /\ Len(t) = Len(s) - 1 /\ \A i \in 1 .. Len(t) : t[i] = s[i]
  <2>1. Len(s) - 1 \in Int /\ 1 \in Int /\ \A i \in 1 .. Len(s) - 1 : s[i] \in Blocks
    BY <1>1
  <2>2. /\ t \in Seq(Blocks) /\ Len(t) = IF 1 <= Len(s) - 1 THEN Len(s) - 1 - 1 + 1 ELSE 0
        /\ \A i \in 1 .. Len(s) - 1 - 1 + 1 : t[i] = s[1 + i - 1]
    BY <2>1, SubSeqProperties
  <2>3. Len(t) = Len(s) - 1
    <3>1. \A n \in Nat : n >= 1 => (IF 1 <= n - 1 THEN n - 1 - 1 + 1 ELSE 0) = n - 1
      OBVIOUS
    <3>2. Len(t) = IF 1 <= Len(s) - 1 THEN Len(s) - 1 - 1 + 1 ELSE 0
      BY <2>2, Zenon
    <3> QED
      BY <1>1, <3>1, <3>2, Zenon
  <2>4. ASSUME NEW i \in 1 .. Len(t) PROVE t[i] = s[i]
    <3>1. i \in 1 .. Len(s) - 1 - 1 + 1 /\ 1 + i - 1 = i
      BY <1>1, <2>3
    <3> QED
      BY <2>2, <3>1, Zenon
  <2> QED
    BY <2>2, <2>3, <2>4, Zenon
<1>3. 1 .. Len(s) = (1 .. Len(t)) \cup {Len(s)} /\ Len(s) \notin 1 .. Len(t) /\ Len(s) \in 1 .. Len(s)
  BY <1>1, <1>2
<1> QED
  BY <1>1, <1>2, <1>3 DEF IsPop

\* The block b is pushed onto a pool, or popped from it.
Pushes(bl, bm, c, o, b) == bm = [bl EXCEPT ![c][o] = Append(bl[c][o], b)]
Pops(bl, bm, c, o, b) ==
  /\ bl[c][o] # <<>> /\ b = bl[c][o][Len(bl[c][o])]
  /\ bm = [bl EXCEPT ![c][o] = SubSeq(bl[c][o], 1, Len(bl[c][o]) - 1)]
PoolGains(bl, bm, b) == \E q : q[1] = "pool" /\ q[2] = b /\ PoolPlaces(bm) = PoolPlaces(bl) \cup {q}
PoolLoses(bl, bm, b) ==
  \E q \in PoolPlaces(bl) : q[1] = "pool" /\ q[2] = b /\ PoolPlaces(bm) = PoolPlaces(bl) \ {q}

LEMMA PoolPushed ==
  ASSUME NEW bl \in Stacks, NEW c \in CPUs, NEW o \in pool_orders, NEW b \in Blocks, NEW bm,
         SetStack(bl, bm, c, o, Append(bl[c][o], b))
  PROVE  /\ bm \in Stacks
         /\ \E q : q[1] = "pool" /\ q[2] = b /\ PoolPlaces(bm) = PoolPlaces(bl) \cup {q}
<1> USE Zenon
<1> DEFINE s == bl[c][o]
           t == Append(s, b)
           q == Pool(b, c, o, Len(s) + 1)
<1>1. s \in Seq(Blocks)
  BY SMT DEF Stacks
<1>2. /\ t \in Seq(Blocks) /\ Len(t) = Len(s) + 1 /\ t[Len(s) + 1] = b /\ \A i \in 1 .. Len(s) : t[i] = s[i]
      /\ 1 .. Len(s) + 1 = (1 .. Len(s)) \cup {Len(s) + 1}
  BY <1>1, Push
<1> HIDE DEF t
<1>3. SetStack(bl, bm, c, o, t)
  BY DEF t
<1>4. /\ bm \in Stacks /\ bm[c][o] = t
      /\ \A d \in CPUs : \A r \in pool_orders : d # c \/ r # o => bm[d][r] = bl[d][r]
  <2>1. IsStack(bl, bm, c, o, t)
    BY <1>2, <1>3, StackSet
  <2> QED
    BY <2>1 DEF IsStack
<1>5. ASSUME NEW p \in PoolPlaces(bm) PROVE p \in PoolPlaces(bl) \cup {q}
  <2>1. PICK d \in CPUs : \E r \in pool_orders : \E i \in 1 .. Len(bm[d][r]) : p = Pool(bm[d][r][i], d, r, i)
    BY <1>4, PoolMember
  <2>2. PICK r \in pool_orders : \E i \in 1 .. Len(bm[d][r]) : p = Pool(bm[d][r][i], d, r, i)
    BY <2>1
  <2>3. PICK i \in 1 .. Len(bm[d][r]) : p = Pool(bm[d][r][i], d, r, i)
    BY <2>2
  <2>4. CASE d # c \/ r # o
    <3>1. bm[d][r] = bl[d][r]
      BY <1>4, <2>4
    <3> QED
      BY <2>3, <3>1, PoolMember
  <2>5. CASE d = c /\ r = o
    <3>1. bm[d][r] = t
      BY <1>4, <2>5
    <3>2. i \in 1 .. Len(s) \/ i = Len(s) + 1
      <4>1. i \in 1 .. Len(s) + 1
        BY <1>2, <3>1
      <4>2. \A n \in Nat : \A j \in 1 .. n + 1 : j \in 1 .. n \/ j = n + 1
        BY SMT
      <4>3. Len(s) \in Nat
        BY <1>1, SMT
      <4> QED
        BY <4>1, <4>2, <4>3
    <3>3. CASE i = Len(s) + 1
      BY <1>2, <2>3, <2>5, <3>1, <3>3
    <3>4. CASE i \in 1 .. Len(s)
      <4>1. p = Pool(s[i], c, o, i)
        BY <1>2, <2>3, <2>5, <3>1, <3>4
      <4> QED
        BY <3>4, <4>1, PoolMember
    <3> QED
      BY <3>2, <3>3, <3>4
  <2> QED
    BY <2>4, <2>5
<1>6. q \in PoolPlaces(bm)
  <2>1. Len(s) + 1 \in 1 .. Len(t)
    BY <1>1, <1>2, SMT
  <2>2. Pool(t[Len(s) + 1], c, o, Len(s) + 1) \in PoolPlaces(bm)
    BY <1>4, <2>1, PoolMember
  <2> QED
    BY <1>2, <2>2
<1>7. ASSUME NEW p \in PoolPlaces(bl) PROVE p \in PoolPlaces(bm)
  <2>1. PICK d \in CPUs : \E r \in pool_orders : \E i \in 1 .. Len(bl[d][r]) : p = Pool(bl[d][r][i], d, r, i)
    BY PoolMember
  <2>2. PICK r \in pool_orders : \E i \in 1 .. Len(bl[d][r]) : p = Pool(bl[d][r][i], d, r, i)
    BY <2>1
  <2>3. PICK i \in 1 .. Len(bl[d][r]) : p = Pool(bl[d][r][i], d, r, i)
    BY <2>2
  <2>4. i \in 1 .. Len(bm[d][r]) /\ bm[d][r][i] = bl[d][r][i]
    <3>1. CASE d # c \/ r # o
      BY <1>4, <3>1
    <3>2. CASE d = c /\ r = o
      <4>1. i \in 1 .. Len(s)
        BY <3>2
      <4>2. i \in 1 .. Len(t) /\ t[i] = s[i]
        BY <1>2, <4>1
      <4> QED
        BY <1>4, <3>2, <4>2
    <3> QED
      BY <3>1, <3>2
  <2>5. Pool(bm[d][r][i], d, r, i) \in PoolPlaces(bm)
    BY <1>4, <2>4, PoolMember
  <2> QED
    BY <2>3, <2>4, <2>5
<1>8. q[1] = "pool" /\ q[2] = b
  BY PoolFields, ZenonT(30)
<1> HIDE DEF q
<1>9. PoolPlaces(bm) = PoolPlaces(bl) \cup {q}
  BY <1>5, <1>6, <1>7
<1> QED
  BY <1>4, <1>8, <1>9

LEMMA PoolPopped ==
  ASSUME NEW bl \in Stacks, NEW c \in CPUs, NEW o \in pool_orders, bl[c][o] # <<>>, NEW bm,
         SetStack(bl, bm, c, o, SubSeq(bl[c][o], 1, Len(bl[c][o]) - 1))
  PROVE  /\ bm \in Stacks /\ bl[c][o][Len(bl[c][o])] \in Blocks
         /\ PoolLoses(bl, bm, bl[c][o][Len(bl[c][o])])
<1> USE Zenon
<1> DEFINE s == bl[c][o]
           t == SubSeq(s, 1, Len(s) - 1)
           q == Pool(s[Len(s)], c, o, Len(s))
<1>1. s \in Seq(Blocks)
  BY SMT DEF Stacks
<1>2. /\ t \in Seq(Blocks) /\ \A i \in 1 .. Len(t) : t[i] = s[i]
      /\ 1 .. Len(s) = (1 .. Len(t)) \cup {Len(s)} /\ Len(s) \notin 1 .. Len(t)
      /\ Len(s) \in 1 .. Len(s) /\ s[Len(s)] \in Blocks
  <2>1. IsPop(s, t)
    BY <1>1, Pop
  <2> HIDE DEF t, s
  <2> QED
    BY <2>1 DEF IsPop
<1> HIDE DEF t
<1>3. SetStack(bl, bm, c, o, t)
  BY DEF t
<1>4. /\ bm \in Stacks /\ bm[c][o] = t
      /\ \A d \in CPUs : \A r \in pool_orders : d # c \/ r # o => bm[d][r] = bl[d][r]
  <2>1. IsStack(bl, bm, c, o, t)
    BY <1>2, <1>3, StackSet
  <2> QED
    BY <2>1 DEF IsStack
<1>5. q \in PoolPlaces(bl)
  BY <1>2, PoolMember
<1>6. ASSUME NEW p \in PoolPlaces(bm) PROVE p \in PoolPlaces(bl) /\ p # q
  <2>1. PICK d \in CPUs : \E r \in pool_orders : \E i \in 1 .. Len(bm[d][r]) : p = Pool(bm[d][r][i], d, r, i)
    BY <1>4, PoolMember
  <2>2. PICK r \in pool_orders : \E i \in 1 .. Len(bm[d][r]) : p = Pool(bm[d][r][i], d, r, i)
    BY <2>1
  <2>3. PICK i \in 1 .. Len(bm[d][r]) : p = Pool(bm[d][r][i], d, r, i)
    BY <2>2
  <2>4. /\ i \in 1 .. Len(bl[d][r]) /\ bm[d][r][i] = bl[d][r][i]
        /\ ~(d = c /\ r = o /\ i = Len(s))
    <3>1. CASE d # c \/ r # o
      BY <1>4, <3>1
    <3>2. CASE d = c /\ r = o
      <4>1. i \in 1 .. Len(t) /\ bm[d][r][i] = t[i]
        BY <1>4, <3>2
      <4>2. i \in 1 .. Len(s) /\ t[i] = s[i] /\ i # Len(s)
        BY <1>2, <4>1
      <4> QED
        BY <3>2, <4>1, <4>2
    <3> QED
      BY <3>1, <3>2
  <2>5. Pool(bl[d][r][i], d, r, i) \in PoolPlaces(bl)
    BY <2>4, PoolMember
  <2>6. ASSUME p = q PROVE FALSE
    <3>1. Pool(bm[d][r][i], d, r, i) = Pool(s[Len(s)], c, o, Len(s))
      BY <2>3, <2>6
    <3>2. d = c /\ r = o /\ i = Len(s)
      BY <3>1, SMT DEF Pool
    <3> QED
      BY <2>4, <3>2
  <2> QED
    BY <2>3, <2>4, <2>5, <2>6
<1>7. ASSUME NEW p \in PoolPlaces(bl), p # q PROVE p \in PoolPlaces(bm)
  <2>1. PICK d \in CPUs : \E r \in pool_orders : \E i \in 1 .. Len(bl[d][r]) : p = Pool(bl[d][r][i], d, r, i)
    BY PoolMember
  <2>2. PICK r \in pool_orders : \E i \in 1 .. Len(bl[d][r]) : p = Pool(bl[d][r][i], d, r, i)
    BY <2>1
  <2>3. PICK i \in 1 .. Len(bl[d][r]) : p = Pool(bl[d][r][i], d, r, i)
    BY <2>2
  <2>4. i \in 1 .. Len(bm[d][r]) /\ bm[d][r][i] = bl[d][r][i]
    <3>1. CASE d # c \/ r # o
      BY <1>4, <3>1
    <3>2. CASE d = c /\ r = o
      <4>1. i \in 1 .. Len(s) /\ p = Pool(s[i], c, o, i)
        BY <2>3, <3>2
      <4>2. i # Len(s)
        BY <1>7, <4>1
      <4>3. i \in 1 .. Len(t) /\ t[i] = s[i]
        BY <1>2, <4>1, <4>2
      <4> QED
        BY <1>4, <3>2, <4>3
    <3> QED
      BY <3>1, <3>2
  <2>5. Pool(bm[d][r][i], d, r, i) \in PoolPlaces(bm)
    BY <1>4, <2>4, PoolMember
  <2> QED
    BY <2>3, <2>4, <2>5
<1>8. q[1] = "pool" /\ q[2] = s[Len(s)]
  BY SMT DEF Pool
<1> HIDE DEF q
<1>9. PoolPlaces(bm) = PoolPlaces(bl) \ {q}
  BY <1>5, <1>6, <1>7
<1> QED
  BY <1>2, <1>4, <1>5, <1>8, <1>9 DEF PoolLoses

\* Nothing is in the pools after the start.
LEMMA PushPlaces ==
  ASSUME NEW bl \in Stacks, NEW c \in CPUs, NEW o \in pool_orders, NEW b \in Blocks, NEW bm, Pushes(bl, bm, c, o, b)
  PROVE  PoolGains(bl, bm, b) /\ IsStack(bl, bm, c, o, Append(bl[c][o], b))
<1>1. SetStack(bl, bm, c, o, Append(bl[c][o], b))
  BY Zenon DEF Pushes, SetStack
<1>2. \E q : q[1] = "pool" /\ q[2] = b /\ PoolPlaces(bm) = PoolPlaces(bl) \cup {q}
  BY <1>1, PoolPushed
<1>3. bl[c][o] \in Seq(Blocks)
  BY DEF Stacks
<1>4. IsStack(bl, bm, c, o, Append(bl[c][o], b))
  BY <1>1, <1>3, Push, StackSet, Zenon
<1> QED
  BY <1>2, <1>4, Zenon DEF PoolGains

LEMMA PopPlaces ==
  ASSUME NEW bl \in Stacks, NEW c \in CPUs, NEW o \in pool_orders, NEW b, NEW bm, Pops(bl, bm, c, o, b)
  PROVE  PoolLoses(bl, bm, b) /\ b \in Blocks /\ IsStack(bl, bm, c, o, SubSeq(bl[c][o], 1, Len(bl[c][o]) - 1))
<1> USE Zenon
<1>1. /\ SetStack(bl, bm, c, o, SubSeq(bl[c][o], 1, Len(bl[c][o]) - 1))
      /\ bl[c][o] # <<>> /\ b = bl[c][o][Len(bl[c][o])]
  BY DEF Pops, SetStack
<1>2. /\ bl[c][o][Len(bl[c][o])] \in Blocks
      /\ PoolLoses(bl, bm, bl[c][o][Len(bl[c][o])])
  BY <1>1, PoolPopped
<1>3. bl[c][o] \in Seq(Blocks)
  BY SMT DEF Stacks
<1> DEFINE t == SubSeq(bl[c][o], 1, Len(bl[c][o]) - 1)
<1>4. IsPop(bl[c][o], t)
  BY <1>1, <1>3, Pop
<1>5. t \in Seq(Blocks)
  BY <1>4 DEF IsPop
<1>6. IsStack(bl, bm, c, o, t)
  BY <1>1, <1>5, StackSet
<1> QED
  BY <1>1, <1>2, <1>6

LEMMA PoolNothing ==
  ASSUME NEW bl \in Stacks, \A c \in CPUs : \A o \in pool_orders : bl[c][o] = <<>>
  PROVE  PoolPlaces(bl) = {}
<1> SUFFICES ASSUME NEW p \in PoolPlaces(bl) PROVE FALSE
  BY Zenon
<1>1. PICK d \in CPUs : \E r \in pool_orders : \E i \in 1 .. Len(bl[d][r]) : p = Pool(bl[d][r][i], d, r, i)
  BY PoolMember, Zenon
<1>2. PICK r \in pool_orders : \E i \in 1 .. Len(bl[d][r]) : p = Pool(bl[d][r][i], d, r, i)
  BY <1>1, Zenon
<1>3. Len(bl[d][r]) = 0
  BY <1>2
<1> QED
  BY <1>2, <1>3

-----------------------------------------------------------------------------
(* Flushes and callers.                                                    *)

Flush(b, c) == <<"flush", b, c>>
FlushPlaces(cl) == {<<"flush", cl[c].block, c>> : c \in {d \in CPUs : cl[d].pc = "flush"}}

Held(h) == <<"held", h.block, h>>
HeldPlaces(hs) == {<<"held", h.block, h>> : h \in hs}

LEMMA FlushMember ==
  ASSUME NEW cl
  PROVE  /\ \A p \in FlushPlaces(cl) : \E c \in CPUs : cl[c].pc = "flush" /\ p = Flush(cl[c].block, c)
         /\ \A c \in CPUs : cl[c].pc = "flush" => Flush(cl[c].block, c) \in FlushPlaces(cl)
BY DEF FlushPlaces, Flush

LEMMA FlushFields ==
  ASSUME NEW b, NEW c
  PROVE  Flush(b, c)[1] = "flush" /\ Flush(b, c)[2] = b
BY DEF Flush

\* What one CPU does is replaced.
IsCall(cl, cm, c, v) == cm[c] = v /\ \A d \in CPUs : d # c => cm[d] = cl[d]

FlushGains(cl, cm, b) == \E q : q[1] = "flush" /\ q[2] = b /\ FlushPlaces(cm) = FlushPlaces(cl) \cup {q}
FlushLoses(cl, cm, b) ==
  \E q \in FlushPlaces(cl) : q[1] = "flush" /\ q[2] = b /\ FlushPlaces(cm) = FlushPlaces(cl) \ {q}

LEMMA FlushBegins ==
  ASSUME NEW cl, NEW cm, NEW c \in CPUs, NEW v, IsCall(cl, cm, c, v), cl[c].pc # "flush", v.pc = "flush"
  PROVE  FlushGains(cl, cm, v.block)
<1> USE Zenon
<1>1. ASSUME NEW p \in FlushPlaces(cm) PROVE p \in FlushPlaces(cl) \cup {Flush(v.block, c)}
  <2>1. PICK d \in CPUs : cm[d].pc = "flush" /\ p = Flush(cm[d].block, d)
    BY FlushMember
  <2>2. CASE d = c
    BY <2>1, <2>2 DEF IsCall
  <2>3. CASE d # c
    <3>1. cl[d].pc = "flush" /\ p = Flush(cl[d].block, d)
      BY <2>1, <2>3 DEF IsCall
    <3> QED
      BY <3>1, FlushMember
  <2> QED
    BY <2>2, <2>3, SMT
<1>2. ASSUME NEW p \in FlushPlaces(cl) PROVE p \in FlushPlaces(cm)
  <2>1. PICK d \in CPUs : cl[d].pc = "flush" /\ p = Flush(cl[d].block, d)
    BY FlushMember
  <2>2. cm[d] = cl[d]
    BY <2>1 DEF IsCall
  <2>3. cm[d].pc = "flush" /\ p = Flush(cm[d].block, d)
    BY <2>1, <2>2
  <2> QED
    BY <2>3, FlushMember
<1>3. Flush(v.block, c) \in FlushPlaces(cm)
  <2>1. cm[c].pc = "flush" /\ cm[c].block = v.block
    BY DEF IsCall
  <2>2. Flush(cm[c].block, c) \in FlushPlaces(cm)
    BY <2>1, FlushMember
  <2> QED
    BY <2>1, <2>2
<1>4. FlushPlaces(cm) = FlushPlaces(cl) \cup {Flush(v.block, c)}
  BY <1>1, <1>2, <1>3
<1> QED
  BY <1>4, FlushFields DEF FlushGains

LEMMA FlushEnds ==
  ASSUME NEW cl, NEW cm, NEW c \in CPUs, NEW v, IsCall(cl, cm, c, v), cl[c].pc = "flush", v.pc # "flush"
  PROVE  FlushLoses(cl, cm, cl[c].block)
<1> USE Zenon
<1>1. Flush(cl[c].block, c) \in FlushPlaces(cl)
  BY FlushMember
<1>2. ASSUME NEW p \in FlushPlaces(cm) PROVE p \in FlushPlaces(cl) /\ p # Flush(cl[c].block, c)
  <2>1. PICK d \in CPUs : cm[d].pc = "flush" /\ p = Flush(cm[d].block, d)
    BY FlushMember
  <2>2. d # c
    BY <2>1 DEF IsCall
  <2>3. cl[d].pc = "flush" /\ p = Flush(cl[d].block, d)
    BY <2>1, <2>2 DEF IsCall
  <2>4. p # Flush(cl[c].block, c)
    BY <2>2, <2>3, SMT DEF Flush
  <2> QED
    BY <2>3, <2>4, FlushMember
<1>3. ASSUME NEW p \in FlushPlaces(cl), p # Flush(cl[c].block, c) PROVE p \in FlushPlaces(cm)
  <2>1. PICK d \in CPUs : cl[d].pc = "flush" /\ p = Flush(cl[d].block, d)
    BY FlushMember
  <2>2. d # c
    BY <1>3, <2>1
  <2>3. cm[d] = cl[d]
    BY <2>2 DEF IsCall
  <2>4. cm[d].pc = "flush" /\ p = Flush(cm[d].block, d)
    BY <2>1, <2>3
  <2> QED
    BY <2>4, FlushMember
<1>4. FlushPlaces(cm) = FlushPlaces(cl) \ {Flush(cl[c].block, c)}
  BY <1>1, <1>2, <1>3
<1> QED
  BY <1>1, <1>4, FlushFields DEF FlushLoses

\* A step of a CPU that neither begins nor ends a flush.
LEMMA FlushSame ==
  ASSUME NEW cl, NEW cm, NEW c \in CPUs, NEW v, IsCall(cl, cm, c, v),
         \/ cl[c].pc # "flush" /\ v.pc # "flush"
         \/ cl[c].pc = "flush" /\ v.pc = "flush" /\ v.block = cl[c].block
  PROVE  FlushPlaces(cm) = FlushPlaces(cl)
<1> USE Zenon
<1>1. \A d \in CPUs : (cm[d].pc = "flush" <=> cl[d].pc = "flush") /\ (cl[d].pc = "flush" => cm[d].block = cl[d].block)
  BY DEF IsCall
<1>2. ASSUME NEW p \in FlushPlaces(cm) PROVE p \in FlushPlaces(cl)
  <2>1. PICK d \in CPUs : cm[d].pc = "flush" /\ p = Flush(cm[d].block, d)
    BY FlushMember
  <2>2. cl[d].pc = "flush" /\ p = Flush(cl[d].block, d)
    BY <1>1, <2>1
  <2> QED
    BY <2>2, FlushMember
<1>3. ASSUME NEW p \in FlushPlaces(cl) PROVE p \in FlushPlaces(cm)
  <2>1. PICK d \in CPUs : cl[d].pc = "flush" /\ p = Flush(cl[d].block, d)
    BY FlushMember
  <2>2. cm[d].pc = "flush" /\ p = Flush(cm[d].block, d)
    BY <1>1, <2>1
  <2> QED
    BY <2>2, FlushMember
<1> QED
  BY <1>2, <1>3

LEMMA HeldMember ==
  ASSUME NEW hs
  PROVE  /\ \A p \in HeldPlaces(hs) : \E h \in hs : p = Held(h)
         /\ \A h \in hs : Held(h) \in HeldPlaces(hs)
BY Zenon DEF HeldPlaces, Held

LEMMA HeldFields ==
  ASSUME NEW h
  PROVE  Held(h)[1] = "held" /\ Held(h)[2] = h.block /\ \A g : Held(h) = Held(g) => h = g
BY DEF Held

LEMMA HeldChanges ==
  ASSUME NEW hs, NEW h
  PROVE  /\ HeldPlaces(hs \cup {h}) = HeldPlaces(hs) \cup {Held(h)}
         /\ HeldPlaces(hs \ {h}) = HeldPlaces(hs) \ {Held(h)}
<1> USE Zenon
<1>1. HeldPlaces(hs \cup {h}) = HeldPlaces(hs) \cup {Held(h)}
  BY DEF HeldPlaces, Held
<1>2. ASSUME NEW p \in HeldPlaces(hs \ {h}) PROVE p \in HeldPlaces(hs) \ {Held(h)}
  <2>1. PICK g \in hs \ {h} : p = Held(g)
    BY HeldMember
  <2>2. Held(g) # Held(h) /\ Held(g) \in HeldPlaces(hs)
    BY HeldFields, HeldMember
  <2> QED
    BY <2>1, <2>2
<1>3. ASSUME NEW p \in HeldPlaces(hs) \ {Held(h)} PROVE p \in HeldPlaces(hs \ {h})
  <2>1. PICK g \in hs : p = Held(g)
    BY HeldMember
  <2>2. g \in hs \ {h}
    BY <2>1
  <2> QED
    BY <2>1, <2>2, HeldMember
<1> QED
  BY <1>1, <1>2, <1>3

\* Everything that is not free; S are the places of the slab allocator.
Rest(bl, cl, hs, S) == (PoolPlaces(bl) \cup FlushPlaces(cl)) \cup (HeldPlaces(hs) \cup S)
IsSlab(S) == \A p \in S : p[1] = "slab"

LEMMA RestTags ==
  ASSUME NEW bl \in Stacks, NEW cl, NEW hs, NEW S, IsSlab(S)
  PROVE  /\ \A p \in PoolPlaces(bl) : p[1] = "pool"
         /\ \A p \in FlushPlaces(cl) : p[1] = "flush"
         /\ \A p \in HeldPlaces(hs) : p[1] = "held"
         /\ \A p \in S : p[1] = "slab"
         /\ Taken(Rest(bl, cl, hs, S))
<1> USE Zenon
<1>1. ASSUME NEW p \in PoolPlaces(bl) PROVE p[1] = "pool"
  <2>1. PICK d \in CPUs : \E r \in pool_orders : \E i \in 1 .. Len(bl[d][r]) : p = Pool(bl[d][r][i], d, r, i)
    BY PoolMember
  <2>2. PICK r \in pool_orders : \E i \in 1 .. Len(bl[d][r]) : p = Pool(bl[d][r][i], d, r, i)
    BY <2>1
  <2>3. PICK i \in 1 .. Len(bl[d][r]) : p = Pool(bl[d][r][i], d, r, i)
    BY <2>2
  <2> QED
    BY <2>3, SMT DEF Pool
<1>2. ASSUME NEW p \in FlushPlaces(cl) PROVE p[1] = "flush"
  <2>1. PICK c \in CPUs : p = Flush(cl[c].block, c)
    BY FlushMember
  <2> QED
    BY <2>1, FlushFields
<1>3. ASSUME NEW p \in HeldPlaces(hs) PROVE p[1] = "held"
  <2>1. PICK h \in hs : p = Held(h)
    BY HeldMember
  <2> QED
    BY <2>1, HeldFields
<1>4. \A p \in S : p[1] = "slab"
  BY DEF IsSlab
<1>5. Taken(Rest(bl, cl, hs, S))
  BY <1>1, <1>2, <1>3, <1>4, SMT DEF Taken, Rest
<1> QED
  BY <1>1, <1>2, <1>3, <1>4, <1>5

\* The place p is gone.
Drops(R, p, T) == T = R \ {p}

LEMMA DropPool ==
  ASSUME NEW bl \in Stacks, NEW cl, NEW hs, NEW S, IsSlab(S), NEW p, p[1] = "pool", NEW bm,
         Drops(PoolPlaces(bl), p, PoolPlaces(bm))
  PROVE  Drops(Rest(bl, cl, hs, S), p, Rest(bm, cl, hs, S))
<1>1. /\ \A r \in PoolPlaces(bl) : r[1] = "pool"
      /\ \A r \in FlushPlaces(cl) : r[1] = "flush"
      /\ \A r \in HeldPlaces(hs) : r[1] = "held"
      /\ \A r \in S : r[1] = "slab"
  BY RestTags, Zenon
<1>2. "pool" # "flush" /\ "pool" # "held" /\ "pool" # "slab" /\ "flush" # "held" /\ "flush" # "slab" /\ "held" # "slab"
  OBVIOUS
<1>3. p \notin FlushPlaces(cl) /\ p \notin HeldPlaces(hs) /\ p \notin S
  BY <1>1, <1>2, Zenon
<1> QED
  BY <1>3, Zenon DEF Rest, Drops

LEMMA DropFlush ==
  ASSUME NEW bl \in Stacks, NEW cl, NEW hs, NEW S, IsSlab(S), NEW p, p[1] = "flush", NEW cm,
         Drops(FlushPlaces(cl), p, FlushPlaces(cm))
  PROVE  Drops(Rest(bl, cl, hs, S), p, Rest(bl, cm, hs, S))
<1>1. /\ \A r \in PoolPlaces(bl) : r[1] = "pool"
      /\ \A r \in FlushPlaces(cl) : r[1] = "flush"
      /\ \A r \in HeldPlaces(hs) : r[1] = "held"
      /\ \A r \in S : r[1] = "slab"
  BY RestTags, Zenon
<1>2. "pool" # "flush" /\ "pool" # "held" /\ "pool" # "slab" /\ "flush" # "held" /\ "flush" # "slab" /\ "held" # "slab"
  OBVIOUS
<1>3. p \notin PoolPlaces(bl) /\ p \notin HeldPlaces(hs) /\ p \notin S
  BY <1>1, <1>2, Zenon
<1> QED
  BY <1>3, Zenon DEF Rest, Drops

LEMMA DropHeld ==
  ASSUME NEW bl \in Stacks, NEW cl, NEW hs, NEW S, IsSlab(S), NEW p, p[1] = "held", NEW gs,
         Drops(HeldPlaces(hs), p, HeldPlaces(gs))
  PROVE  Drops(Rest(bl, cl, hs, S), p, Rest(bl, cl, gs, S))
<1>1. /\ \A r \in PoolPlaces(bl) : r[1] = "pool"
      /\ \A r \in FlushPlaces(cl) : r[1] = "flush"
      /\ \A r \in HeldPlaces(hs) : r[1] = "held"
      /\ \A r \in S : r[1] = "slab"
  BY RestTags, Zenon
<1>2. "pool" # "flush" /\ "pool" # "held" /\ "pool" # "slab" /\ "flush" # "held" /\ "flush" # "slab" /\ "held" # "slab"
  OBVIOUS
<1>3. p \notin PoolPlaces(bl) /\ p \notin FlushPlaces(cl) /\ p \notin S
  BY <1>1, <1>2, Zenon
<1> QED
  BY <1>3, Zenon DEF Rest, Drops

\* A block goes from one place to another.
LEMMA MoveTaken ==
  ASSUME NEW mo, NEW fa, NEW R, Taken(R), Divided(FreePlaces(fa) \cup R, mo), NEW p \in R, NEW q, q[2] = p[2]
  PROVE  Divided(FreePlaces(fa) \cup ((R \ {p}) \cup {q}), mo)
<1>1. p \notin FreePlaces(fa)
  <2> SUFFICES ASSUME p \in FreePlaces(fa) PROVE FALSE
    OBVIOUS
  <2>1. PICK o \in Orders : \E i \in fa[o] : p = Free(o, i)
    BY FreeMember, Zenon
  <2> QED
    BY <2>1, FreeFields, Zenon DEF Taken
<1> DEFINE P == FreePlaces(fa) \cup R
           Q == FreePlaces(fa) \cup ((R \ {p}) \cup {q})
<1>2. /\ p \in P /\ q \in Q /\ Divided(P, mo)
      /\ \A r \in P : r = p \/ r \in Q
      /\ \A r \in Q : r = q \/ (r \in P /\ r # p)
  BY <1>1, Zenon
<1> HIDE DEF P, Q
<1>3. Divided(Q, mo)
  BY <1>2, Move, Zenon
<1> QED
  BY <1>3 DEF Q

-----------------------------------------------------------------------------
(* Sizes and orders.                                                       *)

LEMMA MinimumOrder ==
  ASSUME NEW size \in Nat
  PROVE  /\ get_minimum_order(size) \in Orders
         /\ \/ size <= BUDDY_BLOCK_SIZE(get_minimum_order(size))
            \/ size > BUDDY_BLOCK_SIZE(MAX_ORDER)
<1> DEFINE fits == {o \in Orders : BUDDY_BLOCK_SIZE(o) >= size}
           least == Min(fits)
<1>1. MAX_ORDER \in Orders
  BY Bounds DEF Orders
<1>2. \A o \in Orders : BUDDY_BLOCK_SIZE(o) \in Nat
  <2>1. \A o \in Orders : 2^o \in Nat
    BY Power DEF Orders
  <2> QED
    BY <2>1, Bounds, ProductsPositive DEF BUDDY_BLOCK_SIZE
<1>3. get_minimum_order(size) = IF fits = {} THEN MAX_ORDER ELSE least
  BY Zenon DEF get_minimum_order
<1>4. CASE fits = {}
  <2>1. ~(BUDDY_BLOCK_SIZE(MAX_ORDER) >= size)
    BY <1>1, <1>4, Zenon
  <2>2. size > BUDDY_BLOCK_SIZE(MAX_ORDER)
    BY <1>1, <1>2, <2>1
  <2> QED
    BY <1>1, <1>3, <1>4, <2>2, Zenon
<1>5. CASE fits # {}
  <2>1. fits \in SUBSET Nat
    BY Bounds DEF Orders
  <2>2. least \in fits
    BY <1>5, <2>1, LeastNumber, Zenon
  <2> HIDE DEF least
  <2>3. least \in Orders /\ BUDDY_BLOCK_SIZE(least) >= size
    BY <2>2, Zenon
  <2>4. size <= BUDDY_BLOCK_SIZE(least)
    BY <1>2, <2>3
  <2> HIDE DEF fits
  <2> QED
    BY <1>3, <1>5, <2>3, <2>4, Zenon
<1> QED
  BY <1>4, <1>5

LEMMA OrderOfBlock ==
  ASSUME NEW k \in Orders
  PROVE  BUDDY_BLOCK_SIZE(k) \in Nat /\ get_minimum_order(BUDDY_BLOCK_SIZE(k)) = k
<1> DEFINE size == BUDDY_BLOCK_SIZE(k)
           fits == {o \in Orders : BUDDY_BLOCK_SIZE(o) >= size}
           least == Min(fits)
<1>1. \A o \in Orders : 2^o \in Nat /\ 2^o >= 1 /\ o \in Nat
  BY Power, Bounds DEF Orders
<1>2. \A o \in Orders : BUDDY_BLOCK_SIZE(o) \in Nat
  BY <1>1, Bounds, ProductsPositive DEF BUDDY_BLOCK_SIZE
<1>3. k \in fits
  BY <1>2
<1>4. fits \in SUBSET Nat /\ fits # {}
  BY <1>1, <1>3
<1>5. least \in fits /\ \A y \in fits : least <= y
  BY <1>4, LeastNumber, Zenon
<1> HIDE DEF least
<1>6. least \in Orders /\ BUDDY_BLOCK_SIZE(least) >= size /\ least <= k
  BY <1>3, <1>5, Zenon
<1>7. ASSUME least < k PROVE FALSE
  <2>1. 2 * 2^least <= 2^k
    <3>1. k \in 0 .. MAX_ORDER /\ least \in 0 .. k
      BY <1>1, <1>6 DEF Orders
    <3> QED
      BY <1>7, <3>1, PowerMonotonic
  <2>2. 2^least < 2^k
    BY <1>1, <1>6, <2>1
  <2>3. \A a, b, u \in Nat : u >= 1 /\ a < b => u * a < u * b
    OBVIOUS
  <2>4. UNIT * 2^least < UNIT * 2^k
    BY <1>1, <1>6, <2>2, <2>3, Bounds
  <2> QED
    BY <1>2, <1>6, <2>4 DEF BUDDY_BLOCK_SIZE
<1>8. least = k
  BY <1>1, <1>6, <1>7
<1>9. get_minimum_order(size) = IF fits = {} THEN MAX_ORDER ELSE least
  BY Zenon DEF get_minimum_order, least
<1> QED
  BY <1>2, <1>4, <1>8, <1>9, Zenon

-----------------------------------------------------------------------------
(* The inductive invariant.                                                *)

\* What kmalloc returns a block for.
Fits(b, size) ==
  \/ size + HEADER <= BUDDY_BLOCK_SIZE(b[1])
  \/ size <= BUDDY_BLOCK_SIZE(b[1]) /\ b[1] \in pool_orders
  \/ size + HEADER > BUDDY_BLOCK_SIZE(MAX_ORDER)
HeldFit(hs) == \A h \in hs : Fits(h.block, h.size)

\* A pool has blocks of its order, and none before cpu_pool_init.
StackSound(s, o, ini) ==
  /\ Len(s) <= CACHE_SIZE
  /\ \A i \in 1 .. Len(s) : s[i][1] = o
  /\ ini \/ s = <<>>

Calls == [pc : {"idle", "pool", "refill", "refilled", "direct", "flush"}, size : Nat, order : pool_orders,
          n : Nat, block : Blocks \cup {NoBlock}]

\* A call that uses a pool asks for no more than its blocks have; a flush has removed as many
\* blocks from the full pool as it has counted.
CallSound(v, ini, s) ==
  /\ v.pc \in {"pool", "refill", "refilled"} => v.size <= BUDDY_BLOCK_SIZE(v.order)
  /\ v.pc \in {"refill", "refilled", "flush"} => ini
  /\ v.pc = "flush" => v.n <= CACHE_SIZE \div 2 /\ Len(s) = CACHE_SIZE - v.n /\ v.block[1] = v.order

\* The allocator's state; S are the places of the slab pages.
Sound(mo, fa, fs, ini, bl, cl, hs, S) ==
  /\ ini \in [CPUs -> BOOLEAN] /\ bl \in Stacks /\ cl \in [CPUs -> Calls]
  /\ \A c \in CPUs : \A o \in pool_orders : StackSound(bl[c][o], o, ini[c])
  /\ \A c \in CPUs : CallSound(cl[c], ini[c], bl[c][cl[c].order])
  /\ HeldFit(hs)
  /\ FreeSound(fa, fs, mo)
  /\ Divided(FreePlaces(fa) \cup Rest(bl, cl, hs, S), mo)

\* The call of the CPU c becomes v, and its pool of the order o becomes s.
Changed(ini, bl, cl, c, v, cm, o, s, bm) ==
  /\ v \in Calls /\ cm \in [CPUs -> Calls] /\ IsCall(cl, cm, c, v)
  /\ o \in pool_orders /\ IsStack(bl, bm, c, o, s) /\ StackSound(s, o, ini[c])
  /\ CallSound(v, ini[c], bm[c][v.order])

LEMMA SoundStep ==
  ASSUME NEW mo, NEW fa, NEW fs, NEW ini, NEW bl, NEW cl, NEW hs, NEW S, Sound(mo, fa, fs, ini, bl, cl, hs, S),
         NEW c \in CPUs, NEW v, NEW cm, NEW o, NEW s, NEW bm, Changed(ini, bl, cl, c, v, cm, o, s, bm),
         NEW gh, HeldFit(gh), NEW ga, NEW gs, FreeSound(ga, gs, mo),
         Divided(FreePlaces(ga) \cup Rest(bm, cm, gh, S), mo)
  PROVE  Sound(mo, ga, gs, ini, bm, cm, gh, S)
<1> USE Zenon
<1>1. /\ ini \in [CPUs -> BOOLEAN] /\ bl \in Stacks /\ cl \in [CPUs -> Calls]
      /\ \A d \in CPUs : \A q \in pool_orders : StackSound(bl[d][q], q, ini[d])
      /\ \A d \in CPUs : CallSound(cl[d], ini[d], bl[d][cl[d].order])
  BY DEF Sound
<1>2. /\ bm \in Stacks /\ bm[c][o] = s /\ cm \in [CPUs -> Calls]
      /\ \A d \in CPUs : \A q \in pool_orders : d # c \/ q # o => bm[d][q] = bl[d][q]
  BY DEF Changed, IsStack
<1>3. cm[c] = v /\ (\A d \in CPUs : d # c => cm[d] = cl[d]) /\ StackSound(s, o, ini[c]) /\ o \in pool_orders
      /\ CallSound(v, ini[c], bm[c][v.order])
  BY DEF Changed, IsCall
<1>4. ASSUME NEW d \in CPUs, NEW q \in pool_orders PROVE StackSound(bm[d][q], q, ini[d])
  <2>1. CASE d = c /\ q = o
    BY <1>2, <1>3, <2>1
  <2>2. CASE d # c \/ q # o
    BY <1>1, <1>2, <2>2
  <2> QED
    BY <2>1, <2>2
<1>5. ASSUME NEW d \in CPUs PROVE CallSound(cm[d], ini[d], bm[d][cm[d].order])
  <2>1. CASE d = c
    BY <1>3, <2>1
  <2>2. CASE d # c
    <3>1. cl[d].order \in pool_orders
      BY <1>1, SMT DEF Calls
    <3>2. bm[d][cl[d].order] = bl[d][cl[d].order] /\ cm[d] = cl[d]
      BY <1>2, <1>3, <2>2, <3>1
    <3> QED
      BY <1>1, <3>2
  <2> QED
    BY <2>1, <2>2
<1> QED
  BY <1>1, <1>2, <1>4, <1>5 DEF Sound

LEMMA SameStack ==
  ASSUME NEW bl \in Stacks, NEW c \in CPUs, NEW o \in pool_orders
  PROVE  IsStack(bl, bl, c, o, bl[c][o])
BY Zenon DEF IsStack

LEMMA SameCall ==
  ASSUME NEW cl, NEW c \in CPUs
  PROVE  IsCall(cl, cl, c, cl[c])
BY Zenon DEF IsCall

LEMMA BlockTyped ==
  ASSUME NEW mo \in 0 .. MAX_ORDER, NEW b, IsBlock(mo, b)
  PROVE  b \in Blocks
<1>1. PICK o : \E i : b = <<o, i>> /\ InRange(mo, o, i)
  BY Zenon DEF IsBlock
<1>2. PICK i : b = <<o, i>> /\ InRange(mo, o, i)
  BY <1>1, Zenon
<1>3. o \in Orders /\ i \in Nat
  BY <1>2, Bounds DEF InRange, Orders
<1> QED
  BY <1>2, <1>3 DEF Blocks

LEMMA CallSet ==
  ASSUME NEW cl \in [CPUs -> Calls], NEW c \in CPUs, NEW v \in Calls, NEW cm, cm = [cl EXCEPT ![c] = v]
  PROVE  cm \in [CPUs -> Calls] /\ IsCall(cl, cm, c, v)
<1>1. cm \in [CPUs -> Calls]
  OBVIOUS
<1>2. cm[c] = v /\ \A d \in CPUs : d # c => cm[d] = cl[d]
  OBVIOUS
<1> QED
  BY <1>1, <1>2, Zenon DEF IsCall

LEMMA IdleCall ==
  /\ Idle \in Calls /\ Idle.pc = "idle"
  /\ \A ini, s : CallSound(Idle, ini, s)
<1>1. 0 \in pool_orders
  BY DEF pool_orders
<1>2. Idle \in Calls /\ Idle.pc = "idle"
  BY <1>1 DEF Idle, Calls
<1>3. "idle" # "pool" /\ "idle" # "refill" /\ "idle" # "refilled" /\ "idle" # "flush"
  OBVIOUS
<1> HIDE DEF Idle
<1> QED
  BY <1>2, <1>3, Zenon DEF CallSound

\* The call goes on at another point, for another order.
IsGoto(v, w, pc, order, n) ==
  w \in Calls /\ w.pc = pc /\ w.order = order /\ w.n = n /\ w.size = v.size /\ w.block = v.block

LEMMA GotoCall ==
  ASSUME call \in [CPUs -> Calls], NEW c \in CPUs,
         NEW pc \in {"idle", "pool", "refill", "refilled", "direct", "flush"},
         NEW order \in pool_orders, NEW n \in Nat, Goto(c, pc, order, n)
  PROVE  /\ held' = held /\ call' \in [CPUs -> Calls]
         /\ \E v \in Calls : IsGoto(call[c], v, pc, order, n) /\ IsCall(call, call', c, v)
<1> USE Zenon
<1> DEFINE v == [call[c] EXCEPT !.pc = pc, !.order = order, !.n = n]
<1>1. call[c] \in Calls
  BY SMT
<1>2. v \in Calls /\ IsGoto(call[c], v, pc, order, n)
  BY <1>1 DEF Calls, IsGoto
<1>3. held' = held /\ call' = [call EXCEPT ![c].pc = pc, ![c].order = order, ![c].n = n]
  BY DEF Goto
<1>4. call' = [call EXCEPT ![c] = v]
  BY <1>3
<1> HIDE DEF v
<1> QED
  BY <1>2, <1>3, <1>4, CallSet

-----------------------------------------------------------------------------
(* The steps of kmalloc.                                                   *)

Now(mo, S) == Sound(mo, free_area, free_area_size, initialized, blocks, call, held, S)
After(mo, S) == Sound(mo, free_area', free_area_size', initialized', blocks', call', held', S)

LEMMA NowFacts ==
  ASSUME NEW mo, NEW S, IsSlab(S), Now(mo, S), NEW c \in CPUs
  PROVE  /\ initialized \in [CPUs -> BOOLEAN] /\ blocks \in Stacks /\ call \in [CPUs -> Calls]
         /\ \A o \in pool_orders : StackSound(blocks[c][o], o, initialized[c]) /\ blocks[c][o] \in Seq(Blocks)
         /\ CallSound(call[c], initialized[c], blocks[c][call[c].order])
         /\ call[c] \in Calls /\ call[c].order \in pool_orders /\ call[c].size \in Nat /\ call[c].n \in Nat
         /\ HeldFit(held) /\ FreeSound(free_area, free_area_size, mo)
         /\ Divided(FreePlaces(free_area) \cup Rest(blocks, call, held, S), mo)
         /\ Taken(Rest(blocks, call, held, S))
<1>1. /\ initialized \in [CPUs -> BOOLEAN] /\ blocks \in Stacks /\ call \in [CPUs -> Calls]
      /\ \A o \in pool_orders : StackSound(blocks[c][o], o, initialized[c])
      /\ CallSound(call[c], initialized[c], blocks[c][call[c].order])
      /\ HeldFit(held) /\ FreeSound(free_area, free_area_size, mo)
      /\ Divided(FreePlaces(free_area) \cup Rest(blocks, call, held, S), mo)
  BY Zenon DEF Now, Sound
<1>2. \A o \in pool_orders : blocks[c][o] \in Seq(Blocks)
  BY <1>1 DEF Stacks
<1>3. call[c] \in Calls /\ call[c].order \in pool_orders /\ call[c].size \in Nat /\ call[c].n \in Nat
  BY <1>1 DEF Calls
<1>4. Taken(Rest(blocks, call, held, S))
  BY <1>1, RestTags, Zenon
<1> QED
  BY <1>1, <1>2, <1>3, <1>4, Zenon

LEMMA PoolOrders ==
  ASSUME NEW o \in pool_orders
  PROVE  o \in Orders /\ o \in Nat /\ BUDDY_BLOCK_SIZE(o) \in Nat /\ (o = 0 \/ o = 1)
<1>1. o \in Orders /\ o \in Nat /\ (o = 0 \/ o = 1)
  BY Bounds DEF pool_orders, Orders
<1> QED
  BY <1>1, OrderOfBlock

\* Return gives the caller a block that fits.
LEMMA ReturnStep ==
  ASSUME NEW mo, NEW S, IsSlab(S), Now(mo, S), NEW c \in CPUs, call[c].pc # "flush", initialized' = initialized,
         NEW block, Return(c, block), Fits(block, call[c].size),
         NEW o \in pool_orders, NEW s, IsStack(blocks, blocks', c, o, s), StackSound(s, o, initialized[c]),
         FreeSound(free_area', free_area_size', mo),
         \A q : q[1] = "held" /\ q[2] = block =>
           Divided(FreePlaces(free_area') \cup (Rest(blocks', call, held, S) \cup {q}), mo)
  PROVE  After(mo, S)
<1> USE Zenon
<1>1. /\ call \in [CPUs -> Calls] /\ HeldFit(held)
  BY NowFacts
<1> DEFINE h == [block |-> block, size |-> call[c].size]
<1>2. held' = held \cup {h} /\ call' = [call EXCEPT ![c] = Idle]
  BY DEF Return
<1>3. h.block = block /\ h.size = call[c].size
  BY SMT
<1> HIDE DEF h
<1>4. call' \in [CPUs -> Calls] /\ IsCall(call, call', c, Idle) /\ Idle \in Calls
  BY <1>1, <1>2, CallSet, IdleCall
<1>5. "idle" # "flush"
  BY SMT
<1>6. FlushPlaces(call') = FlushPlaces(call)
  BY <1>4, <1>5, FlushSame, IdleCall
<1>7. HeldPlaces(held') = HeldPlaces(held) \cup {Held(h)} /\ Held(h)[1] = "held" /\ Held(h)[2] = block
  BY <1>2, <1>3, HeldChanges, HeldFields
<1>8. Rest(blocks', call', held', S) = Rest(blocks', call, held, S) \cup {Held(h)}
  <2>1. Rest(blocks', call', held', S) = Rest(blocks', call, held', S)
    BY <1>6 DEF Rest
  <2>2. Rest(blocks', call, held', S) = Rest(blocks', call, held, S) \cup {Held(h)}
    BY <1>7 DEF Rest
  <2> QED
    BY <2>1, <2>2
<1>9. Divided(FreePlaces(free_area') \cup Rest(blocks', call', held', S), mo)
  BY <1>7, <1>8
<1>10. HeldFit(held')
  BY <1>1, <1>2, <1>3 DEF HeldFit
<1>11. CallSound(Idle, initialized[c], blocks'[c][Idle.order])
  BY IdleCall
<1>12. Changed(initialized, blocks, call, c, Idle, call', o, s, blocks')
  BY <1>4, <1>11 DEF Changed
<1>13. Sound(mo, free_area', free_area_size', initialized, blocks', call', held', S)
  BY <1>9, <1>10, <1>12, SoundStep DEF Now
<1> QED
  BY <1>13 DEF After

LEMMA AllocStep ==
  ASSUME NEW mo \in 0 .. MAX_ORDER, NEW S, IsSlab(S), Now(mo, S), NEW c \in CPUs, call[c].pc # "flush",
         UNCHANGED <<initialized, blocks>>, NEW order \in Orders, NEW block, alloc_block(order, block),
         Return(c, block), Fits(block, call[c].size)
  PROVE  After(mo, S)
<1> DEFINE R == Rest(blocks, call, held, S)
<1>1. /\ blocks \in Stacks /\ \A o \in pool_orders : StackSound(blocks[c][o], o, initialized[c])
      /\ FreeSound(free_area, free_area_size, mo) /\ Divided(FreePlaces(free_area) \cup R, mo) /\ Taken(R)
  BY NowFacts, Zenon
<1> HIDE DEF R
<1>2. ASSUME NEW q, q[1] = "held", q[2] = block
      PROVE  /\ FreeSound(free_area', free_area_size', mo)
             /\ Divided(FreePlaces(free_area') \cup (R \cup {q}), mo)
  <2>1. q[1] # "free"
    BY <1>2
  <2> QED
    BY <1>1, <1>2, <2>1, AllocSound, Zenon
<1>3. FreeSound(free_area', free_area_size', mo)
  <2> DEFINE q == <<"held", block>>
  <2>1. q[1] = "held" /\ q[2] = block
    OBVIOUS
  <2> HIDE DEF q
  <2> QED
    BY <1>2, <2>1, Zenon
<1>4. initialized' = initialized /\ blocks' = blocks
  OBVIOUS
<1>5. 0 \in pool_orders
  BY DEF pool_orders
<1>6. IsStack(blocks, blocks', c, 0, blocks[c][0]) /\ StackSound(blocks[c][0], 0, initialized[c])
  BY <1>1, <1>4, <1>5, SameStack, Zenon
<1>7. \A q : q[1] = "held" /\ q[2] = block =>
           Divided(FreePlaces(free_area') \cup (Rest(blocks', call, held, S) \cup {q}), mo)
  BY <1>2, <1>4, Zenon DEF R
<1> QED
  BY <1>3, <1>4, <1>5, <1>6, <1>7, ReturnStep, Zenon

LEMMA PopStack ==
  ASSUME NEW s \in Seq(Blocks), NEW o, NEW ini, StackSound(s, o, ini), s # <<>>
  PROVE  /\ StackSound(SubSeq(s, 1, Len(s) - 1), o, ini) /\ s[Len(s)][1] = o /\ ini
         /\ Len(SubSeq(s, 1, Len(s) - 1)) = Len(s) - 1 /\ SubSeq(s, 1, Len(s) - 1) \in Seq(Blocks)
<1> USE Zenon
<1> DEFINE t == SubSeq(s, 1, Len(s) - 1)
<1>1. IsPop(s, t)
  BY Pop
<1> HIDE DEF t
<1>2. /\ t \in Seq(Blocks) /\ Len(t) = Len(s) - 1 /\ Len(s) \in Nat /\ Len(s) >= 1
      /\ (\A i \in 1 .. Len(t) : t[i] = s[i]) /\ 1 .. Len(s) = (1 .. Len(t)) \cup {Len(s)} /\ Len(s) \in 1 .. Len(s)
  BY <1>1 DEF IsPop
<1>3. Len(s) <= CACHE_SIZE /\ (\A i \in 1 .. Len(s) : s[i][1] = o) /\ ini
  BY DEF StackSound
<1>4. Len(t) <= CACHE_SIZE
  BY <1>2, <1>3, Bounds, SMT
<1>5. \A i \in 1 .. Len(t) : t[i][1] = o
  BY <1>2, <1>3
<1>6. StackSound(t, o, ini)
  BY <1>3, <1>4, <1>5 DEF StackSound
<1> QED
  BY <1>2, <1>3, <1>6 DEF t

LEMMA PopStep ==
  ASSUME NEW mo \in 0 .. MAX_ORDER, NEW S, IsSlab(S), Now(mo, S), NEW c \in CPUs, initialized' = initialized,
         call[c].pc \in {"pool", "refill", "refilled"}, stack(c) # <<>>, PopBlock(c)
  PROVE  After(mo, S)
<1> USE Zenon
<1> DEFINE R == Rest(blocks, call, held, S)
           o == call[c].order
           s == blocks[c][o]
           t == SubSeq(s, 1, Len(s) - 1)
           b == s[Len(s)]
<1>1. /\ blocks \in Stacks /\ o \in pool_orders /\ StackSound(s, o, initialized[c]) /\ s \in Seq(Blocks)
      /\ CallSound(call[c], initialized[c], s)
      /\ FreeSound(free_area, free_area_size, mo) /\ Divided(FreePlaces(free_area) \cup R, mo) /\ Taken(R)
  BY NowFacts
<1>2. s # <<>> /\ Return(c, b) /\ Pops(blocks, blocks', c, o, b)
  BY DEF PopBlock, stack, Pops
<1>3. free_area' = free_area /\ free_area_size' = free_area_size
  BY SMT DEF PopBlock
<1>4. StackSound(t, o, initialized[c]) /\ b[1] = o /\ t \in Seq(Blocks)
  BY <1>1, <1>2, PopStack
<1>5. PICK p \in PoolPlaces(blocks) : p[1] = "pool" /\ p[2] = b /\ PoolPlaces(blocks') = PoolPlaces(blocks) \ {p}
  <2>1. PoolLoses(blocks, blocks', b)
    BY <1>1, <1>2, PopPlaces
  <2> QED
    BY <2>1 DEF PoolLoses
<1>6. IsStack(blocks, blocks', c, o, t)
  BY <1>1, <1>2, PopPlaces
<1>7. call[c].size <= BUDDY_BLOCK_SIZE(o)
  BY <1>1 DEF CallSound
<1>8. Fits(b, call[c].size)
  BY <1>1, <1>4, <1>7 DEF Fits
<1>9. call[c].pc # "flush"
  BY SMT
<1>10. p \in R /\ Rest(blocks', call, held, S) = R \ {p}
  <2>1. p \in R
    BY <1>5 DEF Rest
  <2>2. Drops(PoolPlaces(blocks), p, PoolPlaces(blocks'))
    BY <1>5 DEF Drops
  <2>3. Drops(R, p, Rest(blocks', call, held, S))
    BY <1>1, <1>5, <2>2, DropPool
  <2> QED
    BY <2>1, <2>3 DEF Drops
<1> HIDE DEF R, s, t, b, o
<1>11. ASSUME NEW q, q[1] = "held", q[2] = b
       PROVE  Divided(FreePlaces(free_area') \cup (Rest(blocks', call, held, S) \cup {q}), mo)
  <2>1. q[2] = p[2]
    BY <1>5, <1>11
  <2>2. Divided(FreePlaces(free_area) \cup ((R \ {p}) \cup {q}), mo)
    BY <1>1, <1>10, <2>1, MoveTaken
  <2> QED
    BY <1>3, <1>10, <2>2
<1>12. FreeSound(free_area', free_area_size', mo)
  BY <1>1, <1>3
<1> QED
  BY <1>1, <1>2, <1>4, <1>6, <1>8, <1>9, <1>11, <1>12, ReturnStep

LEMMA PushStack ==
  ASSUME NEW s \in Seq(Blocks), NEW o, StackSound(s, o, TRUE), NEW b \in Blocks, b[1] = o, Len(s) < CACHE_SIZE
  PROVE  StackSound(Append(s, b), o, TRUE) /\ Len(Append(s, b)) = Len(s) + 1 /\ Append(s, b) \in Seq(Blocks)
<1> USE Zenon
<1> DEFINE t == Append(s, b)
<1>1. /\ t \in Seq(Blocks) /\ Len(t) = Len(s) + 1 /\ Len(s) \in Nat
      /\ t[Len(s) + 1] = b /\ (\A i \in 1 .. Len(s) : t[i] = s[i])
      /\ 1 .. Len(s) + 1 = (1 .. Len(s)) \cup {Len(s) + 1}
  BY Push
<1>2. \A i \in 1 .. Len(s) : s[i][1] = o
  BY DEF StackSound
<1> HIDE DEF t
<1>3. Len(t) <= CACHE_SIZE
  BY <1>1, Bounds, SMT
<1>4. ASSUME NEW i \in 1 .. Len(t) PROVE t[i][1] = o
  <2>1. i \in 1 .. Len(s) \/ i = Len(s) + 1
    BY <1>1, SMT
  <2> QED
    BY <1>1, <1>2, <2>1
<1>5. StackSound(t, o, TRUE)
  BY <1>3, <1>4 DEF StackSound
<1> QED
  BY <1>1, <1>5 DEF t

\* The call goes on and nothing else changes.
LEMMA GotoStep ==
  ASSUME NEW mo, NEW S, IsSlab(S), Now(mo, S), NEW c \in CPUs,
         UNCHANGED <<initialized, free_area, free_area_size, blocks, held>>,
         call[c].pc # "flush", NEW v \in Calls, v.pc # "flush", call' \in [CPUs -> Calls], IsCall(call, call', c, v),
         v.pc \in {"pool", "refill", "refilled"} => v.size <= BUDDY_BLOCK_SIZE(v.order),
         v.pc \in {"refill", "refilled"} => initialized[c]
  PROVE  After(mo, S)
<1> USE Zenon
<1>1. /\ blocks \in Stacks /\ (\A o \in pool_orders : StackSound(blocks[c][o], o, initialized[c]))
      /\ HeldFit(held) /\ FreeSound(free_area, free_area_size, mo)
      /\ Divided(FreePlaces(free_area) \cup Rest(blocks, call, held, S), mo)
  BY NowFacts
<1>2. Rest(blocks, call', held, S) = Rest(blocks, call, held, S)
  <2>1. FlushPlaces(call') = FlushPlaces(call)
    BY FlushSame
  <2> QED
    BY <2>1 DEF Rest
<1>3. 0 \in pool_orders
  BY SMT DEF pool_orders
<1>4. IsStack(blocks, blocks, c, 0, blocks[c][0]) /\ StackSound(blocks[c][0], 0, initialized[c])
  BY <1>1, <1>3, SameStack
<1>5. CallSound(v, initialized[c], blocks[c][v.order])
  BY SMT DEF CallSound
<1>6. Divided(FreePlaces(free_area) \cup Rest(blocks, call', held, S), mo)
  BY <1>1, <1>2
<1>7. Sound(mo, free_area, free_area_size, initialized, blocks, call', held, S)
  <2>1. Changed(initialized, blocks, call, c, v, call', 0, blocks[c][0], blocks)
    BY <1>3, <1>4, <1>5 DEF Changed
  <2> QED
    BY <1>1, <1>6, <2>1, SoundStep DEF Now
<1>8. /\ initialized' = initialized /\ free_area' = free_area /\ free_area_size' = free_area_size
      /\ blocks' = blocks /\ held' = held
  BY SMT
<1> QED
  BY <1>7, <1>8 DEF After

\* One round of refill takes a block.
LEMMA RefillStep ==
  ASSUME NEW mo \in 0 .. MAX_ORDER, NEW S, IsSlab(S), Now(mo, S), NEW c \in CPUs, initialized' = initialized,
         call[c].pc = "refill", Len(stack(c)) < CACHE_SIZE, NEW block, alloc_block(call[c].order, block),
         Pushes(blocks, blocks', c, call[c].order, block), Goto(c, "refill", call[c].order, call[c].n + 1)
  PROVE  After(mo, S)
<1> USE Zenon
<1> DEFINE R == Rest(blocks, call, held, S)
           o == call[c].order
           s == blocks[c][o]
           t == Append(s, block)
<1>1. /\ blocks \in Stacks /\ o \in pool_orders /\ StackSound(s, o, initialized[c]) /\ s \in Seq(Blocks)
      /\ CallSound(call[c], initialized[c], s) /\ call[c].n \in Nat
      /\ call \in [CPUs -> Calls] /\ HeldFit(held)
      /\ FreeSound(free_area, free_area_size, mo) /\ Divided(FreePlaces(free_area) \cup R, mo) /\ Taken(R)
  BY NowFacts
<1>2. Pushes(blocks, blocks', c, o, block)
  BY SMT
<1>3. Len(s) < CACHE_SIZE
  BY SMT DEF stack
<1>4. /\ initialized[c] /\ call[c].size <= BUDDY_BLOCK_SIZE(o)
  BY <1>1 DEF CallSound
<1>5. o \in Orders
  BY <1>1, PoolOrders
<1>6. call[c].n + 1 \in Nat
  BY <1>1, Successor
<1>7. PICK v \in Calls : IsGoto(call[c], v, "refill", o, call[c].n + 1) /\ IsCall(call, call', c, v)
  <2>1. "refill" \in {"idle", "pool", "refill", "refilled", "direct", "flush"}
    BY SMT
  <2> QED
    BY <1>1, <1>6, <2>1, GotoCall
<1>8. held' = held /\ call' \in [CPUs -> Calls]
  <2>1. "refill" \in {"idle", "pool", "refill", "refilled", "direct", "flush"}
    BY SMT
  <2> QED
    BY <1>1, <1>6, <2>1, GotoCall
<1> HIDE DEF R
<1>9. ASSUME NEW q, q[1] = "pool", q[2] = block
      PROVE  /\ FreeSound(free_area', free_area_size', mo)
             /\ Divided(FreePlaces(free_area') \cup (R \cup {q}), mo)
             /\ \E i \in Nat : block = <<o, i>>
  <2>1. q[1] # "free"
    BY <1>9, SMT
  <2> QED
    BY <1>1, <1>5, <1>9, <2>1, AllocSound
<1>10. FreeSound(free_area', free_area_size', mo) /\ block \in Blocks /\ block[1] = o
  <2> DEFINE q == <<"pool", block>>
  <2>1. q[1] = "pool" /\ q[2] = block
    BY SMT
  <2> HIDE DEF q
  <2>2. FreeSound(free_area', free_area_size', mo) /\ \E i \in Nat : block = <<o, i>>
    BY <1>9, <2>1
  <2>3. PICK i \in Nat : block = <<o, i>>
    BY <2>2
  <2>4. block \in Blocks /\ block[1] = o
    BY <1>5, <2>3, SMT DEF Blocks
  <2> QED
    BY <2>2, <2>4
<1>11. PICK q : q[1] = "pool" /\ q[2] = block /\ PoolPlaces(blocks') = PoolPlaces(blocks) \cup {q}
  <2>1. PoolGains(blocks, blocks', block)
    BY <1>1, <1>2, <1>10, PushPlaces
  <2> QED
    BY <2>1 DEF PoolGains
<1>12. StackSound(t, o, initialized[c]) /\ t \in Seq(Blocks)
  <2>1. initialized[c] = TRUE
    <3>1. initialized \in [CPUs -> BOOLEAN]
      BY NowFacts
    <3> QED
      BY <1>4, <3>1, SMT
  <2> QED
    BY <1>1, <1>3, <1>10, <2>1, PushStack
<1>13. IsStack(blocks, blocks', c, o, t) /\ HeldFit(held')
  BY <1>1, <1>2, <1>8, <1>10, PushPlaces
<1>14. v.pc = "refill" /\ v.order = o /\ v.size = call[c].size
  BY <1>7 DEF IsGoto
<1>15. CallSound(v, initialized[c], blocks'[c][v.order])
  BY <1>4, <1>14, SMT DEF CallSound
<1>16. Divided(FreePlaces(free_area') \cup Rest(blocks', call', held', S), mo)
  <2>1. FlushPlaces(call') = FlushPlaces(call)
    <3>1. call[c].pc # "flush" /\ v.pc # "flush"
      BY <1>14, SMT
    <3> QED
      BY <1>7, <3>1, FlushSame
  <2>2. Rest(blocks', call', held', S) = R \cup {q}
    BY <1>8, <1>11, <2>1 DEF Rest, R
  <2> QED
    BY <1>9, <1>11, <2>2
<1> HIDE DEF t, o
<1>17. Changed(initialized, blocks, call, c, v, call', o, t, blocks')
  BY <1>1, <1>7, <1>8, <1>12, <1>13, <1>15 DEF Changed
<1>18. Sound(mo, free_area', free_area_size', initialized, blocks', call', held', S)
  BY <1>10, <1>13, <1>16, <1>17, SoundStep DEF Now
<1> QED
  BY <1>18 DEF After

\* A block of the given order straight from the buddy allocator.
Gives(c, order) ==
  \E i \in 0 .. pool - 1 : LET block == <<get_minimum_order(BUDDY_BLOCK_SIZE(order)), i>>
                           IN  buddy_alloc(BUDDY_BLOCK_SIZE(order), block) /\ Return(c, block)

LEMMA GivesStep ==
  ASSUME NEW mo \in 0 .. MAX_ORDER, NEW S, IsSlab(S), Now(mo, S), NEW c \in CPUs, call[c].pc # "flush",
         UNCHANGED <<initialized, blocks>>, NEW order \in Orders, Gives(c, order),
         \A b : b[1] = order => Fits(b, call[c].size)
  PROVE  After(mo, S)
<1> USE Zenon
<1> DEFINE size == BUDDY_BLOCK_SIZE(order)
<1>1. get_minimum_order(size) = order
  BY OrderOfBlock
<1>2. PICK i \in 0 .. pool - 1 : buddy_alloc(size, <<get_minimum_order(size), i>>) /\ Return(c, <<get_minimum_order(size), i>>)
  BY DEF Gives
<1> HIDE DEF size
<1> DEFINE b == <<order, i>>
<1>3. alloc_block(order, b) /\ Return(c, b)
  BY <1>1, <1>2 DEF buddy_alloc
<1>4. b[1] = order
  BY SMT
<1> HIDE DEF b
<1>5. Fits(b, call[c].size)
  BY <1>4
<1> QED
  BY <1>3, <1>5, AllocStep

LEMMA PoolSizes ==
  /\ BUDDY_BLOCK_SIZE(0) = UNIT /\ BUDDY_BLOCK_SIZE(1) = 2 * UNIT
  /\ UNIT <= 2 * UNIT
BY Power, Bounds DEF BUDDY_BLOCK_SIZE

LEMMA PoolFailedStep ==
  ASSUME NEW mo \in 0 .. MAX_ORDER, NEW S, IsSlab(S), Now(mo, S), NEW c \in CPUs,
         call[c].pc \in {"pool", "refilled"},
         UNCHANGED <<initialized, blocks, free_area, free_area_size>>, PoolFailed(c)
  PROVE  After(mo, S)
<1> USE Zenon
<1> DEFINE PCs == {"idle", "pool", "refill", "refilled", "direct", "flush"}
<1>1. /\ call \in [CPUs -> Calls] /\ call[c].order \in pool_orders /\ call[c].size \in Nat
      /\ CallSound(call[c], initialized[c], blocks[c][call[c].order])
  BY NowFacts
<1>2. 1 \in pool_orders /\ 0 \in Nat /\ "pool" \in PCs /\ "direct" \in PCs
  BY SMT DEF pool_orders
<1>3. call[c].size <= BUDDY_BLOCK_SIZE(call[c].order)
  BY <1>1 DEF CallSound
<1>4. call[c].pc # "flush"
  BY SMT
<1>5. CASE call[c].order = 0
  <2>1. Goto(c, "pool", 1, 0)
    BY <1>5 DEF PoolFailed
  <2>2. held' = held /\ call' \in [CPUs -> Calls]
    BY <1>1, <1>2, <2>1, GotoCall
  <2>3. PICK v \in Calls : IsGoto(call[c], v, "pool", 1, 0) /\ IsCall(call, call', c, v)
    BY <1>1, <1>2, <2>1, GotoCall
  <2>4. v.pc = "pool" /\ v.order = 1 /\ v.size = call[c].size
    BY <2>3 DEF IsGoto
  <2>5. v.size <= BUDDY_BLOCK_SIZE(v.order)
    BY <1>1, <1>3, <1>5, <2>4, PoolSizes, Bounds, SMT
  <2>6. v.pc # "flush" /\ v.pc \notin {"refill", "refilled"}
    BY <2>4, SMTT(20)
  <2> QED
    BY <1>4, <2>2, <2>3, <2>5, <2>6, GotoStep, SMT
<1>6. CASE call[c].order # 0
  <2>1. Goto(c, "direct", 1, 0)
    BY <1>6 DEF PoolFailed
  <2>2. held' = held /\ call' \in [CPUs -> Calls]
    BY <1>1, <1>2, <2>1, GotoCall
  <2>3. PICK v \in Calls : IsGoto(call[c], v, "direct", 1, 0) /\ IsCall(call, call', c, v)
    BY <1>1, <1>2, <2>1, GotoCall
  <2>4. v.pc = "direct"
    BY <2>3 DEF IsGoto
  <2>6. v.pc # "flush" /\ v.pc \notin {"pool", "refill", "refilled"} /\ v.pc \notin {"refill", "refilled"}
    BY <2>4, SMT
  <2> QED
    BY <1>4, <2>2, <2>3, <2>6, GotoStep, SMT
<1> QED
  BY <1>5, <1>6

\* The pools have no block: cpu_pool_alloc asks the allocator for one.
LEMMA PoolDirectStep ==
  ASSUME NEW mo \in 0 .. MAX_ORDER, NEW S, IsSlab(S), Now(mo, S), NEW c \in CPUs,
         call[c].pc \in {"pool", "refilled"}, UNCHANGED <<initialized, blocks>>,
         FromBuddy(c, BUDDY_BLOCK_SIZE(call[c].order), PoolFailed(c))
  PROVE  After(mo, S)
<1> USE Zenon
<1>1. /\ call[c].order \in pool_orders
      /\ CallSound(call[c], initialized[c], blocks[c][call[c].order])
  BY NowFacts
<1>2. call[c].order \in Orders
  BY <1>1, PoolOrders
<1>3. call[c].size <= BUDDY_BLOCK_SIZE(call[c].order)
  BY <1>1 DEF CallSound
<1>4. call[c].pc # "flush"
  BY SMT
<1>5. \A b : b[1] = call[c].order => Fits(b, call[c].size)
  BY <1>1, <1>3 DEF Fits
<1>6. ASSUME UNCHANGED <<free_area, free_area_size>>, PoolFailed(c) PROVE After(mo, S)
  <2>1. UNCHANGED <<initialized, blocks, free_area, free_area_size>>
    BY <1>6, SMT
  <2> QED
    BY <1>6, <2>1, PoolFailedStep
<1>7. Gives(c, call[c].order) \/ (UNCHANGED <<free_area, free_area_size>> /\ PoolFailed(c))
  BY DEF FromBuddy, Gives, buddy_alloc_NULL
<1> QED
  BY <1>2, <1>4, <1>5, <1>6, <1>7, GivesStep

LEMMA cpu_pool_allocSound ==
  ASSUME NEW mo \in 0 .. MAX_ORDER, NEW S, IsSlab(S), Now(mo, S), NEW c \in CPUs, cpu_pool_alloc(c)
  PROVE  After(mo, S)
<1> USE Zenon
<1>1. call[c].pc = "pool" /\ UNCHANGED initialized
  BY DEF cpu_pool_alloc
<1>2. CASE /\ FromBuddy(c, BUDDY_BLOCK_SIZE(call[c].order), PoolFailed(c))
           /\ UNCHANGED blocks
  <2>1. call[c].pc \in {"pool", "refilled"} /\ UNCHANGED <<initialized, blocks>>
    BY <1>1, <1>2, SMT
  <2> QED
    BY <1>2, <2>1, PoolDirectStep
<1>3. CASE stack(c) # <<>> /\ PopBlock(c)
  <2>1. call[c].pc \in {"pool", "refill", "refilled"}
    BY <1>1, SMT
  <2> QED
    BY <1>1, <1>3, <2>1, PopStep
<1>4. CASE /\ initialized[c] /\ Goto(c, "refill", call[c].order, 0)
           /\ UNCHANGED <<free_area, free_area_size, blocks>>
  <2>1. /\ call \in [CPUs -> Calls] /\ call[c].order \in pool_orders
        /\ CallSound(call[c], initialized[c], blocks[c][call[c].order])
    BY NowFacts
  <2>2. 0 \in Nat /\ "refill" \in {"idle", "pool", "refill", "refilled", "direct", "flush"}
    BY SMT
  <2>3. held' = held /\ call' \in [CPUs -> Calls]
    BY <1>4, <2>1, <2>2, GotoCall
  <2>4. PICK v \in Calls : IsGoto(call[c], v, "refill", call[c].order, 0) /\ IsCall(call, call', c, v)
    BY <1>4, <2>1, <2>2, GotoCall
  <2>5. v.pc = "refill" /\ v.order = call[c].order /\ v.size = call[c].size
    BY <2>4 DEF IsGoto
  <2>6. call[c].size <= BUDDY_BLOCK_SIZE(call[c].order)
    BY <1>1, <2>1, SMT DEF CallSound
  <2>7. v.pc # "flush" /\ call[c].pc # "flush" /\ v.size <= BUDDY_BLOCK_SIZE(v.order)
    BY <1>1, <2>5, <2>6, SMTT(20)
  <2>8. UNCHANGED <<initialized, free_area, free_area_size, blocks, held>>
    BY <1>1, <1>4, <2>3, SMT
  <2> QED
    BY <1>4, <2>3, <2>4, <2>7, <2>8, GotoStep
<1> QED
  BY <1>2, <1>3, <1>4 DEF cpu_pool_alloc

LEMMA refillSound ==
  ASSUME NEW mo \in 0 .. MAX_ORDER, NEW S, IsSlab(S), Now(mo, S), NEW c \in CPUs, refill(c)
  PROVE  After(mo, S)
<1> USE Zenon
<1> DEFINE o == call[c].order
<1>1. call[c].pc = "refill" /\ initialized' = initialized
  BY DEF refill
<1>2. /\ call \in [CPUs -> Calls] /\ o \in pool_orders
      /\ CallSound(call[c], initialized[c], blocks[c][o])
  BY NowFacts
<1>3. initialized[c] /\ call[c].size <= BUDDY_BLOCK_SIZE(o)
  BY <1>1, <1>2, SMT DEF CallSound
<1>4. o \in Orders /\ get_minimum_order(BUDDY_BLOCK_SIZE(o)) = o
  BY <1>2, PoolOrders, OrderOfBlock
<1>5. \/ /\ Len(stack(c)) < CACHE_SIZE
         /\ \E i \in 0 .. pool - 1 : /\ buddy_alloc(BUDDY_BLOCK_SIZE(o), <<o, i>>)
                                     /\ blocks' = [blocks EXCEPT ![c][o] = Append(@, <<o, i>>)]
                                     /\ Goto(c, "refill", o, call[c].n + 1)
      \/ /\ Goto(c, "refilled", o, 0)
         /\ UNCHANGED <<free_area, free_area_size, blocks>>
  BY DEF refill, buddy_alloc_NULL
<1>6. CASE /\ Len(stack(c)) < CACHE_SIZE
           /\ \E i \in 0 .. pool - 1 : /\ buddy_alloc(BUDDY_BLOCK_SIZE(o), <<o, i>>)
                                       /\ blocks' = [blocks EXCEPT ![c][o] = Append(@, <<o, i>>)]
                                       /\ Goto(c, "refill", o, call[c].n + 1)
  <2>1. PICK i \in 0 .. pool - 1 : /\ buddy_alloc(BUDDY_BLOCK_SIZE(o), <<o, i>>)
                                   /\ blocks' = [blocks EXCEPT ![c][o] = Append(@, <<o, i>>)]
                                   /\ Goto(c, "refill", o, call[c].n + 1)
    BY <1>6
  <2> DEFINE b == <<o, i>>
  <2>2. alloc_block(o, b) /\ Pushes(blocks, blocks', c, o, b)
    BY <1>4, <2>1 DEF buddy_alloc, Pushes
  <2> HIDE DEF b
  <2> QED
    BY <1>1, <1>6, <2>1, <2>2, RefillStep
<1>7. CASE Goto(c, "refilled", o, 0) /\ UNCHANGED <<free_area, free_area_size, blocks>>
  <2>2. 0 \in Nat /\ "refilled" \in {"idle", "pool", "refill", "refilled", "direct", "flush"}
    BY SMT
  <2>3. held' = held /\ call' \in [CPUs -> Calls]
    BY <1>2, <1>7, <2>2, GotoCall
  <2>4. PICK v \in Calls : IsGoto(call[c], v, "refilled", o, 0) /\ IsCall(call, call', c, v)
    BY <1>2, <1>7, <2>2, GotoCall
  <2>5. v.pc = "refilled" /\ v.order = o /\ v.size = call[c].size
    BY <2>4 DEF IsGoto
  <2>7. v.pc # "flush" /\ call[c].pc # "flush" /\ v.size <= BUDDY_BLOCK_SIZE(v.order)
    BY <1>1, <1>3, <2>5, SMT
  <2>8. UNCHANGED <<initialized, free_area, free_area_size, blocks, held>>
    BY <1>1, <1>7, <2>3, SMT
  <2> QED
    BY <1>3, <2>3, <2>4, <2>7, <2>8, GotoStep
<1> QED
  BY <1>5, <1>6, <1>7

LEMMA refilledSound ==
  ASSUME NEW mo \in 0 .. MAX_ORDER, NEW S, IsSlab(S), Now(mo, S), NEW c \in CPUs, refilled(c)
  PROVE  After(mo, S)
<1>1. call[c].pc = "refilled" /\ UNCHANGED initialized
  BY Zenon DEF refilled
<1>2. CASE /\ FromBuddy(c, BUDDY_BLOCK_SIZE(call[c].order), PoolFailed(c))
           /\ UNCHANGED blocks
  <2>1. call[c].pc \in {"pool", "refilled"} /\ UNCHANGED <<initialized, blocks>>
    BY <1>1, <1>2
  <2> QED
    BY <1>2, <2>1, PoolDirectStep, Zenon
<1>3. CASE stack(c) # <<>> /\ PopBlock(c)
  <2>1. call[c].pc \in {"pool", "refill", "refilled"}
    BY <1>1
  <2> QED
    BY <1>1, <1>3, <2>1, PopStep, Zenon
<1> QED
  BY <1>2, <1>3, Zenon DEF refilled

\* The call becomes one without a block, and nothing else changes.
LEMMA CallStep ==
  ASSUME NEW mo \in 0 .. MAX_ORDER, NEW S, IsSlab(S), Now(mo, S), NEW c \in CPUs, call[c].pc # "flush",
         NEW v \in Calls, v.pc \in {"idle", "pool", "direct"}, call' = [call EXCEPT ![c] = v],
         v.pc = "pool" => v.size <= BUDDY_BLOCK_SIZE(v.order),
         UNCHANGED <<initialized, free_area, free_area_size, blocks, held>>
  PROVE  After(mo, S)
<1>1. call \in [CPUs -> Calls]
  BY NowFacts, Zenon
<1>2. call' \in [CPUs -> Calls] /\ IsCall(call, call', c, v)
  BY <1>1, CallSet, Zenon
<1>3. /\ v.pc # "flush" /\ v.pc \notin {"refill", "refilled"}
      /\ v.pc \in {"pool", "refill", "refilled"} => v.size <= BUDDY_BLOCK_SIZE(v.order)
  OBVIOUS
<1> QED
  BY <1>2, <1>3, GotoStep, Zenon

LEMMA kmalloc_directSound ==
  ASSUME NEW mo \in 0 .. MAX_ORDER, NEW S, IsSlab(S), Now(mo, S), NEW c \in CPUs, kmalloc_direct(c)
  PROVE  After(mo, S)
<1> DEFINE o == DirectOrder(call[c].size)
<1>1. call[c].pc = "direct" /\ UNCHANGED <<initialized, blocks>>
  BY DEF kmalloc_direct
<1>2. call[c].size \in Nat
  BY NowFacts, Zenon
<1>3. call[c].size + HEADER \in Nat
  BY <1>2, Bounds
<1>4. /\ o \in Orders
      /\ \/ call[c].size + HEADER <= BUDDY_BLOCK_SIZE(o)
         \/ call[c].size + HEADER > BUDDY_BLOCK_SIZE(MAX_ORDER)
  BY <1>3, MinimumOrder, Zenon DEF DirectOrder
<1>5. \/ Gives(c, o)
      \/ /\ UNCHANGED <<free_area, free_area_size, held>>
         /\ call' = [call EXCEPT ![c] = Idle]
  BY DEF kmalloc_direct, FromBuddy, Gives, buddy_alloc_NULL
<1> HIDE DEF o
<1>6. \A b : b[1] = o => Fits(b, call[c].size)
  BY <1>4, Zenon DEF Fits
<1>7. call[c].pc # "flush"
  BY <1>1
<1>8. CASE Gives(c, o)
  BY <1>1, <1>4, <1>6, <1>7, <1>8, GivesStep, Zenon
<1>9. CASE UNCHANGED <<free_area, free_area_size, held>> /\ call' = [call EXCEPT ![c] = Idle]
  <2>1. Idle.pc \in {"idle", "pool", "direct"} /\ Idle.pc # "pool" /\ Idle \in Calls
    BY IdleCall
  <2>2. UNCHANGED <<initialized, free_area, free_area_size, blocks, held>>
    BY <1>1, <1>9
  <2> QED
    BY <1>7, <1>9, <2>1, <2>2, CallStep, Zenon
<1> QED
  BY <1>5, <1>8, <1>9, Zenon

LEMMA kmallocSound ==
  ASSUME NEW mo \in 0 .. MAX_ORDER, NEW S, IsSlab(S), Now(mo, S), NEW c \in CPUs, NEW size \in SIZES, kmalloc(c, size)
  PROVE  After(mo, S)
<1> DEFINE v == [Idle EXCEPT !.size = size,
                             !.pc = IF size <= 2 * UNIT THEN "pool" ELSE "direct",
                             !.order = IF size <= UNIT THEN 0 ELSE 1]
<1>1. /\ call[c].pc = "idle" /\ call' = [call EXCEPT ![c] = v]
      /\ UNCHANGED <<initialized, free_area, free_area_size, blocks, held>>
  BY DEF kmalloc
<1>2. size \in Nat /\ UNIT \in Nat
  BY Bounds
<1>3. v.size = size /\ v.pc \in {"pool", "direct"} /\ v.pc \in {"idle", "pool", "direct"} /\ v \in Calls
  BY <1>2, IdleCall, Zenon DEF Calls, Idle, pool_orders
<1>4. v.pc = "pool" => size <= 2 * UNIT
  BY DEF Idle
<1>5. v.order = IF size <= UNIT THEN 0 ELSE 1
  BY DEF Idle
<1> HIDE DEF v
<1>6. v.pc = "pool" => v.size <= BUDDY_BLOCK_SIZE(v.order)
  <2>1. CASE size <= UNIT
    BY <1>3, <1>5, <2>1, PoolSizes
  <2>2. CASE ~(size <= UNIT)
    BY <1>3, <1>4, <1>5, <2>2, PoolSizes
  <2> QED
    BY <2>1, <2>2
<1>7. call[c].pc # "flush"
  BY <1>1
<1> QED
  BY <1>1, <1>3, <1>6, <1>7, CallStep, Zenon
=============================================================================
