------------------------------- MODULE Buddy -------------------------------
(***************************************************************************)
(* kmalloc and kfree above 1024 bytes: the buddy allocator                 *)
(* (core/kernel/mem/buddy.c), the pools of blocks every CPU keeps          *)
(* (cpu_pool.c) and the header in front of a block (allocator.c).          *)
(*                                                                         *)
(* Orders count from BUDDY_MIN_ORDER.  A block is <<order, index>>; its    *)
(* address in units of the smallest block is index * 2^order.  A bit of    *)
(* free_area_bitmap that is clear is an index in free_area.  buddy_alloc   *)
(* and buddy_free hold the lock from beginning to end, so each is one      *)
(* step; the loops of cpu_pool.c that call them are not.  The bitmaps lie   *)
(* behind the block in use.  The statistics of kmalloc are left out.       *)
(* Slab adds the requests of up to 1024 bytes and the specification.       *)
(***************************************************************************)
EXTENDS Integers, Sequences, FiniteSets, FiniteSetsExt

CONSTANTS CPUs,
          MAX_ORDER,   \* BUDDY_MAX_ORDER - BUDDY_MIN_ORDER (8)
          POOLS,       \* sizes the pool may have, in smallest blocks
          CACHE_SIZE,  \* CPU_POOL_CACHE_SIZE (16)
          UNIT,        \* BUDDY_PAGE_SIZE (4096)
          HEADER,      \* sizeof(alloc_info_t) (16)
          SIZES        \* sizes kmalloc is asked for, above 1024

ASSUME BuddyAssumption ==
    /\ IsFiniteSet(CPUs) /\ MAX_ORDER \in Nat \ {0} /\ POOLS \subseteq Nat \ {0}
    /\ CACHE_SIZE \in Nat \ {0, 1} /\ UNIT \in Nat \ {0} /\ HEADER \in Nat
    /\ SIZES \subseteq Nat \ {0}
\* What 2^k is: the provers do not know it.
ASSUME PowerAssumption ==
    \A k \in 0 .. MAX_ORDER : 2^k \in Nat \ {0} /\ 2^(k + 1) = 2 * 2^k

VARIABLES pool,            \* memory left beside the bitmaps, in smallest blocks
          free_area, free_area_size,
          initialized,     \* cpu_pool_init has run on the CPU
          blocks,          \* blocks[c][o]: the pool of CPU c for order o
          call,            \* what each CPU is doing
          held,            \* blocks kmalloc has returned and not got back, with user_size
          mistaken         \* those of them that kfree took for slab objects (Slab)

buddy_vars == <<pool, free_area, free_area_size, initialized, blocks, call, held>>

Orders == 0 .. MAX_ORDER

\* kmalloc uses the pools of the two smallest of pool_orders.
pool_orders == {0, 1}

BUDDY_BLOCK_SIZE(order) == UNIT * 2^order

NoBlock == <<>>
Idle == [pc |-> "idle", size |-> 0, order |-> 0, n |-> 0, block |-> NoBlock]

-----------------------------------------------------------------------------
(* buddy.c                                                                 *)

\* The largest order the pool has a block of; the pool is cut to a multiple
\* of that block, but max_blocks of the smaller orders stays.
max_order == Max({o \in Orders : pool \div 2^o > 0})
pool_size == (pool \div 2^max_order) * 2^max_order
max_blocks(order) == pool \div 2^order

\* Only the first block of the largest order is ever put into a free area.
buddy_init ==
    /\ pool \in POOLS
    /\ free_area = [o \in Orders |-> IF o = max_order THEN {0} ELSE {}]
    /\ free_area_size = [o \in Orders |-> IF o = max_order THEN 1 ELSE 0]

\* Mutant of get_minimum_order: the loop ends one order early.
get_minimum_order_Early(size) ==
    LET fits == {o \in Orders : BUDDY_BLOCK_SIZE(o) >= size /\ o < MAX_ORDER}
    IN  IF fits = {} THEN MAX_ORDER - 1 ELSE Min(fits)

get_minimum_order(size) ==
    LET fits == {o \in Orders : BUDDY_BLOCK_SIZE(o) >= size}
    IN  IF fits = {} THEN MAX_ORDER ELSE Min(fits)

\* Mutant of Larger: alloc_block gives up at the largest order.
Larger_BelowMax(order) == {k \in order .. MAX_ORDER - 1 : free_area_size[k] > 0}

\* The orders alloc_block can take a block from.
Larger(order) == {k \in order .. MAX_ORDER : free_area_size[k] > 0}

\* alloc_block returns NULL.
Exhausted(order) == Larger(order) # {} => free_area[Min(Larger(order))] = {}

\* Mutant of SplitCount: split_block counts both halves, and the half that
\* is taken is not subtracted.
SplitCount_Both(n) == n + 2

\* The counter of an order where a block was split and one half taken.
SplitCount(n) == n + 2 - 1

\* The first free block of the smallest order that has one is split down to
\* the order; the left half is taken every time.
alloc_block(order, block) ==
    /\ ~Exhausted(order)
    /\ LET from == Min(Larger(order))
           index == Min(free_area[from])
           left(k) == index * 2^(from - k)
       IN  /\ block = <<order, left(order)>>
           /\ free_area' = [k \in Orders |->
                 CASE k = from -> free_area[k] \ {index}
                   [] k \in order .. from - 1 -> (free_area[k] \cup {left(k) + 1}) \ {left(k)}
                   [] OTHER -> free_area[k]]
           /\ free_area_size' = [k \in Orders |->
                 CASE k = from -> free_area_size[k] - 1
                   [] k \in order .. from - 1 -> SplitCount(free_area_size[k])
                   [] OTHER -> free_area_size[k]]

\* buddy_alloc of size bytes: it returns the block, or NULL.
buddy_alloc(size, block) ==
    /\ size <= pool_size * UNIT
    /\ alloc_block(get_minimum_order(size), block)

buddy_alloc_NULL(size) ==
    /\ size > pool_size * UNIT \/ Exhausted(get_minimum_order(size))
    /\ UNCHANGED <<free_area, free_area_size>>

\* Mutant of get_buddy: the right half takes the block after it for its buddy.
get_buddy_Next(index) == index + 1

\* offset ^ BUDDY_BLOCK_SIZE(order), as an index
get_buddy(index) == IF index % 2 = 0 THEN index + 1 ELSE index - 1

\* Mutant of is_valid_block: the bound of the pool is not checked.
is_valid_block_NoBound(order, index) == index >= 0

is_valid_block(order, index) == index * 2^order < pool_size

\* An index behind max_blocks reads as a clear bit, that is, as free.
test_bit(order, index) == index < max_blocks(order) /\ index \notin free_area[order]

\* The loop of free_block goes on at order k with the block's ancestor x.
Merges(k, x) ==
    /\ k < MAX_ORDER
    /\ is_valid_block(k, get_buddy(x))
    /\ ~test_bit(k, get_buddy(x))

\* The block becomes free at its order, and as long as its buddy is free too
\* both are replaced by the block they form.  A merged block without a bit is
\* lost.
buddy_free(block) ==
    LET order == block[1]
        up(k) == block[2] \div 2^(k - order)
        lost(k) == Merges(k, up(k)) /\ up(k + 1) >= max_blocks(k + 1)
        top == Min({k \in order .. MAX_ORDER : ~Merges(k, up(k)) \/ lost(k)})
        merged(k) == k \in order .. top - 1 \/ (k = top /\ lost(k))
    IN  IF is_valid_block(order, block[2])
        THEN /\ free_area' = [k \in Orders |->
                   CASE merged(k) -> free_area[k] \ {up(k), get_buddy(up(k))}
                     [] k = top /\ ~merged(k) -> free_area[k] \cup {up(k)}
                     [] OTHER -> free_area[k]]
             /\ free_area_size' = [k \in Orders |->
                   CASE merged(k) -> free_area_size[k] + 1 - 2
                     [] k = top /\ ~merged(k) -> free_area_size[k] + 1
                     [] OTHER -> free_area_size[k]]
        ELSE UNCHANGED <<free_area, free_area_size>>

-----------------------------------------------------------------------------
(* kmalloc, with cpu_pool_alloc inlined.                                   *)

\* The block goes to the caller, its header holding order and size.
Return(c, block) ==
    /\ held' = held \cup {[block |-> block, size |-> call[c].size]}
    /\ call' = [call EXCEPT ![c] = Idle]

\* Go on at pc, for the given order.
Goto(c, pc, order, n) ==
    /\ call' = [call EXCEPT ![c].pc = pc, ![c].order = order, ![c].n = n]
    /\ UNCHANGED held

\* The order of a block for the size and its header, capped at the largest.
DirectOrder(size) == get_minimum_order(size + HEADER)

\* kmalloc tries the smaller pool, then the larger one, then the allocator.
kmalloc(c, size) ==
    /\ call[c].pc = "idle"
    /\ call' = [call EXCEPT ![c] =
         [Idle EXCEPT !.size = size,
                      !.pc = IF size <= 2 * UNIT THEN "pool" ELSE "direct",
                      !.order = IF size <= UNIT THEN 0 ELSE 1]]
    /\ UNCHANGED <<pool, free_area, free_area_size, initialized, blocks, held>>

\* cpu_pool_alloc returned NULL.
PoolFailed(c) ==
    IF call[c].order = 0 THEN Goto(c, "pool", 1, 0) ELSE Goto(c, "direct", 1, 0)

\* A block for the caller straight from the buddy allocator.
FromBuddy(c, size, failed) ==
    \/ \E i \in 0 .. pool - 1 :
         LET block == <<get_minimum_order(size), i>>
         IN  buddy_alloc(size, block) /\ Return(c, block)
    \/ buddy_alloc_NULL(size) /\ failed

\* The CPU's stack of blocks for the order of its call.
stack(c) == blocks[c][call[c].order]

PopBlock(c) ==
    /\ Return(c, stack(c)[Len(stack(c))])
    /\ blocks' = [blocks EXCEPT ![c][call[c].order] = SubSeq(@, 1, Len(@) - 1)]
    /\ UNCHANGED <<free_area, free_area_size>>

cpu_pool_alloc(c) ==
    /\ call[c].pc = "pool"
    /\ \/ /\ ~initialized[c]
          /\ FromBuddy(c, BUDDY_BLOCK_SIZE(call[c].order), PoolFailed(c))
          /\ UNCHANGED blocks
       \/ /\ initialized[c] /\ stack(c) # <<>>
          /\ PopBlock(c)
       \/ /\ initialized[c] /\ stack(c) = <<>>
          /\ Goto(c, "refill", call[c].order, 0)
          /\ UNCHANGED <<free_area, free_area_size, blocks>>
    /\ UNCHANGED <<pool, initialized>>

\* One round of the loop that refills the CPU's pool.
refill(c) ==
    /\ call[c].pc = "refill"
    /\ LET order == call[c].order
           size == BUDDY_BLOCK_SIZE(order)
       IN  \/ /\ call[c].n < CACHE_SIZE \div 2 /\ Len(stack(c)) < CACHE_SIZE
              /\ \/ \E i \in 0 .. pool - 1 :
                      /\ buddy_alloc(size, <<order, i>>)
                      /\ blocks' = [blocks EXCEPT ![c][order] = Append(@, <<order, i>>)]
                      /\ Goto(c, "refill", order, call[c].n + 1)
                 \/ /\ buddy_alloc_NULL(size)
                    /\ Goto(c, "refilled", order, 0)
                    /\ UNCHANGED blocks
           \/ /\ call[c].n >= CACHE_SIZE \div 2 \/ Len(stack(c)) >= CACHE_SIZE
              /\ Goto(c, "refilled", order, 0)
              /\ UNCHANGED <<free_area, free_area_size, blocks>>
    /\ UNCHANGED <<pool, initialized>>

refilled(c) ==
    /\ call[c].pc = "refilled"
    /\ \/ stack(c) # <<>> /\ PopBlock(c)
       \/ /\ stack(c) = <<>>
          /\ FromBuddy(c, BUDDY_BLOCK_SIZE(call[c].order), PoolFailed(c))
          /\ UNCHANGED blocks
    /\ UNCHANGED <<pool, initialized>>

\* The last resort of kmalloc, which returns NULL if that fails too.
kmalloc_direct(c) ==
    /\ call[c].pc = "direct"
    /\ FromBuddy(c, BUDDY_BLOCK_SIZE(DirectOrder(call[c].size)),
                 call' = [call EXCEPT ![c] = Idle] /\ UNCHANGED held)
    /\ UNCHANGED <<pool, initialized, blocks>>

-----------------------------------------------------------------------------
(* kfree, with cpu_pool_free inlined.                                      *)

HasRoom(c, order) == Len(blocks[c][order]) < CACHE_SIZE

\* A block that slab_owns does not claim; its order is the one in its header.
kfree(c, h) ==
    /\ call[c].pc = "idle"
    /\ held' = held \ {h}
    /\ LET order == h.block[1] IN
       \/ /\ order \notin pool_orders \/ ~initialized[c]
          /\ buddy_free(h.block)
          /\ UNCHANGED <<blocks, call>>
       \/ /\ order \in pool_orders /\ initialized[c] /\ HasRoom(c, order)
          /\ blocks' = [blocks EXCEPT ![c][order] = Append(@, h.block)]
          /\ UNCHANGED <<free_area, free_area_size, call>>
       \/ /\ order \in pool_orders /\ initialized[c] /\ ~HasRoom(c, order)
          /\ call' = [call EXCEPT ![c] =
               [Idle EXCEPT !.pc = "flush", !.order = order, !.block = h.block]]
          /\ UNCHANGED <<free_area, free_area_size, blocks>>
    /\ UNCHANGED <<pool, initialized>>

\* One round of the loop that flushes half of a full pool, or its end.
flush(c) ==
    /\ call[c].pc = "flush"
    /\ \/ /\ call[c].n < CACHE_SIZE \div 2
          /\ buddy_free(stack(c)[Len(stack(c))])
          /\ blocks' = [blocks EXCEPT ![c][call[c].order] = SubSeq(@, 1, Len(@) - 1)]
          /\ Goto(c, "flush", call[c].order, call[c].n + 1)
       \/ /\ call[c].n >= CACHE_SIZE \div 2
          /\ blocks' = [blocks EXCEPT ![c][call[c].order] = Append(@, call[c].block)]
          /\ call' = [call EXCEPT ![c] = Idle]
          /\ UNCHANGED <<free_area, free_area_size, held>>
    /\ UNCHANGED <<pool, initialized>>

\* A CPU sets its pools up while it starts, between two calls.
cpu_pool_init(c) ==
    /\ ~initialized[c] /\ call[c].pc = "idle"
    /\ initialized' = [initialized EXCEPT ![c] = TRUE]
    /\ blocks' = [blocks EXCEPT ![c] = [o \in pool_orders |-> <<>>]]
    /\ UNCHANGED <<pool, free_area, free_area_size, call, held>>

-----------------------------------------------------------------------------
BuddyInit ==
    /\ buddy_init
    /\ initialized = [c \in CPUs |-> FALSE]
    /\ blocks = [c \in CPUs |-> [o \in pool_orders |-> <<>>]]
    /\ call = [c \in CPUs |-> Idle]
    /\ held = {}

BuddyNext ==
    \E c \in CPUs :
        \/ \E size \in SIZES : kmalloc(c, size)
        \/ cpu_pool_alloc(c) \/ refill(c) \/ refilled(c) \/ kmalloc_direct(c)
        \/ \E h \in held \ mistaken : kfree(c, h)
        \/ flush(c)

-----------------------------------------------------------------------------
(* Properties.                                                             *)

\* The smallest blocks a block consists of.
Units(block) == block[2] * 2^block[1] .. (block[2] + 1) * 2^block[1] - 1

\* Every place a block can be in: a free area, a CPU's pool, a flush that is
\* going to store it, a caller.
Places ==
    (UNION {{<<"free", <<o, i>>>> : i \in free_area[o]} : o \in Orders})
    \cup (UNION {{<<"pool", blocks[x[1]][x[2]][i], x, i>> : i \in DOMAIN blocks[x[1]][x[2]]} :
                 x \in CPUs \X pool_orders})
    \cup {<<"flush", call[c].block, c>> : c \in {d \in CPUs : call[d].pc = "flush"}}
    \cup {<<"held", h.block, h>> : h \in held}

\* Every smallest block of the usable memory is in exactly one of the places.
Partitioned(places) ==
    \A u \in 0 .. pool_size - 1 :
        Cardinality({p \in places : u \in Units(p[2])}) = IF u < 2^max_order THEN 1 ELSE 0

\* A CPU's pool holds blocks of its order, and no more than its array has room for.
PoolsFit ==
    \A c \in CPUs, o \in pool_orders :
        /\ Len(blocks[c][o]) <= CACHE_SIZE
        /\ \A i \in 1 .. Len(blocks[c][o]) : blocks[c][o][i][1] = o

\* The counters alloc_block decides by agree with the bitmaps it searches.
CountsMatch == \A o \in Orders : free_area_size[o] = Cardinality(free_area[o])

\* free_block merges completely: two free buddies never stay apart.
Coalesced ==
    \A o \in 0 .. max_order - 1 : \A i \in free_area[o] : get_buddy(i) \notin free_area[o]

\* A block holds its header and the bytes it was requested for, except where
\* kmalloc ignores the header (sizes of a pool's block, less than a header
\* short) and for requests above the largest order.
RequestFits ==
    \A h \in held :
        LET room == BUDDY_BLOCK_SIZE(h.block[1])
        IN  \/ h.size + HEADER <= room
            \/ h.size <= room /\ h.block[1] \in pool_orders
            \/ h.size + HEADER > BUDDY_BLOCK_SIZE(MAX_ORDER)

\* kmalloc returns NULL only if no aligned free memory of the order it needs
\* is left in the buddy allocator, in whatever pieces: splitting reaches every
\* larger block and merging leaves none cut up.
FailsOnlyWhenFull ==
    [][\A c \in CPUs :
         call[c].pc = "direct" /\ call'[c].pc = "idle" /\ held' = held
         => LET order == DirectOrder(call[c].size)
                units == UNION {UNION {Units(<<o, i>>) : i \in free_area[o]} : o \in Orders}
            IN  \A i \in 0 .. pool - 1 : ~(Units(<<order, i>>) \subseteq units)]_buddy_vars
=============================================================================
