-------------------------------- MODULE Slab --------------------------------
(***************************************************************************)
(* The slab allocator (core/kernel/mem/slab.c) over Buddy, and with it the *)
(* whole of kmalloc and kfree: a request of up to 1024 bytes is served from*)
(* a page that is cut into objects, from the caches of the CPU once it has *)
(* set them up, before that from the global ones; and only if the slab     *)
(* allocator has no object for it like a larger one.                       *)
(*                                                                         *)
(* Small requests come from one CPU, BSP: in this kernel nothing submits   *)
(* work to the other processors, so only the boot processor calls kmalloc. *)
(* A linked list of pages is a sequence, and removing a page from it that  *)
(* is not on it changes nothing (SlabSound: this does not happen).         *)
(***************************************************************************)
EXTENDS Buddy

CONSTANTS BSP,
          GLOBAL,       \* SLAB_CPU_NONE, and the owner of the global caches
          OBJ_SIZES,    \* SLAB_OBJ_SIZES, ascending
          SLAB_HEADER   \* sizeof(slab_page_t)

ASSUME SlabAssumption ==
    /\ BSP \in CPUs /\ GLOBAL \notin CPUs
    /\ SLAB_HEADER \in Nat
    /\ OBJ_SIZES \in Seq(Nat) /\ OBJ_SIZES # <<>> /\ \A size \in SIZES : size > OBJ_SIZES[Len(OBJ_SIZES)]
    /\ \A i \in DOMAIN OBJ_SIZES : OBJ_SIZES[i] \in 1 .. UNIT - SLAB_HEADER

VARIABLES pages,          \* the slab pages, by the block that each is
          partial, full,  \* the lists of a cache: the pages with free objects, and the others
          objects,        \* the objects kmalloc has returned: page, number in it and size
          corrupt         \* history: a block's data have been used as a page's header

slab_vars == <<pages, partial, full, objects>>
vars == <<buddy_vars, slab_vars, mistaken, corrupt>>

Classes == DOMAIN OBJ_SIZES
Caches == (CPUs \cup {GLOBAL}) \X Classes
Page(block) == pages[block]

\* The objects that slab_page_init cuts a page into.
slab_page_init(class) == 1 .. (UNIT - SLAB_HEADER) \div OBJ_SIZES[class]

list_remove(list, block) ==
    IF \E n \in DOMAIN list : list[n] = block
    THEN LET n == CHOOSE n \in DOMAIN list : list[n] = block
         IN  SubSeq(list, 1, n - 1) \o SubSeq(list, n + 1, Len(list))
    ELSE list
list_push(list, block) == <<block>> \o list

\* The sizes that kmalloc takes to the slab allocator first.
IsSmall(size) == size \in 1 .. OBJ_SIZES[Len(OBJ_SIZES)]

ClassOf(size) == Min({i \in Classes : size <= OBJ_SIZES[i]})

\* The cache that the CPU allocates from.
CacheOf(c, class) == <<IF initialized[c] THEN c ELSE GLOBAL, class>>

-----------------------------------------------------------------------------
(* kmalloc of up to 1024 bytes.                                            *)

\* An object of the page in front of the cache's list of pages; the page is moved when it was
\* the last.  ps and lists are the pages and the partial lists, with this page among them.
TakeObject(cache, ps, lists, size) ==
    LET block == Head(lists[cache])
    IN  \E k \in ps[block].free :
          /\ pages' = [ps EXCEPT ![block].free = @ \ {k}]
          /\ objects' = objects \cup {[page |-> block, k |-> k, size |-> size]}
          /\ IF ps[block].free = {k}
             THEN /\ partial' = [lists EXCEPT ![cache] = list_remove(@, block)]
                  /\ full' = [full EXCEPT ![cache] = list_push(@, block)]
             ELSE partial' = lists /\ UNCHANGED full

\* Mutant of AdoptPage: the page keeps its owner.
AdoptPage_SameOwner(c, block) == pages

\* A page that the CPU takes over from the global cache.
AdoptPage(c, block) == [pages EXCEPT ![block].owner = c]

\* A new page from the buddy allocator.
alloc_raw_page(cache, block) ==
    [b \in DOMAIN pages \cup {block} |->
        IF b = block THEN [class |-> cache[2], free |-> slab_page_init(cache[2]), owner |-> cache[1]]
        ELSE pages[b]]

slab_alloc(c, size) ==
    LET cache == CacheOf(c, ClassOf(size))
        shared == <<GLOBAL, ClassOf(size)>>
    IN  /\ call[c].pc = "idle"
        /\ \/ /\ partial[cache] # <<>>
              /\ TakeObject(cache, pages, partial, size)
              /\ UNCHANGED <<free_area, free_area_size, call>>
           \/ /\ partial[cache] = <<>> /\ partial[shared] # <<>>
              /\ LET block == Head(partial[shared])
                 IN  TakeObject(cache, AdoptPage(c, block),
                                [partial EXCEPT ![shared] = list_remove(@, block),
                                                ![cache] = list_push(@, block)], size)
              /\ UNCHANGED <<free_area, free_area_size, call>>
           \/ /\ partial[cache] = <<>> /\ partial[shared] = <<>>
              /\ \E i \in 0 .. pool - 1 :
                   /\ buddy_alloc(UNIT, <<0, i>>)
                   /\ TakeObject(cache, alloc_raw_page(cache, <<0, i>>),
                                 [partial EXCEPT ![cache] = list_push(@, <<0, i>>)], size)
              /\ UNCHANGED call
           \/ /\ partial[cache] = <<>> /\ partial[shared] = <<>>
              /\ buddy_alloc_NULL(UNIT)
              /\ call' = [call EXCEPT ![c] = [Idle EXCEPT !.size = size, !.pc = "pool"]]
              /\ UNCHANGED slab_vars
        /\ UNCHANGED <<pool, initialized, blocks, held>>

-----------------------------------------------------------------------------
(* kfree of an object.                                                     *)

\* cpu_cache_free and global_cache_free: a page that was full has a free object again.
FreeTo(cache, obj) ==
    IF Page(obj.page).free = {}
    THEN /\ full' = [full EXCEPT ![cache] = list_remove(@, obj.page)]
         /\ partial' = [partial EXCEPT ![cache] = list_push(@, obj.page)]
    ELSE UNCHANGED <<partial, full>>

\* The object goes to the cache of the CPU that owns its page if this is the one, or else to
\* the global cache, which the page then belongs to.
slab_free(c, obj) ==
    LET owner == Page(obj.page).owner
        own == owner = c /\ initialized[c]
    IN  /\ call[c].pc = "idle"
        /\ FreeTo(<<IF own THEN c ELSE GLOBAL, Page(obj.page).class>>, obj)
        /\ pages' = [pages EXCEPT ![obj.page].free = @ \cup {obj.k},
                                  ![obj.page].owner = IF own THEN c ELSE GLOBAL]
        /\ objects' = objects \ {obj}
        /\ UNCHANGED buddy_vars

\* kfree calls slab_free for what slab_owns claims, and that goes by the word at the place of a
\* page's magic.  In a block this is the first word of the caller's data, and any may stand there.
\* If it is SLAB_MAGIC, the data behind it pass for the rest of a page's header.  With an obj_size
\* of no cache slab_free returns, and the block is lost.  With one of a cache the data are used
\* as a list and its pointers; nothing is said of the memory from there on.
slab_owns(c, h) ==
    /\ call[c].pc = "idle"
    /\ \/ mistaken' = mistaken \cup {h} /\ UNCHANGED corrupt
       \/ corrupt' = TRUE /\ UNCHANGED mistaken
    /\ UNCHANGED <<buddy_vars, slab_vars>>

\* slab_init leaves every cache empty, and so does slab_cpu_init, which runs together with
\* cpu_pool_init: the caches of the CPU have not been used before.
slab_init ==
    /\ pages = <<>>
    /\ partial = [x \in Caches |-> <<>>]
    /\ full = [x \in Caches |-> <<>>]
    /\ objects = {}
slab_cpu_init(c) ==
    /\ cpu_pool_init(c)
    /\ partial' = [x \in Caches |-> IF x[1] = c THEN <<>> ELSE partial[x]]
    /\ full' = [x \in Caches |-> IF x[1] = c THEN <<>> ELSE full[x]]
    /\ UNCHANGED <<pages, objects>>

-----------------------------------------------------------------------------
Init == BuddyInit /\ slab_init /\ mistaken = {} /\ corrupt = FALSE

\* The steps that leave block and page headers to the allocator.
Ordinary ==
    \/ BuddyNext /\ UNCHANGED slab_vars
    \/ \E i \in Classes : slab_alloc(BSP, OBJ_SIZES[i])
    \/ \E obj \in objects : slab_free(BSP, obj)
    \/ \E c \in CPUs : slab_cpu_init(c)

Next ==
    \/ ~corrupt /\ Ordinary /\ UNCHANGED <<mistaken, corrupt>>
    \/ ~corrupt /\ \E c \in CPUs, h \in held \ mistaken : slab_owns(c, h)
    \/ corrupt /\ UNCHANGED vars

Spec == Init /\ [][Next]_vars

-----------------------------------------------------------------------------
(* Properties.                                                             *)

\* Every byte of the usable memory is in exactly one block: in a free area, in a
\* pool, with the slab allocator or with a caller.  No block is handed out twice
\* or overlaps another, whatever the CPUs' refills, flushes, splits and merges
\* interleave to and wherever the slab allocator takes its pages from, and none
\* gets lost but those slab_owns claims, which stay handed out for ever.
\* cpu_pool_alloc and cpu_pool_free stay in their arrays.  All of this up to the
\* step, if there is one, that uses a block's data as the header of a page.
Partition ==
    /\ Partitioned(Places \cup {<<"slab", block>> : block \in DOMAIN pages})
    /\ PoolsFit

\* A slab page is on one list, of the cache of its owner and its size, and on
\* the right one; an object is free or belongs to one caller, whose request it
\* holds; and a small request goes on to the page pools only when no object for
\* it is free.  This holds across slab_cpu_init, when pages and objects of the
\* global caches are in use, and across the adoption of pages, until the data of
\* a block that slab_owns claims are used as the header of a page.
SlabSound ==
    /\ \A block \in DOMAIN pages :
         LET page == Page(block)
             on(list, x) == Cardinality({n \in DOMAIN list[x] : list[x][n] = block})
         IN  /\ \A x \in Caches :
                  /\ on(partial, x) = IF x = <<page.owner, page.class>> /\ page.free # {} THEN 1 ELSE 0
                  /\ on(full, x) = IF x = <<page.owner, page.class>> /\ page.free = {} THEN 1 ELSE 0
             /\ \A k \in slab_page_init(page.class) :
                  Cardinality({obj \in objects : obj.page = block /\ obj.k = k})
                    = IF k \in page.free THEN 0 ELSE 1
    /\ \A obj \in objects : obj.page \in DOMAIN pages /\ obj.size <= OBJ_SIZES[Page(obj.page).class]
    /\ call[BSP].pc # "idle" /\ IsSmall(call[BSP].size) =>
         \A block \in DOMAIN pages : Page(block).class = ClassOf(call[BSP].size) => Page(block).free = {}
=============================================================================
