----------------------------- MODULE SlabProofs -----------------------------
(***************************************************************************)
(* The slab allocator: its lists, pages and objects agree with each other, *)
(* whatever objects are taken, freed and adopted, for any classes of sizes.*)
(***************************************************************************)
EXTENDS BuddyProofs

-----------------------------------------------------------------------------
(* The lists and the objects of the slab allocator: the invariant.         *)

\* The page is one of the cache x, and full or not.
On(page, x, isFull) == page.owner = x[1] /\ page.class = x[2] /\ (page.free = {} <=> isFull)
PagesOn(ps, x, isFull) == {b \in DOMAIN ps : On(ps[b], x, isFull)}

AreLists(ps, lists, isFull) ==
  DOMAIN lists = Caches /\ \A x \in Caches : IsList(lists[x], PagesOn(ps, x, isFull))

\* A page belongs to the global caches or to those of BSP, once they are set up.
PageSound(page, ini) ==
  /\ page \in [class : Classes, free : SUBSET Nat, owner : CPUs \cup {GLOBAL}]
  /\ page.free \subseteq slab_page_init(page.class)
  /\ page.owner = GLOBAL \/ (page.owner = BSP /\ ini)
PagesSound(ps, ini) == \A b \in DOMAIN ps : PageSound(ps[b], ini)

\* The objects that are not free are those that kmalloc has returned.
ObjectsSound(ps, objs) ==
  /\ \A obj \in objs : /\ obj.page \in DOMAIN ps /\ obj.k \in slab_page_init(ps[obj.page].class)
                       /\ obj.k \notin ps[obj.page].free /\ obj.size <= OBJ_SIZES[ps[obj.page].class]
  /\ \A obj, other \in objs : obj.page = other.page /\ obj.k = other.k => obj = other
  /\ \A b \in DOMAIN ps : \A k \in slab_page_init(ps[b].class) :
       k \in ps[b].free \/ \E obj \in objs : obj.page = b /\ obj.k = k

\* A small request that the slab allocator has no object for is on its way to the pools.
Pending(v) == v.pc # "idle" /\ IsSmall(v.size)
PendingSound(ps, v) == Pending(v) => \A b \in DOMAIN ps : ps[b].class = ClassOf(v.size) => ps[b].free = {}

ListsSound ==
  /\ PagesSound(pages, initialized[BSP]) /\ ObjectsSound(pages, objects)
  /\ AreLists(pages, partial, FALSE) /\ AreLists(pages, full, TRUE)
  /\ PendingSound(pages, call[BSP])

\* The page b becomes page, or is added.
Repaged(ps, qs, b, page) ==
  /\ DOMAIN qs = DOMAIN ps \cup {b} /\ qs[b] = page
  /\ \A d \in DOMAIN ps : d # b => qs[d] = ps[d]

\* The list of the cache x becomes l.
Relisted(lists, ql, x, l) ==
  /\ DOMAIN ql = DOMAIN lists /\ ql[x] = l
  /\ \A y \in DOMAIN lists : y # x => ql[y] = lists[y]

\* What becomes of the pages of a list.
PageKept(ps, qs, x, e) == PagesOn(qs, x, e) = PagesOn(ps, x, e)
PageGained(ps, qs, x, e, b) == b \notin PagesOn(ps, x, e) /\ PagesOn(qs, x, e) = PagesOn(ps, x, e) \cup {b}
PageLost(ps, qs, x, e, b) == b \in PagesOn(ps, x, e) /\ PagesOn(qs, x, e) = PagesOn(ps, x, e) \ {b}

LEMMA OnOne ==
  ASSUME NEW page, NEW x \in Caches, NEW y \in Caches, NEW e, On(page, x, e), NEW f, On(page, y, f)
  PROVE  x = y
<1>1. x = <<x[1], x[2]>> /\ y = <<y[1], y[2]>>
  BY DEF Caches
<1>2. x[1] = y[1] /\ x[2] = y[2]
  BY Zenon DEF On
<1> QED
  BY <1>1, <1>2

LEMMA RepagedSets ==
  ASSUME NEW ps, NEW qs, NEW b, NEW page, Repaged(ps, qs, b, page), NEW x, NEW e,
         NEW was, was <=> b \in DOMAIN ps /\ On(ps[b], x, e)
  PROVE  /\ On(page, x, e) /\ ~was => PageGained(ps, qs, x, e, b)
         /\ ~On(page, x, e) /\ was => PageLost(ps, qs, x, e, b)
         /\ (On(page, x, e) <=> was) => PageKept(ps, qs, x, e)
<1> USE Zenon
<1>1. \A d : d \in PagesOn(qs, x, e) <=> d \in DOMAIN qs /\ On(qs[d], x, e)
  BY DEF PagesOn
<1>2. \A d : d \in PagesOn(ps, x, e) <=> d \in DOMAIN ps /\ On(ps[d], x, e)
  BY DEF PagesOn
<1>3. \A d : d \in DOMAIN qs <=> d = b \/ d \in DOMAIN ps
  BY SMT DEF Repaged
<1>4. \A d : d # b => (d \in PagesOn(qs, x, e) <=> d \in PagesOn(ps, x, e))
  BY <1>1, <1>2, <1>3 DEF Repaged
<1>5. b \in PagesOn(qs, x, e) <=> On(page, x, e)
  BY <1>1, <1>3 DEF Repaged
<1>6. b \in PagesOn(ps, x, e) <=> was
  BY <1>2
<1>7. ASSUME On(page, x, e), ~was PROVE PageGained(ps, qs, x, e, b)
  BY <1>4, <1>5, <1>6, <1>7, SMT DEF PageGained
<1>8. ASSUME ~On(page, x, e), was PROVE PageLost(ps, qs, x, e, b)
  BY <1>4, <1>5, <1>6, <1>8, SMT DEF PageLost
<1>9. ASSUME On(page, x, e) <=> was PROVE PageKept(ps, qs, x, e)
  <2>1. \A d : d \in PagesOn(qs, x, e) <=> d \in PagesOn(ps, x, e)
    BY <1>4, <1>5, <1>6, <1>9
  <2> QED
    BY <2>1 DEF PageKept
<1> QED
  BY <1>7, <1>8, <1>9

LEMMA PageStays ==
  ASSUME NEW ps, NEW qs, NEW b, NEW page, Repaged(ps, qs, b, page), NEW x, NEW e,
         On(page, x, e) <=> (b \in DOMAIN ps /\ On(ps[b], x, e))
  PROVE  PageKept(ps, qs, x, e)
BY RepagedSets, Zenon

LEMMA PageComes ==
  ASSUME NEW ps, NEW qs, NEW b, NEW page, Repaged(ps, qs, b, page), NEW x, NEW e,
         On(page, x, e), ~(b \in DOMAIN ps /\ On(ps[b], x, e))
  PROVE  PageGained(ps, qs, x, e, b)
BY RepagedSets, Zenon

LEMMA PageGoes ==
  ASSUME NEW ps, NEW qs, NEW b, NEW page, Repaged(ps, qs, b, page), NEW x, NEW e,
         ~On(page, x, e), b \in DOMAIN ps, On(ps[b], x, e)
  PROVE  PageLost(ps, qs, x, e, b)
BY RepagedSets, Zenon

LEMMA ListGained ==
  ASSUME NEW ps, NEW qs, NEW x, NEW e, NEW b, PageGained(ps, qs, x, e, b), NEW l, IsList(l, PagesOn(ps, x, e)),
         NEW r, r = list_push(l, b)
  PROVE  IsList(r, PagesOn(qs, x, e))
<1>1. IsList(r, PagesOn(ps, x, e) \cup {b})
  BY ListPush, Zenon DEF PageGained
<1> QED
  BY <1>1, Zenon DEF PageGained

LEMMA ListLost ==
  ASSUME NEW ps, NEW qs, NEW x, NEW e, NEW b, PageLost(ps, qs, x, e, b), NEW l, IsList(l, PagesOn(ps, x, e)),
         NEW r, r = list_remove(l, b)
  PROVE  IsList(r, PagesOn(qs, x, e))
<1>1. IsList(r, PagesOn(ps, x, e) \ {b})
  BY ListRemove, Zenon DEF PageLost
<1> QED
  BY <1>1, Zenon DEF PageLost

LEMMA ListKept ==
  ASSUME NEW ps, NEW qs, NEW x, NEW e, PageKept(ps, qs, x, e), NEW l, IsList(l, PagesOn(ps, x, e))
  PROVE  IsList(l, PagesOn(qs, x, e))
BY Zenon DEF PageKept

LEMMA ListsKept ==
  ASSUME NEW ps, NEW qs, NEW b, NEW page, Repaged(ps, qs, b, page), NEW e, NEW lists, AreLists(ps, lists, e),
         \A y \in Caches : On(page, y, e) <=> (b \in DOMAIN ps /\ On(ps[b], y, e))
  PROVE  AreLists(qs, lists, e)
<1> USE Zenon
<1>1. \A y \in Caches : IsList(lists[y], PagesOn(qs, y, e))
  <2> TAKE y \in Caches
  <2>1. PageKept(ps, qs, y, e)
    BY PageStays
  <2> QED
    BY <2>1, ListKept DEF AreLists
<1> QED
  BY <1>1 DEF AreLists

LEMMA ListsRemove ==
  ASSUME NEW ps, NEW qs, NEW b, NEW page, Repaged(ps, qs, b, page), NEW e, NEW lists, AreLists(ps, lists, e),
         NEW x \in Caches, b \in DOMAIN ps, On(ps[b], x, e), \A y \in Caches : ~On(page, y, e),
         NEW ql, Relisted(lists, ql, x, list_remove(lists[x], b))
  PROVE  AreLists(qs, ql, e)
<1> USE Zenon
<1>1. PageLost(ps, qs, x, e, b)
  BY PageGoes
<1>2. DOMAIN lists = Caches /\ \A y \in Caches : IsList(lists[y], PagesOn(ps, y, e))
  BY DEF AreLists
<1>3. IsList(ql[x], PagesOn(qs, x, e))
  BY <1>1, <1>2, ListLost DEF Relisted
<1>4. ASSUME NEW y \in Caches, y # x PROVE IsList(ql[y], PagesOn(qs, y, e))
  <2>1. PageKept(ps, qs, y, e)
    BY <1>4, OnOne, PageStays
  <2>2. ql[y] = lists[y]
    BY <1>2, <1>4 DEF Relisted
  <2> QED
    BY <1>2, <2>1, <2>2, ListKept, SMTT(40)
<1> QED
  BY <1>2, <1>3, <1>4 DEF AreLists, Relisted

LEMMA ListsPush ==
  ASSUME NEW ps, NEW qs, NEW b, NEW page, Repaged(ps, qs, b, page), NEW e, NEW lists, AreLists(ps, lists, e),
         NEW x \in Caches, On(page, x, e), \A y \in Caches : ~(b \in DOMAIN ps /\ On(ps[b], y, e)),
         NEW ql, Relisted(lists, ql, x, list_push(lists[x], b))
  PROVE  AreLists(qs, ql, e)
<1> USE Zenon
<1>1. PageGained(ps, qs, x, e, b)
  BY PageComes
<1>2. DOMAIN lists = Caches /\ \A y \in Caches : IsList(lists[y], PagesOn(ps, y, e))
  BY DEF AreLists
<1>3. IsList(ql[x], PagesOn(qs, x, e))
  BY <1>1, <1>2, ListGained DEF Relisted
<1>4. ASSUME NEW y \in Caches, y # x PROVE IsList(ql[y], PagesOn(qs, y, e))
  <2>1. PageKept(ps, qs, y, e)
    BY <1>4, OnOne, PageStays
  <2>2. ql[y] = lists[y]
    BY <1>2, <1>4 DEF Relisted
  <2> QED
    BY <1>2, <2>1, <2>2, ListKept, SMTT(40)
<1> QED
  BY <1>2, <1>3, <1>4 DEF AreLists, Relisted

LEMMA ListsMove ==
  ASSUME NEW ps, NEW qs, NEW b, NEW page, Repaged(ps, qs, b, page), NEW e, NEW lists, AreLists(ps, lists, e),
         NEW x \in Caches, NEW y \in Caches, x # y, b \in DOMAIN ps, On(ps[b], x, e), On(page, y, e),
         NEW ml, Relisted(lists, ml, x, list_remove(lists[x], b)),
         NEW ql, Relisted(ml, ql, y, list_push(lists[y], b))
  PROVE  AreLists(qs, ql, e)
<1> USE Zenon
<1>1. ~On(page, x, e) /\ ~On(ps[b], y, e)
  BY OnOne
<1>2. PageLost(ps, qs, x, e, b) /\ PageGained(ps, qs, y, e, b)
  BY <1>1, PageGoes, PageComes
<1>3. DOMAIN lists = Caches /\ \A z \in Caches : IsList(lists[z], PagesOn(ps, z, e))
  BY DEF AreLists
<1>4. ql[x] = list_remove(lists[x], b) /\ ql[y] = list_push(lists[y], b) /\ DOMAIN ql = Caches
  BY <1>3 DEF Relisted
<1>5. IsList(ql[x], PagesOn(qs, x, e)) /\ IsList(ql[y], PagesOn(qs, y, e))
  BY <1>2, <1>3, <1>4, ListLost, ListGained
<1>6. ASSUME NEW z \in Caches, z # x, z # y PROVE IsList(ql[z], PagesOn(qs, z, e))
  <2>1. ~On(page, z, e) /\ ~On(ps[b], z, e)
    BY <1>6, OnOne
  <2>2. PageKept(ps, qs, z, e)
    BY <2>1, PageStays
  <2>3. ql[z] = lists[z]
    BY <1>3, <1>6 DEF Relisted
  <2> QED
    BY <1>3, <2>2, <2>3, ListKept, SMTT(40)
<1> QED
  BY <1>4, <1>5, <1>6 DEF AreLists

LEMMA PagesStep ==
  ASSUME NEW ps, NEW qs, NEW b, NEW page, Repaged(ps, qs, b, page), NEW ini, PagesSound(ps, ini), PageSound(page, ini)
  PROVE  PagesSound(qs, ini)
<1> SUFFICES ASSUME NEW d \in DOMAIN qs PROVE PageSound(qs[d], ini)
  BY Zenon DEF PagesSound
<1>1. CASE d = b
  BY <1>1, Zenon DEF Repaged
<1>2. CASE d # b
  <2>1. d \in DOMAIN ps
    BY <1>2 DEF Repaged
  <2> QED
    BY <1>2, <2>1, Zenon DEF Repaged, PagesSound
<1> QED
  BY <1>1, <1>2

LEMMA ObjectTaken ==
  ASSUME NEW ps, NEW qs, NEW b \in DOMAIN ps, NEW page, Repaged(ps, qs, b, page), NEW objs, ObjectsSound(ps, objs),
         NEW k \in ps[b].free, k \in slab_page_init(ps[b].class), page.class = ps[b].class,
         page.free = ps[b].free \ {k}, NEW obj, obj.page = b, obj.k = k, obj.size <= OBJ_SIZES[ps[b].class]
  PROVE  ObjectsSound(qs, objs \cup {obj})
<1>1. DOMAIN qs = DOMAIN ps /\ qs[b] = page /\ \A d \in DOMAIN ps : d # b => qs[d] = ps[d]
  BY DEF Repaged
<1>2. \A d \in DOMAIN ps : qs[d].class = ps[d].class
  BY <1>1, Zenon
<1>3. \A d \in DOMAIN ps : \A m : m \in qs[d].free <=> m \in ps[d].free /\ ~(d = b /\ m = k)
  <2> TAKE d \in DOMAIN ps
  <2>1. CASE d = b
    BY <1>1, <2>1, SMTT(40)
  <2>2. CASE d # b
    BY <1>1, <2>2, SMTT(40)
  <2> QED
    BY <2>1, <2>2, SMTT(40)
<1>4. /\ \A o \in objs : /\ o.page \in DOMAIN ps /\ o.k \in slab_page_init(ps[o.page].class)
                         /\ o.k \notin ps[o.page].free /\ o.size <= OBJ_SIZES[ps[o.page].class]
      /\ \A o, other \in objs : o.page = other.page /\ o.k = other.k => o = other
      /\ \A d \in DOMAIN ps : \A m \in slab_page_init(ps[d].class) :
           m \in ps[d].free \/ \E o \in objs : o.page = d /\ o.k = m
  BY Zenon DEF ObjectsSound
<1>5. ASSUME NEW o \in objs \cup {obj}
      PROVE  /\ o.page \in DOMAIN qs /\ o.k \in slab_page_init(qs[o.page].class)
             /\ o.k \notin qs[o.page].free /\ o.size <= OBJ_SIZES[qs[o.page].class]
  <2>1. CASE o \in objs
    BY <1>1, <1>2, <1>3, <1>4, <2>1, ZenonT(40)
  <2>2. CASE o = obj
    BY <1>1, <1>2, <1>3, <2>2, Zenon
  <2> QED
    BY <2>1, <2>2
<1>6. \A o \in objs : ~(o.page = b /\ o.k = k)
  BY <1>4, Zenon
<1>7. ASSUME NEW o \in objs \cup {obj}, NEW other \in objs \cup {obj}, o.page = other.page, o.k = other.k
      PROVE  o = other
  <2>1. CASE o \in objs /\ other \in objs
    BY <1>4, <1>7, <2>1, Zenon
  <2>2. CASE o = obj \/ other = obj
    BY <1>6, <1>7, <2>2, SMTT(40)
  <2> QED
    BY <2>1, <2>2
<1>8. ASSUME NEW d \in DOMAIN qs, NEW m \in slab_page_init(qs[d].class)
      PROVE  m \in qs[d].free \/ \E o \in objs \cup {obj} : o.page = d /\ o.k = m
  <2>1. CASE d = b /\ m = k
    BY <2>1, SMTT(40)
  <2>2. CASE ~(d = b /\ m = k)
    <3>1. d \in DOMAIN ps /\ m \in slab_page_init(ps[d].class)
      BY <1>1, <1>2, SMTT(40)
    <3>2. m \in ps[d].free \/ \E o \in objs : o.page = d /\ o.k = m
      BY <1>4, <3>1
    <3> QED
      BY <1>3, <2>2, <3>1, <3>2, SMTT(40)
  <2> QED
    BY <2>1, <2>2
<1> QED
  BY <1>5, <1>7, <1>8, Zenon DEF ObjectsSound

LEMMA ObjectFreed ==
  ASSUME NEW ps, NEW qs, NEW b \in DOMAIN ps, NEW page, Repaged(ps, qs, b, page), NEW objs, ObjectsSound(ps, objs),
         NEW obj \in objs, obj.page = b, page.class = ps[b].class, page.free = ps[b].free \cup {obj.k}
  PROVE  ObjectsSound(qs, objs \ {obj})
<1>1. DOMAIN qs = DOMAIN ps /\ qs[b] = page /\ \A d \in DOMAIN ps : d # b => qs[d] = ps[d]
  BY DEF Repaged
<1>2. \A d \in DOMAIN ps : qs[d].class = ps[d].class
  BY <1>1, Zenon
<1>3. \A d \in DOMAIN ps : \A m : m \in qs[d].free <=> m \in ps[d].free \/ (d = b /\ m = obj.k)
  <2> TAKE d \in DOMAIN ps
  <2>1. CASE d = b
    BY <1>1, <2>1, SMTT(40)
  <2>2. CASE d # b
    BY <1>1, <2>2, SMTT(40)
  <2> QED
    BY <2>1, <2>2
<1>4. /\ \A o \in objs : /\ o.page \in DOMAIN ps /\ o.k \in slab_page_init(ps[o.page].class)
                         /\ o.k \notin ps[o.page].free /\ o.size <= OBJ_SIZES[ps[o.page].class]
      /\ \A o, other \in objs : o.page = other.page /\ o.k = other.k => o = other
      /\ \A d \in DOMAIN ps : \A m \in slab_page_init(ps[d].class) :
           m \in ps[d].free \/ \E o \in objs : o.page = d /\ o.k = m
  BY Zenon DEF ObjectsSound
<1>5. ASSUME NEW o \in objs \ {obj}
      PROVE  /\ o.page \in DOMAIN qs /\ o.k \in slab_page_init(qs[o.page].class)
             /\ o.k \notin qs[o.page].free /\ o.size <= OBJ_SIZES[qs[o.page].class]
  <2>1. o \in objs /\ ~(o.page = b /\ o.k = obj.k)
    BY <1>4, SMTT(40)
  <2> QED
    BY <1>1, <1>2, <1>3, <1>4, <2>1, ZenonT(40)
<1>6. ASSUME NEW o \in objs \ {obj}, NEW other \in objs \ {obj}, o.page = other.page, o.k = other.k
      PROVE  o = other
  BY <1>4, <1>6, SMTT(40)
<1>7. ASSUME NEW d \in DOMAIN qs, NEW m \in slab_page_init(qs[d].class)
      PROVE  m \in qs[d].free \/ \E o \in objs \ {obj} : o.page = d /\ o.k = m
  <2>1. d \in DOMAIN ps /\ m \in slab_page_init(ps[d].class)
    BY <1>1, <1>2
  <2>2. m \in ps[d].free \/ \E o \in objs : o.page = d /\ o.k = m
    BY <1>4, <2>1
  <2> QED
    BY <1>3, <2>1, <2>2
<1> QED
  BY <1>5, <1>6, <1>7, Zenon DEF ObjectsSound

\* The first page of a list with pages is a page of the cache.
LEMMA HeadPage ==
  ASSUME NEW ps, NEW e, NEW lists, AreLists(ps, lists, e), NEW x \in Caches, lists[x] # <<>>
  PROVE  Head(lists[x]) \in DOMAIN ps /\ On(ps[Head(lists[x])], x, e)
<1> USE Zenon
<1>1. IsList(lists[x], PagesOn(ps, x, e))
  BY DEF AreLists
<1>2. Head(lists[x]) \in PagesOn(ps, x, e)
  BY <1>1, ListEmpty
<1> QED
  BY <1>2 DEF PagesOn

LEMMA TakeStep ==
  ASSUME NEW ini, NEW ps, PagesSound(ps, ini), NEW lists, AreLists(ps, lists, FALSE), AreLists(ps, full, TRUE),
         ObjectsSound(ps, objects), NEW x \in Caches, lists[x] # <<>>, NEW size, size <= OBJ_SIZES[x[2]],
         TakeObject(x, ps, lists, size)
  PROVE  /\ PagesSound(pages', ini) /\ ObjectsSound(pages', objects')
         /\ AreLists(pages', partial', FALSE) /\ AreLists(pages', full', TRUE)
<1> USE Zenon
<1>1. PICK b : b = Head(lists[x])
  BY SMTT(40)
<1>2. b \in DOMAIN ps /\ On(ps[b], x, FALSE)
  BY <1>1, HeadPage
<1>3. PICK k \in ps[b].free :
          /\ pages' = [ps EXCEPT ![b].free = @ \ {k}]
          /\ objects' = objects \cup {[page |-> b, k |-> k, size |-> size]}
          /\ IF ps[b].free = {k}
             THEN /\ partial' = [lists EXCEPT ![x] = list_remove(@, b)]
                  /\ full' = [full EXCEPT ![x] = list_push(@, b)]
             ELSE partial' = lists /\ UNCHANGED full
  BY <1>1 DEF TakeObject
<1>4. PageSound(ps[b], ini)
  BY <1>2 DEF PagesSound
<1>5. PICK page : page = [ps[b] EXCEPT !.free = @ \ {k}]
  OBVIOUS
<1>6. /\ page.class = ps[b].class /\ page.owner = ps[b].owner /\ page.free = ps[b].free \ {k}
      /\ page \in [class : Classes, free : SUBSET Nat, owner : CPUs \cup {GLOBAL}]
      /\ k \in slab_page_init(ps[b].class)
  BY <1>4, <1>5, SMT DEF PageSound
<1>7. PageSound(page, ini)
  BY <1>4, <1>6, SMT DEF PageSound
<1>8. Repaged(ps, pages', b, page)
  BY <1>2, <1>3, <1>5 DEF Repaged
<1>9. PagesSound(pages', ini)
  BY <1>7, <1>8, PagesStep
<1>10. ObjectsSound(pages', objects')
  <2>1. PICK obj : obj = [page |-> b, k |-> k, size |-> size]
    OBVIOUS
  <2>2. obj.page = b /\ obj.k = k /\ obj.size <= OBJ_SIZES[ps[b].class]
    BY <1>2, <2>1, SMT DEF On
  <2>3. ObjectsSound(pages', objects \cup {obj})
    BY <1>2, <1>6, <1>8, <2>2, ObjectTaken
  <2> QED
    BY <1>3, <2>1, <2>3, SMT
<1>11. DOMAIN lists = Caches /\ DOMAIN full = Caches
  BY DEF AreLists
<1>12. CASE ps[b].free = {k}
  <2>1. page.free = {} /\ ps[b].free # {}
    BY <1>6, <1>12, SMTT(40)
  <2>2. (\A y : ~On(page, y, FALSE)) /\ On(page, x, TRUE) /\ (\A y : ~On(ps[b], y, TRUE))
    BY <1>2, <1>6, <2>1, SMT DEF On
  <2>3. Relisted(lists, partial', x, list_remove(lists[x], b)) /\ Relisted(full, full', x, list_push(full[x], b))
    BY <1>3, <1>11, <1>12, SMT DEF Relisted
  <2>4. AreLists(pages', partial', FALSE)
    BY <1>2, <1>8, <2>2, <2>3, ListsRemove
  <2>5. AreLists(pages', full', TRUE)
    BY <1>8, <2>2, <2>3, ListsPush
  <2> QED
    BY <1>9, <1>10, <2>4, <2>5
<1>13. CASE ps[b].free # {k}
  <2>1. page.free # {} /\ ps[b].free # {} /\ partial' = lists /\ full' = full
    BY <1>3, <1>6, <1>13, SMT
  <2>2. \A y : (On(page, y, FALSE) <=> On(ps[b], y, FALSE)) /\ (On(page, y, TRUE) <=> On(ps[b], y, TRUE))
    BY <1>6, <2>1, SMT DEF On
  <2>3. AreLists(pages', lists, FALSE) /\ AreLists(pages', full, TRUE)
    BY <1>2, <1>8, <2>2, ListsKept
  <2> QED
    BY <1>9, <1>10, <2>1, <2>3
<1> QED
  BY <1>12, <1>13

\* What slab_alloc does to the pages and the lists before it takes an object.
Adopted(ps, qs, b) == qs = [ps EXCEPT ![b].owner = BSP]
Moved(lists, ql, x, y, b) == ql = [lists EXCEPT ![x] = list_remove(@, b), ![y] = list_push(@, b)]
Pushed(lists, ql, x, b) == ql = [lists EXCEPT ![x] = list_push(@, b)]
FreshPage(x) == [class |-> x[2], free |-> slab_page_init(x[2]), owner |-> x[1]]
OwnCache(x, ini) == x[1] = GLOBAL \/ (x[1] = BSP /\ ini)
IsHead(b, l) == l # <<>> /\ b = Head(l)

\* A page of the global cache becomes one of the CPU's, in front of its list.
LEMMA AdoptStep ==
  ASSUME NEW ps, PagesSound(ps, TRUE), NEW lists, AreLists(ps, lists, FALSE), AreLists(ps, full, TRUE),
         ObjectsSound(ps, objects), NEW x \in Caches, NEW y \in Caches, x[1] = GLOBAL, y[1] = BSP, x[2] = y[2],
         NEW b, IsHead(b, lists[x]), NEW qs, Adopted(ps, qs, b), NEW ql, Moved(lists, ql, x, y, b)
  PROVE  /\ PagesSound(qs, TRUE) /\ ObjectsSound(qs, objects)
         /\ AreLists(qs, ql, FALSE) /\ AreLists(qs, full, TRUE) /\ ql[y] # <<>>
<1> USE Zenon
<1>1. b \in DOMAIN ps /\ On(ps[b], x, FALSE)
  BY HeadPage DEF IsHead
<1>2. PICK page : page = [ps[b] EXCEPT !.owner = BSP]
  OBVIOUS
<1>3. PageSound(ps[b], TRUE)
  BY <1>1 DEF PagesSound
<1>4. /\ page.class = ps[b].class /\ page.owner = BSP /\ page.free = ps[b].free
      /\ page \in [class : Classes, free : SUBSET Nat, owner : CPUs \cup {GLOBAL}]
  BY <1>2, <1>3, SlabAssumption DEF PageSound
<1>5. PageSound(page, TRUE)
  BY <1>3, <1>4, SMT DEF PageSound
<1>6. Repaged(ps, qs, b, page)
  BY <1>1, <1>2, SMT DEF Repaged, Adopted
<1>7. PagesSound(qs, TRUE)
  BY <1>5, <1>6, PagesStep
<1>8. ObjectsSound(qs, objects)
  <2>1. DOMAIN qs = DOMAIN ps /\ \A d \in DOMAIN ps : qs[d].class = ps[d].class /\ qs[d].free = ps[d].free
    BY <1>1, <1>4, <1>6, SMTT(40) DEF Repaged
  <2> QED
    BY <2>1, SMT DEF ObjectsSound
<1>9. x # y
  BY SlabAssumption, SMT
<1>10. DOMAIN lists = Caches
  BY DEF AreLists
<1>11. PICK ml : ml = [lists EXCEPT ![x] = list_remove(lists[x], b)]
  OBVIOUS
<1>12. Relisted(lists, ml, x, list_remove(lists[x], b)) /\ Relisted(ml, ql, y, list_push(lists[y], b))
  BY <1>9, <1>10, <1>11, SMT DEF Relisted, Moved
<1>13. On(page, y, FALSE) /\ (\A z : ~On(page, z, TRUE)) /\ (\A z : ~On(ps[b], z, TRUE))
  BY <1>1, <1>4, SMTT(40) DEF On
<1>14. AreLists(qs, ql, FALSE)
  BY <1>1, <1>6, <1>9, <1>12, <1>13, ListsMove
<1>15. AreLists(qs, full, TRUE)
  BY <1>6, <1>13, ListsKept
<1>16. ql[y] # <<>>
  <2>1. ql[y] = list_push(lists[y], b)
    BY <1>12, SMT DEF Relisted
  <2>2. IsList(lists[y], PagesOn(ps, y, FALSE))
    BY DEF AreLists
  <2>3. lists[y] \in Seq(PagesOn(ps, y, FALSE))
    BY <2>2 DEF IsList
  <2> QED
    BY <2>1, <2>3, SMTT(40) DEF list_push
<1> QED
  BY <1>7, <1>8, <1>14, <1>15, <1>16

\* A new page, in front of the list of its cache.
LEMMA NewStep ==
  ASSUME NEW ini, NEW ps, PagesSound(ps, ini), NEW lists, AreLists(ps, lists, FALSE), AreLists(ps, full, TRUE),
         ObjectsSound(ps, objects), NEW x \in Caches, OwnCache(x, ini), NEW b, b \notin DOMAIN ps,
         NEW qs, Repaged(ps, qs, b, FreshPage(x)), NEW ql, Pushed(lists, ql, x, b)
  PROVE  /\ PagesSound(qs, ini) /\ ObjectsSound(qs, objects)
         /\ AreLists(qs, ql, FALSE) /\ AreLists(qs, full, TRUE) /\ ql[x] # <<>>
<1> DEFINE page == FreshPage(x)
<1>1. x[1] \in CPUs \cup {GLOBAL} /\ x[2] \in Classes
  BY DEF Caches
<1>2. slab_page_init(x[2]) \subseteq Nat /\ slab_page_init(x[2]) # {}
  <2>1. OBJ_SIZES[x[2]] \in Nat /\ OBJ_SIZES[x[2]] >= 1 /\ OBJ_SIZES[x[2]] <= UNIT - SLAB_HEADER
    BY <1>1, SlabAssumption, Bounds DEF Classes
  <2> DEFINE s == OBJ_SIZES[x[2]]
             r == UNIT - SLAB_HEADER
  <2>2. s \in Nat /\ s >= 1 /\ r \in Int /\ s <= r
    BY <2>1, SlabAssumption, Bounds
  <2> HIDE DEF s, r
  <2>3. r \div s \in Int /\ r \div s >= 1
    BY <2>2
  <2>4. 1 .. r \div s \subseteq Nat /\ 1 \in 1 .. r \div s
    BY <2>3
  <2> QED
    BY <2>4 DEF slab_page_init, s, r
<1>3. /\ page.class = x[2] /\ page.free = slab_page_init(x[2]) /\ page.owner = x[1] /\ page.free # {}
      /\ page \in [class : Classes, free : SUBSET Nat, owner : CPUs \cup {GLOBAL}]
  BY <1>1, <1>2 DEF FreshPage
<1> HIDE DEF page
<1>4. PageSound(page, ini)
  BY <1>3 DEF PageSound, OwnCache
<1>4a. Repaged(ps, qs, b, page)
  BY Zenon DEF page
<1>5. PagesSound(qs, ini)
  BY <1>4, <1>4a, PagesStep, Zenon
<1>6. ObjectsSound(qs, objects)
  <2>1. /\ \A d : d \in DOMAIN qs <=> d = b \/ d \in DOMAIN ps
        /\ qs[b] = page /\ \A d \in DOMAIN ps : qs[d] = ps[d]
    BY <1>4a DEF Repaged
  <2>2. \A o \in objects : /\ o.page \in DOMAIN qs /\ o.k \in slab_page_init(qs[o.page].class)
                           /\ o.k \notin qs[o.page].free /\ o.size <= OBJ_SIZES[qs[o.page].class]
    BY <2>1 DEF ObjectsSound
  <2>3. ASSUME NEW d \in DOMAIN qs, NEW m \in slab_page_init(qs[d].class)
        PROVE  m \in qs[d].free \/ \E o \in objects : o.page = d /\ o.k = m
    <3>1. CASE d = b
      BY <1>3, <2>1, <2>3, <3>1
    <3>2. CASE d # b
      <4>1. d \in DOMAIN ps /\ qs[d] = ps[d]
        BY <2>1, <3>2, SMTT(40)
      <4>2. m \in slab_page_init(ps[d].class)
        BY <4>1
      <4> QED
        BY <4>1, <4>2, SMTT(40) DEF ObjectsSound
    <3> QED
      BY <3>1, <3>2, SMTT(40)
  <2> QED
    BY <2>2, <2>3, SMTT(40) DEF ObjectsSound
<1>7. DOMAIN lists = Caches
  BY Zenon DEF AreLists
<1>8. Relisted(lists, ql, x, list_push(lists[x], b))
  BY <1>7 DEF Relisted, Pushed
<1>9. On(page, x, FALSE) /\ \A z : ~On(page, z, TRUE)
  BY <1>3 DEF On
<1>10. AreLists(qs, ql, FALSE)
  BY <1>4a, <1>8, <1>9, ListsPush, Zenon
<1>11. AreLists(qs, full, TRUE)
  <2>1. \A y \in Caches : On(page, y, TRUE) <=> (b \in DOMAIN ps /\ On(ps[b], y, TRUE))
    BY <1>9, Zenon
  <2> QED
    BY <1>4a, <2>1, ListsKept, Zenon
<1>12. ql[x] # <<>>
  <2>1. ql[x] = list_push(lists[x], b)
    BY <1>8 DEF Relisted
  <2>2. IsList(lists[x], PagesOn(ps, x, FALSE))
    BY Zenon DEF AreLists
  <2>3. lists[x] \in Seq(PagesOn(ps, x, FALSE))
    BY <2>2, Zenon DEF IsList
  <2> QED
    BY <2>1, <2>3 DEF list_push
<1> QED
  BY <1>5, <1>6, <1>10, <1>11, <1>12, Zenon

LEMMA ClassOfSize ==
  ASSUME NEW i \in Classes
  PROVE  ClassOf(OBJ_SIZES[i]) \in Classes /\ OBJ_SIZES[i] <= OBJ_SIZES[ClassOf(OBJ_SIZES[i])]
<1> DEFINE S == {j \in Classes : OBJ_SIZES[i] <= OBJ_SIZES[j]}
<1>1. S \in SUBSET Nat /\ S # {}
  <2>1. Classes \subseteq Nat
    BY SlabAssumption DEF Classes
  <2>2. i \in S
    BY SmallSizes
  <2> QED
    BY <2>1, <2>2, Zenon
<1>2. Min(S) \in S
  BY <1>1, LeastNumber
<1> QED
  BY <1>2 DEF ClassOf

LEMMA slab_freeLists ==
  ASSUME ListsSound, NEW obj \in objects, slab_free(BSP, obj)
  PROVE  ListsSound'
<1> DEFINE ini == initialized[BSP]
           b == obj.page
           own == pages[b].owner = BSP /\ ini
           x == <<IF own THEN BSP ELSE GLOBAL, pages[b].class>>
<1>1. /\ PagesSound(pages, ini) /\ ObjectsSound(pages, objects)
      /\ AreLists(pages, partial, FALSE) /\ AreLists(pages, full, TRUE)
  BY Zenon DEF ListsSound
<1>2. UNCHANGED buddy_vars /\ call[BSP].pc = "idle" /\ BSP \in CPUs
  BY SlabAssumption DEF slab_free
<1>3. /\ b \in DOMAIN pages /\ obj.k \in slab_page_init(pages[b].class) /\ obj.k \notin pages[b].free
      /\ PageSound(pages[b], ini)
  BY <1>1 DEF ObjectsSound, PagesSound
<1>4. PICK page : page = [pages[b] EXCEPT !.free = @ \cup {obj.k}, !.owner = IF own THEN BSP ELSE GLOBAL]
  OBVIOUS
<1>5. pages' = [pages EXCEPT ![b].free = @ \cup {obj.k}, ![b].owner = IF own THEN BSP ELSE GLOBAL]
      /\ objects' = objects \ {obj} /\ FreeTo(x, obj)
  BY DEF slab_free, Page
<1>6. (IF own THEN BSP ELSE GLOBAL) = pages[b].owner /\ slab_page_init(pages[b].class) \subseteq Nat
  <2>1. (IF own THEN BSP ELSE GLOBAL) = pages[b].owner
    BY <1>3 DEF PageSound
  <2>2. \A n : 1 .. n \subseteq Nat
    OBVIOUS
  <2> QED
    BY <2>1, <2>2 DEF slab_page_init
<1>7. /\ page.class = pages[b].class /\ page.owner = pages[b].owner /\ page.free = pages[b].free \cup {obj.k}
      /\ page \in [class : Classes, free : SUBSET Nat, owner : CPUs \cup {GLOBAL}] /\ page.free # {}
      /\ page.free \subseteq slab_page_init(page.class)
  BY <1>3, <1>4, <1>6, Zenon DEF PageSound
<1>8. PageSound(page, ini)
  BY <1>3, <1>7 DEF PageSound
<1>9. Repaged(pages, pages', b, page)
  BY <1>3, <1>4, <1>5, Zenon DEF Repaged, PageSound
<1>10. x \in Caches /\ x = <<pages[b].owner, pages[b].class>>
  BY <1>3, <1>6 DEF Caches, PageSound
<1>11. (\A y : ~On(page, y, TRUE)) /\ On(page, x, FALSE)
  BY <1>7, <1>10 DEF On
<1> HIDE DEF ini, own, x, b
<1>12. PagesSound(pages', ini)
  BY <1>1, <1>8, <1>9, PagesStep, Zenon
<1>13. ObjectsSound(pages', objects')
  <2>1. ObjectsSound(pages', objects \ {obj})
    BY <1>1, <1>3, <1>7, <1>9, ObjectFreed, Zenon DEF b
  <2> QED
    BY <1>5, <2>1
<1>14. AreLists(pages', partial', FALSE) /\ AreLists(pages', full', TRUE)
  <2> USE Zenon
  <2>1. CASE pages[b].free = {}
    <3>1. On(pages[b], x, TRUE) /\ \A y : ~On(pages[b], y, FALSE)
      BY <1>10, <2>1, SMT DEF On
    <3>2. DOMAIN partial = Caches /\ DOMAIN full = Caches
      BY <1>1 DEF AreLists
    <3>3. Relisted(full, full', x, list_remove(full[x], b)) /\ Relisted(partial, partial', x, list_push(partial[x], b))
      BY <1>5, <1>10, <2>1, <3>2, SMTT(40) DEF FreeTo, Relisted, Page, b
    <3>4. AreLists(pages', full', TRUE)
      BY <1>1, <1>3, <1>9, <1>10, <1>11, <3>1, <3>3, ListsRemove
    <3>5. AreLists(pages', partial', FALSE)
      BY <1>1, <1>9, <1>10, <1>11, <3>1, <3>3, ListsPush
    <3> QED
      BY <3>4, <3>5
  <2>2. CASE pages[b].free # {}
    <3>1. partial' = partial /\ full' = full
      BY <1>5, <2>2, SMT DEF FreeTo, Page, b
    <3>2. \A y : (On(page, y, FALSE) <=> On(pages[b], y, FALSE)) /\ (On(page, y, TRUE) <=> On(pages[b], y, TRUE))
      BY <1>7, <2>2, SMT DEF On
    <3>3. AreLists(pages', partial, FALSE) /\ AreLists(pages', full, TRUE)
      BY <1>1, <1>3, <1>9, <3>2, ListsKept
    <3> QED
      BY <3>1, <3>3
  <2> QED
    BY <2>1, <2>2
<1>15. initialized' = initialized /\ call' = call
  BY <1>2 DEF buddy_vars
<1>16. PendingSound(pages', call[BSP])
  BY <1>2 DEF PendingSound, Pending
<1> QED
  BY <1>12, <1>13, <1>14, <1>15, <1>16, Zenon DEF ListsSound, ini

LEMMA InitLists == ASSUME Init PROVE ListsSound
<1>1. /\ DOMAIN pages = {} /\ objects = {} /\ call[BSP] = Idle
      /\ partial = [x \in Caches |-> <<>>] /\ full = [x \in Caches |-> <<>>]
  BY SlabAssumption DEF Init, slab_init, BuddyInit
<1>2. \A x, e : PagesOn(pages, x, e) = {}
  BY <1>1 DEF PagesOn
<1>3. \A e : AreLists(pages, [x \in Caches |-> <<>>], e)
  <2> TAKE e
  <2>1. PICK ql : ql = [x \in Caches |-> <<>>]
    BY Zenon
  <2>2. DOMAIN ql = Caches /\ \A x \in Caches : ql[x] = <<>>
    BY <2>1
  <2>3. AreLists(pages, ql, e)
    BY <1>2, <2>2, ListEmpty, SMTT(40) DEF AreLists
  <2> QED
    BY <2>1, <2>3
<1>4. PagesSound(pages, initialized[BSP]) /\ ObjectsSound(pages, objects)
  BY <1>1 DEF PagesSound, ObjectsSound
<1>5. PendingSound(pages, call[BSP])
  BY <1>1 DEF PendingSound
<1> QED
  BY <1>1, <1>3, <1>4, <1>5, Zenon DEF ListsSound

LEMMA ListsProperty == ASSUME ListsSound PROVE SlabSound
<1> USE Zenon
<1>1. /\ PagesSound(pages, initialized[BSP]) /\ ObjectsSound(pages, objects)
      /\ AreLists(pages, partial, FALSE) /\ AreLists(pages, full, TRUE) /\ PendingSound(pages, call[BSP])
  BY DEF ListsSound
<1>2. ASSUME NEW b \in DOMAIN pages, NEW x \in Caches
      PROVE  /\ Cardinality({n \in DOMAIN partial[x] : partial[x][n] = b})
                  = IF x = <<pages[b].owner, pages[b].class>> /\ pages[b].free # {} THEN 1 ELSE 0
             /\ Cardinality({n \in DOMAIN full[x] : full[x][n] = b})
                  = IF x = <<pages[b].owner, pages[b].class>> /\ pages[b].free = {} THEN 1 ELSE 0
  <2>1. x = <<pages[b].owner, pages[b].class>> <=> pages[b].owner = x[1] /\ pages[b].class = x[2]
    BY SMT DEF Caches
  <2>2. /\ b \in PagesOn(pages, x, FALSE) <=> x = <<pages[b].owner, pages[b].class>> /\ pages[b].free # {}
        /\ b \in PagesOn(pages, x, TRUE) <=> x = <<pages[b].owner, pages[b].class>> /\ pages[b].free = {}
    BY <2>1, SMT DEF PagesOn, On
  <2>3. IsList(partial[x], PagesOn(pages, x, FALSE)) /\ IsList(full[x], PagesOn(pages, x, TRUE))
    BY <1>1 DEF AreLists
  <2>4. /\ b \in PagesOn(pages, x, FALSE) => Count(partial[x], b) = 1
        /\ b \notin PagesOn(pages, x, FALSE) => Count(partial[x], b) = 0
        /\ b \in PagesOn(pages, x, TRUE) => Count(full[x], b) = 1
        /\ b \notin PagesOn(pages, x, TRUE) => Count(full[x], b) = 0
    BY <2>3, ListOn
  <2>5. /\ Count(partial[x], b) = IF x = <<pages[b].owner, pages[b].class>> /\ pages[b].free # {} THEN 1 ELSE 0
        /\ Count(full[x], b) = IF x = <<pages[b].owner, pages[b].class>> /\ pages[b].free = {} THEN 1 ELSE 0
    BY <2>2, <2>4
  <2> QED
    BY <2>5 DEF Count
<1>3. ASSUME NEW b \in DOMAIN pages, NEW k \in slab_page_init(pages[b].class)
      PROVE  Cardinality({obj \in objects : obj.page = b /\ obj.k = k}) = IF k \in pages[b].free THEN 0 ELSE 1
  <2>1. CASE k \in pages[b].free
    <3>1. {obj \in objects : obj.page = b /\ obj.k = k} = {}
      BY <1>1, <2>1, SMT DEF ObjectsSound
    <3> QED
      BY <2>1, <3>1, FS_EmptySet
  <2>2. CASE k \notin pages[b].free
    <3>1. PICK o \in objects : o.page = b /\ o.k = k
      BY <1>1, <2>2, SMTT(40) DEF ObjectsSound
    <3>2. {obj \in objects : obj.page = b /\ obj.k = k} = {o}
      BY <1>1, <3>1, SMT DEF ObjectsSound
    <3> QED
      BY <2>2, <3>2, FS_Singleton
  <2> QED
    BY <2>1, <2>2, SMTT(40)
<1>4. \A obj \in objects : obj.page \in DOMAIN pages /\ obj.size <= OBJ_SIZES[pages[obj.page].class]
  BY <1>1 DEF ObjectsSound
<1>5. call[BSP].pc # "idle" /\ IsSmall(call[BSP].size) =>
         \A b \in DOMAIN pages : pages[b].class = ClassOf(call[BSP].size) => pages[b].free = {}
  BY <1>1 DEF PendingSound, Pending
<1> QED
  BY <1>2, <1>3, <1>4, <1>5 DEF SlabSound, Page

LEMMA slab_allocLists ==
  ASSUME BlocksSound, ListsSound, NEW i \in Classes, slab_alloc(BSP, OBJ_SIZES[i])
  PROVE  ListsSound'
<1> DEFINE size == OBJ_SIZES[i]
           class == ClassOf(size)
           x == CacheOf(BSP, class)
           shared == <<GLOBAL, class>>
           ini == initialized[BSP]
<1>1. /\ PagesSound(pages, ini) /\ ObjectsSound(pages, objects)
      /\ AreLists(pages, partial, FALSE) /\ AreLists(pages, full, TRUE)
  BY Zenon DEF ListsSound
<1>2. /\ BSP \in CPUs /\ ini \in BOOLEAN /\ initialized' = initialized /\ call[BSP].pc = "idle"
      /\ blocks' = blocks /\ held' = held
  <2>1. BSP \in CPUs
    BY SlabAssumption
  <2>2. initialized \in [CPUs -> BOOLEAN]
    BY <2>1, SlabMember, NowFacts, Zenon DEF BlocksSound
  <2> QED
    BY <2>1, <2>2 DEF slab_alloc
<1>3. class \in Classes /\ size <= OBJ_SIZES[class]
  BY ClassOfSize
<1>4. /\ x \in Caches /\ shared \in Caches /\ x[2] = class /\ shared[2] = class /\ shared[1] = GLOBAL
      /\ (ini => x[1] = BSP) /\ (~ini => x = shared)
  BY <1>2, <1>3 DEF Caches, CacheOf
<1>5. ASSUME call' = call, PagesSound(pages', ini), ObjectsSound(pages', objects'),
             AreLists(pages', partial', FALSE), AreLists(pages', full', TRUE)
      PROVE  ListsSound'
  <2>1. PendingSound(pages', call[BSP])
    BY <1>2 DEF PendingSound, Pending
  <2> QED
    BY <1>2, <1>5, <2>1, Zenon DEF ListsSound
<1> HIDE DEF x, size, class, ini, shared
<1>6. CASE partial[x] # <<>> /\ TakeObject(x, pages, partial, size) /\ UNCHANGED <<free_area, free_area_size, call>>
  <2>1. size <= OBJ_SIZES[x[2]] /\ call' = call
    BY <1>3, <1>4, <1>6
  <2>2. /\ PagesSound(pages', ini) /\ ObjectsSound(pages', objects')
        /\ AreLists(pages', partial', FALSE) /\ AreLists(pages', full', TRUE)
    BY <1>1, <1>4, <1>6, <2>1, TakeStep, Zenon
  <2> QED
    BY <1>5, <2>1, <2>2
<1>7. CASE /\ partial[x] = <<>> /\ partial[shared] # <<>>
           /\ LET block == Head(partial[shared])
              IN  TakeObject(x, AdoptPage(BSP, block),
                             [partial EXCEPT ![shared] = list_remove(@, block),
                                             ![x] = list_push(@, block)], size)
           /\ UNCHANGED <<free_area, free_area_size, call>>
  <2>1. PICK b : b = Head(partial[shared])
    OBVIOUS
  <2>2. PICK qs : qs = [pages EXCEPT ![b].owner = BSP]
    BY Zenon
  <2>3. PICK ql : ql = [partial EXCEPT ![shared] = list_remove(@, b), ![x] = list_push(@, b)]
    BY Zenon
  <2>4. ini = TRUE
    BY <1>2, <1>4, <1>7, SMTT(40)
  <2>4a. IsHead(b, partial[shared]) /\ Adopted(pages, qs, b) /\ Moved(partial, ql, shared, x, b)
    BY <1>7, <2>1, <2>2, <2>3 DEF IsHead, Adopted, Moved
  <2>5. PagesSound(pages, TRUE) /\ x[1] = BSP /\ shared[2] = x[2] /\ size <= OBJ_SIZES[x[2]] /\ call' = call
    BY <1>1, <1>3, <1>4, <1>7, <2>4, Zenon
  <2>6. /\ PagesSound(qs, TRUE) /\ ObjectsSound(qs, objects)
        /\ AreLists(qs, ql, FALSE) /\ AreLists(qs, full, TRUE) /\ ql[x] # <<>>
    BY <1>1, <1>4, <2>4a, <2>5, AdoptStep, Zenon
  <2>7. TakeObject(x, qs, ql, size)
    BY <1>7, <2>1, <2>2, <2>3 DEF AdoptPage
  <2>8. /\ PagesSound(pages', TRUE) /\ ObjectsSound(pages', objects')
        /\ AreLists(pages', partial', FALSE) /\ AreLists(pages', full', TRUE)
    BY <1>4, <2>5, <2>6, <2>7, TakeStep, Zenon
  <2> QED
    BY <1>5, <2>4, <2>5, <2>8
<1>8. CASE /\ partial[x] = <<>> /\ partial[shared] = <<>>
           /\ \E j \in 0 .. pool - 1 :
                /\ buddy_alloc(UNIT, <<0, j>>)
                /\ TakeObject(x, alloc_raw_page(x, <<0, j>>),
                              [partial EXCEPT ![x] = list_push(@, <<0, j>>)], size)
           /\ UNCHANGED call
  <2>1. PICK j \in 0 .. pool - 1 :
                /\ buddy_alloc(UNIT, <<0, j>>)
                /\ TakeObject(x, alloc_raw_page(x, <<0, j>>),
                              [partial EXCEPT ![x] = list_push(@, <<0, j>>)], size)
    BY <1>8, Zenon
  <2>2. PICK b : b = <<0, j>>
    BY Zenon
  <2>3. PICK qs : qs = alloc_raw_page(x, b)
    OBVIOUS
  <2>4. PICK ql : ql = [partial EXCEPT ![x] = list_push(@, b)]
    BY Zenon
  <2>5. Pushed(partial, ql, x, b)
    BY <2>4 DEF Pushed
  <2>6. Repaged(pages, qs, b, FreshPage(x)) /\ DOMAIN qs = DOMAIN pages \cup {b}
    BY <2>3 DEF alloc_raw_page, Repaged, FreshPage
  <2>7. alloc_block(0, b) /\ 0 \in Orders /\ UNCHANGED <<initialized, blocks, call, held>>
    BY <1>2, <1>8, <2>1, <2>2, UnitOrder DEF buddy_alloc
  <2>8. b \notin DOMAIN pages
    <3>1. max_order \in 0 .. MAX_ORDER /\ Now(max_order, Slabs(pages))
      BY MaxOrder DEF BlocksSound
    <3> QED
      BY <1>2, <2>6, <2>7, <3>1, NewPage, Zenon
  <2>9. OwnCache(x, ini)
    BY <1>2, <1>4 DEF OwnCache
  <2>10. /\ PagesSound(qs, ini) /\ ObjectsSound(qs, objects)
         /\ AreLists(qs, ql, FALSE) /\ AreLists(qs, full, TRUE) /\ ql[x] # <<>>
    BY <1>1, <1>4, <2>5, <2>6, <2>8, <2>9, NewStep, Zenon
  <2>11. TakeObject(x, qs, ql, size) /\ size <= OBJ_SIZES[x[2]] /\ call' = call
    BY <1>3, <1>4, <1>8, <2>1, <2>2, <2>3, <2>4
  <2>12. /\ PagesSound(pages', ini) /\ ObjectsSound(pages', objects')
         /\ AreLists(pages', partial', FALSE) /\ AreLists(pages', full', TRUE)
    BY <1>4, <2>10, <2>11, TakeStep, Zenon
  <2> QED
    BY <1>5, <2>11, <2>12
<1>9. CASE /\ partial[x] = <<>> /\ partial[shared] = <<>>
           /\ buddy_alloc_NULL(UNIT)
           /\ call' = [call EXCEPT ![BSP] = [Idle EXCEPT !.size = size, !.pc = "pool"]]
           /\ UNCHANGED slab_vars
  <2>1. UNCHANGED <<pages, partial, full, objects>>
    BY <1>9 DEF slab_vars
  <2>2. call'[BSP].size = size
    <3>1. call \in [CPUs -> Calls]
      BY <1>2, SlabMember, NowFacts, Zenon DEF BlocksSound
    <3> QED
      BY <1>2, <1>9, <3>1, SMTT(40) DEF Idle
  <2>3. ASSUME NEW b \in DOMAIN pages, pages[b].class = class PROVE pages[b].free = {}
    <3> SUFFICES ASSUME pages[b].free # {} PROVE FALSE
      OBVIOUS
    <3>1. PageSound(pages[b], ini)
      BY <1>1, Zenon DEF PagesSound
    <3>2. On(pages[b], x, FALSE) \/ On(pages[b], shared, FALSE)
      BY <1>4, <2>3, <3>1 DEF On, PageSound
    <3>3. PagesOn(pages, x, FALSE) = {} /\ PagesOn(pages, shared, FALSE) = {}
      BY <1>1, <1>4, <1>9, ListEmpty, Zenon DEF AreLists
    <3> QED
      BY <3>2, <3>3, Zenon DEF PagesOn
  <2>4. PendingSound(pages, call'[BSP])
    BY <2>2, <2>3 DEF PendingSound, class
  <2> QED
    BY <1>1, <1>2, <2>1, <2>4, Zenon DEF ListsSound, ini
<1> QED
  BY <1>6, <1>7, <1>8, <1>9, Zenon DEF slab_alloc, x, size, class, shared

\* Before slab_cpu_init the CPU has no pages.
LEMMA slab_cpu_initLists ==
  ASSUME BlocksSound, ListsSound, NEW c \in CPUs, slab_cpu_init(c)
  PROVE  ListsSound'
<1>1. /\ PagesSound(pages, initialized[BSP]) /\ ObjectsSound(pages, objects)
      /\ AreLists(pages, partial, FALSE) /\ AreLists(pages, full, TRUE) /\ PendingSound(pages, call[BSP])
  BY Zenon DEF ListsSound
<1>2. /\ pages' = pages /\ objects' = objects /\ call' = call /\ ~initialized[c]
      /\ initialized' = [initialized EXCEPT ![c] = TRUE]
      /\ partial' = [x \in Caches |-> IF x[1] = c THEN <<>> ELSE partial[x]]
      /\ full' = [x \in Caches |-> IF x[1] = c THEN <<>> ELSE full[x]]
  BY DEF slab_cpu_init, cpu_pool_init
<1>3. BSP \in CPUs /\ GLOBAL \notin CPUs
  BY SlabAssumption
<1>4. initialized \in [CPUs -> BOOLEAN]
  BY <1>3, SlabMember, NowFacts, Zenon DEF BlocksSound
<1>5. PagesSound(pages, initialized'[BSP])
  <2>1. initialized[BSP] => initialized'[BSP]
    BY <1>2, <1>3, <1>4
  <2> QED
    BY <1>1, <2>1, SMTT(40) DEF PagesSound, PageSound
<1>6. \A b \in DOMAIN pages : pages[b].owner # c
  BY <1>1, <1>2, <1>3, SMTT(40) DEF PagesSound, PageSound
<1>7. ASSUME NEW lists, NEW e, AreLists(pages, lists, e)
      PROVE  AreLists(pages, [x \in Caches |-> IF x[1] = c THEN <<>> ELSE lists[x]], e)
  <2> DEFINE ql == [x \in Caches |-> IF x[1] = c THEN <<>> ELSE lists[x]]
  <2>1. DOMAIN ql = Caches /\ \A x \in Caches : ql[x] = IF x[1] = c THEN <<>> ELSE lists[x]
    OBVIOUS
  <2> HIDE DEF ql
  <2>2. ASSUME NEW x \in Caches PROVE IsList(ql[x], PagesOn(pages, x, e))
    <3>1. CASE x[1] = c
      <4>1. PagesOn(pages, x, e) = {}
        BY <1>6, <3>1 DEF PagesOn, On
      <4>2. ql[x] = <<>>
        BY <2>1, <3>1
      <4> QED
        BY <4>1, <4>2, ListEmpty
    <3>2. CASE x[1] # c
      <4>1. ql[x] = lists[x]
        BY <2>1, <3>2
      <4> QED
        BY <1>7, <4>1, Zenon DEF AreLists
    <3> QED
      BY <3>1, <3>2, SMTT(40)
  <2>3. AreLists(pages, ql, e)
    BY <2>1, <2>2, Zenon DEF AreLists
  <2> QED
    BY <2>3 DEF ql
<1>8. AreLists(pages, partial', FALSE) /\ AreLists(pages, full', TRUE)
  <2>1. /\ AreLists(pages, [x \in Caches |-> IF x[1] = c THEN <<>> ELSE partial[x]], FALSE)
        /\ AreLists(pages, [x \in Caches |-> IF x[1] = c THEN <<>> ELSE full[x]], TRUE)
    BY <1>1, <1>7, Zenon
  <2> QED
    BY <1>2, <2>1, Zenon
<1> QED
  BY <1>1, <1>2, <1>5, <1>8, Zenon DEF ListsSound

\* The steps of a call that the slab allocator had no object for.
Continues(v, w) == Pending(w) => Pending(v) /\ w.size = v.size

LEMMA PendingSteps ==
  ASSUME call \in [CPUs -> Calls], NEW d \in CPUs,
         \/ \E size \in SIZES : kmalloc(d, size)
         \/ cpu_pool_alloc(d) \/ refill(d) \/ refilled(d) \/ kmalloc_direct(d)
         \/ \E h \in held : kfree(d, h)
         \/ flush(d)
  PROVE  Continues(call[d], call'[d])
<1>1. call[d] \in Calls
  OBVIOUS
<1>2. Idle.pc = "idle"
  BY DEF Idle
<1>3. call' = [call EXCEPT ![d] = Idle] => Continues(call[d], call'[d])
  BY <1>2 DEF Continues, Pending
<1>4. \A b : Return(d, b) => Continues(call[d], call'[d])
  BY <1>3, Zenon DEF Return
<1>5. \A pc, o, n : call[d].pc # "idle" /\ Goto(d, pc, o, n) => Continues(call[d], call'[d])
  BY <1>1 DEF Goto, Continues, Pending, Calls
<1>6. call[d].pc # "idle" /\ PoolFailed(d) => Continues(call[d], call'[d])
  BY <1>5, Zenon DEF PoolFailed
<1>7. CASE \E size \in SIZES : kmalloc(d, size)
  <2>1. PICK size \in SIZES : kmalloc(d, size)
    BY <1>7
  <2>2. call'[d].size = size
    BY <2>1, Zenon DEF kmalloc, Idle
  <2>3. ~IsSmall(size)
    BY SlabAssumption, BuddyAssumption DEF IsSmall
  <2> QED
    BY <2>2, <2>3, SMTT(40) DEF Continues, Pending
<1>8. CASE cpu_pool_alloc(d)
  <2>1. call[d].pc # "idle"
    BY <1>8 DEF cpu_pool_alloc
  <2> QED
    BY <1>4, <1>5, <1>6, <1>8, <2>1, Zenon DEF cpu_pool_alloc, FromBuddy, PopBlock
<1>9. CASE refill(d)
  <2>1. call[d].pc # "idle"
    BY <1>9, Zenon DEF refill
  <2> QED
    BY <1>5, <1>9, <2>1, Zenon DEF refill
<1>10. CASE refilled(d)
  <2>1. call[d].pc # "idle"
    BY <1>10 DEF refilled
  <2> QED
    BY <1>4, <1>6, <1>10, <2>1, Zenon DEF refilled, FromBuddy, PopBlock
<1>11. CASE kmalloc_direct(d)
  BY <1>3, <1>4, <1>11, Zenon DEF kmalloc_direct, FromBuddy
<1>12. CASE \E h \in held : kfree(d, h)
  <2>1. PICK h \in held : kfree(d, h)
    BY <1>12
  <2>2. CASE call' = call
    BY <2>2, SMTT(40) DEF Continues
  <2>3. CASE call' = [call EXCEPT ![d] = [Idle EXCEPT !.pc = "flush", !.order = h.block[1], !.block = h.block]]
    <3>1. call'[d].size = 0
      BY <2>3 DEF Idle
    <3>2. ~IsSmall(0)
      BY DEF IsSmall
    <3> QED
      BY <3>1, <3>2 DEF Continues, Pending
  <2> QED
    BY <2>1, <2>2, <2>3, Zenon DEF kfree
<1>13. CASE flush(d)
  <2>1. call[d].pc # "idle"
    BY <1>13, Zenon DEF flush
  <2> QED
    BY <1>3, <1>5, <1>13, <2>1, Zenon DEF flush
<1> QED
  BY <1>7, <1>8, <1>9, <1>10, <1>11, <1>12, <1>13, Zenon

LEMMA NextLists == ASSUME BlocksSound, ListsSound, [Next]_vars PROVE ListsSound'
<1>1. BSP \in CPUs
  BY SlabAssumption
<1>2. call \in [CPUs -> Calls]
  BY <1>1, SlabMember, NowFacts, Zenon DEF BlocksSound
<1>3. CASE BuddyNext /\ UNCHANGED slab_vars
  <2>1. PICK d \in CPUs :
             \/ \E size \in SIZES : kmalloc(d, size)
             \/ cpu_pool_alloc(d) \/ refill(d) \/ refilled(d) \/ kmalloc_direct(d)
             \/ \E h \in held : kfree(d, h)
             \/ flush(d)
    BY <1>3, Zenon DEF BuddyNext
  <2>2. Continues(call[BSP], call'[BSP])
    <3>1. CASE d = BSP
      BY <1>2, <2>1, <3>1, PendingSteps, Zenon
    <3>2. CASE d # BSP
      <4>1. call'[BSP] = call[BSP]
        BY <1>1, <1>2, <2>1, <3>2, OtherCalls, Zenon
      <4> QED
        BY <4>1 DEF Continues
    <3> QED
      BY <3>1, <3>2
  <2>3. UNCHANGED <<pages, partial, full, objects>>
    BY <1>3 DEF slab_vars
  <2>4. initialized' = initialized
    BY <2>1, Zenon DEF kmalloc, cpu_pool_alloc, refill, refilled, kmalloc_direct, kfree, flush
  <2>5. PendingSound(pages, call'[BSP])
    <3>1. PendingSound(pages, call[BSP])
      BY DEF ListsSound
    <3> QED
      BY <2>2, <3>1, Zenon DEF PendingSound, Continues
  <2> QED
    BY <2>3, <2>4, <2>5, Zenon DEF ListsSound
<1>4. ASSUME NEW i \in Classes, slab_alloc(BSP, OBJ_SIZES[i]) PROVE ListsSound'
  BY <1>4, slab_allocLists
<1>5. ASSUME NEW obj \in objects, slab_free(BSP, obj) PROVE ListsSound'
  BY <1>5, slab_freeLists
<1>6. ASSUME NEW c \in CPUs, slab_cpu_init(c) PROVE ListsSound'
  BY <1>6, slab_cpu_initLists
<1>7. CASE UNCHANGED <<buddy_vars, slab_vars>>
  BY <1>7, Zenon DEF slab_vars, buddy_vars, ListsSound
<1> QED
  BY <1>3, <1>4, <1>5, <1>6, <1>7, NextSteps, Zenon DEF Ordinary

\* Whatever slab_alloc, slab_free and slab_cpu_init do, a page is on the list that its owner, its size
\* and its free objects ask for, and the objects that are not free are those of the callers, until
\* the data of a block that begins with SLAB_MAGIC are used as the header of a page.
THEOREM ListsStaySound == Spec => []ListsSound
<1> QED
  BY BlocksStaySound, InitLists, NextLists, PTL DEF Spec

\* Every slab page is on exactly one list, of its cache, and on the right one; every object is free or
\* has one owner, whose request it holds; and kmalloc leaves the slab allocator only when it has no
\* object for the request.
THEOREM SlabStaysSound == Spec => []SlabSound
<1> QED
  BY ListsStaySound, ListsProperty, PTL
=============================================================================
