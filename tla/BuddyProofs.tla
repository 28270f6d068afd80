----------------------------- MODULE BuddyProofs -----------------------------
(***************************************************************************)
(* The blocks of the kernel's memory: the invariant of AllocProofs is kept *)
(* by the steps of kfree as well, and by those of the slab allocator, with *)
(* the slab pages as one more place for blocks.  From it follow that the   *)
(* memory is partitioned, that free buddies are merged, that the counters  *)
(* agree, that results fit their requests, and that buddy_alloc returns    *)
(* NULL only when no memory is free.  First come the lists of slab pages,  *)
(* for SlabProofs.                                                         *)
(***************************************************************************)
EXTENDS Slab, AllocProofs

-----------------------------------------------------------------------------
(* The lists of slab pages: what list_push and list_remove do to one.      *)

\* The list has every page of C once, and no other.
IsList(l, C) ==
  /\ l \in Seq(C)
  /\ \A b \in C : \E n \in 1 .. Len(l) : l[n] = b
  /\ \A m, n \in 1 .. Len(l) : l[m] = l[n] => m = n

LEMMA ListEmpty ==
  /\ IsList(<<>>, {})
  /\ \A l, C : IsList(l, C) /\ l = <<>> => C = {}
  /\ \A l, C : IsList(l, C) /\ l # <<>> => Head(l) \in C
<1>1. IsList(<<>>, {})
  BY DEF IsList
<1>2. ASSUME NEW l, NEW C, IsList(l, C), l = <<>> PROVE C = {}
  BY <1>2 DEF IsList
<1>3. ASSUME NEW l, NEW C, IsList(l, C), l # <<>> PROVE Head(l) \in C
  BY <1>3 DEF IsList
<1> QED
  BY <1>1, <1>2, <1>3, Zenon

LEMMA ListPush ==
  ASSUME NEW l, NEW C, IsList(l, C), NEW b, b \notin C
  PROVE  /\ IsList(list_push(l, b), C \cup {b})
         /\ Head(list_push(l, b)) = b /\ list_push(l, b) # <<>>
<1> DEFINE r == list_push(l, b)
<1>1. l \in Seq(C) /\ Len(l) \in Nat /\ l \in Seq(C \cup {b}) /\ <<b>> \in Seq(C \cup {b})
  BY DEF IsList
<1>2. /\ r \in Seq(C \cup {b}) /\ Len(r) = Len(l) + 1 /\ r[1] = b
      /\ \A n \in 1 .. Len(l) : r[n + 1] = l[n]
  BY <1>1 DEF list_push
<1>3. \A n \in 1 .. Len(l) : l[n] \in C
  BY <1>1
<1> HIDE DEF r
<1>4. \A m \in 1 .. Len(r) : m = 1 \/ (m - 1 \in 1 .. Len(l) /\ r[m] = l[m - 1])
  <2>1. ASSUME NEW m \in 1 .. Len(r), m # 1 PROVE m - 1 \in 1 .. Len(l) /\ r[m] = l[m - 1]
    <3>1. m - 1 \in 1 .. Len(l) /\ (m - 1) + 1 = m
      BY <1>1, <1>2, <2>1
    <3> QED
      BY <1>2, <3>1
  <2> QED
    BY <2>1
<1>5. ASSUME NEW a \in C \cup {b} PROVE \E n \in 1 .. Len(r) : r[n] = a
  <2>1. CASE a = b
    BY <1>1, <1>2, <2>1
  <2>2. CASE a \in C
    <3>1. PICK n \in 1 .. Len(l) : l[n] = a
      BY <2>2 DEF IsList
    <3>2. n + 1 \in 1 .. Len(r)
      BY <1>1, <1>2, SMTT(40)
    <3> QED
      BY <1>2, <3>1, <3>2
  <2> QED
    BY <2>1, <2>2
<1>6. ASSUME NEW m \in 1 .. Len(r), NEW n \in 1 .. Len(r), r[m] = r[n] PROVE m = n
  <2>1. CASE m = 1 \/ n = 1
    BY <1>2, <1>3, <1>4, <1>6, <2>1
  <2>2. CASE m # 1 /\ n # 1
    <3>1. m - 1 \in 1 .. Len(l) /\ n - 1 \in 1 .. Len(l) /\ l[m - 1] = l[n - 1]
      BY <1>4, <1>6, <2>2, SMTT(40)
    <3>2. m - 1 = n - 1
      BY <3>1, Zenon DEF IsList
    <3> QED
      BY <1>1, <1>2, <3>2, SMTT(40)
  <2> QED
    BY <2>1, <2>2
<1>7. IsList(r, C \cup {b})
  BY <1>2, <1>5, <1>6, Zenon DEF IsList
<1>8. Head(r) = b /\ r # <<>>
  BY <1>1, <1>2, SMTT(40)
<1> QED
  BY <1>7, <1>8, SMTT(40) DEF r

LEMMA ListRemove ==
  ASSUME NEW l, NEW C, IsList(l, C), NEW b \in C
  PROVE  IsList(list_remove(l, b), C \ {b})
<1>1. l \in Seq(C) /\ Len(l) \in Nat /\ DOMAIN l = 1 .. Len(l)
  BY DEF IsList
<1>2. \E n \in DOMAIN l : l[n] = b
  BY <1>1 DEF IsList
<1>3. PICK p : p = CHOOSE n \in DOMAIN l : l[n] = b
  OBVIOUS
<1>4. p \in 1 .. Len(l) /\ l[p] = b
  BY <1>1, <1>2, <1>3, Zenon
<1> DEFINE r == SubSeq(l, 1, p - 1) \o SubSeq(l, p + 1, Len(l))
<1>5. list_remove(l, b) = r
  BY <1>2, <1>3, Zenon DEF list_remove
<1>6. /\ Len(r) = Len(l) - 1 /\ r \in Seq(C)
      /\ \A n \in 1 .. Len(r) : r[n] = IF n < p THEN l[n] ELSE l[n + 1]
  <2> DEFINE s == SubSeq(l, 1, p - 1)
             t == SubSeq(l, p + 1, Len(l))
  <2>1. s \in Seq(C) /\ Len(s) = p - 1 /\ \A n \in 1 .. p - 1 : s[n] = l[n]
    BY <1>1, <1>4
  <2>2. t \in Seq(C) /\ Len(t) = Len(l) - p /\ \A n \in 1 .. Len(l) - p : t[n] = l[n + p]
    <3>1. PICK q : q = p + 1
      OBVIOUS
    <3>2. q \in 1 .. Len(l) + 1 /\ Len(l) \in q - 1 .. Len(l)
      BY <1>1, <1>4, <3>1
    <3>3. /\ SubSeq(l, q, Len(l)) \in Seq(C) /\ Len(SubSeq(l, q, Len(l))) = (Len(l) - q) + 1
          /\ \A n \in 1 .. (Len(l) - q) + 1 : SubSeq(l, q, Len(l))[n] = l[(q + n) - 1]
      BY <1>1, <3>2, SubSeqProperties
    <3>4. (Len(l) - q) + 1 = Len(l) - p /\ \A n \in 1 .. Len(l) - p : (q + n) - 1 = n + p
      BY <1>1, <1>4, <3>1
    <3> QED
      BY <3>1, <3>3, <3>4
  <2> HIDE DEF s, t
  <2>3. Len(s \o t) = Len(l) - 1 /\ s \o t \in Seq(C)
    <3>1. s \o t \in Seq(C) /\ Len(s \o t) = Len(s) + Len(t)
      BY <2>1, <2>2, ConcatProperties, Zenon
    <3> QED
      BY <1>1, <1>4, <2>1, <2>2, <3>1
  <2>4. ASSUME NEW n \in 1 .. Len(s \o t) PROVE (s \o t)[n] = IF n < p THEN l[n] ELSE l[n + 1]
    <3>1. (s \o t)[n] = IF n <= Len(s) THEN s[n] ELSE t[n - Len(s)]
      BY <2>1, <2>2, <2>3, <2>4
    <3>2. CASE n < p
      BY <1>1, <1>4, <2>1, <2>3, <3>1, <3>2
    <3>3. CASE ~(n < p)
      <4>1. n - (p - 1) \in 1 .. Len(l) - p /\ (n - (p - 1)) + p = n + 1 /\ ~(n <= p - 1)
        BY <1>1, <1>4, <2>3, <3>3
      <4>2. t[n - (p - 1)] = l[n + 1]
        BY <2>2, <4>1, SMTT(40)
      <4> QED
        BY <2>1, <3>1, <3>3, <4>1, <4>2
    <3> QED
      BY <3>2, <3>3
  <2> QED
    BY <2>3, <2>4, SMTT(40) DEF s, t
<1> HIDE DEF r
<1>7. \A m, n \in 1 .. Len(l) : l[m] = l[n] => m = n
  BY Zenon DEF IsList
<1> DEFINE at(n) == IF n < p THEN n ELSE n + 1
<1>8. \A n \in 1 .. Len(r) : at(n) \in 1 .. Len(l) /\ at(n) # p /\ r[n] = l[at(n)]
  BY <1>1, <1>4, <1>6
<1>9. \A m, n \in 1 .. Len(r) : at(m) = at(n) => m = n
  BY <1>1, <1>4, <1>6, SMTT(40)
<1>10. \A m \in 1 .. Len(l) : m # p => \E n \in 1 .. Len(r) : at(n) = m
  <2>1. ASSUME NEW m \in 1 .. Len(l), m < p PROVE \E n \in 1 .. Len(r) : at(n) = m
    <3>1. m \in 1 .. Len(r)
      BY <1>1, <1>4, <1>6, <2>1, SMTT(40)
    <3> QED
      BY <2>1, <3>1
  <2>2. ASSUME NEW m \in 1 .. Len(l), m > p PROVE \E n \in 1 .. Len(r) : at(n) = m
    <3>1. m - 1 \in 1 .. Len(r) /\ ~(m - 1 < p) /\ (m - 1) + 1 = m
      BY <1>1, <1>4, <1>6, <2>2
    <3> QED
      BY <3>1
  <2> QED
    BY <1>1, <1>4, <2>1, <2>2, SMTT(40)
<1> HIDE DEF at
<1>11. \A n \in 1 .. Len(r) : r[n] \in C \ {b}
  BY <1>1, <1>4, <1>7, <1>8
<1>12. r \in Seq(C \ {b})
  BY <1>6, <1>11
<1>13. \A a \in C \ {b} : \E n \in 1 .. Len(r) : r[n] = a
  <2> TAKE a \in C \ {b}
  <2>1. PICK m \in 1 .. Len(l) : l[m] = a
    BY DEF IsList
  <2>2. m # p
    BY <1>4, <2>1, SMTT(40)
  <2> QED
    BY <1>8, <1>10, <2>1, <2>2, Zenon
<1>14. \A m, n \in 1 .. Len(r) : r[m] = r[n] => m = n
  BY <1>7, <1>8, <1>9, Zenon
<1> QED
  BY <1>5, <1>12, <1>13, <1>14, Zenon DEF IsList

Count(l, b) == Cardinality({n \in DOMAIN l : l[n] = b})

LEMMA ListOn ==
  ASSUME NEW l, NEW C, IsList(l, C), NEW b
  PROVE  (b \in C => Count(l, b) = 1) /\ (b \notin C => Count(l, b) = 0)
<1>1. DOMAIN l = 1 .. Len(l) /\ \A n \in 1 .. Len(l) : l[n] \in C
  BY DEF IsList
<1>2. ASSUME b \in C PROVE Count(l, b) = 1
  <2>1. PICK n \in 1 .. Len(l) : l[n] = b
    BY <1>2, Zenon DEF IsList
  <2>2. \A m \in 1 .. Len(l) : l[m] = b => m = n
    BY <2>1, Zenon DEF IsList
  <2>3. {m \in DOMAIN l : l[m] = b} = {n}
    BY <1>1, <2>1, <2>2, SMTT(40)
  <2> QED
    BY <2>3, FS_Singleton, Zenon DEF Count
<1>3. ASSUME b \notin C PROVE Count(l, b) = 0
  <2>1. {m \in DOMAIN l : l[m] = b} = {}
    BY <1>1, <1>3
  <2> QED
    BY <2>1, FS_EmptySet DEF Count
<1> QED
  BY <1>2, <1>3, SMTT(40)

-----------------------------------------------------------------------------
(* The steps of kfree, and cpu_pool_init.                                  *)

\* A block that is held is in its place, and gone from it once it is not held.
LEMMA HeldDrop ==
  ASSUME NEW mo \in 0 .. MAX_ORDER, NEW S, IsSlab(S), Now(mo, S), NEW h \in held, NEW hs, hs = held \ {h}, NEW d \in CPUs
  PROVE  /\ Held(h) \in Rest(blocks, call, held, S) /\ Held(h)[2] = h.block /\ h.block \in Blocks
         /\ Rest(blocks, call, hs, S) = Rest(blocks, call, held, S) \ {Held(h)}
         /\ HeldFit(hs)
<1> USE Zenon
<1>1. /\ blocks \in Stacks /\ HeldFit(held)
      /\ Divided(FreePlaces(free_area) \cup Rest(blocks, call, held, S), mo)
  BY NowFacts
<1>2. Held(h) \in HeldPlaces(held) /\ Held(h)[1] = "held" /\ Held(h)[2] = h.block
  BY HeldMember, HeldFields
<1>3. Held(h) \in Rest(blocks, call, held, S)
  BY <1>2 DEF Rest
<1>4. IsBlock(mo, h.block)
  BY <1>1, <1>2, <1>3 DEF Divided
<1>5. h.block \in Blocks
  BY <1>4, BlockTyped
<1>6. Drops(HeldPlaces(held), Held(h), HeldPlaces(hs))
  BY HeldChanges DEF Drops
<1>7. Drops(Rest(blocks, call, held, S), Held(h), Rest(blocks, call, hs, S))
  BY <1>1, <1>2, <1>6, DropHeld
<1>8. HeldFit(hs)
  BY <1>1 DEF HeldFit
<1> QED
  BY <1>2, <1>3, <1>5, <1>7, <1>8 DEF Drops

LEMMA FreeStep ==
  ASSUME pool \in POOLS, NEW mo \in 0 .. MAX_ORDER, mo = max_order, NEW S, IsSlab(S), Now(mo, S), NEW c \in CPUs,
         NEW h \in held, held' = held \ {h}, buddy_free(h.block), UNCHANGED <<initialized, blocks, call>>
  PROVE  After(mo, S)
<1> USE Zenon
<1> DEFINE R == Rest(blocks, call, held, S)
           p == Held(h)
<1>1. /\ blocks \in Stacks /\ call \in [CPUs -> Calls] /\ (\A o \in pool_orders : StackSound(blocks[c][o], o, initialized[c]))
      /\ CallSound(call[c], initialized[c], blocks[c][call[c].order]) /\ call[c] \in Calls
      /\ FreeSound(free_area, free_area_size, mo) /\ Divided(FreePlaces(free_area) \cup R, mo) /\ Taken(R)
  BY NowFacts
<1>2. p \in R /\ p[2] = h.block /\ Rest(blocks, call, held', S) = R \ {p} /\ HeldFit(held')
  BY HeldDrop
<1> HIDE DEF R, p
<1>3. /\ FreeSound(free_area', free_area_size', mo)
      /\ Divided(FreePlaces(free_area') \cup (R \ {p}), mo)
  BY <1>1, <1>2, FreedSound
<1>4. 0 \in pool_orders
  BY SMT DEF pool_orders
<1>5. Changed(initialized, blocks, call, c, call[c], call, 0, blocks[c][0], blocks)
  BY <1>1, <1>4, SameStack, SameCall DEF Changed
<1>6. Divided(FreePlaces(free_area') \cup Rest(blocks, call, held', S), mo)
  BY <1>2, <1>3
<1>7. Sound(mo, free_area', free_area_size', initialized, blocks, call, held', S)
  BY <1>2, <1>3, <1>5, <1>6, SoundStep DEF Now
<1>8. initialized' = initialized /\ blocks' = blocks /\ call' = call
  BY SMT
<1> QED
  BY <1>7, <1>8 DEF After

LEMMA CacheStep ==
  ASSUME NEW mo \in 0 .. MAX_ORDER, NEW S, IsSlab(S), Now(mo, S), NEW c \in CPUs,
         NEW h \in held, held' = held \ {h}, call[c].pc = "idle", initialized[c], UNCHANGED <<initialized, call>>,
         UNCHANGED <<free_area, free_area_size>>,
         h.block[1] \in pool_orders, HasRoom(c, h.block[1]), Pushes(blocks, blocks', c, h.block[1], h.block)
  PROVE  After(mo, S)
<1> USE Zenon
<1> DEFINE R == Rest(blocks, call, held, S)
           p == Held(h)
           o == h.block[1]
           t == Append(blocks[c][o], h.block)
<1>1. /\ blocks \in Stacks /\ call \in [CPUs -> Calls] /\ initialized \in [CPUs -> BOOLEAN] /\ call[c] \in Calls
      /\ StackSound(blocks[c][o], o, initialized[c]) /\ blocks[c][o] \in Seq(Blocks)
      /\ FreeSound(free_area, free_area_size, mo) /\ Divided(FreePlaces(free_area) \cup R, mo) /\ Taken(R)
  BY NowFacts
<1>2. /\ p \in R /\ p[2] = h.block /\ h.block \in Blocks
      /\ Rest(blocks, call, held', S) = R \ {p} /\ HeldFit(held')
  BY HeldDrop
<1>3. PICK q : q[1] = "pool" /\ q[2] = h.block /\ PoolPlaces(blocks') = PoolPlaces(blocks) \cup {q}
  <2>1. PoolGains(blocks, blocks', h.block)
    BY <1>1, <1>2, PushPlaces
  <2> QED
    BY <2>1 DEF PoolGains
<1>4. IsStack(blocks, blocks', c, o, t)
  BY <1>1, <1>2, PushPlaces
<1>5. StackSound(t, o, initialized[c])
  <2>1. initialized[c] = TRUE
    BY <1>1, SMT
  <2> DEFINE s == blocks[c][o]
  <2>2. Len(s) < CACHE_SIZE /\ s \in Seq(Blocks) /\ h.block[1] = o
    BY <1>1 DEF HasRoom
  <2>3. StackSound(s, o, TRUE)
    BY <1>1, <2>1
  <2> HIDE DEF s, o
  <2>4. StackSound(Append(s, h.block), o, TRUE)
    BY <1>2, <2>2, <2>3, PushStack
  <2> QED
    BY <2>1, <2>4 DEF s, o
<1>6. CallSound(call[c], initialized[c], blocks'[c][call[c].order])
  BY SMT DEF CallSound
<1>7. Rest(blocks', call, held', S) = (R \ {p}) \cup {q}
  <2>1. Rest(blocks', call, held', S) = Rest(blocks, call, held', S) \cup {q}
    BY <1>3 DEF Rest
  <2> QED
    BY <1>2, <2>1
<1> HIDE DEF R, p, o, t
<1>8. Divided(FreePlaces(free_area) \cup ((R \ {p}) \cup {q}), mo)
  <2>1. q[2] = p[2]
    BY <1>2, <1>3
  <2> QED
    BY <1>1, <1>2, <2>1, MoveTaken
<1>9. o \in pool_orders
  BY SMT DEF o
<1>10. Changed(initialized, blocks, call, c, call[c], call, o, t, blocks')
  BY <1>1, <1>4, <1>5, <1>6, <1>9, SameCall DEF Changed
<1>11. Divided(FreePlaces(free_area) \cup Rest(blocks', call, held', S), mo)
  BY <1>7, <1>8
<1>12. Sound(mo, free_area, free_area_size, initialized, blocks', call, held', S)
  BY <1>1, <1>2, <1>10, <1>11, SoundStep DEF Now
<1>13. initialized' = initialized /\ call' = call /\ free_area' = free_area /\ free_area_size' = free_area_size
  BY SMT
<1> QED
  BY <1>12, <1>13 DEF After

IsFlush(v, b) == v \in Calls /\ v.pc = "flush" /\ v.order = b[1] /\ v.block = b /\ v.n = 0

LEMMA FlushBeginStep ==
  ASSUME NEW mo \in 0 .. MAX_ORDER, NEW S, IsSlab(S), Now(mo, S), NEW c \in CPUs,
         NEW h \in held, held' = held \ {h}, call[c].pc = "idle", initialized[c],
         UNCHANGED <<initialized, blocks, free_area, free_area_size>>,
         h.block[1] \in pool_orders, ~HasRoom(c, h.block[1]),
         NEW v, IsFlush(v, h.block), call' \in [CPUs -> Calls], IsCall(call, call', c, v)
  PROVE  After(mo, S)
<1> USE Zenon
<1> DEFINE R == Rest(blocks, call, held, S)
           p == Held(h)
           o == h.block[1]
<1>1. /\ blocks \in Stacks /\ call \in [CPUs -> Calls] /\ initialized \in [CPUs -> BOOLEAN] /\ call[c] \in Calls
      /\ StackSound(blocks[c][o], o, initialized[c]) /\ blocks[c][o] \in Seq(Blocks)
      /\ FreeSound(free_area, free_area_size, mo) /\ Divided(FreePlaces(free_area) \cup R, mo) /\ Taken(R)
  BY NowFacts
<1>2. /\ p \in R /\ p[2] = h.block /\ h.block \in Blocks
      /\ Rest(blocks, call, held', S) = R \ {p} /\ HeldFit(held')
  BY HeldDrop
<1>3. v \in Calls /\ v.pc = "flush" /\ v.order = o /\ v.block = h.block /\ v.n = 0
  BY DEF IsFlush
<1>4. call' \in [CPUs -> Calls] /\ IsCall(call, call', c, v)
  BY SMT
<1>5. Len(blocks[c][o]) = CACHE_SIZE
  <2>1. Len(blocks[c][o]) \in Nat
    BY <1>1, SMT
  <2>2. ~(Len(blocks[c][o]) < CACHE_SIZE) /\ Len(blocks[c][o]) <= CACHE_SIZE
    BY <1>1 DEF HasRoom, StackSound
  <2> QED
    BY <2>1, <2>2, Bounds, SMT
<1>6. CallSound(v, initialized[c], blocks[c][v.order])
  <2>1. v.n <= CACHE_SIZE \div 2 /\ CACHE_SIZE = CACHE_SIZE - v.n
    BY <1>3, Bounds, SMT
  <2> QED
    BY <1>3, <1>5, <2>1, SMT DEF CallSound
<1>7. PICK q : q[2] = h.block /\ FlushPlaces(call') = FlushPlaces(call) \cup {q}
  <2>1. call[c].pc # "flush"
    BY SMT
  <2>2. FlushGains(call, call', v.block)
    BY <1>3, <2>1, FlushBegins
  <2> QED
    BY <1>3, <2>2 DEF FlushGains
<1>8. Rest(blocks, call', held', S) = (R \ {p}) \cup {q}
  <2>1. Rest(blocks, call', held', S) = Rest(blocks, call, held', S) \cup {q}
    BY <1>7 DEF Rest
  <2> QED
    BY <1>2, <2>1
<1> HIDE DEF R, p
<1>9. Divided(FreePlaces(free_area) \cup ((R \ {p}) \cup {q}), mo)
  <2>1. q[2] = p[2]
    BY <1>2, <1>7
  <2> QED
    BY <1>1, <1>2, <2>1, MoveTaken
<1>10. Changed(initialized, blocks, call, c, v, call', o, blocks[c][o], blocks)
  BY <1>1, <1>3, <1>4, <1>6, SameStack DEF Changed
<1>11. Divided(FreePlaces(free_area) \cup Rest(blocks, call', held', S), mo)
  BY <1>8, <1>9
<1>12. Sound(mo, free_area, free_area_size, initialized, blocks, call', held', S)
  BY <1>1, <1>2, <1>10, <1>11, SoundStep DEF Now
<1>13. initialized' = initialized /\ blocks' = blocks /\ free_area' = free_area /\ free_area_size' = free_area_size
  BY SMT
<1> QED
  BY <1>12, <1>13 DEF After

LEMMA kfreeSound ==
  ASSUME pool \in POOLS, NEW mo \in 0 .. MAX_ORDER, mo = max_order, NEW S, IsSlab(S), Now(mo, S), NEW c \in CPUs,
         NEW h \in held, kfree(c, h)
  PROVE  After(mo, S)
<1> USE Zenon
<1> DEFINE o == h.block[1]
<1>1. call[c].pc = "idle" /\ held' = held \ {h} /\ initialized' = initialized
  BY SMT DEF kfree
<1>2. \/ buddy_free(h.block) /\ UNCHANGED <<blocks, call>>
      \/ /\ o \in pool_orders /\ initialized[c] /\ HasRoom(c, o)
         /\ blocks' = [blocks EXCEPT ![c][o] = Append(@, h.block)]
         /\ UNCHANGED <<free_area, free_area_size, call>>
      \/ /\ o \in pool_orders /\ initialized[c] /\ ~HasRoom(c, o)
         /\ call' = [call EXCEPT ![c] = [Idle EXCEPT !.pc = "flush", !.order = o, !.block = h.block]]
         /\ UNCHANGED <<free_area, free_area_size, blocks>>
  BY DEF kfree
<1>3. CASE buddy_free(h.block) /\ UNCHANGED <<blocks, call>>
  <2>1. UNCHANGED <<initialized, blocks, call>>
    BY <1>1, <1>3, SMT
  <2> QED
    BY <1>1, <1>3, <2>1, FreeStep
<1>4. CASE /\ o \in pool_orders /\ initialized[c] /\ HasRoom(c, o)
           /\ blocks' = [blocks EXCEPT ![c][o] = Append(@, h.block)]
           /\ UNCHANGED <<free_area, free_area_size, call>>
  <2>1. UNCHANGED <<initialized, call>> /\ UNCHANGED <<free_area, free_area_size>>
    BY <1>1, <1>4, SMT
  <2>2. Pushes(blocks, blocks', c, o, h.block)
    BY <1>4 DEF Pushes
  <2>3. o \in pool_orders /\ initialized[c] /\ HasRoom(c, o)
    BY <1>4
  <2> QED
    BY <1>1, <2>1, <2>2, <2>3, CacheStep
<1>5. CASE /\ o \in pool_orders /\ initialized[c] /\ ~HasRoom(c, o)
           /\ call' = [call EXCEPT ![c] = [Idle EXCEPT !.pc = "flush", !.order = o, !.block = h.block]]
           /\ UNCHANGED <<free_area, free_area_size, blocks>>
  <2> DEFINE v == [Idle EXCEPT !.pc = "flush", !.order = o, !.block = h.block]
  <2>1. UNCHANGED <<initialized, blocks, free_area, free_area_size>>
    BY <1>1, <1>5, SMT
  <2>2. h.block \in Blocks
    BY HeldDrop
  <2>3. o \in pool_orders /\ initialized[c] /\ ~HasRoom(c, o) /\ call' = [call EXCEPT ![c] = v]
    BY <1>5
  <2>4. v \in Calls /\ v.pc = "flush" /\ v.order = o /\ v.block = h.block /\ v.n = 0
    BY <2>2, <2>3 DEF Idle, Calls
  <2> HIDE DEF v
  <2>5. call \in [CPUs -> Calls]
    BY NowFacts
  <2>6. call' \in [CPUs -> Calls] /\ IsCall(call, call', c, v)
    BY <2>3, <2>4, <2>5, CallSet
  <2>7. IsFlush(v, h.block)
    BY <2>4 DEF IsFlush
  <2> QED
    BY <1>1, <2>1, <2>3, <2>6, <2>7, FlushBeginStep
<1> QED
  BY <1>2, <1>3, <1>4, <1>5

LEMMA FlushRoundStep ==
  ASSUME pool \in POOLS, NEW mo \in 0 .. MAX_ORDER, mo = max_order, NEW S, IsSlab(S), Now(mo, S), NEW c \in CPUs,
         call[c].pc = "flush", call[c].n < CACHE_SIZE \div 2, initialized' = initialized,
         NEW b, buddy_free(b), blocks[c][call[c].order] # <<>> => Pops(blocks, blocks', c, call[c].order, b),
         Goto(c, "flush", call[c].order, call[c].n + 1)
  PROVE  After(mo, S)
<1> USE Zenon
<1> DEFINE R == Rest(blocks, call, held, S)
           o == call[c].order
           s == blocks[c][o]
           t == SubSeq(s, 1, Len(s) - 1)
           n == call[c].n
<1>1. /\ blocks \in Stacks /\ o \in pool_orders /\ StackSound(s, o, initialized[c]) /\ s \in Seq(Blocks)
      /\ CallSound(call[c], initialized[c], s) /\ n \in Nat
      /\ call \in [CPUs -> Calls] /\ HeldFit(held)
      /\ FreeSound(free_area, free_area_size, mo) /\ Divided(FreePlaces(free_area) \cup R, mo) /\ Taken(R)
  BY NowFacts
<1>2. /\ initialized[c] /\ Len(s) = CACHE_SIZE - n /\ call[c].block[1] = o
  BY <1>1 DEF CallSound
<1>3. s # <<>> /\ n + 1 \in Nat /\ n + 1 <= CACHE_SIZE \div 2
  <2>1. Len(s) # 0
    BY <1>1, <1>2, Bounds, SMT
  <2> QED
    BY <1>1, <2>1, Bounds, SMT
<1>4. Pops(blocks, blocks', c, o, b)
  BY <1>3
<1>5. StackSound(t, o, initialized[c]) /\ Len(t) = Len(s) - 1
  BY <1>1, <1>3, PopStack
<1>6. IsStack(blocks, blocks', c, o, t)
  BY <1>1, <1>4, PopPlaces
<1>7. PICK p \in PoolPlaces(blocks) : p[1] = "pool" /\ p[2] = b /\ PoolPlaces(blocks') = PoolPlaces(blocks) \ {p}
  <2>1. PoolLoses(blocks, blocks', b)
    BY <1>1, <1>4, PopPlaces
  <2> QED
    BY <2>1 DEF PoolLoses
<1>8. p \in R /\ Rest(blocks', call, held, S) = R \ {p}
  <2>1. p \in R
    BY <1>7 DEF Rest
  <2>2. Drops(PoolPlaces(blocks), p, PoolPlaces(blocks'))
    BY <1>7 DEF Drops
  <2>3. Drops(R, p, Rest(blocks', call, held, S))
    BY <1>1, <1>7, <2>2, DropPool
  <2> QED
    BY <2>1, <2>3 DEF Drops
<1>9. PICK v \in Calls : IsGoto(call[c], v, "flush", o, n + 1) /\ IsCall(call, call', c, v)
  <2>1. "flush" \in {"idle", "pool", "refill", "refilled", "direct", "flush"}
    BY SMT
  <2> QED
    BY <1>1, <1>3, <2>1, GotoCall
<1>10. held' = held /\ call' \in [CPUs -> Calls]
  <2>1. "flush" \in {"idle", "pool", "refill", "refilled", "direct", "flush"}
    BY SMT
  <2> QED
    BY <1>1, <1>3, <2>1, GotoCall
<1>11. v.pc = "flush" /\ v.order = o /\ v.n = n + 1 /\ v.block = call[c].block
  BY <1>9 DEF IsGoto
<1>12. CallSound(v, initialized[c], blocks'[c][v.order])
  <2>1. blocks'[c][o] = t
    BY <1>6 DEF IsStack
  <2>2. Len(t) = CACHE_SIZE - (n + 1)
    BY <1>1, <1>2, <1>5, Bounds, SMT
  <2> HIDE DEF t, o, n
  <2>3. /\ v.pc \notin {"pool", "refill", "refilled"}
        /\ v.n <= CACHE_SIZE \div 2 /\ Len(blocks'[c][v.order]) = CACHE_SIZE - v.n /\ v.block[1] = v.order
    BY <1>2, <1>3, <1>11, <2>1, <2>2, SMT
  <2> QED
    BY <1>2, <2>3 DEF CallSound
<1>13. Rest(blocks', call', held', S) = R \ {p}
  <2>1. FlushPlaces(call') = FlushPlaces(call)
    BY <1>9, <1>11, FlushSame
  <2>2. Rest(blocks', call', held', S) = Rest(blocks', call, held, S)
    BY <1>10, <2>1 DEF Rest
  <2> QED
    BY <1>8, <2>2
<1> HIDE DEF R, o, s, t, n
<1>14. /\ FreeSound(free_area', free_area_size', mo)
       /\ Divided(FreePlaces(free_area') \cup (R \ {p}), mo)
  BY <1>1, <1>7, <1>8, FreedSound
<1>15. Changed(initialized, blocks, call, c, v, call', o, t, blocks')
  BY <1>1, <1>5, <1>6, <1>9, <1>10, <1>12 DEF Changed
<1>16. Divided(FreePlaces(free_area') \cup Rest(blocks', call', held', S), mo) /\ HeldFit(held')
  BY <1>1, <1>10, <1>13, <1>14
<1>17. Sound(mo, free_area', free_area_size', initialized, blocks', call', held', S)
  BY <1>14, <1>15, <1>16, SoundStep DEF Now
<1> QED
  BY <1>17 DEF After

LEMMA FlushEndStep ==
  ASSUME NEW mo \in 0 .. MAX_ORDER, NEW S, IsSlab(S), Now(mo, S), NEW c \in CPUs,
         call[c].pc = "flush", ~(call[c].n < CACHE_SIZE \div 2),
         UNCHANGED <<initialized, free_area, free_area_size, held>>,
         Pushes(blocks, blocks', c, call[c].order, call[c].block),
         call' \in [CPUs -> Calls], IsCall(call, call', c, Idle)
  PROVE  After(mo, S)
<1> USE Zenon
<1> DEFINE R == Rest(blocks, call, held, S)
           o == call[c].order
           b == call[c].block
           s == blocks[c][o]
           t == Append(s, b)
           n == call[c].n
<1>1. /\ blocks \in Stacks /\ o \in pool_orders /\ StackSound(s, o, initialized[c]) /\ s \in Seq(Blocks)
      /\ CallSound(call[c], initialized[c], s) /\ n \in Nat /\ initialized \in [CPUs -> BOOLEAN]
      /\ HeldFit(held)
      /\ FreeSound(free_area, free_area_size, mo) /\ Divided(FreePlaces(free_area) \cup R, mo) /\ Taken(R)
  BY NowFacts
<1>2. initialized[c] /\ n <= CACHE_SIZE \div 2 /\ Len(s) = CACHE_SIZE - n /\ b[1] = o
  BY <1>1 DEF CallSound
<1>3. Len(s) < CACHE_SIZE
  BY <1>1, <1>2, Bounds, SMT
<1>4. PICK p \in FlushPlaces(call) : p[1] = "flush" /\ p[2] = b /\ FlushPlaces(call') = FlushPlaces(call) \ {p}
  <2>1. Idle.pc # "flush"
    BY IdleCall, SMT
  <2>2. FlushLoses(call, call', b)
    BY <2>1, FlushEnds
  <2> QED
    BY <2>2 DEF FlushLoses
<1>5. p \in R /\ Rest(blocks, call', held, S) = R \ {p}
  <2>1. p \in R
    BY <1>4 DEF Rest
  <2>2. Drops(FlushPlaces(call), p, FlushPlaces(call'))
    BY <1>4 DEF Drops
  <2>3. Drops(R, p, Rest(blocks, call', held, S))
    BY <1>1, <1>4, <2>2, DropFlush
  <2> QED
    BY <2>1, <2>3 DEF Drops
<1>6. b \in Blocks
  <2>1. IsBlock(mo, b)
    BY <1>1, <1>4, <1>5 DEF Divided
  <2> QED
    BY <2>1, BlockTyped
<1>7. PICK q : q[1] = "pool" /\ q[2] = b /\ PoolPlaces(blocks') = PoolPlaces(blocks) \cup {q}
  <2>1. PoolGains(blocks, blocks', b)
    BY <1>1, <1>6, PushPlaces
  <2> QED
    BY <2>1 DEF PoolGains
<1>8. IsStack(blocks, blocks', c, o, t)
  BY <1>1, <1>6, PushPlaces
<1>9. Rest(blocks', call', held, S) = (R \ {p}) \cup {q}
  <2>1. Rest(blocks', call', held, S) = Rest(blocks, call', held, S) \cup {q}
    BY <1>7 DEF Rest
  <2> QED
    BY <1>5, <2>1
<1> HIDE DEF s, o, b
<1>10. StackSound(t, o, initialized[c])
  <2>1. initialized[c] = TRUE
    BY <1>1, <1>2, SMT
  <2>2. StackSound(s, o, TRUE)
    BY <1>1, <2>1
  <2>3. StackSound(Append(s, b), o, TRUE)
    BY <1>1, <1>2, <1>3, <1>6, <2>2, PushStack
  <2> QED
    BY <2>1, <2>3
<1> HIDE DEF R, t, n
<1>11. Divided(FreePlaces(free_area) \cup ((R \ {p}) \cup {q}), mo)
  <2>1. q[2] = p[2]
    BY <1>4, <1>7
  <2> QED
    BY <1>1, <1>5, <2>1, MoveTaken
<1>12. Changed(initialized, blocks, call, c, Idle, call', o, t, blocks')
  BY <1>1, <1>8, <1>10, IdleCall DEF Changed
<1>13. Divided(FreePlaces(free_area) \cup Rest(blocks', call', held, S), mo)
  BY <1>9, <1>11
<1>14. Sound(mo, free_area, free_area_size, initialized, blocks', call', held, S)
  BY <1>1, <1>12, <1>13, SoundStep DEF Now
<1>15. initialized' = initialized /\ free_area' = free_area /\ free_area_size' = free_area_size /\ held' = held
  BY SMT
<1> QED
  BY <1>14, <1>15 DEF After

LEMMA flushSound ==
  ASSUME pool \in POOLS, NEW mo \in 0 .. MAX_ORDER, mo = max_order, NEW S, IsSlab(S), Now(mo, S), NEW c \in CPUs,
         flush(c)
  PROVE  After(mo, S)
<1> USE Zenon
<1> DEFINE o == call[c].order
           s == blocks[c][o]
<1>1. call[c].pc = "flush" /\ initialized' = initialized
  BY SMT DEF flush
<1>2. \/ /\ call[c].n < CACHE_SIZE \div 2
         /\ buddy_free(s[Len(s)])
         /\ blocks' = [blocks EXCEPT ![c][o] = SubSeq(@, 1, Len(@) - 1)]
         /\ Goto(c, "flush", o, call[c].n + 1)
      \/ /\ call[c].n >= CACHE_SIZE \div 2
         /\ blocks' = [blocks EXCEPT ![c][o] = Append(@, call[c].block)]
         /\ call' = [call EXCEPT ![c] = Idle]
         /\ UNCHANGED <<free_area, free_area_size, held>>
  BY DEF flush, stack
<1>3. call \in [CPUs -> Calls] /\ call[c].n \in Nat
  BY NowFacts
<1>4. CASE /\ call[c].n < CACHE_SIZE \div 2
           /\ buddy_free(s[Len(s)])
           /\ blocks' = [blocks EXCEPT ![c][o] = SubSeq(@, 1, Len(@) - 1)]
           /\ Goto(c, "flush", o, call[c].n + 1)
  <2>1. s # <<>> => Pops(blocks, blocks', c, o, s[Len(s)])
    BY <1>4 DEF Pops
  <2>2. call[c].n < CACHE_SIZE \div 2 /\ buddy_free(s[Len(s)]) /\ Goto(c, "flush", o, call[c].n + 1)
    BY <1>4
  <2> QED
    BY <1>1, <2>1, <2>2, FlushRoundStep
<1>5. CASE /\ call[c].n >= CACHE_SIZE \div 2
           /\ blocks' = [blocks EXCEPT ![c][o] = Append(@, call[c].block)]
           /\ call' = [call EXCEPT ![c] = Idle]
           /\ UNCHANGED <<free_area, free_area_size, held>>
  <2>1. Pushes(blocks, blocks', c, o, call[c].block)
    BY <1>5 DEF Pushes
  <2>2. ~(call[c].n < CACHE_SIZE \div 2)
    BY <1>3, <1>5, Bounds, SMT
  <2>3. call' \in [CPUs -> Calls] /\ IsCall(call, call', c, Idle)
    BY <1>3, <1>5, CallSet, IdleCall
  <2>4. UNCHANGED <<initialized, free_area, free_area_size, held>>
    BY <1>1, <1>5, SMT
  <2> QED
    BY <1>1, <2>1, <2>2, <2>3, <2>4, FlushEndStep
<1> QED
  BY <1>2, <1>4, <1>5, ZenonT(30)

LEMMA cpu_pool_initSound ==
  ASSUME NEW mo, NEW S, IsSlab(S), Now(mo, S), NEW c \in CPUs, cpu_pool_init(c)
  PROVE  After(mo, S)
<1>1. /\ initialized \in [CPUs -> BOOLEAN] /\ blocks \in Stacks /\ call \in [CPUs -> Calls]
      /\ (\A d \in CPUs : \A o \in pool_orders : StackSound(blocks[d][o], o, initialized[d]))
      /\ (\A d \in CPUs : CallSound(call[d], initialized[d], blocks[d][call[d].order]))
      /\ HeldFit(held) /\ FreeSound(free_area, free_area_size, mo)
      /\ Divided(FreePlaces(free_area) \cup Rest(blocks, call, held, S), mo)
  BY Zenon DEF Now, Sound
<1>2. /\ ~initialized[c] /\ initialized' = [initialized EXCEPT ![c] = TRUE]
      /\ blocks' = [blocks EXCEPT ![c] = [o \in pool_orders |-> <<>>]]
      /\ free_area' = free_area /\ free_area_size' = free_area_size /\ call' = call /\ held' = held
  BY DEF cpu_pool_init
<1>3. \A o \in pool_orders : blocks[c][o] = <<>>
  BY <1>1, <1>2, Zenon DEF StackSound
<1>4. blocks[c] \in [pool_orders -> Seq(Blocks)]
  BY <1>1 DEF Stacks
<1>5. blocks[c] = [o \in pool_orders |-> <<>>]
  BY <1>3, <1>4
<1>6. blocks' = blocks
  BY <1>1, <1>2, <1>5 DEF Stacks
<1>7. initialized' \in [CPUs -> BOOLEAN] /\ \A d \in CPUs : initialized[d] => initialized'[d]
  BY <1>1, <1>2
<1>8. \A d \in CPUs : \A o \in pool_orders : StackSound(blocks[d][o], o, initialized'[d])
  BY <1>1, <1>7, Zenon DEF StackSound
<1>9. \A d \in CPUs : CallSound(call[d], initialized'[d], blocks[d][call[d].order])
  BY <1>1, <1>7, Zenon DEF CallSound
<1>10. Sound(mo, free_area, free_area_size, initialized', blocks, call, held, S)
  BY <1>1, <1>7, <1>8, <1>9, Zenon DEF Sound
<1> QED
  BY <1>2, <1>6, <1>10, Zenon DEF After

\* A step of the allocator above the slab pages.
LEMMA BuddyNextSound ==
  ASSUME pool \in POOLS, NEW S, IsSlab(S), Now(max_order, S), BuddyNext
  PROVE  pool' = pool /\ After(max_order, S)
<1> DEFINE mo == max_order
<1>1. mo \in 0 .. MAX_ORDER
  BY MaxOrder
<1> HIDE DEF mo
<1>2. Now(mo, S) /\ mo = max_order
  BY DEF mo
<1>3. PICK c \in CPUs : \/ \E size \in SIZES : kmalloc(c, size)
                        \/ cpu_pool_alloc(c) \/ refill(c) \/ refilled(c) \/ kmalloc_direct(c)
                        \/ \E h \in held : kfree(c, h)
                        \/ flush(c)
  BY Zenon DEF BuddyNext
<1>4. pool' = pool
  BY <1>3, Zenon DEF kmalloc, cpu_pool_alloc, refill, refilled, kmalloc_direct, kfree, flush
<1>5. After(mo, S)
  <2> USE Zenon
  <2>1. CASE \E size \in SIZES : kmalloc(c, size)
    BY <1>1, <1>2, <2>1, kmallocSound
  <2>2. CASE cpu_pool_alloc(c)
    BY <1>1, <1>2, <2>2, cpu_pool_allocSound
  <2>3. CASE refill(c)
    BY <1>1, <1>2, <2>3, refillSound
  <2>4. CASE refilled(c)
    BY <1>1, <1>2, <2>4, refilledSound
  <2>5. CASE kmalloc_direct(c)
    BY <1>1, <1>2, <2>5, kmalloc_directSound
  <2>6. CASE \E h \in held : kfree(c, h)
    BY <1>1, <1>2, <2>6, kfreeSound
  <2>7. CASE flush(c)
    BY <1>1, <1>2, <2>7, flushSound
  <2> QED
    BY <1>3, <2>1, <2>2, <2>3, <2>4, <2>5, <2>6, <2>7
<1> QED
  BY <1>2, <1>4, <1>5, Zenon

-----------------------------------------------------------------------------
(* The initial state, and what the invariant says about the properties.    *)

LEMMA BuddyInitSound ==
  ASSUME BuddyInit
  PROVE  pool \in POOLS /\ Now(max_order, {})
<1> DEFINE mo == max_order
<1>1. pool \in POOLS
  BY DEF BuddyInit, buddy_init
<1>2. mo \in 0 .. MAX_ORDER /\ mo \in Nat
  BY <1>1, MaxOrder
<1>3. /\ free_area = [o \in Orders |-> IF o = mo THEN {0} ELSE {}]
      /\ free_area_size = [o \in Orders |-> IF o = mo THEN 1 ELSE 0]
  BY DEF BuddyInit, buddy_init
<1>4. /\ initialized = [c \in CPUs |-> FALSE] /\ blocks = [c \in CPUs |-> [o \in pool_orders |-> <<>>]]
      /\ call = [c \in CPUs |-> Idle] /\ held = {}
  BY DEF BuddyInit
<1> HIDE DEF mo
<1>5. initialized \in [CPUs -> BOOLEAN] /\ call \in [CPUs -> Calls] /\ \A c \in CPUs : call[c] = Idle
  BY <1>4, IdleCall
<1>6. blocks \in Stacks /\ \A c \in CPUs : \A o \in pool_orders : blocks[c][o] = <<>>
  BY <1>4 DEF Stacks
<1>7. \A c \in CPUs : \A o \in pool_orders : StackSound(blocks[c][o], o, initialized[c])
  <2>1. Len(<<>>) = 0 /\ 0 <= CACHE_SIZE /\ 1 .. 0 = {}
    BY Bounds
  <2>2. \A o, ini : StackSound(<<>>, o, ini)
    BY <2>1 DEF StackSound
  <2> QED
    BY <1>6, <2>2, Zenon
<1>8. \A c \in CPUs : CallSound(call[c], initialized[c], blocks[c][call[c].order])
  BY <1>5, IdleCall, Zenon
<1>9. HeldFit(held)
  BY <1>4, Zenon DEF HeldFit
<1>10. FreeSound(free_area, free_area_size, mo)
  <2>1. free_area \in [Orders -> SUBSET Nat] /\ free_area_size \in [Orders -> Int]
    BY <1>3
  <2>2. ASSUME NEW o \in Orders PROVE IsFiniteSet(free_area[o]) /\ free_area_size[o] = Cardinality(free_area[o])
    <3>1. IsFiniteSet({0}) /\ Cardinality({0}) = 1 /\ IsFiniteSet({}) /\ Cardinality({}) = 0
      BY FS_Singleton, FS_EmptySet, Zenon
    <3>2. CASE o = mo
      <4>1. free_area[o] = {0} /\ free_area_size[o] = 1
        BY <1>3, <3>2
      <4> QED
        BY <3>1, <4>1, Zenon
    <3>3. CASE o # mo
      <4>1. free_area[o] = {} /\ free_area_size[o] = 0
        BY <1>3, <3>3
      <4> QED
        BY <3>1, <4>1, Zenon
    <3> QED
      BY <3>2, <3>3
  <2>3. ASSUME NEW o \in 0 .. mo - 1, NEW i \in free_area[o] PROVE get_buddy(i) \notin free_area[o]
    <3>1. o \in Orders /\ o # mo
      BY <1>2, Bounds DEF Orders
    <3>2. free_area[o] = {}
      BY <1>3, <3>1
    <3> QED
      BY <3>2, Zenon
  <2> QED
    BY <2>1, <2>2, <2>3, Zenon DEF FreeSound
<1>11. FreePlaces(free_area) \cup Rest(blocks, call, held, {}) = {Free(mo, 0)}
  <2> USE Zenon
  <2>1. PoolPlaces(blocks) = {}
    BY <1>6, PoolNothing
  <2>2. FlushPlaces(call) = {}
    <3>1. \A c \in CPUs : call[c].pc # "flush"
      BY <1>5, IdleCall, SMT
    <3> QED
      BY <3>1, FlushMember
  <2>3. HeldPlaces(held) = {}
    BY <1>4 DEF HeldPlaces
  <2>4. mo \in Orders /\ 0 \in free_area[mo] /\ \A o \in Orders : \A i \in free_area[o] : o = mo /\ i = 0
    BY <1>2, <1>3, SMT DEF Orders
  <2>5. Free(mo, 0) \in FreePlaces(free_area)
    BY <2>4, FreeMember
  <2>6. ASSUME NEW p \in FreePlaces(free_area) PROVE p = Free(mo, 0)
    <3>1. PICK o \in Orders : \E i \in free_area[o] : p = Free(o, i)
      BY FreeMember
    <3> QED
      BY <2>4, <3>1
  <2> QED
    BY <2>1, <2>2, <2>3, <2>5, <2>6 DEF Rest
<1>12. Divided({Free(mo, 0)}, mo)
  <2>1. mo - mo = 0
    BY <1>2
  <2>2. 2^(mo - mo) = 1
    BY <2>1, Power, Zenon
  <2>3. InRange(mo, mo, 0)
    <3>1. mo \in 0 .. mo /\ 0 < 1 /\ 0 \in Nat
      BY <1>2
    <3> QED
      BY <2>2, <3>1, Zenon DEF InRange
  <2>4. IsBlock(mo, Free(mo, 0)[2])
    BY <2>3, FreeFields, Zenon DEF IsBlock
  <2>5. ASSUME NEW u \in 0 .. 2^mo - 1 PROVE HasUnit(Free(mo, 0), u)
    <3>1. Units(<<mo, 0>>) = 0 * 2^mo .. 0 * 2^mo + (2^mo - 1) /\ 2^mo \in Nat
      BY <1>2, UnitsOf
    <3>2. 0 * 2^mo = 0
      BY <3>1
    <3>3. u \in Units(<<mo, 0>>)
      BY <3>1, <3>2
    <3> QED
      BY <3>3, FreeUnit, Zenon
  <2> QED
    BY <2>4, <2>5, Zenon DEF Divided
<1>13. Divided(FreePlaces(free_area) \cup Rest(blocks, call, held, {}), mo)
  BY <1>11, <1>12, Zenon
<1> QED
  BY <1>1, <1>5, <1>6, <1>7, <1>8, <1>9, <1>10, <1>13, Zenon DEF Now, Sound, mo

\* Disjoint blocks that fill the largest one: each unit of it is in exactly one place.
LEMMA DividedPartitioned ==
  ASSUME pool \in POOLS, NEW P, Divided(P, max_order)
  PROVE  Partitioned(P)
<1> DEFINE mo == max_order
<1>1. mo \in 0 .. MAX_ORDER /\ 2^mo \in Nat /\ 2^mo <= pool_size /\ pool_size \in Nat
  BY MaxOrder
<1> SUFFICES ASSUME NEW u \in 0 .. pool_size - 1
             PROVE  Cardinality({p \in P : u \in Units(p[2])}) = IF u < 2^mo THEN 1 ELSE 0
  BY Zenon DEF Partitioned
<1> HIDE DEF mo
<1> DEFINE U == {p \in P : u \in Units(p[2])}
<1>2. Divided(P, mo)
  BY DEF mo
<1>3. CASE u < 2^mo
  <2>1. u \in 0 .. 2^mo - 1
    BY <1>1, <1>3
  <2>2. PICK p \in P : HasUnit(p, u)
    BY <1>2, <2>1, Zenon DEF Divided
  <2>3. U = {p}
    <3> USE Zenon
    <3>1. p \in U
      BY <2>2 DEF HasUnit
    <3>2. ASSUME NEW q \in U PROVE q = p
      <4>1. q \in P /\ HasUnit(q, u)
        BY <3>2 DEF HasUnit
      <4> QED
        BY <1>2, <2>2, <4>1 DEF Divided
    <3> QED
      BY <3>1, <3>2
  <2> HIDE DEF U
  <2>4. Cardinality(U) = 1
    BY <2>3, FS_Singleton, Zenon
  <2> QED
    BY <1>3, <2>4 DEF U
<1>4. CASE ~(u < 2^mo)
  <2>1. ASSUME NEW p \in U PROVE FALSE
    <3> USE Zenon
    <3>1. p \in P /\ u \in Units(p[2])
      BY <2>1
    <3>2. IsBlock(mo, p[2])
      BY <1>2, <3>1 DEF Divided
    <3>3. PICK o : \E i : p[2] = <<o, i>> /\ InRange(mo, o, i)
      BY <3>2 DEF IsBlock
    <3>4. PICK i : p[2] = <<o, i>> /\ InRange(mo, o, i)
      BY <3>3
    <3>5. Units(<<o, i>>) \subseteq 0 .. 2^mo - 1
      BY <1>1, <3>4, RangeUnits
    <3>6. u \in 0 .. 2^mo - 1
      BY <3>1, <3>4, <3>5
    <3> QED
      BY <1>1, <1>4, <3>6, SMT
  <2>2. U = {}
    BY <2>1, Zenon
  <2> HIDE DEF U
  <2>3. Cardinality(U) = 0
    BY <2>2, FS_EmptySet, Zenon
  <2> QED
    BY <1>4, <2>3 DEF U
<1> QED
  BY <1>3, <1>4

LEMMA SoundProperties ==
  ASSUME pool \in POOLS, NEW S, IsSlab(S), Now(max_order, S)
  PROVE  Partitioned(Places \cup S) /\ PoolsFit /\ CountsMatch /\ Coalesced /\ RequestFits
<1> USE Zenon
<1>1. /\ \A c \in CPUs : \A o \in pool_orders : StackSound(blocks[c][o], o, initialized[c])
      /\ HeldFit(held) /\ FreeSound(free_area, free_area_size, max_order)
      /\ Divided(FreePlaces(free_area) \cup Rest(blocks, call, held, S), max_order)
  BY DEF Now, Sound
<1>2. Places \cup S = FreePlaces(free_area) \cup Rest(blocks, call, held, S)
  <2>1. Places = ((FreePlaces(free_area) \cup PoolPlaces(blocks)) \cup FlushPlaces(call)) \cup HeldPlaces(held)
    BY DEF Places, FreePlaces, PoolPlaces, FlushPlaces, HeldPlaces
  <2> QED
    BY <2>1 DEF Rest
<1>3. Partitioned(Places \cup S)
  BY <1>1, <1>2, DividedPartitioned
<1>4. PoolsFit
  BY <1>1 DEF PoolsFit, StackSound
<1>5. CountsMatch /\ Coalesced
  BY <1>1 DEF FreeSound, CountsMatch, Coalesced
<1>6. RequestFits
  BY <1>1 DEF HeldFit, Fits, RequestFits
<1> QED
  BY <1>3, <1>4, <1>5, <1>6

-----------------------------------------------------------------------------
(* The slab pages.                                                         *)

\* The places of the slab pages.
Slabs(ps) == {<<"slab", b>> : b \in DOMAIN ps}
SlabPlace(b) == <<"slab", b>>

LEMMA SlabMember ==
  ASSUME NEW ps
  PROVE  /\ IsSlab(Slabs(ps)) /\ \A b : SlabPlace(b)[1] = "slab" /\ SlabPlace(b)[2] = b
         /\ \A b \in DOMAIN ps : SlabPlace(b) \in Slabs(ps)
<1> USE Zenon
<1>1. \A b : SlabPlace(b)[1] = "slab" /\ SlabPlace(b)[2] = b
  BY SMT DEF SlabPlace
<1>2. ASSUME NEW p \in Slabs(ps) PROVE \E b \in DOMAIN ps : p = SlabPlace(b)
  BY DEF Slabs, SlabPlace
<1>3. \A b \in DOMAIN ps : SlabPlace(b) \in Slabs(ps)
  BY DEF Slabs, SlabPlace
<1>4. IsSlab(Slabs(ps))
  BY <1>1, <1>2 DEF IsSlab
<1> QED
  BY <1>1, <1>3, <1>4

LEMMA SlabAdd ==
  ASSUME NEW ps, NEW qs, NEW b, DOMAIN qs = DOMAIN ps \cup {b}
  PROVE  Slabs(qs) = Slabs(ps) \cup {SlabPlace(b)}
BY Zenon DEF Slabs, SlabPlace

\* A block that alloc_block returns was nowhere but in the free areas.
LEMMA AllocFresh ==
  ASSUME NEW mo \in 0 .. MAX_ORDER, NEW R, FreeSound(free_area, free_area_size, mo),
         Divided(FreePlaces(free_area) \cup R, mo), Taken(R),
         NEW order \in Orders, NEW block, alloc_block(order, block), NEW q \in R
  PROVE  q[2] # block
<1> USE Zenon
<1> SUFFICES ASSUME q[2] = block PROVE FALSE
  BY SMT
<1> DEFINE S(from, index, x) ==
             Split(free_area, free_area_size, free_area', free_area_size', order, from, index, x)
<1>1. PICK from \in order .. mo, index \in Nat : \E x :
         /\ InRange(mo, from, index) /\ LeftHalves(x, order, from, index)
         /\ block = <<order, x[order]>> /\ S(from, index, x)
  BY AllocSteps
<1>2. PICK x : /\ InRange(mo, from, index) /\ LeftHalves(x, order, from, index)
               /\ block = <<order, x[order]>> /\ S(from, index, x)
  BY <1>1
<1>3. /\ order \in Nat /\ from \in Nat /\ from \in order .. MAX_ORDER /\ from \in Orders
      /\ order \in order .. from /\ from \in order .. from
  BY Bounds, SMT DEF Orders
<1>4. Chain(x, order, from) /\ x[from] = index
  <2>1. LeftHalves(x, order, from, index)
    BY <1>2
  <2> QED
    BY <1>3, <2>1, LeftChain, SMTT(20)
<1>5. InRange(mo, order, x[order])
  BY <1>2, <1>3, LeftInRange
<1> DEFINE u == x[order] * 2^order
<1>6. u \in Units(<<order, x[order]>>)
  BY <1>5, RangeUnits
<1> HIDE DEF u
<1>7. u \in Units(<<from, index>>)
  BY <1>3, <1>4, <1>6, ChainIncreases
<1>8. index \in free_area[from]
  BY <1>2 DEF Split
<1>9. Free(from, index) \in FreePlaces(free_area) /\ HasUnit(Free(from, index), u) /\ HasUnit(q, u)
  BY <1>2, <1>3, <1>6, <1>7, <1>8, FreeMember, FreeUnit DEF HasUnit
<1>10. q = Free(from, index)
  BY <1>9 DEF Divided
<1> QED
  BY <1>10, FreeFields DEF Taken

\* slab_alloc takes a new page.
LEMMA NewPage ==
  ASSUME NEW mo \in 0 .. MAX_ORDER, NEW ps, NEW qs, Now(mo, Slabs(ps)), NEW c \in CPUs,
         NEW order \in Orders, NEW block, alloc_block(order, block), DOMAIN qs = DOMAIN ps \cup {block},
         UNCHANGED <<initialized, blocks, call, held>>
  PROVE  block \notin DOMAIN ps /\ After(mo, Slabs(qs))
<1> USE Zenon
<1> DEFINE R == Rest(blocks, call, held, Slabs(ps))
           q == SlabPlace(block)
<1>1. IsSlab(Slabs(ps)) /\ q[1] = "slab" /\ q[2] = block
  BY SlabMember
<1>2. /\ blocks \in Stacks /\ call \in [CPUs -> Calls] /\ (\A o \in pool_orders : StackSound(blocks[c][o], o, initialized[c]))
      /\ CallSound(call[c], initialized[c], blocks[c][call[c].order]) /\ call[c] \in Calls /\ HeldFit(held)
      /\ FreeSound(free_area, free_area_size, mo) /\ Divided(FreePlaces(free_area) \cup R, mo) /\ Taken(R)
  BY <1>1, NowFacts
<1>3. Slabs(qs) = Slabs(ps) \cup {q}
  BY SlabAdd
<1>4. Rest(blocks, call, held, Slabs(qs)) = R \cup {q}
  BY <1>3 DEF Rest
<1>5. block \in DOMAIN ps => q \in R
  BY SlabMember DEF Rest
<1> HIDE DEF R, q
<1>6. block \notin DOMAIN ps
  BY <1>1, <1>2, <1>5, AllocFresh
<1>7. q[1] # "free"
  BY <1>1, SMT
<1>8. /\ FreeSound(free_area', free_area_size', mo)
      /\ Divided(FreePlaces(free_area') \cup (R \cup {q}), mo)
  BY <1>1, <1>2, <1>7, AllocSound
<1>9. /\ initialized \in [CPUs -> BOOLEAN]
      /\ (\A d \in CPUs : \A o \in pool_orders : StackSound(blocks[d][o], o, initialized[d]))
      /\ (\A d \in CPUs : CallSound(call[d], initialized[d], blocks[d][call[d].order]))
  BY DEF Now, Sound
<1>10. Divided(FreePlaces(free_area') \cup Rest(blocks, call, held, Slabs(qs)), mo)
  BY <1>4, <1>8
<1>11. Sound(mo, free_area', free_area_size', initialized, blocks, call, held, Slabs(qs))
  BY <1>2, <1>8, <1>9, <1>10 DEF Sound
<1>12. initialized' = initialized /\ blocks' = blocks /\ call' = call /\ held' = held
  BY SMT
<1> QED
  BY <1>6, <1>11, <1>12 DEF After

LEMMA UnitOrder == 0 \in Orders /\ get_minimum_order(UNIT) = 0
<1>1. 0 \in Orders
  BY Bounds DEF Orders
<1> QED
  BY <1>1, OrderOfBlock, PoolSizes

LEMMA TakeObjectPages ==
  ASSUME NEW cache, NEW ps, NEW lists, NEW size, TakeObject(cache, ps, lists, size)
  PROVE  DOMAIN pages' = DOMAIN ps
BY DEF TakeObject

\* A small request asks for less than a page.
LEMMA SmallSizes ==
  ASSUME NEW i \in Classes
  PROVE  OBJ_SIZES[i] \in Nat /\ OBJ_SIZES[i] <= UNIT
BY SlabAssumption, Bounds DEF Classes

LEMMA slab_allocBlocks ==
  ASSUME pool \in POOLS, Now(max_order, Slabs(pages)), NEW c \in CPUs, NEW i \in Classes,
         slab_alloc(c, OBJ_SIZES[i])
  PROVE  pool' = pool /\ After(max_order, Slabs(pages'))
<1> DEFINE mo == max_order
           size == OBJ_SIZES[i]
           cache == CacheOf(c, ClassOf(size))
           shared == <<GLOBAL, ClassOf(size)>>
           v == [Idle EXCEPT !.size = size, !.pc = "pool"]
<1>1. mo \in 0 .. MAX_ORDER /\ IsSlab(Slabs(pages))
  BY MaxOrder, SlabMember
<1>2. UNCHANGED <<pool, initialized, blocks, held>> /\ call[c].pc = "idle"
  BY DEF slab_alloc
<1>3. SUFFICES After(mo, Slabs(pages'))
  BY <1>2
<1>4. ASSUME DOMAIN pages' = DOMAIN pages, UNCHANGED <<free_area, free_area_size, call>>
      PROVE  After(mo, Slabs(pages'))
  <2>1. Slabs(pages') = Slabs(pages)
    BY <1>4, Zenon DEF Slabs
  <2> QED
    BY <1>2, <1>4, <2>1 DEF Now, After
<1>5. CASE partial[cache] # <<>> /\ TakeObject(cache, pages, partial, size) /\ UNCHANGED <<free_area, free_area_size, call>>
  BY <1>4, <1>5, TakeObjectPages, Zenon
<1>6. CASE /\ partial[cache] = <<>> /\ partial[shared] # <<>>
           /\ LET block == Head(partial[shared])
              IN  TakeObject(cache, AdoptPage(c, block),
                             [partial EXCEPT ![shared] = list_remove(@, block),
                                             ![cache] = list_push(@, block)], size)
           /\ UNCHANGED <<free_area, free_area_size, call>>
  <2>1. DOMAIN AdoptPage(c, Head(partial[shared])) = DOMAIN pages
    BY DEF AdoptPage
  <2> QED
    BY <1>4, <1>6, <2>1, TakeObjectPages, Zenon
<1>7. CASE /\ partial[cache] = <<>> /\ partial[shared] = <<>>
           /\ \E j \in 0 .. pool - 1 :
                /\ buddy_alloc(UNIT, <<0, j>>)
                /\ TakeObject(cache, alloc_raw_page(cache, <<0, j>>),
                              [partial EXCEPT ![cache] = list_push(@, <<0, j>>)], size)
           /\ UNCHANGED call
  <2>1. PICK j \in 0 .. pool - 1 :
                /\ buddy_alloc(UNIT, <<0, j>>)
                /\ TakeObject(cache, alloc_raw_page(cache, <<0, j>>),
                              [partial EXCEPT ![cache] = list_push(@, <<0, j>>)], size)
    BY <1>7, Zenon
  <2>2. DOMAIN alloc_raw_page(cache, <<0, j>>) = DOMAIN pages \cup {<<0, j>>}
    BY DEF alloc_raw_page
  <2>3. DOMAIN pages' = DOMAIN pages \cup {<<0, j>>}
    BY <2>1, <2>2, TakeObjectPages, Zenon
  <2>4. alloc_block(0, <<0, j>>) /\ 0 \in Orders
    BY <2>1, UnitOrder DEF buddy_alloc
  <2>5. UNCHANGED <<initialized, blocks, call, held>>
    BY <1>2, <1>7
  <2> QED
    BY <1>1, <2>3, <2>4, <2>5, NewPage, Zenon
<1>8. CASE /\ partial[cache] = <<>> /\ partial[shared] = <<>>
           /\ buddy_alloc_NULL(UNIT)
           /\ call' = [call EXCEPT ![c] = v]
           /\ UNCHANGED slab_vars
  <2>1. v \in Calls /\ v.pc = "pool" /\ v.size = size /\ v.order = 0
    BY IdleCall, SmallSizes, Zenon DEF Calls, Idle
  <2>2. v.size <= BUDDY_BLOCK_SIZE(v.order)
    BY <2>1, SmallSizes, PoolSizes
  <2>3. pages' = pages /\ call' = [call EXCEPT ![c] = v] /\ UNCHANGED <<initialized, free_area, free_area_size, blocks, held>>
    BY <1>2, <1>8 DEF slab_vars, buddy_alloc_NULL
  <2> HIDE DEF v
  <2>4. v.pc \in {"idle", "pool", "direct"} /\ call[c].pc # "flush"
    BY <1>2, <2>1
  <2>5. After(mo, Slabs(pages))
    BY <1>1, <2>1, <2>2, <2>3, <2>4, CallStep, Zenon
  <2> QED
    BY <2>3, <2>5
<1> QED
  BY <1>5, <1>6, <1>7, <1>8, Zenon DEF slab_alloc

LEMMA slab_freeBlocks ==
  ASSUME Now(max_order, Slabs(pages)), NEW c, NEW obj, slab_free(c, obj)
  PROVE  pool' = pool /\ After(max_order, Slabs(pages'))
<1>1. UNCHANGED buddy_vars /\ DOMAIN pages' = DOMAIN pages
  BY DEF slab_free
<1>2. Slabs(pages') = Slabs(pages)
  BY <1>1, Zenon DEF Slabs
<1> QED
  BY <1>1, <1>2 DEF Now, After, buddy_vars

-----------------------------------------------------------------------------
(* The blocks: the invariant, with the slab pages among the places.        *)

BlocksSound == pool \in POOLS /\ Now(max_order, Slabs(pages))

LEMMA InitBlocks == ASSUME Init PROVE BlocksSound
<1>1. Slabs(pages) = {}
  BY DEF Init, slab_init, Slabs
<1> QED
  BY <1>1, BuddyInitSound, Zenon DEF Init, BlocksSound

\* A block that slab_owns claims stays where it is.
LEMMA NextSteps == ASSUME [Next]_vars PROVE Ordinary \/ UNCHANGED <<buddy_vars, slab_vars>>
BY Zenon DEF Next, slab_owns, vars

LEMMA NextBlocks == ASSUME BlocksSound, [Next]_vars PROVE BlocksSound'
<1>1. pool \in POOLS /\ Now(max_order, Slabs(pages)) /\ IsSlab(Slabs(pages))
  BY SlabMember, Zenon DEF BlocksSound
<1>2. pool' = pool /\ After(max_order, Slabs(pages'))
  <2>1. CASE BuddyNext /\ UNCHANGED slab_vars
    <3>1. PICK S : S = Slabs(pages)
      OBVIOUS
    <3>2. pages' = pages
      BY <2>1 DEF slab_vars
    <3>3. Slabs(pages') = S
      BY <3>1, <3>2
    <3>4. pool' = pool /\ After(max_order, S)
      BY <1>1, <2>1, <3>1, BuddyNextSound
    <3> QED
      BY <3>3, <3>4
  <2>2. ASSUME NEW i \in Classes, slab_alloc(BSP, OBJ_SIZES[i])
        PROVE  pool' = pool /\ After(max_order, Slabs(pages'))
    <3>1. BSP \in CPUs
      BY SlabAssumption
    <3> QED
      BY <1>1, <2>2, <3>1, slab_allocBlocks
  <2>3. ASSUME NEW obj \in objects, slab_free(BSP, obj)
        PROVE  pool' = pool /\ After(max_order, Slabs(pages'))
    BY <1>1, <2>3, slab_freeBlocks
  <2>4. ASSUME NEW c \in CPUs, slab_cpu_init(c)
        PROVE  pool' = pool /\ After(max_order, Slabs(pages'))
    <3>1. pages' = pages /\ pool' = pool /\ cpu_pool_init(c)
      BY <2>4 DEF slab_cpu_init, cpu_pool_init
    <3>2. After(max_order, Slabs(pages))
      BY <1>1, <3>1, cpu_pool_initSound
    <3> QED
      BY <3>1, <3>2
  <2>5. CASE UNCHANGED <<buddy_vars, slab_vars>>
    <3>1. UNCHANGED buddy_vars /\ pages' = pages
      BY <2>5 DEF slab_vars
    <3> QED
      BY <1>1, <3>1 DEF Now, After, buddy_vars
  <2> QED
    BY <2>1, <2>2, <2>3, <2>4, <2>5, NextSteps, Zenon DEF Ordinary
<1>3. max_order' = max_order
  BY <1>2 DEF max_order
<1>4. Now(max_order, Slabs(pages))'
  BY <1>2, <1>3 DEF After, Now
<1> QED
  BY <1>1, <1>2, <1>4 DEF BlocksSound

\* Whatever kmalloc, kfree and the initialisation of the CPUs interleave to, the allocator's state
\* satisfies the invariant: the free areas, the CPUs' pools, the pending flushes, the blocks of the
\* callers (those that slab_owns claimed from kfree included) and the slab pages divide the memory.
\* This holds until the data of such a block are used as the header of a slab page.
THEOREM BlocksStaySound == Spec => []BlocksSound
<1> QED
  BY InitBlocks, NextBlocks, PTL DEF Spec

LEMMA BlocksProperties ==
  ASSUME BlocksSound PROVE Partition /\ CountsMatch /\ Coalesced /\ RequestFits
<1>1. pool \in POOLS /\ Now(max_order, Slabs(pages)) /\ IsSlab(Slabs(pages))
  BY SlabMember, Zenon DEF BlocksSound
<1>2. Partitioned(Places \cup Slabs(pages)) /\ PoolsFit /\ CountsMatch /\ Coalesced /\ RequestFits
  BY <1>1, SoundProperties
<1> QED
  BY <1>2, Zenon DEF Partition, Slabs

\* Every byte of the memory is in exactly one block, and the pools stay in their arrays: kmalloc
\* hands no block out twice, and refill, flush, split_block and free_block lose none.  kfree loses the
\* blocks that begin with SLAB_MAGIC: they stay with their callers.
THEOREM MemoryPartitioned == Spec => []Partition
<1> QED
  BY BlocksStaySound, BlocksProperties, PTL

\* free_area_size agrees with the bitmaps that alloc_block searches.
THEOREM CountersAgree == Spec => []CountsMatch
<1> QED
  BY BlocksStaySound, BlocksProperties, PTL

\* free_block never leaves two free buddies apart.
THEOREM BuddiesMerge == Spec => []Coalesced
<1> QED
  BY BlocksStaySound, BlocksProperties, PTL

\* The block that kmalloc returns holds what was asked for, up to the exceptions RequestFits names.
THEOREM RequestsFit == Spec => []RequestFits
<1> QED
  BY BlocksStaySound, BlocksProperties, PTL

-----------------------------------------------------------------------------
(* When buddy_alloc returns NULL.                                          *)

LEMMA NullWhenFull ==
  ASSUME pool \in POOLS, NEW mo, mo = max_order, FreeSound(free_area, free_area_size, mo), NEW R,
         Divided(FreePlaces(free_area) \cup R, mo), NEW order \in Orders,
         buddy_alloc_NULL(BUDDY_BLOCK_SIZE(order)), NEW i \in Nat,
         \A u \in Units(<<order, i>>) : \E o \in Orders : \E j \in free_area[o] : u \in Units(<<o, j>>)
  PROVE  FALSE
<1>1. /\ mo \in 0 .. MAX_ORDER /\ mo \in Nat /\ pool_size \in Nat /\ 2^mo \in Nat /\ 2^mo <= pool_size
  BY MaxOrder
<1>2. order \in Nat /\ order \in 0 .. MAX_ORDER
  BY Bounds DEF Orders
<1>3. CASE order > mo
  <2>1. 2^mo \in Nat /\ 2^order \in Nat /\ 2^mo >= 1 /\ 2 * 2^mo <= 2^order
    BY <1>1, <1>2, <1>3, Power, PowerMonotonic
  <2> DEFINE p == 2^order
             r == 2^mo
             u == i * p + (p - 1)
  <2>2. /\ i * p \in Nat /\ Units(<<order, i>>) = i * p .. i * p + (p - 1)
    BY <1>2, UnitsOf
  <2> HIDE DEF p
  <2>3. p \in Nat /\ r \in Nat /\ r >= 1 /\ 2 * r <= p
    BY <2>1 DEF p
  <2> HIDE DEF r
  <2>4. u \in Units(<<order, i>>) /\ u >= r
    BY <2>2, <2>3
  <2> HIDE DEF u
  <2>5. PICK o \in Orders : \E j \in free_area[o] : u \in Units(<<o, j>>)
    BY <2>4, Zenon
  <2>6. PICK j \in free_area[o] : u \in Units(<<o, j>>)
    BY <2>5, Zenon
  <2>7. Free(o, j) \in FreePlaces(free_area) /\ Free(o, j)[2] = <<o, j>>
    BY FreeMember, FreeFields, Zenon
  <2>8. IsBlock(mo, <<o, j>>)
    BY <2>7, Zenon DEF Divided
  <2>9. InRange(mo, o, j)
    BY <2>8 DEF IsBlock
  <2>10. u \in 0 .. r - 1
    BY <1>1, <2>6, <2>9, RangeUnits DEF r
  <2> QED
    BY <2>3, <2>4, <2>10, SMTT(20)
<1>4. CASE order <= mo
  <2>1. order \in 0 .. mo
    BY <1>1, <1>2, <1>4
  <2>2. get_minimum_order(BUDDY_BLOCK_SIZE(order)) = order
    BY OrderOfBlock
  <2>3. BUDDY_BLOCK_SIZE(order) <= pool_size * UNIT
    <3>1. 2^order <= 2^mo /\ 2^order \in Nat /\ 2^mo \in Nat /\ UNIT \in Nat
      BY <1>1, <1>2, <2>1, Power, PowerMonotonic, Bounds
    <3> DEFINE p == 2^order
    <3>2. p \in Nat /\ p <= pool_size
      BY <1>1, <3>1
    <3> HIDE DEF p
    <3>3. UNIT * p <= pool_size * UNIT
      BY <1>1, <3>1, <3>2
    <3> QED
      BY <3>3 DEF p, BUDDY_BLOCK_SIZE
  <2>4. Exhausted(order)
    <3>1. BUDDY_BLOCK_SIZE(order) \in Nat /\ pool_size * UNIT \in Nat
      BY <1>1, OrderOfBlock, Bounds
    <3> QED
      BY <2>2, <2>3, <3>1 DEF buddy_alloc_NULL
  <2>5. Larger(order) \in SUBSET Nat /\ Larger(order) \subseteq Orders
    BY <1>2, Bounds DEF Larger, Orders
  <2>6. Larger(order) = {}
    <3> SUFFICES ASSUME Larger(order) # {} PROVE FALSE
      OBVIOUS
    <3>1. PICK k : k = Min(Larger(order))
      OBVIOUS
    <3>2. k \in Larger(order) /\ k \in Orders
      BY <2>5, <3>1, LeastNumber
    <3>3. free_area_size[k] > 0
      BY <3>2 DEF Larger
    <3>4. free_area[k] = {}
      BY <2>4, <3>1 DEF Exhausted
    <3>5. free_area_size[k] = Cardinality({})
      BY <3>2, <3>4, Zenon DEF FreeSound
    <3> QED
      BY <3>3, <3>5, FS_EmptySet
  <2>7. ASSUME NEW k \in order .. MAX_ORDER PROVE free_area[k] = {}
    <3>1. k \in Orders
      BY <1>2, Bounds DEF Orders
    <3>2. ~(free_area_size[k] > 0)
      BY <2>6 DEF Larger
    <3>3. IsFiniteSet(free_area[k]) /\ free_area_size[k] = Cardinality(free_area[k])
      BY <3>1 DEF FreeSound
    <3>4. Cardinality(free_area[k]) \in Nat
      BY <3>3, FS_CardinalityType
    <3>5. Cardinality(free_area[k]) = 0
      BY <3>2, <3>3, <3>4
    <3> QED
      BY <3>3, <3>5, FS_EmptySet
  <2> QED
    BY <1>1, <2>1, <2>7, NoneInPieces, Zenon
<1> QED
  BY <1>1, <1>2, <1>3, <1>4

\* A step changes the call of its CPU only.
LEMMA OtherCalls ==
  ASSUME call \in [CPUs -> Calls], NEW c \in CPUs, NEW d \in CPUs, c # d,
         \/ \E size \in SIZES : kmalloc(d, size)
         \/ cpu_pool_alloc(d) \/ refill(d) \/ refilled(d) \/ kmalloc_direct(d)
         \/ \E h \in held : kfree(d, h)
         \/ flush(d)
  PROVE  call'[c] = call[c]
<1> USE Zenon
<1>1. \A b : Return(d, b) => call'[c] = call[c]
  BY SMT DEF Return
<1>2. \A pc, o, n : Goto(d, pc, o, n) => call'[c] = call[c]
  BY SMT DEF Goto
<1>3. PoolFailed(d) => call'[c] = call[c]
  BY <1>2, SMT DEF PoolFailed
<1>4. CASE \E size \in SIZES : kmalloc(d, size)
  BY <1>4 DEF kmalloc
<1>5. CASE cpu_pool_alloc(d)
  BY <1>1, <1>2, <1>3, <1>5 DEF cpu_pool_alloc, FromBuddy, PopBlock
<1>6. CASE refill(d)
  BY <1>2, <1>6 DEF refill
<1>7. CASE refilled(d)
  BY <1>1, <1>3, <1>7 DEF refilled, FromBuddy, PopBlock
<1>8. CASE kmalloc_direct(d)
  <2>1. CASE call' = [call EXCEPT ![d] = Idle]
    BY <2>1, SMT
  <2> QED
    BY <1>1, <1>8, <2>1 DEF kmalloc_direct, FromBuddy
<1>9. CASE \E h \in held : kfree(d, h)
  BY <1>9 DEF kfree
<1>10. CASE flush(d)
  BY <1>2, <1>10 DEF flush
<1> QED
  BY <1>4, <1>5, <1>6, <1>7, <1>8, <1>9, <1>10

\* kmalloc_direct gives its caller no block.
LEMMA DirectNull ==
  ASSUME BlocksSound, NEW c \in CPUs, kmalloc_direct(c), held' = held
  PROVE  buddy_alloc_NULL(BUDDY_BLOCK_SIZE(DirectOrder(call[c].size)))
<1> DEFINE mo == max_order
           S == Slabs(pages)
           R == Rest(blocks, call, held, S)
           size == BUDDY_BLOCK_SIZE(DirectOrder(call[c].size))
           order == get_minimum_order(size)
<1>1. mo \in 0 .. MAX_ORDER /\ IsSlab(S) /\ Now(mo, S)
  BY MaxOrder, SlabMember DEF BlocksSound
<1>2. /\ FreeSound(free_area, free_area_size, mo) /\ Divided(FreePlaces(free_area) \cup R, mo) /\ Taken(R)
      /\ call[c].size \in Nat
  BY <1>1, NowFacts, Zenon
<1>3. order \in Orders
  <2>1. call[c].size + HEADER \in Nat
    BY <1>2, Bounds
  <2>2. DirectOrder(call[c].size) \in Orders
    BY <2>1, MinimumOrder DEF DirectOrder
  <2> QED
    BY <2>2, OrderOfBlock
<1>4. ASSUME NEW i, buddy_alloc(size, <<order, i>>), Return(c, <<order, i>>) PROVE FALSE
  <2>1. PICK h : h = [block |-> <<order, i>>, size |-> call[c].size]
    BY Zenon
  <2>2. h \in held /\ h.block = <<order, i>>
    BY <1>4, <2>1 DEF Return
  <2>3. Held(h) \in R /\ Held(h)[2] = <<order, i>>
    BY <2>2, HeldMember, HeldFields, Zenon DEF Rest
  <2>4. alloc_block(order, <<order, i>>)
    BY <1>4 DEF buddy_alloc
  <2> HIDE DEF mo, R, order
  <2> QED
    BY <1>1, <1>2, <1>3, <2>3, <2>4, AllocFresh, Zenon
<1> QED
  BY <1>4, Zenon DEF kmalloc_direct, FromBuddy

LEMMA DirectFull ==
  ASSUME BlocksSound, NEW c \in CPUs, kmalloc_direct(c), held' = held
  PROVE  LET order == DirectOrder(call[c].size)
             units == UNION {UNION {Units(<<o, i>>) : i \in free_area[o]} : o \in Orders}
         IN  \A i \in 0 .. pool - 1 : ~(Units(<<order, i>>) \subseteq units)
<1> DEFINE order == DirectOrder(call[c].size)
           units == UNION {UNION {Units(<<o, i>>) : i \in free_area[o]} : o \in Orders}
<1> SUFFICES ASSUME NEW i \in 0 .. pool - 1, Units(<<order, i>>) \subseteq units PROVE FALSE
  OBVIOUS
<1>1. PICK mo : mo = max_order
  OBVIOUS
<1> DEFINE S == Slabs(pages)
           R == Rest(blocks, call, held, S)
<1>2. pool \in POOLS /\ pool \in Nat /\ IsSlab(S) /\ Now(mo, S)
  BY <1>1, MaxOrder, SlabMember DEF BlocksSound
<1>3. /\ FreeSound(free_area, free_area_size, mo) /\ Divided(FreePlaces(free_area) \cup R, mo)
      /\ call[c].size \in Nat
  BY <1>2, NowFacts, Zenon
<1>4. order \in Orders /\ i \in Nat
  <2>1. call[c].size + HEADER \in Nat
    BY <1>3, Bounds
  <2> QED
    BY <1>2, <2>1, MinimumOrder DEF DirectOrder
<1>5. buddy_alloc_NULL(BUDDY_BLOCK_SIZE(order))
  BY DirectNull
<1>6. ASSUME NEW u \in Units(<<order, i>>)
      PROVE  \E o \in Orders : \E j \in free_area[o] : u \in Units(<<o, j>>)
  <2>1. u \in units
    BY <1>6
  <2>2. PICK o \in Orders : u \in UNION {Units(<<o, j>>) : j \in free_area[o]}
    BY <2>1
  <2>3. \E j \in free_area[o] : u \in Units(<<o, j>>)
    BY <2>2
  <2> QED
    BY <2>3, Zenon
<1> HIDE DEF R, order
<1> QED
  BY <1>1, <1>2, <1>3, <1>4, <1>5, <1>6, NullWhenFull, Zenon

\* kmalloc returns NULL only if the free areas do not contain a block of the order it needs: neither
\* whole nor in pieces that alloc_block would not find.
THEOREM NullOnlyWhenFull == Spec => FailsOnlyWhenFull
<1> DEFINE A(c) == call[c].pc = "direct" /\ call'[c].pc = "idle" /\ held' = held
                   => LET order == DirectOrder(call[c].size)
                          units == UNION {UNION {Units(<<o, i>>) : i \in free_area[o]} : o \in Orders}
                      IN  \A i \in 0 .. pool - 1 : ~(Units(<<order, i>>) \subseteq units)
<1>1. ASSUME BlocksSound, [Next]_vars PROVE [\A c \in CPUs : A(c)]_buddy_vars
  <2> SUFFICES ASSUME NEW c \in CPUs, call[c].pc = "direct", call'[c].pc = "idle", held' = held,
                      ~UNCHANGED buddy_vars
               PROVE  kmalloc_direct(c)
    BY <1>1, DirectFull, Zenon
  <2>1. call \in [CPUs -> Calls]
    BY <1>1, SlabMember, NowFacts, Zenon DEF BlocksSound
  <2>2. call'[c] # call[c]
    OBVIOUS
  <2>3. CASE BuddyNext
    <3> USE Zenon
    <3>1. PICK d \in CPUs :
             \/ \E size \in SIZES : kmalloc(d, size)
             \/ cpu_pool_alloc(d) \/ refill(d) \/ refilled(d) \/ kmalloc_direct(d)
             \/ \E h \in held : kfree(d, h)
             \/ flush(d)
      BY <2>3 DEF BuddyNext
    <3>2. d = c
      BY <2>1, <2>2, <3>1, OtherCalls
    <3> QED
      BY <3>1, <3>2 DEF kmalloc, cpu_pool_alloc, refill, refilled, kfree, flush
  <2>4. ASSUME NEW size, slab_alloc(BSP, size) PROVE FALSE
    <3>1. call[BSP].pc = "idle" /\ BSP # c
      BY <2>4 DEF slab_alloc
    <3>2. call' = call \/ \E v : call' = [call EXCEPT ![BSP] = v]
      BY <2>4, Zenon DEF slab_alloc
    <3> QED
      BY <2>1, <2>2, <3>1, <3>2
  <2>5. ASSUME NEW obj, slab_free(BSP, obj) PROVE FALSE
    BY <2>5 DEF slab_free
  <2>6. ASSUME NEW d \in CPUs, slab_cpu_init(d) PROVE FALSE
    BY <2>2, <2>6 DEF slab_cpu_init, cpu_pool_init
  <2>7. Ordinary
    BY <1>1, NextSteps, Zenon
  <2> QED
    BY <2>3, <2>4, <2>5, <2>6, <2>7, Zenon DEF Ordinary
<1> QED
  BY <1>1, BlocksStaySound, PTL DEF Spec, FailsOnlyWhenFull
=============================================================================
