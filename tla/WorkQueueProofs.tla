--------------------------- MODULE WorkQueueProofs ---------------------------
(***************************************************************************)
(* Type correctness and mutual exclusion of the work queues, for any       *)
(* number of CPUs, any ring size and any number of calls.                  *)
(***************************************************************************)
EXTENDS WorkQueue, SequenceTheorems, TLAPS

LEMMA AfterIsSlot == ASSUME NEW n \in Slots PROVE After(n) \in Slots
BY WorkQueueAssumption DEF After, Slots

LEMMA InitTypeOK == Init => TypeOK
<1> SUFFICES ASSUME Init PROVE TypeOK
  OBVIOUS
<1>1. 0 \in Items /\ 0 \in Slots /\ 0 \in 0 .. MAX_CALLS
  BY WorkQueueAssumption DEF Items, Slots
<1>2. \A c \in CPUs : <<>> \in Seq(Items)
  OBVIOUS
<1> QED
  BY <1>1, <1>2 DEF Init, TypeOK

\* The locals of a CPU that calls a function.
LEMMA CallType ==
    ASSUME TypeOK, NEW c \in CPUs, NEW q \in CPUs, NEW i \in Items,
           NEW f \in {"wq_submit", "wq_run", "wq_pending"}, Call(c, f, q, i)
    PROVE  /\ pc' \in [CPUs -> {"idle", "acquire", "check", "store", "advance", "release", "call"}]
           /\ op' \in [CPUs -> {"none", "wq_submit", "wq_run", "wq_pending"}]
           /\ wq' \in [CPUs -> CPUs] /\ item' \in [CPUs -> Items]
BY DEF TypeOK, Call

LEMMA NextTypeOK == TypeOK /\ [Next]_vars => TypeOK'
<1> SUFFICES ASSUME TypeOK, [Next]_vars PROVE TypeOK'
  OBVIOUS
<1>0. 0 \in Items
  BY WorkQueueAssumption DEF Items
<1>1. ASSUME NEW c \in CPUs, wq_submit(c) PROVE TypeOK'
  <2>1. calls + 1 \in Items /\ calls + 1 \in 0 .. MAX_CALLS
    BY <1>1, WorkQueueAssumption DEF wq_submit, TypeOK, Items
  <2> QED
    BY <1>1, <2>1, CallType DEF wq_submit, TypeOK, queues
<1>2. ASSUME NEW c \in CPUs, wq_pending(c) PROVE TypeOK'
  BY <1>0, <1>2, CallType DEF wq_pending, TypeOK, queues
<1>3. ASSUME NEW c \in CPUs, wq_run(c) PROVE TypeOK'
  BY <1>0, <1>3, CallType DEF wq_run, TypeOK, queues
<1>4. ASSUME NEW c \in CPUs, spinlock_acquire(c) PROVE TypeOK'
  BY <1>4 DEF spinlock_acquire, Goto, TypeOK
<1>5. ASSUME NEW c \in CPUs, spinlock_release(c) PROVE TypeOK'
  BY <1>5 DEF spinlock_release, Goto, Released, TypeOK
<1>6. ASSUME NEW c \in CPUs, submit_check(c) \/ pending_read(c) PROVE TypeOK'
  BY <1>6, Zenon DEF submit_check, pending_read, Goto, TypeOK, queues
<1>7. ASSUME NEW c \in CPUs, submit_store(c) PROVE TypeOK'
  <2>1. items' \in [CPUs -> [Slots -> Items]]
    BY <1>7 DEF submit_store, TypeOK
  <2> QED
    BY <1>7, <2>1 DEF submit_store, Goto, TypeOK
<1>8. ASSUME NEW c \in CPUs, submit_advance(c) PROVE TypeOK'
  <2>1. tail' \in [CPUs -> Slots]
    BY <1>8, AfterIsSlot DEF submit_advance, TypeOK
  <2> QED
    BY <1>8, <2>1 DEF submit_advance, Goto, TypeOK
<1>9. ASSUME NEW c \in CPUs, run_check(c) PROVE TypeOK'
  <2>1. items[wq[c]][head[wq[c]]] \in Items
    BY DEF TypeOK
  <2>2. item' \in [CPUs -> Items]
    BY <1>9, <2>1, Zenon DEF run_check, TypeOK
  <2> QED
    BY <1>9, <2>2, Zenon DEF run_check, Goto, TypeOK, queues
<1>10. ASSUME NEW c \in CPUs, run_advance(c) PROVE TypeOK'
  <2>1. head' \in [CPUs -> Slots]
    BY <1>10, AfterIsSlot DEF run_advance, TypeOK
  <2> QED
    BY <1>10, <2>1 DEF run_advance, Goto, TypeOK
<1>11. ASSUME NEW c \in CPUs, call_fn(c) PROVE TypeOK'
  <2>1. Append(ran[c], item[c]) \in Seq(Items)
    BY DEF TypeOK
  <2>2. ran' \in [CPUs -> Seq(Items)]
    BY <1>11, <2>1 DEF call_fn, TypeOK
  <2> QED
    BY <1>0, <1>11, <2>2 DEF call_fn, TypeOK, queues
<1>12. ASSUME NEW c \in CPUs, fn_return(c) PROVE TypeOK'
  <2>1. inFn' \in [CPUs -> {0, 1}]
    BY <1>12 DEF fn_return, TypeOK
  <2> QED
    BY <1>0, <1>12, <2>1, CallType DEF fn_return, TypeOK, queues
<1>13. CASE UNCHANGED vars
  BY <1>13 DEF vars, TypeOK
<1> QED
  BY <1>1, <1>2, <1>3, <1>4, <1>5, <1>6, <1>7, <1>8, <1>9, <1>10, <1>11, <1>12, <1>13
  DEF Next, Step

\* head and tail of every ring stay in the ring.
THEOREM TypeCorrect == Spec => []TypeOK
BY InitTypeOK, NextTypeOK, PTL DEF Spec

-----------------------------------------------------------------------------
(* Mutual exclusion follows from LockIsHeld and itself.                    *)

LockInv == MutualExclusion /\ LockIsHeld

\* A step after which the same CPUs are in the same sections.
LEMMA SameSections ==
    ASSUME LockInv, lock' = lock, \A c \in CPUs : InSection(c)' <=> InSection(c),
           \A c \in CPUs : InSection(c) => wq'[c] = wq[c]
    PROVE  LockInv'
BY DEF LockInv, MutualExclusion, LockIsHeld

LEMMA NextLockInv == TypeOK /\ LockInv /\ [Next]_vars => LockInv'
<1> SUFFICES ASSUME TypeOK, LockInv, [Next]_vars PROVE LockInv'
  OBVIOUS
<1>1. ASSUME NEW c \in CPUs, wq_submit(c) \/ wq_pending(c) \/ wq_run(c) \/ fn_return(c)
      PROVE  LockInv'
  <2>1. PICK f \in {"wq_submit", "wq_run", "wq_pending"}, q \in CPUs, i \in Items :
            Call(c, f, q, i)
    <3>1. 0 \in Items /\ (calls < MAX_CALLS => calls + 1 \in Items)
      BY WorkQueueAssumption DEF TypeOK, Items
    <3> QED
      BY <1>1, <3>1 DEF wq_submit, wq_pending, wq_run, fn_return
  <2>2. pc[c] = "idle" /\ lock' = lock
    BY <1>1 DEF wq_submit, wq_pending, wq_run, fn_return, RunsCode, queues
  <2>3. /\ \A d \in CPUs \ {c} : pc'[d] = pc[d] /\ wq'[d] = wq[d]
        /\ pc'[c] = "acquire"
    BY <2>1 DEF Call, TypeOK
  <2>4. /\ \A d \in CPUs : InSection(d)' <=> InSection(d)
        /\ \A d \in CPUs : InSection(d) => wq'[d] = wq[d]
    BY <2>2, <2>3 DEF InSection
  <2> QED
    BY <2>2, <2>4, SameSections
<1>2. ASSUME NEW c \in CPUs,
             \/ submit_check(c) \/ submit_store(c) \/ submit_advance(c)
             \/ run_check(c) \/ run_advance(c) \/ pending_read(c) \/ call_fn(c)
      PROVE  LockInv'
  <2>1. lock' = lock /\ wq' = wq
    BY <1>2 DEF submit_check, submit_store, submit_advance, run_check, run_advance,
                pending_read, call_fn, Goto, queues
  <2>2. \A d \in CPUs \ {c} : pc'[d] = pc[d]
    BY <1>2 DEF submit_check, submit_store, submit_advance, run_check, run_advance,
                pending_read, call_fn, Goto, TypeOK
  <2>3. InSection(c)' <=> InSection(c)
    BY <1>2 DEF submit_check, submit_store, submit_advance, run_check, run_advance,
                pending_read, call_fn, Goto, TypeOK, InSection
  <2>4. \A d \in CPUs : InSection(d)' <=> InSection(d)
    BY <2>2, <2>3 DEF InSection
  <2> QED
    BY <2>1, <2>4, SameSections
<1>3. ASSUME NEW c \in CPUs, spinlock_acquire(c) PROVE LockInv'
  <2>1. /\ wq' = wq /\ ~InSection(c) /\ InSection(c)'
        /\ \A d \in CPUs \ {c} : InSection(d)' <=> InSection(d)
        /\ lock[wq[c]] = 0 /\ lock' = [lock EXCEPT ![wq[c]] = 1]
    BY <1>3 DEF spinlock_acquire, Goto, InSection, TypeOK
  <2>2. \A d \in CPUs : InSection(d) => wq[d] # wq[c]
    <3>1. wq[c] \in CPUs /\ lock[wq[c]] # 1
      BY <2>1 DEF TypeOK
    <3> QED
      BY <3>1 DEF LockInv, LockIsHeld
  <2>3. MutualExclusion'
    BY <2>1, <2>2 DEF LockInv, MutualExclusion
  <2>4. ASSUME NEW q \in CPUs
        PROVE  (lock'[q] = 1) <=> \E d \in CPUs : InSection(d)' /\ wq'[d] = q
    <3>1. CASE q = wq[c]
      BY <2>1, <3>1 DEF TypeOK
    <3>2. CASE q # wq[c]
      BY <2>1, <3>2 DEF LockInv, LockIsHeld, TypeOK
    <3> QED
      BY <3>1, <3>2
  <2> QED
    BY <2>3, <2>4 DEF LockInv, LockIsHeld
<1>4. ASSUME NEW c \in CPUs, spinlock_release(c) PROVE LockInv'
  <2>1. /\ wq' = wq /\ InSection(c) /\ ~InSection(c)'
        /\ \A d \in CPUs \ {c} : InSection(d)' <=> InSection(d)
        /\ lock' = [lock EXCEPT ![wq[c]] = 0]
    BY <1>4 DEF spinlock_release, Goto, Released, InSection, TypeOK
  <2>2. MutualExclusion'
    BY <2>1 DEF LockInv, MutualExclusion
  <2>3. \A d \in CPUs : InSection(d)' => wq[d] # wq[c]
    BY <2>1 DEF LockInv, MutualExclusion
  <2>4. ASSUME NEW q \in CPUs
        PROVE  (lock'[q] = 1) <=> \E d \in CPUs : InSection(d)' /\ wq'[d] = q
    <3>1. CASE q = wq[c]
      BY <2>1, <2>3, <3>1 DEF TypeOK
    <3>2. CASE q # wq[c]
      BY <2>1, <3>2 DEF LockInv, LockIsHeld, TypeOK
    <3> QED
      BY <3>1, <3>2
  <2> QED
    BY <2>2, <2>4 DEF LockInv, LockIsHeld
<1>5. CASE UNCHANGED vars
  BY <1>5 DEF vars, LockInv, MutualExclusion, LockIsHeld, InSection
<1> QED
  BY <1>1, <1>2, <1>3, <1>4, <1>5 DEF Next, Step

LEMMA InitLockInv == Init => LockInv
BY DEF Init, LockInv, MutualExclusion, LockIsHeld, InSection

\* The spinlock keeps two CPUs out of the critical section of one queue.
THEOREM QueuesExclusive == Spec => []MutualExclusion
<1>1. LockInv => MutualExclusion
  BY DEF LockInv
<1> QED
  BY <1>1, InitLockInv, TypeCorrect, NextLockInv, PTL DEF Spec

\* A queue's lock is held exactly while a CPU is in its critical section.
THEOREM LocksAreHeld == Spec => []LockIsHeld
<1>1. LockInv => LockIsHeld
  BY DEF LockInv
<1> QED
  BY <1>1, InitLockInv, TypeCorrect, NextLockInv, PTL DEF Spec
-----------------------------------------------------------------------------
(* The locked rings implement bounded FIFOs.                               *)

N == WQ_MAX_ITEMS

-----------------------------------------------------------------------------
(* Arithmetic of the ring: h is a head, t a tail.                          *)

LEMMA ModLow == ASSUME NEW a \in 0 .. N - 1 PROVE a % N = a
BY WorkQueueAssumption DEF N

LEMMA ModHigh == ASSUME NEW a \in N .. 2 * N - 1 PROVE a % N = a - N
BY WorkQueueAssumption DEF N

LEMMA ModNegative == ASSUME NEW a \in Int, -N <= a, a < 0 PROVE a % N = a + N
BY WorkQueueAssumption DEF N

\* The number of items between head and tail.
LEMMA Distance ==
    ASSUME NEW h \in Slots, NEW t \in Slots
    PROVE  /\ ((t - h) % N) = IF h <= t THEN t - h ELSE t - h + N
           /\ ((t - h) % N) \in 0 .. N - 1
<1>1. CASE h <= t
  <2>1. t - h \in 0 .. N - 1
    BY <1>1, WorkQueueAssumption DEF Slots, N
  <2> QED
    BY <1>1, <2>1, ModLow
<1>2. CASE ~(h <= t)
  <2>1. t - h \in Int /\ -N <= t - h /\ t - h < 0
    BY <1>2, WorkQueueAssumption DEF Slots, N
  <2>2. ((t - h) % N) = t - h + N
    BY <2>1, ModNegative
  <2> QED
    BY <1>2, <2>1, <2>2, WorkQueueAssumption DEF Slots, N
<1> QED
  BY <1>1, <1>2

\* The slot k places behind the head.
LEMMA Place ==
    ASSUME NEW h \in Slots, NEW k \in 0 .. N
    PROVE  /\ (h + k) % N = IF h + k < N THEN h + k ELSE h + k - N
           /\ (h + k) % N \in Slots
<1>0. N \in Nat /\ N > 1 /\ h \in 0 .. N - 1
  BY WorkQueueAssumption DEF Slots, N
<1>1. CASE h + k < N
  BY <1>0, <1>1, ModLow DEF Slots, N
<1>2. CASE ~(h + k < N)
  <2>1. h + k \in N .. 2 * N - 1
    BY <1>0, <1>2
  <2> QED
    BY <1>0, <1>2, <2>1, ModHigh DEF Slots, N
<1> QED
  BY <1>1, <1>2

\* The tail advances into a ring that is not full.
LEMMA TailAdvances ==
    ASSUME NEW h \in Slots, NEW t \in Slots, After(t) # h
    PROVE  /\ (After(t) - h) % N = ((t - h) % N) + 1
           /\ ((t - h) % N) < N - 1
           /\ (h + ((t - h) % N)) % N = t
<1>0. N \in Nat /\ N > 1 /\ h \in 0 .. N - 1 /\ t \in 0 .. N - 1
  BY WorkQueueAssumption DEF Slots, N
<1> DEFINE a == After(t)
           d == ((t - h) % N)
           e == (a - h) % N
           p == (h + d) % N
<1>1. a = (IF t + 1 < N THEN t + 1 ELSE t + 1 - N) /\ a \in Slots
  BY <1>0, Place DEF After, N
<1>2. d = IF h <= t THEN t - h ELSE t - h + N
  BY Distance
<1>3. e = IF h <= a THEN a - h ELSE a - h + N
  BY <1>1, Distance
<1>4. d \in 0 .. N
  BY Distance, <1>0
<1>5. p = IF h + d < N THEN h + d ELSE h + d - N
  BY <1>4, Place
<1>6. a # h
  OBVIOUS
<1> HIDE DEF a, d, e, p
<1>7. e = d + 1 /\ d < N - 1 /\ p = t
  BY <1>0, <1>1, <1>2, <1>3, <1>5, <1>6
<1> QED
  BY <1>7 DEF a, d, e, p

\* The head advances in a ring that is not empty.
LEMMA HeadAdvances ==
    ASSUME NEW h \in Slots, NEW t \in Slots, h # t
    PROVE  /\ (t - After(h)) % N = ((t - h) % N) - 1
           /\ ((t - h) % N) >= 1
           /\ \A k \in 0 .. ((t - h) % N) - 1 : (After(h) + k) % N = (h + (k + 1)) % N
<1>0. N \in Nat /\ N > 1 /\ h \in 0 .. N - 1 /\ t \in 0 .. N - 1
  BY WorkQueueAssumption DEF Slots, N
<1> DEFINE a == After(h)
           d == ((t - h) % N)
           e == (t - a) % N
<1>1. a = (IF h + 1 < N THEN h + 1 ELSE h + 1 - N) /\ a \in Slots
  BY <1>0, Place DEF After, N
<1>2. d = (IF h <= t THEN t - h ELSE t - h + N) /\ d \in 0 .. N - 1
  BY Distance
<1>3. e = IF a <= t THEN t - a ELSE t - a + N
  BY <1>1, Distance
<1> HIDE DEF a, d, e
<1>4. ASSUME NEW k \in 0 .. d - 1 PROVE (a + k) % N = (h + (k + 1)) % N
  <2>1. k \in 0 .. N /\ k + 1 \in 0 .. N
    BY <1>0, <1>2
  <2> DEFINE x == (a + k) % N
             y == (h + (k + 1)) % N
  <2>2. x = IF a + k < N THEN a + k ELSE a + k - N
    BY <1>1, <2>1, Place
  <2>3. y = IF h + (k + 1) < N THEN h + (k + 1) ELSE h + (k + 1) - N
    BY <2>1, Place
  <2> HIDE DEF x, y
  <2>4. x = y
    BY <1>0, <1>1, <1>2, <2>1, <2>2, <2>3
  <2> QED
    BY <2>4 DEF x, y
<1>5. e = d - 1 /\ d >= 1
  BY <1>0, <1>1, <1>2, <1>3
<1> QED
  BY <1>4, <1>5 DEF a, d, e

\* No item lies in the slot of the tail.
LEMMA TailIsFree ==
    ASSUME NEW h \in Slots, NEW t \in Slots, NEW k \in 0 .. ((t - h) % N) - 1
    PROVE  (h + k) % N # t
<1>0. N \in Nat /\ N > 1 /\ h \in 0 .. N - 1 /\ t \in 0 .. N - 1
  BY WorkQueueAssumption DEF Slots, N
<1>1. ((t - h) % N) = (IF h <= t THEN t - h ELSE t - h + N) /\ ((t - h) % N) \in 0 .. N - 1
  BY Distance
<1>2. k \in 0 .. N
  BY <1>0, <1>1
<1>3. (h + k) % N = IF h + k < N THEN h + k ELSE h + k - N
  BY <1>2, Place
<1> QED
  BY <1>0, <1>1, <1>2, <1>3

-----------------------------------------------------------------------------
(* The items of a ring as a sequence.                                      *)

\* The items of a ring with slots it, head h and tail t.
RingOf(it, h, t) == [k \in 1 .. ((t - h) % N) |-> it[(h + k - 1) % N]]

LEMMA RingIsRingOf ==
    ASSUME NEW q \in CPUs
    PROVE  /\ Ring(q) = RingOf(items[q], head[q], tail[q])
           /\ Ring(q)' = RingOf(items'[q], head'[q], tail'[q])
BY DEF Ring, RingOf, N

LEMMA RingFacts ==
    ASSUME NEW it \in [Slots -> Items], NEW h \in Slots, NEW t \in Slots
    PROVE  /\ RingOf(it, h, t) \in Seq(Items)
           /\ Len(RingOf(it, h, t)) = (t - h) % N
           /\ \A k \in 1 .. ((t - h) % N) : RingOf(it, h, t)[k] = it[(h + (k - 1)) % N]
<1> DEFINE n == (t - h) % N
           ring == RingOf(it, h, t)
<1>0. N \in Nat /\ N > 1 /\ h \in Nat
  BY WorkQueueAssumption DEF Slots, N
<1>1. n \in 0 .. N - 1 /\ n \in Nat
  BY <1>0, Distance
<1>2. ring = [k \in 1 .. n |-> it[(h + k - 1) % N]]
  BY DEF RingOf
<1> HIDE DEF n, ring
<1>3. ASSUME NEW k \in 1 .. n
      PROVE  /\ ring[k] = it[(h + (k - 1)) % N]
             /\ ring[k] \in Items
  <2>1. k - 1 \in 0 .. N /\ h + k - 1 = h + (k - 1)
    BY <1>0, <1>1
  <2>2. (h + (k - 1)) % N \in Slots
    BY <2>1, Place
  <2>3. ring[k] = it[(h + (k - 1)) % N]
    BY <1>2, <2>1
  <2> QED
    BY <2>2, <2>3
<1>4. ring \in [1 .. n -> Items]
  <2>1. DOMAIN ring = 1 .. n /\ ring = [k \in DOMAIN ring |-> ring[k]]
    BY <1>2
  <2> QED
    BY <1>3, <2>1
<1>5. ring \in Seq(Items)
  BY <1>1, <1>4, SeqDef
<1>6. Len(ring) = n
  BY <1>1, <1>4, <1>5, LenProperties
<1> QED
  BY <1>3, <1>5, <1>6 DEF n, ring

\* What submit_store writes is not in the ring yet.
LEMMA StoreAtTail ==
    ASSUME NEW it \in [Slots -> Items], NEW h \in Slots, NEW t \in Slots, NEW i \in Items
    PROVE  RingOf([it EXCEPT ![t] = i], h, t) = RingOf(it, h, t)
<1> DEFINE new == [it EXCEPT ![t] = i]
           n == (t - h) % N
<1>0. new \in [Slots -> Items] /\ n \in 0 .. N - 1
  BY Distance
<1>1. ASSUME NEW k \in 1 .. n PROVE new[(h + (k - 1)) % N] = it[(h + (k - 1)) % N]
  <2>1. k - 1 \in 0 .. n - 1 /\ k - 1 \in 0 .. N
    BY <1>0, WorkQueueAssumption DEF N
  <2>2. (h + (k - 1)) % N # t /\ (h + (k - 1)) % N \in Slots
    BY <2>1, TailIsFree, Place
  <2> QED
    BY <2>2
<1> HIDE DEF new
<1>2. /\ RingOf(new, h, t) \in Seq(Items) /\ Len(RingOf(new, h, t)) = n
      /\ \A k \in 1 .. n : RingOf(new, h, t)[k] = new[(h + (k - 1)) % N]
  BY <1>0, RingFacts
<1>3. /\ RingOf(it, h, t) \in Seq(Items) /\ Len(RingOf(it, h, t)) = n
      /\ \A k \in 1 .. n : RingOf(it, h, t)[k] = it[(h + (k - 1)) % N]
  BY RingFacts
<1> HIDE DEF n
<1>4. RingOf(new, h, t) = RingOf(it, h, t)
  BY <1>1, <1>2, <1>3, SeqEqual
<1> QED
  BY <1>4 DEF new

\* submit_advance appends the item in the slot of the tail.
LEMMA AppendAtTail ==
    ASSUME NEW it \in [Slots -> Items], NEW h \in Slots, NEW t \in Slots, After(t) # h
    PROVE  /\ RingOf(it, h, After(t)) = Append(RingOf(it, h, t), it[t])
           /\ Len(RingOf(it, h, t)) < N - 1
<1> DEFINE n == (t - h) % N
           old == RingOf(it, h, t)
           new == RingOf(it, h, After(t))
<1>0. n \in 0 .. N - 1 /\ n \in Nat /\ it[t] \in Items /\ N \in Nat
  BY Distance, WorkQueueAssumption DEF N
<1>1. (After(t) - h) % N = n + 1 /\ n < N - 1 /\ (h + n) % N = t
  BY TailAdvances
<1>2. /\ old \in Seq(Items) /\ Len(old) = n
      /\ \A k \in 1 .. n : old[k] = it[(h + (k - 1)) % N]
  BY RingFacts
<1>3. /\ new \in Seq(Items) /\ Len(new) = n + 1
      /\ \A k \in 1 .. n + 1 : new[k] = it[(h + (k - 1)) % N]
  <2> DEFINE m == (After(t) - h) % N
  <2>1. After(t) \in Slots
    BY AfterIsSlot
  <2>2. /\ new \in Seq(Items) /\ Len(new) = m
        /\ \A k \in 1 .. m : new[k] = it[(h + (k - 1)) % N]
    BY <2>1, RingFacts, ZenonT(30)
  <2> QED
    BY <1>1, <2>2
<1> HIDE DEF n, old, new
<1>4. /\ Append(old, it[t]) \in Seq(Items) /\ Len(Append(old, it[t])) = n + 1
      /\ \A k \in 1 .. n : Append(old, it[t])[k] = old[k]
      /\ Append(old, it[t])[n + 1] = it[t]
  BY <1>0, <1>2, AppendProperties
<1>5. ASSUME NEW k \in 1 .. n + 1 PROVE new[k] = Append(old, it[t])[k]
  <2>1. CASE k = n + 1
    <3>1. k - 1 = n
      BY <1>0, <2>1
    <3> QED
      BY <1>1, <1>3, <1>4, <2>1, <3>1
  <2>2. CASE k # n + 1
    <3>1. k \in 1 .. n
      BY <1>0, <2>2
    <3> QED
      BY <1>2, <1>3, <1>4, <3>1
  <2> QED
    BY <2>1, <2>2, ZenonT(30)
<1>6. new = Append(old, it[t])
  BY <1>3, <1>4, <1>5, SeqEqual
<1> QED
  BY <1>1, <1>2, <1>6 DEF new, old

\* run_advance removes the item in the slot of the head.
LEMMA TakeAtHead ==
    ASSUME NEW it \in [Slots -> Items], NEW h \in Slots, NEW t \in Slots, h # t
    PROVE  /\ RingOf(it, h, t) # <<>>
           /\ Head(RingOf(it, h, t)) = it[h]
           /\ RingOf(it, After(h), t) = Tail(RingOf(it, h, t))
<1> DEFINE n == (t - h) % N
           old == RingOf(it, h, t)
           new == RingOf(it, After(h), t)
<1>0. n \in 0 .. N - 1 /\ n \in Nat /\ N \in Nat /\ h \in 0 .. N - 1
  BY Distance, WorkQueueAssumption DEF N, Slots
<1>1. /\ (t - After(h)) % N = n - 1 /\ n >= 1
      /\ \A k \in 0 .. n - 1 : (After(h) + k) % N = (h + (k + 1)) % N
  BY HeadAdvances
<1>2. /\ old \in Seq(Items) /\ Len(old) = n
      /\ \A k \in 1 .. n : old[k] = it[(h + (k - 1)) % N]
  BY RingFacts
<1>3. /\ new \in Seq(Items) /\ Len(new) = n - 1
      /\ \A k \in 1 .. n - 1 : new[k] = it[(After(h) + (k - 1)) % N]
  <2> DEFINE m == (t - After(h)) % N
  <2>1. After(h) \in Slots
    BY AfterIsSlot
  <2>2. /\ new \in Seq(Items) /\ Len(new) = m
        /\ \A k \in 1 .. m : new[k] = it[(After(h) + (k - 1)) % N]
    BY <2>1, RingFacts, ZenonT(30)
  <2> QED
    BY <1>1, <2>2
<1> HIDE DEF n, old, new
<1>4. old # <<>> /\ Head(old) = it[h]
  <2>1. old # <<>>
    BY <1>0, <1>1, <1>2
  <2>2. old[1] = it[(h + 0) % N]
    BY <1>0, <1>1, <1>2
  <2>3. (h + 0) % N = h
    BY <1>0, ModLow
  <2> QED
    BY <1>2, <2>1, <2>2, <2>3
<1>5. /\ Tail(old) \in Seq(Items) /\ Len(Tail(old)) = n - 1
      /\ \A k \in 1 .. n - 1 : Tail(old)[k] = old[k + 1]
  BY <1>2, <1>4, HeadTailProperties
<1>6. ASSUME NEW k \in 1 .. n - 1 PROVE new[k] = Tail(old)[k]
  <2>1. k + 1 \in 1 .. n /\ k - 1 \in 0 .. n - 1 /\ (k + 1) - 1 = k /\ (k - 1) + 1 = k
    BY <1>0
  <2>2. new[k] = it[(After(h) + (k - 1)) % N] /\ Tail(old)[k] = old[k + 1]
    BY <1>3, <1>5
  <2>3. old[k + 1] = it[(h + k) % N]
    BY <1>2, <2>1
  <2>4. (After(h) + (k - 1)) % N = (h + k) % N
    BY <1>1, <2>1
  <2> QED
    BY <2>2, <2>3, <2>4, ZenonT(30)
<1>7. new = Tail(old)
  BY <1>3, <1>5, <1>6, SeqEqual
<1> QED
  BY <1>4, <1>7 DEF new, old

-----------------------------------------------------------------------------
(* The inductive invariant.                                                *)

\* What the program counter of a CPU says about its locals.
FlowInv ==
    \A c \in CPUs :
        /\ pc[c] = "store" => op[c] = "wq_submit"
        /\ pc[c] = "advance" => op[c] \in {"wq_submit", "wq_run"}
        /\ pc[c] = "call" => op[c] = "wq_run" /\ item[c] # 0
        /\ pc[c] # "idle" /\ op[c] = "wq_run" => wq[c] = c
        /\ pc[c] \in {"acquire", "check"} /\ op[c] = "wq_run" => item[c] = 0

\* What a CPU that has looked at its ring relies on until it advances.
SectionInv ==
    \A c \in CPUs :
        /\ pc[c] \in {"store", "advance"} /\ op[c] = "wq_submit" => ~Full(wq[c])
        /\ pc[c] = "advance" /\ op[c] = "wq_submit" => items[wq[c]][tail[wq[c]]] = item[c]
        /\ pc[c] = "advance" /\ op[c] = "wq_run" =>
               head[wq[c]] # tail[wq[c]] /\ items[wq[c]][head[wq[c]]] = item[c]

\* The item is in a ring, taken out of it, or has been run.
Used(i) ==
    \E c \in CPUs : \/ \E k \in DOMAIN Ring(c) : Ring(c)[k] = i
                    \/ \E k \in DOMAIN ran[c] : ran[c][k] = i
                    \/ Taken(c) = i

\* The CPU is in wq_submit and its item is not in the ring yet.
Pending(c) == op[c] = "wq_submit" /\ pc[c] \in {"acquire", "check", "store", "advance"}

\* Every submission has an item of its own.
FreshInv ==
    /\ \A i \in Items : Used(i) => i <= calls
    /\ \A c \in CPUs : Pending(c) => item[c] \in 1 .. calls /\ ~Used(item[c])
    /\ \A c, d \in CPUs : Pending(c) /\ Pending(d) /\ item[c] = item[d] => c = d

FifoInv == FlowInv /\ SectionInv /\ FreshInv

LEMMA FlowStep == TypeOK /\ FlowInv /\ [Next]_vars => FlowInv'
<1> SUFFICES ASSUME TypeOK, FlowInv, [Next]_vars PROVE FlowInv'
  OBVIOUS
<1>1. ASSUME NEW c \in CPUs, wq_submit(c) \/ wq_pending(c) PROVE FlowInv'
  <2>1. pc'[c] = "acquire" /\ op'[c] \in {"wq_submit", "wq_pending"}
    BY <1>1 DEF wq_submit, wq_pending, Call, TypeOK
  <2>2. \A d \in CPUs \ {c} : /\ pc'[d] = pc[d] /\ op'[d] = op[d]
                              /\ wq'[d] = wq[d] /\ item'[d] = item[d]
    BY <1>1 DEF wq_submit, wq_pending, Call, TypeOK
  <2> QED
    BY <2>1, <2>2 DEF FlowInv
<1>2. ASSUME NEW c \in CPUs, wq_run(c) \/ fn_return(c) PROVE FlowInv'
  <2>1. pc'[c] = "acquire" /\ op'[c] = "wq_run" /\ wq'[c] = c /\ item'[c] = 0
    BY <1>2 DEF wq_run, fn_return, Call, TypeOK
  <2>2. \A d \in CPUs \ {c} : /\ pc'[d] = pc[d] /\ op'[d] = op[d]
                              /\ wq'[d] = wq[d] /\ item'[d] = item[d]
    BY <1>2 DEF wq_run, fn_return, Call, TypeOK
  <2> QED
    BY <2>1, <2>2 DEF FlowInv
<1>3. ASSUME NEW c \in CPUs, spinlock_acquire(c) PROVE FlowInv'
  BY <1>3 DEF spinlock_acquire, Goto, TypeOK, FlowInv
<1>4. ASSUME NEW c \in CPUs, spinlock_release(c) PROVE FlowInv'
  BY <1>4 DEF spinlock_release, Released, Goto, TypeOK, FlowInv
<1>5. ASSUME NEW c \in CPUs, submit_check(c) \/ pending_read(c) PROVE FlowInv'
  BY <1>5 DEF submit_check, pending_read, Goto, TypeOK, FlowInv
<1>6. ASSUME NEW c \in CPUs, submit_store(c) PROVE FlowInv'
  BY <1>6 DEF submit_store, Goto, TypeOK, FlowInv
<1>7. ASSUME NEW c \in CPUs, submit_advance(c) \/ run_advance(c) PROVE FlowInv'
  BY <1>7 DEF submit_advance, run_advance, Goto, TypeOK, FlowInv
<1>8. ASSUME NEW c \in CPUs, run_check(c) PROVE FlowInv'
  BY <1>8 DEF run_check, Goto, TypeOK, FlowInv
<1>9. ASSUME NEW c \in CPUs, call_fn(c) PROVE FlowInv'
  BY <1>9 DEF call_fn, TypeOK, FlowInv
<1>10. CASE UNCHANGED vars
  BY <1>10 DEF vars, FlowInv
<1> QED
  BY <1>1, <1>2, <1>3, <1>4, <1>5, <1>6, <1>7, <1>8, <1>9, <1>10 DEF Next, Step

\* A step that leaves the rings alone, and the CPUs that are about to advance.
LEMMA SameRings ==
    ASSUME SectionInv, UNCHANGED <<items, head, tail>>, NEW c \in CPUs,
           \A d \in CPUs \ {c} : /\ pc'[d] = pc[d] /\ op'[d] = op[d]
                                 /\ wq'[d] = wq[d] /\ item'[d] = item[d],
           pc'[c] \notin {"store", "advance"}
    PROVE  SectionInv'
BY DEF SectionInv, Full

LEMMA SectionStep ==
    TypeOK /\ LockInv /\ FlowInv /\ SectionInv /\ [Next]_vars => SectionInv'
<1> SUFFICES ASSUME TypeOK, LockInv, FlowInv, SectionInv, [Next]_vars PROVE SectionInv'
  OBVIOUS
<1>1. ASSUME NEW c \in CPUs, wq_submit(c) \/ wq_pending(c) \/ wq_run(c) \/ fn_return(c)
      PROVE  SectionInv'
  <2>1. UNCHANGED <<items, head, tail>> /\ pc'[c] = "acquire"
    BY <1>1 DEF wq_submit, wq_pending, wq_run, fn_return, Call, queues, TypeOK
  <2>2. \A d \in CPUs \ {c} : /\ pc'[d] = pc[d] /\ op'[d] = op[d]
                              /\ wq'[d] = wq[d] /\ item'[d] = item[d]
    BY <1>1 DEF wq_submit, wq_pending, wq_run, fn_return, Call, TypeOK
  <2> QED
    BY <2>1, <2>2, SameRings
<1>2. ASSUME NEW c \in CPUs, spinlock_acquire(c) \/ spinlock_release(c) \/ pending_read(c) \/ call_fn(c)
      PROVE  SectionInv'
  <2>1. UNCHANGED <<items, head, tail>> /\ pc'[c] \notin {"store", "advance"}
    BY <1>2 DEF spinlock_acquire, spinlock_release, pending_read, call_fn, Released, Goto, queues, TypeOK
  <2>2. \A d \in CPUs \ {c} : /\ pc'[d] = pc[d] /\ op'[d] = op[d]
                              /\ wq'[d] = wq[d] /\ item'[d] = item[d]
    BY <1>2 DEF spinlock_acquire, spinlock_release, pending_read, call_fn, Goto, TypeOK
  <2> QED
    BY <2>1, <2>2, SameRings
<1>3. ASSUME NEW c \in CPUs, submit_check(c) PROVE SectionInv'
  BY <1>3 DEF submit_check, Goto, queues, TypeOK, SectionInv, Full
<1>4. ASSUME NEW c \in CPUs, run_check(c) PROVE SectionInv'
  BY <1>4 DEF run_check, Goto, queues, TypeOK, SectionInv, Full
\* The other CPUs are in the sections of other rings.
<1>5. ASSUME NEW c \in CPUs, NEW d \in CPUs, d # c, InSection(c), InSection(d)
      PROVE  wq[d] # wq[c]
  BY <1>5 DEF LockInv, MutualExclusion
<1>6. ASSUME NEW c \in CPUs, submit_store(c) PROVE SectionInv'
  <2>1. /\ items' = [items EXCEPT ![wq[c]][tail[wq[c]]] = item[c]]
        /\ UNCHANGED <<head, tail, op, wq, item>> /\ pc' = [pc EXCEPT ![c] = "advance"]
        /\ pc[c] = "store" /\ op[c] = "wq_submit" /\ InSection(c)
    BY <1>6 DEF submit_store, Goto, FlowInv, InSection
  <2>2. ASSUME NEW d \in CPUs, d # c, pc[d] \in {"store", "advance"}
        PROVE  wq[d] \in CPUs /\ items'[wq[d]] = items[wq[d]]
    <3>1. wq[d] # wq[c]
      BY <1>5, <2>1, <2>2 DEF InSection
    <3> QED
      BY <2>1, <3>1 DEF TypeOK
  <2>3. items'[wq[c]][tail[wq[c]]] = item[c]
    BY <2>1 DEF TypeOK
  <2> QED
    BY <2>1, <2>2, <2>3 DEF SectionInv, Full, TypeOK
<1>7. ASSUME NEW c \in CPUs, submit_advance(c) \/ run_advance(c) PROVE SectionInv'
  <2>1. /\ UNCHANGED <<items, op, wq, item>> /\ pc' = [pc EXCEPT ![c] = "release"]
        /\ pc[c] = "advance" /\ InSection(c)
        /\ \A q \in CPUs \ {wq[c]} : head'[q] = head[q] /\ tail'[q] = tail[q]
    BY <1>7 DEF submit_advance, run_advance, Goto, InSection, TypeOK
  <2>2. ASSUME NEW d \in CPUs, d # c, pc[d] \in {"store", "advance"}
        PROVE  wq[d] \in CPUs /\ wq[d] # wq[c]
    BY <1>5, <2>1, <2>2 DEF InSection, TypeOK
  <2> QED
    BY <2>1, <2>2 DEF SectionInv, Full, TypeOK
<1>8. CASE UNCHANGED vars
  BY <1>8 DEF vars, SectionInv, Full
<1> QED
  BY <1>1, <1>2, <1>3, <1>4, <1>6, <1>7, <1>8 DEF Next, Step

-----------------------------------------------------------------------------
(* What the steps do to the rings, the taken items and the history.        *)

LEMMA RingType ==
    ASSUME TypeOK, NEW q \in CPUs
    PROVE  /\ items[q] \in [Slots -> Items] /\ head[q] \in Slots /\ tail[q] \in Slots
           /\ Ring(q) \in Seq(Items)
<1>1. items[q] \in [Slots -> Items] /\ head[q] \in Slots /\ tail[q] \in Slots
  BY DEF TypeOK
<1> QED
  BY <1>1, RingIsRingOf, RingFacts

\* All but three steps change nothing of it.
Quiet(c) ==
    \/ wq_submit(c) \/ wq_pending(c) \/ wq_run(c) \/ fn_return(c)
    \/ spinlock_acquire(c) \/ spinlock_release(c)
    \/ submit_check(c) \/ submit_store(c) \/ run_check(c) \/ pending_read(c)

LEMMA QuietRings ==
    ASSUME TypeOK, FlowInv, NEW c \in CPUs, Quiet(c), NEW q \in CPUs
    PROVE  Ring(q)' = Ring(q)
<1>1. head' = head /\ tail' = tail
  BY DEF Quiet, wq_submit, wq_pending, wq_run, fn_return, spinlock_acquire, spinlock_release,
         submit_check, submit_store, run_check, pending_read, queues
<1>2. CASE ~submit_store(c)
  <2>1. items' = items
    BY <1>2, ZenonT(30) DEF Quiet, wq_submit, wq_pending, wq_run, fn_return, spinlock_acquire,
                spinlock_release, submit_check, run_check, pending_read, queues
  <2> QED
    BY <1>1, <2>1, RingIsRingOf
<1>3. CASE submit_store(c)
  <2>1. items' = [items EXCEPT ![wq[c]][tail[wq[c]]] = item[c]] /\ item[c] \in Items
    BY <1>3 DEF submit_store, TypeOK
  <2>2. CASE q # wq[c]
    <3>1. items'[q] = items[q]
      BY <2>1, <2>2 DEF TypeOK
    <3> QED
      BY <1>1, <3>1, RingIsRingOf
  <2>3. CASE q = wq[c]
    <3>1. items'[q] = [items[q] EXCEPT ![tail[q]] = item[c]]
      BY <2>1, <2>3 DEF TypeOK
    <3>2. RingOf([items[q] EXCEPT ![tail[q]] = item[c]], head[q], tail[q])
            = RingOf(items[q], head[q], tail[q])
      BY <2>1, RingType, StoreAtTail, ZenonT(40)
    <3> QED
      BY <1>1, <3>1, <3>2, RingIsRingOf
  <2> QED
    BY <2>2, <2>3
<1> QED
  BY <1>2, <1>3

\* A step of one CPU leaves the locals of the others alone.
LEMMA QuietOthers ==
    ASSUME TypeOK, NEW c \in CPUs, Quiet(c), NEW d \in CPUs, d # c
    PROVE  pc'[d] = pc[d] /\ op'[d] = op[d] /\ item'[d] = item[d]
BY ZenonT(40)
   DEF Quiet, wq_submit, wq_pending, wq_run, fn_return, spinlock_acquire,
       spinlock_release, submit_check, submit_store, run_check, pending_read,
       Call, Goto, TypeOK

LEMMA QuietTaken ==
    ASSUME TypeOK, FlowInv, NEW c \in CPUs, Quiet(c), NEW d \in CPUs
    PROVE  Taken(d)' = Taken(d)
<1>1. CASE d # c
  <2>1. pc'[d] = pc[d] /\ op'[d] = op[d] /\ item'[d] = item[d]
    BY <1>1, QuietOthers
  <2> QED
    BY <2>1 DEF Taken
<1>2. CASE d = c
  <2>1. CASE wq_submit(c) \/ wq_pending(c) \/ wq_run(c) \/ fn_return(c)
    <3>1. pc[c] = "idle" /\ pc'[c] = "acquire"
      BY <2>1 DEF wq_submit, wq_pending, wq_run, fn_return, RunsCode, Call, TypeOK
    <3> QED
      BY <1>2, <3>1 DEF Taken
  <2>2. CASE spinlock_acquire(c) \/ submit_store(c)
    BY <1>2, <2>2 DEF spinlock_acquire, submit_store, Goto, Taken, TypeOK
  <2>3. CASE spinlock_release(c)
    BY <1>2, <2>3 DEF spinlock_release, Released, Goto, Taken, TypeOK
  <2>4. CASE submit_check(c) \/ pending_read(c)
    BY <1>2, <2>4 DEF submit_check, pending_read, Goto, Taken, TypeOK
  <2>5. CASE run_check(c)
    BY <1>2, <2>5 DEF run_check, Goto, Taken, TypeOK, FlowInv
  <2> QED
    BY <2>1, <2>2, <2>3, <2>4, <2>5 DEF Quiet
<1> QED
  BY <1>1, <1>2

LEMMA QuietRan == ASSUME NEW c \in CPUs, Quiet(c) PROVE ran' = ran
BY DEF Quiet, wq_submit, wq_pending, wq_run, fn_return, spinlock_acquire, spinlock_release,
       submit_check, submit_store, run_check, pending_read

\* submit_advance submits the item.
LEMMA AdvanceSubmits ==
    ASSUME TypeOK, FlowInv, SectionInv, NEW c \in CPUs, submit_advance(c),
           NEW w \in CPUs, w = wq[c]
    PROVE  /\ Ring(w)' = Append(Ring(w), item[c])
           /\ Len(Ring(w)) < N - 1
           /\ \A q \in CPUs \ {w} : Ring(q)' = Ring(q)
           /\ \A d \in CPUs : Taken(d)' = Taken(d)
           /\ ran' = ran
<1>1. /\ items' = items /\ head' = head /\ tail' = [tail EXCEPT ![w] = After(tail[w])]
      /\ ran' = ran /\ op' = op /\ item' = item /\ pc' = [pc EXCEPT ![c] = "release"]
      /\ op[c] = "wq_submit" /\ pc[c] = "advance"
  BY DEF submit_advance, Goto, TypeOK
<1>2. After(tail[w]) # head[w] /\ items[w][tail[w]] = item[c]
  BY <1>1 DEF SectionInv, Full
<1>3. Ring(w)' = Append(Ring(w), item[c]) /\ Len(Ring(w)) < N - 1
  <2>1. tail'[w] = After(tail[w]) /\ items'[w] = items[w] /\ head'[w] = head[w]
    BY <1>1 DEF TypeOK
  <2>2. /\ RingOf(items[w], head[w], After(tail[w])) = Append(RingOf(items[w], head[w], tail[w]), items[w][tail[w]])
        /\ Len(RingOf(items[w], head[w], tail[w])) < N - 1
    BY <1>1, <1>2, RingType, AppendAtTail, ZenonT(30)
  <2> QED
    BY <1>1, <1>2, <2>1, <2>2, RingIsRingOf, ZenonT(30)
<1>4. ASSUME NEW q \in CPUs \ {w} PROVE Ring(q)' = Ring(q)
  <2>1. tail'[q] = tail[q]
    BY <1>1 DEF TypeOK
  <2> QED
    BY <1>1, <2>1, RingIsRingOf
<1>5. ASSUME NEW d \in CPUs PROVE Taken(d)' = Taken(d)
  BY <1>1 DEF Taken, TypeOK
<1> QED
  BY <1>1, <1>3, <1>4, <1>5

\* run_advance takes the oldest item of the CPU's own ring.
LEMMA AdvanceTakes ==
    ASSUME TypeOK, FlowInv, SectionInv, NEW c \in CPUs, run_advance(c)
    PROVE  /\ Ring(c) # <<>>
           /\ Ring(c)' = Tail(Ring(c))
           /\ \A q \in CPUs \ {c} : Ring(q)' = Ring(q)
           /\ Taken(c) = 0 /\ Taken(c)' = Head(Ring(c))
           /\ \A d \in CPUs \ {c} : Taken(d)' = Taken(d)
           /\ ran' = ran
<1>1. /\ items' = items /\ tail' = tail /\ head' = [head EXCEPT ![c] = After(head[c])]
      /\ ran' = ran /\ op' = op /\ item' = item /\ pc' = [pc EXCEPT ![c] = "release"]
      /\ op[c] = "wq_run" /\ pc[c] = "advance" /\ wq[c] = c
  BY ZenonT(30) DEF run_advance, Goto, TypeOK, FlowInv
<1>2. head[c] # tail[c] /\ items[c][head[c]] = item[c]
  BY <1>1 DEF SectionInv
<1>3. /\ RingOf(items[c], head[c], tail[c]) # <<>>
      /\ Head(RingOf(items[c], head[c], tail[c])) = items[c][head[c]]
      /\ RingOf(items[c], After(head[c]), tail[c]) = Tail(RingOf(items[c], head[c], tail[c]))
  BY <1>2, RingType, TakeAtHead, ZenonT(30)
<1>4. head'[c] = After(head[c]) /\ items'[c] = items[c] /\ tail'[c] = tail[c]
  BY <1>1 DEF TypeOK
<1>5. Ring(c) # <<>> /\ Ring(c)' = Tail(Ring(c)) /\ Head(Ring(c)) = item[c]
  BY <1>2, <1>3, <1>4, RingIsRingOf
<1>6. ASSUME NEW q \in CPUs \ {c} PROVE Ring(q)' = Ring(q)
  <2>1. q \in CPUs /\ head'[q] = head[q] /\ tail'[q] = tail[q] /\ items'[q] = items[q]
    BY <1>1 DEF TypeOK
  <2>2. Ring(q) = RingOf(items[q], head[q], tail[q]) /\ Ring(q)' = RingOf(items'[q], head'[q], tail'[q])
    BY <2>1, RingIsRingOf
  <2> QED
    BY <2>1, <2>2
<1>7. Taken(c) = 0 /\ Taken(c)' = item[c]
  BY <1>1 DEF Taken, TypeOK
<1>8. ASSUME NEW d \in CPUs \ {c} PROVE Taken(d)' = Taken(d)
  BY <1>1 DEF Taken, TypeOK
<1> QED
  BY <1>1, <1>5, <1>6, <1>7, <1>8

\* call_fn runs the taken item.
LEMMA CallRuns ==
    ASSUME TypeOK, FlowInv, NEW c \in CPUs, call_fn(c)
    PROVE  /\ Taken(c) # 0 /\ Taken(c)' = 0
           /\ ran' = [ran EXCEPT ![c] = Append(ran[c], Taken(c))]
           /\ \A q \in CPUs : Ring(q)' = Ring(q)
           /\ \A d \in CPUs \ {c} : Taken(d)' = Taken(d)
<1>1. Taken(c) = item[c] /\ item[c] # 0 /\ ran' = [ran EXCEPT ![c] = Append(ran[c], item[c])]
  BY DEF call_fn, Taken, FlowInv
<1>2. items' = items /\ head' = head /\ tail' = tail
  BY DEF call_fn, queues
<1>3. ASSUME NEW q \in CPUs PROVE Ring(q)' = Ring(q)
  BY <1>2, RingIsRingOf
<1>4. Taken(c)' = 0
  BY DEF call_fn, Taken, TypeOK
<1>5. ASSUME NEW d \in CPUs \ {c} PROVE Taken(d)' = Taken(d)
  BY DEF call_fn, Taken, TypeOK
<1> QED
  BY <1>1, <1>3, <1>4, <1>5

-----------------------------------------------------------------------------
(* Freshness of the items.                                                 *)

LEMMA AppendOld ==
    ASSUME NEW s \in Seq(Items), NEW e \in Items,
           NEW k \in DOMAIN Append(s, e), Append(s, e)[k] # e
    PROVE  k \in DOMAIN s /\ s[k] = Append(s, e)[k]
OBVIOUS

\* A step that uses no item but 0 or the one a CPU has submitted.
LEMMA FreshStays ==
    ASSUME TypeOK, TypeOK', FreshInv, calls <= calls', NEW c \in CPUs,
           \A i \in Items : Used(i)' => Used(i) \/ i = 0 \/ (i = item[c] /\ Pending(c) /\ ~Pending(c)'),
           \A d \in CPUs : Pending(d)' => Pending(d) /\ item'[d] = item[d]
    PROVE  FreshInv'
<1>0. calls \in Nat /\ calls' \in Nat /\ \A d \in CPUs : item[d] \in Items
  BY WorkQueueAssumption DEF TypeOK
<1>1. ASSUME NEW i \in Items, Used(i)' PROVE i <= calls'
  <2>1. CASE Used(i)
    <3>1. i <= calls
      BY <2>1 DEF FreshInv
    <3> QED
      BY <1>0, <3>1, WorkQueueAssumption DEF Items
  <2>2. CASE i = 0
    BY <1>0, <2>2
  <2>3. CASE i = item[c] /\ Pending(c)
    <3>1. item[c] \in 1 .. calls
      BY <2>3 DEF FreshInv
    <3> QED
      BY <1>0, <2>3, <3>1
  <2> QED
    BY <1>1, <2>1, <2>2, <2>3
<1>2. ASSUME NEW d \in CPUs, Pending(d)' PROVE (item[d] \in 1 .. calls /\ ~Used(item[d]))'
  <2>1. Pending(d) /\ item'[d] = item[d] /\ item[d] \in 1 .. calls /\ ~Used(item[d])
    BY <1>2 DEF FreshInv
  <2>2. item[d] # 0 /\ item[d] \in 1 .. calls'
    BY <1>0, <2>1
  <2>3. ~(item[d] = item[c] /\ Pending(c) /\ ~Pending(c)')
    <3>1. CASE d = c
      BY <1>2, <3>1
    <3>2. CASE d # c
      BY <2>1, <3>2 DEF FreshInv
    <3> QED
      BY <3>1, <3>2
  <2>4. ASSUME NEW i \in Items, i = item[d] PROVE ~Used(i)'
    BY <2>1, <2>2, <2>3, <2>4
  <2>5. ~Used(item[d])'
    BY <1>0, <2>1, <2>4 DEF Used
  <2> QED
    BY <2>1, <2>2, <2>5
<1>3. ASSUME NEW d \in CPUs, NEW e \in CPUs, Pending(d)', Pending(e)', item'[d] = item'[e]
      PROVE  d = e
  BY <1>3 DEF FreshInv
<1> QED
  BY <1>1, <1>2, <1>3 DEF FreshInv

LEMMA QuietUsed ==
    ASSUME TypeOK, FlowInv, NEW c \in CPUs, Quiet(c), NEW i
    PROVE  Used(i)' <=> Used(i)
BY QuietRings, QuietTaken, QuietRan DEF Used

LEMMA SubmitFresh ==
    ASSUME TypeOK, FlowInv, FreshInv, NEW c \in CPUs, wq_submit(c)
    PROVE  FreshInv'
<1>0. /\ calls \in Nat /\ calls < MAX_CALLS /\ calls' = calls + 1 /\ Quiet(c)
      /\ item'[c] = calls + 1 /\ calls + 1 \in Items
  <2>1. calls \in Nat /\ calls < MAX_CALLS /\ calls' = calls + 1
    BY WorkQueueAssumption DEF wq_submit, TypeOK
  <2>2. calls + 1 \in Items
    BY <2>1, WorkQueueAssumption DEF Items
  <2>3. item'[c] = calls + 1
    BY DEF wq_submit, Call, TypeOK
  <2>4. Quiet(c)
    BY DEF Quiet
  <2> QED
    BY <2>1, <2>2, <2>3, <2>4
<1>1. \A d \in CPUs \ {c} : pc'[d] = pc[d] /\ op'[d] = op[d] /\ item'[d] = item[d]
  BY DEF wq_submit, Call, TypeOK
<1>2. ASSUME NEW i PROVE Used(i)' <=> Used(i)
  BY <1>0, QuietUsed
<1>3. ASSUME NEW i \in Items, Used(i)' PROVE i <= calls /\ i <= calls'
  <2>1. i <= calls
    BY <1>2, <1>3 DEF FreshInv
  <2> QED
    BY <1>0, <2>1, WorkQueueAssumption DEF Items
<1>4. ASSUME NEW d \in CPUs \ {c}, Pending(d)'
      PROVE  Pending(d) /\ item'[d] = item[d] /\ item[d] \in 1 .. calls /\ ~Used(item[d])
  BY <1>1, <1>4, ZenonT(30) DEF Pending, FreshInv
<1>5. ASSUME NEW d \in CPUs, Pending(d)' PROVE (item[d] \in 1 .. calls /\ ~Used(item[d]))'
  <2>1. CASE d = c
    <3>1. ~Used(calls + 1)
      BY <1>0 DEF FreshInv
    <3>2. ASSUME NEW i, i = calls + 1 PROVE ~Used(i)'
      BY <1>2, <3>1, <3>2
    <3>3. ~Used(item[c])'
      BY <1>0, <3>2 DEF Used
    <3> QED
      BY <1>0, <2>1, <3>3
  <2>2. CASE d # c
    <3>1. item'[d] = item[d] /\ item[d] \in 1 .. calls /\ ~Used(item[d])
      BY <1>4, <1>5, <2>2
    <3>2. ASSUME NEW i, i = item[d] PROVE ~Used(i)'
      BY <1>2, <3>1, <3>2
    <3>3. ~Used(item[d])'
      BY <3>1, <3>2 DEF Used
    <3> QED
      BY <1>0, <3>1, <3>3
  <2> QED
    BY <2>1, <2>2
<1>6. ASSUME NEW d \in CPUs, NEW e \in CPUs, Pending(d)', Pending(e)', item'[d] = item'[e]
      PROVE  d = e
  <2>1. CASE d # c /\ e # c
    BY <1>4, <1>6, <2>1 DEF FreshInv
  <2>2. CASE d # c /\ e = c
    BY <1>0, <1>4, <1>6, <2>2
  <2>3. CASE d = c /\ e # c
    BY <1>0, <1>4, <1>6, <2>3
  <2> QED
    BY <2>1, <2>2, <2>3
<1> QED
  BY <1>3, <1>5, <1>6 DEF FreshInv

LEMMA FreshStep ==
    TypeOK /\ TypeOK' /\ FlowInv /\ SectionInv /\ FreshInv /\ [Next]_vars => FreshInv'
<1> SUFFICES ASSUME TypeOK, TypeOK', FlowInv, SectionInv, FreshInv, [Next]_vars PROVE FreshInv'
  OBVIOUS
<1>0. calls \in Nat /\ \A q \in CPUs : Ring(q) \in Seq(Items) /\ ran[q] \in Seq(Items)
  BY RingType, WorkQueueAssumption DEF TypeOK
<1>1. ASSUME NEW c \in CPUs, Quiet(c), ~wq_submit(c) PROVE FreshInv'
  <2>1. calls <= calls'
    BY <1>0, <1>1 DEF Quiet, wq_pending, wq_run, fn_return, spinlock_acquire, spinlock_release,
         submit_check, submit_store, run_check, pending_read
  <2>2. ASSUME NEW d \in CPUs, Pending(d)', d # c PROVE Pending(d) /\ item'[d] = item[d]
    <3>1. pc'[d] = pc[d] /\ op'[d] = op[d] /\ item'[d] = item[d]
      BY <1>1, <2>2, QuietOthers
    <3> QED
      BY <2>2, <3>1 DEF Pending
  <2>3. ASSUME Pending(c)' PROVE Pending(c) /\ item'[c] = item[c]
    <3>1. CASE wq_pending(c) \/ wq_run(c) \/ fn_return(c)
      <4>1. op'[c] # "wq_submit"
        BY <3>1 DEF wq_pending, wq_run, fn_return, Call, TypeOK
      <4> QED
        BY <2>3, <4>1, ZenonT(30) DEF Pending
    <3>2. CASE spinlock_acquire(c) \/ submit_store(c)
      BY <2>3, <3>2 DEF spinlock_acquire, submit_store, Goto, Pending, TypeOK
    <3>3. CASE spinlock_release(c)
      BY <2>3, <3>3 DEF spinlock_release, Released, Goto, Pending, TypeOK
    <3>4. CASE submit_check(c) \/ pending_read(c)
      BY <2>3, <3>4 DEF submit_check, pending_read, Goto, Pending, TypeOK
    <3>5. CASE run_check(c)
      BY <2>3, <3>5 DEF run_check, Goto, Pending, TypeOK
    <3> QED
      BY <1>1, <3>1, <3>2, <3>3, <3>4, <3>5, ZenonT(30) DEF Quiet
  <2>4. \A d \in CPUs : Pending(d)' => Pending(d) /\ item'[d] = item[d]
    BY <2>2, <2>3
  <2>5. \A i \in Items : Used(i)' => Used(i)
    BY <1>1, QuietUsed
  <2> QED
    BY <2>1, <2>4, <2>5, FreshStays, ZenonT(30)
<1>2. ASSUME NEW c \in CPUs, submit_advance(c) PROVE FreshInv'
  <2>1. /\ calls' = calls /\ item' = item /\ op' = op /\ pc' = [pc EXCEPT ![c] = "release"]
        /\ Pending(c) /\ wq[c] \in CPUs /\ item[c] \in Items
    BY <1>2 DEF submit_advance, Goto, Pending, TypeOK
  <2>2. ~Pending(c)' /\ \A d \in CPUs : Pending(d)' => Pending(d) /\ item'[d] = item[d]
    BY <2>1 DEF Pending, TypeOK
  <2>3. PICK w \in CPUs : w = wq[c]
    BY <2>1
  <2>4. /\ Ring(w)' = Append(Ring(w), item[c])
        /\ \A q \in CPUs \ {w} : Ring(q)' = Ring(q)
        /\ \A d \in CPUs : Taken(d)' = Taken(d)
        /\ ran' = ran
    BY <1>2, <2>3, AdvanceSubmits
  <2>5. ASSUME NEW i \in Items, Used(i)' PROVE Used(i) \/ i = item[c]
    <3>1. ASSUME NEW k \in DOMAIN Ring(w)', Ring(w)'[k] = i, i # item[c]
          PROVE  k \in DOMAIN Ring(w) /\ Ring(w)[k] = i
      <4>1. k \in DOMAIN Append(Ring(w), item[c]) /\ Append(Ring(w), item[c])[k] = i
        BY <2>4, <3>1, Zenon
      <4>2. Ring(w) \in Seq(Items) /\ item[c] \in Items
        BY <1>0, <2>1, Zenon
      <4> QED
        BY <3>1, <4>1, <4>2, AppendOld, Zenon
    <3> QED
      BY <2>4, <2>5, <3>1 DEF Used
  <2> QED
    <3>1. calls <= calls'
      BY <1>0, <2>1
    <3>2. \A i \in Items : Used(i)' => Used(i) \/ i = 0 \/ (i = item[c] /\ Pending(c) /\ ~Pending(c)')
      BY <2>1, <2>2, <2>5, Zenon
    <3> QED
      BY <1>0, <2>2, <3>1, <3>2, FreshStays, Zenon
<1>3. ASSUME NEW c \in CPUs, run_advance(c) PROVE FreshInv'
  <2>1. /\ calls' = calls /\ item' = item /\ op' = op /\ pc' = [pc EXCEPT ![c] = "release"]
    BY <1>3 DEF run_advance, Goto
  <2>2. \A d \in CPUs : Pending(d)' => Pending(d) /\ item'[d] = item[d]
    BY <2>1 DEF Pending, TypeOK
  <2>3. /\ Ring(c) # <<>> /\ Ring(c)' = Tail(Ring(c)) /\ Taken(c)' = Head(Ring(c))
        /\ \A q \in CPUs \ {c} : Ring(q)' = Ring(q) /\ Taken(q)' = Taken(q)
        /\ ran' = ran
    BY <1>3, AdvanceTakes
  <2>4. ASSUME NEW i \in Items, Used(i)' PROVE Used(i)
    <3>1. ASSUME NEW k \in DOMAIN Ring(c)', Ring(c)'[k] = i
          PROVE  k + 1 \in DOMAIN Ring(c) /\ Ring(c)[k + 1] = i
      BY <1>0, <2>3, <3>1
    <3>2. 1 \in DOMAIN Ring(c) /\ Ring(c)[1] = Taken(c)'
      BY <1>0, <2>3
    <3> QED
      BY <2>3, <2>4, <3>1, <3>2 DEF Used
  <2> QED
    BY <1>0, <2>1, <2>2, <2>4, FreshStays
<1>4. ASSUME NEW c \in CPUs, call_fn(c) PROVE FreshInv'
  <2>1. calls' = calls /\ op' = op /\ pc' = [pc EXCEPT ![c] = "idle"]
        /\ \A d \in CPUs \ {c} : item'[d] = item[d]
    BY <1>4 DEF call_fn, TypeOK
  <2>2. \A d \in CPUs : Pending(d)' => Pending(d) /\ item'[d] = item[d]
    BY <2>1 DEF Pending, TypeOK
  <2>3. /\ Taken(c)' = 0 /\ ran' = [ran EXCEPT ![c] = Append(ran[c], Taken(c))]
        /\ \A q \in CPUs : Ring(q)' = Ring(q)
        /\ \A d \in CPUs \ {c} : Taken(d)' = Taken(d)
    BY <1>4, CallRuns
  <2>4. ASSUME NEW i \in Items, Used(i)' PROVE Used(i) \/ i = 0
    <3>1. /\ ran'[c] = Append(ran[c], Taken(c))
          /\ \A d \in CPUs \ {c} : ran'[d] = ran[d]
      BY <2>3 DEF TypeOK
    <3>2. ASSUME NEW k \in DOMAIN ran'[c], ran'[c][k] = i, i # Taken(c)
          PROVE  k \in DOMAIN ran[c] /\ ran[c][k] = i
      BY <1>0, <3>1, <3>2
    <3> QED
      BY <2>3, <2>4, <3>1, <3>2 DEF Used
  <2> QED
    BY <1>0, <2>1, <2>2, <2>4, FreshStays
<1>5. CASE UNCHANGED vars
  <2>1. calls' = calls /\ item' = item /\ ran' = ran
    BY <1>5 DEF vars
  <2>2. \A d \in CPUs : Ring(d)' = Ring(d) /\ Taken(d)' = Taken(d) /\ Pending(d)' = Pending(d)
    BY <1>5 DEF vars, Ring, Taken, Pending
  <2>3. \A i \in Items : Used(i)' => Used(i)
    BY <2>1, <2>2, ZenonT(30) DEF Used
  <2>4. \A d \in CPUs : item[d] \in Items
    BY DEF TypeOK
  <2> QED
    BY <2>1, <2>2, <2>3, <2>4 DEF FreshInv
<1> QED
  BY <1>1, <1>2, <1>3, <1>4, <1>5, SubmitFresh DEF Next, Step, Quiet

-----------------------------------------------------------------------------
(* Every step of the rings is one of the FIFOs, or none.                   *)

LEMMA InitFifo == Init => FifoInv /\ Fifo!Init
<1> SUFFICES ASSUME Init PROVE FifoInv /\ Fifo!Init
  OBVIOUS
<1>0. N \in Nat /\ N > 1 /\ TypeOK
  BY InitTypeOK, WorkQueueAssumption DEF N
<1>1. ASSUME NEW c \in CPUs PROVE Ring(c) = <<>> /\ Taken(c) = 0 /\ ran[c] = <<>>
  <2>1. head[c] = 0 /\ tail[c] = 0 /\ pc[c] = "idle" /\ ran[c] = <<>>
    BY DEF Init
  <2>2. (0 - 0) % N = 0
    BY <1>0, ModLow
  <2>3. Ring(c) \in Seq(Items) /\ Len(Ring(c)) = 0
    <3>1. items[c] \in [Slots -> Items] /\ 0 \in Slots
      BY <1>0, <2>1, RingType
    <3>2. RingOf(items[c], 0, 0) \in Seq(Items) /\ Len(RingOf(items[c], 0, 0)) = 0
      BY <2>2, <3>1, RingFacts, ZenonT(30)
    <3>3. Ring(c) = RingOf(items[c], 0, 0)
      BY <2>1, RingIsRingOf
    <3> QED
      BY <3>2, <3>3
  <2> QED
    BY <2>1, <2>3 DEF Taken
<1>2. FlowInv /\ SectionInv
  BY DEF Init, FlowInv, SectionInv
<1>3. FreshInv
  <2>1. \A c \in CPUs : ~Pending(c)
    BY DEF Init, Pending
  <2>2. ASSUME NEW i \in Items, Used(i) PROVE i <= calls
    <3>1. i = 0
      BY <1>1, <2>2 DEF Used
    <3> QED
      BY <3>1 DEF Init
  <2> QED
    BY <2>1, <2>2 DEF FreshInv
<1>4. Fifo!Init
  BY <1>1 DEF Init, Fifo!Init
<1> QED
  BY <1>2, <1>3, <1>4 DEF FifoInv

LEMMA FifoStep == TypeOK /\ FifoInv /\ [Next]_vars => [Fifo!Next]_(Fifo!vars)
<1> SUFFICES ASSUME TypeOK, FifoInv, [Next]_vars PROVE [Fifo!Next]_(Fifo!vars)
  OBVIOUS
<1> USE DEF FifoInv
<1> DEFINE queue == [c \in CPUs |-> Ring(c)]
           taken == [c \in CPUs |-> Taken(c)]
<1>1. ASSUME NEW c \in CPUs, Quiet(c) PROVE UNCHANGED Fifo!vars
  <2>1. queue' = queue
    BY <1>1, QuietRings
  <2>2. taken' = taken
    BY <1>1, QuietTaken
  <2> QED
    BY <1>1, <2>1, <2>2, QuietRan DEF Fifo!vars
<1>2. ASSUME NEW c \in CPUs, submit_advance(c) PROVE Fifo!Next
  <2>1. wq[c] \in CPUs /\ item[c] \in Items /\ Pending(c)
    BY <1>2 DEF submit_advance, Pending, TypeOK
  <2>2. PICK w \in CPUs : w = wq[c]
    BY <2>1
  <2>3. /\ Ring(w)' = Append(Ring(w), item[c]) /\ Len(Ring(w)) < N - 1
        /\ \A q \in CPUs \ {w} : Ring(q)' = Ring(q)
        /\ \A d \in CPUs : Taken(d)' = Taken(d)
        /\ ran' = ran
    BY <1>2, <2>2, AdvanceSubmits, ZenonT(30)
  <2>4. item[c] \notin Fifo!Seen /\ item[c] # 0
    <3>1. item[c] \in 1 .. calls /\ ~Used(item[c])
      BY <2>1 DEF FreshInv
    <3>2. ASSUME item[c] \in Fifo!Seen PROVE Used(item[c])
      BY <3>2 DEF Fifo!Seen, Fifo!Range, Used
    <3> QED
      BY <3>1, <3>2, WorkQueueAssumption DEF TypeOK
  <2>5. queue' = [queue EXCEPT ![w] = Append(queue[w], item[c])] /\ taken' = taken
    BY <2>3, ZenonT(30)
  <2>6. Fifo!Submit(w)
    BY <2>1, <2>3, <2>4, <2>5, ZenonT(30) DEF Fifo!Submit, N
  <2> QED
    BY <2>6 DEF Fifo!Next
<1>3. ASSUME NEW c \in CPUs, run_advance(c) PROVE Fifo!Next
  <2>1. /\ Ring(c) # <<>> /\ Ring(c)' = Tail(Ring(c))
        /\ \A q \in CPUs \ {c} : Ring(q)' = Ring(q)
        /\ Taken(c) = 0 /\ Taken(c)' = Head(Ring(c))
        /\ \A d \in CPUs \ {c} : Taken(d)' = Taken(d)
        /\ ran' = ran
    BY <1>3, AdvanceTakes
  <2>2. /\ queue' = [queue EXCEPT ![c] = Tail(queue[c])]
        /\ taken' = [taken EXCEPT ![c] = Head(queue[c])]
    BY <2>1, ZenonT(30)
  <2>3. Fifo!Take(c)
    BY <2>1, <2>2 DEF Fifo!Take
  <2> QED
    BY <2>3 DEF Fifo!Next
<1>4. ASSUME NEW c \in CPUs, call_fn(c) PROVE Fifo!Next
  <2>1. /\ Taken(c) # 0 /\ Taken(c)' = 0
        /\ ran' = [ran EXCEPT ![c] = Append(ran[c], Taken(c))]
        /\ \A q \in CPUs : Ring(q)' = Ring(q)
        /\ \A d \in CPUs \ {c} : Taken(d)' = Taken(d)
    BY <1>4, CallRuns
  <2>2. queue' = queue
    BY <2>1
  <2>3. taken' = [taken EXCEPT ![c] = 0]
    <3>1. \A d \in CPUs : Taken(d)' = IF d = c THEN 0 ELSE Taken(d)
      BY <2>1
    <3>2. [taken EXCEPT ![c] = 0] = [d \in CPUs |-> IF d = c THEN 0 ELSE Taken(d)]
      BY ZenonT(30)
    <3> QED
      BY <3>1, <3>2, Zenon
  <2>4. Fifo!Run(c)
    BY <2>1, <2>2, <2>3 DEF Fifo!Run
  <2> QED
    BY <2>4 DEF Fifo!Next
<1>5. CASE UNCHANGED vars
  BY <1>5 DEF vars, Fifo!vars, Ring, Taken
<1> QED
  BY <1>1, <1>2, <1>3, <1>4, <1>5 DEF Next, Step, Quiet

\* The rings of the work queues, with CPUs interleaving access by access, implement one
\* bounded FIFO per CPU: no item is lost, overwritten, run twice or out of order.
THEOREM RingsImplementFifo == Spec => ImplementsFifo
<1>1. Spec => []FifoInv
  <2>1. TypeOK /\ TypeOK' /\ LockInv /\ FifoInv /\ [Next]_vars => FifoInv'
    BY FlowStep, SectionStep, FreshStep DEF FifoInv
  <2> QED
    BY <2>1, InitFifo, InitLockInv, NextLockInv, TypeCorrect, PTL DEF Spec
<1> QED
  BY <1>1, InitFifo, FifoStep, TypeCorrect, PTL DEF Spec, ImplementsFifo, Fifo!Spec
=============================================================================
