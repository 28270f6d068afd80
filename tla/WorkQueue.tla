----------------------------- MODULE WorkQueue -----------------------------
(***************************************************************************)
(* The per-CPU work queues of core/arch/work_queue.c on top of the         *)
(* spinlock of core/arch/spinlock.c, as used by the application processors *)
(* in ap_entry (core/arch/smp.c).                                          *)
(*                                                                         *)
(* Every CPU is one thread.  The steps of the CPUs interleave inside the   *)
(* critical sections.  A step under the lock is one test, one copy of an   *)
(* item or one move of an index, with the loads it takes: fn and arg of an *)
(* item are one value, and MutualExclusion is what makes the grouping      *)
(* harmless.  On x86 the locked instruction of spinlock_acquire and the    *)
(* store of spinlock_release order the accesses between them.  The boot    *)
(* processor (0) calls wq_submit and wq_pending whenever it likes and      *)
(* never wq_run; the application processors call wq_run forever, and the   *)
(* other two from work functions.                                          *)
(***************************************************************************)
EXTENDS Integers, Sequences

CONSTANTS CPU_COUNT,
          WQ_MAX_ITEMS,  \* slots of a ring (256)
          MAX_CALLS      \* bound: how often wq_submit is called

ASSUME WorkQueueAssumption ==
    /\ CPU_COUNT \in Nat \ {0}
    /\ WQ_MAX_ITEMS \in Nat \ {0, 1}
    /\ MAX_CALLS \in Nat

CPUs == 0 .. CPU_COUNT - 1
APs == CPUs \ {0}
Slots == 0 .. WQ_MAX_ITEMS - 1

\* A work item is the number of the call that submitted it; 0: no item.
Items == 0 .. MAX_CALLS

VARIABLES items, head, tail, lock,  \* cpu_wqs[c]
          pc,        \* where each CPU is
          op,        \* the function it executes: wq_submit, wq_run, wq_pending
          wq,        \* the queue it works on
          item,      \* submit: the item to store; run: the item taken
          inFn,      \* the CPU is inside a work function
          calls,     \* how many items have been submitted
          ran        \* history: the items each CPU has run, in order

queues == <<items, head, tail, lock>>
locals == <<pc, op, wq, item, inFn>>
vars == <<items, head, tail, lock, pc, op, wq, item, inFn, calls, ran>>

\* wq_init has run and every application processor is between two wq_run.
Init ==
    /\ items = [c \in CPUs |-> [s \in Slots |-> 0]]
    /\ head = [c \in CPUs |-> 0]
    /\ tail = [c \in CPUs |-> 0]
    /\ lock = [c \in CPUs |-> 0]
    /\ pc = [c \in CPUs |-> "idle"]
    /\ op = [c \in CPUs |-> "none"]
    /\ wq = [c \in CPUs |-> c]
    /\ item = [c \in CPUs |-> 0]
    /\ inFn = [c \in CPUs |-> 0]
    /\ calls = 0
    /\ ran = [c \in CPUs |-> <<>>]

\* Mutant of After: the ring does not wrap around.
After_NoWrap(n) == n + 1

After(n) == (n + 1) % WQ_MAX_ITEMS

\* The CPU enters function f on queue q with item i.
Call(c, f, q, i) ==
    /\ op' = [op EXCEPT ![c] = f]
    /\ wq' = [wq EXCEPT ![c] = q]
    /\ item' = [item EXCEPT ![c] = i]
    /\ pc' = [pc EXCEPT ![c] = "acquire"]

Goto(c, l) == pc' = [pc EXCEPT ![c] = l] /\ UNCHANGED <<op, wq, inFn>>

-----------------------------------------------------------------------------
(* Calls.                                                                  *)

\* The boot processor runs kernel code; an application processor calls wq_submit
\* and wq_pending only from a work function.
RunsCode(c) == pc[c] = "idle" /\ (c \in APs => inFn[c] = 1)

\* wq_submit, directly or from wq_submit_any, which chooses the target by a
\* look at all the rings without their locks: any CPU may come out of it.
wq_submit(c) ==
    /\ RunsCode(c)
    /\ calls < MAX_CALLS
    /\ calls' = calls + 1
    /\ \E q \in CPUs : Call(c, "wq_submit", q, calls + 1)
    /\ UNCHANGED <<queues, inFn, ran>>

wq_pending(c) ==
    /\ RunsCode(c)
    /\ \E q \in CPUs : Call(c, "wq_pending", q, 0)
    /\ UNCHANGED <<queues, inFn, calls, ran>>

\* The loop of ap_entry.
wq_run(c) ==
    /\ pc[c] = "idle" /\ c \in APs /\ inFn[c] = 0
    /\ Call(c, "wq_run", c, 0)
    /\ UNCHANGED <<queues, inFn, calls, ran>>

-----------------------------------------------------------------------------
(* The critical sections.                                                  *)

\* Mutant of spinlock_acquire: the lock is tested, not tested and set.
spinlock_acquire_NoSet(c) ==
    /\ pc[c] = "acquire"
    /\ lock[wq[c]] = 0
    /\ Goto(c, "check")
    /\ UNCHANGED <<items, head, tail, lock, item, calls, ran>>

\* cmpxchg succeeds; while it fails the CPU spins.
spinlock_acquire(c) ==
    /\ pc[c] = "acquire"
    /\ lock[wq[c]] = 0
    /\ lock' = [lock EXCEPT ![wq[c]] = 1]
    /\ Goto(c, "check")
    /\ UNCHANGED <<items, head, tail, item, calls, ran>>

\* Mutant of Full: all the slots are used.
Full_AllSlots(q) == FALSE

Full(q) == After(tail[q]) = head[q]

\* Mutant of submit_check: the lock is kept when the ring is full.
submit_check_KeepsLock(c) ==
    /\ pc[c] = "check" /\ op[c] = "wq_submit"
    /\ Goto(c, IF Full(wq[c]) THEN "idle" ELSE "store")
    /\ UNCHANGED <<queues, item, calls, ran>>

\* wq_submit finds the ring full, or room in it.
submit_check(c) ==
    /\ pc[c] = "check" /\ op[c] = "wq_submit"
    /\ Goto(c, IF Full(wq[c]) THEN "release" ELSE "store")
    /\ UNCHANGED <<queues, item, calls, ran>>

submit_store(c) ==
    /\ pc[c] = "store"
    /\ items' = [items EXCEPT ![wq[c]][tail[wq[c]]] = item[c]]
    /\ Goto(c, "advance")
    /\ UNCHANGED <<head, tail, lock, item, calls, ran>>

submit_advance(c) ==
    /\ pc[c] = "advance" /\ op[c] = "wq_submit"
    /\ tail' = [tail EXCEPT ![wq[c]] = After(@)]
    /\ Goto(c, "release")
    /\ UNCHANGED <<items, head, lock, item, calls, ran>>

\* wq_run finds the ring empty and leaves, or copies the oldest item.
run_check(c) ==
    /\ pc[c] = "check" /\ op[c] = "wq_run"
    /\ IF head[wq[c]] = tail[wq[c]]
       THEN Goto(c, "release") /\ UNCHANGED item
       ELSE /\ item' = [item EXCEPT ![c] = items[wq[c]][head[wq[c]]]]
            /\ Goto(c, "advance")
    /\ UNCHANGED <<queues, calls, ran>>

run_advance(c) ==
    /\ pc[c] = "advance" /\ op[c] = "wq_run"
    /\ head' = [head EXCEPT ![wq[c]] = After(@)]
    /\ Goto(c, "release")
    /\ UNCHANGED <<items, tail, lock, item, calls, ran>>

pending_read(c) ==
    /\ pc[c] = "check" /\ op[c] = "wq_pending"
    /\ Goto(c, "release")
    /\ UNCHANGED <<queues, item, calls, ran>>

-----------------------------------------------------------------------------
(* Returns.                                                                *)

\* Mutant of Released: wq_run goes back to the loop without the item.
Released_Drops(c) == "idle"

\* Where a CPU goes after spinlock_release: wq_run calls the work function of
\* the item it took, the others return.
Released(c) == IF op[c] = "wq_run" /\ item[c] # 0 THEN "call" ELSE "idle"

spinlock_release(c) ==
    /\ pc[c] = "release"
    /\ lock' = [lock EXCEPT ![wq[c]] = 0]
    /\ Goto(c, Released(c))
    /\ UNCHANGED <<items, head, tail, item, calls, ran>>

\* item.fn(item.arg): the work function runs; it may call wq_submit.
call_fn(c) ==
    /\ pc[c] = "call"
    /\ ran' = [ran EXCEPT ![c] = Append(@, item[c])]
    /\ inFn' = [inFn EXCEPT ![c] = 1]
    /\ pc' = [pc EXCEPT ![c] = "idle"]
    /\ item' = [item EXCEPT ![c] = 0]
    /\ UNCHANGED <<queues, op, wq, calls>>

\* The work function returns and wq_run looks for the next item.
fn_return(c) ==
    /\ pc[c] = "idle" /\ inFn[c] = 1
    /\ inFn' = [inFn EXCEPT ![c] = 0]
    /\ Call(c, "wq_run", c, 0)
    /\ UNCHANGED <<queues, calls, ran>>

\* What a CPU does once it has entered one of the functions.
Step(c) ==
    \/ spinlock_acquire(c) \/ spinlock_release(c)
    \/ submit_check(c) \/ submit_store(c) \/ submit_advance(c)
    \/ run_check(c) \/ run_advance(c) \/ pending_read(c)
    \/ call_fn(c) \/ fn_return(c)

Next == \E c \in CPUs : Step(c) \/ wq_submit(c) \/ wq_run(c) \/ wq_pending(c)

\* Each CPU executes its instructions, an application processor calls wq_run
\* again and again, and work functions return, however often they call wq_submit
\* and wq_pending before.  Nothing is assumed of who gets a lock.
Fairness ==
    \A c \in CPUs : WF_vars(Step(c)) /\ WF_vars(wq_run(c)) /\ SF_vars(fn_return(c))

Spec == Init /\ [][Next]_vars /\ Fairness

-----------------------------------------------------------------------------
(* Properties.                                                             *)

\* Type invariant: head and tail stay in the ring.
TypeOK ==
    /\ items \in [CPUs -> [Slots -> Items]]
    /\ head \in [CPUs -> Slots]
    /\ tail \in [CPUs -> Slots]
    /\ lock \in [CPUs -> {0, 1}]
    /\ pc \in [CPUs -> {"idle", "acquire", "check", "store", "advance", "release", "call"}]
    /\ op \in [CPUs -> {"none", "wq_submit", "wq_run", "wq_pending"}]
    /\ wq \in [CPUs -> CPUs]
    /\ item \in [CPUs -> Items]
    /\ inFn \in [CPUs -> {0, 1}]
    /\ calls \in 0 .. MAX_CALLS
    /\ ran \in [CPUs -> Seq(Items)]

InSection(c) == pc[c] \in {"check", "store", "advance", "release"}

\* Mutual exclusion: two CPUs are never both between spinlock_acquire and
\* spinlock_release of the same queue.
MutualExclusion ==
    \A c, d \in CPUs : InSection(c) /\ InSection(d) /\ wq[c] = wq[d] => c = d

\* A lock is held exactly while some CPU is in the section it protects: no
\* path through wq_submit, wq_run and wq_pending leaves a lock taken, and none
\* gives up a lock it does not have.
LockIsHeld ==
    \A q \in CPUs : (lock[q] = 1) <=> \E c \in CPUs : InSection(c) /\ wq[c] = q

\* The items in a ring, from head up to tail.
Ring(c) == LET n == (tail[c] - head[c]) % WQ_MAX_ITEMS
           IN  [k \in 1 .. n |-> items[c][(head[c] + k - 1) % WQ_MAX_ITEMS]]

\* The item a CPU has taken out of its ring and not yet run.
Taken(c) == IF op[c] = "wq_run" /\ pc[c] \in {"release", "call"} THEN item[c] ELSE 0

Fifo == INSTANCE WorkFifo WITH
            queue <- [c \in CPUs |-> Ring(c)], taken <- [c \in CPUs |-> Taken(c)],
            NoItem <- 0, Capacity <- WQ_MAX_ITEMS - 1

\* The locked rings implement bounded FIFOs: whatever CPUs submit and run at
\* the same time, no item is lost, overwritten, run twice or run by another
\* CPU, and the items of a queue are run in the order they were stored.
ImplementsFifo == Fifo!Spec

\* Work submitted to an application processor is run, unless the processor spins
\* forever on a lock, its own or another's.  The spinlock is not fair, so that can
\* happen: behind callers of wq_submit and wq_pending without end, or behind an
\* idle processor that polls its own queue.  It is the only way: every lock that
\* has been taken is released again, as no CPU waits for a lock while it holds one.
WorkIsRun ==
    /\ \A c \in APs, i \in Items \ {0} :
         (\E k \in DOMAIN Ring(c) : Ring(c)[k] = i)
             ~> ((\E k \in DOMAIN ran[c] : ran[c][k] = i) \/ [](pc[c] = "acquire"))
    /\ \A q \in CPUs : lock[q] = 1 ~> lock[q] = 0
=============================================================================
