--------------------------- MODULE NvmSchedProofs ---------------------------
(***************************************************************************)
(* Proofs about NvmSched for every size of the process table, stack,       *)
(* message queue and slice.                                                *)
(***************************************************************************)
EXTENDS NvmSched, SequenceTheorems, FiniteSetTheorems, TLAPS

-----------------------------------------------------------------------------
(* The message queue.                                                      *)

\* Taking element i out of a sequence keeps the others, in order: the shift
\* loop of SYS_MSG_RECEIVE.
LEMMA RemoveAtProperties ==
    ASSUME NEW S, NEW q \in Seq(S), NEW i \in 1 .. Len(q)
    PROVE  /\ RemoveAt(q, i) \in Seq(S)
           /\ Len(RemoveAt(q, i)) = Len(q) - 1
           /\ \A j \in 1 .. Len(q) - 1 :
                RemoveAt(q, i)[j] = IF j < i THEN q[j] ELSE q[j + 1]
<1> DEFINE a == SubSeq(q, 1, i - 1)
           b == SubSeq(q, i + 1, Len(q))
<1>1. a \in Seq(S) /\ Len(a) = i - 1 /\ \A j \in 1 .. i - 1 : a[j] = q[j]
  OBVIOUS
<1>2. /\ b \in Seq(S) /\ Len(b) = Len(q) - i
      /\ \A j \in 1 .. Len(q) - i : b[j] = q[i + j]
  OBVIOUS
<1>3. RemoveAt(q, i) = a \o b
  BY DEF RemoveAt
<1>4. /\ a \o b \in Seq(S)
      /\ Len(a \o b) = Len(q) - 1
      /\ \A j \in 1 .. Len(q) - 1 :
           (a \o b)[j] = IF j <= Len(a) THEN a[j] ELSE b[j - Len(a)]
  <2> HIDE DEF a, b
  <2>1. /\ a \o b \in Seq(S)
        /\ Len(a \o b) = Len(a) + Len(b)
        /\ \A j \in 1 .. Len(a) + Len(b) :
             (a \o b)[j] = IF j <= Len(a) THEN a[j] ELSE b[j - Len(a)]
    BY <1>1, <1>2, ConcatProperties, Zenon
  <2>2. Len(a) + Len(b) = Len(q) - 1
    BY <1>1, <1>2
  <2> QED
    BY <2>1, <2>2
<1>5. \A j \in 1 .. Len(q) - 1 :
        (a \o b)[j] = IF j < i THEN q[j] ELSE q[j + 1]
  <2> HIDE DEF a, b
  <2> QED
    BY <1>1, <1>2, <1>4
<1> QED
  BY <1>3, <1>4, <1>5, Zenon

-----------------------------------------------------------------------------
(* Type correctness.                                                       *)

LEMMA InitTypeOK == Init => TypeOK
BY NvmSchedAssumption DEF Init, TypeOK, Pids

LEMMA SlotIsPid ==
    ASSUME TypeOK, NEW k \in Nat
    PROVE  Slot(k) \in Pids
BY NvmSchedAssumption DEF TypeOK, Pids, Slot

LEMMA NextTypeOK == TypeOK /\ [Next]_vars => TypeOK'
<1> SUFFICES ASSUME TypeOK, [Next]_vars PROVE TypeOK'
  OBVIOUS
<1> USE NvmSchedAssumption DEF TypeOK
<1>1. CASE nvm_scheduler_tick
  <2>1. current_process' \in Pids /\ left' \in 0 .. SLICE_LEN
    <3>1. CASE \E k \in 1 .. MAX_PROCESSES : SwitchTo(k)
      <4>1. PICK k \in 1 .. MAX_PROCESSES :
              current_process' = Slot(k) /\ left' = SLICE_LEN
        BY <3>1 DEF SwitchTo
      <4>2. Slot(k) \in Pids
        BY SlotIsPid
      <4> QED
        BY <4>1, <4>2
    <3>2. CASE UNCHANGED <<current_process, left>>
      BY <3>2
    <3> QED
      BY <1>1, <3>1, <3>2 DEF nvm_scheduler_tick, NothingToRun
  <2>2. timer_ticks' \in 0 .. TIME_SLICE_MS - 1
    BY <1>1 DEF nvm_scheduler_tick
  <2> QED
    BY <1>1, <2>1, <2>2 DEF nvm_scheduler_tick, procVars
<1>2. CASE shell_run_program
  BY <1>2 DEF shell_run_program, CreateIn
<1>3. CASE handle_ordinary(current_process)
  BY <1>3 DEF handle_ordinary, Advance, CanExecute
<1>4. CASE handle_halt(current_process)
  BY <1>4 DEF handle_halt, Advance
<1>5. CASE SYS_EXIT(current_process)
  BY <1>5 DEF SYS_EXIT, Advance, CanExecute
<1>6. CASE SYS_SPAWN(current_process)
  <2> DEFINE p == current_process
  <2>1. PICK i \in Pids, n \in 0 .. sp[p] - 2, e \in BOOLEAN, f \in BOOLEAN :
          /\ CreateIn(i, [sp EXCEPT ![p] = n])
          /\ done' = [done EXCEPT ![p] = e, ![i] = f]
    BY <1>6, Zenon DEF SYS_SPAWN
  <2>2. n \in 0 .. STACK_SIZE
    OBVIOUS
  <2>3. sp' \in [Pids -> 0 .. STACK_SIZE]
    BY <2>1, <2>2 DEF CreateIn
  <2>4. /\ active' \in [Pids -> BOOLEAN]
        /\ blocked' \in [Pids -> BOOLEAN]
        /\ done' \in [Pids -> BOOLEAN]
    BY <2>1, Zenon DEF CreateIn
  <2>5. left' \in 0 .. SLICE_LEN
    BY <1>6 DEF SYS_SPAWN, CanExecute
  <2> QED
    BY <1>6, <2>3, <2>4, <2>5, Zenon DEF SYS_SPAWN
<1>7. CASE SYS_MSG_SEND(current_process)
  <2>1. message_queue' \in Seq(Message) /\ Len(message_queue') <= MAX_MESSAGES
    BY <1>7 DEF SYS_MSG_SEND, Message
  <2> QED
    BY <1>7, <2>1 DEF SYS_MSG_SEND, Advance, CanExecute, Wake
<1>8. CASE SYS_MSG_RECEIVE(current_process)
  <2> DEFINE p == current_process
  <2>1. CASE ReceiveMessage(p)
    <3>1. PICK i \in 1 .. Len(message_queue) :
            IF HasRoom(p)
            THEN /\ message_queue' = RemoveAt(message_queue, i)
                 /\ sp' = [sp EXCEPT ![p] = @ + 2]
            ELSE UNCHANGED <<message_queue, sp>>
      BY <2>1 DEF ReceiveMessage
    <3>2. message_queue' \in Seq(Message) /\ Len(message_queue') <= MAX_MESSAGES
      BY <3>1, RemoveAtProperties
    <3>3. sp' \in [Pids -> 0 .. STACK_SIZE]
      <4>1. CASE HasRoom(p)
        <5>1. sp[p] + 2 \in 0 .. STACK_SIZE
          BY <4>1 DEF HasRoom
        <5>2. sp' = [sp EXCEPT ![p] = sp[p] + 2]
          BY <3>1, <4>1, Zenon
        <5> QED
          BY <5>1, <5>2, Zenon
      <4>2. CASE ~HasRoom(p)
        BY <3>1, <4>2, Zenon
      <4> QED
        BY <4>1, <4>2
    <3>4. /\ active' \in [Pids -> BOOLEAN]
          /\ blocked' \in [Pids -> BOOLEAN]
          /\ current_process' \in Pids
          /\ timer_ticks' \in 0 .. TIME_SLICE_MS - 1
      BY <1>8, <2>1 DEF SYS_MSG_RECEIVE, ReceiveMessage, Advance
    <3>5. done' \in [Pids -> BOOLEAN]
      BY <1>8 DEF SYS_MSG_RECEIVE, Advance
    <3>6. left' \in 0 .. SLICE_LEN
      BY <1>8 DEF SYS_MSG_RECEIVE, Advance, CanExecute
    <3>7. wrapped' \in BOOLEAN
      BY <1>8, Zenon DEF SYS_MSG_RECEIVE, Advance
    <3> QED
      BY <3>2, <3>3, <3>4, <3>5, <3>6, <3>7
  <2>2. CASE BlockForMessage(p)
    BY <1>8, <2>2 DEF SYS_MSG_RECEIVE, BlockForMessage, Advance, CanExecute
  <2> QED
    BY <1>8, <2>1, <2>2 DEF SYS_MSG_RECEIVE
<1>9. CASE EndSlice(current_process)
  BY <1>9 DEF EndSlice
<1>10. CASE SpawnWraps(current_process)
  BY <1>10 DEF SpawnWraps, procVars
<1>11. CASE UNCHANGED vars
  BY <1>11 DEF vars
<1> QED
  BY <1>1, <1>2, <1>3, <1>4, <1>5, <1>6, <1>7, <1>8, <1>9, <1>10, <1>11
  DEF Next, RunSlice, nvm_execute_instruction, Undefined

\* The process table, the message queue and the slice counter keep their
\* types; the stack depth stays within the stack and the queue within its
\* capacity, whatever programs run, until a SYS_SPAWN lets an sp wrap around.
THEOREM TypeCorrect == Spec => []TypeOK
BY InitTypeOK, NextTypeOK, PTL DEF Spec

-----------------------------------------------------------------------------
(* No lost wakeup.  With the types it is inductive: a slot that is active   *)
(* and blocked got there by BlockForMessage, after a scan of the queue,     *)
(* and every later message for it goes through Wake.                       *)

\* Mail only appears by SYS_MSG_SEND.
LEMMA ReceiveAddsNoMail ==
    ASSUME TypeOK, NEW p \in Pids, ReceiveMessage(p), NEW q \in Pids, HasMail(q)'
    PROVE  HasMail(q)
<1>1. PICK i \in 1 .. Len(message_queue) :
        message_queue' \in {message_queue, RemoveAt(message_queue, i)}
  BY DEF ReceiveMessage
<1>2. CASE message_queue' = message_queue
  BY <1>2 DEF HasMail
<1>3. CASE message_queue' = RemoveAt(message_queue, i)
  <2>1. message_queue \in Seq(Message)
    BY DEF TypeOK
  <2>2. PICK j \in 1 .. Len(message_queue') : message_queue'[j].recipient = q
    BY DEF HasMail
  <2>3. /\ j \in 1 .. Len(message_queue) - 1
        /\ message_queue'[j] = IF j < i THEN message_queue[j]
                                        ELSE message_queue[j + 1]
    BY <1>3, <2>1, RemoveAtProperties, Zenon
  <2>4. \E k \in 1 .. Len(message_queue) : message_queue[k].recipient = q
    BY <2>1, <2>2, <2>3
  <2> QED
    BY <2>4 DEF HasMail
<1> QED
  BY <1>1, <1>2, <1>3

LEMMA NextNoLostWakeup ==
    TypeOK /\ NoLostWakeup /\ [Next]_vars => NoLostWakeup'
<1> SUFFICES ASSUME TypeOK, NoLostWakeup, [Next]_vars,
                    NEW q \in Pids, active'[q], blocked'[q], HasMail(q)'
             PROVE  FALSE
  BY DEF NoLostWakeup
<1> DEFINE p == current_process
<1>0. p \in Pids
  BY DEF TypeOK
<1>1. ~(active[q] /\ blocked[q] /\ HasMail(q))
  BY DEF NoLostWakeup
<1>2. CASE nvm_scheduler_tick
  BY <1>1, <1>2 DEF nvm_scheduler_tick, procVars, HasMail
<1>3. CASE shell_run_program
  BY <1>1, <1>3 DEF shell_run_program, CreateIn, TypeOK, HasMail
<1>4. CASE handle_ordinary(p)
  BY <1>1, <1>4 DEF handle_ordinary, HasMail
<1>5. CASE handle_halt(p)
  BY <1>0, <1>1, <1>5 DEF handle_halt, TypeOK, HasMail
<1>6. CASE SYS_EXIT(p)
  BY <1>0, <1>1, <1>6 DEF SYS_EXIT, TypeOK, HasMail
<1>7. CASE SYS_SPAWN(p)
  BY <1>1, <1>7 DEF SYS_SPAWN, CreateIn, TypeOK, HasMail
<1>8. CASE SYS_MSG_SEND(p)
  <2>1. PICK r \in Recipients, c \in Bytes :
          /\ message_queue' = Append(message_queue,
               [recipient |-> r, sender |-> p, content |-> c])
          /\ Wake(r)
    BY <1>8 DEF SYS_MSG_SEND
  <2>2. active[q] /\ blocked[q] /\ q # r
    BY <1>8, <2>1, Zenon DEF SYS_MSG_SEND, Wake
  <2>3. HasMail(q)
    <3>1. message_queue \in Seq(Message)
      BY DEF TypeOK
    <3>2. PICK j \in 1 .. Len(message_queue') : message_queue'[j].recipient = q
      BY DEF HasMail
    <3>3. j # Len(message_queue) + 1
      BY <2>1, <2>2, <3>1, <3>2
    <3> QED
      BY <2>1, <3>1, <3>2, <3>3 DEF HasMail
  <2> QED
    BY <1>1, <2>2, <2>3
<1>9. CASE SYS_MSG_RECEIVE(p)
  <2>1. CASE ReceiveMessage(p)
    BY <1>0, <1>1, <1>9, <2>1, ReceiveAddsNoMail
    DEF SYS_MSG_RECEIVE, ReceiveMessage
  <2>2. CASE BlockForMessage(p)
    BY <1>1, <1>9, <2>2 DEF SYS_MSG_RECEIVE, BlockForMessage, HasMail, TypeOK
  <2> QED
    BY <1>9, <2>1, <2>2 DEF SYS_MSG_RECEIVE
<1>10. CASE EndSlice(p)
  BY <1>0, <1>1, <1>10 DEF EndSlice, TypeOK, HasMail
<1>11. CASE SpawnWraps(p)
  BY <1>1, <1>11 DEF SpawnWraps, procVars, HasMail
<1>12. CASE UNCHANGED vars
  BY <1>1, <1>12 DEF vars, HasMail
<1> QED
  BY <1>2, <1>3, <1>4, <1>5, <1>6, <1>7, <1>8, <1>9, <1>10, <1>11, <1>12
  DEF Next, RunSlice, nvm_execute_instruction, Undefined

\* A live process blocked in SYS_MSG_RECEIVE never has a message waiting.
THEOREM WakeupNotLost == Spec => []NoLostWakeup
<1>1. Init => NoLostWakeup
  BY DEF Init, NoLostWakeup
<1> QED
  BY <1>1, InitTypeOK, NextTypeOK, NextNoLostWakeup, PTL DEF Spec

-----------------------------------------------------------------------------
(* Action properties.                                                      *)

LEMMA StepWakeupHasCause ==
    ASSUME TypeOK, [Next]_vars, NEW q \in Pids, blocked[q], ~blocked'[q], active[q]
    PROVE  HasMail(q)'
<1> DEFINE p == current_process
<1>0. p \in Pids
  BY DEF TypeOK
<1>1. CASE nvm_scheduler_tick
  BY <1>1 DEF nvm_scheduler_tick, procVars
<1>2. CASE shell_run_program
  BY <1>2 DEF shell_run_program, CreateIn, FirstFree, TypeOK
<1>3. CASE handle_ordinary(p) \/ handle_halt(p) \/ SYS_EXIT(p)
  BY <1>3 DEF handle_ordinary, handle_halt, SYS_EXIT
<1>4. CASE SYS_SPAWN(p)
  BY <1>4 DEF SYS_SPAWN, CreateIn, FirstFree, TypeOK
<1>5. CASE SYS_MSG_SEND(p)
  <2>1. PICK r \in Recipients, c \in Bytes :
          /\ message_queue' = Append(message_queue,
               [recipient |-> r, sender |-> p, content |-> c])
          /\ Wake(r)
    BY <1>5 DEF SYS_MSG_SEND
  <2>2. q = r
    BY <2>1, Zenon DEF Wake
  <2>3. message_queue \in Seq(Message)
    BY DEF TypeOK
  <2>4. /\ Len(message_queue') = Len(message_queue) + 1
        /\ message_queue'[Len(message_queue) + 1].recipient = r
    BY <2>1, <2>3
  <2> QED
    BY <2>2, <2>3, <2>4 DEF HasMail
<1>6. CASE SYS_MSG_RECEIVE(p)
  BY <1>0, <1>6 DEF SYS_MSG_RECEIVE, ReceiveMessage, BlockForMessage, TypeOK
<1>7. CASE EndSlice(p)
  BY <1>7 DEF EndSlice
<1>8. CASE SpawnWraps(p) \/ UNCHANGED vars
  BY <1>8 DEF SpawnWraps, procVars, vars
<1> QED
  BY <1>1, <1>2, <1>3, <1>4, <1>5, <1>6, <1>7, <1>8
  DEF Next, RunSlice, nvm_execute_instruction, Undefined

\* A live process is unblocked only by a message that is in the queue for it.
THEOREM WakeupCause == Spec => WakeupHasCause
<1>1. TypeOK /\ [Next]_vars => [WakeupStep]_vars
  BY StepWakeupHasCause DEF WakeupStep
<1> QED
  BY <1>1, TypeCorrect, PTL DEF Spec, WakeupHasCause

LEMMA StepIsolation ==
    ASSUME TypeOK, [Next]_vars, NEW q \in Pids, active[q],
           ~(left > 0 /\ q = current_process)
    PROVE  /\ active'[q]
           /\ done'[q] = done[q]
           /\ sp'[q] = sp[q]
           /\ blocked'[q] => blocked[q]
<1> DEFINE p == current_process
<1> USE DEF TypeOK
<1>1. CASE nvm_scheduler_tick
  BY <1>1 DEF nvm_scheduler_tick, procVars
<1>2. CASE shell_run_program
  BY <1>2 DEF shell_run_program, CreateIn, FirstFree
<1>3. CASE handle_ordinary(p)
  BY <1>3 DEF handle_ordinary, Advance, CanExecute
<1>4. CASE handle_halt(p)
  BY <1>4 DEF handle_halt, Advance, CanExecute
<1>5. CASE SYS_EXIT(p)
  BY <1>5 DEF SYS_EXIT, Advance, CanExecute
<1>6. CASE SYS_SPAWN(p)
  <2>1. q # p
    BY <1>6 DEF SYS_SPAWN, CanExecute
  <2>2. PICK i \in Pids, n \in 0 .. sp[p] - 2, e \in BOOLEAN, f \in BOOLEAN :
          /\ CreateIn(i, [sp EXCEPT ![p] = n])
          /\ done' = [done EXCEPT ![p] = e, ![i] = f]
    BY <1>6, Zenon DEF SYS_SPAWN
  <2>3. q # i
    BY <2>2 DEF CreateIn, FirstFree
  <2> QED
    BY <2>1, <2>2, <2>3 DEF CreateIn
<1>7. CASE SYS_MSG_SEND(p)
  BY <1>7 DEF SYS_MSG_SEND, Advance, CanExecute, Wake
<1>8. CASE SYS_MSG_RECEIVE(p)
  BY <1>8 DEF SYS_MSG_RECEIVE, Advance, CanExecute, ReceiveMessage, BlockForMessage
<1>9. CASE EndSlice(p)
  BY <1>9 DEF EndSlice
<1>10. CASE SpawnWraps(current_process)
  BY <1>10 DEF SpawnWraps, procVars
<1>11. CASE UNCHANGED vars
  BY <1>11 DEF vars
<1> QED
  BY <1>1, <1>2, <1>3, <1>4, <1>5, <1>6, <1>7, <1>8, <1>9, <1>10, <1>11
  DEF Next, RunSlice, nvm_execute_instruction, Undefined

\* No instruction and no shell command changes the ip, the stack depth or the
\* life of a live process other than the one that runs.
THEOREM ProcessesIsolated == Spec => Isolation
<1>1. TypeOK /\ [Next]_vars => [IsolatedStep]_vars
  BY StepIsolation DEF IsolatedStep
<1> QED
  BY <1>1, TypeCorrect, PTL DEF Spec, Isolation

-----------------------------------------------------------------------------
(* The mailboxes.  The k-th message for r is where MailCount reaches k:     *)
(* MailCount numbers the messages for r from 1 without gaps.               *)

For(q, r, n) == {j \in 1 .. n : q[j].recipient = r}

LEMMA CountSet ==
    ASSUME NEW q, NEW r, NEW n \in Nat
    PROVE  /\ IsFiniteSet(For(q, r, n)) /\ For(q, r, n) \in SUBSET (1 .. n)
           /\ MailCount(q, r, n) = Cardinality(For(q, r, n))
           /\ MailCount(q, r, n) \in Nat
<1>1. For(q, r, n) \in SUBSET (1 .. n)
  BY DEF For
<1>2. IsFiniteSet(1 .. n)
  BY FS_Interval
<1>3. IsFiniteSet(For(q, r, n))
  BY <1>1, <1>2, FS_Subset
<1>4. MailCount(q, r, n) = Cardinality(For(q, r, n))
  BY DEF MailCount, For
<1> QED
  BY <1>1, <1>3, <1>4, FS_CardinalityType

\* One message more.
LEMMA CountStep ==
    ASSUME NEW q, NEW r, NEW n \in Nat
    PROVE  MailCount(q, r, n + 1) =
             IF q[n + 1].recipient = r THEN MailCount(q, r, n) + 1 ELSE MailCount(q, r, n)
<1>1. IsFiniteSet(For(q, r, n)) /\ MailCount(q, r, n) = Cardinality(For(q, r, n))
  BY CountSet
<1>2. MailCount(q, r, n + 1) = Cardinality(For(q, r, n + 1))
  BY CountSet
<1>3. CASE q[n + 1].recipient = r
  <2>1. For(q, r, n + 1) = For(q, r, n) \cup {n + 1} /\ n + 1 \notin For(q, r, n)
    BY <1>3 DEF For
  <2> QED
    BY <1>1, <1>2, <1>3, <2>1, FS_AddElement
<1>4. CASE q[n + 1].recipient # r
  <2>1. For(q, r, n + 1) = For(q, r, n)
    BY <1>4 DEF For
  <2> QED
    BY <1>1, <1>2, <1>4, <2>1
<1> QED
  BY <1>3, <1>4

LEMMA CountGrows ==
    ASSUME NEW q, NEW r, NEW m \in Nat, NEW n \in Nat
    PROVE  /\ m <= n => MailCount(q, r, m) <= MailCount(q, r, n)
           /\ m < n /\ q[n].recipient = r => MailCount(q, r, m) < MailCount(q, r, n)
<1>1. ASSUME NEW a \in Nat, NEW b \in Nat, a <= b
      PROVE  MailCount(q, r, a) <= MailCount(q, r, b)
  <2>1. For(q, r, a) \in SUBSET For(q, r, b)
    BY <1>1 DEF For
  <2> QED
    BY <2>1, CountSet, FS_Subset
<1>2. ASSUME m < n, q[n].recipient = r
      PROVE  MailCount(q, r, m) < MailCount(q, r, n)
  <2>1. n - 1 \in Nat /\ m <= n - 1 /\ (n - 1) + 1 = n
    BY <1>2
  <2>2. MailCount(q, r, m) <= MailCount(q, r, n - 1)
    BY <1>1, <2>1
  <2>3. MailCount(q, r, n) = MailCount(q, r, n - 1) + 1
    BY <1>2, <2>1, CountStep
  <2>4. MailCount(q, r, m) \in Nat /\ MailCount(q, r, n - 1) \in Nat
    BY <2>1, CountSet
  <2> QED
    BY <2>2, <2>3, <2>4
<1> QED
  BY <1>1, <1>2

\* The messages for r have the numbers from 1 to their count, each one its own.
LEMMA CountNumbers ==
    ASSUME NEW q, NEW r, NEW n \in Nat
    PROVE  /\ \A i \in For(q, r, n) : MailCount(q, r, i) \in 1 .. MailCount(q, r, n)
           /\ \A i, j \in For(q, r, n) : MailCount(q, r, i) = MailCount(q, r, j) => i = j
           /\ \A k \in 1 .. MailCount(q, r, n) : \E i \in For(q, r, n) : MailCount(q, r, i) = k
<1> DEFINE D == For(q, r, n)
           C == MailCount(q, r, n)
           f == [i \in D |-> MailCount(q, r, i)]
<1>1. IsFiniteSet(D) /\ D \in SUBSET (1 .. n) /\ C = Cardinality(D) /\ C \in Nat
  BY CountSet
<1>2. ASSUME NEW i \in D PROVE MailCount(q, r, i) \in 1 .. C
  <2>1. i \in 1 .. n /\ q[i].recipient = r
    BY DEF For
  <2>2. MailCount(q, r, 0) < MailCount(q, r, i) /\ MailCount(q, r, i) <= C
    BY <2>1, CountGrows
  <2>3. MailCount(q, r, 0) \in Nat /\ MailCount(q, r, i) \in Nat
    BY <2>1, CountSet
  <2> QED
    BY <1>1, <2>2, <2>3
<1>3. ASSUME NEW i \in D, NEW j \in D, MailCount(q, r, i) = MailCount(q, r, j) PROVE i = j
  <2>1. /\ i \in Nat /\ j \in Nat /\ q[i].recipient = r /\ q[j].recipient = r
    BY DEF For
  <2>2. MailCount(q, r, i) \in Nat
    BY <2>1, CountSet
  <2>3. ~(i < j) /\ ~(j < i)
    BY <1>3, <2>1, <2>2, CountGrows
  <2> QED
    BY <2>1, <2>3
<1>4. f \in Injection(D, 1 .. C)
  <2> HIDE DEF D, C
  <2> QED
    BY <1>2, <1>3 DEF Injection, IsInjective
<1>5. IsFiniteSet(1 .. C) /\ Cardinality(1 .. C) = C
  <2> HIDE DEF C
  <2> QED
    BY <1>1, FS_Interval
<1>6. f \in Surjection(D, 1 .. C)
  <2> HIDE DEF f, D, C
  <2> QED
    BY <1>1, <1>4, <1>5, FS_Injection
<1>7. \A k \in 1 .. C : \E i \in D : MailCount(q, r, i) = k
  <2> HIDE DEF D, C
  <2> QED
    BY <1>6, Zenon DEF Surjection
<1> QED
  BY <1>2, <1>3, <1>7

\* What MailFor returns, and that nothing else is that.
LEMMA MailForAt ==
    ASSUME NEW q, NEW r, Len(q) \in Nat
    PROVE  /\ DOMAIN MailFor(q, r) = 1 .. MailCount(q, r, Len(q))
           /\ \A i \in For(q, r, Len(q)) : MailFor(q, r)[MailCount(q, r, i)] = q[i]
<1> DEFINE C == MailCount(q, r, Len(q))
           At(k) == CHOOSE i \in 1 .. Len(q) : q[i].recipient = r /\ MailCount(q, r, i) = k
<1>1. MailFor(q, r) = [k \in 1 .. C |-> q[At(k)]]
  BY DEF MailFor
<1>2. ASSUME NEW i \in For(q, r, Len(q)) PROVE MailFor(q, r)[MailCount(q, r, i)] = q[i]
  <2>1. MailCount(q, r, i) \in 1 .. C
    BY CountNumbers
  <2>2. i \in 1 .. Len(q) /\ q[i].recipient = r
    BY DEF For
  <2>3. PICK j : j = At(MailCount(q, r, i))
    OBVIOUS
  <2>4. j \in 1 .. Len(q) /\ q[j].recipient = r /\ MailCount(q, r, j) = MailCount(q, r, i)
    BY <2>2, <2>3
  <2>5. j = i
    BY <2>4, CountNumbers DEF For
  <2>6. MailFor(q, r)[MailCount(q, r, i)] = q[At(MailCount(q, r, i))]
    BY <1>1, <2>1, Zenon
  <2> QED
    BY <2>3, <2>5, <2>6, Zenon
<1>3. DOMAIN MailFor(q, r) = 1 .. C
  BY <1>1, Zenon
<1> QED
  BY <1>2, <1>3, Zenon

IsMail(q, r, b) ==
    /\ Len(q) \in Nat
    /\ b = [k \in 1 .. MailCount(q, r, Len(q)) |-> b[k]]
    /\ \A i \in For(q, r, Len(q)) : b[MailCount(q, r, i)] = q[i]

LEMMA MailForIs ==
    ASSUME NEW q, NEW r, NEW b, IsMail(q, r, b)
    PROVE  b = MailFor(q, r)
<1> USE DEF IsMail
<1> DEFINE C == MailCount(q, r, Len(q))
<1>1. PICK c : c = MailFor(q, r)
  OBVIOUS
<1>2. c = [k \in 1 .. C |-> c[k]]
  BY <1>1 DEF MailFor
<1>3. ASSUME NEW k \in 1 .. C PROVE b[k] = c[k]
  <2>1. PICK i \in For(q, r, Len(q)) : MailCount(q, r, i) = k
    BY CountNumbers
  <2> QED
    BY <1>1, <2>1, MailForAt
<1> QED
  BY <1>1, <1>2, <1>3

\* Each message of the queue is in one place of one box.
LEMMA CellCount ==
    ASSUME NEW q \in Seq(Message), NEW W,
           \A x : x \in W <=> \E r \in Recipients :
                                \E k \in 1 .. MailCount(q, r, Len(q)) : x = <<r, k>>
    PROVE  Cardinality(W) = Len(q)
<1> DEFINE g == [i \in 1 .. Len(q) |-> <<q[i].recipient, MailCount(q, q[i].recipient, i)>>]
<1>1. Len(q) \in Nat /\ \A i \in 1 .. Len(q) : q[i].recipient \in Recipients
  <2>1. Len(q) \in Nat /\ \A i \in 1 .. Len(q) : q[i] \in Message
    OBVIOUS
  <2>2. \A m \in Message : m.recipient \in Recipients
    BY DEF Message
  <2> QED
    BY <2>1, <2>2
<1>3. ASSUME NEW i \in 1 .. Len(q) PROVE g[i] \in W /\ i \in For(q, q[i].recipient, Len(q))
  <2>1. i \in For(q, q[i].recipient, Len(q))
    BY DEF For
  <2>2. MailCount(q, q[i].recipient, i) \in 1 .. MailCount(q, q[i].recipient, Len(q))
    BY <1>1, <2>1, CountNumbers
  <2> QED
    BY <1>1, <2>1, <2>2
<1>4. ASSUME NEW i \in 1 .. Len(q), NEW j \in 1 .. Len(q), g[i] = g[j] PROVE i = j
  <2>1. PICK r : r = q[i].recipient
    OBVIOUS
  <2>2. r = q[j].recipient /\ MailCount(q, r, i) = MailCount(q, r, j)
    BY <1>4, <2>1
  <2>3. i \in For(q, r, Len(q)) /\ j \in For(q, r, Len(q))
    BY <1>3, <2>1, <2>2, Zenon
  <2> QED
    BY <1>1, <2>2, <2>3, CountNumbers
<1>5. ASSUME NEW x \in W PROVE \E i \in 1 .. Len(q) : g[i] = x
  <2>1. PICK r \in Recipients : \E k \in 1 .. MailCount(q, r, Len(q)) : x = <<r, k>>
    OBVIOUS
  <2>2. PICK k \in 1 .. MailCount(q, r, Len(q)) : x = <<r, k>>
    BY <2>1
  <2>3. PICK i \in For(q, r, Len(q)) : MailCount(q, r, i) = k
    BY <1>1, CountNumbers
  <2>4. i \in 1 .. Len(q) /\ q[i].recipient = r
    BY DEF For
  <2> QED
    BY <2>2, <2>3, <2>4
<1>6. g \in Bijection(1 .. Len(q), W)
  <2>1. g \in [1 .. Len(q) -> W]
    BY <1>3
  <2> HIDE DEF g
  <2> QED
    BY <1>4, <1>5, <2>1 DEF Bijection, Injection, Surjection, IsInjective
<1>7. IsFiniteSet(1 .. Len(q)) /\ Cardinality(1 .. Len(q)) = Len(q)
  BY <1>1, FS_Interval
<1>8. ExistsBijection(1 .. Len(q), W)
  <2> HIDE DEF g
  <2> QED
    BY <1>6 DEF ExistsBijection
<1> QED
  BY <1>7, <1>8, FS_Bijection

LEMMA WaitingCount ==
    ASSUME TypeOK
    PROVE  Cardinality(Mail!Waiting) = Len(message_queue)
<1>1. PICK q : q = message_queue
  OBVIOUS
<1>2. q \in Seq(Message) /\ Len(q) \in Nat
  BY <1>1 DEF TypeOK
<1>3. ASSUME NEW r \in Recipients PROVE DOMAIN boxes[r] = 1 .. MailCount(q, r, Len(q))
  <2>1. boxes[r] = MailFor(q, r)
    BY <1>1, Zenon DEF boxes
  <2>2. DOMAIN MailFor(q, r) = 1 .. MailCount(q, r, Len(q))
    BY <1>2, MailForAt, Zenon
  <2> QED
    BY <2>1, <2>2, Zenon
<1>4. PICK W : W = Mail!Waiting
  OBVIOUS
<1>5. \A x : x \in W <=> \E r \in Recipients : \E k \in DOMAIN boxes[r] : x = <<r, k>>
  BY <1>4 DEF Mail!Waiting
<1>6. \A x : x \in W <=> \E r \in Recipients :
                           \E k \in 1 .. MailCount(q, r, Len(q)) : x = <<r, k>>
  BY <1>3, <1>5, Zenon
<1>7. Cardinality(W) = Len(q)
  BY <1>2, <1>6, CellCount, Zenon
<1> QED
  BY <1>1, <1>4, <1>7, Zenon

\* A message that is appended is the last of its box.
LEMMA MailForAppend ==
    ASSUME NEW q \in Seq(Message), NEW m \in Message, NEW r
    PROVE  MailFor(Append(q, m), r) =
             IF m.recipient = r THEN Append(MailFor(q, r), m) ELSE MailFor(q, r)
<1>1. PICK n, u : n = Len(q) /\ u = Append(q, m)
  BY Zenon
<1>2. n \in Nat /\ Len(u) = n + 1 /\ u[n + 1] = m /\ \A i \in 1 .. n : u[i] = q[i]
  BY <1>1
<1>3. ASSUME NEW i \in 0 .. n PROVE MailCount(u, r, i) = MailCount(q, r, i)
  <2>1. i \in Nat /\ \A j \in 1 .. i : j \in 1 .. n
    BY <1>2
  <2>2. \A j \in 1 .. i : u[j].recipient = q[j].recipient
    BY <1>2, <2>1, Zenon
  <2> QED
    <3>1. {j \in 1 .. i : u[j].recipient = r} = {j \in 1 .. i : q[j].recipient = r}
      BY <2>2, Zenon
    <3> QED
      BY <3>1, Zenon DEF MailCount
<1>4. PICK C : C = MailCount(q, r, n)
  OBVIOUS
<1>5. C \in Nat /\ MailCount(u, r, n) = C
  BY <1>2, <1>3, <1>4, CountSet
<1>6. MailCount(u, r, n + 1) = IF m.recipient = r THEN C + 1 ELSE C
  BY <1>2, <1>5, CountStep
<1>7. PICK b : b = MailFor(q, r)
  OBVIOUS
<1>8. /\ b = [k \in 1 .. C |-> b[k]]
      /\ \A i \in For(q, r, n) : b[MailCount(q, r, i)] = q[i] /\ MailCount(q, r, i) \in 1 .. C
  <2>1. b = [k \in 1 .. C |-> b[k]]
    BY <1>1, <1>4, <1>7 DEF MailFor
  <2>2. \A i \in For(q, r, n) : b[MailCount(q, r, i)] = q[i]
    BY <1>1, <1>2, <1>7, MailForAt, Zenon
  <2>3. \A i \in For(q, r, n) : MailCount(q, r, i) \in 1 .. C
    BY <1>2, <1>4, CountNumbers
  <2> QED
    BY <2>1, <2>2, <2>3, Zenon
<1>9. \A i \in For(q, r, n) : /\ i \in 1 .. n /\ i \in 0 .. n /\ u[i] = q[i]
                              /\ MailCount(u, r, i) = MailCount(q, r, i)
  BY <1>2, <1>3 DEF For
<1>10. CASE m.recipient = r
  <2>1. PICK c : c = Append(b, m)
    BY Zenon
  <2>2. /\ c = [k \in 1 .. C + 1 |-> c[k]] /\ c[C + 1] = m
        /\ \A k \in 1 .. C : c[k] = b[k]
    <3>1. PICK S : S = {b[k] : k \in 1 .. C} \cup {m}
      BY Zenon
    <3>2. m \in S /\ \A k \in 1 .. C : b[k] \in S
      BY <3>1, Zenon
    <3>3. b \in Seq(S) /\ Len(b) = C
      BY <1>5, <1>8, <3>2
    <3>4. c \in Seq(S) /\ Len(c) = C + 1 /\ c[C + 1] = m /\ \A k \in 1 .. C : c[k] = b[k]
      BY <2>1, <3>2, <3>3, AppendProperties
    <3> QED
      BY <3>4
  <2>3. For(u, r, n + 1) = For(q, r, n) \cup {n + 1}
    BY <1>2, <1>10 DEF For
  <2>4. ASSUME NEW i \in For(u, r, n + 1) PROVE c[MailCount(u, r, i)] = u[i]
    <3>1. CASE i = n + 1
      BY <1>2, <1>6, <1>10, <2>2, <3>1, Zenon
    <3>2. CASE i \in For(q, r, n)
      BY <1>8, <1>9, <2>2, <3>2, Zenon
    <3> QED
      BY <2>3, <3>1, <3>2
  <2>5. c = MailFor(u, r)
    <3>1. Len(u) \in Nat /\ Len(u) = n + 1 /\ MailCount(u, r, Len(u)) = C + 1
      BY <1>2, <1>6, <1>10
    <3> QED
      <4>1. c = [k \in 1 .. MailCount(u, r, Len(u)) |-> c[k]]
        BY <2>2, <3>1, Zenon
      <4>2. \A i \in For(u, r, Len(u)) : c[MailCount(u, r, i)] = u[i]
        BY <2>4, <3>1, Zenon
      <4> QED
        BY <3>1, <4>1, <4>2, MailForIs, Zenon DEF IsMail
  <2> QED
    BY <1>1, <1>7, <1>10, <2>1, <2>5
<1>11. CASE m.recipient # r
  <2>1. For(u, r, n + 1) = For(q, r, n)
    BY <1>2, <1>11 DEF For
  <2>2. ASSUME NEW i \in For(u, r, n + 1) PROVE b[MailCount(u, r, i)] = u[i]
    BY <1>8, <1>9, <2>1, Zenon
  <2>3. b = MailFor(u, r)
    <3>1. Len(u) \in Nat /\ Len(u) = n + 1 /\ MailCount(u, r, Len(u)) = C
      BY <1>2, <1>6, <1>11
    <3> QED
      <4>1. b = [k \in 1 .. MailCount(u, r, Len(u)) |-> b[k]]
        BY <1>8, <3>1, Zenon
      <4>2. \A i \in For(u, r, Len(u)) : b[MailCount(u, r, i)] = u[i]
        BY <2>2, <3>1, Zenon
      <4> QED
        BY <3>1, <4>1, <4>2, MailForIs, Zenon DEF IsMail
  <2> QED
    BY <1>1, <1>7, <1>11, <2>3
<1> QED
  BY <1>10, <1>11

\* u is q, of n + 1 messages, without the message i.
Without(q, u, n, i) ==
    /\ n \in Nat /\ i \in 1 .. n + 1
    /\ \A j \in 1 .. n : u[j] = IF j < i THEN q[j] ELSE q[j + 1]

LEMMA CountWithout ==
    ASSUME NEW q, NEW u, NEW n, NEW i, Without(q, u, n, i), NEW r, NEW j \in i - 1 .. n
    PROVE  MailCount(u, r, j) =
             IF q[i].recipient = r THEN MailCount(q, r, j + 1) - 1 ELSE MailCount(q, r, j + 1)
<1>1. /\ n \in Nat /\ i \in 1 .. n + 1 /\ j \in Nat /\ j + 1 \in Nat /\ i \in 1 .. j + 1
      /\ \A k \in 1 .. j : k \in 1 .. n
  BY DEF Without
<1>2. \A k \in 1 .. j : u[k] = IF k < i THEN q[k] ELSE q[k + 1]
  BY <1>1, Zenon DEF Without
<1>3. PICK A, B : A = For(u, r, j) /\ B = For(q, r, j + 1) \ {i}
  BY Zenon
<1>4. PICK g : g = [k \in A |-> IF k < i THEN k ELSE k + 1]
  BY Zenon
<1>5. ASSUME NEW k \in A PROVE k \in 1 .. j /\ g[k] = (IF k < i THEN k ELSE k + 1) /\ g[k] \in B
  <2>1. k \in 1 .. j /\ u[k].recipient = r
    BY <1>3 DEF For
  <2>2. g[k] = IF k < i THEN k ELSE k + 1
    BY <1>4
  <2>3. g[k] \in 1 .. j + 1 /\ g[k] # i
    BY <1>1, <2>1, <2>2
  <2>4. q[g[k]].recipient = r
    BY <1>2, <2>1, <2>2
  <2> QED
    BY <1>3, <2>1, <2>2, <2>3, <2>4 DEF For
<1>6. ASSUME NEW k \in A, NEW l \in A, g[k] = g[l] PROVE k = l
  BY <1>1, <1>5, <1>6
<1>7. ASSUME NEW l \in B PROVE \E k \in A : g[k] = l
  <2>1. l \in 1 .. j + 1 /\ q[l].recipient = r /\ l # i
    BY <1>3 DEF For
  <2>2. PICK k : k = IF l < i THEN l ELSE l - 1
    BY Zenon
  <2>3. k \in 1 .. j /\ l = IF k < i THEN k ELSE k + 1
    BY <1>1, <2>1, <2>2
  <2>4. u[k] = q[l]
    BY <1>2, <2>3
  <2>5. k \in A
    BY <1>3, <2>1, <2>3, <2>4 DEF For
  <2> QED
    BY <1>4, <2>3, <2>5
<1>8. ExistsBijection(A, B)
  <2>1. g \in [A -> B]
    BY <1>4, <1>5
  <2> QED
    BY <1>6, <1>7, <2>1 DEF ExistsBijection, Bijection, Injection, Surjection, IsInjective
<1>9. /\ IsFiniteSet(A) /\ MailCount(u, r, j) = Cardinality(A)
      /\ IsFiniteSet(For(q, r, j + 1)) /\ MailCount(q, r, j + 1) = Cardinality(For(q, r, j + 1))
  BY <1>1, <1>3, CountSet
<1>10. Cardinality(B) = IF i \in For(q, r, j + 1) THEN MailCount(q, r, j + 1) - 1 ELSE MailCount(q, r, j + 1)
  BY <1>3, <1>9, FS_RemoveElement, Zenon
<1>11. i \in For(q, r, j + 1) <=> q[i].recipient = r
  BY <1>1 DEF For
<1>12. Cardinality(A) = Cardinality(B)
  BY <1>8, <1>9, FS_Bijection
<1> QED
  BY <1>9, <1>10, <1>11, <1>12

\* Taking the oldest message of a recipient out of the queue takes the first
\* out of its box, and none out of the others.
LEMMA MailForRemove ==
    ASSUME NEW q \in Seq(Message), NEW i \in 1 .. Len(q), NEW r,
           \A j \in 1 .. i - 1 : q[j].recipient # q[i].recipient
    PROVE  /\ q[i].recipient = r => MailFor(q, r) # <<>>
           /\ MailFor(RemoveAt(q, i), r) =
                IF q[i].recipient = r THEN Tail(MailFor(q, r)) ELSE MailFor(q, r)
<1>1. PICK n, u : n = Len(q) - 1 /\ u = RemoveAt(q, i)
  BY Zenon
<1>2. Len(q) = n + 1 /\ Len(u) = n /\ Without(q, u, n, i)
  <2>1. Len(u) = n /\ \A j \in 1 .. n : u[j] = IF j < i THEN q[j] ELSE q[j + 1]
    BY <1>1, RemoveAtProperties, Zenon
  <2>2. n \in Nat /\ Len(q) = n + 1
    BY <1>1
  <2> QED
    BY <2>1, <2>2, Zenon DEF Without
<1>3. n \in Nat /\ n + 1 \in Nat /\ i \in 1 .. n + 1 /\ n \in i - 1 .. n
  BY <1>2 DEF Without
<1>4. PICK b, C : b = MailFor(q, r) /\ C = MailCount(q, r, n + 1)
  BY Zenon
<1>5. C \in Nat /\ b = [k \in 1 .. C |-> b[k]]
  <2>1. C \in Nat
    BY <1>3, <1>4, CountSet
  <2> QED
    <3>1. PICK D : D = 1 .. C
      BY Zenon
    <3>2. D = 1 .. MailCount(q, r, Len(q))
      BY <1>2, <1>4, <3>1, Zenon
    <3>3. b = [k \in D |-> b[k]]
      BY <1>4, <3>2 DEF MailFor
    <3> QED
      BY <2>1, <3>1, <3>3, Zenon
<1>6. \A j \in For(q, r, n + 1) : b[MailCount(q, r, j)] = q[j] /\ MailCount(q, r, j) \in 1 .. C
  <2>1. \A j \in For(q, r, n + 1) : b[MailCount(q, r, j)] = q[j]
    BY <1>2, <1>3, <1>4, MailForAt
  <2>2. \A j \in For(q, r, n + 1) : MailCount(q, r, j) \in 1 .. C
    BY <1>3, <1>4, CountNumbers
  <2> QED
    BY <2>1, <2>2, Zenon
<1>7. MailCount(u, r, n) = IF q[i].recipient = r THEN C - 1 ELSE C
  BY <1>2, <1>3, <1>4, CountWithout
\* A message of u is at j or at j + 1 of q.
<1>8. ASSUME NEW j \in For(u, r, n)
      PROVE  \E k \in For(q, r, n + 1) :
               /\ u[j] = q[k]
               /\ MailCount(u, r, j) = IF q[i].recipient = r THEN MailCount(q, r, k) - 1 ELSE MailCount(q, r, k)
  <2>1. j \in 1 .. n /\ u[j].recipient = r
    BY DEF For
  <2>2. u[j] = IF j < i THEN q[j] ELSE q[j + 1]
    BY <1>2, <2>1, Zenon DEF Without
  <2>3. CASE j < i
    <3>1. u[j] = q[j] /\ j \in For(q, r, n + 1) /\ j \in 1 .. i - 1
      BY <1>3, <2>1, <2>2, <2>3 DEF For
    <3>2. q[i].recipient # r
      BY <2>1, <3>1
    <3>3. MailCount(u, r, j) = MailCount(q, r, j)
      <4>1. j \in Nat /\ \A l \in 1 .. j : l \in 1 .. n /\ l < i
        BY <1>3, <2>1, <2>3
      <4>2. \A l \in 1 .. j : u[l].recipient = q[l].recipient
        BY <1>2, <4>1, Zenon DEF Without
      <4>3. {l \in 1 .. j : u[l].recipient = r} = {l \in 1 .. j : q[l].recipient = r}
        BY <4>2, Zenon
      <4> QED
        BY <4>3, Zenon DEF MailCount
    <3> QED
      BY <3>1, <3>2, <3>3, Zenon
  <2>4. CASE ~(j < i)
    <3>1. u[j] = q[j + 1] /\ j + 1 \in For(q, r, n + 1) /\ j \in i - 1 .. n
      BY <1>3, <2>1, <2>2, <2>4 DEF For
    <3>2. MailCount(u, r, j) =
            IF q[i].recipient = r THEN MailCount(q, r, j + 1) - 1 ELSE MailCount(q, r, j + 1)
      BY <1>2, <3>1, CountWithout
    <3> QED
      BY <3>1, <3>2, Zenon
  <2> QED
    BY <2>3, <2>4, Zenon
<1>9. CASE q[i].recipient = r
  <2>1. i \in For(q, r, n + 1)
    BY <1>3, <1>9 DEF For
  <2>2. C # 0
    <3>1. PICK k : k = MailCount(q, r, i)
      BY Zenon
    <3>2. k \in 1 .. C
      BY <1>6, <2>1, <3>1, Zenon
    <3> QED
      BY <1>5, <3>2
  <2>3. PICK c : c = Tail(b)
    BY Zenon
  <2>4. b # <<>> /\ c = [k \in 1 .. C - 1 |-> c[k]] /\ \A k \in 1 .. C - 1 : c[k] = b[k + 1]
    <3>1. PICK S : S = {b[k] : k \in 1 .. C}
      BY Zenon
    <3>2. \A k \in 1 .. C : b[k] \in S
      BY <3>1, Zenon
    <3>3. b \in Seq(S) /\ Len(b) = C
      BY <1>5, <3>2
    <3> QED
      BY <1>5, <2>2, <2>3, <3>3
  <2>5. ASSUME NEW j \in For(u, r, n) PROVE c[MailCount(u, r, j)] = u[j]
    <3>1. PICK k \in For(q, r, n + 1) : u[j] = q[k] /\ MailCount(u, r, j) = MailCount(q, r, k) - 1
      BY <1>8, <1>9, Zenon
    <3>2. MailCount(u, r, j) \in 1 .. MailCount(u, r, n)
      BY <1>3, CountNumbers
    <3>3. MailCount(q, r, k) \in 1 .. C /\ b[MailCount(q, r, k)] = u[j]
      BY <1>6, <3>1, Zenon
    <3>4. PICK x, y : x = MailCount(q, r, k) /\ y = MailCount(u, r, j)
      BY Zenon
    <3>5. y = x - 1 /\ x \in 1 .. C /\ y \in 1 .. C - 1
      BY <1>7, <1>9, <3>1, <3>2, <3>3, <3>4, Zenon
    <3>6. y + 1 = x
      BY <1>5, <3>5
    <3> QED
      BY <2>4, <3>3, <3>4, <3>5, <3>6, Zenon
  <2>6. c = MailFor(u, r)
    <3>1. IsMail(u, r, c)
      BY <1>2, <1>3, <1>7, <1>9, <2>4, <2>5, Zenon DEF IsMail
    <3> QED
      BY <3>1, MailForIs, Zenon
  <2> QED
    BY <1>1, <1>4, <1>9, <2>3, <2>4, <2>6, Zenon
<1>10. CASE q[i].recipient # r
  <2>1. ASSUME NEW j \in For(u, r, n) PROVE b[MailCount(u, r, j)] = u[j]
    BY <1>6, <1>8, <1>10, Zenon
  <2>2. IsMail(u, r, b)
    BY <1>2, <1>3, <1>5, <1>7, <1>10, <2>1, Zenon DEF IsMail
  <2>3. b = MailFor(u, r)
    BY <2>2, MailForIs, Zenon
  <2> QED
    BY <1>1, <1>4, <1>10, <2>3, Zenon
<1> QED
  BY <1>9, <1>10, Zenon

\* A step of the kernel is a step of the mailboxes, or changes none of them.
LEMMA NextMail ==
    ASSUME TypeOK, [Next]_vars
    PROVE  [Mail!Next]_boxes
<1> DEFINE p == current_process
<1>1. p \in Pids /\ p \in Recipients /\ message_queue \in Seq(Message)
  BY NvmSchedAssumption DEF TypeOK, Pids, Recipients
<1>2. CASE UNCHANGED message_queue
  BY <1>2 DEF boxes
<1>3. CASE SYS_MSG_SEND(p)
  <2>1. PICK r \in Recipients, c \in Bytes :
          message_queue' = Append(message_queue, [recipient |-> r, sender |-> p, content |-> c])
    BY <1>3 DEF SYS_MSG_SEND
  <2>2. PICK m : m = [recipient |-> r, sender |-> p, content |-> c]
    BY Zenon
  <2>3. m \in Message /\ m.recipient = r
    BY <1>1, <2>2 DEF Message
  <2>4. Len(message_queue) < MAX_MESSAGES
    BY <1>3 DEF SYS_MSG_SEND
  <2>5. Cardinality(Mail!Waiting) < MAX_MESSAGES
    BY <2>4, WaitingCount
  <2>6. ASSUME NEW s \in Recipients
        PROVE  boxes'[s] = IF s = r THEN Append(boxes[s], m) ELSE boxes[s]
    <3>1. MailFor(message_queue', s) =
            IF m.recipient = s THEN Append(MailFor(message_queue, s), m) ELSE MailFor(message_queue, s)
      BY <1>1, <2>1, <2>2, <2>3, MailForAppend
    <3>2. boxes'[s] = MailFor(message_queue', s) /\ boxes[s] = MailFor(message_queue, s)
      BY Zenon DEF boxes
    <3> QED
      BY <2>3, <3>1, <3>2, Zenon
  <2>7. boxes' = [boxes EXCEPT ![r] = Append(boxes[r], m)]
    BY <2>6, Zenon DEF boxes
  <2>8. Mail!Cardinality(Mail!Waiting) = Cardinality(Mail!Waiting)
    BY Zenon DEF Mail!Cardinality, Cardinality
  <2>9. Mail!Send(r)
    BY <2>3, <2>5, <2>7, <2>8, Zenon DEF Mail!Send
  <2> QED
    BY <2>9 DEF Mail!Next
<1>4. CASE SYS_MSG_RECEIVE(p)
  <2>1. SUFFICES ASSUME ~UNCHANGED message_queue PROVE Mail!Take(p)
    BY <1>1, <1>2 DEF Mail!Next
  <2>2. PICK i \in 1 .. Len(message_queue) : FirstMail(p, i) /\ message_queue' = RemoveAt(message_queue, i)
    BY <1>4, <2>1 DEF SYS_MSG_RECEIVE, ReceiveMessage, BlockForMessage
  <2>3. /\ message_queue[i].recipient = p
        /\ \A j \in 1 .. i - 1 : message_queue[j].recipient # message_queue[i].recipient
    BY <2>2 DEF FirstMail
  <2>4. ASSUME NEW s \in Recipients
        PROVE  /\ s = p => boxes[s] # <<>>
               /\ boxes'[s] = IF s = p THEN Tail(boxes[s]) ELSE boxes[s]
    <3>1. /\ message_queue[i].recipient = s => MailFor(message_queue, s) # <<>>
          /\ MailFor(message_queue', s) =
               IF message_queue[i].recipient = s THEN Tail(MailFor(message_queue, s)) ELSE MailFor(message_queue, s)
      BY <1>1, <2>2, <2>3, MailForRemove
    <3>2. boxes'[s] = MailFor(message_queue', s) /\ boxes[s] = MailFor(message_queue, s)
      BY Zenon DEF boxes
    <3> QED
      BY <2>3, <3>1, <3>2, Zenon
  <2>5. boxes' = [boxes EXCEPT ![p] = Tail(boxes[p])]
    BY <2>4, Zenon DEF boxes
  <2> QED
    BY <1>1, <2>4, <2>5 DEF Mail!Take
<1> QED
  BY <1>2, <1>3, <1>4 DEF Next, RunSlice, nvm_execute_instruction, nvm_scheduler_tick, shell_run_program,
     handle_ordinary, handle_halt, SYS_EXIT, SYS_SPAWN, SpawnWraps, EndSlice, Undefined, vars

\* The message syscalls, on one queue that is searched and compacted, implement a
\* mailbox for each pid: no message is lost, duplicated or reordered for its recipient,
\* whatever programs and the shell do.
THEOREM MessagesImplementMailbox == Spec => ImplementsMailbox
<1>1. Init => Mail!Init
  <2> SUFFICES ASSUME Init PROVE Mail!Init
    OBVIOUS
  <2>1. ASSUME NEW r \in Recipients PROVE boxes[r] = <<>>
    <3>1. MailCount(message_queue, r, Len(message_queue)) = 0
      <4>1. Len(message_queue) = 0
        BY DEF Init
      <4>2. {j \in 1 .. Len(message_queue) : message_queue[j].recipient = r} = {}
        BY <4>1
      <4> QED
        BY <4>2, FS_EmptySet, Zenon DEF MailCount
    <3>2. MailFor(message_queue, r) = <<>>
      BY <3>1 DEF MailFor
    <3> QED
      BY <3>2, Zenon DEF boxes
  <2> QED
    BY <2>1 DEF Mail!Init, boxes
<1> QED
  BY <1>1, NextMail, TypeCorrect, PTL DEF Spec, ImplementsMailbox, Mail!Spec
=============================================================================
