------------------------------ MODULE NvmSched ------------------------------
(***************************************************************************)
(* The NVM scheduler and message passing of core/kernel/nvm: the process   *)
(* table as the scheduler sees it, the round-robin tick, the time slice,   *)
(* process creation and termination, and SYS_MSG_SEND / SYS_MSG_RECEIVE.   *)
(*                                                                         *)
(* The whole VM runs on the boot processor: nvm_scheduler_tick is called   *)
(* from the polling loops of the shell and of the keyboard driver, so a    *)
(* slice is never interrupted by the shell.  What interleaves is the       *)
(* instructions of different processes and the shell's commands.           *)
(*                                                                         *)
(* Programs are arbitrary: which instruction a process executes next, the  *)
(* operands it finds on its stack and where its ip goes are                *)
(* nondeterministic.  A process is reduced to what the scheduler and the   *)
(* message syscalls read: active, blocked, whether ip has reached the code *)
(* size, and the stack depth.  What creation and termination do to heaps,  *)
(* bytecode buffers, capabilities and procfs is modelled in NvmProc, the   *)
(* effect of each instruction on the stack in NvmInstr.                    *)
(***************************************************************************)
EXTENDS Naturals, Sequences, SequencesExt

CONSTANTS MAX_PROCESSES,  \* slots of the process table
          STACK_SIZE,     \* cells of a process stack
          MAX_MESSAGES,   \* capacity of the system-wide message queue
          TIME_SLICE_MS,  \* every TIME_SLICE_MS-th tick schedules a process
          SLICE_LEN,      \* instructions a process may run per slice (5000)
          Bytes           \* message contents

ASSUME NvmSchedAssumption ==
    /\ MAX_PROCESSES \in Nat \ {0}
    /\ STACK_SIZE \in Nat \ {0}
    /\ MAX_MESSAGES \in Nat \ {0}
    /\ TIME_SLICE_MS \in Nat \ {0}
    /\ SLICE_LEN \in Nat \ {0}

VARIABLES active,           \* processes[i].active
          blocked,          \* processes[i].blocked
          done,             \* processes[i].ip >= processes[i].size
          sp,               \* processes[i].sp
          message_queue,    \* message_queue[0 .. message_count-1]
          current_process,
          left,             \* iterations left of the slice loop; 0: no slice
          timer_ticks,      \* modulo TIME_SLICE_MS
          wrapped           \* history: the sp of a process has wrapped around

procVars == <<active, blocked, done, sp>>
vars == <<active, blocked, done, sp, message_queue, current_process, left,
          timer_ticks, wrapped>>

Pids == 0 .. MAX_PROCESSES - 1

\* A recipient is any 16-bit number; MAX_PROCESSES stands for all of those
\* that are the pid of no slot.
Recipients == 0 .. MAX_PROCESSES

Message == [recipient : Recipients, sender : Pids, content : Bytes]

Runnable(p) == active[p] /\ ~blocked[p]

HasMail(p) == \E i \in 1 .. Len(message_queue) :
                message_queue[i].recipient = p

Init ==
    /\ active = [p \in Pids |-> FALSE]
    /\ blocked = [p \in Pids |-> FALSE]
    /\ done = [p \in Pids |-> FALSE]
    /\ sp = [p \in Pids |-> 0]
    /\ message_queue = <<>>
    /\ current_process = 0
    /\ left = 0
    /\ timer_ticks = 0
    /\ wrapped = FALSE

-----------------------------------------------------------------------------
(* nvm_scheduler_tick up to the choice of the process to run.              *)

\* The k-th slot after the current one in round-robin order; the current one
\* itself comes last (k = MAX_PROCESSES).
Slot(k) == (current_process + k) % MAX_PROCESSES

\* Mutant of SwitchTo: the scan always starts at slot 0.
SwitchTo_FromZero(k) ==
    /\ Runnable(k - 1)
    /\ \A j \in 0 .. k - 2 : ~Runnable(j)
    /\ current_process' = k - 1
    /\ left' = SLICE_LEN

\* The do-while loop stops at the first runnable slot after the current one.
SwitchTo(k) ==
    /\ Runnable(Slot(k))
    /\ \A j \in 1 .. k - 1 : ~Runnable(Slot(j))
    /\ current_process' = Slot(k)
    /\ left' = SLICE_LEN

\* No slot is runnable: current_process is put back.
NothingToRun ==
    /\ \A k \in 1 .. MAX_PROCESSES : ~Runnable(Slot(k))
    /\ UNCHANGED <<current_process, left>>

nvm_scheduler_tick ==
    /\ left = 0
    /\ timer_ticks' = (timer_ticks + 1) % TIME_SLICE_MS
    /\ \/ timer_ticks' # 0 /\ UNCHANGED <<current_process, left>>
       \/ timer_ticks' = 0 /\ \E k \in 1 .. MAX_PROCESSES : SwitchTo(k)
       \/ timer_ticks' = 0 /\ NothingToRun
    /\ UNCHANGED <<procVars, message_queue, wrapped>>

-----------------------------------------------------------------------------
(* nvm_create_process: the first inactive slot, found by a scan from 0.    *)

\* Mutant of FirstFree: a slot that is not runnable is taken for a free one.
FirstFree_NotRunnable(i) == ~Runnable(i) /\ \A j \in 0 .. i - 1 : Runnable(j)

FirstFree(i) == ~active[i] /\ \A j \in 0 .. i - 1 : active[j]

\* The fields creation sets in slot i; depth is the stack depths with the
\* operands of the creator popped.  The slot is active from here on even
\* when the heap allocation that follows fails.
CreateIn(i, depth) ==
    /\ FirstFree(i)
    /\ active' = [active EXCEPT ![i] = TRUE]
    /\ blocked' = [blocked EXCEPT ![i] = FALSE]
    /\ sp' = [depth EXCEPT ![i] = 0]

\* A program started from the shell (execute_command), between two ticks.
shell_run_program ==
    /\ left = 0
    /\ \E i \in Pids, e \in BOOLEAN :
         CreateIn(i, sp) /\ done' = [done EXCEPT ![i] = e]
    /\ UNCHANGED <<message_queue, current_process, left, timer_ticks, wrapped>>

-----------------------------------------------------------------------------
(* The slice loop.  Each iteration re-reads ip, active and blocked of the  *)
(* current process and either executes one instruction or ends the slice.  *)

CanExecute(p) == left > 0 /\ ~done[p] /\ Runnable(p) /\ ~wrapped

\* The else branch: a process that ran off its code is terminated, even one
\* that blocked with its last instruction.
EndSlice(p) ==
    /\ left > 0 /\ ~wrapped
    /\ done[p] \/ ~Runnable(p)
    /\ active' = [active EXCEPT ![p] = @ /\ ~done[p]]
    /\ left' = 0
    /\ UNCHANGED <<blocked, done, sp, message_queue, current_process,
                   timer_ticks, wrapped>>

\* What every executed instruction shares: ip has moved, possibly to the end
\* of the code.
Advance(p) ==
    /\ CanExecute(p)
    /\ \E e \in BOOLEAN : done' = [done EXCEPT ![p] = e]
    /\ UNCHANGED <<current_process, timer_ticks, wrapped>>

\* An instruction or syscall that only moves data: any handler returning
\* true but the ones below.  It may leave any stack depth behind.
handle_ordinary(p) ==
    /\ Advance(p)
    /\ \E n \in 0 .. STACK_SIZE : sp' = [sp EXCEPT ![p] = n]
    /\ left' = left - 1
    /\ UNCHANGED <<active, blocked, message_queue>>

\* HALT, and every error path of an instruction: the process is deactivated
\* and the handler returns false, which ends the slice.
handle_halt(p) ==
    /\ Advance(p)
    /\ active' = [active EXCEPT ![p] = FALSE]
    /\ \E n \in 0 .. STACK_SIZE : sp' = [sp EXCEPT ![p] = n]
    /\ left' = 0
    /\ UNCHANGED <<blocked, message_queue>>

\* SYS_EXIT; also SYS_PRINT (with an operand) and an unknown syscall number,
\* which terminate the process but return true from handle_syscall.
SYS_EXIT(p) ==
    /\ Advance(p)
    /\ active' = [active EXCEPT ![p] = FALSE]
    /\ \E n \in {sp[p], sp[p] - 1} \cap Nat : sp' = [sp EXCEPT ![p] = n]
    /\ left' = left - 1
    /\ UNCHANGED <<blocked, message_queue>>

\* SYS_SPAWN that gets as far as nvm_create_process: the operands are popped
\* and the child takes the first free slot.  (Without a free slot only the
\* operands are popped, an ordinary step.)
SYS_SPAWN(p) ==
    /\ CanExecute(p)
    /\ sp[p] >= 2
    /\ \E i \in Pids, n \in 0 .. sp[p] - 2, e, f \in BOOLEAN :
         /\ CreateIn(i, [sp EXCEPT ![p] = n])
         /\ done' = [done EXCEPT ![p] = e, ![i] = f]
    /\ left' = left - 1
    /\ UNCHANGED <<message_queue, current_process, timer_ticks, wrapped>>

\* SYS_SPAWN with a single operand, in a program so short that its length passes
\* for an argc (NvmInstr): sp wraps around and the process goes on with memory that
\* is not its own.  Nothing is said of the machine from there on.
SpawnWraps(p) ==
    /\ CanExecute(p)
    /\ sp[p] = 1
    /\ wrapped' = TRUE
    /\ UNCHANGED <<procVars, message_queue, current_process, left, timer_ticks>>

-----------------------------------------------------------------------------
(* Messages.                                                               *)

\* Mutants of Wake: nobody, or everybody, is woken.
Wake_Nobody(r) == UNCHANGED blocked
Wake_Everybody(r) == blocked' = [q \in Pids |-> FALSE]

\* The loop over the table that wakes recipient r if it is active and blocked.
Wake(r) == blocked' = [q \in Pids |-> blocked[q] /\ ~(q = r /\ active[q])]

\* SYS_MSG_SEND: append, then wake the recipient if it is active and blocked.
\* With fewer than two operands or a full queue nothing changes, an ordinary
\* step that leaves the operands on the stack.
SYS_MSG_SEND(p) ==
    /\ Advance(p)
    /\ sp[p] >= 2
    /\ Len(message_queue) < MAX_MESSAGES
    /\ \E r \in Recipients, c \in Bytes :
         /\ message_queue' = Append(message_queue,
              [recipient |-> r, sender |-> p, content |-> c])
         /\ Wake(r)
    /\ sp' = [sp EXCEPT ![p] = @ - 2]
    /\ left' = left - 1
    /\ UNCHANGED active

\* Mutant of FirstMail: the scan goes on to the newest message for p.
FirstMail_Newest(p, i) ==
    /\ message_queue[i].recipient = p
    /\ \A j \in i + 1 .. Len(message_queue) : message_queue[j].recipient # p

\* The index of the oldest message for p.
FirstMail(p, i) ==
    /\ message_queue[i].recipient = p
    /\ \A j \in 1 .. i - 1 : message_queue[j].recipient # p

\* Mutant of HasRoom: room for one cell is enough.
HasRoom_One(p) == sp[p] < STACK_SIZE

HasRoom(p) == sp[p] + 1 < STACK_SIZE

\* SYS_MSG_RECEIVE with a message: it is taken out of the queue and two cells
\* are pushed; without room for them it stays where it is.
ReceiveMessage(p) ==
    /\ \E i \in 1 .. Len(message_queue) :
         /\ FirstMail(p, i)
         /\ IF HasRoom(p)
            THEN /\ message_queue' = RemoveAt(message_queue, i)
                 /\ sp' = [sp EXCEPT ![p] = @ + 2]
            ELSE UNCHANGED <<message_queue, sp>>
    /\ UNCHANGED blocked

\* SYS_MSG_RECEIVE without one: the process blocks.  ip is already past the
\* syscall, so once woken the process goes on with the next instruction.
BlockForMessage(p) ==
    /\ ~HasMail(p)
    /\ blocked' = [blocked EXCEPT ![p] = TRUE]
    /\ UNCHANGED <<message_queue, sp>>

SYS_MSG_RECEIVE(p) ==
    /\ Advance(p)
    /\ ReceiveMessage(p) \/ BlockForMessage(p)
    /\ left' = left - 1
    /\ UNCHANGED active

-----------------------------------------------------------------------------
nvm_execute_instruction(p) ==
    \/ handle_ordinary(p)
    \/ handle_halt(p)
    \/ SYS_EXIT(p)
    \/ SYS_SPAWN(p)
    \/ SpawnWraps(p)
    \/ SYS_MSG_SEND(p)
    \/ SYS_MSG_RECEIVE(p)

RunSlice == nvm_execute_instruction(current_process) \/ EndSlice(current_process)

Undefined == wrapped /\ UNCHANGED vars

Next == nvm_scheduler_tick \/ shell_run_program \/ RunSlice \/ Undefined

\* kmain never stops calling nvm_scheduler_tick (through shell_run and
\* keyboard_getchar), and a slice, once begun, runs to its end.
Fairness == WF_vars(nvm_scheduler_tick) /\ WF_vars(RunSlice)

Spec == Init /\ [][Next]_vars /\ Fairness

-----------------------------------------------------------------------------
(* Properties.                                                             *)

\* Type invariant: the stack depth stays on the stack (until the step SpawnWraps,
\* if there is one), the queue within its capacity, the slice within its budget.
TypeOK ==
    /\ active \in [Pids -> BOOLEAN]
    /\ blocked \in [Pids -> BOOLEAN]
    /\ done \in [Pids -> BOOLEAN]
    /\ sp \in [Pids -> 0 .. STACK_SIZE]
    /\ message_queue \in Seq(Message)
    /\ Len(message_queue) <= MAX_MESSAGES
    /\ current_process \in Pids
    /\ left \in 0 .. SLICE_LEN
    /\ timer_ticks \in 0 .. TIME_SLICE_MS - 1
    /\ wrapped \in BOOLEAN

\* No lost wakeup: a live process that is blocked in SYS_MSG_RECEIVE has no
\* message in the queue.  SYS_MSG_RECEIVE blocks only after a scan that found
\* nothing, SYS_MSG_SEND wakes after it appends, and a slot that is reused
\* while messages for its pid are still queued starts unblocked.
NoLostWakeup ==
    \A p \in Pids : active[p] /\ blocked[p] => ~HasMail(p)

WakeupStep ==
    \A p \in Pids : blocked[p] /\ ~blocked'[p] => ~active[p] \/ HasMail(p)'

\* A process is woken only by a message that is in the queue for it when it
\* wakes (SYS_MSG_SEND), or because nvm_create_process gave its slot to a new
\* process.
WakeupHasCause == [][WakeupStep]_vars

IsolatedStep ==
    \A p \in Pids : active[p] /\ ~(left > 0 /\ p = current_process) =>
        /\ active'[p]
        /\ done'[p] = done[p]
        /\ sp'[p] = sp[p]
        /\ blocked'[p] => blocked[p]

\* Isolation: whatever the current process executes, and whatever the shell
\* starts, another live process keeps its ip, its stack depth and its life;
\* the only thing that can happen to it is to be unblocked.
Isolation == [][IsolatedStep]_vars

\* Round robin starves nobody: a runnable process gets a slice, and one whose
\* ip has run off its code is terminated by it, unless it blocked, as long as the sp
\* of no process has wrapped around (SYS_SPAWN).
RunnableRuns ==
    \A p \in Pids :
        /\ Runnable(p) ~> (left > 0 /\ current_process = p) \/ wrapped
        /\ active[p] /\ done[p] /\ ~blocked[p] ~> ~active[p] \/ wrapped

\* A message is attended to: a process with mail runs again (or its program
\* was ended), whether it was blocked, runnable or running when it came, as long as
\* the sp of no process has wrapped around.
MailAttended ==
    \A p \in Pids :
        active[p] /\ HasMail(p) ~> (left > 0 /\ current_process = p) \/ wrapped

\* How many of the first n messages of a queue are for r.
MailCount(q, r, n) == Cardinality({j \in 1 .. n : q[j].recipient = r})

\* The messages for r in a queue, in their order: the k-th is the one with
\* which their number reaches k.
MailFor(q, r) ==
    [k \in 1 .. MailCount(q, r, Len(q)) |->
       q[CHOOSE i \in 1 .. Len(q) : q[i].recipient = r /\ MailCount(q, r, i) = k]]

\* The one queue, searched by recipient, is one FIFO mailbox per pid.
boxes == [r \in Recipients |-> MailFor(message_queue, r)]

Mail == INSTANCE Mailbox WITH box <- boxes, Addresses <- Recipients,
                              Owners <- Pids, Capacity <- MAX_MESSAGES

\* The message syscalls implement Mailbox: no message is lost, duplicated or
\* reordered for its recipient, taking one leaves the mail of the others as it is,
\* and the capacity is shared by the whole system.
ImplementsMailbox == Mail!Spec
=============================================================================
