------------------------------- MODULE NvmRecv -------------------------------
(***************************************************************************)
(* NvmSched with a history variable: waiting[p] holds from the moment a    *)
(* SYS_MSG_RECEIVE of p blocks until a SYS_MSG_RECEIVE of p takes a        *)
(* message, or the slot is given to a new process.                         *)
(***************************************************************************)
EXTENDS NvmSched

VARIABLE waiting

varsW == <<vars, waiting>>

InitW == Init /\ waiting = [p \in Pids |-> FALSE]

\* p is the process that took a message in this step.
Takes(p) ==
    /\ left > 0
    /\ p = current_process
    /\ Len(message_queue') < Len(message_queue)

NextW ==
    /\ Next
    /\ waiting' = [p \in Pids |->
         \/ blocked'[p] /\ active'[p]
         \/ waiting[p] /\ active[p] /\ ~Takes(p)]

SpecW == InitW /\ [][NextW]_varsW

\* docs/3.6-IPC-syscalls.md describes SYS_MSG_RECEIVE as one operation: the
\* process is blocked until a message arrives, and the message found is
\* pushed.  So the first thing a process does when it runs again after having
\* blocked is to have that message.
ReceiveReturnsMessage ==
    [][\A p \in Pids :
         waiting[p] /\ p = current_process /\ CanExecute(p) => Takes(p)]_varsW
=============================================================================
