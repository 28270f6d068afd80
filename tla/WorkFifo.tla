------------------------------ MODULE WorkFifo ------------------------------
(***************************************************************************)
(* What the work queues promise: each CPU has a bounded FIFO of work       *)
(* items.  Anybody may append an item to the FIFO of any CPU unless it is  *)
(* full; only its own CPU takes items out, oldest first, one at a time,    *)
(* and runs each once.                                                     *)
(***************************************************************************)
EXTENDS Naturals, Sequences, Functions

CONSTANTS CPUs, Items, NoItem, Capacity

VARIABLES queue,  \* the items waiting for a CPU, oldest first
          taken,  \* the item a CPU has taken and not yet run
          ran     \* the items a CPU has run, in order

vars == <<queue, taken, ran>>

Seen == UNION {Range(queue[c]) \cup Range(ran[c]) \cup {taken[c]} : c \in CPUs}

Init ==
    /\ queue = [c \in CPUs |-> <<>>]
    /\ taken = [c \in CPUs |-> NoItem]
    /\ ran = [c \in CPUs |-> <<>>]

Submit(c) ==
    /\ Len(queue[c]) < Capacity
    /\ \E i \in Items \ (Seen \cup {NoItem}) : queue' = [queue EXCEPT ![c] = Append(@, i)]
    /\ UNCHANGED <<taken, ran>>

Take(c) ==
    /\ taken[c] = NoItem /\ queue[c] # <<>>
    /\ taken' = [taken EXCEPT ![c] = Head(queue[c])]
    /\ queue' = [queue EXCEPT ![c] = Tail(@)]
    /\ UNCHANGED ran

Run(c) ==
    /\ taken[c] # NoItem
    /\ ran' = [ran EXCEPT ![c] = Append(@, taken[c])]
    /\ taken' = [taken EXCEPT ![c] = NoItem]
    /\ UNCHANGED queue

Next == \E c \in CPUs : Submit(c) \/ Take(c) \/ Run(c)

Spec == Init /\ [][Next]_vars
=============================================================================
