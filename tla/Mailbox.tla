------------------------------- MODULE Mailbox -------------------------------
(***************************************************************************)
(* What the message syscalls promise (docs/3.6-IPC-syscalls.md): messages  *)
(* are addressed by pid, the system holds at most Capacity of them, and    *)
(* those addressed to a pid are taken in the order they were sent, each    *)
(* once.  No message is lost or duplicated.                                *)
(***************************************************************************)
EXTENDS Naturals, Sequences, FiniteSets

CONSTANTS Addresses,   \* the numbers a message may be addressed to
          Owners,      \* the addresses that are pids, whose mail can be taken
          Message,     \* the messages
          Capacity

VARIABLE box           \* box[a]: the messages waiting for a, oldest first

\* The messages that wait anywhere, as address and place in its box.
Waiting == UNION {{a} \X DOMAIN box[a] : a \in Addresses}

Init == box = [a \in Addresses |-> <<>>]

Send(a) ==
    /\ Cardinality(Waiting) < Capacity
    /\ \E m \in Message : box' = [box EXCEPT ![a] = Append(@, m)]

Take(a) ==
    /\ box[a] # <<>>
    /\ box' = [box EXCEPT ![a] = Tail(@)]

Next == (\E a \in Addresses : Send(a)) \/ (\E a \in Owners : Take(a))

Spec == Init /\ [][Next]_box
=============================================================================
