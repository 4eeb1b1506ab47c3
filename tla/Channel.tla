------------------------------ MODULE Channel ------------------------------
(***************************************************************************)
(* What a queue between threads promises, without slots, counters or       *)
(* condition variables: items come out in the order they went in, each to  *)
(* one consumer, never more than Capacity of them wait, and once the queue *)
(* is closed consumers get nothing more.                                   *)
(***************************************************************************)
EXTENDS Integers, Sequences

CONSTANTS Consumers, Items, NoItem, Capacity

VARIABLES
    content,   \* the items that wait, the next one to come out first
    closed,
    got        \* what each consumer's last call returned

Init ==
    /\ content = << >>
    /\ closed = FALSE
    /\ got = [c \in Consumers |-> NoItem]

\* An item may still go in after the queue is closed.
Put(i) ==
    /\ Len(content) < Capacity
    /\ content' = Append(content, i)
    /\ UNCHANGED <<closed, got>>

Take(c) ==
    /\ ~closed
    /\ content # << >>
    /\ got' = [got EXCEPT ![c] = Head(content)]
    /\ content' = Tail(content)
    /\ UNCHANGED closed

Refuse(c) ==
    /\ closed
    /\ got' = [got EXCEPT ![c] = NoItem]
    /\ UNCHANGED <<content, closed>>

Close == closed' = TRUE /\ UNCHANGED <<content, got>>

Next ==
    \/ \E i \in Items : Put(i)
    \/ \E c \in Consumers : Take(c) \/ Refuse(c)
    \/ Close

Spec == Init /\ [][Next]_<<content, closed, got>>
=============================================================================
