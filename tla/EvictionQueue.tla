--------------------------- MODULE EvictionQueue ---------------------------
(***************************************************************************)
(* What the replacement policy promises, without the ring: the stored      *)
(* files form a queue, oldest first, and files leave from its front.       *)
(* Under FIFO a file is as old as its creation, under LRU as its last use. *)
(***************************************************************************)
EXTENDS Integers, Sequences, Functions

CONSTANTS Files, CachePolicies, MaxFileCount

VARIABLES
    order,     \* the stored files, the next one to leave first
    policy     \* fixed by the configuration

\* SelectSeq(s, LAMBDA f : f \notin F), which the provers have no definition of.
Without(s, F) ==
    LET kept[i \in 0 .. Len(s)] ==
            IF i = 0 THEN << >>
            ELSE IF s[i] \in F THEN kept[i - 1] ELSE Append(kept[i - 1], s[i])
    IN  kept[Len(s)]

MoveToEnd(s, f) == Append(Without(s, {f}), f)

Touched(s, f) == IF policy = "FIFO" THEN s ELSE MoveToEnd(s, f)

Init == order = << >> /\ policy \in CachePolicies

\* A new file enters last; a full store gives up its oldest file, no other.
Create(f) ==
    /\ f \notin Range(order)
    /\ order' = Append(IF Len(order) = MaxFileCount THEN Tail(order) ELSE order, f)

Use(f) ==
    /\ f \in Range(order)
    /\ order' = Touched(order, f)

\* Making room for f costs the k oldest files, but never f itself.
Edit(f) ==
    /\ f \in Range(order)
    /\ \E k \in 0 .. Len(order) :
        order' = Touched(Without(order, Range(SubSeq(order, 1, k)) \ {f}), f)

Remove(f) ==
    /\ f \in Range(order)
    /\ order' = Without(order, {f})

\* Reading several files uses some of them in some order.
UseMany ==
    /\ policy # "FIFO"
    /\ Range(order') = Range(order)
    /\ \E k \in 0 .. Len(order) :
        LET used == SubSeq(order', k + 1, Len(order'))
        IN  order' = Without(order, Range(used)) \o used

Next ==
    /\ UNCHANGED policy
    /\ (\E f \in Files : Create(f) \/ Use(f) \/ Edit(f) \/ Remove(f)) \/ UseMany

Spec == Init /\ [][Next]_<<order, policy>>
=============================================================================
