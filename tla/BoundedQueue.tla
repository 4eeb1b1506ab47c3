---------------------------- MODULE BoundedQueue ----------------------------
(***************************************************************************)
(* The blocking queues between the threads of the server: requestQueue     *)
(* carries readable descriptors from the select thread to the workers      *)
(* (intqueue.c), clientsToNotify the requests whose wait is over from      *)
(* whoever holds tableLock to the notifier (requestqueue.c).  The two      *)
(* files are the same code for two types of items.                         *)
(*                                                                         *)
(* A thread holds the queue's mutex from its call to its return, except    *)
(* while it sleeps on a condition variable, so a call is one step up to    *)
(* the return or to the sleep.  A thread that is woken competes for the    *)
(* mutex with those that call, and looks at its condition again.           *)
(***************************************************************************)
EXTENDS Integers, Sequences, FiniteSets

CONSTANTS
    Producers,   \* the threads that insert
    Consumers,   \* the threads that remove
    Items,
    NoItem,      \* what a consumer gets from a closed queue: -1, or NULL
    Size         \* INT_QUEUE_SIZE, REQUEST_QUEUE_SIZE

ASSUME ThreadsAssumption ==
    IsFiniteSet(Producers) /\ IsFiniteSet(Consumers) /\ Producers \cap Consumers = {}
ASSUME NoItemAssumption == NoItem \notin Items
ASSUME SizeAssumption == Size \in Nat \ {0}

VARIABLES
    items,    \* the array; a slot never written holds NoItem
    head,     \* the slot of the first item
    tail,     \* one after the last one, counted on past the end of the array
    closed,
    pc,       \* where each thread is
    arg,      \* the item each producer is inserting
    got       \* what each consumer's last call returned

vars == <<items, head, tail, closed, pc, arg, got>>

Threads == Producers \cup Consumers

(***************************************************************************)
(* "inserting" and "removing": wants the mutex, to make a call or to go on *)
(* after a sleep; "awaits_room": sleeps on itemRemoved; "awaits_item":     *)
(* sleeps on itemAdded.                                                    *)
(***************************************************************************)
At(place) == {t \in Threads : pc[t] = place}

Count == tail - head
IsFull == Count = Size
IsEmpty == head = tail

Init ==
    /\ items = [s \in 0 .. Size - 1 |-> NoItem]
    /\ head = 0 /\ tail = 0
    /\ closed = FALSE
    /\ pc = [t \in Threads |-> "idle"]
    /\ arg = [p \in Producers |-> NoItem]
    /\ got = [c \in Consumers |-> NoItem]

\* pthread_cond_signal wakes one of those that sleep at a place, if there is one.
Signal(asleep, awake, after) ==
    \/ At(asleep) = {} /\ pc' = after
    \/ \E t \in At(asleep) : pc' = [after EXCEPT ![t] = awake]

CallInsert(p, i) ==
    /\ pc[p] = "idle"
    /\ pc' = [pc EXCEPT ![p] = "inserting"]
    /\ arg' = [arg EXCEPT ![p] = i]
    /\ UNCHANGED <<items, head, tail, closed, got>>

Insert(p) ==
    /\ pc[p] = "inserting"
    /\ ~IsFull
    /\ items' = [items EXCEPT ![tail % Size] = arg[p]]
    /\ tail' = tail + 1
    /\ Signal("awaits_item", "removing", [pc EXCEPT ![p] = "idle"])
    /\ UNCHANGED <<head, closed, arg, got>>

AwaitRoom(p) ==
    /\ pc[p] = "inserting"
    /\ IsFull
    /\ pc' = [pc EXCEPT ![p] = "awaits_room"]
    /\ UNCHANGED <<items, head, tail, closed, arg, got>>

CallRemove(c) ==
    /\ pc[c] = "idle"
    /\ pc' = [pc EXCEPT ![c] = "removing"]
    /\ UNCHANGED <<items, head, tail, closed, arg, got>>

\* Mutant: nobody is told that there is room.
Remove_Unsignalled(c) ==
    /\ pc[c] = "removing"
    /\ ~closed /\ ~IsEmpty
    /\ got' = [got EXCEPT ![c] = items[head % Size]]
    /\ head' = (head + 1) % Size
    /\ tail' = IF head + 1 = Size THEN tail - Size ELSE tail
    /\ pc' = [pc EXCEPT ![c] = "idle"]
    /\ UNCHANGED <<items, closed, arg>>

\* Mutant: the tail is not moved back with the head.
Remove_HeadMovedBack(c) ==
    /\ pc[c] = "removing"
    /\ ~closed /\ ~IsEmpty
    /\ got' = [got EXCEPT ![c] = items[head % Size]]
    /\ head' = (head + 1) % Size
    /\ UNCHANGED tail
    /\ Signal("awaits_room", "inserting", [pc EXCEPT ![c] = "idle"])
    /\ UNCHANGED <<items, closed, arg>>

\* Mutant: the head is moved on before the item is read.
Remove_Next(c) ==
    /\ pc[c] = "removing"
    /\ ~closed /\ ~IsEmpty
    /\ got' = [got EXCEPT ![c] = items[(head + 1) % Size]]
    /\ head' = (head + 1) % Size
    /\ tail' = IF head + 1 = Size THEN tail - Size ELSE tail
    /\ Signal("awaits_room", "inserting", [pc EXCEPT ![c] = "idle"])
    /\ UNCHANGED <<items, closed, arg>>

\* The counters are moved back when the head reaches the end of the array.
Remove(c) ==
    /\ pc[c] = "removing"
    /\ ~closed /\ ~IsEmpty
    /\ got' = [got EXCEPT ![c] = items[head % Size]]
    /\ head' = IF head + 1 >= Size THEN head + 1 - Size ELSE head + 1
    /\ tail' = IF head + 1 >= Size THEN tail - Size ELSE tail
    /\ Signal("awaits_room", "inserting", [pc EXCEPT ![c] = "idle"])
    /\ UNCHANGED <<items, closed, arg>>

AwaitItem(c) ==
    /\ pc[c] = "removing"
    /\ ~closed /\ IsEmpty
    /\ pc' = [pc EXCEPT ![c] = "awaits_item"]
    /\ UNCHANGED <<items, head, tail, closed, arg, got>>

\* A closed queue gives nothing, whatever it holds.
RemoveFromClosed(c) ==
    /\ pc[c] = "removing"
    /\ closed
    /\ got' = [got EXCEPT ![c] = NoItem]
    /\ pc' = [pc EXCEPT ![c] = "idle"]
    /\ UNCHANGED <<items, head, tail, closed, arg>>

\* POSIX lets a sleeping thread wake up for no reason.
WakeSpuriously(t) ==
    /\ \/ pc[t] = "awaits_room" /\ pc' = [pc EXCEPT ![t] = "inserting"]
       \/ pc[t] = "awaits_item" /\ pc' = [pc EXCEPT ![t] = "removing"]
    /\ UNCHANGED <<items, head, tail, closed, arg, got>>

\* Mutant: one of the sleeping consumers is woken, not all.
Close_SignalsOne ==
    /\ ~closed
    /\ closed' = TRUE
    /\ Signal("awaits_item", "removing", pc)
    /\ UNCHANGED <<items, head, tail, arg, got>>

\* Those that wait for an item are woken; those that wait for room are not.
Close ==
    /\ ~closed
    /\ closed' = TRUE
    /\ pc' = [t \in Threads |-> IF pc[t] = "awaits_item" THEN "removing" ELSE pc[t]]
    /\ UNCHANGED <<items, head, tail, arg, got>>

Next ==
    \/ \E p \in Producers :
        (\E i \in Items : CallInsert(p, i)) \/ Insert(p) \/ AwaitRoom(p)
    \/ \E c \in Consumers :
        CallRemove(c) \/ Remove(c) \/ AwaitItem(c) \/ RemoveFromClosed(c)
    \/ \E t \in Threads : WakeSpuriously(t)
    \/ Close

Spec == Init /\ [][Next]_vars

(***************************************************************************)
(* A thread that wants the mutex gets it in the end, and the workers and   *)
(* the notifier come back for the next item (worker.c:226-286, 305-335).   *)
(* Nothing is assumed of wake-ups for no reason or of calls to insert.     *)
(***************************************************************************)
Fairness ==
    /\ \A p \in Producers : WF_vars(Insert(p)) /\ WF_vars(AwaitRoom(p))
    /\ \A c \in Consumers :
        WF_vars(CallRemove(c)) /\ WF_vars(Remove(c)) /\ WF_vars(RemoveFromClosed(c))

FairSpec == Spec /\ Fairness

----------------------------------------------------------------------------
TypeOK ==
    /\ items \in [0 .. Size - 1 -> Items \cup {NoItem}]
    /\ head \in 0 .. Size - 1
    /\ tail \in head .. head + Size
    /\ closed \in BOOLEAN
    /\ pc \in [Threads -> {"idle", "inserting", "awaits_room", "removing", "awaits_item"}]
    /\ \A p \in Producers : pc[p] \in {"idle", "inserting", "awaits_room"}
    /\ \A c \in Consumers : pc[c] \in {"idle", "removing", "awaits_item"}
    /\ arg \in [Producers -> Items \cup {NoItem}]
    /\ \A p \in Producers : pc[p] # "idle" => arg[p] \in Items
    /\ got \in [Consumers -> Items \cup {NoItem}]

(***************************************************************************)
(* No wake-up is lost, although a signal wakes one thread only and another *)
(* may take its place: while consumers sleep the queue is open and has no  *)
(* more items than there are consumers awake to take them, and while       *)
(* producers sleep there is no more room than there are producers awake to *)
(* fill it (intqueue.c:16-63, requestqueue.c:16-63).                       *)
(***************************************************************************)
WakeupsSuffice ==
    /\ At("awaits_item") # {} => ~closed /\ Count <= Cardinality(At("removing"))
    /\ At("awaits_room") # {} => Size - Count <= Cardinality(At("inserting"))

\* The items between head and tail, the next one to come out first.
Content == [k \in 1 .. Count |-> items[(head + k - 1) % Size]]

(***************************************************************************)
(* The array with its two counters, moved back at the end of the array,    *)
(* and the two condition variables implement the channel: nothing is lost, *)
(* duplicated or overtaken, and a producer never overwrites an item.       *)
(***************************************************************************)
Abstract == INSTANCE Channel WITH content <- Content, Capacity <- Size
ImplementsChannel == Abstract!Spec

(***************************************************************************)
(* A thread that sleeps because the queue is full goes on in the end,      *)
(* unless the queue is closed first: close does not wake it, and consumers *)
(* take nothing more, so it can sleep for ever (requestqueue.c:87-95).     *)
(***************************************************************************)
BlockedInsertReturns ==
    \A p \in Producers : pc[p] = "awaits_room" ~> pc[p] = "idle" \/ closed
=============================================================================
