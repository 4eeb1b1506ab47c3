----------------------------- MODULE LockService -----------------------------
(***************************************************************************)
(* What the server promises about locks, without the store, the cache,     *)
(* sessions, workers and the notifier: a file is locked by one client at a *)
(* time, those who have to wait get the lock in the order in which they    *)
(* asked, nobody but its owner releases a lock, and whoever waits for a    *)
(* file that leaves the store is told so.  Filesystem implements this.     *)
(***************************************************************************)
EXTENDS Sequences

CONSTANTS Clients, Files, NoOwner

VARIABLES
    owner,
    queue,     \* the clients that wait for each file, next one first
    outcome    \* of a client's lock request: "none", "waiting", or what it is yet to be told

Init ==
    /\ owner = [f \in Files |-> NoOwner]
    /\ queue = [f \in Files |-> << >>]
    /\ outcome = [c \in Clients |-> "none"]

Acquire(c, f) ==
    /\ outcome[c] = "none" /\ owner[f] = NoOwner
    /\ owner' = [owner EXCEPT ![f] = c]
    /\ UNCHANGED <<queue, outcome>>

Enqueue(c, f) ==
    /\ outcome[c] = "none" /\ owner[f] \notin {NoOwner, c}
    /\ queue' = [queue EXCEPT ![f] = Append(@, c)]
    /\ outcome' = [outcome EXCEPT ![c] = "waiting"]
    /\ UNCHANGED owner

\* One file, or all of those of a client that leaves; each passes to the first that waits.
Release(c, F) ==
    LET passedOn == {f \in F : queue[f] # << >>}
    IN  /\ outcome[c] = "none" /\ \A f \in F : owner[f] = c
        /\ owner' = [f \in Files |-> IF f \in passedOn THEN Head(queue[f])
                                     ELSE IF f \in F THEN NoOwner ELSE owner[f]]
        /\ queue' = [f \in Files |-> IF f \in passedOn THEN Tail(queue[f]) ELSE queue[f]]
        /\ outcome' = [d \in Clients |-> IF \E f \in passedOn : Head(queue[f]) = d
                                         THEN "acquired" ELSE outcome[d]]

\* Files leave the store, and a client may lock the new one they make room for.
Vanish(F, newOwner) ==
    /\ owner' = [f \in Files |-> IF f \in F THEN NoOwner ELSE newOwner[f]]
    /\ queue' = [f \in Files |-> IF f \in F THEN << >> ELSE queue[f]]
    /\ outcome' = [c \in Clients |-> IF \E f \in F : \E i \in DOMAIN queue[f] : queue[f][i] = c
                                     THEN "gone" ELSE outcome[c]]

MakeRoom(F, c, f) ==
    /\ outcome[c] = "none" /\ f \notin F /\ owner[f] = NoOwner
    /\ Vanish(F, [owner EXCEPT ![f] = c])

Tell(c) ==
    /\ outcome[c] \in {"acquired", "gone"}
    /\ outcome' = [outcome EXCEPT ![c] = "none"]
    /\ UNCHANGED <<owner, queue>>

Next ==
    \/ \E c \in Clients, f \in Files : Acquire(c, f) \/ Enqueue(c, f)
    \/ \E c \in Clients, F \in SUBSET Files : Release(c, F)
    \/ \E F \in SUBSET Files : Vanish(F, owner) \/ \E c \in Clients, f \in Files : MakeRoom(F, c, f)
    \/ \E c \in Clients : Tell(c)

Spec == Init /\ [][Next]_<<owner, queue, outcome>>
=============================================================================
