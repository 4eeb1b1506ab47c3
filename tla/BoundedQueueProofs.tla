------------------------- MODULE BoundedQueueProofs -------------------------
(***************************************************************************)
(* The blocking queue, for any numbers of producers and consumers and any  *)
(* size of the array: no wake-up is lost, and the array implements the     *)
(* channel.                                                                *)
(***************************************************************************)
EXTENDS BoundedQueue, FiniteSetTheorems, SequenceTheorems, TLAPS

\* The inductive invariant: the types and the count of the threads that are awake.
QueueInv == TypeOK /\ WakeupsSuffice

----------------------------------------------------------------------------
(* Counting threads.                                                       *)

\* There are finitely many threads at each place.
LEMMA PlacesAreFinite ==
    \A place : /\ IsFiniteSet(At(place)) /\ Cardinality(At(place)) \in Nat
               /\ IsFiniteSet(At(place)') /\ Cardinality(At(place))' \in Nat
<1>1. IsFiniteSet(Threads)
  BY ThreadsAssumption, FS_Union DEF Threads
<1>. QED BY <1>1, FS_Subset, FS_CardinalityType DEF At

\* A thread that comes to a place, one that leaves it, and one that passes it by.
LEMMA Arrives ==
    ASSUME NEW place, NEW t, t \notin At(place), At(place)' = At(place) \cup {t}
    PROVE  Cardinality(At(place))' = Cardinality(At(place)) + 1
BY PlacesAreFinite, FS_AddElement

\* A thread that leaves a place makes it one smaller.
LEMMA Leaves ==
    ASSUME NEW place, NEW t, t \in At(place), At(place)' = At(place) \ {t}
    PROVE  Cardinality(At(place))' = Cardinality(At(place)) - 1
BY PlacesAreFinite, FS_RemoveElement

\* What a move of one thread does to the places.
LEMMA OneMoves ==
    ASSUME TypeOK, NEW t \in Threads, NEW to, pc' = [pc EXCEPT ![t] = to]
    PROVE  /\ At(to)' = At(to) \cup {t}
           /\ \A place : place # to => At(place)' = At(place) \ {t}
BY DEF At, TypeOK

\* A thread whose call is done signals those that sleep at a place.
Signals(t, asleep, awake) == Signal(asleep, awake, [pc EXCEPT ![t] = "idle"])

\* What a signal does to the places: the caller is idle, and at most one other thread goes on.
LEMMA SignalMoves ==
    ASSUME TypeOK, NEW t \in Threads, NEW asleep, NEW awake,
           pc[t] # asleep, asleep # awake, asleep # "idle", awake # "idle",
           Signals(t, asleep, awake)
    PROVE  /\ \A place : place \notin {"idle", asleep, awake} => At(place)' = At(place) \ {t}
           /\ \/ /\ At(asleep) = {} /\ At(asleep)' = {}
                 /\ At(awake)' = At(awake) \ {t}
              \/ \E u \in At(asleep) : /\ u # t /\ At(asleep)' = At(asleep) \ {u}
                                       /\ At(awake)' = (At(awake) \ {t}) \cup {u}
<1>1. CASE At(asleep) = {} /\ pc' = [pc EXCEPT ![t] = "idle"]
  BY <1>1 DEF At, TypeOK
<1>2. ASSUME NEW u \in At(asleep), pc' = [[pc EXCEPT ![t] = "idle"] EXCEPT ![u] = awake]
      PROVE  /\ \A place : place \notin {"idle", asleep, awake} => At(place)' = At(place) \ {t}
             /\ u # t /\ At(asleep)' = At(asleep) \ {u}
             /\ At(awake)' = (At(awake) \ {t}) \cup {u}
  <2>1. u \in Threads /\ pc[u] = asleep /\ u # t
    BY DEF At
  <2>2. \A x \in Threads : pc'[x] = IF x = u THEN awake ELSE IF x = t THEN "idle" ELSE pc[x]
    BY <1>2, <2>1 DEF TypeOK
  <2>. QED BY <2>1, <2>2 DEF At
<1>. QED BY <1>1, <1>2 DEF Signal, Signals

----------------------------------------------------------------------------
(* The types.                                                              *)

\* Remainders of what is less than two rounds.
LEMMA SlotArithmetic ==
    ASSUME NEW x \in 0 .. 2 * Size - 1
    PROVE  x % Size = IF x < Size THEN x ELSE x - Size
BY SizeAssumption

\* The slot an item is written to, or read from.
LEMMA SlotsInRange ==
    ASSUME TypeOK
    PROVE  /\ tail % Size \in 0 .. Size - 1
           /\ head % Size = head
           /\ Count \in 0 .. Size
BY SizeAssumption DEF TypeOK, Count

\* The two signals: by a producer to the consumers, and by a consumer to the producers.
Roles(t, asleep, awake) ==
    \/ t \in Producers /\ asleep = "awaits_item" /\ awake = "removing"
    \/ t \in Consumers /\ asleep = "awaits_room" /\ awake = "inserting"

\* A signal moves one thread, between states that its role has.
LEMMA SignalKeepsTypes ==
    ASSUME TypeOK, NEW t \in Threads, NEW asleep, NEW awake,
           Roles(t, asleep, awake), Signals(t, asleep, awake)
    PROVE  /\ pc' \in [Threads -> {"idle", "inserting", "awaits_room", "removing", "awaits_item"}]
           /\ \A p \in Producers : pc'[p] \in {"idle", "inserting", "awaits_room"}
           /\ \A c \in Consumers : pc'[c] \in {"idle", "removing", "awaits_item"}
           /\ \A p \in Producers : pc[p] = "idle" => pc'[p] = "idle"
<1>1. CASE pc' = [pc EXCEPT ![t] = "idle"]
  BY <1>1 DEF TypeOK
<1>2. ASSUME NEW u \in At(asleep), pc' = [[pc EXCEPT ![t] = "idle"] EXCEPT ![u] = awake]
      PROVE  /\ pc' \in [Threads -> {"idle", "inserting", "awaits_room", "removing", "awaits_item"}]
             /\ \A p \in Producers : pc'[p] \in {"idle", "inserting", "awaits_room"}
             /\ \A c \in Consumers : pc'[c] \in {"idle", "removing", "awaits_item"}
             /\ \A p \in Producers : pc[p] = "idle" => pc'[p] = "idle"
  <2>1. u \in Threads /\ pc[u] = asleep
    BY DEF At
  <2>2. \A x \in Threads : pc'[x] = IF x = u THEN awake ELSE IF x = t THEN "idle" ELSE pc[x]
    BY <1>2, <2>1 DEF TypeOK
  <2>3. pc' \in [Threads -> {"idle", "inserting", "awaits_room", "removing", "awaits_item"}]
    BY <1>2, <2>1 DEF TypeOK, Roles
  <2>. QED BY <2>1, <2>2, <2>3, ThreadsAssumption DEF TypeOK, Threads, Roles
<1>. QED BY <1>1, <1>2 DEF Signal, Signals

\* An insertion writes an item to a slot and counts it.
LEMMA InsertKeepsTypes ==
    ASSUME TypeOK, NEW p \in Producers, Insert(p)
    PROVE  TypeOK'
<1>1. arg[p] \in Items /\ tail % Size \in 0 .. Size - 1
  BY SlotsInRange DEF Insert, TypeOK
<1>2. items' \in [0 .. Size - 1 -> Items \cup {NoItem}]
  BY <1>1 DEF Insert, TypeOK
<1>3. tail' \in head' .. head' + Size
  BY SizeAssumption DEF Insert, IsFull, Count, TypeOK
<1>4. /\ pc' \in [Threads -> {"idle", "inserting", "awaits_room", "removing", "awaits_item"}]
      /\ \A q \in Producers : pc'[q] \in {"idle", "inserting", "awaits_room"}
      /\ \A c \in Consumers : pc'[c] \in {"idle", "removing", "awaits_item"}
      /\ \A q \in Producers : pc[q] = "idle" => pc'[q] = "idle"
  <2>1. p \in Threads /\ Roles(p, "awaits_item", "removing") /\ Signals(p, "awaits_item", "removing")
    BY DEF Insert, Signals, Threads, Roles
  <2>. QED BY <2>1, SignalKeepsTypes
<1>5. /\ arg' \in [Producers -> Items \cup {NoItem}]
      /\ \A q \in Producers : pc'[q] # "idle" => arg'[q] \in Items
      /\ got' \in [Consumers -> Items \cup {NoItem}]
      /\ closed' \in BOOLEAN /\ head' \in 0 .. Size - 1
  BY <1>4 DEF Insert, TypeOK
<1>. HIDE DEF Insert
<1>. QED BY <1>2, <1>3, <1>4, <1>5 DEF TypeOK

\* A removal hands an item over and keeps the counters within a round.
LEMMA RemoveKeepsTypes ==
    ASSUME TypeOK, NEW c \in Consumers, Remove(c)
    PROVE  TypeOK'
<1>1. head' \in 0 .. Size - 1 /\ tail' \in head' .. head' + Size
  BY SizeAssumption DEF Remove, IsEmpty, TypeOK
<1>2. got' \in [Consumers -> Items \cup {NoItem}]
  BY SlotsInRange DEF Remove, TypeOK
<1>3. /\ pc' \in [Threads -> {"idle", "inserting", "awaits_room", "removing", "awaits_item"}]
      /\ \A q \in Producers : pc'[q] \in {"idle", "inserting", "awaits_room"}
      /\ \A x \in Consumers : pc'[x] \in {"idle", "removing", "awaits_item"}
      /\ \A q \in Producers : pc[q] = "idle" => pc'[q] = "idle"
  <2>1. c \in Threads /\ Roles(c, "awaits_room", "inserting") /\ Signals(c, "awaits_room", "inserting")
    BY DEF Remove, Signals, Threads, Roles
  <2>. QED BY <2>1, SignalKeepsTypes
<1>. QED BY <1>1, <1>2, <1>3 DEF Remove, TypeOK

----------------------------------------------------------------------------
(* The wake-ups.                                                           *)

\* One item more, one producer less that is awake, and a sleeping consumer is woken.
LEMMA InsertWakesEnough ==
    ASSUME QueueInv, NEW p \in Producers, Insert(p)
    PROVE  WakeupsSuffice'
<1>0. TypeOK /\ WakeupsSuffice /\ Count \in 0 .. Size
  BY SlotsInRange DEF QueueInv
<1>1. p \in Threads /\ pc[p] = "inserting" /\ p \in At("inserting")
  BY DEF Insert, Threads, At
<1>2. Count' = Count + 1 /\ closed' = closed
  BY <1>0 DEF Insert, Count, TypeOK
<1>3. /\ \A place : place \notin {"idle", "awaits_item", "removing"} => At(place)' = At(place) \ {p}
      /\ \/ /\ At("awaits_item") = {} /\ At("awaits_item")' = {}
            /\ At("removing")' = At("removing") \ {p}
         \/ \E u \in At("awaits_item") :
               /\ u # p /\ At("awaits_item")' = At("awaits_item") \ {u}
               /\ At("removing")' = (At("removing") \ {p}) \cup {u}
  <2>1. Signals(p, "awaits_item", "removing")
    BY DEF Insert, Signals
  <2>. QED BY <1>0, <1>1, <2>1, SignalMoves
<1>4. Cardinality(At("inserting"))' = Cardinality(At("inserting")) - 1
  BY <1>1, <1>3, Leaves
<1>5. At("awaits_room")' = At("awaits_room")
  BY <1>1, <1>3 DEF At
<1>6. At("awaits_room")' # {} => Size - Count' <= Cardinality(At("inserting"))'
  BY <1>0, <1>2, <1>4, <1>5, PlacesAreFinite, SizeAssumption DEF WakeupsSuffice
<1>7. ASSUME At("awaits_item")' # {}
      PROVE  ~closed' /\ Count' <= Cardinality(At("removing"))'
  <2>1. PICK u \in At("awaits_item") : At("removing")' = (At("removing") \ {p}) \cup {u}
    BY <1>3, <1>7
  <2>2. u \notin At("removing") /\ p \notin At("removing")
    BY <1>1 DEF At
  <2>3. Cardinality(At("removing"))' = Cardinality(At("removing")) + 1
    <3>1. At("removing")' = At("removing") \cup {u}
      BY <2>1, <2>2
    <3>. QED BY <2>2, <3>1, Arrives
  <2>. QED BY <1>0, <1>2, <2>1, <2>3, PlacesAreFinite DEF WakeupsSuffice
<1>. QED BY <1>6, <1>7 DEF WakeupsSuffice

\* One place more, one consumer less that is awake, and a sleeping producer is woken.
LEMMA RemoveWakesEnough ==
    ASSUME QueueInv, NEW c \in Consumers, Remove(c)
    PROVE  WakeupsSuffice'
<1>0. TypeOK /\ WakeupsSuffice /\ Count \in 0 .. Size
  BY SlotsInRange DEF QueueInv
<1>1. c \in Threads /\ pc[c] = "removing" /\ c \in At("removing")
  BY DEF Remove, Threads, At
<1>2. Count' = Count - 1 /\ closed' = closed
  BY <1>0, SizeAssumption DEF Remove, Count, TypeOK
<1>3. /\ \A place : place \notin {"idle", "awaits_room", "inserting"} => At(place)' = At(place) \ {c}
      /\ \/ /\ At("awaits_room") = {} /\ At("awaits_room")' = {}
            /\ At("inserting")' = At("inserting") \ {c}
         \/ \E u \in At("awaits_room") :
               /\ u # c /\ At("awaits_room")' = At("awaits_room") \ {u}
               /\ At("inserting")' = (At("inserting") \ {c}) \cup {u}
  <2>1. Signals(c, "awaits_room", "inserting")
    BY DEF Remove, Signals
  <2>. QED BY <1>0, <1>1, <2>1, SignalMoves
<1>4. Cardinality(At("removing"))' = Cardinality(At("removing")) - 1
  BY <1>1, <1>3, Leaves
<1>5. At("awaits_item")' = At("awaits_item")
  BY <1>1, <1>3 DEF At
<1>6. At("awaits_item")' # {} => ~closed' /\ Count' <= Cardinality(At("removing"))'
  BY <1>0, <1>2, <1>4, <1>5, PlacesAreFinite DEF WakeupsSuffice
<1>7. ASSUME At("awaits_room")' # {}
      PROVE  Size - Count' <= Cardinality(At("inserting"))'
  <2>1. PICK u \in At("awaits_room") : At("inserting")' = (At("inserting") \ {c}) \cup {u}
    BY <1>3, <1>7
  <2>2. u \notin At("inserting") /\ c \notin At("inserting")
    BY <1>1 DEF At
  <2>3. Cardinality(At("inserting"))' = Cardinality(At("inserting")) + 1
    <3>1. At("inserting")' = At("inserting") \cup {u}
      BY <2>1, <2>2
    <3>. QED BY <2>2, <3>1, Arrives
  <2>. QED BY <1>0, <1>2, <2>1, <2>3, PlacesAreFinite, SizeAssumption DEF WakeupsSuffice
<1>. QED BY <1>6, <1>7 DEF WakeupsSuffice

\* A thread moves, the queue stays: it goes to sleep when that is right, or makes one more awake.
LEMMA OneMoveWakesEnough ==
    ASSUME QueueInv, NEW t \in Threads, NEW to, pc' = [pc EXCEPT ![t] = to],
           UNCHANGED <<head, tail, closed>>,
           \/ pc[t] \in {"idle", "awaits_room"} /\ to = "inserting"
           \/ pc[t] \in {"idle", "awaits_item"} /\ to = "removing"
           \/ pc[t] = "inserting" /\ to = "awaits_room" /\ IsFull
           \/ pc[t] = "removing" /\ to = "awaits_item" /\ IsEmpty /\ ~closed
           \/ pc[t] = "removing" /\ to = "idle" /\ closed
    PROVE  WakeupsSuffice'
<1>0. TypeOK /\ WakeupsSuffice /\ Count \in 0 .. Size /\ Count' = Count
  BY SlotsInRange DEF QueueInv, Count
<1>1. /\ At(to)' = At(to) \cup {t}
      /\ \A place : place # to => At(place)' = At(place) \ {t}
  BY <1>0, OneMoves
<1>2. \A place : Cardinality(At(place))' \in Nat
  BY PlacesAreFinite
<1>3. ASSUME NEW place, place # pc[t], place # to
      PROVE  At(place)' = At(place)
  BY <1>1, <1>3 DEF At
<1>4. ASSUME to # pc[t]
      PROVE  Cardinality(At(to))' = Cardinality(At(to)) + 1
  <2>1. t \notin At(to)
    BY <1>4 DEF At
  <2>. QED BY <1>1, <2>1, Arrives
<1>5. CASE pc[t] \in {"idle", "awaits_room"} /\ to = "inserting"
  <2>1. Cardinality(At("inserting"))' = Cardinality(At("inserting")) + 1
    BY <1>4, <1>5
  <2>2. /\ At("awaits_room")' \subseteq At("awaits_room")
        /\ At("awaits_item")' = At("awaits_item") /\ At("removing")' = At("removing")
    BY <1>1, <1>3, <1>5
  <2>. QED BY <1>0, <2>1, <2>2, PlacesAreFinite, SizeAssumption DEF WakeupsSuffice
<1>6. CASE pc[t] \in {"idle", "awaits_item"} /\ to = "removing"
  <2>1. Cardinality(At("removing"))' = Cardinality(At("removing")) + 1
    BY <1>4, <1>6
  <2>2. /\ At("awaits_item")' \subseteq At("awaits_item")
        /\ At("awaits_room")' = At("awaits_room") /\ At("inserting")' = At("inserting")
    BY <1>1, <1>3, <1>6
  <2>. QED BY <1>0, <2>1, <2>2, PlacesAreFinite DEF WakeupsSuffice
<1>7. CASE pc[t] = "inserting" /\ to = "awaits_room" /\ IsFull
  <2>1. At("awaits_item")' = At("awaits_item") /\ At("removing")' = At("removing")
    BY <1>3, <1>7
  <2>. QED BY <1>0, <1>2, <1>7, <2>1, SizeAssumption DEF WakeupsSuffice, IsFull
<1>8. CASE pc[t] = "removing" /\ to = "awaits_item" /\ IsEmpty /\ ~closed
  <2>1. At("awaits_room")' = At("awaits_room") /\ At("inserting")' = At("inserting")
    BY <1>3, <1>8
  <2>2. Count' = 0
    BY <1>0, <1>8 DEF IsEmpty, Count, TypeOK
  <2>. QED BY <1>0, <1>2, <1>8, <2>1, <2>2 DEF WakeupsSuffice
<1>9. CASE pc[t] = "removing" /\ to = "idle" /\ closed
  <2>1. /\ At("awaits_room")' = At("awaits_room") /\ At("inserting")' = At("inserting")
        /\ At("awaits_item")' = At("awaits_item")
    BY <1>3, <1>9
  <2>. QED BY <1>0, <1>9, <2>1 DEF WakeupsSuffice
<1>. QED BY <1>5, <1>6, <1>7, <1>8, <1>9

\* After the broadcast nobody sleeps for an item.
LEMMA CloseWakesEnough ==
    ASSUME QueueInv, Close
    PROVE  WakeupsSuffice'
<1>0. TypeOK /\ WakeupsSuffice /\ Count' = Count
  BY DEF QueueInv, Close, Count
<1>1. \A t \in Threads : pc'[t] = IF pc[t] = "awaits_item" THEN "removing" ELSE pc[t]
  BY DEF Close
<1>2. At("awaits_item")' = {}
  BY <1>1 DEF At
<1>3. At("awaits_room")' = At("awaits_room") /\ At("inserting")' = At("inserting")
  BY <1>1 DEF At
<1>. QED BY <1>0, <1>2, <1>3 DEF WakeupsSuffice

----------------------------------------------------------------------------
(* The invariant.                                                          *)

\* Nobody sleeps on an empty queue before anybody has called.
LEMMA QueueInit == Init => QueueInv
<1>. SUFFICES ASSUME Init
              PROVE  QueueInv
  OBVIOUS
<1>1. TypeOK
  <2>1. items \in [0 .. Size - 1 -> Items \cup {NoItem}]
    BY Zenon DEF Init
  <2>2. /\ arg \in [Producers -> Items \cup {NoItem}]
        /\ got \in [Consumers -> Items \cup {NoItem}]
    BY Zenon DEF Init
  <2>3. \A t \in Threads : pc[t] = "idle"
    BY DEF Init
  <2>4. pc \in [Threads -> {"idle", "inserting", "awaits_room", "removing", "awaits_item"}]
    BY DEF Init
  <2>5. head = 0 /\ tail = 0 /\ closed = FALSE
    BY DEF Init
  <2>6. head \in 0 .. Size - 1 /\ tail \in head .. head + Size
    BY <2>5, SizeAssumption
  <2>. QED BY <2>1, <2>2, <2>3, <2>4, <2>5, <2>6 DEF TypeOK, Threads
<1>2. At("awaits_item") = {} /\ At("awaits_room") = {}
  BY DEF Init, At
<1>. QED BY <1>1, <1>2 DEF QueueInv, WakeupsSuffice

\* Every step leaves enough threads awake.
LEMMA QueueNext == QueueInv /\ [Next]_vars => QueueInv'
<1>. SUFFICES ASSUME QueueInv, [Next]_vars
              PROVE  QueueInv'
  OBVIOUS
<1>0. TypeOK /\ WakeupsSuffice /\ Producers \subseteq Threads /\ Consumers \subseteq Threads
  BY DEF QueueInv, Threads
<1>1. ASSUME NEW p \in Producers, NEW i \in Items, CallInsert(p, i)
      PROVE  QueueInv'
  <2>1. TypeOK'
    <3>1. /\ pc' \in [Threads -> {"idle", "inserting", "awaits_room", "removing", "awaits_item"}]
          /\ \A t \in Threads : pc'[t] = IF t = p THEN "inserting" ELSE pc[t]
      BY <1>0, <1>1 DEF CallInsert, TypeOK
    <3>2. /\ arg' \in [Producers -> Items \cup {NoItem}]
          /\ \A q \in Producers : arg'[q] = IF q = p THEN i ELSE arg[q]
      BY <1>0, <1>1 DEF CallInsert, TypeOK
    <3>3. \A c \in Consumers : c # p
      BY ThreadsAssumption
    <3>. QED BY <1>0, <1>1, <3>1, <3>2, <3>3 DEF CallInsert, TypeOK, Threads
  <2>2. WakeupsSuffice'
    BY <1>0, <1>1, OneMoveWakesEnough DEF CallInsert
  <2>. QED BY <2>1, <2>2 DEF QueueInv
<1>2. ASSUME NEW p \in Producers, Insert(p)
      PROVE  QueueInv'
  BY <1>0, <1>2, InsertKeepsTypes, InsertWakesEnough DEF QueueInv
<1>3. ASSUME NEW p \in Producers, AwaitRoom(p)
      PROVE  QueueInv'
  <2>1. TypeOK'
    BY <1>0, <1>3 DEF AwaitRoom, TypeOK, Threads
  <2>2. WakeupsSuffice'
    BY <1>0, <1>3, OneMoveWakesEnough DEF AwaitRoom
  <2>. QED BY <2>1, <2>2 DEF QueueInv
<1>4. ASSUME NEW c \in Consumers, CallRemove(c)
      PROVE  QueueInv'
  <2>1. TypeOK'
    BY <1>0, <1>4, ThreadsAssumption DEF CallRemove, TypeOK, Threads
  <2>2. WakeupsSuffice'
    BY <1>0, <1>4, OneMoveWakesEnough DEF CallRemove
  <2>. QED BY <2>1, <2>2 DEF QueueInv
<1>5. ASSUME NEW c \in Consumers, Remove(c)
      PROVE  QueueInv'
  BY <1>0, <1>5, RemoveKeepsTypes, RemoveWakesEnough DEF QueueInv
<1>6. ASSUME NEW c \in Consumers, AwaitItem(c)
      PROVE  QueueInv'
  <2>1. TypeOK'
    BY <1>0, <1>6, ThreadsAssumption DEF AwaitItem, TypeOK, Threads
  <2>2. WakeupsSuffice'
    BY <1>0, <1>6, OneMoveWakesEnough DEF AwaitItem
  <2>. QED BY <2>1, <2>2 DEF QueueInv
<1>7. ASSUME NEW c \in Consumers, RemoveFromClosed(c)
      PROVE  QueueInv'
  <2>1. TypeOK'
    BY <1>0, <1>7, ThreadsAssumption DEF RemoveFromClosed, TypeOK, Threads
  <2>2. WakeupsSuffice'
    BY <1>0, <1>7, OneMoveWakesEnough DEF RemoveFromClosed
  <2>. QED BY <2>1, <2>2 DEF QueueInv
<1>8. ASSUME NEW t \in Threads, WakeSpuriously(t)
      PROVE  QueueInv'
  <2>1. TypeOK'
    BY <1>0, <1>8, ThreadsAssumption DEF WakeSpuriously, TypeOK, Threads
  <2>2. WakeupsSuffice'
    BY <1>0, <1>8, OneMoveWakesEnough DEF WakeSpuriously
  <2>. QED BY <2>1, <2>2 DEF QueueInv
<1>9. CASE Close
  <2>1. TypeOK'
    BY <1>0, <1>9 DEF Close, TypeOK, Threads
  <2>. QED BY <1>9, <2>1, CloseWakesEnough DEF QueueInv
<1>10. CASE UNCHANGED vars
  BY <1>10 DEF vars, QueueInv, TypeOK, WakeupsSuffice, At, Count
<1>. QED BY <1>1, <1>2, <1>3, <1>4, <1>5, <1>6, <1>7, <1>8, <1>9, <1>10 DEF Next

\* The array, its counters and the threads keep their types, for any size and any threads.
THEOREM QueueTypeCorrect == Spec => []TypeOK
<1>1. QueueInv => TypeOK
  BY DEF QueueInv
<1>. QED BY <1>1, QueueInit, QueueNext, PTL DEF Spec

\* No wake-up is lost (intqueue.c:16-63, requestqueue.c:16-63).
THEOREM NoWakeupIsLost == Spec => []WakeupsSuffice
<1>1. QueueInv => WakeupsSuffice
  BY DEF QueueInv
<1>. QED BY <1>1, QueueInit, QueueNext, PTL DEF Spec

----------------------------------------------------------------------------
(* The array implements the channel.                                       *)

\* n items of the array a, from slot h on, wrapped round.
Stretch(a, h, n) == [k \in 1 .. n |-> a[(h + k - 1) % Size]]

\* The slot a counter stands for, without division.
Slot(x) == IF x < Size THEN x ELSE x - Size

\* What is known of a stretch.
IsStretch(s, S, a, h, n) ==
    s \in Seq(S) /\ Len(s) = n /\ \A k \in 1 .. n : s[k] = a[Slot(h + k - 1)]

\* An array of Size slots.
Arrays(S) == [0 .. Size - 1 -> S]
Slots == 0 .. Size - 1

\* The array with x in slot e.
Written(a, e, x) == [a EXCEPT ![e] = x]

\* The stretch of m items from slot g on is the one of n items from slot h on without the first.
IsTail(a, h, n, g, m) ==
    /\ Stretch(a, h, n) # << >>
    /\ Head(Stretch(a, h, n)) = a[h]
    /\ Stretch(a, g, m) = Tail(Stretch(a, h, n))

\* The slot of a counter that is less than one round ahead.
LEMMA SlotOfCounter ==
    \A h, k \in Nat : h < Size /\ k <= Size => /\ (h + k) % Size = Slot(h + k)
                                               /\ Slot(h + k) \in Slots
<1>. SUFFICES ASSUME NEW h \in Nat, NEW k \in Nat, h < Size, k <= Size
              PROVE  (h + k) % Size = Slot(h + k) /\ Slot(h + k) \in Slots
  OBVIOUS
<1>. DEFINE x == h + k
<1>1. x \in 0 .. 2 * Size - 1
  BY SizeAssumption
<1>. HIDE DEF x
<1>2. x % Size = Slot(x)
  BY <1>1, SlotArithmetic DEF Slot
<1>3. Slot(x) \in Slots
  BY <1>1, SizeAssumption DEF Slot, Slots
<1>. QED BY <1>2, <1>3 DEF x

\* A stretch is a sequence; its k-th item is found without division.
LEMMA StretchIsSequence ==
    ASSUME NEW S, NEW a, NEW h, NEW n, a \in Arrays(S), h \in Slots, n \in Nat, n <= Size
    PROVE  IsStretch(Stretch(a, h, n), S, a, h, n)
<1>. DEFINE s == Stretch(a, h, n)
<1>1. \A k \in 1 .. n : (h + k - 1) % Size = Slot(h + k - 1) /\ Slot(h + k - 1) \in Slots
  <2>1. TAKE k \in 1 .. n
  <2>. DEFINE j == k - 1
  <2>2. j \in Nat /\ h \in Nat /\ h < Size /\ j <= Size /\ h + k - 1 = h + j
    BY SizeAssumption DEF Slots
  <2>. HIDE DEF j
  <2>. QED BY <2>2, SlotOfCounter
<1>2. \A k \in 1 .. n : a[Slot(h + k - 1)] \in S
  BY <1>1 DEF Arrays, Slots
<1>3. s = [k \in 1 .. n |-> a[Slot(h + k - 1)]]
  BY <1>1 DEF Stretch
<1>. HIDE DEF s
<1>4. s \in [1 .. n -> S] /\ DOMAIN s = 1 .. n /\ \A k \in 1 .. n : s[k] = a[Slot(h + k - 1)]
  BY <1>2, <1>3, Zenon
<1>5. s \in Seq(S)
  BY <1>4, SeqDef
<1>6. Len(s) = n
  BY <1>4, <1>5
<1>. QED BY <1>4, <1>5, <1>6 DEF IsStretch, s

\* Stretches that agree item by item are the same.
LEMMA SameStretch ==
    ASSUME NEW S, NEW s \in Seq(S), NEW t \in Seq(S), Len(s) = Len(t),
           \A k \in 1 .. Len(s) : s[k] = t[k]
    PROVE  s = t
BY SeqEqual

\* The slot after the last item is not one of the items' slots, if the array is not full.
LEMMA AppendToStretch ==
    ASSUME NEW S, NEW a, NEW h, NEW n, NEW x, NEW b, NEW e,
           a \in Arrays(S), h \in Slots, n \in Nat, n < Size, x \in S,
           e = (h + n) % Size, b = Written(a, e, x)
    PROVE  Stretch(b, h, n + 1) = Append(Stretch(a, h, n), x)
<1>. DEFINE s == Stretch(b, h, n + 1)
            r == Stretch(a, h, n)
            t == Append(r, x)
            m == n + 1
<1>1. (h + n) % Size = Slot(h + n) /\ Slot(h + n) \in Slots
  BY SlotOfCounter, SizeAssumption DEF Slots
<1>2. b = [a EXCEPT ![Slot(h + n)] = x]
  BY <1>1 DEF Written
<1>3. b \in Arrays(S) /\ \A i \in Slots : b[i] = IF i = Slot(h + n) THEN x ELSE a[i]
  BY <1>1, <1>2 DEF Arrays, Slots
<1>4. IsStretch(s, S, b, h, n + 1)
  <2>1. m \in Nat /\ m <= Size
    BY SizeAssumption
  <2>2. IsStretch(Stretch(b, h, m), S, b, h, m)
    <3>. HIDE DEF m
    <3>. QED BY <1>3, <2>1, StretchIsSequence
  <2>. QED BY <2>2
<1>5. IsStretch(r, S, a, h, n)
  <2>1. n <= Size
    BY SizeAssumption
  <2>. QED BY <2>1, StretchIsSequence
<1>. HIDE DEF s, r
<1>6. /\ t \in Seq(S) /\ Len(t) = n + 1 /\ t[n + 1] = x
      /\ \A k \in 1 .. n : t[k] = r[k]
  BY <1>5, AppendProperties DEF IsStretch
<1>. HIDE DEF t
<1>7. \A k \in 1 .. n + 1 : s[k] = t[k]
  <2>1. TAKE k \in 1 .. n + 1
  <2>2. CASE k = n + 1
    <3>1. s[k] = b[Slot(h + n)]
      BY <1>4, <2>2 DEF IsStretch, Slots
    <3>. QED BY <1>1, <1>3, <1>6, <2>2, <3>1
  <2>3. CASE k # n + 1
    <3>1. k \in 1 .. n
      BY <2>3
    <3>2. Slot(h + k - 1) \in Slots /\ Slot(h + k - 1) # Slot(h + n)
      BY <3>1, SizeAssumption DEF Slot, Slots
    <3>3. s[k] = b[Slot(h + k - 1)] /\ t[k] = a[Slot(h + k - 1)]
      BY <1>4, <1>5, <1>6, <3>1 DEF IsStretch
    <3>. QED BY <1>3, <3>2, <3>3
  <2>. QED BY <2>2, <2>3
<1>8. s \in Seq(S) /\ Len(s) = n + 1
  BY <1>4 DEF IsStretch
<1>. QED BY <1>6, <1>7, <1>8, SameStretch DEF s, t, r

\* Without its first item a stretch starts one slot on.
LEMMA TailOfStretch ==
    ASSUME NEW S, NEW a, NEW h, NEW n, NEW g, NEW m,
           a \in Arrays(S), h \in Slots, n \in Nat, n <= Size, n # 0,
           g = Slot(h + 1), m = n - 1
    PROVE  IsTail(a, h, n, g, m)
<1>. DEFINE s == Stretch(a, g, m)
            t == Stretch(a, h, n)
<1>1. g \in Slots /\ m \in Nat /\ m <= Size
  BY SizeAssumption DEF Slot, Slots
<1>2. IsStretch(t, S, a, h, n)
  BY StretchIsSequence
<1>3. IsStretch(s, S, a, g, m)
  BY <1>1, StretchIsSequence
<1>. HIDE DEF s, t
<1>4. t # << >>
  BY <1>2 DEF IsStretch
<1>5. Head(t) = a[h]
  <2>1. Head(t) = t[1] /\ 1 \in 1 .. n
    BY <1>2, <1>4 DEF IsStretch
  <2>2. Slot(h + 1 - 1) = h
    BY SizeAssumption DEF Slot, Slots
  <2>. QED BY <1>2, <2>1, <2>2 DEF IsStretch
<1>6. /\ Tail(t) \in Seq(S) /\ Len(Tail(t)) = m
      /\ \A k \in 1 .. m : Tail(t)[k] = t[k + 1]
  BY <1>2, <1>4, HeadTailProperties DEF IsStretch
<1>7. \A k \in 1 .. m : s[k] = Tail(t)[k]
  <2>1. TAKE k \in 1 .. m
  <2>2. k + 1 \in 1 .. n
    BY <1>1
  <2>3. Slot(g + k - 1) = Slot(h + (k + 1) - 1)
    BY <1>1, SizeAssumption DEF Slot, Slots
  <2>4. s[k] = a[Slot(g + k - 1)] /\ t[k + 1] = a[Slot(h + (k + 1) - 1)]
    BY <1>2, <1>3, <2>2 DEF IsStretch
  <2>. QED BY <1>6, <2>3, <2>4
<1>8. s \in Seq(S) /\ Len(s) = m
  BY <1>3 DEF IsStretch
<1>9. s = Tail(t)
  BY <1>6, <1>7, <1>8, SameStretch
<1>. QED BY <1>4, <1>5, <1>9 DEF s, t, IsTail

\* The content is the stretch that begins at head.
LEMMA ContentIsStretch == Content = Stretch(items, head, Count)
BY DEF Content, Stretch

\* An insertion is a Put ...
LEMMA InsertPuts ==
    ASSUME TypeOK, NEW p \in Producers, Insert(p)
    PROVE  Abstract!Put(arg[p]) /\ arg[p] \in Items
<1>. DEFINE S == Items \cup {NoItem}
<1>1. /\ arg[p] \in Items /\ arg[p] \in S /\ head \in Slots /\ items \in Arrays(S)
      /\ Count \in Nat /\ Count < Size /\ tail = head + Count
  BY SlotsInRange, SizeAssumption DEF TypeOK, Insert, IsFull, Count, Slots, Arrays
<1>2. head' = head /\ Count' = Count + 1
  BY <1>1, SizeAssumption DEF Insert, Count, TypeOK
<1>3. items' = [items EXCEPT ![(head + Count) % Size] = arg[p]]
  BY <1>1 DEF Insert
<1>4. Content' = Stretch(items', head', Count')
  BY DEF Content, Stretch
<1>5. Stretch(items', head, Count + 1) = Append(Stretch(items, head, Count), arg[p])
  <2>. DEFINE n == Count
              x == arg[p]
              b == items'
              e == (head + n) % Size
  <2>1. /\ items \in Arrays(S) /\ head \in Slots /\ n \in Nat /\ n < Size /\ x \in S
        /\ e = (head + n) % Size /\ b = Written(items, e, x)
    BY <1>1, <1>3 DEF Written
  <2>2. Stretch(b, head, n + 1) = Append(Stretch(items, head, n), x)
    <3>. HIDE DEF S, n, x, b, e
    <3>. QED BY <2>1, AppendToStretch
  <2>. QED BY <2>2
<1>6. Content' = Append(Content, arg[p])
  BY <1>2, <1>4, <1>5, ContentIsStretch
<1>7. Len(Content) = Count
  <2>1. Count <= Size
    BY <1>1, SizeAssumption
  <2>2. IsStretch(Stretch(items, head, Count), S, items, head, Count)
    <3>. HIDE DEF S
    <3>. QED BY <1>1, <2>1, StretchIsSequence
  <2>. QED BY <2>2, ContentIsStretch DEF IsStretch
<1>. QED BY <1>1, <1>6, <1>7 DEF Abstract!Put, Insert

\* ... and a removal a Take.
LEMMA RemoveTakes ==
    ASSUME TypeOK, NEW c \in Consumers, Remove(c)
    PROVE  Abstract!Take(c)
<1>. DEFINE S == Items \cup {NoItem}
<1>1. /\ head \in Slots /\ items \in Arrays(S)
      /\ Count \in Nat /\ Count <= Size /\ Count # 0 /\ head % Size = head
  BY SlotsInRange, SizeAssumption DEF TypeOK, Remove, IsEmpty, Count, Slots, Arrays
<1>2. head' = Slot(head + 1) /\ Count' = Count - 1 /\ items' = items
  BY <1>1, SizeAssumption DEF Remove, Count, TypeOK, Slot, Slots
<1>3. Content' = Stretch(items, head', Count')
  BY <1>2 DEF Content, Stretch
<1>4. /\ Stretch(items, head, Count) # << >> /\ Head(Stretch(items, head, Count)) = items[head]
      /\ Stretch(items, head', Count') = Tail(Stretch(items, head, Count))
  <2>. DEFINE n == Count
              g == head'
              m == Count'
  <2>1. /\ items \in Arrays(S) /\ head \in Slots /\ n \in Nat /\ n <= Size /\ n # 0
        /\ g = Slot(head + 1) /\ m = n - 1
    BY <1>1, <1>2
  <2>2. IsTail(items, head, n, g, m)
    <3>. HIDE DEF S, n, g, m
    <3>. QED BY <2>1, TailOfStretch
  <2>. QED BY <2>2 DEF IsTail
<1>5. Content # << >> /\ Head(Content) = items[head] /\ Content' = Tail(Content)
  BY <1>3, <1>4, ContentIsStretch
<1>. QED BY <1>1, <1>5 DEF Abstract!Take, Remove

\* The steps that leave the array alone leave the channel alone.
LEMMA ContentUnchanged ==
    ASSUME UNCHANGED <<items, head, tail>>
    PROVE  Content' = Content
BY DEF Content, Count

\* Every step of the queue is a step of the channel, or none.
LEMMA StepsImplement ==
    TypeOK /\ [Next]_vars => [Abstract!Next]_<<Content, closed, got>>
<1>. SUFFICES ASSUME TypeOK, [Next]_vars
              PROVE  Abstract!Next \/ UNCHANGED <<Content, closed, got>>
  OBVIOUS
<1>1. ASSUME NEW p \in Producers, Insert(p)
      PROVE  Abstract!Next
  BY <1>1, InsertPuts DEF Abstract!Next
<1>2. ASSUME NEW c \in Consumers, Remove(c)
      PROVE  Abstract!Next
  BY <1>2, RemoveTakes DEF Abstract!Next
<1>3. ASSUME NEW c \in Consumers, RemoveFromClosed(c)
      PROVE  Abstract!Next
  <2>1. Abstract!Refuse(c)
    BY <1>3, ContentUnchanged DEF RemoveFromClosed, Abstract!Refuse
  <2>. QED BY <2>1 DEF Abstract!Next
<1>4. CASE Close
  <2>1. Abstract!Close
    BY <1>4, ContentUnchanged DEF Close, Abstract!Close
  <2>. QED BY <2>1 DEF Abstract!Next
<1>5. ASSUME NEW p \in Producers, (\E i \in Items : CallInsert(p, i)) \/ AwaitRoom(p)
      PROVE  UNCHANGED <<Content, closed, got>>
  BY <1>5, ContentUnchanged DEF CallInsert, AwaitRoom
<1>6. ASSUME NEW c \in Consumers, CallRemove(c) \/ AwaitItem(c)
      PROVE  UNCHANGED <<Content, closed, got>>
  BY <1>6, ContentUnchanged DEF CallRemove, AwaitItem
<1>7. ASSUME NEW t \in Threads, WakeSpuriously(t)
      PROVE  UNCHANGED <<Content, closed, got>>
  BY <1>7, ContentUnchanged DEF WakeSpuriously
<1>8. CASE UNCHANGED vars
  BY <1>8, ContentUnchanged DEF vars
<1>. QED BY <1>1, <1>2, <1>3, <1>4, <1>5, <1>6, <1>7, <1>8 DEF Next

\* The ring buffer with its condition variables implements the channel: every step of it is
\* a step of Channel or changes nothing there (intqueue.c:5-84, requestqueue.c:5-95).
THEOREM QueueImplementsChannel == Spec => ImplementsChannel
<1>1. Init => Abstract!Init
  <2>. SUFFICES ASSUME Init
                PROVE  Abstract!Init
    OBVIOUS
  <2>1. Count = 0
    BY DEF Init, Count
  <2>2. Content = << >>
    BY <2>1 DEF Content
  <2>. QED BY <2>2 DEF Init, Abstract!Init
<1>. QED BY <1>1, QueueTypeCorrect, StepsImplement, PTL DEF Spec, ImplementsChannel, Abstract!Spec
=============================================================================
