-------------------------- MODULE FilesystemProofs --------------------------
(***************************************************************************)
(* The locks of the file store, for any number of clients, files and       *)
(* descriptors.  Nothing here depends on what the cache evicts or when: a  *)
(* handler of caching.c may choose any files, and the table only ever      *)
(* removes those it holds.                                                 *)
(*                                                                         *)
(* The first part proves the invariant.  The second is about how a wait    *)
(* for a lock ends: the lock goes to the first in the queue and to nobody  *)
(* else, and whoever leaves a queue is told the reason.  The third shows   *)
(* that each step is one of the abstract LockService, or leaves locks,     *)
(* queues and pending answers alone.                                       *)
(***************************************************************************)
EXTENDS Filesystem, FiniteSetTheorems, SequenceTheorems, TLAPS

\* A waiting queue never grows past the array that holds it.
QueuesBounded == \A f \in Files : Len(waitingQueue[f]) <= MaxWaiting

\* A client whose request is being served keeps its session.
BlockedAreConnected == \A c \in Clients : request[c] # NULL => c \in connected

(***************************************************************************)
(* The inductive invariant.  None of its parts is inductive alone: that a  *)
(* lock passes to a client that can release it needs what is known of the  *)
(* requests in the queues, which needs that no request is pending twice.   *)
(***************************************************************************)
IndInv ==
    /\ TypeOK
    /\ QueuesBounded
    /\ BlockedAreConnected
    /\ LockHolderCanRelease
    /\ WaitersAreBlocked
    /\ EveryRequestIsPendingOnce
    /\ SlotsAreConsistent
    /\ NoDoubleFree

----------------------------------------------------------------------------
(* Descriptors.                                                            *)

\* A file is open in a session iff one of its slots holds it.
LEMMA OpenedIff ==
    \A c \in Clients : \A f : Opened(c, f) <=> \E d \in Descriptors : openedFiles[c][d] = f
BY DEF Opened, OpenedSlots

\* isFileOpened returns a slot that holds the file.
LEMMA SlotOfOpenedFile ==
    ASSUME NEW c \in Clients, NEW f, Opened(c, f)
    PROVE  isFileOpened(c, f) \in Descriptors /\ openedFiles[c][isFileOpened(c, f)] = f
<1>1. \E d \in Descriptors : openedFiles[c][d] = f
  BY OpenedIff
<1>. QED BY <1>1 DEF isFileOpened

\* getFreeFileDescriptor returns an empty slot, if there is one.
LEMMA SlotThatIsFree ==
    ASSUME NEW c \in Clients, FreeSlots(c) # {}
    PROVE  getFreeFileDescriptor(c) \in Descriptors /\ openedFiles[c][getFreeFileDescriptor(c)] = NULL
<1>1. \E d \in Descriptors : openedFiles[c][d] = NULL
  BY DEF FreeSlots, OpenedSlots
<1>. QED BY <1>1 DEF getFreeFileDescriptor

----------------------------------------------------------------------------
(* Requests that go to the notifier.                                       *)

\* A set whose elements are all equal has at most one element.
LEMMA CardinalityOfAtMostOne ==
    ASSUME NEW S, \A x, y \in S : x = y
    PROVE  Cardinality(S) = IF S = {} THEN 0 ELSE 1
<1>1. CASE S = {}
  BY <1>1, FS_EmptySet
<1>2. CASE S # {}
  <2>1. PICK x \in S : TRUE
    BY <1>2
  <2>2. S = {x}
    BY <2>1
  <2>. QED BY <1>2, <2>2, FS_Singleton
<1>. QED BY <1>1, <1>2

\* Client c has a request at one of the places P of the waiting queues.
Hit(P, c) == \E p \in P : waitingQueue[p[1]][p[2]] = c

(***************************************************************************)
(* Every client has at most one request in the queues, so sending the      *)
(* requests of some places to the notifier counts each client at most      *)
(* once.                                                                   *)
(***************************************************************************)
LEMMA NotifiedOnce ==
    ASSUME TypeOK, WaitersAreBlocked, NEW F \in SUBSET Files, NEW P \in SUBSET Queued(F),
           NEW c \in Clients
    PROVE  Cardinality({p \in P : waitingQueue[p[1]][p[2]] = c}) = IF Hit(P, c) THEN 1 ELSE 0
<1>. DEFINE S == {p \in P : waitingQueue[p[1]][p[2]] = c}
<1>1. ASSUME NEW p \in S, NEW q \in S
      PROVE  p = q
  <2>1. /\ p \in F \X (1 .. MaxWaiting) /\ q \in F \X (1 .. MaxWaiting)
        /\ p[2] \in DOMAIN waitingQueue[p[1]] /\ waitingQueue[p[1]][p[2]] = c
        /\ q[2] \in DOMAIN waitingQueue[q[1]] /\ waitingQueue[q[1]][q[2]] = c
    BY DEF Queued
  <2>2. request[c] = p[1] /\ request[c] = q[1]
    BY <2>1 DEF WaitersAreBlocked
  <2>3. p[2] = q[2]
    BY <2>1, <2>2 DEF WaitersAreBlocked
  <2>4. p = <<p[1], p[2]>> /\ q = <<q[1], q[2]>>
    BY <2>1
  <2>. QED BY <2>2, <2>3, <2>4
<1>2. Cardinality(S) = IF S = {} THEN 0 ELSE 1
  <2>. HIDE DEF S
  <2>. QED BY <1>1, CardinalityOfAtMostOne
<1>3. S = {} <=> ~Hit(P, c)
  BY DEF Hit
<1>. QED BY <1>2, <1>3

\* What Notified does to the sessions, without counting.
LEMMA NotifiedEffect ==
    ASSUME TypeOK, WaitersAreBlocked, NEW F \in SUBSET Files, NEW P \in SUBSET Queued(F),
           NEW status \in BOOLEAN, Notified(P, status)
    PROVE  /\ pathnamePendingLock' =
                  [c \in Clients |-> IF Hit(P, c) THEN NULL ELSE pathnamePendingLock[c]]
           /\ opStatus' = [c \in Clients |-> IF Hit(P, c) THEN status ELSE opStatus[c]]
           /\ clientsToNotify' =
                  [c \in Clients |-> clientsToNotify[c] + (IF Hit(P, c) THEN 1 ELSE 0)]
<1>1. \A c \in Clients : Cardinality({p \in P : waitingQueue[p[1]][p[2]] = c})
                          = IF Hit(P, c) THEN 1 ELSE 0
  BY NotifiedOnce
<1>2. \A c \in Clients : Cardinality({p \in P : waitingQueue[p[1]][p[2]] = c}) > 0 <=> Hit(P, c)
  <2>. TAKE c \in Clients
  <2>. HIDE DEF Hit
  <2>. QED BY <1>1
<1>. QED BY <1>1, <1>2 DEF Notified

\* The first k[f] places of each waiting queue.
Taken(k) == {p \in Queued(Files) : p[2] <= k[p[1]]}

\* The clients at those places.
LEMMA HitTaken ==
    ASSUME TypeOK, QueuesBounded, NEW k \in [Files -> Nat],
           \A f \in Files : k[f] <= Len(waitingQueue[f]), NEW c
    PROVE  Hit(Taken(k), c) <=> \E f \in Files : \E i \in 1 .. k[f] : waitingQueue[f][i] = c
<1>1. \A f \in Files : waitingQueue[f] \in Seq(Clients) /\ Len(waitingQueue[f]) <= MaxWaiting
  BY DEF TypeOK, QueuesBounded
<1>2. ASSUME Hit(Taken(k), c)
      PROVE  \E f \in Files : \E i \in 1 .. k[f] : waitingQueue[f][i] = c
  <2>1. PICK p \in Taken(k) : waitingQueue[p[1]][p[2]] = c
    BY <1>2 DEF Hit
  <2>2. p[1] \in Files /\ p[2] \in 1 .. MaxWaiting /\ p[2] <= k[p[1]]
    BY <2>1 DEF Taken, Queued
  <2>3. p[2] \in 1 .. k[p[1]]
    BY <2>2, MaxWaitingAssumption
  <2>. QED BY <2>1, <2>2, <2>3
<1>3. ASSUME NEW f \in Files, NEW i \in 1 .. k[f], waitingQueue[f][i] = c
      PROVE  Hit(Taken(k), c)
  <2>1. i \in DOMAIN waitingQueue[f] /\ i \in 1 .. MaxWaiting /\ i <= k[f]
    BY <1>1, MaxWaitingAssumption
  <2>2. <<f, i>> \in Taken(k)
    BY <2>1 DEF Taken, Queued
  <2>. QED BY <1>3, <2>2 DEF Hit
<1>. QED BY <1>2, <1>3

----------------------------------------------------------------------------
(* What an unlock and a removal do to the queues.                          *)

\* The lock state has its types.
LockTypes ==
    /\ owner \in [Files -> Clients \cup {NoOwner}]
    /\ waitingQueue \in [Files -> Seq(Clients)]
    /\ pathnamePendingLock \in [Clients -> Files \cup {NULL}]
    /\ opStatus \in [Clients -> BOOLEAN]
    /\ clientsToNotify \in [Clients -> Nat]

\* The sessions of all clients but c stay as they are.
OthersUnchanged(c) ==
    \A x \in Clients \ {c} :
        openedFiles'[x] = openedFiles[x] /\ (x \in connected => x \in connected')

\* The first k[f] requests for each file f leave its queue.
Shortened(k) ==
    \A f \in Files :
        /\ k[f] <= Len(waitingQueue[f])
        /\ Len(waitingQueue'[f]) = Len(waitingQueue[f]) - k[f]
        /\ \A i \in 1 .. Len(waitingQueue'[f]) : waitingQueue'[f][i] = waitingQueue[f][i + k[f]]

\* A lock changes hands as it may: to the last client that left the queue, or, if
\* nobody waits any more, to nobody or to the client c that is being served.
Handed(k, c) ==
    \A f \in Files :
        \/ owner'[f] \in {NoOwner, c} /\ k[f] = Len(waitingQueue[f])
        \/ owner'[f] = owner[f] /\ k[f] = 0 /\ (f \in stored => f \in stored')
        \/ k[f] > 0 /\ owner'[f] = waitingQueue[f][k[f]] /\ f \in stored'

\* LockHolderCanRelease for the locks that c does not hold.
OtherHoldersCanRelease(c) ==
    \A f \in Files : owner[f] \notin {NoOwner, c} =>
        f \in stored /\ owner[f] \in connected /\ Opened(owner[f], f)

(***************************************************************************)
(* When the first requests of the queues go to the notifier, and the locks *)
(* change hands accordingly, the queues stay as they should be, and        *)
(* whoever gets a lock can release it.                                     *)
(***************************************************************************)
LEMMA ShortenedQueues ==
    ASSUME IndInv, NEW c \in Clients, request[c] = NULL, NEW status \in BOOLEAN,
           NEW k \in [Files -> Nat], Notified(Taken(k), status), Shortened(k), Handed(k, c),
           waitingQueue' \in [Files -> Seq(Clients)],
           owner' \in [Files -> Clients \cup {NoOwner}],
           OthersUnchanged(c), UNCHANGED request
    PROVE  /\ LockTypes' /\ QueuesBounded' /\ WaitersAreBlocked' /\ EveryRequestIsPendingOnce'
           /\ OtherHoldersCanRelease(c)'
<1>. DEFINE hit(x) == \E f \in Files : \E i \in 1 .. k[f] : waitingQueue[f][i] = x
<1>0. TypeOK /\ WaitersAreBlocked /\ QueuesBounded /\ EveryRequestIsPendingOnce
  BY DEF IndInv
<1>1. /\ pathnamePendingLock' = [x \in Clients |-> IF hit(x) THEN NULL ELSE pathnamePendingLock[x]]
      /\ opStatus' = [x \in Clients |-> IF hit(x) THEN status ELSE opStatus[x]]
      /\ clientsToNotify' = [x \in Clients |-> clientsToNotify[x] + (IF hit(x) THEN 1 ELSE 0)]
  <2>1. Taken(k) \in SUBSET Queued(Files)
    BY DEF Taken
  <2>2. \A x : Hit(Taken(k), x) <=> hit(x)
    BY <1>0, HitTaken DEF Shortened
  <2>3. /\ pathnamePendingLock' =
               [x \in Clients |-> IF Hit(Taken(k), x) THEN NULL ELSE pathnamePendingLock[x]]
        /\ opStatus' = [x \in Clients |-> IF Hit(Taken(k), x) THEN status ELSE opStatus[x]]
        /\ clientsToNotify' =
               [x \in Clients |-> clientsToNotify[x] + (IF Hit(Taken(k), x) THEN 1 ELSE 0)]
    BY <2>1, <1>0, NotifiedEffect
  <2>. HIDE DEF hit
  <2>. QED BY <2>2, <2>3
<1>2. /\ \A f \in Files : waitingQueue[f] \in Seq(Clients) /\ DOMAIN waitingQueue[f] = 1 .. Len(waitingQueue[f])
      /\ \A f \in Files : waitingQueue'[f] \in Seq(Clients) /\ DOMAIN waitingQueue'[f] = 1 .. Len(waitingQueue'[f])
      /\ \A f \in Files : k[f] \in Nat
  BY <1>0 DEF TypeOK
<1>3. \A f \in Files : \A i \in 1 .. Len(waitingQueue[f]) :
         LET x == waitingQueue[f][i]
         IN  /\ x \in Clients \ {c}
             /\ f \in stored /\ owner[f] \notin {NoOwner, x}
             /\ x \in connected /\ request[x] = f /\ Opened(x, f)
             /\ pathnamePendingLock[x] = f
             /\ \A j \in 1 .. Len(waitingQueue[f]) : waitingQueue[f][j] = x => j = i
  <2>1. \A f \in Files : \A i \in 1 .. Len(waitingQueue[f]) : waitingQueue[f][i] \in Clients
    BY <1>2
  <2>2. \A f \in Files : \A i \in 1 .. Len(waitingQueue[f]) : waitingQueue[f][i] # c
    BY <1>0, <1>2, NULLAssumption DEF WaitersAreBlocked
  <2>. QED BY <1>0, <1>2, <2>1, <2>2 DEF WaitersAreBlocked
\* A place of a queue after the step, and the place it had before.
<1>4. ASSUME NEW f \in Files, NEW i \in 1 .. Len(waitingQueue'[f])
      PROVE  /\ i + k[f] \in 1 .. Len(waitingQueue[f])
             /\ waitingQueue'[f][i] = waitingQueue[f][i + k[f]]
             /\ ~hit(waitingQueue'[f][i])
  <2>1. i + k[f] \in 1 .. Len(waitingQueue[f]) /\ waitingQueue'[f][i] = waitingQueue[f][i + k[f]]
    BY <1>2 DEF Shortened
  <2>2. ASSUME NEW g \in Files, NEW j \in 1 .. k[g], waitingQueue[g][j] = waitingQueue[f][i + k[f]]
        PROVE  FALSE
    <3>1. j \in 1 .. Len(waitingQueue[g])
      BY <1>2 DEF Shortened
    <3>2. g = f
      <4>1. request[waitingQueue[g][j]] = g
        BY <1>3, <3>1
      <4>2. request[waitingQueue[f][i + k[f]]] = f
        BY <1>3, <2>1
      <4>. QED BY <2>2, <4>1, <4>2
    <3>3. j = i + k[f]
      BY <1>3, <2>1, <2>2, <3>1, <3>2
    <3>. QED BY <1>2, <3>2, <3>3
  <2>. QED BY <2>1, <2>2
<1>5. \A x \in Clients \ {c} : \A f : Opened(x, f) => Opened(x, f)'
  BY DEF OthersUnchanged, Opened, OpenedSlots
<1>6. \A x \in Clients : hit(x) \in BOOLEAN
  OBVIOUS
<1>7. LockTypes'
  <2>. HIDE DEF hit
  <2>1. pathnamePendingLock' \in [Clients -> Files \cup {NULL}]
    BY <1>0, <1>1 DEF TypeOK
  <2>2. opStatus' \in [Clients -> BOOLEAN]
    BY <1>0, <1>1 DEF TypeOK
  <2>3. clientsToNotify' \in [Clients -> Nat]
    BY <1>0, <1>1 DEF TypeOK
  <2>. QED BY <2>1, <2>2, <2>3 DEF LockTypes
<1>8. QueuesBounded'
  BY <1>0, <1>2, MaxWaitingAssumption DEF QueuesBounded, Shortened
<1>9. WaitersAreBlocked'
  <2>1. SUFFICES ASSUME NEW f \in Files, NEW i \in 1 .. Len(waitingQueue'[f]),
                        NEW x, x = waitingQueue'[f][i]
                 PROVE  /\ f \in stored' /\ owner'[f] \notin {NoOwner, x}
                        /\ x \in connected' /\ request'[x] = f /\ Opened(x, f)'
                        /\ pathnamePendingLock'[x] = f
                        /\ \A j \in 1 .. Len(waitingQueue'[f]) : waitingQueue'[f][j] = x => j = i
    <3>1. \A f \in Files : \A i \in DOMAIN waitingQueue'[f] : i \in 1 .. Len(waitingQueue'[f])
      BY <1>2
    <3>2. ASSUME NEW f \in Files, NEW i \in DOMAIN waitingQueue'[f]
          PROVE  LET x == waitingQueue'[f][i]
                 IN  /\ f \in stored' /\ owner'[f] \notin {NoOwner, x}
                     /\ x \in connected' /\ request'[x] = f
                     /\ {d \in Descriptors : openedFiles'[x][d] = f} # {}
                     /\ pathnamePendingLock'[x] = f
                     /\ \A j \in DOMAIN waitingQueue'[f] : waitingQueue'[f][j] = x => j = i
      BY <2>1, <3>1, <3>2 DEF Opened, OpenedSlots
    <3>. QED BY <3>2 DEF WaitersAreBlocked, Opened, OpenedSlots
  <2>. DEFINE m == i + k[f]
  <2>2. /\ m \in 1 .. Len(waitingQueue[f]) /\ x = waitingQueue[f][m] /\ ~hit(x)
    BY <1>4, <2>1
  <2>3. /\ x \in Clients \ {c} /\ f \in stored /\ owner[f] \notin {NoOwner, x}
        /\ x \in connected /\ request[x] = f /\ Opened(x, f) /\ pathnamePendingLock[x] = f
    BY <1>3, <2>2
  <2>4. f \in stored' /\ owner'[f] \notin {NoOwner, x}
    <3>1. k[f] # Len(waitingQueue[f])
      BY <1>2, <2>2
    <3>2. CASE owner'[f] = owner[f] /\ (f \in stored => f \in stored')
      BY <2>3, <3>2
    <3>3. CASE k[f] > 0 /\ owner'[f] = waitingQueue[f][k[f]] /\ f \in stored'
      <4>1. k[f] \in 1 .. Len(waitingQueue[f]) /\ k[f] # m
        BY <1>2, <2>2, <3>3
      <4>2. owner'[f] # x /\ owner'[f] \in Clients
        BY <1>3, <2>2, <3>3, <4>1
      <4>. QED BY <3>3, <4>2, NoOwnerAssumption
    <3>. QED BY <3>1, <3>2, <3>3 DEF Handed
  <2>5. x \in connected' /\ request'[x] = f /\ Opened(x, f)'
    BY <1>5, <2>3 DEF OthersUnchanged
  <2>6. pathnamePendingLock'[x] = f
    <3>. HIDE DEF hit
    <3>. QED BY <1>1, <2>2, <2>3
  <2>7. ASSUME NEW j \in 1 .. Len(waitingQueue'[f]), waitingQueue'[f][j] = x
        PROVE  j = i
    <3>1. j + k[f] \in 1 .. Len(waitingQueue[f]) /\ waitingQueue[f][j + k[f]] = waitingQueue[f][m]
      BY <1>4, <2>2, <2>7
    <3>2. j + k[f] = m
      BY <1>3, <2>2, <3>1
    <3>. QED BY <1>2, <3>2
  <2>. QED BY <2>4, <2>5, <2>6, <2>7
<1>10. EveryRequestIsPendingOnce'
  <2>1. SUFFICES ASSUME NEW x \in Clients
                 PROVE  LET waiting == request'[x] # NULL /\ x \in Waiters(waitingQueue'[request'[x]])
                        IN  /\ clientsToNotify'[x] = IF request'[x] = NULL \/ waiting THEN 0 ELSE 1
                            /\ pathnamePendingLock'[x] = IF waiting THEN request'[x] ELSE NULL
    BY DEF EveryRequestIsPendingOnce, Waiters
  <2>. DEFINE r == request[x]
              was == r # NULL /\ x \in Waiters(waitingQueue[r])
              is == r # NULL /\ x \in Waiters(waitingQueue'[r])
  <2>2. /\ clientsToNotify[x] = IF r = NULL \/ was THEN 0 ELSE 1
        /\ pathnamePendingLock[x] = IF was THEN r ELSE NULL
    BY <1>0 DEF EveryRequestIsPendingOnce
  <2>3. r \in Files \cup {NULL}
    BY <1>0 DEF TypeOK
  <2>4. CASE hit(x)
    <3>0. PICK g \in Files : \E j \in 1 .. k[g] : waitingQueue[g][j] = x
      BY <2>4
    <3>1. PICK j \in 1 .. k[g] : waitingQueue[g][j] = x
      BY <3>0
    <3>2. j \in 1 .. Len(waitingQueue[g])
      BY <1>2 DEF Shortened
    <3>3. r = g /\ g # NULL
      BY <1>3, <3>1, <3>2, NULLAssumption
    <3>4. was
      BY <1>2, <3>1, <3>2, <3>3 DEF Waiters
    <3>5. ~is
      <4>1. SUFFICES ASSUME NEW i \in 1 .. Len(waitingQueue'[g]), waitingQueue'[g][i] = x
                     PROVE  FALSE
        BY <1>2, <3>3 DEF Waiters
      <4>2. ~hit(waitingQueue'[g][i])
        BY <1>4
      <4>. QED BY <2>4, <4>1, <4>2
    <3>6. clientsToNotify'[x] = 1 /\ pathnamePendingLock'[x] = NULL
      <4>. HIDE DEF hit, was
      <4>. QED BY <1>1, <2>2, <2>4, <3>4
    <3>. QED BY <3>3, <3>5, <3>6
  <2>5. CASE ~hit(x)
    <3>1. ASSUME was
          PROVE  is
      <4>1. r \in Files /\ \E i \in 1 .. Len(waitingQueue[r]) : waitingQueue[r][i] = x
        BY <1>2, <2>3, <3>1 DEF Waiters
      <4>2. PICK i \in 1 .. Len(waitingQueue[r]) : waitingQueue[r][i] = x
        BY <4>1
      <4>3. i > k[r]
        BY <1>2, <2>5, <4>1, <4>2
      <4>4. i - k[r] \in 1 .. Len(waitingQueue'[r])
        BY <1>2, <4>1, <4>2, <4>3 DEF Shortened
      <4>5. waitingQueue'[r][i - k[r]] = x
        <5>1. (i - k[r]) + k[r] = i
          BY <1>2, <4>1
        <5>. QED BY <1>4, <4>1, <4>2, <4>4, <5>1, SMTT(30)
      <4>. QED BY <1>2, <3>1, <4>1, <4>4, <4>5 DEF Waiters
    <3>2. ASSUME is
          PROVE  was
      <4>1. r \in Files /\ \E i \in 1 .. Len(waitingQueue'[r]) : waitingQueue'[r][i] = x
        BY <1>2, <2>3, <3>2 DEF Waiters
      <4>2. PICK i \in 1 .. Len(waitingQueue'[r]) : waitingQueue'[r][i] = x
        BY <4>1
      <4>3. i + k[r] \in DOMAIN waitingQueue[r] /\ waitingQueue[r][i + k[r]] = x
        BY <1>2, <1>4, <4>1, <4>2
      <4>. QED BY <3>2, <4>3 DEF Waiters
    <3>3. clientsToNotify'[x] = clientsToNotify[x] /\ pathnamePendingLock'[x] = pathnamePendingLock[x]
      <4>1. clientsToNotify[x] \in Nat
        BY <1>0 DEF TypeOK
      <4>. HIDE DEF hit
      <4>. QED BY <1>1, <2>5, <4>1
    <3>. HIDE DEF was, is
    <3>4. /\ clientsToNotify'[x] = IF r = NULL \/ is THEN 0 ELSE 1
          /\ pathnamePendingLock'[x] = IF is THEN r ELSE NULL
      BY <2>2, <3>1, <3>2, <3>3
    <3>. QED BY <3>4 DEF is
  <2>. QED BY <2>4, <2>5
<1>11. ASSUME NEW f \in Files, NEW x, x = owner'[f], x \notin {NoOwner, c}
       PROVE  f \in stored' /\ x \in connected' /\ Opened(x, f)'
  <2>1. x \in Clients \ {c}
    BY <1>11
  <2>2. CASE owner'[f] = owner[f] /\ (f \in stored => f \in stored')
    <3>1. f \in stored /\ x \in connected /\ Opened(x, f)
      BY <1>11, <2>2 DEF IndInv, LockHolderCanRelease
    <3>. QED BY <1>5, <2>1, <2>2, <3>1 DEF OthersUnchanged
  <2>3. CASE k[f] > 0 /\ owner'[f] = waitingQueue[f][k[f]] /\ f \in stored'
    <3>1. k[f] \in 1 .. Len(waitingQueue[f])
      BY <1>2, <2>3 DEF Shortened
    <3>2. x \in connected /\ Opened(x, f)
      BY <1>3, <1>11, <2>3, <3>1
    <3>. QED BY <1>5, <2>1, <2>3, <3>2 DEF OthersUnchanged
  <2>. QED BY <1>11, <2>2, <2>3 DEF Handed
<1>. HIDE DEF hit
<1>. QED BY <1>7, <1>8, <1>9, <1>10, <1>11 DEF OtherHoldersCanRelease

(***************************************************************************)
(* A client that is being served unlocks files it owns.                    *)
(***************************************************************************)
LEMMA UnlockKeepsQueues ==
    ASSUME IndInv, NEW c \in Clients, request[c] = NULL,
           NEW F \in SUBSET Files, \A f \in F : owner[f] = c,
           unlockfiles(F), OthersUnchanged(c), UNCHANGED <<stored, request>>
    PROVE  /\ LockTypes' /\ QueuesBounded' /\ WaitersAreBlocked' /\ EveryRequestIsPendingOnce'
           /\ OtherHoldersCanRelease(c)'
           /\ \A f \in Files : owner'[f] = c => owner[f] = c /\ f \notin F
<1>. DEFINE k == [f \in Files |-> IF f \in F /\ waitingQueue[f] # << >> THEN 1 ELSE 0]
<1>0. TypeOK /\ WaitersAreBlocked /\ QueuesBounded /\ LockHolderCanRelease
  BY DEF IndInv
<1>1. \A f \in Files :
         /\ waitingQueue[f] \in Seq(Clients) /\ DOMAIN waitingQueue[f] = 1 .. Len(waitingQueue[f])
         /\ Len(waitingQueue[f]) \in Nat /\ Len(waitingQueue[f]) <= MaxWaiting
  BY <1>0 DEF TypeOK, QueuesBounded
<1>2. \A f \in Files : waitingQueue[f] # << >> =>
         /\ Len(waitingQueue[f]) >= 1 /\ Head(waitingQueue[f]) = waitingQueue[f][1]
         /\ Head(waitingQueue[f]) \in Clients
         /\ Tail(waitingQueue[f]) \in Seq(Clients)
         /\ Len(Tail(waitingQueue[f])) = Len(waitingQueue[f]) - 1
         /\ \A i \in 1 .. Len(waitingQueue[f]) - 1 : Tail(waitingQueue[f])[i] = waitingQueue[f][i + 1]
  BY <1>1
<1>3. k \in [Files -> Nat]
  OBVIOUS
<1>4. {p \in Queued(F) : p[2] = 1} = Taken(k)
  <2>1. ASSUME NEW p \in Taken(k)
        PROVE  p \in {q \in Queued(F) : q[2] = 1}
    <3>1. p \in Files \X (1 .. MaxWaiting) /\ p[2] \in DOMAIN waitingQueue[p[1]] /\ p[2] <= k[p[1]]
      BY DEF Taken, Queued
    <3>2. p[2] >= 1 /\ p[1] \in F /\ p[2] = 1
      BY <3>1, MaxWaitingAssumption
    <3>. QED BY <3>1, <3>2 DEF Queued
  <2>2. ASSUME NEW p \in Queued(F), p[2] = 1
        PROVE  p \in Taken(k)
    <3>1. p \in F \X (1 .. MaxWaiting) /\ 1 \in DOMAIN waitingQueue[p[1]]
      BY <2>2 DEF Queued
    <3>2. p[1] \in Files /\ waitingQueue[p[1]] # << >>
      BY <3>1
    <3>3. p \in Queued(Files) /\ k[p[1]] = 1
      BY <3>1, <3>2, <2>2 DEF Queued
    <3>. QED BY <2>2, <3>3 DEF Taken
  <2>. QED BY <2>1, <2>2
<1>5. Notified(Taken(k), TRUE)
  BY <1>4 DEF unlockfiles
<1>6. \A f \in Files :
         /\ owner'[f] = IF f \notin F THEN owner[f]
                        ELSE IF waitingQueue[f] = << >> THEN NoOwner ELSE Head(waitingQueue[f])
         /\ waitingQueue'[f] = IF f \in F /\ waitingQueue[f] # << >>
                               THEN Tail(waitingQueue[f]) ELSE waitingQueue[f]
  BY DEF unlockfiles
<1>7. waitingQueue' \in [Files -> Seq(Clients)] /\ owner' \in [Files -> Clients \cup {NoOwner}]
  BY <1>0, <1>2 DEF unlockfiles, TypeOK
<1>8. Shortened(k)
  <2>1. SUFFICES ASSUME NEW f \in Files
                 PROVE  /\ k[f] <= Len(waitingQueue[f])
                        /\ Len(waitingQueue'[f]) = Len(waitingQueue[f]) - k[f]
                        /\ \A i \in 1 .. Len(waitingQueue'[f]) :
                              waitingQueue'[f][i] = waitingQueue[f][i + k[f]]
    BY DEF Shortened
  <2>2. CASE f \in F /\ waitingQueue[f] # << >>
    <3>1. k[f] = 1 /\ waitingQueue'[f] = Tail(waitingQueue[f])
      BY <1>6, <2>2
    <3>. HIDE DEF k
    <3>. QED BY <1>1, <1>2, <2>2, <3>1
  <2>3. CASE ~(f \in F /\ waitingQueue[f] # << >>)
    <3>1. k[f] = 0 /\ waitingQueue'[f] = waitingQueue[f]
      BY <1>6, <2>3
    <3>. HIDE DEF k
    <3>. QED BY <1>1, <3>1
  <2>. QED BY <2>2, <2>3
<1>9. Handed(k, c)
  <2>1. SUFFICES ASSUME NEW f \in Files
                 PROVE  \/ owner'[f] \in {NoOwner, c} /\ k[f] = Len(waitingQueue[f])
                        \/ owner'[f] = owner[f] /\ k[f] = 0 /\ (f \in stored => f \in stored')
                        \/ k[f] > 0 /\ owner'[f] = waitingQueue[f][k[f]] /\ f \in stored'
    BY DEF Handed
  <2>2. CASE f \notin F
    BY <1>6, <2>2
  <2>3. CASE f \in F /\ waitingQueue[f] = << >>
    BY <1>6, <2>3
  <2>4. CASE f \in F /\ waitingQueue[f] # << >>
    <3>1. k[f] = 1 /\ owner'[f] = waitingQueue[f][1]
      BY <1>2, <1>6, <2>4
    <3>2. f \in stored
      BY <1>0, <1>1, <1>2, <2>4 DEF WaitersAreBlocked
    <3>. QED BY <3>1, <3>2
  <2>. QED BY <2>2, <2>3, <2>4
<1>10. ASSUME NEW f \in Files, owner'[f] = c
       PROVE  owner[f] = c /\ f \notin F
  <2>1. CASE f \in F /\ waitingQueue[f] # << >>
    <3>1. request[waitingQueue[f][1]] = f /\ waitingQueue[f][1] = c
      BY <1>0, <1>1, <1>2, <1>6, <1>10, <2>1 DEF WaitersAreBlocked
    <3>. QED BY <3>1, NULLAssumption
  <2>. QED BY <1>6, <1>10, <2>1, NoOwnerAssumption
<1>. HIDE DEF k
<1>. QED BY <1>3, <1>5, <1>7, <1>8, <1>9, <1>10, ShortenedQueues

(***************************************************************************)
(* Files leave the store, while client c is being served and may get or    *)
(* keep the lock of files that nobody waits for.                           *)
(***************************************************************************)
LEMMA RemovalKeepsQueues ==
    ASSUME IndInv, NEW c \in Clients, request[c] = NULL,
           NEW F \in SUBSET Files, NEW newOwner \in [Files -> Clients \cup {NoOwner}],
           \A f \in Files \ F :
              \/ newOwner[f] = owner[f] /\ (f \in stored => f \in stored')
              \/ newOwner[f] = c /\ f \notin stored,
           remove_hashEntries(F, newOwner), OthersUnchanged(c), UNCHANGED request
    PROVE  /\ LockTypes' /\ QueuesBounded' /\ WaitersAreBlocked' /\ EveryRequestIsPendingOnce'
           /\ OtherHoldersCanRelease(c)'
           /\ \A f \in Files : owner'[f] = c => newOwner[f] = c /\ f \notin F
<1>. DEFINE k == [f \in Files |-> IF f \in F THEN Len(waitingQueue[f]) ELSE 0]
<1>0. TypeOK /\ WaitersAreBlocked /\ QueuesBounded
  BY DEF IndInv
<1>1. \A f \in Files :
         /\ waitingQueue[f] \in Seq(Clients) /\ DOMAIN waitingQueue[f] = 1 .. Len(waitingQueue[f])
         /\ Len(waitingQueue[f]) \in Nat /\ Len(waitingQueue[f]) <= MaxWaiting
  BY <1>0 DEF TypeOK, QueuesBounded
<1>2. k \in [Files -> Nat]
  BY <1>1
<1>3. Queued(F) = Taken(k)
  <2>1. ASSUME NEW p \in Taken(k)
        PROVE  p \in Queued(F)
    <3>1. p \in Files \X (1 .. MaxWaiting) /\ p[2] \in DOMAIN waitingQueue[p[1]] /\ p[2] <= k[p[1]]
      BY DEF Taken, Queued
    <3>2. p[2] >= 1 /\ p[1] \in F
      BY <3>1, MaxWaitingAssumption
    <3>. QED BY <3>1, <3>2 DEF Queued
  <2>2. ASSUME NEW p \in Queued(F)
        PROVE  p \in Taken(k)
    <3>1. p \in F \X (1 .. MaxWaiting) /\ p[2] \in DOMAIN waitingQueue[p[1]]
      BY DEF Queued
    <3>2. p \in Queued(Files) /\ p[2] <= k[p[1]]
      BY <1>1, <3>1 DEF Queued
    <3>. QED BY <3>2 DEF Taken
  <2>. QED BY <2>1, <2>2
<1>4. Notified(Taken(k), FALSE)
  BY <1>3 DEF remove_hashEntries
<1>5. \A f \in Files :
         /\ owner'[f] = IF f \in F THEN NoOwner ELSE newOwner[f]
         /\ waitingQueue'[f] = IF f \in F THEN << >> ELSE waitingQueue[f]
  BY DEF remove_hashEntries
<1>6. waitingQueue' \in [Files -> Seq(Clients)] /\ owner' \in [Files -> Clients \cup {NoOwner}]
  BY <1>0 DEF remove_hashEntries, TypeOK
<1>7. Shortened(k)
  <2>1. SUFFICES ASSUME NEW f \in Files
                 PROVE  /\ k[f] <= Len(waitingQueue[f])
                        /\ Len(waitingQueue'[f]) = Len(waitingQueue[f]) - k[f]
                        /\ \A i \in 1 .. Len(waitingQueue'[f]) :
                              waitingQueue'[f][i] = waitingQueue[f][i + k[f]]
    BY DEF Shortened
  <2>2. CASE f \in F
    <3>1. k[f] = Len(waitingQueue[f]) /\ Len(waitingQueue'[f]) = 0
      BY <1>5, <2>2
    <3>. HIDE DEF k
    <3>. QED BY <1>1, <3>1
  <2>3. CASE f \notin F
    <3>1. k[f] = 0 /\ waitingQueue'[f] = waitingQueue[f]
      BY <1>5, <2>3
    <3>. HIDE DEF k
    <3>. QED BY <1>1, <3>1
  <2>. QED BY <2>2, <2>3
<1>8. Handed(k, c)
  <2>1. SUFFICES ASSUME NEW f \in Files
                 PROVE  \/ owner'[f] \in {NoOwner, c} /\ k[f] = Len(waitingQueue[f])
                        \/ owner'[f] = owner[f] /\ k[f] = 0 /\ (f \in stored => f \in stored')
                        \/ k[f] > 0 /\ owner'[f] = waitingQueue[f][k[f]] /\ f \in stored'
    BY DEF Handed
  <2>2. CASE f \in F
    BY <1>5, <2>2
  <2>3. CASE f \notin F /\ newOwner[f] = owner[f] /\ (f \in stored => f \in stored')
    BY <1>5, <2>3
  <2>4. CASE f \notin F /\ newOwner[f] = c /\ f \notin stored
    <3>1. Len(waitingQueue[f]) = 0
      BY <1>0, <1>1, <2>4 DEF WaitersAreBlocked
    <3>. QED BY <1>5, <2>4, <3>1
  <2>. QED BY <2>2, <2>3, <2>4
<1>9. ASSUME NEW f \in Files, owner'[f] = c
      PROVE  newOwner[f] = c /\ f \notin F
  BY <1>5, <1>9, NoOwnerAssumption
<1>. HIDE DEF k
<1>. QED BY <1>2, <1>4, <1>6, <1>7, <1>8, <1>9, ShortenedQueues

----------------------------------------------------------------------------
(* What the operations do to the sessions.                                 *)

\* The types of the sessions' slots.
SlotTypes ==
    /\ openedFiles \in [Clients -> [Descriptors -> Files \cup {NULL}]]
    /\ canWriteOnFile \in [Clients -> [Descriptors -> BOOLEAN]]

\* The slot openFile uses, and what the session has open afterwards.
LEMMA OpenKeepsSlots ==
    ASSUME IndInv, NEW c \in connected, NEW f \in Files, NEW create \in BOOLEAN, NEW lock \in BOOLEAN,
           Opened(c, f) \/ FreeSlots(c) # {}, Open(c, f, create, lock)
    PROVE  /\ SlotTypes' /\ SlotsAreConsistent' /\ OthersUnchanged(c) /\ Opened(c, f)'
           /\ \A g \in Files : Opened(c, g) => Opened(c, g)'
<1>. DEFINE d0 == IF Opened(c, f) THEN isFileOpened(c, f) ELSE getFreeFileDescriptor(c)
<1>0. TypeOK /\ SlotsAreConsistent /\ c \in Clients
  BY DEF IndInv, TypeOK
<1>1. d0 \in Descriptors /\ openedFiles[c][d0] \in {f, NULL}
      /\ (openedFiles[c][d0] # f => ~Opened(c, f))
  <2>1. CASE Opened(c, f)
    BY <1>0, <2>1, SlotOfOpenedFile
  <2>2. CASE ~Opened(c, f)
    BY <1>0, <2>2, SlotThatIsFree
  <2>. QED BY <2>1, <2>2
<1>2. /\ openedFiles' = [openedFiles EXCEPT ![c][d0] = f]
      /\ canWriteOnFile' = [canWriteOnFile EXCEPT ![c][d0] = @ \/ (create /\ lock)]
      /\ connected' = connected
  BY DEF Open
<1>. HIDE DEF d0
<1>3. SlotTypes'
  <2>1. openedFiles' \in [Clients -> [Descriptors -> Files \cup {NULL}]]
    BY <1>0, <1>1, <1>2 DEF TypeOK
  <2>2. canWriteOnFile' \in [Clients -> [Descriptors -> BOOLEAN]]
    BY <1>0, <1>1, <1>2 DEF TypeOK
  <2>. QED BY <2>1, <2>2 DEF SlotTypes
<1>4. \A x \in Clients, d \in Descriptors :
         /\ openedFiles'[x][d] = IF x = c /\ d = d0 THEN f ELSE openedFiles[x][d]
         /\ (x # c \/ d # d0) => canWriteOnFile'[x][d] = canWriteOnFile[x][d]
  BY <1>0, <1>1, <1>2 DEF TypeOK
<1>5. SlotsAreConsistent'
  <2>1. SUFFICES ASSUME NEW x \in Clients, NEW d \in Descriptors
                 PROVE  /\ openedFiles'[x][d] = NULL => ~canWriteOnFile'[x][d]
                        /\ openedFiles'[x][d] # NULL =>
                              /\ x \in connected'
                              /\ \A e \in Descriptors : openedFiles'[x][e] = openedFiles'[x][d] => e = d
    BY DEF SlotsAreConsistent, OpenedSlots
  <2>2. /\ \A e \in Descriptors : openedFiles[x][e] = NULL => ~canWriteOnFile[x][e]
        /\ \A e \in Descriptors : openedFiles[x][e] # NULL =>
              x \in connected /\ \A e2 \in Descriptors : openedFiles[x][e2] = openedFiles[x][e] => e2 = e
    BY <1>0 DEF SlotsAreConsistent, OpenedSlots
  <2>3. CASE x # c
    BY <1>2, <1>4, <2>2, <2>3
  <2>4. CASE x = c
    <3>1. \A e \in Descriptors : e # d0 => openedFiles[c][e] # f
      BY <1>0, <1>1, <2>2, <2>4, OpenedIff, NULLAssumption
    <3>. QED BY <1>1, <1>2, <1>4, <2>2, <2>4, <3>1, NULLAssumption
  <2>. QED BY <2>3, <2>4
<1>6. OthersUnchanged(c)
  BY <1>0, <1>1, <1>2 DEF OthersUnchanged, TypeOK
<1>7. Opened(c, f)' /\ \A g \in Files : Opened(c, g) => Opened(c, g)'
  <2>1. \A g : Opened(c, g)' <=> \E d \in Descriptors : openedFiles'[c][d] = g
    BY DEF Opened, OpenedSlots
  <2>. QED BY <1>0, <1>1, <1>4, <2>1, OpenedIff, NULLAssumption
<1>. QED BY <1>3, <1>5, <1>6, <1>7

\* Clearing slots of a connected or a leaving client, and rights to write, is safe.
LEMMA ClearedSlots ==
    ASSUME SlotsAreConsistent,
           \A x \in Clients, d \in Descriptors :
              /\ openedFiles'[x][d] \in {openedFiles[x][d], NULL}
              /\ canWriteOnFile'[x][d] => canWriteOnFile[x][d] /\ openedFiles'[x][d] = openedFiles[x][d]
              /\ openedFiles'[x][d] # NULL /\ x \in connected => x \in connected'
    PROVE  SlotsAreConsistent'
<1>1. SUFFICES ASSUME NEW x \in Clients, NEW d \in Descriptors
               PROVE  /\ openedFiles'[x][d] = NULL => ~canWriteOnFile'[x][d]
                      /\ openedFiles'[x][d] # NULL =>
                            /\ x \in connected'
                            /\ \A e \in Descriptors : openedFiles'[x][e] = openedFiles'[x][d] => e = d
  BY DEF SlotsAreConsistent, OpenedSlots
<1>2. /\ openedFiles[x][d] = NULL => ~canWriteOnFile[x][d]
      /\ openedFiles[x][d] # NULL =>
            x \in connected /\ \A e \in Descriptors : openedFiles[x][e] = openedFiles[x][d] => e = d
  BY DEF SlotsAreConsistent, OpenedSlots
<1>. QED BY <1>2

\* Clearing the slot of one file, and its right to write.
LEMMA CloseKeepsSlots ==
    ASSUME IndInv, NEW c \in connected, NEW f \in Files,
           NEW d0 \in Descriptors, openedFiles[c][d0] = f,
           openedFiles' = [openedFiles EXCEPT ![c][d0] = NULL],
           canWriteOnFile' = [canWriteOnFile EXCEPT ![c][d0] = FALSE],
           UNCHANGED connected
    PROVE  /\ SlotTypes' /\ SlotsAreConsistent' /\ OthersUnchanged(c)
           /\ \A g \in Files \ {f} : Opened(c, g) => Opened(c, g)'
<1>0. TypeOK /\ SlotsAreConsistent /\ c \in Clients
  BY DEF IndInv, TypeOK
<1>3. SlotTypes'
  <2>1. openedFiles' \in [Clients -> [Descriptors -> Files \cup {NULL}]]
    BY <1>0 DEF TypeOK
  <2>2. canWriteOnFile' \in [Clients -> [Descriptors -> BOOLEAN]]
    BY <1>0 DEF TypeOK
  <2>. QED BY <2>1, <2>2 DEF SlotTypes
<1>4. \A x \in Clients, d \in Descriptors :
         /\ openedFiles'[x][d] = IF x = c /\ d = d0 THEN NULL ELSE openedFiles[x][d]
         /\ canWriteOnFile'[x][d] <=> (canWriteOnFile[x][d] /\ ~(x = c /\ d = d0))
  BY <1>0 DEF TypeOK
<1>5. SlotsAreConsistent'
  BY <1>0, <1>4, ClearedSlots
<1>6. OthersUnchanged(c)
  BY <1>0 DEF OthersUnchanged, TypeOK
<1>7. \A g \in Files \ {f} : Opened(c, g) => Opened(c, g)'
  <2>1. \A g : Opened(c, g)' <=> \E d \in Descriptors : openedFiles'[c][d] = g
    BY DEF Opened, OpenedSlots
  <2>. QED BY <1>0, <1>4, <2>1, OpenedIff
<1>. QED BY <1>3, <1>5, <1>6, <1>7

\* Taking back the right to write on one file.
LEMMA WriteOffKeepsSlots ==
    ASSUME IndInv, NEW c \in connected, NEW d0 \in Descriptors,
           canWriteOnFile' = [canWriteOnFile EXCEPT ![c][d0] = FALSE],
           UNCHANGED <<connected, openedFiles>>
    PROVE  /\ SlotTypes' /\ SlotsAreConsistent' /\ OthersUnchanged(c)
           /\ \A g \in Files : Opened(c, g) => Opened(c, g)'
<1>0. TypeOK /\ SlotsAreConsistent /\ c \in Clients
  BY DEF IndInv, TypeOK
<1>3. SlotTypes'
  <2>1. canWriteOnFile' \in [Clients -> [Descriptors -> BOOLEAN]]
    BY <1>0 DEF TypeOK
  <2>. QED BY <1>0, <2>1 DEF SlotTypes, TypeOK
<1>4. \A x \in Clients, d \in Descriptors :
         canWriteOnFile'[x][d] <=> (canWriteOnFile[x][d] /\ ~(x = c /\ d = d0))
  BY <1>0 DEF TypeOK
<1>5. SlotsAreConsistent'
  BY <1>0, <1>4, ClearedSlots
<1>6. OthersUnchanged(c) /\ \A g \in Files : Opened(c, g) => Opened(c, g)'
  BY DEF OthersUnchanged, Opened, OpenedSlots
<1>. QED BY <1>3, <1>5, <1>6

\* A session that starts or ends has no file open.
LEMMA EmptySessionKeepsSlots ==
    ASSUME IndInv, NEW c \in Clients,
           openedFiles' = [openedFiles EXCEPT ![c] = [d \in Descriptors |-> NULL]],
           canWriteOnFile' = [canWriteOnFile EXCEPT ![c] = [d \in Descriptors |-> FALSE]],
           connected' \in {connected \cup {c}, connected \ {c}}
    PROVE  SlotTypes' /\ SlotsAreConsistent' /\ OthersUnchanged(c) /\ connected' \subseteq Clients
<1>0. TypeOK /\ SlotsAreConsistent
  BY DEF IndInv
<1>1. SlotTypes'
  <2>1. openedFiles' \in [Clients -> [Descriptors -> Files \cup {NULL}]]
    BY <1>0 DEF TypeOK
  <2>2. canWriteOnFile' \in [Clients -> [Descriptors -> BOOLEAN]]
    BY <1>0 DEF TypeOK
  <2>. QED BY <2>1, <2>2 DEF SlotTypes
<1>2. \A x \in Clients, d \in Descriptors :
         /\ openedFiles'[x][d] = IF x = c THEN NULL ELSE openedFiles[x][d]
         /\ canWriteOnFile'[x][d] <=> (canWriteOnFile[x][d] /\ x # c)
  BY <1>0 DEF TypeOK
<1>3. SlotsAreConsistent'
  BY <1>0, <1>2, ClearedSlots
<1>4. OthersUnchanged(c) /\ connected' \subseteq Clients
  BY <1>0 DEF OthersUnchanged, TypeOK
<1>. QED BY <1>1, <1>3, <1>4

----------------------------------------------------------------------------
(* What the operations do to the locks.                                    *)

\* A client in a waiting queue has an unanswered request.
LEMMA WaiterIsBlocked ==
    ASSUME IndInv, NEW f \in Files, NEW i \in DOMAIN waitingQueue[f]
    PROVE  /\ waitingQueue[f][i] \in Clients /\ request[waitingQueue[f][i]] = f
           /\ f # NULL /\ f \in stored /\ owner[f] \notin {NoOwner, waitingQueue[f][i]}
<1>1. waitingQueue[f] \in Seq(Clients)
  BY DEF IndInv, TypeOK
<1>2. waitingQueue[f][i] \in Clients
  BY <1>1
<1>. QED BY <1>2, NULLAssumption DEF IndInv, WaitersAreBlocked

\* A change in the session of a client that is being served disturbs nobody who waits.
LEMMA SessionKeepsQueues ==
    ASSUME IndInv, NEW c \in Clients, request[c] = NULL, OthersUnchanged(c),
           UNCHANGED <<stored, owner, waitingQueue, pathnamePendingLock, clientsToNotify, request>>
    PROVE  /\ QueuesBounded' /\ WaitersAreBlocked' /\ EveryRequestIsPendingOnce'
           /\ OtherHoldersCanRelease(c)'
<1>1. QueuesBounded'
  BY DEF IndInv, QueuesBounded
<1>2. EveryRequestIsPendingOnce'
  BY DEF IndInv, EveryRequestIsPendingOnce, Waiters
<1>3. \A x \in Clients \ {c} : \A f : Opened(x, f) => Opened(x, f)'
  BY DEF OthersUnchanged, Opened, OpenedSlots
<1>4. WaitersAreBlocked'
  <2>1. ASSUME NEW f \in Files, NEW i \in DOMAIN waitingQueue[f]
        PROVE  LET x == waitingQueue[f][i]
               IN  /\ f \in stored /\ owner[f] \notin {NoOwner, x}
                   /\ x \in connected' /\ request[x] = f
                   /\ {d \in Descriptors : openedFiles'[x][d] = f} # {}
                   /\ pathnamePendingLock[x] = f
                   /\ \A j \in DOMAIN waitingQueue[f] : waitingQueue[f][j] = x => j = i
    <3>1. waitingQueue[f][i] \in Clients \ {c}
      BY WaiterIsBlocked
    <3>. QED BY <3>1 DEF IndInv, WaitersAreBlocked, Opened, OpenedSlots, OthersUnchanged
  <2>. QED BY <2>1 DEF WaitersAreBlocked, Opened, OpenedSlots
<1>5. OtherHoldersCanRelease(c)'
  <2>1. ASSUME NEW f \in Files, NEW x, x = owner[f], x \notin {NoOwner, c}
        PROVE  f \in stored /\ x \in connected' /\ Opened(x, f)'
    <3>1. x \in Clients \ {c} /\ f \in stored /\ x \in connected /\ Opened(x, f)
      BY <2>1 DEF IndInv, TypeOK, LockHolderCanRelease
    <3>. QED BY <1>3, <3>1 DEF OthersUnchanged
  <2>. QED BY <2>1 DEF OtherHoldersCanRelease
<1>. QED BY <1>1, <1>2, <1>4, <1>5

(***************************************************************************)
(* lockfile, called for a client that is being served and has the file     *)
(* open: either it gets the lock, or it is the last in the queue.          *)
(***************************************************************************)
LEMMA LockKeepsQueues ==
    ASSUME IndInv, NEW c \in Clients, request[c] = NULL, NEW f \in Files, lockfile(c, f),
           OthersUnchanged(c), c \in connected', Opened(c, f)',
           UNCHANGED <<stored, opStatus, clientsToNotify>>
    PROVE  /\ LockTypes' /\ QueuesBounded' /\ WaitersAreBlocked' /\ EveryRequestIsPendingOnce'
           /\ OtherHoldersCanRelease(c)' /\ f \in stored
           /\ request' \in [Clients -> Files \cup {NULL}]
           /\ \A x \in Clients \ {c} : request'[x] = request[x]
           /\ \A g \in Files : owner'[g] = c => g = f \/ owner[g] = c
<1>0. /\ TypeOK /\ WaitersAreBlocked /\ QueuesBounded /\ EveryRequestIsPendingOnce
      /\ LockHolderCanRelease /\ f # NULL
  BY NULLAssumption DEF IndInv
<1>1. \A x \in Clients \ {c} : \A g : Opened(x, g) => Opened(x, g)'
  BY DEF OthersUnchanged, Opened, OpenedSlots
<1>2. \A g \in Files : \A i \in DOMAIN waitingQueue[g] :
         /\ waitingQueue[g][i] \in Clients \ {c} /\ request[waitingQueue[g][i]] = g
         /\ g \in stored /\ owner[g] \notin {NoOwner, waitingQueue[g][i]}
  BY WaiterIsBlocked
<1>3. \A g \in Files : /\ waitingQueue[g] \in Seq(Clients)
                       /\ DOMAIN waitingQueue[g] = 1 .. Len(waitingQueue[g])
                       /\ Len(waitingQueue[g]) \in Nat
  BY <1>0 DEF TypeOK
<1>4. OtherHoldersCanRelease(c)'
  <2>1. \A g \in Files : owner'[g] \in {c, owner[g]}
    BY <1>0 DEF lockfile, TypeOK
  <2>2. ASSUME NEW g \in Files, NEW x, x = owner'[g], x \notin {NoOwner, c}
        PROVE  g \in stored /\ x \in connected' /\ Opened(x, g)'
    <3>1. x \in Clients \ {c} /\ g \in stored /\ x \in connected /\ Opened(x, g)
      BY <1>0, <2>1, <2>2 DEF TypeOK, LockHolderCanRelease
    <3>. QED BY <1>1, <3>1 DEF OthersUnchanged
  <2>. QED BY <2>2 DEF OtherHoldersCanRelease
<1>5. CASE /\ LockResult(c, f) = 1
           /\ owner' = [owner EXCEPT ![f] = c]
           /\ UNCHANGED <<waitingQueue, pathnamePendingLock, request>>
  <2>1. f \in stored /\ owner[f] \in {NoOwner, c}
    BY <1>5 DEF LockResult
  <2>2. \A g \in Files : owner'[g] = IF g = f THEN c ELSE owner[g]
    BY <1>0, <1>5 DEF TypeOK
  <2>3. LockTypes' /\ QueuesBounded' /\ EveryRequestIsPendingOnce'
    <3>1. LockTypes'
      BY <1>0, <1>5 DEF LockTypes, TypeOK
    <3>2. QueuesBounded'
      BY <1>0, <1>5 DEF QueuesBounded
    <3>3. EveryRequestIsPendingOnce'
      BY <1>0, <1>5 DEF EveryRequestIsPendingOnce, Waiters
    <3>. QED BY <3>1, <3>2, <3>3
  <2>4. WaitersAreBlocked'
    <3>1. ASSUME NEW g \in Files, NEW i \in DOMAIN waitingQueue[g]
          PROVE  LET x == waitingQueue[g][i]
                 IN  /\ g \in stored /\ owner'[g] \notin {NoOwner, x}
                     /\ x \in connected' /\ request[x] = g
                     /\ {d \in Descriptors : openedFiles'[x][d] = g} # {}
                     /\ pathnamePendingLock[x] = g
                     /\ \A j \in DOMAIN waitingQueue[g] : waitingQueue[g][j] = x => j = i
      <4>1. owner'[g] \notin {NoOwner, waitingQueue[g][i]}
        BY <1>2, <2>1, <2>2, NoOwnerAssumption
      <4>2. waitingQueue[g][i] \in Clients \ {c}
        BY <1>2
      <4>. QED BY <1>0, <4>1, <4>2 DEF WaitersAreBlocked, Opened, OpenedSlots, OthersUnchanged
    <3>. QED BY <1>5, <3>1 DEF WaitersAreBlocked, Opened, OpenedSlots
  <2>. QED BY <1>0, <1>4, <1>5, <2>1, <2>2, <2>3, <2>4 DEF TypeOK
<1>6. CASE /\ LockResult(c, f) = 0
           /\ waitingQueue' = [waitingQueue EXCEPT ![f] = Append(@, c)]
           /\ pathnamePendingLock' = [pathnamePendingLock EXCEPT ![c] = f]
           /\ request' = [request EXCEPT ![c] = f]
           /\ UNCHANGED owner
  <2>1. f \in stored /\ owner[f] \notin {NoOwner, c} /\ Len(waitingQueue[f]) < MaxWaiting
    BY <1>6 DEF LockResult
  <2>2. /\ \A g \in Files \ {f} : waitingQueue'[g] = waitingQueue[g]
        /\ waitingQueue'[f] = Append(waitingQueue[f], c)
        /\ \A x \in Clients \ {c} : /\ request'[x] = request[x]
                                    /\ pathnamePendingLock'[x] = pathnamePendingLock[x]
        /\ request'[c] = f /\ pathnamePendingLock'[c] = f
        /\ request' \in [Clients -> Files \cup {NULL}]
    BY <1>0, <1>6 DEF TypeOK
  <2>3. /\ waitingQueue'[f] \in Seq(Clients)
        /\ Len(waitingQueue'[f]) = Len(waitingQueue[f]) + 1
        /\ DOMAIN waitingQueue'[f] = 1 .. Len(waitingQueue[f]) + 1
        /\ waitingQueue'[f][Len(waitingQueue[f]) + 1] = c
        /\ \A i \in DOMAIN waitingQueue[f] :
              i \in DOMAIN waitingQueue'[f] /\ waitingQueue'[f][i] = waitingQueue[f][i]
    BY <1>3, <2>2
  <2>4. LockTypes' /\ QueuesBounded'
    <3>1. LockTypes'
      BY <1>0, <1>6 DEF LockTypes, TypeOK
    <3>2. QueuesBounded'
      BY <1>0, <1>3, <2>1, <2>2, <2>3, MaxWaitingAssumption DEF QueuesBounded
    <3>. QED BY <3>1, <3>2
  \* Where a place of a queue comes from.
  <2>5. ASSUME NEW g \in Files, NEW i \in DOMAIN waitingQueue'[g]
        PROVE  \/ i \in DOMAIN waitingQueue[g] /\ waitingQueue'[g][i] = waitingQueue[g][i]
                  /\ waitingQueue'[g][i] # c
               \/ g = f /\ waitingQueue'[g][i] = c /\ i = Len(waitingQueue[f]) + 1
    <3>1. CASE g # f
      BY <1>2, <2>2, <3>1
    <3>2. CASE g = f /\ i = Len(waitingQueue[f]) + 1
      BY <2>3, <3>2
    <3>3. CASE g = f /\ i # Len(waitingQueue[f]) + 1
      <4>1. i \in DOMAIN waitingQueue[f]
        BY <1>3, <2>3, <3>3
      <4>. QED BY <1>2, <2>3, <3>3, <4>1
    <3>. QED BY <3>1, <3>2, <3>3
  <2>6. WaitersAreBlocked'
    <3>1. ASSUME NEW g \in Files, NEW i \in DOMAIN waitingQueue'[g], NEW x, x = waitingQueue'[g][i]
          PROVE  /\ g \in stored /\ owner[g] \notin {NoOwner, x}
                 /\ x \in connected' /\ request'[x] = g
                 /\ {d \in Descriptors : openedFiles'[x][d] = g} # {}
                 /\ pathnamePendingLock'[x] = g
                 /\ \A j \in DOMAIN waitingQueue'[g] : waitingQueue'[g][j] = x => j = i
      <4>1. CASE i \in DOMAIN waitingQueue[g] /\ x = waitingQueue[g][i] /\ x # c
        <5>1. /\ g \in stored /\ owner[g] \notin {NoOwner, x}
              /\ x \in connected /\ request[x] = g /\ Opened(x, g) /\ pathnamePendingLock[x] = g
              /\ \A j \in DOMAIN waitingQueue[g] : waitingQueue[g][j] = x => j = i
          BY <1>0, <4>1 DEF WaitersAreBlocked
        <5>2. x \in Clients \ {c}
          BY <1>2, <4>1
        <5>3. \A j \in DOMAIN waitingQueue'[g] : waitingQueue'[g][j] = x => j = i
          BY <2>5, <4>1, <5>1
        <5>. QED BY <2>2, <5>1, <5>2, <5>3 DEF Opened, OpenedSlots, OthersUnchanged
      <4>2. CASE g = f /\ x = c /\ i = Len(waitingQueue[f]) + 1
        BY <2>1, <2>2, <2>5, <4>2 DEF Opened, OpenedSlots
      <4>. QED BY <2>5, <3>1, <4>1, <4>2
    <3>. QED BY <1>6, <3>1 DEF WaitersAreBlocked, Opened, OpenedSlots
  <2>7. EveryRequestIsPendingOnce'
    <3>1. SUFFICES ASSUME NEW x \in Clients
                   PROVE  LET waiting == request'[x] # NULL /\ x \in Waiters(waitingQueue'[request'[x]])
                          IN  /\ clientsToNotify[x] = IF request'[x] = NULL \/ waiting THEN 0 ELSE 1
                              /\ pathnamePendingLock'[x] = IF waiting THEN request'[x] ELSE NULL
      BY <1>6 DEF EveryRequestIsPendingOnce, Waiters
    <3>2. CASE x = c
      <4>1. clientsToNotify[c] = 0
        BY <1>0 DEF EveryRequestIsPendingOnce
      <4>2. c \in Waiters(waitingQueue'[f])
        BY <1>3, <2>3 DEF Waiters
      <4>. QED BY <1>0, <2>2, <3>2, <4>1, <4>2
    <3>3. CASE x # c
      <4>1. request[x] \in Files \cup {NULL} /\ request'[x] = request[x]
        BY <1>0, <2>2, <3>3 DEF TypeOK
      <4>2. ASSUME NEW g \in Files
            PROVE  x \in Waiters(waitingQueue'[g]) <=> x \in Waiters(waitingQueue[g])
        <5>1. x \in Waiters(waitingQueue'[g]) => x \in Waiters(waitingQueue[g])
          BY <2>5, <3>3 DEF Waiters
        <5>2. x \in Waiters(waitingQueue[g]) => x \in Waiters(waitingQueue'[g])
          BY <2>2, <2>3 DEF Waiters
        <5>. QED BY <5>1, <5>2
      <4>3. LET waiting == request[x] # NULL /\ x \in Waiters(waitingQueue[request[x]])
            IN  /\ clientsToNotify[x] = IF request[x] = NULL \/ waiting THEN 0 ELSE 1
                /\ pathnamePendingLock[x] = IF waiting THEN request[x] ELSE NULL
        BY <1>0 DEF EveryRequestIsPendingOnce
      <4>4. pathnamePendingLock'[x] = pathnamePendingLock[x]
        BY <2>2, <3>3
      <4>. QED BY <4>1, <4>2, <4>3, <4>4
    <3>. QED BY <3>2, <3>3
  <2>. QED BY <1>4, <1>6, <2>1, <2>2, <2>4, <2>6, <2>7
<1>. QED BY <1>5, <1>6 DEF lockfile

----------------------------------------------------------------------------
(* Every step preserves the invariant.                                     *)

\* A lock that c got or kept is on a stored file it has open: then all of them are.
LEMMA AllHoldersCanRelease ==
    ASSUME NEW c, OtherHoldersCanRelease(c)',
           \A f \in Files : owner'[f] = c => f \in stored' /\ c \in connected' /\ Opened(c, f)'
    PROVE  LockHolderCanRelease'
BY DEF OtherHoldersCanRelease, LockHolderCanRelease, Opened, OpenedSlots

\* A client with a session that is not waiting for an answer.
LEMMA ReadyClient ==
    ASSUME IndInv, NEW c \in Clients, Ready(c)
    PROVE  c \in connected /\ request[c] = NULL
BY DEF Ready

\* A fault changes nothing else.
LEMMA FailPreserves ==
    ASSUME IndInv, NEW kind \in Faults \ {"double_free"}, Fail(kind)
    PROVE  IndInv'
<1>. USE DEF Fail, cacheVars, lockVars, sessionVars
<1>1. TypeOK'
  BY DEF IndInv, TypeOK
<1>2. QueuesBounded' /\ BlockedAreConnected'
  BY DEF IndInv, QueuesBounded, BlockedAreConnected
<1>3. LockHolderCanRelease'
  BY DEF IndInv, LockHolderCanRelease, Opened, OpenedSlots
<1>4. WaitersAreBlocked'
  BY DEF IndInv, WaitersAreBlocked, Opened, OpenedSlots
<1>5. EveryRequestIsPendingOnce'
  BY DEF IndInv, EveryRequestIsPendingOnce, Waiters
<1>6. SlotsAreConsistent'
  BY DEF IndInv, SlotsAreConsistent, OpenedSlots
<1>7. NoDoubleFree'
  BY DEF NoDoubleFree
<1>. QED BY <1>1, <1>2, <1>3, <1>4, <1>5, <1>6, <1>7 DEF IndInv

\* A step that only moves the cache's ring or a reader's position in it.
LEMMA RingStepPreserves ==
    ASSUME IndInv, UNCHANGED <<stored, len, lockVars, sessionVars, request, fault>>
    PROVE  IndInv'
<1>. USE DEF lockVars, sessionVars
<1>1. TypeOK'
  BY DEF IndInv, TypeOK
<1>2. QueuesBounded' /\ BlockedAreConnected'
  BY DEF IndInv, QueuesBounded, BlockedAreConnected
<1>3. LockHolderCanRelease'
  BY DEF IndInv, LockHolderCanRelease, Opened, OpenedSlots
<1>4. WaitersAreBlocked'
  BY DEF IndInv, WaitersAreBlocked, Opened, OpenedSlots
<1>5. EveryRequestIsPendingOnce'
  BY DEF IndInv, EveryRequestIsPendingOnce, Waiters
<1>6. SlotsAreConsistent' /\ NoDoubleFree'
  BY DEF IndInv, SlotsAreConsistent, OpenedSlots, NoDoubleFree
<1>. QED BY <1>1, <1>2, <1>3, <1>4, <1>5, <1>6 DEF IndInv

\* A read of readNFiles is such an operation, whether or not it brings an expelled file back.
LEMMA ReadNextPreserves ==
    ASSUME IndInv, NEW c \in Clients, ReadNext(c)
    PROVE  IndInv'
<1>1. CASE Fail("dangling_read") \/ Fail("exit")
  BY <1>1, FailPreserves DEF Faults
<1>2. CASE UNCHANGED <<stored, len, lockVars, sessionVars, request, fault>>
  BY <1>2, RingStepPreserves
<1>3. CASE UNCHANGED <<stored, len, lockVars, sessionVars, request>> /\ fault' = "expelled_use"
  <2>. USE <1>3 DEF lockVars, sessionVars
  <2>1. TypeOK'
    BY DEF IndInv, TypeOK, Faults
  <2>2. QueuesBounded' /\ BlockedAreConnected'
    BY DEF IndInv, QueuesBounded, BlockedAreConnected
  <2>3. LockHolderCanRelease'
    BY DEF IndInv, LockHolderCanRelease, Opened, OpenedSlots
  <2>4. WaitersAreBlocked'
    BY DEF IndInv, WaitersAreBlocked, Opened, OpenedSlots
  <2>5. EveryRequestIsPendingOnce'
    BY DEF IndInv, EveryRequestIsPendingOnce, Waiters
  <2>6. SlotsAreConsistent' /\ NoDoubleFree'
    BY DEF IndInv, SlotsAreConsistent, OpenedSlots, NoDoubleFree
  <2>. QED BY <2>1, <2>2, <2>3, <2>4, <2>5, <2>6 DEF IndInv
<1>. QED BY <1>1, <1>2, <1>3 DEF ReadNext

\* A new session has no files, and its client waits for nothing.
LEMMA ConnectPreserves ==
    ASSUME IndInv, NEW c \in Clients, Connect(c)
    PROVE  IndInv'
<1>. USE DEF Connect, cacheVars
<1>1. /\ c \notin connected /\ request[c] = NULL
      /\ pathnamePendingLock[c] = NULL /\ TypeOK
  BY DEF IndInv, BlockedAreConnected, EveryRequestIsPendingOnce
<1>2. SlotTypes' /\ SlotsAreConsistent' /\ OthersUnchanged(c) /\ connected' \subseteq Clients
  BY EmptySessionKeepsSlots
<1>3. pathnamePendingLock' = pathnamePendingLock
  BY <1>1 DEF TypeOK
<1>4. /\ QueuesBounded' /\ WaitersAreBlocked' /\ EveryRequestIsPendingOnce'
      /\ OtherHoldersCanRelease(c)'
  BY <1>1, <1>2, <1>3, SessionKeepsQueues
<1>5. LockHolderCanRelease'
  <2>1. \A f \in Files : owner'[f] # c
    BY <1>1, NoOwnerAssumption DEF IndInv, LockHolderCanRelease
  <2>. QED BY <1>4, <2>1, AllHoldersCanRelease
<1>6. TypeOK'
  BY <1>1, <1>2, <1>3 DEF TypeOK, SlotTypes
<1>7. BlockedAreConnected' /\ NoDoubleFree'
  BY DEF IndInv, BlockedAreConnected, NoDoubleFree
<1>. QED BY <1>2, <1>4, <1>5, <1>6, <1>7 DEF IndInv

\* openFile of a new file, with what its insertion expels.
LEMMA CreateFilePreserves ==
    ASSUME IndInv, NEW c \in Clients, NEW f \in Files, NEW lock \in BOOLEAN, CreateFile(c, f, lock)
    PROVE  IndInv'
<1>. DEFINE inserted == handleInsertion(ring, len, f)
            expelled == InsertionVictims(ring) \cap stored
            newOwner == IF lock THEN [owner EXCEPT ![f] = c] ELSE owner
<1>0. /\ TypeOK /\ LockHolderCanRelease /\ BlockedAreConnected /\ NoDoubleFree
      /\ c \in connected /\ request[c] = NULL
      /\ f \notin stored /\ FreeSlots(c) # {}
  BY DEF IndInv, CreateFile, Ready, Creates
<1>1. CASE Fail("dangling_insertion") \/ Fail("exit")
  BY <1>1, FailPreserves DEF Faults
<1>2. CASE /\ stored' = (stored \cup {f}) \ expelled
           /\ len' = [g \in Files |-> IF g \in expelled THEN 0 ELSE len[g]]
           /\ remove_hashEntries(expelled, newOwner)
           /\ Open(c, f, TRUE, lock)
           /\ UNCHANGED <<request, toRead, fault>>
  <2>1. /\ SlotTypes' /\ SlotsAreConsistent' /\ OthersUnchanged(c) /\ Opened(c, f)'
        /\ \A g \in Files : Opened(c, g) => Opened(c, g)'
    BY <1>0, <1>2, OpenKeepsSlots
  <2>2. expelled \in SUBSET Files /\ expelled \subseteq stored
    BY <1>0 DEF TypeOK
  <2>. HIDE DEF expelled
  <2>3. /\ newOwner \in [Files -> Clients \cup {NoOwner}]
        /\ \A g \in Files : newOwner[g] = IF lock /\ g = f THEN c ELSE owner[g]
    BY <1>0 DEF TypeOK
  <2>. HIDE DEF newOwner
  <2>4. /\ LockTypes' /\ QueuesBounded' /\ WaitersAreBlocked' /\ EveryRequestIsPendingOnce'
        /\ OtherHoldersCanRelease(c)'
        /\ \A g \in Files : owner'[g] = c => newOwner[g] = c /\ g \notin expelled
    <3>1. \A g \in Files \ expelled :
             \/ newOwner[g] = owner[g] /\ (g \in stored => g \in stored')
             \/ newOwner[g] = c /\ g \notin stored
      BY <1>0, <1>2, <2>3
    <3>. QED BY <1>0, <1>2, <2>1, <2>2, <2>3, <3>1, RemovalKeepsQueues
  <2>5. LockHolderCanRelease'
    <3>1. ASSUME NEW g \in Files, owner'[g] = c
          PROVE  g \in stored' /\ c \in connected' /\ Opened(c, g)'
      <4>1. g \notin expelled /\ (g = f \/ owner[g] = c)
        BY <2>3, <2>4, <3>1
      <4>2. CASE g = f
        BY <1>0, <1>2, <2>1, <4>1, <4>2 DEF Open
      <4>3. CASE owner[g] = c
        BY <1>0, <1>2, <2>1, <4>1, <4>3, NoOwnerAssumption DEF LockHolderCanRelease, Open
      <4>. QED BY <4>1, <4>2, <4>3
    <3>. QED BY <2>4, <3>1, AllHoldersCanRelease
  <2>6. TypeOK'
    <3>1. len' \in [Files -> 0 .. MaxFileSize]
      BY <1>0, <1>2, MaxFileSizeAssumption DEF TypeOK
    <3>2. stored' \subseteq Files
      BY <1>0, <1>2 DEF TypeOK
    <3>. QED BY <1>0, <1>2, <2>1, <2>4, <3>1, <3>2 DEF TypeOK, SlotTypes, LockTypes, Open
  <2>7. BlockedAreConnected' /\ NoDoubleFree'
    BY <1>0, <1>2 DEF BlockedAreConnected, NoDoubleFree, Open
  <2>. QED BY <2>1, <2>4, <2>5, <2>6, <2>7 DEF IndInv
<1>. QED
  <2>1. \/ Fail("dangling_insertion") \/ Fail("exit")
        \/ /\ stored' = (stored \cup {f}) \ expelled
           /\ len' = [g \in Files |-> IF g \in expelled THEN 0 ELSE len[g]]
           /\ remove_hashEntries(expelled, newOwner)
           /\ Open(c, f, TRUE, lock)
           /\ UNCHANGED <<request, toRead, fault>>
    BY DEF CreateFile
  <2>. QED BY <1>1, <1>2, <2>1

\* openFile of a stored file: a refusal, an answer or a place in the queue.
LEMMA OpenStoredFilePreserves ==
    ASSUME IndInv, NEW c \in Clients, NEW f \in Files, NEW create \in BOOLEAN, NEW lock \in BOOLEAN,
           OpenStoredFile(c, f, create, lock)
    PROVE  IndInv'
<1>0. /\ TypeOK /\ LockHolderCanRelease /\ BlockedAreConnected /\ NoDoubleFree
      /\ c \in connected /\ request[c] = NULL /\ f \in stored
  BY DEF IndInv, OpenStoredFile, Ready, OpensStored
<1>1. CASE Fail("exit") \/ Fail("descriptor")
  BY <1>1, FailPreserves DEF Faults
<1>2. CASE /\ Opened(c, f) \/ FreeSlots(c) # {}
           /\ IF lock THEN lockfile(c, f)
              ELSE UNCHANGED <<owner, waitingQueue, pathnamePendingLock, request>>
           /\ Open(c, f, create, lock)
           /\ UNCHANGED <<stored, len, opStatus, clientsToNotify, toRead, fault>>
  <2>1. /\ SlotTypes' /\ SlotsAreConsistent' /\ OthersUnchanged(c) /\ Opened(c, f)'
        /\ \A g \in Files : Opened(c, g) => Opened(c, g)'
        /\ connected' = connected
    BY <1>0, <1>2, OpenKeepsSlots DEF Open
  <2>2. /\ LockTypes' /\ QueuesBounded' /\ WaitersAreBlocked' /\ EveryRequestIsPendingOnce'
        /\ OtherHoldersCanRelease(c)'
        /\ request' \in [Clients -> Files \cup {NULL}]
        /\ \A x \in Clients \ {c} : request'[x] = request[x]
        /\ \A g \in Files : owner'[g] = c => g = f \/ owner[g] = c
    <3>1. CASE lock
      BY <1>0, <1>2, <2>1, <3>1, LockKeepsQueues
    <3>2. CASE ~lock
      <4>1. UNCHANGED <<owner, waitingQueue, pathnamePendingLock, request>>
        BY <1>2, <3>2
      <4>2. /\ QueuesBounded' /\ WaitersAreBlocked' /\ EveryRequestIsPendingOnce'
            /\ OtherHoldersCanRelease(c)'
        BY <1>0, <1>2, <2>1, <4>1, SessionKeepsQueues
      <4>. QED BY <1>0, <1>2, <4>1, <4>2 DEF LockTypes, TypeOK
    <3>. QED BY <3>1, <3>2
  <2>3. LockHolderCanRelease'
    <3>1. \A g \in Files : owner'[g] = c => g \in stored' /\ c \in connected' /\ Opened(c, g)'
      BY <1>0, <1>2, <2>1, <2>2, NoOwnerAssumption DEF LockHolderCanRelease
    <3>. QED BY <2>2, <3>1, AllHoldersCanRelease
  <2>4. TypeOK'
    BY <1>0, <1>2, <2>1, <2>2 DEF TypeOK, SlotTypes, LockTypes
  <2>5. BlockedAreConnected' /\ NoDoubleFree'
    BY <1>0, <1>2, <2>1, <2>2 DEF BlockedAreConnected, NoDoubleFree
  <2>. QED BY <2>1, <2>2, <2>3, <2>4, <2>5 DEF IndInv
<1>. QED
  <2>1. \/ Fail("exit") \/ Fail("descriptor")
        \/ /\ Opened(c, f) \/ FreeSlots(c) # {}
           /\ IF lock THEN lockfile(c, f)
              ELSE UNCHANGED <<owner, waitingQueue, pathnamePendingLock, request>>
           /\ Open(c, f, create, lock)
           /\ UNCHANGED <<stored, len, opStatus, clientsToNotify, toRead, fault>>
    BY DEF OpenStoredFile
  <2>. QED BY <1>1, <1>2, <2>1

(***************************************************************************)
(* A file grows and others leave to make room: the locks of those go, and  *)
(* the client, which has the file open, can no longer write without lock.  *)
(***************************************************************************)
LEMMA EditFilePreserves ==
    ASSUME IndInv, NEW c \in Clients, NEW f \in Files, Ready(c), Opened(c, f),
           NEW size \in 0 .. MaxFileSize, EditFile(c, f, size)
    PROVE  IndInv'
<1>. DEFINE expelled == EditVictims(ring, len, f, size) \cap stored
            d0 == isFileOpened(c, f)
<1>0. /\ TypeOK /\ LockHolderCanRelease /\ BlockedAreConnected /\ NoDoubleFree
      /\ c \in connected /\ request[c] = NULL
  BY DEF IndInv, Ready
<1>1. CASE Fail("edit_overrun") \/ Fail("exit")
  BY <1>1, FailPreserves DEF Faults
<1>2. CASE /\ stored' = stored \ expelled
           /\ len' = [g \in Files |-> IF g = f THEN size ELSE IF g \in expelled THEN 0 ELSE len[g]]
           /\ remove_hashEntries(expelled, owner)
           /\ canWriteOnFile' = [canWriteOnFile EXCEPT ![c][d0] = FALSE]
           /\ UNCHANGED <<connected, openedFiles, request, toRead, fault>>
  <2>1. d0 \in Descriptors
    BY SlotOfOpenedFile
  <2>. HIDE DEF d0
  <2>2. /\ SlotTypes' /\ SlotsAreConsistent' /\ OthersUnchanged(c)
        /\ \A g \in Files : Opened(c, g) => Opened(c, g)'
    BY <1>0, <1>2, <2>1, WriteOffKeepsSlots
  <2>3. expelled \in SUBSET Files /\ owner \in [Files -> Clients \cup {NoOwner}]
    BY <1>0 DEF TypeOK
  <2>. HIDE DEF expelled
  <2>4. /\ LockTypes' /\ QueuesBounded' /\ WaitersAreBlocked' /\ EveryRequestIsPendingOnce'
        /\ OtherHoldersCanRelease(c)'
        /\ \A g \in Files : owner'[g] = c => owner[g] = c /\ g \notin expelled
    <3>1. \A g \in Files \ expelled : owner[g] = owner[g] /\ (g \in stored => g \in stored')
      BY <1>2
    <3>. QED BY <1>0, <1>2, <2>2, <2>3, <3>1, RemovalKeepsQueues
  <2>5. LockHolderCanRelease'
    <3>1. \A g \in Files : owner'[g] = c => g \in stored' /\ c \in connected' /\ Opened(c, g)'
      BY <1>0, <1>2, <2>2, <2>4, NoOwnerAssumption DEF LockHolderCanRelease
    <3>. QED BY <2>4, <3>1, AllHoldersCanRelease
  <2>6. TypeOK'
    <3>1. len' \in [Files -> 0 .. MaxFileSize]
      BY <1>0, <1>2, MaxFileSizeAssumption DEF TypeOK
    <3>2. stored' \subseteq Files
      BY <1>0, <1>2 DEF TypeOK
    <3>. QED BY <1>0, <1>2, <2>2, <2>4, <3>1, <3>2 DEF TypeOK, SlotTypes, LockTypes
  <2>7. BlockedAreConnected' /\ NoDoubleFree'
    BY <1>0, <1>2 DEF BlockedAreConnected, NoDoubleFree
  <2>. QED BY <2>2, <2>4, <2>5, <2>6, <2>7 DEF IndInv
<1>. QED
  <2>1. \/ Fail("edit_overrun") \/ Fail("exit")
        \/ /\ stored' = stored \ expelled
           /\ len' = [g \in Files |-> IF g = f THEN size ELSE IF g \in expelled THEN 0 ELSE len[g]]
           /\ remove_hashEntries(expelled, owner)
           /\ canWriteOnFile' = [canWriteOnFile EXCEPT ![c][d0] = FALSE]
           /\ UNCHANGED <<connected, openedFiles, request, toRead, fault>>
    BY DEF EditFile
  <2>. QED BY <1>1, <1>2, <2>1

\* lockFile: the lock or a place in the queue.
LEMMA LockFilePreserves ==
    ASSUME IndInv, NEW c \in Clients, NEW f \in Files, LockFile(c, f)
    PROVE  IndInv'
<1>0. /\ TypeOK /\ LockHolderCanRelease /\ BlockedAreConnected /\ NoDoubleFree /\ SlotsAreConsistent
      /\ c \in connected /\ request[c] = NULL
      /\ Opened(c, f) /\ lockfile(c, f)
      /\ UNCHANGED <<stored, len, connected, openedFiles, canWriteOnFile,
                     opStatus, clientsToNotify, fault>>
  BY DEF IndInv, LockFile, Ready, cacheVars, sessionVars
<1>1. OthersUnchanged(c) /\ \A g \in Files : Opened(c, g) => Opened(c, g)'
  BY <1>0 DEF OthersUnchanged, Opened, OpenedSlots
<1>2. /\ LockTypes' /\ QueuesBounded' /\ WaitersAreBlocked' /\ EveryRequestIsPendingOnce'
      /\ OtherHoldersCanRelease(c)' /\ f \in stored
      /\ request' \in [Clients -> Files \cup {NULL}]
      /\ \A x \in Clients \ {c} : request'[x] = request[x]
      /\ \A g \in Files : owner'[g] = c => g = f \/ owner[g] = c
  BY <1>0, <1>1, LockKeepsQueues
<1>3. LockHolderCanRelease'
  <2>1. \A g \in Files : owner'[g] = c => g \in stored' /\ c \in connected' /\ Opened(c, g)'
    BY <1>0, <1>1, <1>2, NoOwnerAssumption DEF LockHolderCanRelease
  <2>. QED BY <1>2, <2>1, AllHoldersCanRelease
<1>4. TypeOK'
  BY <1>0, <1>2 DEF TypeOK, LockTypes
<1>5. BlockedAreConnected' /\ NoDoubleFree' /\ SlotsAreConsistent'
  BY <1>0, <1>2 DEF BlockedAreConnected, NoDoubleFree, SlotsAreConsistent, OpenedSlots
<1>. QED BY <1>2, <1>3, <1>4, <1>5 DEF IndInv

\* unlockFile hands the lock to the first in the queue.
LEMMA UnlockFilePreserves ==
    ASSUME IndInv, NEW c \in Clients, NEW f \in Files, UnlockFile(c, f)
    PROVE  IndInv'
<1>. DEFINE d0 == isFileOpened(c, f)
            F == OwnedBy(c, {f})
<1>0. /\ TypeOK /\ LockHolderCanRelease /\ BlockedAreConnected /\ NoDoubleFree
      /\ c \in connected /\ request[c] = NULL /\ Opened(c, f)
      /\ unlockfiles(F)
      /\ canWriteOnFile' = [canWriteOnFile EXCEPT ![c][d0] = FALSE]
      /\ UNCHANGED <<stored, len, connected, openedFiles, request, fault>>
  BY DEF IndInv, UnlockFile, Ready, cacheVars
<1>1. d0 \in Descriptors
  BY <1>0, SlotOfOpenedFile
<1>2. F \in SUBSET Files /\ \A g \in F : owner[g] = c
  BY <1>0 DEF OwnedBy
<1>. HIDE DEF d0, F
<1>3. /\ SlotTypes' /\ SlotsAreConsistent' /\ OthersUnchanged(c)
      /\ \A g \in Files : Opened(c, g) => Opened(c, g)'
  BY <1>0, <1>1, WriteOffKeepsSlots
<1>4. /\ LockTypes' /\ QueuesBounded' /\ WaitersAreBlocked' /\ EveryRequestIsPendingOnce'
      /\ OtherHoldersCanRelease(c)'
      /\ \A g \in Files : owner'[g] = c => owner[g] = c /\ g \notin F
  BY <1>0, <1>2, <1>3, UnlockKeepsQueues
<1>5. LockHolderCanRelease'
  <2>1. \A g \in Files : owner'[g] = c => g \in stored' /\ c \in connected' /\ Opened(c, g)'
    BY <1>0, <1>3, <1>4, NoOwnerAssumption DEF LockHolderCanRelease
  <2>. QED BY <1>4, <2>1, AllHoldersCanRelease
<1>6. TypeOK'
  BY <1>0, <1>3, <1>4 DEF TypeOK, SlotTypes, LockTypes
<1>7. BlockedAreConnected' /\ NoDoubleFree'
  BY <1>0 DEF BlockedAreConnected, NoDoubleFree
<1>. QED BY <1>3, <1>4, <1>5, <1>6, <1>7 DEF IndInv

\* closeFile does so too if it held the lock.
LEMMA CloseFilePreserves ==
    ASSUME IndInv, NEW c \in Clients, NEW f \in Files, CloseFile(c, f)
    PROVE  IndInv'
<1>. DEFINE d0 == isFileOpened(c, f)
            F == OwnedBy(c, {f})
<1>0. /\ TypeOK /\ LockHolderCanRelease /\ BlockedAreConnected /\ NoDoubleFree
      /\ c \in connected /\ request[c] = NULL /\ Opened(c, f)
      /\ unlockfiles(F)
      /\ openedFiles' = [openedFiles EXCEPT ![c][d0] = NULL]
      /\ canWriteOnFile' = [canWriteOnFile EXCEPT ![c][d0] = FALSE]
      /\ UNCHANGED <<stored, len, connected, request, fault>>
  BY DEF IndInv, CloseFile, Ready, cacheVars
<1>1. d0 \in Descriptors /\ openedFiles[c][d0] = f
  BY <1>0, SlotOfOpenedFile
<1>2. F \in SUBSET Files /\ (\A g \in F : owner[g] = c) /\ (owner[f] = c => f \in F)
  BY <1>0, NoOwnerAssumption DEF OwnedBy, LockHolderCanRelease
<1>. HIDE DEF d0, F
<1>3. /\ SlotTypes' /\ SlotsAreConsistent' /\ OthersUnchanged(c)
      /\ \A g \in Files \ {f} : Opened(c, g) => Opened(c, g)'
  BY <1>0, <1>1, CloseKeepsSlots
<1>4. /\ LockTypes' /\ QueuesBounded' /\ WaitersAreBlocked' /\ EveryRequestIsPendingOnce'
      /\ OtherHoldersCanRelease(c)'
      /\ \A g \in Files : owner'[g] = c => owner[g] = c /\ g \notin F
  BY <1>0, <1>2, <1>3, UnlockKeepsQueues
<1>5. LockHolderCanRelease'
  <2>1. \A g \in Files : owner'[g] = c => g \in stored' /\ c \in connected' /\ Opened(c, g)'
    BY <1>0, <1>2, <1>3, <1>4, NoOwnerAssumption DEF LockHolderCanRelease
  <2>. QED BY <1>4, <2>1, AllHoldersCanRelease
<1>6. TypeOK'
  BY <1>0, <1>3, <1>4 DEF TypeOK, SlotTypes, LockTypes
<1>7. BlockedAreConnected' /\ NoDoubleFree'
  BY <1>0 DEF BlockedAreConnected, NoDoubleFree
<1>. QED BY <1>3, <1>4, <1>5, <1>6, <1>7 DEF IndInv

\* removeFile empties the queue of the file.
LEMMA RemoveFilePreserves ==
    ASSUME IndInv, NEW c \in Clients, NEW f \in Files, RemoveFile(c, f)
    PROVE  IndInv'
<1>. DEFINE d0 == isFileOpened(c, f)
<1>0. /\ TypeOK /\ LockHolderCanRelease /\ BlockedAreConnected /\ NoDoubleFree
      /\ c \in connected /\ request[c] = NULL /\ Opened(c, f)
      /\ openedFiles' = [openedFiles EXCEPT ![c][d0] = NULL]
      /\ canWriteOnFile' = [canWriteOnFile EXCEPT ![c][d0] = FALSE]
      /\ stored' = stored \ {f} /\ len' = [len EXCEPT ![f] = 0]
      /\ remove_hashEntries({f}, owner)
      /\ UNCHANGED <<connected, request, fault>>
  BY DEF IndInv, RemoveFile, Ready
<1>1. d0 \in Descriptors /\ openedFiles[c][d0] = f
  BY <1>0, SlotOfOpenedFile
<1>. HIDE DEF d0
<1>2. /\ SlotTypes' /\ SlotsAreConsistent' /\ OthersUnchanged(c)
      /\ \A g \in Files \ {f} : Opened(c, g) => Opened(c, g)'
  BY <1>0, <1>1, CloseKeepsSlots
<1>3. /\ LockTypes' /\ QueuesBounded' /\ WaitersAreBlocked' /\ EveryRequestIsPendingOnce'
      /\ OtherHoldersCanRelease(c)'
      /\ \A g \in Files : owner'[g] = c => owner[g] = c /\ g \notin {f}
  <2>1. \A g \in Files \ {f} : owner[g] = owner[g] /\ (g \in stored => g \in stored')
    BY <1>0
  <2>2. {f} \in SUBSET Files /\ owner \in [Files -> Clients \cup {NoOwner}]
    BY <1>0 DEF TypeOK
  <2>. QED BY <1>0, <1>2, <2>1, <2>2, RemovalKeepsQueues
<1>4. LockHolderCanRelease'
  <2>1. \A g \in Files : owner'[g] = c => g \in stored' /\ c \in connected' /\ Opened(c, g)'
    BY <1>0, <1>2, <1>3, NoOwnerAssumption DEF LockHolderCanRelease
  <2>. QED BY <1>3, <2>1, AllHoldersCanRelease
<1>5. TypeOK'
  <2>1. len' \in [Files -> 0 .. MaxFileSize] /\ stored' \subseteq Files
    BY <1>0, MaxFileSizeAssumption DEF TypeOK
  <2>. QED BY <1>0, <1>2, <1>3, <2>1 DEF TypeOK, SlotTypes, LockTypes
<1>6. BlockedAreConnected' /\ NoDoubleFree'
  BY <1>0 DEF BlockedAreConnected, NoDoubleFree
<1>. QED BY <1>2, <1>3, <1>4, <1>5, <1>6 DEF IndInv

\* The end of a connection hands the locks of its client over and ends its session.
LEMMA ConnectionClosedPreserves ==
    ASSUME IndInv, NEW c \in Clients, ConnectionClosed(c)
    PROVE  IndInv'
<1>. DEFINE F == OwnedBy(c, {openedFiles[c][d] : d \in Descriptors})
<1>0. /\ TypeOK /\ LockHolderCanRelease /\ BlockedAreConnected /\ NoDoubleFree
      /\ c \in connected /\ request[c] = NULL /\ pathnamePendingLock[c] = NULL
  BY DEF IndInv, ConnectionClosed, Ready, EveryRequestIsPendingOnce
<1>1. /\ unlockfiles(F)
      /\ connected' = connected \ {c}
      /\ openedFiles' = [openedFiles EXCEPT ![c] = [d \in Descriptors |-> NULL]]
      /\ canWriteOnFile' = [canWriteOnFile EXCEPT ![c] = [d \in Descriptors |-> FALSE]]
      /\ UNCHANGED <<stored, len, request, fault>>
  BY <1>0 DEF ConnectionClosed, cacheVars
<1>2. /\ F \in SUBSET Files /\ \A g \in F : owner[g] = c
      /\ \A g \in Files : owner[g] = c => g \in F
  BY <1>0, NoOwnerAssumption DEF OwnedBy, LockHolderCanRelease, Opened, OpenedSlots, TypeOK
<1>. HIDE DEF F
<1>3. SlotTypes' /\ SlotsAreConsistent' /\ OthersUnchanged(c) /\ connected' \subseteq Clients
  BY <1>1, EmptySessionKeepsSlots
<1>4. /\ LockTypes' /\ QueuesBounded' /\ WaitersAreBlocked' /\ EveryRequestIsPendingOnce'
      /\ OtherHoldersCanRelease(c)'
      /\ \A g \in Files : owner'[g] = c => owner[g] = c /\ g \notin F
  BY <1>0, <1>1, <1>2, <1>3, UnlockKeepsQueues
<1>5. LockHolderCanRelease'
  BY <1>2, <1>4, AllHoldersCanRelease
<1>6. TypeOK'
  BY <1>0, <1>1, <1>3, <1>4 DEF TypeOK, SlotTypes, LockTypes
<1>7. BlockedAreConnected' /\ NoDoubleFree'
  BY <1>0, <1>1 DEF BlockedAreConnected, NoDoubleFree
<1>. QED BY <1>3, <1>4, <1>5, <1>6, <1>7 DEF IndInv

\* The notifier answers what an earlier step decided.
LEMMA NotifyPreserves ==
    ASSUME IndInv, NEW c \in Clients, Notify(c)
    PROVE  IndInv'
<1>. USE DEF Notify, Answer, cacheVars, sessionVars
<1>0. TypeOK /\ EveryRequestIsPendingOnce
  BY DEF IndInv
\* The client's only request is with the notifier, so it is in no queue.
<1>1. /\ request[c] # NULL /\ clientsToNotify[c] = 1 /\ pathnamePendingLock[c] = NULL
      /\ \A f \in Files : \A i \in DOMAIN waitingQueue[f] : waitingQueue[f][i] # c
  <2>1. /\ request[c] # NULL /\ clientsToNotify[c] = 1 /\ pathnamePendingLock[c] = NULL
        /\ c \notin Waiters(waitingQueue[request[c]])
    BY <1>0 DEF EveryRequestIsPendingOnce
  <2>2. \A f \in Files : \A i \in DOMAIN waitingQueue[f] : waitingQueue[f][i] # c
    BY <2>1, WaiterIsBlocked DEF Waiters
  <2>. QED BY <2>1, <2>2
<1>2. /\ \A x \in Clients \ {c} : /\ request'[x] = request[x]
                                  /\ clientsToNotify'[x] = clientsToNotify[x]
      /\ request'[c] = NULL /\ clientsToNotify'[c] = 0
  BY <1>0, <1>1 DEF TypeOK
<1>3. TypeOK'
  <2>1. clientsToNotify' \in [Clients -> Nat]
    BY <1>0, <1>1 DEF TypeOK
  <2>2. request' \in [Clients -> Files \cup {NULL}]
    BY <1>0 DEF TypeOK
  <2>. QED BY <1>0, <2>1, <2>2 DEF TypeOK
<1>4. QueuesBounded' /\ BlockedAreConnected' /\ NoDoubleFree'
  BY <1>2 DEF IndInv, QueuesBounded, BlockedAreConnected, NoDoubleFree
<1>5. LockHolderCanRelease' /\ SlotsAreConsistent'
  BY DEF IndInv, LockHolderCanRelease, Opened, OpenedSlots, SlotsAreConsistent
<1>6. WaitersAreBlocked'
  <2>1. ASSUME NEW f \in Files, NEW i \in DOMAIN waitingQueue[f]
        PROVE  request'[waitingQueue[f][i]] = f
    BY <1>1, <1>2, WaiterIsBlocked
  <2>. QED BY <2>1 DEF IndInv, WaitersAreBlocked, Opened, OpenedSlots
<1>7. EveryRequestIsPendingOnce'
  <2>1. SUFFICES ASSUME NEW x \in Clients
                 PROVE  LET waiting == request'[x] # NULL /\ x \in Waiters(waitingQueue[request'[x]])
                        IN  /\ clientsToNotify'[x] = IF request'[x] = NULL \/ waiting THEN 0 ELSE 1
                            /\ pathnamePendingLock[x] = IF waiting THEN request'[x] ELSE NULL
    BY DEF EveryRequestIsPendingOnce, Waiters
  <2>2. CASE x = c
    BY <1>1, <1>2, <2>2
  <2>3. CASE x # c
    BY <1>0, <1>2, <2>3 DEF EveryRequestIsPendingOnce
  <2>. QED BY <2>2, <2>3
<1>. QED BY <1>3, <1>4, <1>5, <1>6, <1>7 DEF IndInv

----------------------------------------------------------------------------
\* Nobody has a session at the start.
LEMMA InitEstablishes == Init => IndInv
<1>. SUFFICES ASSUME Init
              PROVE  IndInv
  OBVIOUS
<1>. USE DEF Init
<1>1. TypeOK
  BY MaxFileSizeAssumption DEF TypeOK
<1>2. QueuesBounded
  BY MaxWaitingAssumption DEF QueuesBounded
<1>3. BlockedAreConnected /\ LockHolderCanRelease /\ WaitersAreBlocked
  BY DEF BlockedAreConnected, LockHolderCanRelease, WaitersAreBlocked
<1>4. EveryRequestIsPendingOnce
  BY DEF EveryRequestIsPendingOnce
<1>5. SlotsAreConsistent /\ NoDoubleFree
  BY NoFaultAssumption DEF SlotsAreConsistent, NoDoubleFree, Faults
<1>. QED BY <1>1, <1>2, <1>3, <1>4, <1>5 DEF IndInv

\* One case for each action.
LEMMA NextPreserves == IndInv /\ [Next]_vars => IndInv'
<1>. SUFFICES ASSUME IndInv, [Next]_vars
              PROVE  IndInv'
  OBVIOUS
<1>1. ASSUME NEW c \in Clients, NEW f \in Files, FileOperation(c, f)
      PROVE  IndInv'
  <2>1. ASSUME NEW lock \in BOOLEAN, CreateFile(c, f, lock)
        PROVE  IndInv'
    BY <2>1, CreateFilePreserves
  <2>2. ASSUME NEW create \in BOOLEAN, NEW lock \in BOOLEAN, OpenStoredFile(c, f, create, lock)
        PROVE  IndInv'
    BY <2>2, OpenStoredFilePreserves
  <2>3. ASSUME NEW size \in 0 .. MaxFileSize, WriteFile(c, f, size)
        PROVE  IndInv'
    BY <2>3, EditFilePreserves DEF WriteFile
  <2>4. ASSUME NEW size \in 0 .. MaxFileSize, AppendToFile(c, f, size)
        PROVE  IndInv'
    <3>1. len[f] + size \in 0 .. MaxFileSize
      BY <2>4, MaxFileSizeAssumption DEF AppendToFile, IndInv, TypeOK
    <3>. QED BY <2>4, <3>1, EditFilePreserves DEF AppendToFile
  <2>5. CASE ReadFile(c, f)
    BY <2>5, RingStepPreserves, FailPreserves DEF ReadFile, Faults
  <2>6. CASE LockFile(c, f)
    BY <2>6, LockFilePreserves
  <2>7. CASE UnlockFile(c, f)
    BY <2>7, UnlockFilePreserves
  <2>8. CASE CloseFile(c, f)
    BY <2>8, CloseFilePreserves
  <2>9. CASE RemoveFile(c, f)
    BY <2>9, RemoveFilePreserves
  <2>. QED BY <1>1, <2>1, <2>2, <2>3, <2>4, <2>5, <2>6, <2>7, <2>8, <2>9 DEF FileOperation
<1>2. ASSUME NEW c \in Clients, Connect(c)
      PROVE  IndInv'
  BY <1>2, ConnectPreserves
<1>3. ASSUME NEW c \in Clients, NEW n \in SampleSizes, ReadNFiles(c, n)
      PROVE  IndInv'
  BY <1>3, RingStepPreserves DEF ReadNFiles, cacheVars
<1>4. ASSUME NEW c \in Clients, ReadNext(c) \/ FreeExpelled(c)
      PROVE  IndInv'
  BY <1>4, ReadNextPreserves, RingStepPreserves DEF FreeExpelled
<1>5. ASSUME NEW c \in Clients, ConnectionClosed(c)
      PROVE  IndInv'
  BY <1>5, ConnectionClosedPreserves
<1>6. ASSUME NEW c \in Clients, Notify(c)
      PROVE  IndInv'
  BY <1>6, NotifyPreserves
<1>7. CASE UNCHANGED vars
  BY <1>7, RingStepPreserves DEF vars, lockVars, sessionVars
<1>. QED BY <1>1, <1>2, <1>3, <1>4, <1>5, <1>6, <1>7 DEF Next

\* The conjunction of what is proved about the locks, in every reachable state.
THEOREM Invariance == Spec => []IndInv
<1>. QED BY InitEstablishes, NextPreserves, PTL DEF Spec

\* Every variable that carries locks and sessions keeps its type (see TypeOK).
THEOREM TypeCorrect == Spec => []TypeOK
<1>1. IndInv => TypeOK
  BY DEF IndInv
<1>. QED BY <1>1, Invariance, PTL

\* A lock is always held by a connected client that has the file open (files.c:179-314).
THEOREM LocksCanBeReleased == Spec => []LockHolderCanRelease
<1>1. IndInv => LockHolderCanRelease
  BY DEF IndInv
<1>. QED BY <1>1, Invariance, PTL

\* A request in a waiting queue is the one its client is blocked on (files.c:179-249).
THEOREM WaitersWait == Spec => []WaitersAreBlocked
<1>1. IndInv => WaitersAreBlocked
  BY DEF IndInv
<1>. QED BY <1>1, Invariance, PTL

\* No queued request is forgotten and none is answered twice (files.c:107-125, 219-241).
THEOREM RequestsArePendingOnce == Spec => []EveryRequestIsPendingOnce
<1>1. IndInv => EveryRequestIsPendingOnce
  BY DEF IndInv
<1>. QED BY <1>1, Invariance, PTL

\* clean_pending_lock_request never frees a path name twice (files.c:256-286).
THEOREM NeverFreedTwice == Spec => []NoDoubleFree
<1>1. IndInv => NoDoubleFree
  BY DEF IndInv
<1>. QED BY <1>1, Invariance, PTL

\* No session has a file open twice, or a right to write without a file (session.c).
THEOREM SlotsConsistent == Spec => []SlotsAreConsistent
<1>1. IndInv => SlotsAreConsistent
  BY DEF IndInv
<1>. QED BY <1>1, Invariance, PTL

----------------------------------------------------------------------------
(***************************************************************************)
(* How a wait ends.  The steps are sorted by what they do to the queues:   *)
(* nothing, an unlock, or a removal.                                       *)
(***************************************************************************)

\* No lock that is waited for changes hands and no wait ends.
Quiet ==
    /\ \A f \in Files : waitingQueue[f] # << >> => owner'[f] = owner[f]
    /\ \A x \in Clients : pathnamePendingLock[x] # NULL => pathnamePendingLock'[x] # NULL

\* Files are unlocked and stay in the store.
Unlocks == UNCHANGED stored /\ \E F \in SUBSET stored : unlockfiles(F)

\* Files leave the store; the locks of the others stay where they are.
Removes ==
    \E F \in SUBSET Files, newOwner \in [Files -> Clients \cup {NoOwner}] :
        /\ F \cap stored' = {}
        /\ \A f \in stored \ F : newOwner[f] = owner[f]
        /\ remove_hashEntries(F, newOwner)

\* The next owner of a lock is the first who waits for it, if somebody does.
FirstIsNext ==
    \A f \in stored \cap stored' :
        waitingQueue[f] # << >> /\ owner'[f] # owner[f] => owner'[f] = Head(waitingQueue[f])

\* A client whose wait ends has the lock and is told so, or the file is gone and it is told so.
EndsWithReason ==
    \A c \in Clients :
        pathnamePendingLock[c] # NULL /\ pathnamePendingLock'[c] = NULL =>
            LET f == pathnamePendingLock[c]
            IN  IF f \in stored' THEN owner'[f] = c /\ opStatus'[c] ELSE ~opStatus'[c]

----------------------------------------------------------------------------
(* The steps, sorted.                                                      *)

\* Only a lock nobody holds, or the requester's own, is acquired; neither is waited for
\* by anybody else.
LEMMA AcquiringIsQuiet ==
    ASSUME IndInv, NEW c \in Clients, NEW f \in Files, request[c] = NULL, lockfile(c, f)
    PROVE  Quiet
<1>0. TypeOK /\ WaitersAreBlocked /\ EveryRequestIsPendingOnce
  BY DEF IndInv
<1>1. CASE LockResult(c, f) = 1 /\ owner' = [owner EXCEPT ![f] = c]
           /\ UNCHANGED pathnamePendingLock
  <2>1. owner[f] \in {NoOwner, c}
    BY <1>1 DEF LockResult
  <2>2. ASSUME NEW g \in Files, waitingQueue[g] # << >>
        PROVE  owner'[g] = owner[g]
    <3>1. waitingQueue[g] \in Seq(Clients)
      BY <1>0 DEF TypeOK
    <3>2. 1 \in DOMAIN waitingQueue[g]
      BY <2>2, <3>1
    <3>3. owner[g] # NoOwner
      BY <1>0, <3>2 DEF WaitersAreBlocked
    <3>. QED BY <1>0, <1>1, <2>1, <3>3 DEF TypeOK
  <2>. QED BY <1>1, <2>2 DEF Quiet
<1>2. CASE /\ pathnamePendingLock' = [pathnamePendingLock EXCEPT ![c] = f]
           /\ UNCHANGED owner
  BY <1>0, <1>2, NULLAssumption DEF Quiet, TypeOK
<1>. QED BY <1>1, <1>2 DEF lockfile

\* A step that leaves the locks and the queues alone.
LEMMA UntouchedIsQuiet ==
    ASSUME UNCHANGED <<owner, pathnamePendingLock>>
    PROVE  Quiet
BY DEF Quiet

\* A fault takes no request out of a queue.
LEMMA FailIsQuiet ==
    ASSUME NEW kind, Fail(kind)
    PROVE  Quiet
BY UntouchedIsQuiet DEF Fail, lockVars

\* A new session has no pending request: its client had no session before.
LEMMA ConnectIsQuiet ==
    ASSUME IndInv, NEW c \in Clients, Connect(c)
    PROVE  Quiet
<1>0. TypeOK /\ EveryRequestIsPendingOnce /\ BlockedAreConnected
  BY DEF IndInv
<1>1. pathnamePendingLock[c] = NULL
  BY <1>0 DEF Connect, EveryRequestIsPendingOnce, BlockedAreConnected
<1>. QED BY <1>0, <1>1 DEF Connect, Quiet, TypeOK

\* The file created takes no lock from anybody; those that leave for it are removed.
LEMMA CreateFileRemoves ==
    ASSUME IndInv, NEW c \in Clients, NEW f \in Files, NEW lock \in BOOLEAN, CreateFile(c, f, lock)
    PROVE  Quiet \/ Removes
<1>. DEFINE expelled == InsertionVictims(ring) \cap stored
            newOwner == IF lock THEN [owner EXCEPT ![f] = c] ELSE owner
<1>0. TypeOK /\ f \notin stored
  BY DEF IndInv, CreateFile, Creates
<1>1. CASE Fail("dangling_insertion") \/ Fail("exit")
  BY <1>1, FailIsQuiet
<1>2. CASE stored' = (stored \cup {f}) \ expelled /\ remove_hashEntries(expelled, newOwner)
  <2>1. expelled \in SUBSET Files
    BY <1>0 DEF TypeOK
  <2>. HIDE DEF expelled
  <2>2. newOwner \in [Files -> Clients \cup {NoOwner}]
    BY <1>0 DEF TypeOK
  <2>3. \A g \in stored \ expelled : newOwner[g] = owner[g]
    BY <1>0 DEF TypeOK
  <2>. HIDE DEF newOwner
  <2>. QED BY <1>2, <2>1, <2>2, <2>3 DEF Removes
<1>. QED BY <1>1, <1>2 DEF CreateFile

\* Opening a stored file takes none out either: at most it adds one.
LEMMA OpenStoredFileIsQuiet ==
    ASSUME IndInv, NEW c \in Clients, NEW f \in Files, NEW create \in BOOLEAN, NEW lock \in BOOLEAN,
           OpenStoredFile(c, f, create, lock)
    PROVE  Quiet
<1>1. CASE Fail("exit") \/ Fail("descriptor")
  BY <1>1, FailIsQuiet
<1>2. CASE lockfile(c, f)
  BY <1>2, AcquiringIsQuiet DEF OpenStoredFile, Ready
<1>3. CASE UNCHANGED <<owner, pathnamePendingLock>>
  BY <1>3, UntouchedIsQuiet
<1>. QED BY <1>1, <1>2, <1>3 DEF OpenStoredFile

\* An edit empties the queues of the files it expels, if any.
LEMMA EditFileRemoves ==
    ASSUME IndInv, NEW c \in Clients, NEW f \in Files, NEW newSize, EditFile(c, f, newSize)
    PROVE  Quiet \/ Removes
<1>. DEFINE expelled == EditVictims(ring, len, f, newSize) \cap stored
<1>0. TypeOK
  BY DEF IndInv
<1>1. CASE Fail("edit_overrun") \/ Fail("exit")
  BY <1>1, FailIsQuiet
<1>2. CASE stored' = stored \ expelled /\ remove_hashEntries(expelled, owner)
  <2>1. expelled \in SUBSET Files
    BY <1>0 DEF TypeOK
  <2>. HIDE DEF expelled
  <2>. QED BY <1>0, <1>2, <2>1 DEF Removes, TypeOK
<1>. QED BY <1>1, <1>2 DEF EditFile

\* removeFile empties the queue of its file.
LEMMA RemoveFileRemoves ==
    ASSUME IndInv, NEW c \in Clients, NEW f \in Files, RemoveFile(c, f)
    PROVE  Removes
<1>1. TypeOK
  BY DEF IndInv
<1>2. {f} \in SUBSET Files /\ {f} \cap stored' = {} /\ remove_hashEntries({f}, owner)
  BY DEF RemoveFile
<1>3. owner \in [Files -> Clients \cup {NoOwner}] /\ \A g \in stored \ {f} : owner[g] = owner[g]
  BY <1>1 DEF TypeOK
<1>. QED BY <1>2, <1>3 DEF Removes

\* Whoever unlocks, closes or disconnects unlocks stored files.
LEMMA OwnedAreStored ==
    \A c, F : OwnedBy(c, F) \in SUBSET stored
BY DEF OwnedBy

\* So every step does one of three things to the queues.
LEMMA StepsSorted ==
    ASSUME IndInv, [Next]_vars
    PROVE  Quiet \/ Unlocks \/ Removes
<1>1. ASSUME NEW c \in Clients, NEW f \in Files, FileOperation(c, f)
      PROVE  Quiet \/ Unlocks \/ Removes
  <2>1. ASSUME NEW lock \in BOOLEAN, CreateFile(c, f, lock)
        PROVE  Quiet \/ Removes
    BY <2>1, CreateFileRemoves
  <2>2. ASSUME NEW create \in BOOLEAN, NEW lock \in BOOLEAN, OpenStoredFile(c, f, create, lock)
        PROVE  Quiet
    BY <2>2, OpenStoredFileIsQuiet
  <2>3. ASSUME NEW size \in 0 .. MaxFileSize, WriteFile(c, f, size) \/ AppendToFile(c, f, size)
        PROVE  Quiet \/ Removes
    BY <2>3, EditFileRemoves DEF WriteFile, AppendToFile
  <2>4. CASE ReadFile(c, f)
    BY <2>4, FailIsQuiet, UntouchedIsQuiet DEF ReadFile, lockVars
  <2>5. CASE LockFile(c, f)
    BY <2>5, AcquiringIsQuiet DEF LockFile, Ready
  <2>6. CASE UnlockFile(c, f) \/ CloseFile(c, f)
    BY <2>6, OwnedAreStored DEF UnlockFile, CloseFile, Unlocks, cacheVars
  <2>7. CASE RemoveFile(c, f)
    BY <2>7, RemoveFileRemoves
  <2>. QED BY <1>1, <2>1, <2>2, <2>3, <2>4, <2>5, <2>6, <2>7 DEF FileOperation
<1>2. ASSUME NEW c \in Clients, Connect(c)
      PROVE  Quiet
  BY <1>2, ConnectIsQuiet
<1>3. ASSUME NEW c \in Clients, ConnectionClosed(c)
      PROVE  Quiet \/ Unlocks
  BY <1>3, FailIsQuiet, OwnedAreStored DEF ConnectionClosed, Unlocks, cacheVars
<1>4. ASSUME NEW c \in Clients,
             \/ \E n \in SampleSizes : ReadNFiles(c, n)
             \/ ReadNext(c) \/ FreeExpelled(c) \/ Notify(c)
      PROVE  Quiet
  BY <1>4, FailIsQuiet, UntouchedIsQuiet
     DEF ReadNFiles, ReadNext, FreeExpelled, Notify, Answer, lockVars
<1>5. CASE UNCHANGED vars
  BY <1>5, UntouchedIsQuiet DEF vars
<1>. QED BY <1>1, <1>2, <1>3, <1>4, <1>5 DEF Next

----------------------------------------------------------------------------
(* What each sort of step does.                                            *)

\* Whoever is taken from a queue by the notifier waited for the file of that queue.
LEMMA HitsWaited ==
    ASSUME IndInv, NEW P \in SUBSET Queued(Files), NEW x \in Clients, Hit(P, x)
    PROVE  \E p \in P : /\ p[1] \in Files /\ p[2] \in DOMAIN waitingQueue[p[1]]
                        /\ waitingQueue[p[1]][p[2]] = x
                        /\ pathnamePendingLock[x] = p[1] /\ p[1] \in stored
<1>1. PICK p \in P : waitingQueue[p[1]][p[2]] = x
  BY DEF Hit
<1>2. p[1] \in Files /\ p[2] \in DOMAIN waitingQueue[p[1]]
  BY DEF Queued
<1>. QED BY <1>1, <1>2 DEF IndInv, WaitersAreBlocked

\* A step that hands locks over gives each to the first in its queue, and tells it so.
LEMMA UnlocksHandOver ==
    ASSUME IndInv, Unlocks
    PROVE  FirstIsNext /\ EndsWithReason
<1>0. TypeOK /\ WaitersAreBlocked
  BY DEF IndInv
<1>1. PICK F \in SUBSET stored : unlockfiles(F)
  BY DEF Unlocks
<1>. DEFINE P == {p \in Queued(F) : p[2] = 1}
<1>2. F \in SUBSET Files /\ stored \subseteq Files
  BY <1>0, <1>1 DEF TypeOK
<1>3. P \in SUBSET Queued(F) /\ P \in SUBSET Queued(Files)
  BY <1>2 DEF Queued
<1>4. Notified(P, TRUE)
  BY <1>1 DEF unlockfiles
<1>5. FirstIsNext
  BY <1>1, <1>2 DEF FirstIsNext, unlockfiles
<1>6. ASSUME NEW x \in Clients, pathnamePendingLock[x] # NULL, pathnamePendingLock'[x] = NULL
      PROVE  LET f == pathnamePendingLock[x]
             IN  IF f \in stored' THEN owner'[f] = x /\ opStatus'[x] ELSE ~opStatus'[x]
  <2>. HIDE DEF P
  <2>1. Hit(P, x) /\ opStatus'[x] = TRUE
    BY <1>0, <1>2, <1>3, <1>4, <1>6, NotifiedEffect
  <2>2. PICK p \in P : /\ p[1] \in Files /\ p[2] \in DOMAIN waitingQueue[p[1]]
                       /\ waitingQueue[p[1]][p[2]] = x
                       /\ pathnamePendingLock[x] = p[1] /\ p[1] \in stored
    BY <1>3, <2>1, HitsWaited
  <2>3. p[2] = 1 /\ p[1] \in F
    BY <2>2 DEF P, Queued
  <2>4. waitingQueue[p[1]] \in Seq(Clients) /\ waitingQueue[p[1]] # << >>
    BY <1>0, <2>2, <2>3 DEF TypeOK
  <2>5. owner'[p[1]] = Head(waitingQueue[p[1]])
    BY <1>1, <1>2, <2>2, <2>3, <2>4 DEF unlockfiles
  <2>6. Head(waitingQueue[p[1]]) = x
    BY <2>2, <2>3, <2>4
  <2>. QED BY <2>1, <2>2, <2>5, <2>6 DEF Unlocks
<1>. QED BY <1>5, <1>6 DEF EndsWithReason

\* A step that removes files tells all who waited for them that they are gone.
LEMMA RemovesTell ==
    ASSUME IndInv, Removes
    PROVE  FirstIsNext /\ EndsWithReason
<1>0. TypeOK /\ WaitersAreBlocked
  BY DEF IndInv
<1>1. PICK F \in SUBSET Files, newOwner \in [Files -> Clients \cup {NoOwner}] :
         /\ F \cap stored' = {}
         /\ \A f \in stored \ F : newOwner[f] = owner[f]
         /\ remove_hashEntries(F, newOwner)
  BY DEF Removes
<1>2. FirstIsNext
  BY <1>0, <1>1 DEF FirstIsNext, remove_hashEntries, TypeOK
<1>3. Queued(F) \in SUBSET Queued(Files)
  BY DEF Queued
<1>4. ASSUME NEW x \in Clients, pathnamePendingLock[x] # NULL, pathnamePendingLock'[x] = NULL
      PROVE  LET f == pathnamePendingLock[x]
             IN  IF f \in stored' THEN owner'[f] = x /\ opStatus'[x] ELSE ~opStatus'[x]
  <2>1. Notified(Queued(F), FALSE)
    BY <1>1 DEF remove_hashEntries
  <2>2. Hit(Queued(F), x) /\ opStatus'[x] = FALSE
    <3>. DEFINE P == Queued(F)
    <3>1. P \in SUBSET Queued(F) /\ Notified(P, FALSE)
      BY <2>1
    <3>. HIDE DEF P
    <3>2. Hit(P, x) /\ opStatus'[x] = FALSE
      BY <1>0, <1>4, <3>1, NotifiedEffect, ZenonT(30)
    <3>. QED BY <3>2 DEF P
  <2>3. PICK p \in Queued(F) : pathnamePendingLock[x] = p[1]
    BY <1>3, <2>2, HitsWaited
  <2>4. p[1] \in F
    BY DEF Queued
  <2>. QED BY <1>1, <2>2, <2>3, <2>4
<1>. QED BY <1>2, <1>4 DEF EndsWithReason

\* Which is what the two action properties ask of every step.
LEMMA StepsHandOver ==
    IndInv /\ [Next]_vars => FirstIsNext /\ EndsWithReason
<1>1. ASSUME Quiet, IndInv
      PROVE  FirstIsNext /\ EndsWithReason
  BY <1>1 DEF Quiet, FirstIsNext, EndsWithReason, IndInv, TypeOK
<1>. QED BY <1>1, StepsSorted, UnlocksHandOver, RemovesTell

----------------------------------------------------------------------------
(* The theorems about waits.                                               *)

\* The next owner of a lock that somebody waits for is the first in its queue, as long as
\* the file stays in the store (files.c:219-241).
THEOREM LocksAreHandedOver == Spec => NoBarging
<1>1. IndInv /\ [Next]_vars =>
         [\A f \in stored \cap stored' :
            waitingQueue[f] # << >> /\ owner'[f] # owner[f] => owner'[f] = Head(waitingQueue[f])
         ]_vars
  BY StepsHandOver DEF FirstIsNext
<1>. QED BY <1>1, Invariance, PTL DEF Spec, NoBarging

\* A client that leaves a queue has become the owner and is told so, or the file has left
\* the store and it is told so (files.c:107-125, 219-241).
THEOREM WaitersAreToldWhy == Spec => WaitEndsWithItsReason
<1>1. IndInv /\ [Next]_vars =>
         [\A c \in Clients :
            pathnamePendingLock[c] # NULL /\ pathnamePendingLock'[c] = NULL =>
                LET f == pathnamePendingLock[c]
                IN  IF f \in stored' THEN owner'[f] = c /\ opStatus'[c] ELSE ~opStatus'[c]
         ]_vars
  BY StepsHandOver DEF EndsWithReason
<1>. QED BY <1>1, Invariance, PTL DEF Spec, WaitEndsWithItsReason

----------------------------------------------------------------------------
(* The server implements the lock service: the invariant says in each      *)
(* state what a client whose answer is outstanding is waiting for.         *)

\* The step is one of the lock service, or leaves what it knows alone.
LockStep == Locks!Next \/ UNCHANGED <<owner, waitingQueue, outcome>>

----------------------------------------------------------------------------
(* What a client is yet to be told.                                        *)

\* A client that is being served waits for nothing and is to be told nothing.
LEMMA NothingToTell ==
    ASSUME NEW c \in Clients, request[c] = NULL
    PROVE  outcome[c] = "none"
BY DEF outcome

\* What a client is to be told changes only with its request, its place in a queue or its answer.
LEMMA OutcomeIsKept ==
    ASSUME UNCHANGED <<request, pathnamePendingLock, opStatus>>
    PROVE  UNCHANGED outcome
BY DEF outcome

\* The clients the notifier is given are told what the step decided, all others nothing new.
LEMMA OutcomeOfNotified ==
    ASSUME IndInv, NEW F \in SUBSET Files, NEW P \in SUBSET Queued(F),
           NEW status \in BOOLEAN, Notified(P, status), UNCHANGED request
    PROVE  outcome' = [x \in Clients |-> IF Hit(P, x) THEN IF status THEN "acquired" ELSE "gone"
                                         ELSE outcome[x]]
<1>0. TypeOK /\ WaitersAreBlocked
  BY DEF IndInv
<1>1. /\ pathnamePendingLock' =
             [x \in Clients |-> IF Hit(P, x) THEN NULL ELSE pathnamePendingLock[x]]
      /\ opStatus' = [x \in Clients |-> IF Hit(P, x) THEN status ELSE opStatus[x]]
  BY <1>0, NotifiedEffect
<1>2. P \in SUBSET Queued(Files)
  BY DEF Queued
<1>3. ASSUME NEW x \in Clients, Hit(P, x)
      PROVE  request[x] # NULL
  <2>1. PICK p \in P : waitingQueue[p[1]][p[2]] = x
    BY <1>3 DEF Hit
  <2>2. p[1] \in Files /\ p[2] \in DOMAIN waitingQueue[p[1]]
    BY <1>2 DEF Queued
  <2>. QED BY <1>0, <2>1, <2>2, NULLAssumption DEF WaitersAreBlocked
<1>4. ASSUME NEW x \in Clients
      PROVE  outcome'[x] = IF Hit(P, x) THEN IF status THEN "acquired" ELSE "gone"
                           ELSE outcome[x]
  <2>. HIDE DEF Hit
  <2>. QED BY <1>1, <1>3 DEF outcome
<1>. HIDE DEF Hit
<1>. QED BY <1>4 DEF outcome

----------------------------------------------------------------------------
(* The operations.                                                         *)

\* A step that leaves the locks, the queues and the requests alone.
LEMMA UntouchedLocks ==
    ASSUME UNCHANGED <<owner, waitingQueue, request, pathnamePendingLock, opStatus>>
    PROVE  LockStep
BY OutcomeIsKept DEF LockStep

\* What fails decides nothing about locks.
LEMMA FailIsNoLockStep ==
    ASSUME NEW kind, Fail(kind)
    PROVE  LockStep
BY UntouchedLocks DEF Fail, lockVars

\* lockfile acquires, queues up, or finds that the client has the lock already.
LEMMA LockfileIsLockStep ==
    ASSUME IndInv, NEW c \in Clients, NEW f \in Files, request[c] = NULL, lockfile(c, f),
           UNCHANGED opStatus
    PROVE  LockStep
<1>0. TypeOK
  BY DEF IndInv
<1>1. outcome[c] = "none"
  BY NothingToTell
<1>2. CASE /\ LockResult(c, f) = 1 /\ owner' = [owner EXCEPT ![f] = c]
           /\ UNCHANGED <<waitingQueue, pathnamePendingLock, request>>
  <2>1. UNCHANGED <<waitingQueue, outcome>>
    BY <1>2, OutcomeIsKept
  <2>2. CASE owner[f] = NoOwner
    <3>. Locks!Acquire(c, f)
      BY <1>1, <1>2, <2>1, <2>2 DEF Locks!Acquire
    <3>. QED BY DEF LockStep, Locks!Next
  <2>3. CASE owner[f] = c
    BY <1>0, <1>2, <2>1, <2>3 DEF LockStep, TypeOK
  <2>. QED BY <1>2, <2>2, <2>3 DEF LockResult
<1>3. CASE /\ LockResult(c, f) = 0
           /\ waitingQueue' = [waitingQueue EXCEPT ![f] = Append(@, c)]
           /\ pathnamePendingLock' = [pathnamePendingLock EXCEPT ![c] = f]
           /\ request' = [request EXCEPT ![c] = f]
           /\ UNCHANGED owner
  <2>1. owner[f] \notin {NoOwner, c}
    BY <1>3 DEF LockResult
  <2>2. outcome' = [outcome EXCEPT ![c] = "waiting"]
    BY <1>0, <1>3, NULLAssumption DEF outcome, TypeOK
  <2>. Locks!Enqueue(c, f)
    BY <1>1, <1>3, <2>1, <2>2 DEF Locks!Enqueue
  <2>. QED BY DEF LockStep, Locks!Next
<1>. QED BY <1>2, <1>3 DEF lockfile

\* The locks of one client are released together, each to the first that waits for it.
LEMMA UnlockIsRelease ==
    ASSUME IndInv, NEW c \in Clients, request[c] = NULL, NEW F \in SUBSET Files,
           \A f \in F : owner[f] = c, unlockfiles(F), UNCHANGED request
    PROVE  LockStep
<1>. DEFINE P == {p \in Queued(F) : p[2] = 1}
<1>0. TypeOK /\ QueuesBounded
  BY DEF IndInv
<1>1. outcome' = [x \in Clients |-> IF Hit(P, x) THEN "acquired" ELSE outcome[x]]
  <2>1. P \in SUBSET Queued(F) /\ Notified(P, TRUE)
    BY DEF unlockfiles
  <2>. HIDE DEF P, Hit
  <2>. QED BY <2>1, OutcomeOfNotified
<1>2. \A f \in F : waitingQueue[f] \in Seq(Clients) /\ Len(waitingQueue[f]) <= MaxWaiting
  BY <1>0 DEF TypeOK, QueuesBounded
<1>3. ASSUME NEW x \in Clients
      PROVE  Hit(P, x) <=> \E f \in F : waitingQueue[f] # << >> /\ Head(waitingQueue[f]) = x
  <2>1. ASSUME NEW f \in F, waitingQueue[f] # << >>, Head(waitingQueue[f]) = x
        PROVE  Hit(P, x)
    <3>1. 1 \in DOMAIN waitingQueue[f] /\ waitingQueue[f][1] = x /\ 1 \in 1 .. MaxWaiting
      BY <1>2, <2>1, MaxWaitingAssumption
    <3>2. <<f, 1>> \in P
      BY <3>1 DEF Queued
    <3>. QED BY <3>1, <3>2 DEF Hit
  <2>2. ASSUME Hit(P, x)
        PROVE  \E f \in F : waitingQueue[f] # << >> /\ Head(waitingQueue[f]) = x
    <3>1. PICK p \in P : waitingQueue[p[1]][p[2]] = x
      BY <2>2 DEF Hit
    <3>2. p[1] \in F /\ p[2] = 1 /\ 1 \in DOMAIN waitingQueue[p[1]]
      BY DEF Queued
    <3>. QED BY <1>2, <3>1, <3>2
  <2>. QED BY <2>1, <2>2
<1>4. owner' = [f \in Files |-> IF f \in F /\ waitingQueue[f] # << >> THEN Head(waitingQueue[f])
                                ELSE IF f \in F THEN NoOwner ELSE owner[f]]
  BY DEF unlockfiles
<1>5. waitingQueue' = [f \in Files |-> IF f \in F /\ waitingQueue[f] # << >>
                                       THEN Tail(waitingQueue[f]) ELSE waitingQueue[f]]
  BY DEF unlockfiles
<1>6. outcome' = [x \in Clients |->
                     IF \E f \in F : waitingQueue[f] # << >> /\ Head(waitingQueue[f]) = x
                     THEN "acquired" ELSE outcome[x]]
  <2>. HIDE DEF P, Hit
  <2>. QED BY <1>1, <1>3
<1>7. Locks!Release(c, F)
  <2>. DEFINE passedOn == {f \in F : waitingQueue[f] # << >>}
  <2>1. \A x \in Clients : (\E f \in passedOn : Head(waitingQueue[f]) = x)
                       <=> \E f \in F : waitingQueue[f] # << >> /\ Head(waitingQueue[f]) = x
    OBVIOUS
  <2>2. outcome' = [x \in Clients |-> IF \E f \in passedOn : Head(waitingQueue[f]) = x
                                      THEN "acquired" ELSE outcome[x]]
    BY <1>6, <2>1
  <2>3. \A f : f \in passedOn <=> f \in F /\ waitingQueue[f] # << >>
    OBVIOUS
  <2>4. owner' = [f \in Files |-> IF f \in passedOn THEN Head(waitingQueue[f])
                                  ELSE IF f \in F THEN NoOwner ELSE owner[f]]
    BY <1>4, <2>3
  <2>5. waitingQueue' = [f \in Files |-> IF f \in passedOn
                                         THEN Tail(waitingQueue[f]) ELSE waitingQueue[f]]
    BY <1>5, <2>3
  <2>. QED BY <2>2, <2>4, <2>5, NothingToTell DEF Locks!Release
<1>. QED BY <1>7 DEF LockStep, Locks!Next

\* Files leave the store with their queues, whatever happens to the locks of the others.
LEMMA RemovalIsVanish ==
    ASSUME IndInv, NEW F \in SUBSET Files, NEW newOwner, remove_hashEntries(F, newOwner),
           UNCHANGED request
    PROVE  Locks!Vanish(F, newOwner)
<1>0. TypeOK /\ QueuesBounded
  BY DEF IndInv
<1>1. outcome' = [x \in Clients |-> IF Hit(Queued(F), x) THEN "gone" ELSE outcome[x]]
  <2>. DEFINE P == Queued(F)
  <2>1. P \in SUBSET Queued(F) /\ Notified(P, FALSE)
    BY DEF remove_hashEntries
  <2>. HIDE DEF P, Hit
  <2>2. outcome' = [x \in Clients |-> IF Hit(P, x) THEN "gone" ELSE outcome[x]]
    BY <2>1, OutcomeOfNotified
  <2>. QED BY <2>2 DEF P
<1>2. \A f \in F : waitingQueue[f] \in Seq(Clients) /\ Len(waitingQueue[f]) <= MaxWaiting
  BY <1>0 DEF TypeOK, QueuesBounded
<1>3. ASSUME NEW x \in Clients
      PROVE  Hit(Queued(F), x) <=> \E f \in F : \E i \in DOMAIN waitingQueue[f] :
                                      waitingQueue[f][i] = x
  <2>1. ASSUME NEW f \in F, NEW i \in DOMAIN waitingQueue[f], waitingQueue[f][i] = x
        PROVE  Hit(Queued(F), x)
    <3>1. i \in 1 .. MaxWaiting
      BY <1>2, MaxWaitingAssumption
    <3>2. <<f, i>> \in Queued(F)
      BY <3>1 DEF Queued
    <3>. QED BY <2>1, <3>2 DEF Hit
  <2>2. ASSUME Hit(Queued(F), x)
        PROVE  \E f \in F : \E i \in DOMAIN waitingQueue[f] : waitingQueue[f][i] = x
    BY <2>2 DEF Hit, Queued
  <2>. QED BY <2>1, <2>2
<1>4. outcome' = [x \in Clients |->
                     IF \E f \in F : \E i \in DOMAIN waitingQueue[f] : waitingQueue[f][i] = x
                     THEN "gone" ELSE outcome[x]]
  <2>. HIDE DEF Hit, Queued
  <2>. QED BY <1>1, <1>3
<1>. QED BY <1>4 DEF Locks!Vanish, remove_hashEntries

\* The new file was in nobody's hands; its creator may lock it as others leave for it.
LEMMA CreateFileIsLockStep ==
    ASSUME IndInv, NEW c \in Clients, NEW f \in Files, NEW lock \in BOOLEAN, CreateFile(c, f, lock)
    PROVE  LockStep
<1>1. CASE Fail("dangling_insertion") \/ Fail("exit")
  BY <1>1, FailIsNoLockStep
<1>2. CASE /\ remove_hashEntries(InsertionVictims(ring) \cap stored,
                                 IF lock THEN [owner EXCEPT ![f] = c] ELSE owner)
           /\ UNCHANGED request
  <2>1. PICK F : F = InsertionVictims(ring) \cap stored
    OBVIOUS
  <2>2. TypeOK /\ LockHolderCanRelease /\ f \notin stored /\ request[c] = NULL
    BY DEF IndInv, CreateFile, Creates, Ready
  <2>3. F \in SUBSET Files /\ f \notin F /\ owner[f] = NoOwner /\ outcome[c] = "none"
    BY <2>1, <2>2, NothingToTell DEF TypeOK, LockHolderCanRelease
  <2>4. CASE lock
    <3>1. Locks!Vanish(F, [owner EXCEPT ![f] = c])
      BY <1>2, <2>1, <2>3, <2>4, RemovalIsVanish
    <3>2. Locks!MakeRoom(F, c, f)
      BY <2>3, <3>1 DEF Locks!MakeRoom
    <3>. QED BY <2>3, <3>2 DEF LockStep, Locks!Next
  <2>5. CASE ~lock
    <3>1. Locks!Vanish(F, owner)
      BY <1>2, <2>1, <2>3, <2>5, RemovalIsVanish
    <3>. QED BY <2>3, <3>1 DEF LockStep, Locks!Next
  <2>. QED BY <2>4, <2>5
<1>. QED BY <1>1, <1>2 DEF CreateFile

\* A stored file is opened, with or without its lock.
LEMMA OpenStoredFileIsLockStep ==
    ASSUME IndInv, NEW c \in Clients, NEW f \in Files, NEW create \in BOOLEAN, NEW lock \in BOOLEAN,
           OpenStoredFile(c, f, create, lock)
    PROVE  LockStep
<1>1. CASE Fail("exit") \/ Fail("descriptor")
  BY <1>1, FailIsNoLockStep
<1>2. CASE lockfile(c, f) /\ UNCHANGED opStatus
  BY <1>2, LockfileIsLockStep DEF OpenStoredFile, Ready
<1>3. CASE UNCHANGED <<owner, waitingQueue, request, pathnamePendingLock, opStatus>>
  BY <1>3, UntouchedLocks
<1>. QED BY <1>1, <1>2, <1>3 DEF OpenStoredFile

\* Files that make room for a longer one leave with their queues.
LEMMA EditFileIsLockStep ==
    ASSUME IndInv, NEW c \in Clients, NEW f \in Files, NEW newSize, EditFile(c, f, newSize)
    PROVE  LockStep
<1>1. CASE Fail("edit_overrun") \/ Fail("exit")
  BY <1>1, FailIsNoLockStep
<1>2. CASE /\ remove_hashEntries(EditVictims(ring, len, f, newSize) \cap stored, owner)
           /\ UNCHANGED request
  <2>1. PICK F : F = EditVictims(ring, len, f, newSize) \cap stored
    OBVIOUS
  <2>2. F \in SUBSET Files
    BY <2>1 DEF IndInv, TypeOK
  <2>3. Locks!Vanish(F, owner)
    BY <1>2, <2>1, <2>2, RemovalIsVanish
  <2>. QED BY <2>2, <2>3 DEF LockStep, Locks!Next
<1>. QED BY <1>1, <1>2 DEF EditFile

\* A removed file leaves with its queue.
LEMMA RemoveFileIsLockStep ==
    ASSUME IndInv, NEW c \in Clients, NEW f \in Files, RemoveFile(c, f)
    PROVE  LockStep
<1>1. {f} \in SUBSET Files /\ remove_hashEntries({f}, owner) /\ UNCHANGED request
  BY DEF RemoveFile
<1>2. Locks!Vanish({f}, owner)
  BY <1>1, RemovalIsVanish
<1>. QED BY <1>1, <1>2 DEF LockStep, Locks!Next

\* A client that unlocks, closes or leaves gives up what it owns of some files.
LEMMA OwnedAreOwned ==
    ASSUME TypeOK, NEW c \in Clients, NEW F
    PROVE  OwnedBy(c, F) \in SUBSET Files /\ \A f \in OwnedBy(c, F) : owner[f] = c
BY DEF OwnedBy, TypeOK

\* Unlocking what is owned of some files is a release.
LEMMA UnlockingIsLockStep ==
    ASSUME IndInv, NEW c \in Clients, NEW F, request[c] = NULL, unlockfiles(OwnedBy(c, F)),
           UNCHANGED request
    PROVE  LockStep
<1>1. PICK G : G = OwnedBy(c, F)
  OBVIOUS
<1>2. G \in SUBSET Files /\ \A f \in G : owner[f] = c
  BY <1>1, OwnedAreOwned DEF IndInv
<1>. QED BY <1>1, <1>2, UnlockIsRelease

\* A new session is of a client that is to be told nothing.
LEMMA ConnectIsNoLockStep ==
    ASSUME IndInv, NEW c \in Clients, Connect(c)
    PROVE  LockStep
<1>0. TypeOK /\ request[c] = NULL
  BY DEF IndInv, Connect, BlockedAreConnected
<1>1. UNCHANGED outcome
  BY <1>0 DEF Connect, outcome, TypeOK
<1>. QED BY <1>1 DEF Connect, LockStep

\* The notifier has only requests whose wait is over.
LEMMA NotifyIsTell ==
    ASSUME IndInv, NEW c \in Clients, Notify(c)
    PROVE  LockStep
<1>0. TypeOK /\ EveryRequestIsPendingOnce
  BY DEF IndInv
<1>1. request[c] # NULL /\ pathnamePendingLock[c] = NULL
  BY <1>0 DEF Notify, EveryRequestIsPendingOnce
<1>2. outcome[c] \in {"acquired", "gone"}
  BY <1>1 DEF outcome
<1>3. outcome' = [outcome EXCEPT ![c] = "none"]
  BY <1>0 DEF Notify, Answer, outcome, TypeOK
<1>4. Locks!Tell(c)
  BY <1>2, <1>3 DEF Notify, Answer, Locks!Tell
<1>. QED BY <1>4 DEF LockStep, Locks!Next

----------------------------------------------------------------------------
(* The theorem.                                                            *)

\* Each step of the server in turn.
LEMMA StepsAreLockSteps == IndInv /\ [Next]_vars => LockStep
<1>. SUFFICES ASSUME IndInv, [Next]_vars
              PROVE  LockStep
  OBVIOUS
<1>1. ASSUME NEW c \in Clients, NEW f \in Files, FileOperation(c, f)
      PROVE  LockStep
  <2>1. ASSUME NEW lock \in BOOLEAN, CreateFile(c, f, lock)
        PROVE  LockStep
    BY <2>1, CreateFileIsLockStep
  <2>2. ASSUME NEW create \in BOOLEAN, NEW lock \in BOOLEAN, OpenStoredFile(c, f, create, lock)
        PROVE  LockStep
    BY <2>2, OpenStoredFileIsLockStep
  <2>3. ASSUME NEW size \in 0 .. MaxFileSize, WriteFile(c, f, size) \/ AppendToFile(c, f, size)
        PROVE  LockStep
    BY <2>3, EditFileIsLockStep DEF WriteFile, AppendToFile
  <2>4. CASE ReadFile(c, f)
    BY <2>4, FailIsNoLockStep, UntouchedLocks DEF ReadFile, lockVars
  <2>5. CASE LockFile(c, f)
    BY <2>5, LockfileIsLockStep DEF LockFile, Ready
  <2>6. CASE UnlockFile(c, f) \/ CloseFile(c, f)
    BY <2>6, UnlockingIsLockStep DEF UnlockFile, CloseFile, Ready
  <2>7. CASE RemoveFile(c, f)
    BY <2>7, RemoveFileIsLockStep
  <2>. QED BY <1>1, <2>1, <2>2, <2>3, <2>4, <2>5, <2>6, <2>7 DEF FileOperation
<1>2. ASSUME NEW c \in Clients, Connect(c)
      PROVE  LockStep
  BY <1>2, ConnectIsNoLockStep
<1>3. ASSUME NEW c \in Clients, ConnectionClosed(c)
      PROVE  LockStep
  BY <1>3, FailIsNoLockStep, UnlockingIsLockStep DEF ConnectionClosed, Ready
<1>4. ASSUME NEW c \in Clients,
             (\E n \in SampleSizes : ReadNFiles(c, n)) \/ ReadNext(c) \/ FreeExpelled(c)
      PROVE  LockStep
  BY <1>4, FailIsNoLockStep, UntouchedLocks DEF ReadNFiles, ReadNext, FreeExpelled, lockVars
<1>5. ASSUME NEW c \in Clients, Notify(c)
      PROVE  LockStep
  BY <1>5, NotifyIsTell
<1>6. CASE UNCHANGED vars
  BY <1>6, UntouchedLocks DEF vars
<1>. QED BY <1>1, <1>2, <1>3, <1>4, <1>5, <1>6 DEF Next

\* At the start no file is locked and nobody waits.
LEMMA InitIsLockInit == Init => Locks!Init
BY DEF Init, Locks!Init, outcome

\* Owners, queues and pending answers of the server are those of the abstract lock service,
\* step for step, whatever the cache expels (files.c:107-125, 178-314, worker.c:300-335).
THEOREM FilesystemImplementsLockService == Spec => ImplementsLockService
<1>1. Init => Locks!Init
  BY InitIsLockInit
<1>2. IndInv /\ [Next]_vars => [Locks!Next]_<<owner, waitingQueue, outcome>>
  BY StepsAreLockSteps DEF LockStep
<1>. QED BY <1>1, <1>2, Invariance, PTL DEF Spec, ImplementsLockService, Locks!Spec
=============================================================================
