----------------------------- MODULE Filesystem -----------------------------
(***************************************************************************)
(* The file store of the server: the table of files with their locks       *)
(* (files.c), the cache that decides which files leave (caching.c, module  *)
(* Caching), the sessions of the connected clients (session.c), and the    *)
(* operations a worker performs for a client (operations.c, worker_body).  *)
(*                                                                         *)
(* Every operation runs under tableLock, so it is one step.  A client has  *)
(* at most one request at a time: its descriptor leaves the select set     *)
(* when a worker takes the request and comes back with the answer.  A lock *)
(* request that is queued is answered later, by the notifier thread; until *)
(* then the client is blocked.  All the other answers are given before the *)
(* descriptor comes back, and so belong to the step of the operation; only *)
(* where a request has expelled files is the end of the answer a step of   *)
(* its own, for until then the ring may point to their entries.            *)
(***************************************************************************)
EXTENDS Caching

CONSTANTS
    Clients,         \* the descriptors of the connections
    NoOwner,         \* fileEntry.owner = -1
    NULL,            \* a null path name
    MaxOpenedFiles,  \* MAX_OPENED_FILES
    MaxWaiting,      \* MAX_CLIENTS_WAITING_FOR_LOCK
    MaxFileSize,     \* configs.maxFileSize
    SampleSizes,     \* the numbers of files that readNFiles is asked for
    NoFault

ASSUME NoOwnerAssumption == NoOwner \notin Clients
ASSUME NULLAssumption == NULL \notin Files
ASSUME MaxOpenedFilesAssumption == MaxOpenedFiles \in Nat \ {0}
ASSUME MaxWaitingAssumption == MaxWaiting \in Nat
ASSUME MaxFileSizeAssumption == MaxFileSize \in Nat /\ MaxFileSize <= MaxMemorySize
ASSUME SampleSizesAssumption == SampleSizes \subseteq Nat

(***************************************************************************)
(* A slot of the ring can also point to the entry of a file that the       *)
(* request of client c has expelled and not sent yet: <<c, f>>.  The file  *)
(* has left the table, and its name may be in it again, for a new entry.   *)
(***************************************************************************)
Expelled == Clients \X Files
ASSUME ExpelledAssumption == Expelled \cap (Files \cup {NoFile}) = {}

VARIABLES
    \* the table
    stored,               \* the files in it
    owner,                \* fileEntry.owner
    waitingQueue,         \* the clients of hashEntry.waitingQueue, next one first
    len,                  \* fileEntry.length
    ring,                 \* the state of caching.c
    \* the sessions
    connected,            \* the clients with a session
    openedFiles, canWriteOnFile, pathnamePendingLock, opStatus,
    \* the requests whose answer is left to the notifier
    request,              \* the file of each client's queued lock request
    clientsToNotify,      \* how often each client's request is in that queue
    \* the readNFiles requests, which do not take tableLock
    toRead,               \* the slots each client's request still has to read
    \* the first step that left the defined behaviour; the server stops there
    fault

lockVars == <<owner, waitingQueue, pathnamePendingLock, opStatus, clientsToNotify>>
cacheVars == <<stored, len, ring>>
sessionVars == <<connected, openedFiles, canWriteOnFile>>
vars == <<stored, owner, waitingQueue, len, ring, connected, openedFiles, canWriteOnFile,
          pathnamePendingLock, opStatus, request, clientsToNotify, toRead, fault>>

Descriptors == 0 .. MaxOpenedFiles - 1
Faults == {"dangling_insertion", "edit_overrun", "exit", "dangling_read", "expelled_use",
           "descriptor", "double_free"}

ASSUME NoFaultAssumption == NoFault \notin Faults

\* The clients with a request in a waiting queue.
Waiters(q) == {q[i] : i \in DOMAIN q}

\* The entries of the ring that the request of client c has expelled.
ExpelledBy(c) == {ring.cache[i] : i \in Slots} \cap ({c} \X Files)

\* Mutant: a blocked client's descriptor stays in the select set.
Ready_StillWatched(c) == c \in connected /\ toRead[c] = << >> /\ ExpelledBy(c) = {}

\* Select watches the client: it is connected and no request of it is being served.
Ready(c) == c \in connected /\ request[c] = NULL /\ toRead[c] = << >> /\ ExpelledBy(c) = {}

OpenedSlots(c, f) == {d \in Descriptors : openedFiles[c][d] = f}
Opened(c, f) == OpenedSlots(c, f) # {}
FreeSlots(c) == OpenedSlots(c, NULL)

\* isFileOpened and getFreeFileDescriptor return the lowest such index; a file
\* is opened in one slot at most and nothing depends on which free one is taken.
isFileOpened(c, f) == CHOOSE d \in Descriptors : openedFiles[c][d] = f
getFreeFileDescriptor(c) == CHOOSE d \in Descriptors : openedFiles[c][d] = NULL

\* The ring after client c's request has expelled the files F, whose entries it keeps.
Expel(r, c, F) ==
    [r EXCEPT !.cache = [i \in Slots |-> IF @[i] \in F THEN <<c, @[i]>> ELSE @[i]]]

\* What the process does after undefined behaviour, or exit(), is not modelled.
Fail(kind) ==
    /\ fault' = kind
    /\ UNCHANGED <<cacheVars, lockVars, sessionVars, request, toRead>>

Init ==
    /\ stored = {}
    /\ owner = [f \in Files |-> NoOwner]
    /\ waitingQueue = [f \in Files |-> << >>]
    /\ len = [f \in Files |-> 0]
    /\ \E policy \in CachePolicies : ring = initCachingSystem(policy)
    /\ connected = {}
    /\ openedFiles = [c \in Clients |-> [d \in Descriptors |-> NULL]]
    /\ canWriteOnFile = [c \in Clients |-> [d \in Descriptors |-> FALSE]]
    /\ pathnamePendingLock = [c \in Clients |-> NULL]
    /\ opStatus = [c \in Clients |-> FALSE]
    /\ request = [c \in Clients |-> NULL]
    /\ clientsToNotify = [c \in Clients |-> 0]
    /\ toRead = [c \in Clients |-> << >>]
    /\ fault = NoFault

----------------------------------------------------------------------------
(* The internal functions of files.c.                                      *)

\* Mutant: the owner queues up behind itself.
LockResult_NoReentry(c, f) ==
    CASE f \notin stored -> -1
      [] f \in stored /\ owner[f] = NoOwner -> 1
      [] OTHER -> IF Len(waitingQueue[f]) < MaxWaiting THEN 0 ELSE -1

\* lockfile: 1 if the lock is acquired, 0 if the request is queued, -1 if it fails.
LockResult(c, f) ==
    CASE f \notin stored -> -1
      [] f \in stored /\ owner[f] \in {NoOwner, c} -> 1
      [] OTHER -> IF Len(waitingQueue[f]) < MaxWaiting THEN 0 ELSE -1

lockfile(c, f) ==
    \/ /\ LockResult(c, f) = 1
       /\ owner' = [owner EXCEPT ![f] = c]
       /\ UNCHANGED <<waitingQueue, pathnamePendingLock, request>>
    \/ /\ LockResult(c, f) = 0
       /\ waitingQueue' = [waitingQueue EXCEPT ![f] = Append(@, c)]
       /\ pathnamePendingLock' = [pathnamePendingLock EXCEPT ![c] = f]
       /\ request' = [request EXCEPT ![c] = f]
       /\ UNCHANGED owner

\* The places of the waiting queues of the files of F that hold a request.
Queued(F) == {p \in F \X (1 .. MaxWaiting) : p[2] \in DOMAIN waitingQueue[p[1]]}

\* The requests at the places P go to the notifier, with the status it will send.
Notified(P, status) ==
    LET n(c) == Cardinality({p \in P : waitingQueue[p[1]][p[2]] = c})
    IN  /\ pathnamePendingLock' =
               [c \in Clients |-> IF n(c) > 0 THEN NULL ELSE pathnamePendingLock[c]]
        /\ opStatus' = [c \in Clients |-> IF n(c) > 0 THEN status ELSE opStatus[c]]
        /\ clientsToNotify' = [c \in Clients |-> clientsToNotify[c] + n(c)]

\* Mutant: the lock is free for whoever comes first, the waiting client is told to go on.
unlockfiles_Barging(F) ==
    /\ owner' = [f \in Files |-> IF f \in F THEN NoOwner ELSE owner[f]]
    /\ waitingQueue' = [f \in Files |-> IF f \in F /\ waitingQueue[f] # << >>
                                        THEN Tail(waitingQueue[f]) ELSE waitingQueue[f]]
    /\ Notified({p \in Queued(F) : p[2] = 1}, TRUE)

\* Mutant: the lock is released, the queue is not looked at.
unlockfiles_NoHandOver(F) ==
    /\ owner' = [f \in Files |-> IF f \in F THEN NoOwner ELSE owner[f]]
    /\ UNCHANGED <<waitingQueue, pathnamePendingLock, opStatus, clientsToNotify>>

(***************************************************************************)
(* unlockfileWithSession for each file of F, all owned by one client: the  *)
(* first in the queue becomes the owner.  The request of a waiting client  *)
(* never leaves a hole in a queue: see ConnectionClosed.                   *)
(***************************************************************************)
unlockfiles(F) ==
    /\ owner' = [f \in Files |-> IF f \notin F THEN owner[f]
                                 ELSE IF waitingQueue[f] = << >> THEN NoOwner
                                 ELSE Head(waitingQueue[f])]
    /\ waitingQueue' = [f \in Files |-> IF f \in F /\ waitingQueue[f] # << >>
                                        THEN Tail(waitingQueue[f]) ELSE waitingQueue[f]]
    /\ Notified({p \in Queued(F) : p[2] = 1}, TRUE)

\* Mutant: only the first waiting client is told that the file is gone.
remove_hashEntries_FirstOnly(F, newOwner) ==
    /\ owner' = [f \in Files |-> IF f \in F THEN NoOwner ELSE newOwner[f]]
    /\ waitingQueue' = [f \in Files |-> IF f \in F THEN << >> ELSE waitingQueue[f]]
    /\ Notified({p \in Queued(F) : p[2] = 1}, FALSE)

\* Mutant: whoever waits for a removed file is told to go on.
remove_hashEntries_Granting(F, newOwner) ==
    /\ owner' = [f \in Files |-> IF f \in F THEN NoOwner ELSE newOwner[f]]
    /\ waitingQueue' = [f \in Files |-> IF f \in F THEN << >> ELSE waitingQueue[f]]
    /\ Notified(Queued(F), TRUE)

(***************************************************************************)
(* remove_hashEntry_ref for each file of F: a file that is not in the      *)
(* table is left alone, whoever waits for one that is will be told it is   *)
(* gone.  newOwner is the file table's owner column before the removal.    *)
(***************************************************************************)
remove_hashEntries(F, newOwner) ==
    /\ owner' = [f \in Files |-> IF f \in F THEN NoOwner ELSE newOwner[f]]
    /\ waitingQueue' = [f \in Files |-> IF f \in F THEN << >> ELSE waitingQueue[f]]
    /\ Notified(Queued(F), FALSE)

----------------------------------------------------------------------------
(* The operations of a ready client.                                       *)

\* Accepted by the main thread; the select thread initialises the session.
Connect(c) ==
    /\ c \notin connected
    /\ connected' = connected \cup {c}
    /\ opStatus' = [opStatus EXCEPT ![c] = FALSE]
    /\ pathnamePendingLock' = [pathnamePendingLock EXCEPT ![c] = NULL]
    /\ openedFiles' = [openedFiles EXCEPT ![c] = [d \in Descriptors |-> NULL]]
    /\ canWriteOnFile' = [canWriteOnFile EXCEPT ![c] = [d \in Descriptors |-> FALSE]]
    /\ UNCHANGED <<cacheVars, owner, waitingQueue, clientsToNotify, request, toRead, fault>>

\* openFile enters a new file in the table ...
Creates(c, f, create) ==
    create /\ ~Opened(c, f) /\ FreeSlots(c) # {} /\ f \notin stored

\* ... or opens a stored one: also with O_CREATE if the client has it open already, and
\* also without a free descriptor (files.c:475 clears what 429 and 434 found wrong).
OpensStored(c, f, create) ==
    f \in stored /\ (create => Opened(c, f) \/ FreeSlots(c) = {})

OpenResult(c, f, create, lock) ==
    IF Creates(c, f, create) THEN 1
    ELSE IF ~OpensStored(c, f, create) THEN -1
    ELSE IF lock THEN LockResult(c, f) ELSE 1

\* Mutant: a file that is open already takes a second slot.
Open_NewSlot(c, f, create, lock) ==
    LET d == getFreeFileDescriptor(c)
    IN  /\ openedFiles' = [openedFiles EXCEPT ![c][d] = f]
        /\ canWriteOnFile' = [canWriteOnFile EXCEPT ![c][d] = @ \/ (create /\ lock)]
        /\ UNCHANGED connected

\* The session's part: the slot, and the right to write of a client that creates and locks.
Open(c, f, create, lock) ==
    LET d == IF Opened(c, f) THEN isFileOpened(c, f) ELSE getFreeFileDescriptor(c)
    IN  /\ openedFiles' = [openedFiles EXCEPT ![c][d] = f]
        /\ canWriteOnFile' = [canWriteOnFile EXCEPT ![c][d] = @ \/ (create /\ lock)]
        /\ UNCHANGED connected

CreateFile(c, f, lock) ==
    /\ Ready(c)
    /\ Creates(c, f, TRUE)
    /\ IF InsertionReadsDangling(ring) THEN Fail("dangling_insertion")
       ELSE LET inserted == handleInsertion(ring, len, f)
                expelled == InsertionVictims(ring) \cap stored
            IN  IF UsageExits(inserted, f) THEN Fail("exit")
                ELSE /\ ring' = Expel(handleUsage(inserted, f), c, expelled)
                     /\ stored' = (stored \cup {f}) \ expelled
                     /\ len' = [g \in Files |-> IF g \in expelled THEN 0 ELSE len[g]]
                     /\ remove_hashEntries(expelled, IF lock THEN [owner EXCEPT ![f] = c]
                                                     ELSE owner)
                     /\ Open(c, f, TRUE, lock)
                     /\ UNCHANGED <<request, toRead, fault>>

OpenStoredFile(c, f, create, lock) ==
    /\ Ready(c)
    /\ OpensStored(c, f, create)
    /\ OpenResult(c, f, create, lock) # -1
    /\ IF UsageExits(ring, f) THEN Fail("exit")
       ELSE IF ~Opened(c, f) /\ FreeSlots(c) = {} THEN Fail("descriptor")
       ELSE /\ IF lock THEN lockfile(c, f)
               ELSE UNCHANGED <<owner, waitingQueue, pathnamePendingLock, request>>
            /\ ring' = handleUsage(ring, f)
            /\ Open(c, f, create, lock)
            /\ UNCHANGED <<stored, len, opStatus, clientsToNotify, toRead, fault>>

\* readFile: no lock and no descriptor is asked for.
ReadFile(c, f) ==
    /\ Ready(c)
    /\ f \in stored
    /\ IF UsageExits(ring, f) THEN Fail("exit")
       ELSE /\ ring' = handleUsage(ring, f)
            /\ UNCHANGED <<stored, len, lockVars, sessionVars, request, toRead, fault>>

(***************************************************************************)
(* readNFiles does not take tableLock: it draws a sample of ring slots and *)
(* then reads them one by one, while other clients' operations run between *)
(* the reads.  The head it counts from is the one it saw at the start.     *)
(***************************************************************************)
ReadNFiles(c, n) ==
    /\ Ready(c)
    /\ \E sample \in Samples(ring, SampleSize(ring, n)) :
         toRead' = [toRead EXCEPT ![c] =
                       [k \in 1 .. SampleSize(ring, n) |-> SampledSlot(ring, sample[k - 1])]]
    /\ UNCHANGED <<cacheVars, lockVars, sessionVars, request, fault>>

\* The use of an expelled entry under LRU moves the files of the window one slot on, unless
\* it is in the slot before head: then none is moved, and the entry takes a place in it.
BringsBack(e) ==
    e \in Expelled /\ ~IsFIFO(ring) /\ SearchLength(ring, e) = cacheSize - 1 /\ ring.count # 0

(***************************************************************************)
(* The slot may point to an expelled entry, which can be copied and used   *)
(* as long as it has not been freed.  Once the use has brought it back     *)
(* into the window the ring is no longer that of the table; what the store *)
(* does with such a ring, whose entry will be freed, is not modelled.      *)
(***************************************************************************)
ReadNext(c) ==
    /\ toRead[c] # << >>
    /\ LET e == ring.cache[Head(toRead[c])]
       IN  IF e = NoFile THEN Fail("dangling_read")
           ELSE IF UsageExits(ring, e) THEN Fail("exit")
           ELSE /\ ring' = handleUsage(ring, e)
                /\ toRead' = [toRead EXCEPT ![c] = Tail(@)]
                /\ fault' = IF BringsBack(e) THEN "expelled_use" ELSE fault
                /\ UNCHANGED <<stored, len, lockVars, sessionVars, request>>

\* The worker has sent the files that the request has expelled, and frees one of them.
FreeExpelled(c) ==
    /\ \E e \in ExpelledBy(c) : ring' = Free(ring, {e})
    /\ UNCHANGED <<stored, len, lockVars, sessionVars, request, toRead, fault>>

\* Mutant: the new length is stored before the cache is told.
EditFile_LengthFirst(c, f, newSize) ==
    LET edited == [len EXCEPT ![f] = newSize]
    IN  IF EditOverruns(ring, edited, f, newSize) THEN Fail("edit_overrun")
        ELSE IF EditExits(ring, edited, f, newSize) THEN Fail("exit")
        ELSE LET expelled == EditVictims(ring, edited, f, newSize) \cap stored
             IN  /\ ring' = Expel(handleEdit(ring, edited, f, newSize), c, expelled)
                 /\ stored' = stored \ expelled
                 /\ len' = [g \in Files |-> IF g \in expelled THEN 0 ELSE edited[g]]
                 /\ remove_hashEntries(expelled, owner)
                 /\ canWriteOnFile' = [canWriteOnFile EXCEPT ![c][isFileOpened(c, f)] = FALSE]
                 /\ UNCHANGED <<connected, openedFiles, request, toRead, fault>>

\* The part of writeFile and appendToFile that makes room and uses up the right to write.
EditFile(c, f, newSize) ==
    IF EditOverruns(ring, len, f, newSize) THEN Fail("edit_overrun")
    ELSE IF EditExits(ring, len, f, newSize) THEN Fail("exit")
    ELSE LET expelled == EditVictims(ring, len, f, newSize) \cap stored
         IN  /\ ring' = Expel(handleEdit(ring, len, f, newSize), c, expelled)
             /\ stored' = stored \ expelled
             /\ len' = [g \in Files |-> IF g = f THEN newSize
                                        ELSE IF g \in expelled THEN 0 ELSE len[g]]
             /\ remove_hashEntries(expelled, owner)
             /\ canWriteOnFile' = [canWriteOnFile EXCEPT ![c][isFileOpened(c, f)] = FALSE]
             /\ UNCHANGED <<connected, openedFiles, request, toRead, fault>>

WriteFile(c, f, size) ==
    /\ Ready(c)
    /\ size <= MaxFileSize
    /\ f \in stored /\ owner[f] = c
    /\ Opened(c, f) /\ canWriteOnFile[c][isFileOpened(c, f)]
    /\ EditFile(c, f, size)

\* appendToFile asks for a descriptor, not for the lock.
AppendToFile(c, f, size) ==
    /\ Ready(c)
    /\ Opened(c, f) /\ f \in stored
    /\ len[f] + size <= MaxFileSize
    /\ EditFile(c, f, len[f] + size)

LockFile(c, f) ==
    /\ Ready(c)
    /\ Opened(c, f)
    /\ lockfile(c, f)
    /\ UNCHANGED <<cacheVars, sessionVars, opStatus, clientsToNotify, toRead, fault>>

\* Mutant: nothing is unlocked.
OwnedBy_Forgotten(c, F) == {}

\* Mutant: whoever has locked them.
OwnedBy_Anybody(c, F) == {f \in F \cap stored : owner[f] # NoOwner}

\* The files of F that client c has locked.
OwnedBy(c, F) == {f \in F \cap stored : owner[f] = c}

\* unlockFile takes the right to write back even if the client is not the owner.
UnlockFile(c, f) ==
    /\ Ready(c)
    /\ Opened(c, f)
    /\ unlockfiles(OwnedBy(c, {f}))
    /\ canWriteOnFile' = [canWriteOnFile EXCEPT ![c][isFileOpened(c, f)] = FALSE]
    /\ UNCHANGED <<cacheVars, connected, openedFiles, request, toRead, fault>>

\* closeFile: also a file that has left the store can be closed.
CloseFile(c, f) ==
    /\ Ready(c)
    /\ Opened(c, f)
    /\ unlockfiles(OwnedBy(c, {f}))
    /\ openedFiles' = [openedFiles EXCEPT ![c][isFileOpened(c, f)] = NULL]
    /\ canWriteOnFile' = [canWriteOnFile EXCEPT ![c][isFileOpened(c, f)] = FALSE]
    /\ UNCHANGED <<cacheVars, connected, request, toRead, fault>>

RemoveFile(c, f) ==
    /\ Ready(c)
    /\ Opened(c, f)
    /\ f \in stored /\ owner[f] = c
    /\ openedFiles' = [openedFiles EXCEPT ![c][isFileOpened(c, f)] = NULL]
    /\ canWriteOnFile' = [canWriteOnFile EXCEPT ![c][isFileOpened(c, f)] = FALSE]
    /\ ring' = Free(handleRemoval(ring, len, f), {f})
    /\ stored' = stored \ {f}
    /\ len' = [len EXCEPT ![f] = 0]
    /\ remove_hashEntries({f}, owner)
    /\ UNCHANGED <<connected, request, toRead, fault>>

(***************************************************************************)
(* A worker reads end of file; the main thread releases the client's locks *)
(* (filesystem_handle_connectionClosed) and clears its session.  Had the   *)
(* client a request in a queue, clean_pending_lock_request would free its  *)
(* path name twice (files.c:272 and 283).  The status that clear_session   *)
(* resets is not read again before Connect resets it.                      *)
(***************************************************************************)
ConnectionClosed(c) ==
    /\ Ready(c)
    /\ IF pathnamePendingLock[c] # NULL
       THEN Fail("double_free")
       ELSE /\ unlockfiles(OwnedBy(c, {openedFiles[c][d] : d \in Descriptors}))
            /\ connected' = connected \ {c}
            /\ openedFiles' = [openedFiles EXCEPT ![c] = [d \in Descriptors |-> NULL]]
            /\ canWriteOnFile' = [canWriteOnFile EXCEPT ![c] = [d \in Descriptors |-> FALSE]]
            /\ UNCHANGED <<cacheVars, request, toRead, fault>>

\* The status of the session is sent and select watches the client again.
Answer(c) ==
    /\ clientsToNotify' = [clientsToNotify EXCEPT ![c] = @ - 1]
    /\ request' = [request EXCEPT ![c] = NULL]
    /\ UNCHANGED <<cacheVars, sessionVars, owner, waitingQueue, pathnamePendingLock,
                   opStatus, toRead, fault>>

\* Mutant: the notifier wakes up with an empty queue and goes on.
Notify_Spurious(c) == request[c] # NULL /\ Answer(c)

\* One round of worker_notify.
Notify(c) == clientsToNotify[c] > 0 /\ Answer(c)
----------------------------------------------------------------------------
FileOperation(c, f) ==
    \/ \E lock \in BOOLEAN : CreateFile(c, f, lock)
    \/ \E create, lock \in BOOLEAN : OpenStoredFile(c, f, create, lock)
    \/ \E size \in 0 .. MaxFileSize : WriteFile(c, f, size) \/ AppendToFile(c, f, size)
    \/ ReadFile(c, f)
    \/ LockFile(c, f)
    \/ UnlockFile(c, f)
    \/ CloseFile(c, f)
    \/ RemoveFile(c, f)

Next ==
    /\ fault = NoFault
    /\ \E c \in Clients :
        \/ Connect(c)
        \/ \E f \in Files : FileOperation(c, f)
        \/ \E n \in SampleSizes : ReadNFiles(c, n)
        \/ ReadNext(c)
        \/ FreeExpelled(c)
        \/ ConnectionClosed(c)
        \/ Notify(c)

Spec == Init /\ [][Next]_vars

----------------------------------------------------------------------------
\* The types of ring and toRead, the cache's part of the state, are in CacheMatchesTable.
TypeOK ==
    /\ stored \subseteq Files
    /\ owner \in [Files -> Clients \cup {NoOwner}]
    /\ waitingQueue \in [Files -> Seq(Clients)]
    /\ len \in [Files -> 0 .. MaxFileSize]
    /\ connected \subseteq Clients
    /\ openedFiles \in [Clients -> [Descriptors -> Files \cup {NULL}]]
    /\ canWriteOnFile \in [Clients -> [Descriptors -> BOOLEAN]]
    /\ pathnamePendingLock \in [Clients -> Files \cup {NULL}]
    /\ opStatus \in [Clients -> BOOLEAN]
    /\ request \in [Clients -> Files \cup {NULL}]
    /\ clientsToNotify \in [Clients -> Nat]
    /\ fault \in Faults \cup {NoFault}

(***************************************************************************)
(* A lock is held by a connected client that has the file open: no         *)
(* sequence of closing, removing, eviction, handing over and disconnecting *)
(* leaves a lock with a client that can no longer release it, or with a    *)
(* descriptor that the next connection would inherit (files.c:179-314,     *)
(* operations.c:145-162, main.c:338-351).                                  *)
(***************************************************************************)
LockHolderCanRelease ==
    \A f \in Files : owner[f] # NoOwner =>
        f \in stored /\ owner[f] \in connected /\ Opened(owner[f], f)

(***************************************************************************)
(* A request in a waiting queue is the one its client is blocked on: it    *)
(* waits once, for a stored file that another client holds, and has it     *)
(* open, so that it can use the lock when it gets it (files.c:179-249).    *)
(***************************************************************************)
WaitersAreBlocked ==
    \A f \in Files : \A i \in DOMAIN waitingQueue[f] :
        LET c == waitingQueue[f][i]
        IN  /\ f \in stored /\ owner[f] \notin {NoOwner, c}
            /\ c \in connected /\ request[c] = f /\ Opened(c, f)
            /\ pathnamePendingLock[c] = f
            /\ \A j \in DOMAIN waitingQueue[f] : waitingQueue[f][j] = c => j = i

(***************************************************************************)
(* No request is forgotten and none is answered twice: a client whose      *)
(* answer is outstanding is either in the waiting queue of its file or     *)
(* once in the notifier's queue, never in both, and the other clients are  *)
(* in neither (files.c:107-125, 219-241, worker.c:300-316).                *)
(***************************************************************************)
EveryRequestIsPendingOnce ==
    \A c \in Clients :
        LET waiting == request[c] # NULL /\ c \in Waiters(waitingQueue[request[c]])
        IN  /\ clientsToNotify[c] = IF request[c] = NULL \/ waiting THEN 0 ELSE 1
            /\ pathnamePendingLock[c] = IF waiting THEN request[c] ELSE NULL

(***************************************************************************)
(* When the select thread closes a connection the client has no queued     *)
(* lock request, so clean_pending_lock_request, which would free its path  *)
(* name twice, has nothing to clean (files.c:256-286).                     *)
(***************************************************************************)
NoDoubleFree == fault # "double_free"

\* The ring, for which only the entries in the table matter.
TableRing == [ring EXCEPT !.cache = [i \in Slots |-> IF @[i] \in Files THEN @[i] ELSE NoFile]]

(***************************************************************************)
(* The table and the cache hold the same files: the ring has each stored   *)
(* file exactly once and no other, so that its searches end and it never   *)
(* evicts a file twice, whatever the clients do (files.c:431-671).  Only   *)
(* one thing makes them differ: a readNFiles, which takes no tableLock,    *)
(* brings an expelled file back that is not freed yet, from the slot       *)
(* before head (files.c:392-394, worker.c:195-207, caching.c:274).         *)
(***************************************************************************)
CacheMatchesTable ==
    /\ TableRing \in Rings
    /\ ring.cache \in [Slots -> Files \cup {NoFile} \cup Expelled]
    /\ toRead \in [Clients -> Seq(0 .. MaxFileCount - 1)]
    /\ {Window(ring)[k] : k \in 1 .. ring.count} # stored <=> fault = "expelled_use"
    /\ fault # "expelled_use" => Cardinality(stored) = ring.count
    /\ FromHead(ring, ring.count) = ring.tail

(***************************************************************************)
(* A session's slots are consistent: no file is open twice, and the right  *)
(* to write never outlives the slot it belongs to, so that the next file   *)
(* opened there does not inherit it (session.c, files.c:478-503, 648-651). *)
(***************************************************************************)
SlotsAreConsistent ==
    \A c \in Clients : \A d \in Descriptors :
        /\ openedFiles[c][d] = NULL => ~canWriteOnFile[c][d]
        /\ openedFiles[c][d] # NULL =>
               c \in connected /\ \A e \in OpenedSlots(c, openedFiles[c][d]) : e = d

(***************************************************************************)
(* A lock somebody waits for is handed over, not raced for: while the file *)
(* stays in the store the next owner is the first in its queue.            *)
(***************************************************************************)
NoBarging ==
    [][\A f \in stored \cap stored' :
          waitingQueue[f] # << >> /\ owner'[f] # owner[f] => owner'[f] = Head(waitingQueue[f])
      ]_vars

(***************************************************************************)
(* A queued request leaves the queue for one of two reasons, and its       *)
(* client is told which: the client has become the owner, or the file has  *)
(* left the store (files.c:107-125, 219-241).                              *)
(***************************************************************************)
WaitEndsWithItsReason ==
    [][\A c \in Clients :
          pathnamePendingLock[c] # NULL /\ pathnamePendingLock'[c] = NULL =>
              LET f == pathnamePendingLock[c]
              IN  IF f \in stored' THEN owner'[f] = c /\ opStatus'[c] ELSE ~opStatus'[c]
      ]_vars

(***************************************************************************)
(* All the handlers together keep the promise about locks: owners, queues  *)
(* and pending answers of files.c and the notifier are those of the lock   *)
(* service, step for step (files.c:107-125, 178-314, worker.c:300-335).    *)
(***************************************************************************)
outcome ==
    [c \in Clients |-> IF request[c] = NULL THEN "none"
                       ELSE IF pathnamePendingLock[c] # NULL THEN "waiting"
                       ELSE IF opStatus[c] THEN "acquired" ELSE "gone"]

Locks == INSTANCE LockService WITH queue <- waitingQueue
ImplementsLockService == Locks!Spec

(***************************************************************************)
(* The store uses the cache as CacheRing assumes, whatever several clients *)
(* do at once: each step is one of its operations, with the length the     *)
(* file had before and has after, or leaves ring and lengths alone         *)
(* (files.c:438-489, 535-560, 605-626, 692-709).  That an expelled file is *)
(* freed after the operation and not in it (worker.c:195-207) makes no     *)
(* difference to it, until a readNFiles brings one back; other uses of     *)
(* such files move the window on, and leave its files and order alone.     *)
(***************************************************************************)
Cache == INSTANCE CacheRing WITH
    ring <- TableRing,
    fault <- IF fault \in {"descriptor", "double_free", "dangling_read", "expelled_use"}
             THEN NoFault ELSE fault
ReadsExpelled ==
    /\ \E c \in Clients : ReadNext(c) /\ ring.cache[Head(toRead[c])] \in Expelled
    /\ fault' # "expelled_use" =>
           UNCHANGED <<Cache!Queue, ring.policy, ring.count, ring.size, len>>
ImplementsCacheRing == Cache!Init /\ [][Cache!Next \/ ReadsExpelled]_(Cache!vars)

----------------------------------------------------------------------------
(* What comments say and the code does not do.                             *)

(***************************************************************************)
(* "result = -1 if failed" (files.c:413): an open that finds no free       *)
(* descriptor fails instead of using index -1 of the session's slots.      *)
(***************************************************************************)
DescriptorInRange == fault # "descriptor"
=============================================================================
