------------------------- MODULE ClientProgramProofs -------------------------
(***************************************************************************)
(* The locks of client programs, for any number of clients, files, command *)
(* lines and limits: whatever fails, waits, is evicted or is killed, a     *)
(* running program holds no lock but that of the file it is working on and *)
(* those it has been asked to keep.  And their command lines: the requests *)
(* they become, and the directories that go with them.                     *)
(***************************************************************************)
EXTENDS ClientProgram, FilesystemProofs, WellFoundedInduction

\* The calls that may have to wait for a lock, and those after which it is not held.
LockCalls == {"create_locked", "open_locked", "lock"}
ReleaseCalls == {"close", "unlock", "remove"}

(***************************************************************************)
(* The current request of c has locked its file: a call that locks it has  *)
(* returned and no call that releases it has, or the server has granted    *)
(* the lock and the client has not been told yet.                          *)
(***************************************************************************)
HoldsItsFile(c) ==
    /\ todo[c] # << >>
    /\ IF request[c] = NULL
       THEN \/ Current(c).type \in {"W", "w"} /\ stage[c] \in {2, 3}
            \/ Current(c).type = "c" /\ stage[c] = 2
       ELSE pathnamePendingLock[c] = NULL /\ opStatus[c]

\* The variables of the programs have their types; there is a call to make or to wait for.
ProgramTypes ==
    /\ argv \in [Clients -> Lines \cup {<< >>}]
    /\ program \in [Clients -> {"started", "running", "ended"}]
    /\ todo \in [Clients -> Seq(Items)]
    /\ stage \in [Clients -> Nat]
    /\ kept \in [Clients -> SUBSET Files]
    /\ \A c \in Clients :
          /\ program[c] = "started" => argv[c] \in Lines /\ todo[c] = << >>
          /\ IF todo[c] = << >> THEN stage[c] = 1
             ELSE stage[c] \in 1 .. Len(Calls(Current(c).type))

\* A running program whose client is blocked is in a call for that lock.
WaitsInItsCall(c) ==
    program[c] = "running" /\ request[c] # NULL =>
        /\ todo[c] # << >>
        /\ Current(c).file = request[c] /\ NextCall(c) \in LockCalls

(***************************************************************************)
(* LocksAreKeptOnPurpose says nothing of when the current request may hold *)
(* its file's lock; to know that it has let go of it when it ends, one has *)
(* to know in which of its calls it can hold it at all.                    *)
(***************************************************************************)
HeldOrKept(c) ==
    program[c] = "running" =>
        \A f \in Files : owner[f] = c =>
            f \in kept[c] \/ (HoldsItsFile(c) /\ Current(c).file = f)

ProgramInv ==
    /\ IndInv
    /\ ProgramTypes
    /\ \A c \in Clients : WaitsInItsCall(c) /\ HeldOrKept(c)

----------------------------------------------------------------------------
(* What a step of the server does to locks.                                *)

\* A step for client c leaves the requests of all others alone, and gives one of them a
\* lock only if it waits for it, and then tells it so.
OthersServed(c) ==
    \A x \in Clients \ {c} :
        /\ request'[x] = request[x]
        /\ pathnamePendingLock[x] = NULL =>
               pathnamePendingLock'[x] = NULL /\ opStatus'[x] = opStatus[x]
        /\ \A f \in Files : owner'[f] = x =>
               \/ owner[f] = x
               \/ /\ pathnamePendingLock[x] = f
                  /\ pathnamePendingLock'[x] = NULL /\ opStatus'[x]

\* Client c gets no other lock than that of file f.
GetsAtMost(c, f) == \A g \in Files : owner'[g] = c => owner[g] = c \/ g = f

\* Client c gets no lock.
GetsNothing(c) == \A g \in Files : owner'[g] = c => owner[g] = c

\* A step that does not touch the locks disturbs nobody.
LEMMA UntouchedServes ==
    ASSUME NEW c \in Clients, UNCHANGED <<owner, request, pathnamePendingLock, opStatus>>
    PROVE  OthersServed(c) /\ GetsNothing(c) /\ request'[c] = request[c]
BY DEF OthersServed, GetsNothing

\* Nor does one that fails.
LEMMA FailServes ==
    ASSUME NEW c \in Clients, NEW kind, Fail(kind)
    PROVE  OthersServed(c) /\ GetsNothing(c) /\ request'[c] = request[c]
BY UntouchedServes DEF Fail, lockVars

\* The clients that the notifier is given waited; the others are not disturbed.
LEMMA NotifiedServes ==
    ASSUME IndInv, NEW F \in SUBSET Files, NEW P \in SUBSET Queued(F),
           NEW status \in BOOLEAN, Notified(P, status), NEW x \in Clients
    PROVE  /\ pathnamePendingLock[x] = NULL =>
                  pathnamePendingLock'[x] = NULL /\ opStatus'[x] = opStatus[x]
           /\ \A p \in P : waitingQueue[p[1]][p[2]] = x =>
                  /\ pathnamePendingLock[x] = p[1]
                  /\ pathnamePendingLock'[x] = NULL /\ opStatus'[x] = status
<1>0. TypeOK /\ WaitersAreBlocked
  BY DEF IndInv
<1>1. /\ pathnamePendingLock'[x] = IF Hit(P, x) THEN NULL ELSE pathnamePendingLock[x]
      /\ opStatus'[x] = IF Hit(P, x) THEN status ELSE opStatus[x]
  <2>. HIDE DEF Hit
  <2>. QED BY <1>0, NotifiedEffect
<1>2. ASSUME NEW p \in P, waitingQueue[p[1]][p[2]] = x
      PROVE  Hit(P, x) /\ pathnamePendingLock[x] = p[1] /\ p[1] # NULL
  <2>1. p[1] \in Files /\ p[2] \in DOMAIN waitingQueue[p[1]]
    BY DEF Queued
  <2>. QED BY <1>0, <1>2, <2>1, NULLAssumption DEF Hit, WaitersAreBlocked
<1>3. Hit(P, x) => pathnamePendingLock[x] # NULL
  BY <1>2 DEF Hit
<1>. HIDE DEF Hit
<1>. QED BY <1>1, <1>2, <1>3

\* An unlock by the owner: each lock goes to the first that waits, or to nobody.
LEMMA UnlockServes ==
    ASSUME IndInv, NEW c \in Clients, NEW F \in SUBSET Files, \A f \in F : owner[f] = c,
           unlockfiles(F), UNCHANGED request
    PROVE  OthersServed(c) /\ \A g \in Files : owner'[g] = c => owner[g] = c /\ g \notin F
<1>. DEFINE P == {p \in Queued(F) : p[2] = 1}
<1>0. TypeOK /\ QueuesBounded
  BY DEF IndInv
<1>1. P \in SUBSET Queued(F) /\ Notified(P, TRUE)
  BY DEF unlockfiles
<1>2. ASSUME NEW g \in Files
      PROVE  owner'[g] = IF g \notin F THEN owner[g]
                         ELSE IF waitingQueue[g] = << >> THEN NoOwner ELSE Head(waitingQueue[g])
  BY DEF unlockfiles
<1>3. ASSUME NEW g \in F, waitingQueue[g] # << >>
      PROVE  /\ 1 \in DOMAIN waitingQueue[g] /\ Head(waitingQueue[g]) = waitingQueue[g][1]
             /\ waitingQueue[g][1] # c /\ <<g, 1>> \in P
  <2>1. waitingQueue[g] \in Seq(Clients) /\ Len(waitingQueue[g]) <= MaxWaiting
    BY <1>0 DEF TypeOK, QueuesBounded
  <2>2. 1 \in DOMAIN waitingQueue[g] /\ Head(waitingQueue[g]) = waitingQueue[g][1]
        /\ 1 \in 1 .. MaxWaiting
    BY <1>3, <2>1, MaxWaitingAssumption
  <2>3. waitingQueue[g][1] # c
    BY <2>2, WaiterIsBlocked
  <2>. QED BY <2>2, <2>3 DEF Queued
<1>. HIDE DEF P
<1>4. ASSUME NEW x \in Clients \ {c}, NEW g \in Files, owner'[g] = x
      PROVE  \/ owner[g] = x
             \/ pathnamePendingLock[x] = g /\ pathnamePendingLock'[x] = NULL /\ opStatus'[x]
  <2>1. CASE g \notin F
    BY <1>2, <1>4, <2>1
  <2>2. CASE g \in F
    <3>1. waitingQueue[g] # << >>
      BY <1>2, <1>4, <2>2, NoOwnerAssumption
    <3>2. <<g, 1>> \in P /\ waitingQueue[g][1] = x
      BY <1>2, <1>3, <1>4, <2>2, <3>1
    <3>3. PICK p \in P : p = <<g, 1>>
      BY <3>2
    <3>4. p[1] = g /\ p[2] = 1
      BY <3>3
    <3>5. waitingQueue[p[1]][p[2]] = x
      BY <3>2, <3>4
    <3>6. x \in Clients /\ p \in P
      OBVIOUS
    <3>7. PICK status \in BOOLEAN : status = TRUE
      OBVIOUS
    <3>8. Notified(P, status)
      BY <1>1, <3>7
    <3>9. pathnamePendingLock[x] = p[1] /\ pathnamePendingLock'[x] = NULL /\ opStatus'[x] = status
      BY <1>1, <3>5, <3>6, <3>8, NotifiedServes
    <3>. QED BY <3>4, <3>7, <3>9
  <2>. QED BY <2>1, <2>2
<1>5. ASSUME NEW g \in Files, owner'[g] = c
      PROVE  owner[g] = c /\ g \notin F
  BY <1>2, <1>3, <1>5, NoOwnerAssumption
<1>6. ASSUME NEW x \in Clients
      PROVE  pathnamePendingLock[x] = NULL =>
                pathnamePendingLock'[x] = NULL /\ opStatus'[x] = opStatus[x]
  BY <1>1, NotifiedServes
<1>. QED BY <1>4, <1>5, <1>6 DEF OthersServed

\* Files that leave the store take their locks with them.
LEMMA RemovalServes ==
    ASSUME IndInv, NEW c \in Clients, NEW F \in SUBSET Files, NEW newOwner,
           \A g \in Files : newOwner[g] = owner[g] \/ newOwner[g] = c,
           remove_hashEntries(F, newOwner), UNCHANGED request
    PROVE  /\ OthersServed(c)
           /\ \A g \in Files : owner'[g] = c => newOwner[g] = c /\ g \notin F
<1>1. PICK P : P = Queued(F)
  OBVIOUS
<1>2. P \in SUBSET Queued(F) /\ Notified(P, FALSE)
  BY <1>1 DEF remove_hashEntries
<1>3. ASSUME NEW x \in Clients
      PROVE  pathnamePendingLock[x] = NULL =>
                pathnamePendingLock'[x] = NULL /\ opStatus'[x] = opStatus[x]
  BY <1>2, NotifiedServes
<1>4. \A g \in Files : owner'[g] = IF g \in F THEN NoOwner ELSE newOwner[g]
  BY DEF remove_hashEntries
<1>5. \A g \in Files, x \in Clients : owner'[g] = x => g \notin F /\ newOwner[g] = x
  BY <1>4, NoOwnerAssumption
<1>. QED BY <1>3, <1>5 DEF OthersServed

\* lockfile: the lock is acquired, or the client waits.
LEMMA LockServes ==
    ASSUME IndInv, NEW c \in Clients, NEW f \in Files, request[c] = NULL, lockfile(c, f),
           UNCHANGED opStatus
    PROVE  /\ OthersServed(c) /\ GetsAtMost(c, f)
           /\ request'[c] = NULL \/ (request'[c] = f /\ GetsNothing(c))
<1>0. TypeOK
  BY DEF IndInv
<1>1. CASE /\ owner' = [owner EXCEPT ![f] = c]
           /\ UNCHANGED <<pathnamePendingLock, request>>
  BY <1>0, <1>1 DEF OthersServed, GetsAtMost, TypeOK
<1>2. CASE /\ pathnamePendingLock' = [pathnamePendingLock EXCEPT ![c] = f]
           /\ request' = [request EXCEPT ![c] = f]
           /\ UNCHANGED owner
  BY <1>0, <1>2 DEF OthersServed, GetsAtMost, GetsNothing, TypeOK
<1>. QED BY <1>1, <1>2 DEF lockfile

----------------------------------------------------------------------------
(* What a call does.                                                       *)

\* A call of c for file f, which the server performs.
Serves(c, call, f) ==
    /\ OthersServed(c)
    /\ IF call \in LockCalls
       THEN /\ GetsAtMost(c, f)
            /\ request'[c] = NULL \/ (request'[c] = f /\ GetsNothing(c))
       ELSE GetsNothing(c) /\ request'[c] = NULL
    /\ call \in ReleaseCalls => owner'[f] # c

\* openFile of a new file: those that make room for it leave with their locks.
LEMMA CreateServes ==
    ASSUME IndInv, NEW c \in Clients, NEW f \in Files, CreateFile(c, f, TRUE)
    PROVE  IndInv' /\ Serves(c, "create_locked", f)
<1>. DEFINE expelled == InsertionVictims(ring) \cap stored
            newOwner == [owner EXCEPT ![f] = c]
<1>0. TypeOK /\ request[c] = NULL
  BY DEF IndInv, CreateFile, Ready
<1>1. IndInv'
  BY CreateFilePreserves
<1>2. CASE Fail("dangling_insertion") \/ Fail("exit")
  BY <1>0, <1>1, <1>2, FailServes DEF Serves, LockCalls, ReleaseCalls, GetsAtMost, GetsNothing
<1>3. CASE remove_hashEntries(expelled, newOwner) /\ UNCHANGED request
  <2>1. expelled \in SUBSET Files
    BY <1>0 DEF TypeOK
  <2>2. \A g \in Files : newOwner[g] = IF g = f THEN c ELSE owner[g]
    BY <1>0 DEF TypeOK
  <2>. HIDE DEF expelled, newOwner
  <2>3. OthersServed(c) /\ \A g \in Files : owner'[g] = c => newOwner[g] = c
    BY <1>3, <2>1, <2>2, RemovalServes
  <2>4. GetsAtMost(c, f)
    BY <2>2, <2>3 DEF GetsAtMost
  <2>. QED BY <1>0, <1>1, <1>3, <2>3, <2>4 DEF Serves, LockCalls, ReleaseCalls
<1>. QED BY <1>2, <1>3 DEF CreateFile

\* openFile of a stored file.
LEMMA OpenServes ==
    ASSUME IndInv, NEW c \in Clients, NEW f \in Files, NEW create \in BOOLEAN, NEW lock \in BOOLEAN,
           OpenStoredFile(c, f, create, lock), NEW call, call \notin ReleaseCalls,
           lock => call \in LockCalls
    PROVE  IndInv' /\ Serves(c, call, f)
<1>0. TypeOK /\ request[c] = NULL
  BY DEF IndInv, OpenStoredFile, Ready
<1>1. IndInv'
  BY OpenStoredFilePreserves
<1>2. CASE Fail("exit") \/ Fail("descriptor")
  BY <1>0, <1>1, <1>2, FailServes DEF Serves, GetsAtMost, GetsNothing
<1>3. CASE lock /\ lockfile(c, f) /\ UNCHANGED opStatus
  BY <1>0, <1>1, <1>3, LockServes DEF Serves
<1>4. CASE ~lock /\ UNCHANGED <<owner, pathnamePendingLock, request, opStatus>>
  BY <1>0, <1>1, <1>4, UntouchedServes DEF Serves, GetsAtMost, GetsNothing
<1>. QED BY <1>2, <1>3, <1>4 DEF OpenStoredFile

\* writeFile and appendToFile.
LEMMA EditServes ==
    ASSUME IndInv, NEW c \in Clients, NEW f \in Files, Ready(c), Opened(c, f),
           NEW newSize \in 0 .. MaxFileSize, EditFile(c, f, newSize),
           NEW call, call \notin LockCalls \cup ReleaseCalls
    PROVE  IndInv' /\ Serves(c, call, f)
<1>. DEFINE expelled == EditVictims(ring, len, f, newSize) \cap stored
<1>0. TypeOK /\ request[c] = NULL
  BY DEF IndInv, Ready
<1>1. IndInv'
  BY EditFilePreserves
<1>2. CASE Fail("edit_overrun") \/ Fail("exit")
  BY <1>0, <1>1, <1>2, FailServes DEF Serves
<1>3. CASE remove_hashEntries(expelled, owner) /\ UNCHANGED request
  <2>1. expelled \in SUBSET Files
    BY <1>0 DEF TypeOK
  <2>. HIDE DEF expelled
  <2>2. OthersServed(c) /\ \A g \in Files : owner'[g] = c => owner[g] = c
    BY <1>3, <2>1, RemovalServes
  <2>. QED BY <1>0, <1>1, <1>3, <2>2 DEF Serves, GetsNothing
<1>. QED BY <1>2, <1>3 DEF EditFile

\* lockFile.
LEMMA LockFileServes ==
    ASSUME IndInv, NEW c \in Clients, NEW f \in Files, LockFile(c, f)
    PROVE  IndInv' /\ Serves(c, "lock", f)
<1>1. IndInv'
  BY LockFilePreserves
<1>2. request[c] = NULL /\ lockfile(c, f) /\ UNCHANGED opStatus
  BY DEF LockFile, Ready
<1>. QED BY <1>1, <1>2, LockServes DEF Serves, LockCalls, ReleaseCalls

\* A client that has unlocked a file does not own it, whether it did before or not.
LEMMA UnlocksIt ==
    ASSUME IndInv, NEW c \in Clients, NEW f \in Files, request[c] = NULL,
           unlockfiles(OwnedBy(c, {f})), UNCHANGED request
    PROVE  OthersServed(c) /\ GetsNothing(c) /\ owner'[f] # c /\ request'[c] = NULL
<1>0. TypeOK /\ LockHolderCanRelease
  BY DEF IndInv
<1>1. PICK F : F = OwnedBy(c, {f})
  OBVIOUS
<1>2. F \in SUBSET Files /\ \A g \in F : owner[g] = c
  BY <1>0, <1>1 DEF OwnedBy, TypeOK
<1>3. OthersServed(c) /\ \A g \in Files : owner'[g] = c => owner[g] = c /\ g \notin F
  BY <1>1, <1>2, UnlockServes
<1>4. owner[f] = c => f \in F
  BY <1>0, <1>1, NoOwnerAssumption DEF OwnedBy, LockHolderCanRelease
<1>. QED BY <1>3, <1>4 DEF GetsNothing

\* unlockFile.
LEMMA UnlockFileServes ==
    ASSUME IndInv, NEW c \in Clients, NEW f \in Files, UnlockFile(c, f)
    PROVE  IndInv' /\ Serves(c, "unlock", f)
<1>1. IndInv'
  BY UnlockFilePreserves
<1>2. request[c] = NULL /\ unlockfiles(OwnedBy(c, {f})) /\ UNCHANGED request
  BY DEF UnlockFile, Ready
<1>. QED BY <1>1, <1>2, UnlocksIt DEF Serves, LockCalls

\* closeFile.
LEMMA CloseFileServes ==
    ASSUME IndInv, NEW c \in Clients, NEW f \in Files, CloseFile(c, f)
    PROVE  IndInv' /\ Serves(c, "close", f)
<1>1. IndInv'
  BY CloseFilePreserves
<1>2. request[c] = NULL /\ unlockfiles(OwnedBy(c, {f})) /\ UNCHANGED request
  BY DEF CloseFile, Ready
<1>. QED BY <1>1, <1>2, UnlocksIt DEF Serves, LockCalls

\* removeFile.
LEMMA RemoveFileServes ==
    ASSUME IndInv, NEW c \in Clients, NEW f \in Files, RemoveFile(c, f)
    PROVE  IndInv' /\ Serves(c, "remove", f)
<1>1. IndInv'
  BY RemoveFilePreserves
<1>2. PICK F : F = {f}
  OBVIOUS
<1>3. request[c] = NULL /\ remove_hashEntries(F, owner) /\ UNCHANGED request /\ F \in SUBSET Files
  BY <1>2 DEF RemoveFile, Ready
<1>4. OthersServed(c) /\ \A g \in Files : owner'[g] = c => owner[g] = c /\ g \notin F
  BY <1>3, RemovalServes
<1>. QED BY <1>1, <1>2, <1>3, <1>4 DEF Serves, LockCalls, GetsNothing

\* readFile and readNFiles.
LEMMA ReadServes ==
    ASSUME IndInv, NEW c \in Clients, NEW f, NEW n,
           NEW call, call \notin LockCalls \cup ReleaseCalls,
           (f \in Files /\ ReadFile(c, f)) \/ ReadNFiles(c, n)
    PROVE  IndInv' /\ Serves(c, call, f)
<1>0. request[c] = NULL
  BY DEF ReadFile, ReadNFiles, Ready
<1>1. IndInv'
  BY RingStepPreserves, FailPreserves DEF ReadFile, ReadNFiles, Faults, cacheVars
<1>2. OthersServed(c) /\ GetsNothing(c) /\ request'[c] = request[c]
  BY FailServes, UntouchedServes DEF ReadFile, ReadNFiles, lockVars
<1>. QED BY <1>0, <1>1, <1>2 DEF Serves

----------------------------------------------------------------------------
(* The calls of a request.                                                 *)

\* The calls of a request, by their numbers.
IsCall(type, k, call) ==
    \/ type \in {"W", "w"} /\ k = 1 /\ call = "create_locked"
    \/ type \in {"W", "w"} /\ k = 2 /\ call = "write"
    \/ type = "r" /\ k = 1 /\ call = "open"
    \/ type = "r" /\ k = 2 /\ call = "read"
    \/ type = "R" /\ k = 1 /\ call = "readN"
    \/ type = "l" /\ k = 1 /\ call = "open"
    \/ type = "l" /\ k = 2 /\ call = "lock"
    \/ type = "u" /\ k = 1 /\ call = "unlock"
    \/ type = "c" /\ k = 1 /\ call = "open_locked"
    \/ type = "c" /\ k = 2 /\ call = "remove"
    \/ type = "a" /\ k = 1 /\ call = "open"
    \/ type = "a" /\ k = 2 /\ call = "append"
    \/ type \in {"W", "w", "r", "a"} /\ k = 3 /\ call = "close"
    \/ type = "u" /\ k = 2 /\ call = "close"

\* How many there are.
CallCount(type) ==
    IF type \in {"W", "w", "r", "a"} THEN 3 ELSE IF type = "R" THEN 1 ELSE 2

\* A request that is carried out is of a type the program knows.
LEMMA TypesOfItems ==
    ASSUME NEW r \in Items
    PROVE  /\ r.type \in {"W", "w", "r", "R", "l", "u", "c", "a"}
           /\ r.type # "R" => r.file \in Files
           /\ r.type = "a" => LocalSize[r.file] \in Nat
<1>1. CASE r \in [type : {"W", "w", "r", "l", "u", "c"}, file : Files, n : Nat]
  BY <1>1
<1>2. CASE r \in [type : {"a"}, file : {f \in Files : LocalSize[f] # -1}, n : Nat]
  BY <1>2, LocalSizeAssumption
<1>3. CASE r \in [type : {"R"}, file : {""}, n : Nat]
  BY <1>3
<1>. QED BY <1>1, <1>2, <1>3 DEF Items

\* The calls of each type, one by one.
LEMMA CallsOfTypes ==
    ASSUME NEW type \in {"W", "w", "r", "R", "l", "u", "c", "a"}
    PROVE  /\ Len(Calls(type)) = CallCount(type)
           /\ \A k \in 1 .. CallCount(type) : IsCall(type, k, Calls(type)[k])
<1>1. CASE type \in {"W", "w"}
  <2>1. Calls(type) = <<"create_locked", "write", "close">>
    BY <1>1 DEF Calls
  <2>2. Len(Calls(type)) = 3 /\ CallCount(type) = 3
    BY <1>1, <2>1 DEF CallCount
  <2>3. ASSUME NEW k \in 1 .. 3
        PROVE  IsCall(type, k, Calls(type)[k])
    <3>1. CASE k = 1
      <4>1. Calls(type)[k] = "create_locked"
        BY <2>1, <3>1
      <4>. QED BY <1>1, <3>1, <4>1 DEF IsCall
    <3>2. CASE k = 2
      <4>1. Calls(type)[k] = "write"
        BY <2>1, <3>2
      <4>. QED BY <1>1, <3>2, <4>1 DEF IsCall
    <3>3. CASE k = 3
      <4>1. Calls(type)[k] = "close"
        BY <2>1, <3>3
      <4>. QED BY <1>1, <3>3, <4>1 DEF IsCall
    <3>. QED BY <2>3, <3>1, <3>2, <3>3
  <2>. QED BY <2>2, <2>3
<1>2. CASE type = "r"
  <2>1. Calls(type) = <<"open", "read", "close">>
    BY <1>2 DEF Calls
  <2>2. Len(Calls(type)) = 3 /\ CallCount(type) = 3
    BY <1>2, <2>1 DEF CallCount
  <2>3. ASSUME NEW k \in 1 .. 3
        PROVE  IsCall(type, k, Calls(type)[k])
    <3>1. CASE k = 1
      <4>1. Calls(type)[k] = "open"
        BY <2>1, <3>1
      <4>. QED BY <1>2, <3>1, <4>1 DEF IsCall
    <3>2. CASE k = 2
      <4>1. Calls(type)[k] = "read"
        BY <2>1, <3>2
      <4>. QED BY <1>2, <3>2, <4>1 DEF IsCall
    <3>3. CASE k = 3
      <4>1. Calls(type)[k] = "close"
        BY <2>1, <3>3
      <4>. QED BY <1>2, <3>3, <4>1 DEF IsCall
    <3>. QED BY <2>3, <3>1, <3>2, <3>3
  <2>. QED BY <2>2, <2>3
<1>3. CASE type = "R"
  <2>1. Calls(type) = <<"readN">>
    BY <1>3 DEF Calls
  <2>2. Len(Calls(type)) = 1 /\ CallCount(type) = 1
    BY <1>3, <2>1 DEF CallCount
  <2>3. ASSUME NEW k \in 1 .. 1
        PROVE  IsCall(type, k, Calls(type)[k])
    <3>1. CASE k = 1
      <4>1. Calls(type)[k] = "readN"
        BY <2>1, <3>1
      <4>. QED BY <1>3, <3>1, <4>1 DEF IsCall
    <3>. QED BY <2>3, <3>1
  <2>. QED BY <2>2, <2>3
<1>4. CASE type = "l"
  <2>1. Calls(type) = <<"open", "lock">>
    BY <1>4 DEF Calls
  <2>2. Len(Calls(type)) = 2 /\ CallCount(type) = 2
    BY <1>4, <2>1 DEF CallCount
  <2>3. ASSUME NEW k \in 1 .. 2
        PROVE  IsCall(type, k, Calls(type)[k])
    <3>1. CASE k = 1
      <4>1. Calls(type)[k] = "open"
        BY <2>1, <3>1
      <4>. QED BY <1>4, <3>1, <4>1 DEF IsCall
    <3>2. CASE k = 2
      <4>1. Calls(type)[k] = "lock"
        BY <2>1, <3>2
      <4>. QED BY <1>4, <3>2, <4>1 DEF IsCall
    <3>. QED BY <2>3, <3>1, <3>2
  <2>. QED BY <2>2, <2>3
<1>5. CASE type = "u"
  <2>1. Calls(type) = <<"unlock", "close">>
    BY <1>5 DEF Calls
  <2>2. Len(Calls(type)) = 2 /\ CallCount(type) = 2
    BY <1>5, <2>1 DEF CallCount
  <2>3. ASSUME NEW k \in 1 .. 2
        PROVE  IsCall(type, k, Calls(type)[k])
    <3>1. CASE k = 1
      <4>1. Calls(type)[k] = "unlock"
        BY <2>1, <3>1
      <4>. QED BY <1>5, <3>1, <4>1 DEF IsCall
    <3>2. CASE k = 2
      <4>1. Calls(type)[k] = "close"
        BY <2>1, <3>2
      <4>. QED BY <1>5, <3>2, <4>1 DEF IsCall
    <3>. QED BY <2>3, <3>1, <3>2
  <2>. QED BY <2>2, <2>3
<1>6. CASE type = "c"
  <2>1. Calls(type) = <<"open_locked", "remove">>
    BY <1>6 DEF Calls
  <2>2. Len(Calls(type)) = 2 /\ CallCount(type) = 2
    BY <1>6, <2>1 DEF CallCount
  <2>3. ASSUME NEW k \in 1 .. 2
        PROVE  IsCall(type, k, Calls(type)[k])
    <3>1. CASE k = 1
      <4>1. Calls(type)[k] = "open_locked"
        BY <2>1, <3>1
      <4>. QED BY <1>6, <3>1, <4>1 DEF IsCall
    <3>2. CASE k = 2
      <4>1. Calls(type)[k] = "remove"
        BY <2>1, <3>2
      <4>. QED BY <1>6, <3>2, <4>1 DEF IsCall
    <3>. QED BY <2>3, <3>1, <3>2
  <2>. QED BY <2>2, <2>3
<1>7. CASE type = "a"
  <2>1. Calls(type) = <<"open", "append", "close">>
    BY <1>7 DEF Calls
  <2>2. Len(Calls(type)) = 3 /\ CallCount(type) = 3
    BY <1>7, <2>1 DEF CallCount
  <2>3. ASSUME NEW k \in 1 .. 3
        PROVE  IsCall(type, k, Calls(type)[k])
    <3>1. CASE k = 1
      <4>1. Calls(type)[k] = "open"
        BY <2>1, <3>1
      <4>. QED BY <1>7, <3>1, <4>1 DEF IsCall
    <3>2. CASE k = 2
      <4>1. Calls(type)[k] = "append"
        BY <2>1, <3>2
      <4>. QED BY <1>7, <3>2, <4>1 DEF IsCall
    <3>3. CASE k = 3
      <4>1. Calls(type)[k] = "close"
        BY <2>1, <3>3
      <4>. QED BY <1>7, <3>3, <4>1 DEF IsCall
    <3>. QED BY <2>3, <3>1, <3>2, <3>3
  <2>. QED BY <2>2, <2>3
<1>. QED BY <1>1, <1>2, <1>3, <1>4, <1>5, <1>6, <1>7

\* What the server does for a call.
LEMMA OperationServes ==
    ASSUME IndInv, NEW c \in Clients, Ready(c), NEW r \in Items, NEW k, NEW call,
           IsCall(r.type, k, call), Succeeds(c, call, r), Operation(c, call, r)
    PROVE  IndInv' /\ Serves(c, call, r.file)
<1>0. TypeOK /\ (r.type # "R" => r.file \in Files) /\ (r.type = "a" => LocalSize[r.file] \in Nat)
  BY TypesOfItems DEF IndInv
<1>1. CASE call = "create_locked"
  <2>1. r.file \in Files
    BY <1>0, <1>1 DEF IsCall
  <2>2. PICK yes \in BOOLEAN : yes = TRUE
    OBVIOUS
  <2>3. CreateFile(c, r.file, TRUE) \/ OpenStoredFile(c, r.file, yes, yes)
    BY <1>1, <2>2 DEF Operation
  <2>4. call \in LockCalls /\ call \notin ReleaseCalls
    BY <1>1 DEF LockCalls, ReleaseCalls
  <2>. QED BY <1>1, <2>1, <2>3, <2>4, CreateServes, OpenServes
<1>2. CASE call = "open"
  <2>1. r.file \in Files
    BY <1>0, <1>2 DEF IsCall
  <2>2. PICK no \in BOOLEAN : no = FALSE
    OBVIOUS
  <2>3. OpenStoredFile(c, r.file, no, no)
    BY <1>2, <2>2 DEF Operation
  <2>4. call \notin ReleaseCalls
    BY <1>2 DEF ReleaseCalls
  <2>. QED BY <2>1, <2>2, <2>3, <2>4, OpenServes
<1>3. CASE call = "open_locked"
  <2>1. r.file \in Files
    BY <1>0, <1>3 DEF IsCall
  <2>2. PICK no \in BOOLEAN, yes \in BOOLEAN : no = FALSE /\ yes = TRUE
    OBVIOUS
  <2>3. OpenStoredFile(c, r.file, no, yes)
    BY <1>3, <2>2 DEF Operation
  <2>4. call \in LockCalls /\ call \notin ReleaseCalls
    BY <1>3 DEF LockCalls, ReleaseCalls
  <2>. QED BY <2>1, <2>3, <2>4, OpenServes
<1>4. CASE call = "write"
  <2>1. r.file \in Files
    BY <1>0, <1>4 DEF IsCall
  <2>2. LocalSize[r.file] \in 0 .. MaxFileSize /\ WriteFile(c, r.file, LocalSize[r.file])
    BY <1>4 DEF Operation, Succeeds
  <2>. QED BY <1>4, <2>1, <2>2, EditServes DEF WriteFile, LockCalls, ReleaseCalls
<1>5. CASE call = "append"
  <2>1. r.file \in Files /\ LocalSize[r.file] \in Nat
    BY <1>0, <1>5 DEF IsCall
  <2>2. AppendToFile(c, r.file, LocalSize[r.file])
    BY <1>5 DEF Operation
  <2>3. len[r.file] + LocalSize[r.file] \in 0 .. MaxFileSize
    BY <1>0, <2>1, <2>2, MaxFileSizeAssumption DEF AppendToFile, TypeOK
  <2>. QED BY <1>5, <2>1, <2>2, <2>3, EditServes DEF AppendToFile, LockCalls, ReleaseCalls
<1>6. CASE call \in {"read", "readN"}
  <2>1. (r.file \in Files /\ ReadFile(c, r.file)) \/ ReadNFiles(c, r.n)
    BY <1>0, <1>6 DEF Operation, IsCall
  <2>. QED BY <1>6, <2>1, ReadServes DEF LockCalls, ReleaseCalls
<1>7. CASE call \in {"lock", "unlock", "close", "remove"}
  <2>1. r.file \in Files
    BY <1>0, <1>7 DEF IsCall
  <2>2. CASE call = "lock"
    BY <2>1, <2>2, LockFileServes DEF Operation
  <2>3. CASE call = "unlock"
    BY <2>1, <2>3, UnlockFileServes DEF Operation
  <2>4. CASE call = "close"
    BY <2>1, <2>4, CloseFileServes DEF Operation
  <2>5. CASE call = "remove"
    BY <2>1, <2>5, RemoveFileServes DEF Operation
  <2>. QED BY <1>7, <2>2, <2>3, <2>4, <2>5
<1>. QED BY <1>1, <1>2, <1>3, <1>4, <1>5, <1>6, <1>7 DEF IsCall

----------------------------------------------------------------------------
(* What a step does to the programs.                                       *)

\* The step of a client leaves the programs of all others alone.
OtherPrograms(c) ==
    \A x \in Clients \ {c} :
        UNCHANGED <<program[x], todo[x], stage[x], kept[x]>>

\* What others own and wait for still fits what their programs are doing.
LEMMA OthersKeepTheirLocks ==
    ASSUME ProgramInv, NEW c \in Clients, OthersServed(c), OtherPrograms(c),
           NEW x \in Clients \ {c}
    PROVE  WaitsInItsCall(x)' /\ HeldOrKept(x)'
<1>0. WaitsInItsCall(x) /\ HeldOrKept(x) /\ EveryRequestIsPendingOnce
  BY DEF ProgramInv, IndInv
<1>1. /\ request'[x] = request[x] /\ program'[x] = program[x] /\ todo'[x] = todo[x]
      /\ stage'[x] = stage[x] /\ kept'[x] = kept[x]
  BY DEF OthersServed, OtherPrograms
<1>2. Current(x)' = Current(x) /\ NextCall(x)' = NextCall(x)
  BY <1>1 DEF Current, NextCall
<1>3. WaitsInItsCall(x)'
  BY <1>0, <1>1, <1>2 DEF WaitsInItsCall
<1>4. HoldsItsFile(x) => HoldsItsFile(x)'
  BY <1>1, <1>2 DEF HoldsItsFile, OthersServed
<1>5. ASSUME NEW f \in Files, pathnamePendingLock[x] = f, program[x] = "running",
             pathnamePendingLock'[x] = NULL, opStatus'[x]
      PROVE  HoldsItsFile(x)' /\ Current(x)'.file = f
  <2>1. request[x] = f /\ request[x] # NULL
    BY <1>0, <1>5, NULLAssumption DEF EveryRequestIsPendingOnce
  <2>2. todo[x] # << >> /\ Current(x).file = f
    BY <1>0, <1>5, <2>1 DEF WaitsInItsCall
  <2>. QED BY <1>1, <1>2, <1>5, <2>1, <2>2 DEF HoldsItsFile
<1>6. ASSUME NEW f \in Files, owner'[f] = x, program'[x] = "running"
      PROVE  f \in kept'[x] \/ (HoldsItsFile(x)' /\ Current(x)'.file = f)
  <2>1. CASE owner[f] = x
    BY <1>0, <1>1, <1>2, <1>4, <1>6, <2>1 DEF HeldOrKept
  <2>2. CASE pathnamePendingLock[x] = f /\ pathnamePendingLock'[x] = NULL /\ opStatus'[x]
    BY <1>1, <1>5, <1>6, <2>2
  <2>. QED BY <1>6, <2>1, <2>2 DEF OthersServed
<1>7. HeldOrKept(x)'
  BY <1>6 DEF HeldOrKept
<1>. QED BY <1>3, <1>7

(***************************************************************************)
(* After a call of c for f has returned, c has the locks it is to keep and *)
(* that of f only as far as the call leaves it.                            *)
(***************************************************************************)
LeavesLocks(c, call, ok, f) ==
    \A g \in Files : owner'[g] = c =>
        IF g # f THEN g \in kept[c]
        ELSE /\ call \notin ReleaseCalls
             /\ g \in kept[c] \/ (call \in LockCalls /\ ok) \/ call = "write"

\* Every request begins with a call.
LEMMA FirstCall ==
    ASSUME NEW r \in Items
    PROVE  1 \in 1 .. Len(Calls(r.type))
<1>1. PICK type : type = r.type
  OBVIOUS
<1>2. type \in {"W", "w", "r", "R", "l", "u", "c", "a"}
  BY <1>1, TypesOfItems
<1>3. Len(Calls(type)) = CallCount(type) /\ CallCount(type) \in 1 .. 3
  BY <1>2, CallsOfTypes DEF CallCount
<1>. QED BY <1>1, <1>3

\* The call that a running program is to make.
LEMMA CallInProgress ==
    ASSUME ProgramTypes, NEW c \in Clients, todo[c] # << >>
    PROVE  /\ Current(c) \in Items
           /\ stage[c] \in 1 .. CallCount(Current(c).type)
           /\ Len(Calls(Current(c).type)) = CallCount(Current(c).type)
           /\ IsCall(Current(c).type, stage[c], NextCall(c))
<1>1. Current(c) \in Items
  BY DEF ProgramTypes, Current
<1>2. Current(c).type \in {"W", "w", "r", "R", "l", "u", "c", "a"}
  BY <1>1, TypesOfItems
<1>3. stage[c] \in 1 .. Len(Calls(Current(c).type))
  BY DEF ProgramTypes
<1>. QED BY <1>1, <1>2, <1>3, CallsOfTypes DEF NextCall

\* The variables of the programs keep their types when a call returns.
LEMMA ReturnedKeepsTypes ==
    ASSUME ProgramTypes, NEW c \in Clients, todo[c] # << >>, program[c] = "running",
           NEW ok \in BOOLEAN, Returned(c, ok)
    PROVE  ProgramTypes' /\ OtherPrograms(c)
<1>1. PICK t : t = Current(c).type
  OBVIOUS
<1>2. /\ Current(c) \in Items
      /\ stage[c] \in 1 .. CallCount(t)
      /\ Len(Calls(t)) = CallCount(t)
      /\ IsCall(t, stage[c], NextCall(c))
  BY <1>1, CallInProgress
<1>3. PICK goesOn \in BOOLEAN :
        goesOn = (stage[c] < Len(Calls(t)) /\ (ok \/ Tolerates(t, NextCall(c))))
  OBVIOUS
<1>4. /\ stage' = [stage EXCEPT ![c] = IF goesOn THEN @ + 1 ELSE 1]
      /\ todo' = [todo EXCEPT ![c] = IF goesOn THEN @ ELSE Tail(@)]
      /\ UNCHANGED <<argv, program>>
  BY <1>1, <1>3 DEF Returned
<1>5. kept' \in [Clients -> SUBSET Files] /\ \A x \in Clients \ {c} : kept'[x] = kept[x]
  <2>1. NextCall(c) \in {"lock", "write"} => Current(c).file \in Files
    BY <1>1, <1>2, TypesOfItems DEF IsCall
  <2>2. PICK K : kept' = [kept EXCEPT ![c] = K] /\ K \in SUBSET Files
    <3>1. kept[c] \in SUBSET Files
      BY DEF ProgramTypes
    <3>2. CASE NextCall(c) = "close"
      <4>1. kept' = [kept EXCEPT ![c] = @ \ {Current(c).file}]
        BY <3>2 DEF Returned
      <4>. QED BY <3>1, <4>1
    <3>3. CASE NextCall(c) \in {"lock", "write"}
      <4>1. \/ kept' = [kept EXCEPT ![c] = @ \cup {Current(c).file}]
            \/ kept' = [kept EXCEPT ![c] = @]
        BY <3>3 DEF Returned
      <4>. QED BY <2>1, <3>1, <3>3, <4>1
    <3>4. CASE NextCall(c) \notin {"close", "lock", "write"}
      <4>1. kept' = [kept EXCEPT ![c] = @]
        BY <3>4 DEF Returned
      <4>. QED BY <3>1, <4>1
    <3>. QED BY <3>2, <3>3, <3>4
  <2>. QED BY <2>2 DEF ProgramTypes
<1>6. stage' \in [Clients -> Nat] /\ todo' \in [Clients -> Seq(Items)]
  BY <1>2, <1>4 DEF ProgramTypes
<1>7. ASSUME NEW x \in Clients
      PROVE  IF todo'[x] = << >> THEN stage'[x] = 1
             ELSE stage'[x] \in 1 .. Len(Calls(Current(x)'.type))
  <2>1. CASE x # c \/ goesOn
    <3>1. todo'[x] = todo[x]
      BY <1>4, <2>1 DEF ProgramTypes
    <3>2. Current(x)' = Current(x)
      BY <3>1 DEF Current
    <3>3. CASE x # c
      BY <1>4, <3>1, <3>2, <3>3 DEF ProgramTypes
    <3>4. CASE x = c /\ goesOn
      <4>1. stage'[x] = stage[c] + 1 /\ stage[c] < Len(Calls(t)) /\ stage[c] \in Nat
        BY <1>2, <1>3, <1>4, <3>4 DEF ProgramTypes
      <4>2. Len(Calls(t)) \in Nat
        BY <1>2 DEF CallCount
      <4>. QED BY <1>1, <3>1, <3>2, <3>4, <4>1, <4>2
    <3>. QED BY <2>1, <3>3, <3>4
  <2>2. CASE x = c /\ ~goesOn
    <3>1. todo'[x] = Tail(todo[c]) /\ stage'[x] = 1 /\ todo[c] \in Seq(Items)
      BY <1>4, <2>2 DEF ProgramTypes
    <3>2. CASE todo'[x] # << >>
      <4>1. todo'[x] \in Seq(Items)
        BY <1>6
      <4>2. Current(x)' \in Items
        BY <3>2, <4>1 DEF Current
      <4>. QED BY <3>1, <3>2, <4>2, FirstCall
    <3>. QED BY <3>1, <3>2
  <2>. QED BY <2>1, <2>2
<1>8. ProgramTypes'
  BY <1>4, <1>5, <1>6, <1>7 DEF ProgramTypes
<1>9. OtherPrograms(c)
  BY <1>4, <1>5 DEF OtherPrograms, ProgramTypes
<1>. QED BY <1>8, <1>9

\* When a call has returned, a program that has no request at the server holds what it may.
LEMMA ReturnedKeepsLocks ==
    ASSUME ProgramTypes, NEW c \in Clients, todo[c] # << >>, NEW ok \in BOOLEAN,
           Returned(c, ok), LeavesLocks(c, NextCall(c), ok, Current(c).file), request'[c] = NULL
    PROVE  WaitsInItsCall(c)' /\ HeldOrKept(c)'
<1>0. WaitsInItsCall(c)'
  BY DEF WaitsInItsCall
<1>1. PICK t : t = Current(c).type
  OBVIOUS
<1>2. PICK k : k = stage[c]
  OBVIOUS
<1>3. PICK call : call = NextCall(c)
  OBVIOUS
<1>4. PICK f : f = Current(c).file
  OBVIOUS
<1>5. k \in 1 .. CallCount(t) /\ Len(Calls(t)) = CallCount(t) /\ IsCall(t, k, call)
  BY <1>1, <1>2, <1>3, CallInProgress
<1>6. PICK goesOn \in BOOLEAN :
        goesOn = (k < Len(Calls(t)) /\ (ok \/ Tolerates(t, call)))
  OBVIOUS
<1>7. /\ stage'[c] = IF goesOn THEN k + 1 ELSE 1
      /\ todo'[c] = IF goesOn THEN todo[c] ELSE Tail(todo[c])
  BY <1>1, <1>2, <1>3, <1>6 DEF Returned, ProgramTypes
<1>8. kept'[c] = IF call = "close" THEN kept[c] \ {f}
                 ELSE IF (call = "lock" /\ ok) \/ (t = "w" /\ call = "write" /\ ~ok)
                 THEN kept[c] \cup {f} ELSE kept[c]
  BY <1>1, <1>3, <1>4 DEF Returned, ProgramTypes
<1>9. ASSUME goesOn
      PROVE  Current(c)'.type = t /\ Current(c)'.file = f /\ todo'[c] # << >>
  BY <1>1, <1>4, <1>7, <1>9 DEF Current
<1>10. ASSUME NEW g \in Files, owner'[g] = c
       PROVE  g \in kept'[c] \/ (HoldsItsFile(c)' /\ Current(c)'.file = g)
  <2>1. IF g # f THEN g \in kept[c]
        ELSE /\ call \notin ReleaseCalls
             /\ g \in kept[c] \/ (call \in LockCalls /\ ok) \/ call = "write"
    BY <1>3, <1>4, <1>10 DEF LeavesLocks
  <2>2. CASE g # f \/ g \in kept[c]
    BY <1>8, <2>1, <2>2 DEF ReleaseCalls
  <2>3. CASE g = f /\ call = "lock" /\ ok
    BY <1>8, <2>3
  <2>4. CASE g = f /\ call \in {"create_locked", "open_locked"} /\ ok
    <3>1. k = 1 /\ CallCount(t) \in {2, 3} /\ (t \in {"W", "w"} \/ t = "c")
      BY <1>5, <2>4 DEF IsCall, CallCount
    <3>2. k < Len(Calls(t))
      BY <1>5, <3>1
    <3>3. goesOn
      BY <1>6, <2>4, <3>2, Zenon
    <3>4. stage'[c] = 2
      BY <1>7, <3>1, <3>3
    <3>. QED BY <1>9, <2>4, <3>1, <3>3, <3>4 DEF HoldsItsFile
  <2>5. CASE g = f /\ call = "write"
    <3>1. k = 2 /\ CallCount(t) = 3 /\ t \in {"W", "w"}
      BY <1>5, <2>5 DEF IsCall, CallCount
    <3>2. CASE t = "w" /\ ~ok
      BY <1>8, <2>5, <3>2
    <3>3. CASE t = "W" \/ ok
      <4>1. k < Len(Calls(t))
        BY <1>5, <3>1
      <4>2. ok \/ Tolerates(t, call)
        BY <2>5, <3>3 DEF Tolerates
      <4>3. goesOn
        BY <1>6, <4>1, <4>2, Zenon
      <4>4. stage'[c] = 3
        BY <1>7, <3>1, <4>3
      <4>. QED BY <1>9, <2>5, <3>1, <4>3, <4>4 DEF HoldsItsFile
    <3>. QED BY <3>1, <3>2, <3>3
  <2>. QED BY <2>1, <2>2, <2>3, <2>4, <2>5 DEF LockCalls
<1>11. HeldOrKept(c)'
  BY <1>10 DEF HeldOrKept
<1>. QED BY <1>0, <1>11

----------------------------------------------------------------------------
(* One lemma for each step.                                                *)

\* The whole invariant, from what is to be shown for the client that takes the step.
LEMMA ProgramInvAfterStep ==
    ASSUME ProgramInv, NEW c \in Clients, IndInv', ProgramTypes', OthersServed(c),
           OtherPrograms(c), WaitsInItsCall(c)', HeldOrKept(c)'
    PROVE  ProgramInv'
<1>1. ASSUME NEW x \in Clients
      PROVE  WaitsInItsCall(x)' /\ HeldOrKept(x)'
  <2>1. CASE x = c
    BY <2>1 DEF WaitsInItsCall, HeldOrKept, HoldsItsFile, Current, NextCall
  <2>2. CASE x # c
    BY <2>2, OthersKeepTheirLocks
  <2>. QED BY <2>1, <2>2
<1>. QED BY <1>1 DEF ProgramInv

\* A call that is performed returns, or waits for the lock it is to get.
LEMMA PerformKeepsInv ==
    ASSUME ProgramInv, NEW c \in Clients, Perform(c)
    PROVE  ProgramInv'
<1>1. PICK call : call = NextCall(c)
  OBVIOUS
<1>2. PICK r : r = Current(c)
  OBVIOUS
<1>3. IndInv /\ ProgramTypes /\ HeldOrKept(c) /\ program[c] = "running" /\ Ready(c)
      /\ todo[c] # << >> /\ request[c] = NULL
  BY DEF ProgramInv, Perform, Calling, Ready
<1>4. /\ r \in Items /\ IsCall(r.type, stage[c], call)
      /\ Succeeds(c, call, r) /\ Operation(c, call, r)
  BY <1>1, <1>2, <1>3, CallInProgress DEF Perform
<1>5. IndInv' /\ Serves(c, call, r.file)
  BY <1>3, <1>4, OperationServes
<1>6. ASSUME HoldsItsFile(c)
      PROVE  call \notin LockCalls /\ (call \notin ReleaseCalls => call = "write")
  BY <1>2, <1>3, <1>4, <1>6 DEF HoldsItsFile, IsCall, LockCalls, ReleaseCalls
<1>7. CASE request'[c] # NULL
  <2>1. UNCHANGED clientVars /\ UNCHANGED <<argv, program, todo, stage, kept>>
    BY <1>7 DEF Perform, clientVars, progress
  <2>2. call \in LockCalls /\ request'[c] = r.file /\ GetsNothing(c)
    BY <1>5, <1>7 DEF Serves
  <2>3. Current(c)' = r /\ NextCall(c)' = call
    BY <1>1, <1>2, <2>1 DEF Current, NextCall
  <2>4. WaitsInItsCall(c)'
    BY <1>3, <2>1, <2>2, <2>3 DEF WaitsInItsCall
  <2>5. HeldOrKept(c)'
    BY <1>3, <1>6, <2>1, <2>2 DEF HeldOrKept, GetsNothing
  <2>6. ProgramTypes' /\ OtherPrograms(c)
    BY <1>3, <2>1, <2>3 DEF ProgramTypes, OtherPrograms, Current
  <2>. QED BY <1>5, <2>4, <2>5, <2>6, ProgramInvAfterStep DEF Serves
<1>8. CASE request'[c] = NULL
  <2>1. PICK ok \in BOOLEAN : ok = TRUE
    OBVIOUS
  <2>2. Returned(c, ok)
    BY <1>8, <2>1 DEF Perform
  <2>3. LeavesLocks(c, call, ok, r.file)
    BY <1>2, <1>3, <1>5, <1>6, <2>1
       DEF Serves, LeavesLocks, GetsAtMost, GetsNothing, HeldOrKept, LockCalls, ReleaseCalls
  <2>4. WaitsInItsCall(c)' /\ HeldOrKept(c)'
    BY <1>1, <1>2, <1>3, <1>8, <2>2, <2>3, ReturnedKeepsLocks
  <2>5. ProgramTypes' /\ OtherPrograms(c)
    BY <1>3, <2>2, ReturnedKeepsTypes
  <2>. QED BY <1>5, <2>4, <2>5, ProgramInvAfterStep DEF Serves
<1>. QED BY <1>7, <1>8

\* A client that is refused a release does not hold the lock.
LEMMA RefuseKeepsInv ==
    ASSUME ProgramInv, NEW c \in Clients, Refuse(c)
    PROVE  ProgramInv'
<1>1. PICK call : call = NextCall(c)
  OBVIOUS
<1>2. PICK r : r = Current(c)
  OBVIOUS
<1>3. /\ IndInv /\ ProgramTypes /\ HeldOrKept(c) /\ program[c] = "running"
      /\ todo[c] # << >> /\ request[c] = NULL /\ LockHolderCanRelease
  BY DEF ProgramInv, IndInv, Refuse, Calling, Ready
<1>4. r \in Items /\ IsCall(r.type, stage[c], call) /\ ~Succeeds(c, call, r)
  BY <1>1, <1>2, <1>3, CallInProgress DEF Refuse
<1>5. UNCHANGED vars /\ UNCHANGED <<owner, request, pathnamePendingLock, opStatus>>
  BY DEF Refuse, vars
<1>6. IndInv' /\ OthersServed(c)
  BY <1>3, <1>5, NextPreserves, UntouchedServes
<1>7. PICK ok \in BOOLEAN : ok = FALSE
  OBVIOUS
<1>8. Returned(c, ok)
  BY <1>7 DEF Refuse
<1>9. ASSUME call \in ReleaseCalls, r.file \in Files
      PROVE  owner[r.file] # c
  <2>1. ~Opened(c, r.file) \/ OwnedBy(c, {r.file}) # {r.file}
    BY <1>4, <1>9 DEF Succeeds, ReleaseCalls
  <2>2. owner[r.file] = c => Opened(c, r.file) /\ r.file \in stored
    BY <1>3, <1>9, NoOwnerAssumption DEF LockHolderCanRelease
  <2>. QED BY <2>1, <2>2 DEF OwnedBy
<1>10. ASSUME HoldsItsFile(c)
       PROVE  call \in ReleaseCalls \/ call = "write"
  BY <1>2, <1>3, <1>4, <1>10 DEF HoldsItsFile, IsCall, ReleaseCalls
<1>11. LeavesLocks(c, call, ok, r.file)
  BY <1>2, <1>3, <1>5, <1>9, <1>10 DEF LeavesLocks, HeldOrKept
<1>12. WaitsInItsCall(c)' /\ HeldOrKept(c)'
  BY <1>1, <1>2, <1>3, <1>5, <1>8, <1>11, ReturnedKeepsLocks
<1>13. ProgramTypes' /\ OtherPrograms(c)
  BY <1>3, <1>8, ReturnedKeepsTypes
<1>. QED BY <1>6, <1>12, <1>13, ProgramInvAfterStep

\* The answer of the notifier says whether the client has got the lock.
LEMMA AnsweredKeepsInv ==
    ASSUME ProgramInv, NEW c \in Clients, Answered(c)
    PROVE  ProgramInv'
<1>1. /\ IndInv /\ TypeOK /\ EveryRequestIsPendingOnce /\ ProgramTypes
      /\ HeldOrKept(c) /\ WaitsInItsCall(c) /\ Notify(c)
  BY DEF ProgramInv, IndInv, Answered
<1>2. request[c] # NULL /\ pathnamePendingLock[c] = NULL
  BY <1>1 DEF Notify, EveryRequestIsPendingOnce
<1>3. /\ request'[c] = NULL /\ UNCHANGED <<owner, pathnamePendingLock, opStatus>>
      /\ \A x \in Clients \ {c} : request'[x] = request[x]
  BY <1>1 DEF Notify, Answer, TypeOK
<1>4. IndInv' /\ OthersServed(c)
  BY <1>1, <1>3, NotifyPreserves DEF OthersServed
<1>5. CASE program[c] # "running"
  <2>1. UNCHANGED <<argv, program, todo, stage, kept>>
    BY <1>5 DEF Answered, clientVars, progress
  <2>2. ProgramTypes' /\ OtherPrograms(c) /\ WaitsInItsCall(c)' /\ HeldOrKept(c)'
    BY <1>1, <1>5, <2>1
       DEF ProgramTypes, OtherPrograms, WaitsInItsCall, HeldOrKept, Current
  <2>. QED BY <1>4, <2>2, ProgramInvAfterStep
<1>6. CASE program[c] = "running"
  <2>1. PICK ok \in BOOLEAN : ok = opStatus[c]
    BY <1>1 DEF TypeOK
  <2>2. Returned(c, ok)
    BY <1>6, <2>1 DEF Answered
  <2>3. todo[c] # << >> /\ Current(c).file = request[c] /\ NextCall(c) \in LockCalls
    BY <1>1, <1>2, <1>6 DEF WaitsInItsCall
  <2>4. NextCall(c) \notin ReleaseCalls
    BY <2>3 DEF LockCalls, ReleaseCalls
  <2>5. HoldsItsFile(c) => ok
    BY <1>2, <2>1 DEF HoldsItsFile
  <2>6. LeavesLocks(c, NextCall(c), ok, Current(c).file)
    BY <1>1, <1>3, <1>6, <2>3, <2>4, <2>5 DEF LeavesLocks, HeldOrKept
  <2>7. WaitsInItsCall(c)' /\ HeldOrKept(c)'
    BY <1>1, <1>3, <2>2, <2>3, <2>6, ReturnedKeepsLocks
  <2>8. ProgramTypes' /\ OtherPrograms(c)
    BY <1>1, <1>6, <2>2, <2>3, ReturnedKeepsTypes
  <2>. QED BY <1>4, <2>7, <2>8, ProgramInvAfterStep
<1>. QED BY <1>5, <1>6

\* NeverConnects, Finish and Kill.
LEMMA EndsKeepsInv ==
    ASSUME ProgramInv, NEW c \in Clients, Ends(c)
    PROVE  ProgramInv'
<1>1. IndInv /\ ProgramTypes
  BY DEF ProgramInv
<1>2. UNCHANGED vars /\ UNCHANGED <<owner, request, pathnamePendingLock, opStatus>>
  BY DEF Ends, vars
<1>3. IndInv' /\ OthersServed(c)
  BY <1>1, <1>2, NextPreserves, UntouchedServes
<1>4. /\ program' = [program EXCEPT ![c] = "ended"] /\ argv' = [argv EXCEPT ![c] = << >>]
      /\ todo' = [todo EXCEPT ![c] = << >>] /\ stage' = [stage EXCEPT ![c] = 1]
      /\ kept' = [kept EXCEPT ![c] = {}]
  BY DEF Ends
<1>5. OtherPrograms(c) /\ program'[c] = "ended"
  BY <1>1, <1>4 DEF OtherPrograms, ProgramTypes
<1>6. ProgramTypes'
  <2>1. /\ argv' \in [Clients -> Lines \cup {<< >>}]
        /\ program' \in [Clients -> {"started", "running", "ended"}]
        /\ todo' \in [Clients -> Seq(Items)]
        /\ stage' \in [Clients -> Nat]
        /\ kept' \in [Clients -> SUBSET Files]
    BY <1>1, <1>4 DEF ProgramTypes
  <2>2. ASSUME NEW x \in Clients
        PROVE  /\ program'[x] = "started" => argv'[x] \in Lines /\ todo'[x] = << >>
               /\ IF todo'[x] = << >> THEN stage'[x] = 1
                  ELSE stage'[x] \in 1 .. Len(Calls(Current(x)'.type))
    <3>1. CASE x = c
      BY <1>1, <1>4, <3>1 DEF ProgramTypes
    <3>2. CASE x # c
      BY <1>1, <1>4, <3>2 DEF ProgramTypes, Current
    <3>. QED BY <3>1, <3>2
  <2>. QED BY <2>1, <2>2 DEF ProgramTypes
<1>7. WaitsInItsCall(c)' /\ HeldOrKept(c)'
  BY <1>5 DEF WaitsInItsCall, HeldOrKept
<1>. QED BY <1>3, <1>5, <1>6, <1>7, ProgramInvAfterStep

\* A client that connects owns nothing and waits for nothing.
LEMMA StartKeepsInv ==
    ASSUME ProgramInv, NEW c \in Clients, Start(c)
    PROVE  ProgramInv'
<1>1. /\ IndInv /\ TypeOK /\ BlockedAreConnected /\ LockHolderCanRelease
      /\ EveryRequestIsPendingOnce /\ ProgramTypes /\ Connect(c) /\ program[c] = "started"
  BY DEF ProgramInv, IndInv, Start
<1>2. /\ c \notin connected /\ request[c] = NULL /\ pathnamePendingLock[c] = NULL
      /\ \A f \in Files : owner[f] # c
  BY <1>1, NoOwnerAssumption
     DEF Connect, BlockedAreConnected, LockHolderCanRelease, EveryRequestIsPendingOnce
<1>3. /\ UNCHANGED <<owner, request>> /\ pathnamePendingLock' = pathnamePendingLock
      /\ \A x \in Clients \ {c} : opStatus'[x] = opStatus[x]
  BY <1>1, <1>2 DEF Connect, TypeOK
<1>4. IndInv' /\ OthersServed(c)
  BY <1>1, <1>3, ConnectPreserves DEF OthersServed
<1>5. PICK line : line = argv[c]
  OBVIOUS
<1>6. line \in Lines /\ WorkFor[line] \in Seq(Items)
  BY <1>1, <1>5, WorkAssumption DEF ProgramTypes
<1>7. PICK work \in Seq(Items) : work = WorkFor[line]
  BY <1>6
<1>8. /\ program' = [program EXCEPT ![c] = "running"] /\ argv' = [argv EXCEPT ![c] = << >>]
      /\ todo' = [todo EXCEPT ![c] = work] /\ UNCHANGED <<stage, kept>>
  BY <1>5, <1>7 DEF Start
<1>9. OtherPrograms(c)
  BY <1>1, <1>8 DEF OtherPrograms, ProgramTypes
<1>10. ProgramTypes'
  <2>1. /\ argv' \in [Clients -> Lines \cup {<< >>}]
        /\ program' \in [Clients -> {"started", "running", "ended"}]
        /\ todo' \in [Clients -> Seq(Items)]
        /\ stage' \in [Clients -> Nat]
        /\ kept' \in [Clients -> SUBSET Files]
    BY <1>1, <1>8 DEF ProgramTypes
  <2>2. ASSUME NEW x \in Clients
        PROVE  /\ program'[x] = "started" => argv'[x] \in Lines /\ todo'[x] = << >>
               /\ IF todo'[x] = << >> THEN stage'[x] = 1
                  ELSE stage'[x] \in 1 .. Len(Calls(Current(x)'.type))
    <3>1. CASE x = c
      <4>1. stage'[x] = 1 /\ todo'[x] = work /\ program'[x] = "running"
        BY <1>1, <1>8, <3>1 DEF ProgramTypes
      <4>2. work # << >> => Current(x)' \in Items
        BY <4>1 DEF Current
      <4>. QED BY <4>1, <4>2, FirstCall
    <3>2. CASE x # c
      BY <1>1, <1>8, <3>2 DEF ProgramTypes, Current
    <3>. QED BY <3>1, <3>2
  <2>. QED BY <2>1, <2>2 DEF ProgramTypes
<1>11. WaitsInItsCall(c)' /\ HeldOrKept(c)'
  BY <1>2, <1>3 DEF WaitsInItsCall, HeldOrKept
<1>. QED BY <1>4, <1>9, <1>10, <1>11, ProgramInvAfterStep

\* The server notices that a program has ended.
LEMMA DisconnectedKeepsInv ==
    ASSUME ProgramInv, NEW c \in Clients, Disconnected(c)
    PROVE  ProgramInv'
<1>1. IndInv /\ ProgramTypes /\ program[c] = "ended" /\ ConnectionClosed(c)
  BY DEF ProgramInv, Disconnected
<1>2. UNCHANGED <<argv, program, todo, stage, kept>>
  BY DEF Disconnected, clientVars, progress
<1>3. IndInv'
  BY <1>1, ConnectionClosedPreserves
<1>4. OthersServed(c)
  <2>1. CASE Fail("double_free")
    BY <2>1, FailServes
  <2>2. CASE unlockfiles(OwnedBy(c, {openedFiles[c][d] : d \in Descriptors})) /\ UNCHANGED request
    <3>1. PICK F : F = OwnedBy(c, {openedFiles[c][d] : d \in Descriptors})
      OBVIOUS
    <3>2. F \in SUBSET Files /\ \A f \in F : owner[f] = c
      BY <1>1, <3>1 DEF OwnedBy, IndInv, TypeOK
    <3>. QED BY <1>1, <2>2, <3>1, <3>2, UnlockServes
  <2>. QED BY <1>1, <2>1, <2>2 DEF ConnectionClosed
<1>5. ProgramTypes' /\ OtherPrograms(c) /\ WaitsInItsCall(c)' /\ HeldOrKept(c)'
  BY <1>1, <1>2 DEF ProgramTypes, OtherPrograms, WaitsInItsCall, HeldOrKept, Current
<1>. QED BY <1>3, <1>4, <1>5, ProgramInvAfterStep

\* A worker in readNFiles only moves on in the ring; one that has expelled files frees them.
LEMMA ServeOnKeepsInv ==
    ASSUME ProgramInv, NEW c \in Clients, ServeOn(c)
    PROVE  ProgramInv'
<1>1. /\ IndInv /\ ProgramTypes /\ WaitsInItsCall(c) /\ HeldOrKept(c)
      /\ ReadNext(c) \/ FreeExpelled(c)
      /\ UNCHANGED <<argv, program, todo, stage, kept>>
  BY DEF ProgramInv, ServeOn, clientVars, progress
<1>2. UNCHANGED <<owner, request, pathnamePendingLock, opStatus>>
  BY <1>1 DEF ReadNext, FreeExpelled, Fail, lockVars
<1>3. IndInv'
  BY <1>1, ReadNextPreserves, RingStepPreserves DEF FreeExpelled
<1>4. ProgramTypes' /\ OtherPrograms(c)
  BY <1>1 DEF ProgramTypes, OtherPrograms, Current
<1>5. WaitsInItsCall(c)' /\ HeldOrKept(c)'
  BY <1>1, <1>2 DEF WaitsInItsCall, HeldOrKept, HoldsItsFile, Current, NextCall
<1>. QED BY <1>2, <1>3, <1>4, <1>5, UntouchedServes, ProgramInvAfterStep

----------------------------------------------------------------------------
\* No program has begun, and nothing is locked.
LEMMA ProgramInvInitially == ClientInit => ProgramInv
<1>. SUFFICES ASSUME ClientInit PROVE ProgramInv
  OBVIOUS
<1>1. IndInv
  BY InitEstablishes DEF ClientInit
<1>2. ProgramTypes
  <2>1. argv \in [Clients -> Lines] /\ << >> \in Seq(Items)
    BY InvocationsAssumption DEF ClientInit
  <2>. QED BY <2>1 DEF ClientInit, ProgramTypes
<1>3. \A c \in Clients : WaitsInItsCall(c) /\ HeldOrKept(c)
  BY DEF ClientInit, WaitsInItsCall, HeldOrKept
<1>. QED BY <1>1, <1>2, <1>3 DEF ProgramInv

\* Each step of the programs and the server in turn.
LEMMA ProgramInvPreserved ==
    ProgramInv /\ [ClientNext]_<<vars, clientVars>> => ProgramInv'
<1>. SUFFICES ASSUME ProgramInv, [ClientNext]_<<vars, clientVars>> PROVE ProgramInv'
  OBVIOUS
<1>1. ASSUME NEW c \in Clients, Proceed(c) PROVE ProgramInv'
  BY <1>1, PerformKeepsInv, RefuseKeepsInv, AnsweredKeepsInv, EndsKeepsInv,
     DisconnectedKeepsInv, ServeOnKeepsInv DEF Proceed, Finish
<1>2. ASSUME NEW c \in Clients, Start(c) \/ NeverConnects(c) \/ Kill(c) PROVE ProgramInv'
  BY <1>2, StartKeepsInv, EndsKeepsInv DEF NeverConnects, Kill
<1>3. CASE UNCHANGED <<vars, clientVars>>
  <2>1. IndInv'
    BY <1>3, NextPreserves DEF ProgramInv
  <2>2. UNCHANGED <<argv, program, todo, stage, kept,
                    owner, request, pathnamePendingLock, opStatus>>
    BY <1>3 DEF vars, clientVars, progress
  <2>. QED BY <2>1, <2>2 DEF ProgramInv, ProgramTypes, WaitsInItsCall, HeldOrKept,
                             HoldsItsFile, Current, NextCall
<1>. QED BY <1>1, <1>2, <1>3 DEF ClientNext

\* ProgramInv holds at all times.
THEOREM ClientInvariance == ClientSpec => []ProgramInv
BY ProgramInvInitially, ProgramInvPreserved, PTL DEF ClientSpec

(***************************************************************************)
(* Whatever fails, waits, is evicted or is killed, a running program holds *)
(* only the lock of its current request's file and those it has been asked *)
(* to keep (main.c:229-323).                                               *)
(***************************************************************************)
THEOREM LocksKeptOnPurpose == ClientSpec => []LocksAreKeptOnPurpose
<1>1. ProgramInv => LocksAreKeptOnPurpose
  BY DEF ProgramInv, HeldOrKept, HoldsItsFile, LocksAreKeptOnPurpose
<1>. QED BY <1>1, ClientInvariance, PTL

(***************************************************************************)
(* Client programs are clients of the store that its own theorems speak of *)
(* (files.c:68-144): whatever calls they make, its descriptors agree.      *)
(***************************************************************************)
THEOREM ProgramsKeepSlotsConsistent == ClientSpec => []SlotsAreConsistent
<1>1. ProgramInv => SlotsAreConsistent
  BY DEF ProgramInv, IndInv
<1>. QED BY <1>1, ClientInvariance, PTL

----------------------------------------------------------------------------
(***************************************************************************)
(* The command line of a client program: the options that getopt finds,    *)
(* the requests that they become, in order, and the directories that the   *)
(* requests get from the options behind theirs.                            *)
(***************************************************************************)

\* The provers do not know that a literal is a string.
Strings == STRING \cup Names \cup {"", ":", "0", "R"}
OptionRecords == [letter : Strings, optopt : Strings, parts : Seq(Strings)]

\* A least counterexample, if there is one.
LEMMA LeastIn ==
    ASSUME NEW S \in SUBSET Nat, S # {}
    PROVE  \E m \in S : \A n \in Nat : n < m => n \notin S
<1>. DEFINE R == {p \in Nat \X Nat : p[1] < p[2]}
<1>1. IsWellFoundedOn(R, Nat)
  BY NatLessThanWellFounded DEF OpToRel
<1>. HIDE DEF R
<1>2. PICK m \in S : \A x \in S : ~ (<<x, m>> \in R)
  BY <1>1, WFMin
<1>3. ASSUME NEW n \in Nat, n < m, n \in S
      PROVE  FALSE
  <2>1. <<n, m>> \in R
    BY <1>3 DEF R
  <2>. QED BY <1>2, <1>3, <2>1
<1>. QED BY <1>3

\* What getopt finds at word i, if p holds what it finds from each later word on.
FoundAt(p, words, i) ==
    IF i > Len(words) THEN << >>
    ELSE IF ~IsOption(words[i]) THEN p[i + 1]
    ELSE IF ~HasArgument(words, i)
         THEN <<[letter |-> IF words[i].letter \in WithArgument THEN ":" ELSE words[i].letter,
                 optopt |-> words[i].letter, parts |-> << >>]>> \o p[i + 1]
    ELSE IF PutsBack(words, i)
         THEN <<[letter |-> "R", optopt |-> "", parts |-> <<"0">>]>> \o p[i + 1]
    ELSE <<[letter |-> words[i].letter, optopt |-> "", parts |-> words[i + 1].parts]>>
             \o p[i + 2]

\* p holds it from word n on.
FoundFrom(p, words, n) == p = [i \in n .. Len(words) + 2 |-> FoundAt(p, words, i)]

\* What is found at a word depends on the two places behind it.
LEMMA FoundAtLater ==
    ASSUME NEW p, NEW g, NEW words, NEW i,
           i > Len(words) \/ (p[i + 1] = g[i + 1] /\ p[i + 2] = g[i + 2])
    PROVE  FoundAt(p, words, i) = FoundAt(g, words, i)
<1>1. CASE i > Len(words)
  BY <1>1, Zenon DEF FoundAt
<1>2. CASE p[i + 1] = g[i + 1] /\ p[i + 2] = g[i + 2]
  BY <1>2, Zenon DEF FoundAt
<1>. QED BY <1>1, <1>2

\* It is found from the last word backwards.
LEMMA FoundExists ==
    ASSUME NEW words, Len(words) \in Nat, NEW n \in Nat, n <= Len(words) + 1
    PROVE  \E p : FoundFrom(p, words, Len(words) + 2 - n)
<1>. DEFINE L == Len(words) + 2
<1>1. ASSUME ~ \E p : FoundFrom(p, words, L - n)
      PROVE  FALSE
  <2>. DEFINE S == {k \in Nat : k <= Len(words) + 1 /\ ~ \E p : FoundFrom(p, words, L - k)}
  <2>1. n \in S /\ S \in SUBSET Nat
    BY <1>1
  <2>2. PICK m \in S : \A k \in Nat : k < m => k \notin S
    BY <2>1, LeastIn
  <2>3. CASE m = 0
    <3>1. PICK p : p = [i \in L - m .. L |-> << >>]
      OBVIOUS
    <3>2. \A i \in L - m .. L : i > Len(words)
      BY <2>3
    <3>3. \A i \in L - m .. L : FoundAt(p, words, i) = << >>
      BY <3>2, Zenon DEF FoundAt
    <3>4. FoundFrom(p, words, L - m)
      BY <3>1, <3>3, Zenon DEF FoundFrom
    <3>. QED BY <2>2, <3>4
  <2>4. CASE m # 0
    <3>1. PICK j \in Nat : m = j + 1
      BY <2>2, <2>4
    <3>2. PICK p : FoundFrom(p, words, L - j)
      BY <2>2, <3>1
    <3>3. p = [i \in L - j .. L |-> FoundAt(p, words, i)]
      BY <3>2 DEF FoundFrom
    <3>4. PICK g : g = [i \in L - m .. L |-> IF i = L - m THEN FoundAt(p, words, i) ELSE p[i]]
      OBVIOUS
    <3>5. \A i \in L - j .. L : i \in L - m .. L /\ i # L - m
      BY <3>1, <2>2
    <3>6. \A i \in L - j .. L : g[i] = p[i]
      BY <3>4, <3>5, Zenon
    <3>7. ASSUME NEW i \in L - m .. L
          PROVE  g[i] = FoundAt(g, words, i)
      <4>1. i > Len(words) \/ (i + 1 \in L - j .. L /\ i + 2 \in L - j .. L)
        BY <3>1, <2>2
      <4>2. FoundAt(p, words, i) = FoundAt(g, words, i)
        <5>1. CASE i > Len(words)
          BY <5>1, FoundAtLater
        <5>2. CASE i + 1 \in L - j .. L /\ i + 2 \in L - j .. L
          <6>1. p[i + 1] = g[i + 1] /\ p[i + 2] = g[i + 2]
            BY <3>6, <5>2, Zenon
          <6>. QED BY <6>1, FoundAtLater
        <5>. QED BY <4>1, <5>1, <5>2
      <4>3. CASE i = L - m
        BY <3>4, <4>2, <4>3, Zenon
      <4>4. CASE i # L - m
        <5>1. i \in L - j .. L
          BY <4>4, <3>1, <2>2
        <5>2. p[i] = FoundAt(p, words, i)
          BY <3>3, <5>1, Zenon
        <5>. QED BY <3>6, <5>1, <5>2, <4>2, Zenon
      <4>. QED BY <4>3, <4>4
    <3>8. FoundFrom(g, words, L - m)
      BY <3>4, <3>7, Zenon DEF FoundFrom
    <3>. QED BY <2>2, <3>8
  <2>. QED BY <2>3, <2>4
<1>. QED BY <1>1

\* Each place holds a list of options.
LEMMA FoundTypes ==
    ASSUME NEW words \in Seq(Words), NEW p, FoundFrom(p, words, 1)
    PROVE  p[1] \in Seq(OptionRecords)
<1>. DEFINE L == Len(words) + 2
<1>0. Len(words) \in Nat /\ \A i \in 1 .. Len(words) : words[i] \in Words
  OBVIOUS
<1>1. \A i \in 1 .. L : p[i] = FoundAt(p, words, i)
  BY Zenon DEF FoundFrom
<1>2. ASSUME p[1] \notin Seq(OptionRecords)
      PROVE  FALSE
  <2>. DEFINE S == {k \in Nat : k <= Len(words) + 1 /\ p[L - k] \notin Seq(OptionRecords)}
  <2>1. Len(words) + 1 \in S /\ S \in SUBSET Nat
    <3>1. L - (Len(words) + 1) = 1
      BY <1>0
    <3>. QED BY <1>0, <1>2, <3>1
  <2>2. PICK m \in S : \A k \in Nat : k < m => k \notin S
    BY <2>1, LeastIn
  <2>3. PICK i \in 1 .. L : i = L - m
    BY <1>0, <2>2
  <2>4. p[i] \notin Seq(OptionRecords) /\ p[i] = FoundAt(p, words, i)
    BY <1>1, <2>2, <2>3
  <2>5. i <= Len(words)
    <3>1. CASE i > Len(words)
      <4>1. FoundAt(p, words, i) = << >>
        BY <3>1, Zenon DEF FoundAt
      <4>. QED BY <2>4, <4>1
    <3>. QED BY <1>0, <2>3, <3>1
  <2>6. p[i + 1] \in Seq(OptionRecords) /\ p[i + 2] \in Seq(OptionRecords)
    <3>1. PICK a \in Nat, b \in Nat : a = m - 1 /\ b = m - 2
      BY <1>0, <2>2, <2>3, <2>5
    <3>2. a < m /\ b < m /\ L - a = i + 1 /\ L - b = i + 2
      BY <1>0, <2>2, <2>3, <3>1
    <3>3. a \notin S /\ b \notin S
      BY <2>2, <3>2
    <3>4. a <= Len(words) + 1 /\ b <= Len(words) + 1
      BY <2>2, <3>2, <1>0
    <3>. QED BY <3>2, <3>3, <3>4
  <2>7. words[i] \in Words /\ words[i].letter \in Strings
    <3>1. i \in 1 .. Len(words)
      BY <1>0, <2>3, <2>5
    <3>2. words[i].letter \in STRING
      BY <1>0, <3>1, Zenon DEF Words
    <3>. QED BY <1>0, <3>1, <3>2, Zenon DEF Strings
  <2>8. HasArgument(words, i) => words[i + 1].parts \in Seq(Strings)
    <3>1. HasArgument(words, i) => i + 1 \in 1 .. Len(words)
      BY <1>0, <2>3 DEF HasArgument
    <3>2. HasArgument(words, i) => words[i + 1].parts \in Seq(STRING \cup Names)
      BY <1>0, <3>1 DEF Words
    <3>3. \A A, B : A \subseteq B => Seq(A) \subseteq Seq(B)
      OBVIOUS
    <3>4. STRING \cup Names \subseteq Strings
      BY Zenon DEF Strings
    <3>. QED BY <3>2, <3>3, <3>4, Zenon
  <2>9. \A o \in OptionRecords, s \in Seq(OptionRecords) : <<o>> \o s \in Seq(OptionRecords)
    BY ConcatProperties
  <2>10. CASE ~IsOption(words[i])
    BY <2>4, <2>5, <2>6, <2>10, <1>0, <2>3 DEF FoundAt
  <2>11. CASE IsOption(words[i]) /\ ~HasArgument(words, i)
    <3>1. PICK o : o = [letter |-> IF words[i].letter \in WithArgument THEN ":" ELSE words[i].letter,
                        optopt |-> words[i].letter, parts |-> << >>]
      OBVIOUS
    <3>2. o \in OptionRecords
      <4>1. (IF words[i].letter \in WithArgument THEN ":" ELSE words[i].letter) \in Strings
        BY <2>7 DEF Strings
      <4>2. << >> \in Seq(Strings)
        OBVIOUS
      <4>. QED BY <2>7, <3>1, <4>1, <4>2, Zenon DEF OptionRecords
    <3>3. ~ (i > Len(words))
      BY <1>0, <2>3, <2>5
    <3>4. p[i] = <<o>> \o p[i + 1]
      BY <2>4, <2>11, <3>1, <3>3, Zenon DEF FoundAt
    <3>. QED BY <2>4, <2>6, <2>9, <3>2, <3>4
  <2>12. CASE IsOption(words[i]) /\ HasArgument(words, i) /\ PutsBack(words, i)
    <3>1. PICK o : o = [letter |-> "R", optopt |-> "", parts |-> <<"0">>]
      OBVIOUS
    <3>2. o \in OptionRecords
      <4>1. "0" \in Strings /\ "R" \in Strings /\ "" \in Strings
        BY DEF Strings
      <4>2. \A T : \A x \in T : <<x>> \in Seq(T)
        OBVIOUS
      <4>. QED BY <3>1, <4>1, <4>2, Zenon DEF OptionRecords
    <3>3. ~ (i > Len(words))
      BY <1>0, <2>3, <2>5
    <3>4. p[i] = <<o>> \o p[i + 1]
      BY <2>4, <2>12, <3>1, <3>3, Zenon DEF FoundAt
    <3>. QED BY <2>4, <2>6, <2>9, <3>2, <3>4
  <2>13. CASE IsOption(words[i]) /\ HasArgument(words, i) /\ ~PutsBack(words, i)
    <3>1. PICK o : o = [letter |-> words[i].letter, optopt |-> "", parts |-> words[i + 1].parts]
      OBVIOUS
    <3>2. o \in OptionRecords
      <4>1. "" \in Strings
        BY DEF Strings
      <4>. QED BY <2>7, <2>8, <2>13, <3>1, <4>1, Zenon DEF OptionRecords
    <3>3. ~ (i > Len(words))
      BY <1>0, <2>3, <2>5
    <3>4. p[i] = <<o>> \o p[i + 2]
      BY <2>4, <2>13, <3>1, <3>3, Zenon DEF FoundAt
    <3>. QED BY <2>4, <2>6, <2>9, <3>2, <3>4
  <2>. QED BY <2>10, <2>11, <2>12, <2>13
<1>. QED BY <1>2

\* getopt finds a list of options.
LEMMA OptionsType ==
    ASSUME NEW words \in Seq(Words)
    PROVE  Options(words) \in Seq(OptionRecords)
<1>. DEFINE f == CHOOSE p : FoundFrom(p, words, 1)
<1>1. Len(words) \in Nat /\ Len(words) + 2 - (Len(words) + 1) = 1
  OBVIOUS
<1>2. \E p : FoundFrom(p, words, 1)
  BY <1>1, FoundExists
<1>3. FoundFrom(f, words, 1)
  BY <1>2, Zenon
<1>4. Options(words) = f[1]
  BY Zenon DEF Options, FoundFrom, FoundAt
<1>. QED BY <1>3, <1>4, FoundTypes
Gathers(p, q, n) == p = [i \in 1 .. n |-> IF i = 1 THEN q[i] ELSE p[i - 1] \o q[i]]

\* Such a function exists, for any number of pieces.
LEMMA GatheredExists ==
    ASSUME NEW q, NEW n \in Nat
    PROVE  \E p : Gathers(p, q, n)
<1>1. ASSUME ~ \E p : Gathers(p, q, n)
      PROVE  FALSE
  <2>. DEFINE S == {k \in Nat : ~ \E p : Gathers(p, q, k)}
  <2>1. n \in S /\ S \in SUBSET Nat
    BY <1>1
  <2>2. PICK m \in S : \A k \in Nat : k < m => k \notin S
    BY <2>1, LeastIn
  <2>3. CASE m = 0
    <3>. DEFINE p == [i \in 1 .. m |-> q]
    <3>1. Gathers(p, q, m)
      BY <2>3 DEF Gathers
    <3>. QED BY <2>2, <3>1
  <2>4. CASE m # 0
    <3>1. PICK j \in Nat : m = j + 1
      BY <2>2, <2>4
    <3>2. PICK p : Gathers(p, q, j)
      BY <2>2, <3>1
    <3>3. p = [i \in 1 .. j |-> IF i = 1 THEN q[i] ELSE p[i - 1] \o q[i]]
      BY <3>2 DEF Gathers
    <3>4. PICK g : g = [i \in 1 .. m |-> IF i \in 1 .. j THEN p[i]
                                         ELSE IF i = 1 THEN q[i] ELSE p[i - 1] \o q[i]]
      OBVIOUS
    <3>5. ASSUME NEW i \in 1 .. m
          PROVE  g[i] = IF i = 1 THEN q[i] ELSE g[i - 1] \o q[i]
      <4>1. i # 1 => i - 1 \in 1 .. j /\ i - 1 \in 1 .. m
        BY <3>1
      <4>2. i # 1 => g[i - 1] = p[i - 1]
        BY <3>4, <4>1, Zenon
      <4>3. CASE i \in 1 .. j
        <5>1. g[i] = p[i]
          BY <3>4, <4>3
        <5>2. p[i] = IF i = 1 THEN q[i] ELSE p[i - 1] \o q[i]
          BY <3>3, <4>3, Zenon
        <5>. QED BY <4>2, <5>1, <5>2, Zenon
      <4>4. CASE i \notin 1 .. j
        <5>1. g[i] = IF i = 1 THEN q[i] ELSE p[i - 1] \o q[i]
          BY <3>4, <4>4, Zenon
        <5>. QED BY <4>2, <5>1, Zenon
      <4>. QED BY <4>3, <4>4
    <3>6. Gathers(g, q, m)
      BY <3>4, <3>5, ZenonT(30) DEF Gathers
    <3>. QED BY <2>2, <3>6
  <2>. QED BY <2>3, <2>4
<1>. QED BY <1>1

\* One list of requests more.
LEMMA GatheredOn ==
    ASSUME NEW q, NEW n \in Nat, NEW p, Gathers(p, q, n)
    PROVE  \A i \in 1 .. n : (i = 1 => p[i] = q[i]) /\ (i # 1 => p[i] = p[i - 1] \o q[i])
BY Zenon DEF Gathers

(***************************************************************************)
(* s lists the requests of the first m lists of q: each request knows its  *)
(* list, the lists come in order, and none is left out.                    *)
(***************************************************************************)
Comes(s, q, m) ==
    /\ \A k \in 1 .. Len(s) :
          /\ s[k].index \in Nat /\ s[k].index < m
          /\ \E j \in 1 .. Len(q[s[k].index + 1]) : s[k] = q[s[k].index + 1][j]
    /\ \A k, l \in 1 .. Len(s) : k < l => s[k].index <= s[l].index
    /\ \A i \in 1 .. m : Len(q[i]) > 0 => \E k \in 1 .. Len(s) : s[k].index = i - 1

\* The requests in each list of q carry the list's number.
Numbered(q, n) ==
    \A i \in 1 .. n : \A j \in 1 .. Len(q[i]) : q[i][j].index = i - 1

\* One list is listed, and then one more.
LEMMA ComesFirst ==
    ASSUME NEW n \in Nat, n > 0, NEW R, NEW q \in [1 .. n -> Seq(R)], Numbered(q, n)
    PROVE  Comes(q[1], q, 1)
<1>1. q[1] \in Seq(R) /\ Len(q[1]) \in Nat
  OBVIOUS
<1>2. \A j \in 1 .. Len(q[1]) : q[1][j].index = 0
  BY DEF Numbered
<1>3. Len(q[1]) > 0 => 1 \in 1 .. Len(q[1])
  BY <1>1
<1>4. PICK u : u = q[1]
  OBVIOUS
<1>5. \A k \in 1 .. Len(u) : u[k].index = 0 /\ u[k].index + 1 = 1
  BY <1>2, <1>4
<1>6. \A k \in 1 .. Len(u) : \E j \in 1 .. Len(q[u[k].index + 1]) : u[k] = q[u[k].index + 1][j]
  BY <1>4, <1>5, Zenon
<1>7. \A k \in 1 .. Len(u) : u[k].index \in Nat /\ u[k].index < 1
  BY <1>5
<1>8. \A k, l \in 1 .. Len(u) : k < l => u[k].index <= u[l].index
  BY <1>5
<1>9. \A i \in 1 .. 1 : Len(q[i]) > 0 => \E k \in 1 .. Len(u) : u[k].index = i - 1
  BY <1>3, <1>4, <1>5
<1>. QED BY <1>4, <1>6, <1>7, <1>8, <1>9, Zenon DEF Comes

\* One more list put at the end: its requests come after all the earlier ones.
LEMMA ComesNext ==
    ASSUME NEW n \in Nat, NEW R, NEW q \in [1 .. n -> Seq(R)], Numbered(q, n),
           NEW m \in Nat, m > 0, m < n, NEW s \in Seq(R), Comes(s, q, m)
    PROVE  Comes(s \o q[m + 1], q, m + 1)
<1>1. PICK u \in Seq(R) : u = q[m + 1]
  OBVIOUS
<1>2. PICK t \in Seq(R) : t = s \o u
  BY ConcatProperties
<1>3. /\ Len(s) \in Nat /\ Len(u) \in Nat /\ Len(t) = Len(s) + Len(u)
      /\ \A k \in 1 .. Len(s) : t[k] = s[k]
      /\ \A k \in 1 .. Len(u) : t[Len(s) + k] = u[k]
  BY <1>2, ConcatProperties
<1>4. \A j \in 1 .. Len(u) : u[j].index = m
  BY <1>1 DEF Numbered
<1>5. ASSUME NEW k \in 1 .. Len(t)
      PROVE  k \in 1 .. Len(s) \/ \E j \in 1 .. Len(u) : k = Len(s) + j
  <2>1. k \notin 1 .. Len(s) => k - Len(s) \in 1 .. Len(u) /\ k = Len(s) + (k - Len(s))
    BY <1>3
  <2>. QED BY <2>1
<1>6. ASSUME NEW k \in 1 .. Len(t)
      PROVE  /\ t[k].index \in Nat /\ t[k].index < m + 1
             /\ \E j \in 1 .. Len(q[t[k].index + 1]) : t[k] = q[t[k].index + 1][j]
  <2>1. CASE k \in 1 .. Len(s)
    <3>1. t[k] = s[k]
      BY <1>3, <2>1
    <3>2. /\ s[k].index \in Nat /\ s[k].index < m
          /\ \E j \in 1 .. Len(q[s[k].index + 1]) : s[k] = q[s[k].index + 1][j]
      BY <2>1 DEF Comes
    <3>3. t[k].index < m + 1
      BY <3>1, <3>2, SMTT(30)
    <3>. QED BY <3>1, <3>2, <3>3, Zenon
  <2>2. ASSUME NEW j \in 1 .. Len(u), k = Len(s) + j
        PROVE  /\ t[k].index \in Nat /\ t[k].index < m + 1
               /\ \E l \in 1 .. Len(q[t[k].index + 1]) : t[k] = q[t[k].index + 1][l]
    <3>1. t[k] = u[j] /\ t[k].index = m
      BY <1>3, <1>4, <2>2
    <3>. QED BY <1>1, <3>1
  <2>. QED BY <1>5, <2>1, <2>2
<1>7. ASSUME NEW k \in 1 .. Len(t), NEW l \in 1 .. Len(t), k < l
      PROVE  t[k].index <= t[l].index
  <2>1. CASE l \in 1 .. Len(s)
    <3>1. k \in 1 .. Len(s)
      BY <1>3, <1>7, <2>1
    <3>2. s[k].index <= s[l].index
      BY <1>7, <2>1, <3>1 DEF Comes
    <3>. QED BY <1>3, <2>1, <3>1, <3>2
  <2>2. ASSUME NEW j \in 1 .. Len(u), l = Len(s) + j
        PROVE  t[k].index <= t[l].index
    <3>1. t[l].index = m
      BY <1>3, <1>4, <2>2
    <3>2. t[k].index \in Nat /\ t[k].index < m + 1
      BY <1>6
    <3>. QED BY <3>1, <3>2
  <2>. QED BY <1>5, <2>1, <2>2
<1>8. ASSUME NEW i \in 1 .. m + 1, Len(q[i]) > 0
      PROVE  \E k \in 1 .. Len(t) : t[k].index = i - 1
  <2>1. CASE i \in 1 .. m
    <3>1. PICK k \in 1 .. Len(s) : s[k].index = i - 1
      BY <1>8, <2>1 DEF Comes
    <3>2. k \in 1 .. Len(t)
      BY <1>3
    <3>3. t[k] = s[k]
      BY <1>3
    <3>. QED BY <3>1, <3>2, <3>3, Zenon
  <2>2. CASE i = m + 1
    <3>1. 1 \in 1 .. Len(u) /\ Len(s) + 1 \in 1 .. Len(t)
      BY <1>1, <1>3, <1>8, <2>2
    <3>2. t[Len(s) + 1] = u[1]
      BY <1>3, <3>1
    <3>. QED BY <1>4, <2>2, <3>1, <3>2, SMTT(30)
  <2>. QED BY <2>1, <2>2
<1>. QED BY <1>1, <1>2, <1>6, <1>7, <1>8 DEF Comes

\* So FlattenSeq lists all of them.
LEMMA FlattenedComes ==
    ASSUME NEW n \in Nat, n > 0, NEW R, NEW q \in [1 .. n -> Seq(R)], Numbered(q, n)
    PROVE  FlattenSeq(q) \in Seq(R) /\ Comes(FlattenSeq(q), q, n)
<1>. DEFINE f == CHOOSE p : p = [i \in 1 .. Len(q) |-> IF i = 1 THEN q[i] ELSE p[i - 1] \o q[i]]
<1>0. q \in Seq(Seq(R)) /\ Len(q) = n
  OBVIOUS
<1>1. FlattenSeq(q) = f[n]
  BY <1>0 DEF FlattenSeq
<1>2. Gathers(f, q, n)
  <2>1. \E p : p = [i \in 1 .. n |-> IF i = 1 THEN q[i] ELSE p[i - 1] \o q[i]]
    BY GatheredExists, Zenon DEF Gathers
  <2>. QED BY <1>0, <2>1, Zenon DEF Gathers
<1>. HIDE DEF f
<1>3. \A i \in 1 .. n : (i = 1 => f[i] = q[i]) /\ (i # 1 => f[i] = f[i - 1] \o q[i])
  BY <1>2, GatheredOn
<1>4. ASSUME ~(f[n] \in Seq(R) /\ Comes(f[n], q, n))
      PROVE  FALSE
  <2>. DEFINE S == {i \in 1 .. n : ~(f[i] \in Seq(R) /\ Comes(f[i], q, i))}
  <2>1. n \in S /\ S \in SUBSET Nat
    BY <1>4
  <2>2. PICK m \in S : \A k \in Nat : k < m => k \notin S
    BY <2>1, LeastIn
  <2>3. m \in 1 .. n /\ ~(f[m] \in Seq(R) /\ Comes(f[m], q, m))
    BY <2>2
  <2>4. CASE m = 1
    <3>1. f[1] = q[1]
      <4>1. 1 \in 1 .. n
        BY <2>3
      <4>. QED BY <1>3, <4>1
    <3>2. q[1] \in Seq(R)
      OBVIOUS
    <3>. QED BY <2>3, <2>4, <3>1, <3>2, ComesFirst
  <2>5. CASE m # 1
    <3>1. PICK j \in Nat : m = j + 1 /\ j > 0 /\ j < n /\ j \in 1 .. n /\ m - 1 = j
      BY <2>3, <2>5
    <3>2. f[j] \in Seq(R) /\ Comes(f[j], q, j)
      BY <2>2, <3>1
    <3>3. f[m] = f[j] \o q[j + 1]
      <4>1. f[m] = f[m - 1] \o q[m]
        BY <1>3, <2>3, <2>5, Zenon
      <4>. QED BY <3>1, <4>1, Zenon
    <3>4. q[j + 1] \in Seq(R)
      BY <3>1, <2>3
    <3>5. Comes(f[j] \o q[j + 1], q, j + 1)
      BY <3>1, <3>2, ComesNext
    <3>6. f[j] \o q[j + 1] \in Seq(R)
      BY <3>2, <3>4, ConcatProperties
    <3>. QED BY <2>3, <3>1, <3>3, <3>5, <3>6
  <2>. QED BY <2>4, <2>5
<1>. QED BY <1>1, <1>4

(***************************************************************************)
(* A request of option o at place i: it has the option's letter and no     *)
(* directory yet, and a directory option hands on its argument.            *)
(***************************************************************************)
AsksFor(r, o, i) ==
    /\ r.index = i /\ r.type = o.letter /\ r.dir = NoDir /\ "dir" \in DOMAIN r
    /\ o.letter \in {"d", "D"} => r.content = o.parts[1]

\* All requests that are made are such requests.
LEMMA RequestAsks ==
    ASSUME NEW o, NEW i, NEW content, NEW extra,
           o.letter \in {"d", "D"} => content = o.parts[1]
    PROVE  AsksFor(new_request_without_dir(o.letter, content, extra, i), o, i)
BY DEF AsksFor, new_request_without_dir

\* s is a list of n requests of option o, one if it is a directory option.
IsListFor(s, n, o, i) ==
    /\ n \in Nat /\ s = [k \in 1 .. n |-> s[k]]
    /\ \A k \in 1 .. n : AsksFor(s[k], o, i)
    /\ o.letter \in {"d", "D"} => n = 1

\* Such a list with one request, with none, and with one for each name.
LEMMA OneRequest ==
    ASSUME NEW o, NEW i, NEW content, NEW extra,
           o.letter \in {"d", "D"} => content = o.parts[1]
    PROVE  IsListFor(<<new_request_without_dir(o.letter, content, extra, i)>>, 1, o, i)
<1>1. PICK r : r = new_request_without_dir(o.letter, content, extra, i)
  OBVIOUS
<1>2. AsksFor(r, o, i)
  BY <1>1, RequestAsks
<1>3. <<r>> = [k \in 1 .. 1 |-> <<r>>[k]] /\ \A k \in 1 .. 1 : <<r>>[k] = r
  OBVIOUS
<1>. QED BY <1>1, <1>2, <1>3, Zenon DEF IsListFor

\* An option that is no request gives the empty list ...
LEMMA NoRequest ==
    ASSUME NEW o, NEW i, o.letter \notin {"d", "D"}
    PROVE  IsListFor(<< >>, 0, o, i)
<1>1. << >> = [k \in 1 .. 0 |-> << >>[k]]
  OBVIOUS
<1>2. \A k \in 1 .. 0 : FALSE
  OBVIOUS
<1>. QED BY <1>1, <1>2 DEF IsListFor

\* ... and a request with a list of names one request for each.
LEMMA RequestPerName ==
    ASSUME NEW o, NEW i, o.letter \notin {"d", "D"}, o.parts \in Seq(Strings)
    PROVE  IsListFor([k \in DOMAIN o.parts |->
                         new_request_without_dir(o.letter, o.parts[k], 0, i)],
                     Len(o.parts), o, i)
<1>1. DOMAIN o.parts = 1 .. Len(o.parts) /\ Len(o.parts) \in Nat
  OBVIOUS
<1>2. PICK s : s = [k \in 1 .. Len(o.parts) |-> new_request_without_dir(o.letter, o.parts[k], 0, i)]
  OBVIOUS
<1>3. \A k \in 1 .. Len(o.parts) : AsksFor(s[k], o, i)
  BY <1>2, RequestAsks, Zenon
<1>4. s = [k \in 1 .. Len(o.parts) |-> s[k]]
  BY <1>2
<1>. QED BY <1>1, <1>2, <1>3, <1>4, Zenon DEF IsListFor

\* The requests of any option are such a list.
LEMMA RequestsListed ==
    ASSUME NEW o \in OptionRecords, NEW i
    PROVE  \E n \in Nat : IsListFor(RequestsOf(o, i), n, o, i)
<1>1. o.parts \in Seq(Strings)
  BY DEF OptionRecords
<1>2. CASE o.letter \in Lists
  <2>1. o.letter \notin {"d", "D"}
    BY <1>2 DEF Lists
  <2>2. RequestsOf(o, i) = [k \in DOMAIN o.parts |->
                               new_request_without_dir(o.letter, o.parts[k], 0, i)]
    <3>1. /\ o.letter \notin {"d", "D"} /\ o.letter # "R" /\ o.letter # ":" /\ o.letter # "w"
      BY <1>2 DEF Lists
    <3>. QED BY <1>2, <3>1 DEF RequestsOf, new_request_without_dir
  <2>3. Len(o.parts) \in Nat
    BY <1>1
  <2>. QED BY <1>1, <2>1, <2>2, <2>3, RequestPerName, Zenon
<1>3. CASE o.letter \in {"d", "D"}
  <2>1. RequestsOf(o, i) = <<new_request_without_dir(o.letter, o.parts[1], 0, i)>>
    BY <1>3 DEF RequestsOf, Lists
  <2>. QED BY <1>3, <2>1, OneRequest
<1>4. CASE o.letter \notin Lists /\ o.letter \notin {"d", "D"}
  <2>1. RequestsOf(o, i) = << >> \/ \E content, extra :
            RequestsOf(o, i) = <<new_request_without_dir(o.letter, content, extra, i)>>
    <3>1. CASE o.letter = "R"
      BY <3>1 DEF RequestsOf, Lists
    <3>2. CASE o.letter = ":"
      BY <3>2 DEF RequestsOf, Lists
    <3>3. CASE o.letter = "w"
      BY <3>3 DEF RequestsOf, Lists
    <3>4. CASE o.letter \notin {"R", ":", "w"}
      BY <1>4, <3>4 DEF RequestsOf
    <3>. QED BY <3>1, <3>2, <3>3, <3>4
  <2>. QED BY <1>4, <2>1, OneRequest, NoRequest
<1>. QED BY <1>2, <1>3, <1>4

\* What the requests of the command line are, in terms of its options.
Parsed(requests, opts) ==
    /\ requests = [k \in 1 .. Len(requests) |-> requests[k]] /\ Len(requests) \in Nat
    /\ \A k \in 1 .. Len(requests) :
          /\ requests[k].index \in Nat /\ requests[k].index + 1 \in 1 .. Len(opts)
          /\ AsksFor(requests[k], opts[requests[k].index + 1], requests[k].index)
    /\ \A k, l \in 1 .. Len(requests) : k < l => requests[k].index <= requests[l].index
    /\ \A i \in 1 .. Len(opts) : opts[i].letter \in {"d", "D"} =>
          \E k \in 1 .. Len(requests) : requests[k].index = i - 1

\* No option, no request; otherwise all the requests of the options, in order.
LEMMA ParsedInOrder ==
    ASSUME NEW words \in Seq(Words)
    PROVE  Parsed(parseCommandLineArguments(words), Options(words)) /\ Len(Options(words)) \in Nat
<1>1. PICK opts \in Seq(OptionRecords) : opts = Options(words)
  BY OptionsType
<1>2. PICK n \in Nat : n = Len(opts) /\ DOMAIN opts = 1 .. n /\ \A i \in 1 .. n : opts[i] \in OptionRecords
  OBVIOUS
<1>3. PICK q : q = [i \in 1 .. n |-> RequestsOf(opts[i], i - 1)]
  OBVIOUS
<1>4. parseCommandLineArguments(words) = FlattenSeq(q)
  BY <1>1, <1>2, <1>3, Zenon DEF parseCommandLineArguments
<1>5. CASE n = 0
  <2>1. q = << >>
    BY <1>3, <1>5
  <2>2. FlattenSeq(q) = << >>
    BY <2>1 DEF FlattenSeq
  <2>. QED BY <1>1, <1>2, <1>4, <1>5, <2>2 DEF Parsed
<1>6. CASE n > 0
  <2>. DEFINE R == UNION {{q[i][j] : j \in DOMAIN q[i]} : i \in 1 .. n}
  <2>1. ASSUME NEW i \in 1 .. n
        PROVE  /\ q[i] \in Seq(R)
               /\ \A j \in 1 .. Len(q[i]) : AsksFor(q[i][j], opts[i], i - 1)
               /\ opts[i].letter \in {"d", "D"} => Len(q[i]) > 0
    <3>1. PICK s : s = q[i] /\ s = RequestsOf(opts[i], i - 1)
      BY <1>3
    <3>2. PICK l \in Nat : IsListFor(s, l, opts[i], i - 1)
      BY <1>2, <3>1, RequestsListed
    <3>3. /\ s = [k \in 1 .. l |-> s[k]]
          /\ \A k \in 1 .. l : AsksFor(s[k], opts[i], i - 1)
          /\ opts[i].letter \in {"d", "D"} => l = 1
      BY <3>2 DEF IsListFor
    <3>4. DOMAIN s = 1 .. l
      BY <3>3
    <3>5. \A k \in 1 .. l : s[k] \in R
      <4>1. \A k \in 1 .. l : s[k] \in {q[i][j] : j \in DOMAIN q[i]}
        BY <3>1, <3>4
      <4>. QED BY <4>1
    <3>. HIDE DEF R
    <3>6. s \in [1 .. l -> R]
      BY <3>3, <3>5
    <3>7. s \in Seq(R) /\ Len(s) = l
      BY <3>6
    <3>. QED BY <3>1, <3>3, <3>7
  <2>. HIDE DEF R
  <2>2. q \in [1 .. n -> Seq(R)]
    BY <1>3, <2>1
  <2>3. Numbered(q, n)
    BY <2>1 DEF Numbered, AsksFor
  <2>4. PICK s \in Seq(R) : s = FlattenSeq(q) /\ Comes(s, q, n)
    BY <1>6, <2>2, <2>3, FlattenedComes
  <2>5. Len(s) \in Nat /\ s = [k \in 1 .. Len(s) |-> s[k]]
    OBVIOUS
  <2>6. ASSUME NEW k \in 1 .. Len(s)
        PROVE  /\ s[k].index \in Nat /\ s[k].index + 1 \in 1 .. n
               /\ AsksFor(s[k], opts[s[k].index + 1], s[k].index)
    <3>1. s[k].index \in Nat /\ s[k].index < n
      BY <2>4 DEF Comes
    <3>2. PICK i \in 1 .. n : i = s[k].index + 1 /\ i - 1 = s[k].index
      BY <3>1
    <3>3. PICK j \in 1 .. Len(q[i]) : s[k] = q[i][j]
      BY <2>4, <3>2, Zenon DEF Comes
    <3>4. AsksFor(s[k], opts[i], i - 1)
      BY <2>1, <3>3, Zenon
    <3>. QED BY <3>1, <3>2, <3>4, Zenon
  <2>7. \A k, l \in 1 .. Len(s) : k < l => s[k].index <= s[l].index
    BY <2>4 DEF Comes
  <2>8. \A i \in 1 .. n : opts[i].letter \in {"d", "D"} =>
            \E k \in 1 .. Len(s) : s[k].index = i - 1
    BY <2>1, <2>4, Zenon DEF Comes
  <2>9. Parsed(s, opts)
    BY <1>2, <2>5, <2>6, <2>7, <2>8, Zenon DEF Parsed
  <2>. QED BY <1>1, <1>2, <1>4, <2>4, <2>9
<1>. QED BY <1>2, <1>5, <1>6

\* The option behind option j is a directory for requests of this type.
Follows(opts, j, type) ==
    /\ j < Len(opts)
    /\ \/ opts[j + 1].letter = "d" /\ type \in {"r", "R"}
       \/ opts[j + 1].letter = "D" /\ type \in {"w", "W"}

\* The places of the directories that expandRequests may take for request k.
DirsFor(requests, k) ==
    {i \in k + 1 .. Len(requests) : IsDirFor(requests, i) /\ SameOption(requests, k, i)}

\* Each of them comes from the option behind the option of request k.
LEMMA DirIsBehind ==
    ASSUME NEW opts, NEW requests, Parsed(requests, opts), Len(opts) \in Nat,
           NEW k \in 1 .. Len(requests), NEW i \in DirsFor(requests, k)
    PROVE  /\ Follows(opts, requests[k].index + 1, requests[k].type)
           /\ requests[i].content = opts[requests[k].index + 2].parts[1]
<1>1. Len(requests) \in Nat
  BY DEF Parsed
<1>2. i \in k + 1 .. Len(requests) /\ IsDirFor(requests, i) /\ SameOption(requests, k, i)
  BY DEF DirsFor
<1>3. PICK h \in 1 .. Len(requests) : h = i - 1 /\ h \in k .. i - 1 /\ k \in k .. i - 1
  BY <1>1, <1>2
<1>4. i \in 1 .. Len(requests)
  BY <1>1, <1>2
<1>5. requests[k].index = requests[i].index - 1 /\ requests[h].index = requests[i].index - 1
  BY <1>2, <1>3, Zenon DEF SameOption
<1>6. \A m \in 1 .. Len(requests) : requests[m].index \in Nat /\ requests[m].index + 1 \in 1 .. Len(opts)
  BY DEF Parsed
<1>7. PICK x \in Nat : x = requests[k].index
  BY <1>6
<1>8. requests[i].index = x + 1 /\ requests[h].index = x /\ x + 1 < Len(opts)
  BY <1>4, <1>5, <1>6, <1>7, SMTT(30)
<1>9. requests[i].index + 1 = x + 2 /\ requests[k].index + 2 = x + 2 /\ requests[k].index + 1 = x + 1
  BY <1>7, <1>8
<1>10. AsksFor(requests[i], opts[x + 2], x + 1)
  BY <1>4, <1>8, <1>9, Zenon DEF Parsed
<1>11. AsksFor(requests[h], opts[x + 1], x) /\ AsksFor(requests[k], opts[x + 1], x)
  BY <1>3, <1>7, <1>8, Zenon DEF Parsed
<1>12. /\ requests[i].type = opts[x + 2].letter /\ requests[h].type = requests[k].type
       /\ opts[x + 2].letter \in {"d", "D"} => requests[i].content = opts[x + 2].parts[1]
  BY <1>10, <1>11, Zenon DEF AsksFor
<1>13. \/ opts[x + 2].letter = "d" /\ requests[k].type \in {"r", "R"}
       \/ opts[x + 2].letter = "D" /\ requests[k].type \in {"w", "W"}
  BY <1>2, <1>3, <1>12, Zenon DEF IsDirFor
<1>14. x + 1 + 1 = x + 2
  OBVIOUS
<1>15. Follows(opts, x + 1, requests[k].type)
  BY <1>8, <1>13, <1>14, Zenon DEF Follows
<1>. QED BY <1>9, <1>12, <1>13, <1>15, Zenon

\* If there is such an option, expandRequests finds its directory.
LEMMA DirIsFound ==
    ASSUME NEW opts, NEW requests, Parsed(requests, opts), Len(opts) \in Nat,
           NEW k \in 1 .. Len(requests),
           Follows(opts, requests[k].index + 1, requests[k].type)
    PROVE  DirsFor(requests, k) # {}
<1>1. /\ Len(requests) \in Nat
      /\ \A m \in 1 .. Len(requests) : requests[m].index \in Nat
      /\ \A m, l \in 1 .. Len(requests) : m < l => requests[m].index <= requests[l].index
  BY DEF Parsed
<1>2. PICK x \in Nat : x = requests[k].index /\ x + 1 = requests[k].index + 1
  BY <1>1
<1>3. x + 1 < Len(opts) /\ x + 1 + 1 = x + 2 /\ x + 2 - 1 = x + 1 /\ x + 2 \in 1 .. Len(opts)
  BY <1>2 DEF Follows
<1>4. /\ opts[x + 2].letter \in {"d", "D"}
      /\ \/ opts[x + 2].letter = "d" /\ requests[k].type \in {"r", "R"}
         \/ opts[x + 2].letter = "D" /\ requests[k].type \in {"w", "W"}
  BY <1>2, <1>3 DEF Follows
<1>. DEFINE S == {m \in 1 .. Len(requests) : requests[m].index = x + 1}
<1>5. S \in SUBSET Nat /\ S # {}
  BY <1>3, <1>4 DEF Parsed
<1>6. PICK i \in S : \A m \in Nat : m < i => m \notin S
  BY <1>5, LeastIn
<1>7. i \in 1 .. Len(requests) /\ requests[i].index = x + 1
  BY <1>6
<1>8. i > k
  <2>1. CASE i = k
    BY <1>2, <1>7, <2>1
  <2>2. CASE i < k
    <3>1. requests[i].index <= requests[k].index
      BY <1>1, <1>7, <2>2
    <3>. QED BY <1>2, <1>7, <3>1
  <2>. QED BY <1>1, <1>7, <2>1, <2>2
<1>9. ASSUME NEW m \in k .. i - 1
      PROVE  m \in 1 .. Len(requests) /\ requests[m].index = x
  <2>1. m \in 1 .. Len(requests) /\ m \in Nat /\ m < i
    BY <1>1, <1>7, <1>8
  <2>2. m \notin S /\ requests[m].index # x + 1
    BY <1>6, <2>1
  <2>3. requests[m].index \in Nat /\ requests[m].index <= x + 1
    BY <1>1, <1>7, <2>1
  <2>4. x <= requests[m].index
    <3>1. CASE k = m
      BY <1>2, <3>1
    <3>2. CASE k < m
      BY <1>1, <1>2, <2>1, <3>2
    <3>. QED BY <3>1, <3>2, <2>1, <1>1
  <2>. QED BY <2>1, <2>2, <2>3, <2>4
<1>10. SameOption(requests, k, i)
  <2>1. \A m \in k .. i - 1 : requests[m].index = requests[i].index - 1
    BY <1>7, <1>9
  <2>. QED BY <2>1 DEF SameOption
<1>11. PICK h \in k .. i - 1 : h = i - 1
  BY <1>1, <1>7, <1>8
<1>12. h \in 1 .. Len(requests) /\ requests[h].index = x
  BY <1>9
<1>13. AsksFor(requests[h], opts[x + 1], x) /\ AsksFor(requests[k], opts[x + 1], x)
  BY <1>2, <1>12, Zenon DEF Parsed
<1>14. AsksFor(requests[i], opts[x + 2], x + 1)
  BY <1>3, <1>7, Zenon DEF Parsed
<1>15. requests[i].type = opts[x + 2].letter /\ requests[h].type = requests[k].type
  BY <1>13, <1>14, Zenon DEF AsksFor
<1>16. IsDirFor(requests, i)
  <2>1. i > 1
    BY <1>7, <1>8
  <2>. QED BY <1>4, <1>11, <1>15, <2>1, Zenon DEF IsDirFor
<1>17. i \in k + 1 .. Len(requests)
  BY <1>1, <1>7, <1>8
<1>. QED BY <1>10, <1>16, <1>17 DEF DirsFor

\* Together they say which directory a request has.
LEMMA DirsRight ==
    ASSUME NEW words \in Seq(Words)
    PROVE  DirsAreRight(words)
<1>1. PICK opts, requests : opts = Options(words) /\ requests = parseCommandLineArguments(words)
  OBVIOUS
<1>2. Parsed(requests, opts) /\ Len(opts) \in Nat
  BY <1>1, ParsedInOrder
<1>3. DOMAIN requests = 1 .. Len(requests)
  <2>1. requests = [k \in 1 .. Len(requests) |-> requests[k]]
    BY <1>2 DEF Parsed
  <2>. QED BY <2>1, Zenon
<1>4. ASSUME NEW k \in 1 .. Len(requests)
      PROVE  expandRequests(requests)[k].dir =
                 IF Follows(opts, requests[k].index + 1, requests[k].type)
                 THEN opts[requests[k].index + 1 + 1].parts[1] ELSE NoDir
  <2>1. expandRequests(requests)[k] =
            IF DirsFor(requests, k) = {} THEN requests[k]
            ELSE [requests[k] EXCEPT !.dir =
                     requests[CHOOSE i \in DirsFor(requests, k) : TRUE].content]
    BY <1>3, Zenon DEF expandRequests, DirsFor
  <2>2. requests[k].dir = NoDir /\ "dir" \in DOMAIN requests[k]
    BY <1>2, Zenon DEF Parsed, AsksFor
  <2>3. CASE DirsFor(requests, k) = {}
    <3>1. ~Follows(opts, requests[k].index + 1, requests[k].type)
      BY <1>2, <2>3, DirIsFound
    <3>. QED BY <2>1, <2>2, <2>3, <3>1, Zenon
  <2>4. CASE DirsFor(requests, k) # {}
    <3>1. PICK i \in DirsFor(requests, k) : i = CHOOSE j \in DirsFor(requests, k) : TRUE
      BY <2>4, Zenon
    <3>2. /\ Follows(opts, requests[k].index + 1, requests[k].type)
          /\ requests[i].content = opts[requests[k].index + 2].parts[1]
      BY <1>2, DirIsBehind
    <3>3. expandRequests(requests)[k] = [requests[k] EXCEPT !.dir = requests[i].content]
      BY <2>1, <2>4, <3>1, Zenon
    <3>4. expandRequests(requests)[k].dir = requests[i].content
      BY <2>2, <3>3
    <3>5. requests[k].index + 1 + 1 = requests[k].index + 2
      BY <1>2 DEF Parsed
    <3>. QED BY <3>2, <3>4, <3>5, Zenon
  <2>. QED BY <2>3, <2>4
<1>. QED BY <1>1, <1>3, <1>4, Zenon DEF DirsAreRight, Follows

(***************************************************************************)
(* Every request of every command line gets the directory of the option    *)
(* right behind its own, and no other one (args.c:230-279).                *)
(***************************************************************************)
THEOREM DirsGoRight == ClientSpec => []DirsGoWithTheirRequests
<1>1. ProgramInv => DirsGoWithTheirRequests
  <2>. SUFFICES ASSUME ProgramInv, NEW c \in Clients, program[c] = "started"
                PROVE  argv[c] \in RightlyRead
    BY DEF DirsGoWithTheirRequests
  <2>1. argv[c] \in Lines
    BY DEF ProgramInv, ProgramTypes
  <2>2. DirsAreRight(argv[c])
    BY <2>1, LinesAssumption, DirsRight
  <2>. QED BY <2>1, <2>2 DEF RightlyRead
<1>. QED BY <1>1, ClientInvariance, PTL
=============================================================================
