----------------------------- MODULE CacheRing -----------------------------
(***************************************************************************)
(* The file cache driven by the operations of files.c, one at a time: each *)
(* action is the sequence of caching.c calls that one operation makes      *)
(* under tableLock, and the freeing of the files it has expelled, which    *)
(* the only caller does before its next operation (worker.c:199-207).      *)
(* fileEntry.length is the variable len.                                   *)
(***************************************************************************)
EXTENDS Caching

CONSTANTS
    MaxFileSize,    \* configs.maxFileSize
    NoFault

ASSUME MaxFileSizeAssumption == MaxFileSize \in Nat /\ MaxFileSize <= MaxMemorySize

VARIABLES
    ring,   \* cache, head, tail, currentFileSystemFileCount, currentFileSystemSize
    len,    \* length of each stored file; 0 for the names not stored
    fault   \* the call that left the defined behaviour and ended the process

vars == <<ring, len, fault>>

Faults == {"dangling_insertion", "edit_overrun", "exit", "dangling_read"}

ASSUME NoFaultAssumption == NoFault \notin Faults

Queue == Window(ring)
Stored == {Queue[k] : k \in DOMAIN Queue}

Init ==
    /\ \E policy \in CachePolicies : ring = initCachingSystem(policy)
    /\ len = [f \in Files |-> 0]
    /\ fault = NoFault

Fail(kind) == fault' = kind /\ UNCHANGED <<ring, len>>

\* filesystem_openFile with O_CREATE: the new file is inserted, then used.
Create(f) ==
    /\ f \notin Stored
    /\ IF InsertionReadsDangling(ring) THEN Fail("dangling_insertion")
       ELSE LET inserted == handleInsertion(ring, len, f)
            IN  IF UsageExits(inserted, f) THEN Fail("exit")
                ELSE /\ ring' = Free(handleUsage(inserted, f), InsertionVictims(ring))
                     /\ len' = [g \in Files |-> IF g \in InsertionVictims(ring) THEN 0 ELSE len[g]]
                     /\ UNCHANGED fault

\* filesystem_openFile of a stored file, filesystem_get_fileEntry.
Use(f) ==
    /\ f \in Stored
    /\ IF UsageExits(ring, f) THEN Fail("exit")
       ELSE ring' = handleUsage(ring, f) /\ UNCHANGED <<len, fault>>

\* filesystem_writeFile replaces the content, filesystem_appendToFile extends it.
Edit(f, newSize) ==
    /\ f \in Stored
    /\ newSize <= MaxFileSize
    /\ IF EditOverruns(ring, len, f, newSize) THEN Fail("edit_overrun")
       ELSE IF EditExits(ring, len, f, newSize) THEN Fail("exit")
       ELSE LET victims == EditVictims(ring, len, f, newSize)
            IN  /\ ring' = Free(handleEdit(ring, len, f, newSize), victims)
                /\ len' = [g \in Files |-> IF g = f THEN newSize
                                           ELSE IF g \in victims THEN 0 ELSE len[g]]
                /\ UNCHANGED fault

\* Mutant: the length is cleared before it is taken off the total.
Remove_ClearedFirst(f) ==
    /\ f \in Stored
    /\ ring' = Free(handleRemoval(ring, [len EXCEPT ![f] = 0], f), {f})
    /\ len' = [len EXCEPT ![f] = 0]
    /\ UNCHANGED fault

\* filesystem_removeFile.
Remove(f) ==
    /\ f \in Stored
    /\ ring' = Free(handleRemoval(ring, len, f), {f})
    /\ len' = [len EXCEPT ![f] = 0]
    /\ UNCHANGED fault

\* filesystem_get_n_fileEntry, when no other worker interferes.
ReadN(n) ==
    LET m == SampleSize(ring, n)
    IN  \E sample \in Samples(ring, m) :
            LET after(k) == SampleUses(ring, sample)[k]
                slot(k) == after(k).cache[SampledSlot(ring, sample[k])]
                dangling(k) == slot(k) = NoFile
                exits(k) == ~dangling(k) /\ UsageExits(after(k), slot(k))
                Stops(k) == dangling(k) \/ exits(k)
            IN  IF \E k \in 0 .. m - 1 : Stops(k)
                THEN LET first == CHOOSE k \in 0 .. m - 1 :
                                    Stops(k) /\ \A i \in 0 .. k - 1 : ~Stops(i)
                     IN  Fail(IF dangling(first) THEN "dangling_read" ELSE "exit")
                ELSE ring' = after(m) /\ UNCHANGED <<len, fault>>

Next ==
    /\ fault = NoFault
    /\ \/ \E f \in Files : Create(f) \/ Use(f) \/ Remove(f)
       \/ \E f \in Files, newSize \in 0 .. MaxFileSize : Edit(f, newSize)
       \/ \E n \in 0 .. MaxFileCount : ReadN(n)

Spec == Init /\ [][Next]_vars

----------------------------------------------------------------------------
TypeOK ==
    /\ ring \in Rings
    /\ len \in [Files -> 0 .. MaxFileSize]
    /\ fault \in Faults \cup {NoFault}

(***************************************************************************)
(* Everything has its type, and after any mix of the handlers the slots    *)
(* from head to tail are exactly count live files, each once, and a name   *)
(* outside them has no bytes: the shifting loops lose no file, leave no    *)
(* copy of one inside the window and keep none of the freed entries        *)
(* (caching.c:177-282, 353-377).                                           *)
(***************************************************************************)
RingWellFormed ==
    /\ TypeOK
    /\ FromHead(ring, ring.count) = ring.tail
    /\ NoFile \notin Stored
    /\ Cardinality(Stored) = ring.count
    /\ \A f \in Files \ Stored : len[f] = 0

\* The bytes really held, against the running total the handlers keep.
StoredBytes == MapThenSumSet(LAMBDA f : len[f], Stored \cap Files)

(***************************************************************************)
(* The running total errs in one place only: the step that evicts a file   *)
(* because the store is at its file limit (caching.c:94, 227).  Everywhere *)
(* else it follows the bytes stored: creations below the limit, edits and  *)
(* the evictions they cause, removals, reads (caching.c:135-180, 185-207,  *)
(* 295-343, 347-371).                                                      *)
(***************************************************************************)
SizeError == ring.size - StoredBytes

SizeErrsOnlyAtCountLimit ==
    [][SizeError' # SizeError => \E f \in Files : AtCountLimit(ring) /\ Create(f)]_vars

(***************************************************************************)
(* The running total stays within maxMemorySize: whenever it is exact so   *)
(* do the stored bytes, since every edit makes room before it grows a file *)
(* (caching.c:135-147, 295-307).                                           *)
(***************************************************************************)
RunningTotalWithinLimit == ring.size <= MaxMemorySize

(***************************************************************************)
(* The ring implements the queue the policy promises: files leave oldest   *)
(* first, where a file is as old as its creation under FIFO and as its     *)
(* last use under LRU, and an edited file does not leave.                  *)
(***************************************************************************)
Oldest == INSTANCE EvictionQueue WITH order <- Queue, policy <- ring.policy
EvictsOldestFirst == Oldest!Spec

(***************************************************************************)
(* Each operation does to the queue what the policy says it does: the      *)
(* reordering that EvictionQueue allows for one operation is not done by   *)
(* another, an edited file is as young as a used one, and a store that is  *)
(* not full gives up nothing (files.c:445-474, 516-643).                   *)
(***************************************************************************)
OperationsFollowPolicy ==
    [][fault' = NoFault =>
          \A f \in Files :
              /\ Create(f) => Oldest!Create(f)
              /\ Use(f) => Oldest!Use(f)
              /\ Remove(f) => Oldest!Remove(f)
              /\ (\E newSize \in 0 .. MaxFileSize : Edit(f, newSize)) => Oldest!Edit(f)
      ]_vars

----------------------------------------------------------------------------
(* What the documentation says and the code does not do.                   *)

(***************************************************************************)
(* "file is expected to fit in memory so no queue bad index is accessed"   *)
(* (caching.c:88, 134, 221, 294): making room never looks at a slot        *)
(* outside the window.                                                     *)
(***************************************************************************)
NoBadIndex == fault \notin {"dangling_insertion", "edit_overrun"}

(***************************************************************************)
(* The default configuration, LRU with 1000 files (generate_config.sh:6    *)
(* and :10), serves every use of a stored file: no search through the ring *)
(* ends the server (caching.c:263-265).                                    *)
(***************************************************************************)
UsageNeverExits == fault # "exit"

(***************************************************************************)
(* "If n=0 all files on the server are read" (client main.c:55): a request *)
(* for all the files, served now, reads every stored file.                 *)
(***************************************************************************)
ReadAllReadsEveryFile ==
    fault = NoFault =>
        \A sample \in Samples(ring, ring.count) :
            LET read == SampleFiles(ring, sample)
            IN  {read[k] : k \in DOMAIN read} = Stored
=============================================================================
