------------------------------ MODULE Caching ------------------------------
(***************************************************************************)
(* The replacement policy of the file store, caching.c.                    *)
(*                                                                         *)
(* The policy keeps the stored files in a ring of MaxFileCount + 1         *)
(* pointers, oldest first from head, together with a file count and a      *)
(* running total of their sizes.  This module has no variables: a ring is  *)
(* a record and every handler of caching.c is an operator that maps the    *)
(* ring before the call to the ring after it, so that a module that owns a *)
(* ring (CacheRing, Filesystem) can call several handlers in one step.     *)
(*                                                                         *)
(* A slot holds the name of a file if it points to the file's fileEntry in *)
(* the table, and NoFile if malloc left it uninitialised or it points to   *)
(* an entry that has been freed.  The handlers free nothing themselves; a  *)
(* caller that expels a file keeps the entry until it has sent it, which   *)
(* is why Filesystem adds a third kind of pointer, to an expelled entry.   *)
(* The high-water marks and the activation counter of the report are left  *)
(* out: nothing reads them back.                                           *)
(*                                                                         *)
(* A definition marked "Mutant" is a wrong variant of the one after it,    *)
(* with a mistake that could be made in the code; the specification does   *)
(* not use it.  PROJECT.json names the property each of them violates.     *)
(***************************************************************************)
EXTENDS Integers, Sequences, FiniteSetsExt

CONSTANTS
    Files,          \* the path names clients use
    NoFile,         \* a slot that points to no fileEntry
    CachePolicies,  \* the values of configs.cachePolicy to consider
    MaxFileCount,   \* configs.maxFileCount
    MaxMemorySize   \* configs.maxMemorySize

ASSUME NoFileAssumption == NoFile \notin Files
ASSUME MaxFileCountAssumption == MaxFileCount \in Nat \ {0}
ASSUME MaxMemorySizeAssumption == MaxMemorySize \in Nat

\* strcmp(configs.cachePolicy, "FIFO"): every other name falls back to LRU.
IsFIFO(r) == r.policy = "FIFO"

cacheSize == MaxFileCount + 1
Slots == 0 .. cacheSize - 1
Forth(i) == (i + 1) % cacheSize
Back(i) == (i + cacheSize - 1) % cacheSize

Rings == [policy : CachePolicies, cache : [Slots -> Files \cup {NoFile}],
          head : Slots, tail : Slots, count : 0 .. MaxFileCount, size : Int]

initCachingSystem(policy) ==
    [policy |-> policy, cache |-> [i \in Slots |-> NoFile],
     head |-> 0, tail |-> 0, count |-> 0, size |-> 0]

\* The k-th slot counted from head, and the files from head to tail, oldest first.
FromHead(r, k) == (r.head + k) % cacheSize
Window(r) == [k \in 1 .. r.count |-> r.cache[FromHead(r, k - 1)]]

\* The caller frees the entries F: every pointer to one of them dangles.
Dangle(cache, F) == [i \in Slots |-> IF cache[i] \in F THEN NoFile ELSE cache[i]]
Free(r, F) == [r EXCEPT !.cache = Dangle(@, F)]

\* The copying loop of the handlers: n times, from slot p down, cache[p] = cache[p - 1].
ShiftUp(cache, p, n) ==
    [i \in Slots |-> IF (p + cacheSize - i) % cacheSize < n THEN cache[Back(i)] ELSE cache[i]]

\* How far from head the linear search of a handler finds f.
SearchLength(r, f) == Min({k \in Slots : r.cache[FromHead(r, k)] = f})

----------------------------------------------------------------------------
(* handleInsertion: one file more, and the oldest one out at the limit.    *)

AtCountLimit(r) == r.count + 1 > MaxFileCount

\* Mutant: the file that leaves the ring is not handed to the caller.
InsertionVictims_Lost(r) == {}
InsertionVictims(r) == IF AtCountLimit(r) THEN {r.cache[r.head]} ELSE {}

\* The file leaving is cache[head]; the size taken off is that of the slot after it.
InsertionReadsDangling(r) == AtCountLimit(r) /\ r.cache[Forth(r.head)] \notin Files

handleInsertion(r, len, f) ==
    LET full == AtCountLimit(r)
    IN  [r EXCEPT !.cache[r.tail] = f,
                  !.head = IF full THEN Forth(@) ELSE @,
                  !.tail = Forth(@),
                  !.count = IF full THEN @ ELSE @ + 1,
                  !.size = IF full THEN @ - len[r.cache[Forth(r.head)]] ELSE @]

----------------------------------------------------------------------------
(* handleUsage: nothing under FIFO, a move to the tail under LRU.          *)

SCAN_LIMIT == 100

\* The search of handleUsageLRU calls exit() when its index passes SCAN_LIMIT.
UsageExits(r, f) ==
    /\ ~IsFIFO(r)
    /\ \E k \in 1 .. SearchLength(r, f) : FromHead(r, k) > SCAN_LIMIT

\* The shift count is reduced modulo the size of the ring: 0 from the slot before head.
handleUsageLRU(r, f) ==
    LET n == SearchLength(r, f)
        shifts == (n + 1) % cacheSize
    IN  [r EXCEPT !.cache = ShiftUp([@ EXCEPT ![r.tail] = f], FromHead(r, n), shifts),
                  !.head = Forth(@),
                  !.tail = Forth(@)]

\* Mutant: uses do not count.
handleUsage_Ignored(r, f) == r
\* Mutant: uses count under FIFO too.
handleUsage_AnyPolicy(r, f) == handleUsageLRU(r, f)
handleUsage(r, f) == IF IsFIFO(r) THEN r ELSE handleUsageLRU(r, f)

----------------------------------------------------------------------------
(* handleEdit: make room for f with newSize bytes, oldest files first.     *)

\* The expected total after the eviction loop has looked at k slots from head.
ExpectedSize(r, len, f, newSize) ==
    LET expected[k \in Nat] ==
            IF k = 0 THEN r.size + newSize - len[f]
            ELSE LET g == r.cache[FromHead(r, k - 1)]
                 IN  expected[k - 1] - (IF g = f THEN 0 ELSE len[g])
    IN  expected

\* The numbers of slots after which the loop may stop without having left the window.
\* Mutant: the total may pass the limit by one.
EditStops_OffByOne(r, len, f, newSize) ==
    {k \in 0 .. r.count : ExpectedSize(r, len, f, newSize)[k] <= MaxMemorySize + 1}
EditStops(r, len, f, newSize) ==
    {k \in 0 .. r.count : ExpectedSize(r, len, f, newSize)[k] <= MaxMemorySize}

\* Not even evicting every other file makes the total fit: the loop runs past the tail.
EditOverruns(r, len, f, newSize) == EditStops(r, len, f, newSize) = {}

EditScan(r, len, f, newSize) == Min(EditStops(r, len, f, newSize))

EditVictims(r, len, f, newSize) ==
    {r.cache[FromHead(r, k)] : k \in 0 .. EditScan(r, len, f, newSize) - 1} \ {f}

\* Under LRU an edited file the loop did not skip is searched for as a used one.
EditExits(r, len, f, newSize) ==
    LET n == EditScan(r, len, f, newSize)
    IN  /\ n <= SearchLength(r, f)
        /\ UsageExits([r EXCEPT !.head = FromHead(r, n)], f)

handleEdit(r, len, f, newSize) ==
    LET n == EditScan(r, len, f, newSize)
        victims == EditVictims(r, len, f, newSize)
        skipped == n > SearchLength(r, f)
        advanced == [r EXCEPT !.head = FromHead(r, n),
                              !.count = @ - Cardinality(victims),
                              !.size = ExpectedSize(r, len, f, newSize)[n]]
    IN  IF ~skipped THEN handleUsage(advanced, f)
        ELSE IF IsFIFO(r) THEN [advanced EXCEPT !.head = Back(@), !.cache[Back(advanced.head)] = f]
        ELSE [advanced EXCEPT !.cache[r.tail] = f, !.tail = Forth(@)]

----------------------------------------------------------------------------
(* handleRemoval: the files older than f move one slot up.                 *)

\* Mutant: one shift is missing.
handleRemoval_OneShiftLess(r, len, f) ==
    LET n == SearchLength(r, f)
    IN  [r EXCEPT !.cache = ShiftUp(@, FromHead(r, n), n - 1),
                  !.head = Forth(@), !.count = @ - 1, !.size = @ - len[f]]

handleRemoval(r, len, f) ==
    LET n == SearchLength(r, f)
        shifts == IF IsFIFO(r) THEN n + 1 ELSE n
    IN  [r EXCEPT !.cache = ShiftUp(@, FromHead(r, n), shifts),
                  !.head = Forth(@),
                  !.count = @ - 1,
                  !.size = @ - len[f]]

----------------------------------------------------------------------------
(* filesystem_get_n_fileEntry: a sample of the files, read off the ring.   *)

\* How many files a request for n files asks for: 0, or too many, means all.
SampleSize(r, n) == IF n = 0 \/ n > r.count THEN r.count ELSE n

(***************************************************************************)
(* The samples of n offsets the reservoir loop can draw.  Offset i >= n    *)
(* replaces the element at place[i] = rand() % i when that is below n; the *)
(* first one, i = n, always does.                                          *)
(***************************************************************************)
Samples(r, n) ==
    {[j \in 0 .. n - 1 |-> Max({j} \cup {i \in n .. r.count - 1 : place[i] = j})] :
        place \in {p \in [n .. r.count - 1 -> 0 .. n] : n < r.count => p[n] # n}}

\* The ring index is reduced modulo the file limit, not modulo the size of the ring.
SampledSlot(r, e) == (r.head + e) % MaxFileCount

\* The ring after each of the reads: every file read is also reported as used.
SampleUses(r, sample) ==
    LET ring[k \in Nat] ==
            IF k = 0 THEN r
            ELSE handleUsage(ring[k - 1], ring[k - 1].cache[SampledSlot(r, sample[k - 1])])
    IN  ring

\* The files read, one per offset of the sample (NoFile: a slot that dangles).
SampleFiles(r, sample) ==
    [k \in DOMAIN sample |-> SampleUses(r, sample)[k].cache[SampledSlot(r, sample[k])]]
=============================================================================
