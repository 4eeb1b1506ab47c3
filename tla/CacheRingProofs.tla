-------------------------- MODULE CacheRingProofs --------------------------
(***************************************************************************)
(* The cache under the operations of files.c: after any number of them, in *)
(* any order, the ring is in order and its running total within the limit. *)
(* CachingProofs says what one call of a handler does; here is what the    *)
(* calls of one operation do to ring and len.                              *)
(***************************************************************************)
EXTENDS CacheRing, CachingProofs, SequenceTheorems

(***************************************************************************)
(* RingWellFormed counts the files of the window.  What the handlers need  *)
(* to keep it is more: that no two positions have the same file, and that  *)
(* the slots outside the window, which the offsets of readNFiles can       *)
(* reach, point to no file that has left the ring.                         *)
(***************************************************************************)
LengthsOfStored ==
    /\ len \in [Files -> 0 .. MaxFileSize]
    /\ \A f \in Files \ Contents(ring) : len[f] = 0

RingInv ==
    /\ WellFormed(ring) /\ NoStrays(ring)
    /\ LengthsOfStored
    /\ fault \in Faults \cup {NoFault}
    /\ ring.size <= MaxMemorySize

\* The lengths are whole numbers, and a file's is within the limit.
LEMMA LengthTypes ==
    ASSUME LengthsOfStored
    PROVE  len \in [Files -> Int] /\ MaxFileSize \in Nat
BY MaxFileSizeAssumption DEF LengthsOfStored

\* What the operations test for is whether the ring has the file.
LEMMA StoredIsContents ==
    ASSUME WellFormed(ring)
    PROVE  Stored = Contents(ring)
BY ContentsOfWindow DEF Stored, Queue

\* The server starts with an empty ring.
LEMMA RingInvInit ==
    ASSUME Init
    PROVE  RingInv
<1>1. PICK policy \in CachePolicies : ring = initCachingSystem(policy)
  BY DEF Init
<1>2. PICK cache : cache = [i \in Slots |-> NoFile]
  OBVIOUS
<1>3. cache \in [Slots -> Files \cup {NoFile}] /\ 0 \in Slots /\ 0 \in 0 .. MaxFileCount
  BY <1>2, CacheSizeType DEF Slots
<1>4. ring = Ring(policy, cache, 0, 0, 0, 0)
  BY <1>1, <1>2 DEF initCachingSystem, Ring
<1>5. /\ ring \in Rings /\ Positions(ring) = 0 .. 0 - 1
      /\ ring.cache = cache /\ ring.count = 0 /\ ring.size = 0
      /\ (FromHead(ring, ring.count) = ring.tail <=> Turn(0, 0) = 0)
  BY <1>3, <1>4, RingOfFields
<1>6. Turn(0, 0) = 0
  BY <1>3, TurnIsOnto
<1>7. WellFormed(ring) /\ NoStrays(ring)
  BY <1>2, <1>5, <1>6 DEF WellFormed, NoStrays, Values
<1>8. LengthsOfStored /\ fault \in Faults \cup {NoFault}
  BY MaxFileSizeAssumption DEF Init, LengthsOfStored
<1>. QED BY <1>5, <1>7, <1>8, MaxMemorySizeAssumption DEF RingInv

\* A step that fails leaves the cache alone.
LEMMA FailKeepsRing ==
    ASSUME RingInv, NEW kind \in Faults, Fail(kind)
    PROVE  RingInv'
BY DEF RingInv, Fail, LengthsOfStored, WellFormed, NoStrays, Values, Contents, Positions, At, FromHead

\* What a step has to show.
LEMMA RingInvAfter ==
    ASSUME NEW s, ring' = s, WellFormed(s), NoStrays(s), s.size <= MaxMemorySize,
           UNCHANGED fault, RingInv,
           len' \in [Files -> 0 .. MaxFileSize],
           \A f \in Files \ Contents(s) : len'[f] = 0
    PROVE  RingInv'
<1>1. (WellFormed(ring)' <=> WellFormed(s)) /\ (NoStrays(ring)' <=> NoStrays(s))
  BY DEF WellFormed, NoStrays, Values, Contents, Positions, At, FromHead
<1>2. Contents(ring)' = Contents(s)
  BY DEF Contents, Positions, At, FromHead
<1>. QED BY <1>1, <1>2 DEF RingInv, LengthsOfStored

\* openFile of a new file.
LEMMA CreateKeepsRing ==
    ASSUME RingInv, NEW f \in Files, Create(f)
    PROVE  RingInv'
<1>1. /\ f \notin Contents(ring) /\ WellFormed(ring) /\ NoStrays(ring) /\ LengthsOfStored
      /\ ring.size <= MaxMemorySize
  BY StoredIsContents DEF RingInv, Create
<1>2. CASE InsertionReadsDangling(ring)
  BY <1>2, FailKeepsRing DEF Create, Faults
<1>3. CASE ~InsertionReadsDangling(ring)
  <2>1. PICK s : s = handleInsertion(ring, len, f)
    OBVIOUS
  <2>2. CASE UsageExits(s, f)
    BY <1>3, <2>1, <2>2, FailKeepsRing DEF Create, Faults
  <2>3. CASE ~UsageExits(s, f)
    <3>1. PICK V, u, t : V = InsertionVictims(ring) /\ u = handleUsage(s, f) /\ t = Free(u, V)
      OBVIOUS
    <3>2. /\ ring' = t
          /\ len' = [g \in Files |-> IF g \in V THEN 0 ELSE len[g]]
          /\ UNCHANGED fault
      BY <1>3, <2>1, <2>3, <3>1 DEF Create
    <3>3. /\ WellFormed(t) /\ NoStrays(t) /\ Contents(t) = (Contents(ring) \cup {f}) \ V
          /\ V = {} => t.size = ring.size
          /\ V # {} => /\ ring.cache[Forth(ring.head)] \in Files
                       /\ t.size = ring.size - len[ring.cache[Forth(ring.head)]]
      <4>1. len \in [Files -> Int]
        BY <1>1, LengthTypes
      <4>. QED BY <1>1, <1>3, <2>1, <3>1, <4>1, CreatedRing
    <3>4. t.size <= MaxMemorySize
      <4>1. CASE V = {}
        BY <1>1, <3>3, <4>1
      <4>2. CASE V # {}
        <5>1. PICK x \in Files : x = ring.cache[Forth(ring.head)]
          BY <3>3, <4>2
        <5>2. t.size = ring.size - len[x] /\ len[x] \in Nat /\ ring.size \in Int
          BY <1>1, <3>3, <4>2, <5>1, RingFields, MaxFileSizeAssumption DEF LengthsOfStored, WellFormed
        <5>. QED BY <1>1, <5>2, MaxMemorySizeAssumption
      <4>. QED BY <4>1, <4>2
    <3>5. len' \in [Files -> 0 .. MaxFileSize]
      BY <1>1, <3>2, MaxFileSizeAssumption DEF LengthsOfStored
    <3>6. \A g \in Files \ Contents(t) : len'[g] = 0
      BY <1>1, <3>2, <3>3 DEF LengthsOfStored
    <3>. QED BY <3>2, <3>3, <3>4, <3>5, <3>6, RingInvAfter
  <2>. QED BY <2>2, <2>3
<1>. QED BY <1>2, <1>3

\* openFile of a stored file, get_fileEntry.
LEMMA UseKeepsRing ==
    ASSUME RingInv, NEW f \in Files, Use(f)
    PROVE  RingInv'
<1>1. /\ f \in Contents(ring) /\ WellFormed(ring) /\ NoStrays(ring) /\ LengthsOfStored
      /\ ring.size <= MaxMemorySize
  BY StoredIsContents DEF RingInv, Use
<1>2. CASE UsageExits(ring, f)
  BY <1>2, FailKeepsRing DEF Use, Faults
<1>3. CASE ~UsageExits(ring, f)
  <2>1. PICK t : t = handleUsage(ring, f)
    OBVIOUS
  <2>2. ring' = t /\ UNCHANGED <<len, fault>>
    BY <1>3, <2>1 DEF Use
  <2>3. WellFormed(t) /\ NoStrays(t) /\ Contents(t) = Contents(ring) /\ t.size = ring.size
    BY <1>1, <2>1, UsageKeeps
  <2>4. len' \in [Files -> 0 .. MaxFileSize] /\ \A g \in Files \ Contents(t) : len'[g] = 0
    BY <1>1, <2>2, <2>3 DEF LengthsOfStored
  <2>. QED BY <1>1, <2>2, <2>3, <2>4, RingInvAfter
<1>. QED BY <1>2, <1>3

\* writeFile and appendToFile.
LEMMA EditKeepsRing ==
    ASSUME RingInv, NEW f \in Files, NEW newSize \in 0 .. MaxFileSize, Edit(f, newSize)
    PROVE  RingInv'
<1>1. f \in Contents(ring) /\ WellFormed(ring) /\ NoStrays(ring) /\ LengthsOfStored
  BY StoredIsContents DEF RingInv, Edit
<1>2. len \in [Files -> Int] /\ newSize \in Int
  BY <1>1, LengthTypes
<1>3. CASE EditOverruns(ring, len, f, newSize)
  BY <1>3, FailKeepsRing DEF Edit, Faults
<1>4. CASE ~EditOverruns(ring, len, f, newSize) /\ EditExits(ring, len, f, newSize)
  BY <1>4, FailKeepsRing DEF Edit, Faults
<1>5. CASE ~EditOverruns(ring, len, f, newSize) /\ ~EditExits(ring, len, f, newSize)
  <2>1. PICK V, s : V = EditVictims(ring, len, f, newSize) /\ s = Free(handleEdit(ring, len, f, newSize), V)
    OBVIOUS
  <2>2. /\ ring' = s
        /\ len' = [g \in Files |-> IF g = f THEN newSize ELSE IF g \in V THEN 0 ELSE len[g]]
        /\ UNCHANGED fault
    BY <1>5, <2>1 DEF Edit
  <2>3. /\ WellFormed(s) /\ NoStrays(s) /\ Contents(s) = Contents(ring) \ V
        /\ V \subseteq Contents(ring) \ {f} /\ s.size <= MaxMemorySize
    BY <1>1, <1>2, <1>5, <2>1, EditedRing
  <2>4. len' \in [Files -> 0 .. MaxFileSize]
    BY <1>1, <2>2, MaxFileSizeAssumption DEF LengthsOfStored
  <2>5. \A g \in Files \ Contents(s) : len'[g] = 0
    BY <1>1, <2>2, <2>3 DEF LengthsOfStored
  <2>. QED BY <2>2, <2>3, <2>4, <2>5, RingInvAfter
<1>. QED BY <1>3, <1>4, <1>5

\* removeFile.
LEMMA RemoveKeepsRing ==
    ASSUME RingInv, NEW f \in Files, Remove(f)
    PROVE  RingInv'
<1>1. /\ f \in Contents(ring) /\ WellFormed(ring) /\ NoStrays(ring) /\ LengthsOfStored
      /\ ring.size <= MaxMemorySize
  BY StoredIsContents DEF RingInv, Remove
<1>2. PICK s : s = Free(handleRemoval(ring, len, f), {f})
  OBVIOUS
<1>3. ring' = s /\ len' = [len EXCEPT ![f] = 0] /\ UNCHANGED fault
  BY <1>2 DEF Remove
<1>4. WellFormed(s) /\ NoStrays(s) /\ Contents(s) = Contents(ring) \ {f} /\ s.size = ring.size - len[f]
  <2>1. len \in [Files -> Int]
    BY <1>1, LengthTypes
  <2>. QED BY <1>1, <1>2, <2>1, RemovedRing
<1>5. s.size <= MaxMemorySize
  <2>1. ring.size \in Int /\ len[f] \in Nat
    BY <1>1, RingFields, MaxFileSizeAssumption DEF LengthsOfStored, WellFormed
  <2>. QED BY <1>1, <1>4, <2>1, MaxMemorySizeAssumption
<1>6. len' \in [Files -> 0 .. MaxFileSize] /\ \A g \in Files \ Contents(s) : len'[g] = 0
  BY <1>1, <1>3, <1>4, MaxFileSizeAssumption DEF LengthsOfStored
<1>. QED BY <1>3, <1>4, <1>5, <1>6, RingInvAfter

\* readNFiles, undisturbed.
LEMMA ReadNKeepsRing ==
    ASSUME RingInv, NEW n \in 0 .. MaxFileCount, ReadN(n)
    PROVE  RingInv'
<1>1. WellFormed(ring) /\ NoStrays(ring) /\ LengthsOfStored /\ ring.size <= MaxMemorySize
  BY DEF RingInv
<1>2. PICK m : m = SampleSize(ring, n)
  OBVIOUS
<1>3. m \in 0 .. ring.count /\ m \in Nat
  BY <1>1, <1>2, RingFields DEF SampleSize, WellFormed
<1>. DEFINE slot(x, sample, k) == x[k].cache[SampledSlot(ring, sample[k])]
            Stops(x, sample, k) == \/ slot(x, sample, k) = NoFile
                                   \/ /\ slot(x, sample, k) # NoFile
                                      /\ UsageExits(x[k], slot(x, sample, k))
<1>4. PICK sample, x :
         /\ sample \in Samples(ring, m) /\ x = SampleUses(ring, sample)
         /\ \/ Fail("dangling_read") \/ Fail("exit")
            \/ /\ \A k \in 0 .. m - 1 : ~Stops(x, sample, k)
               /\ ring' = x[m] /\ UNCHANGED <<len, fault>>
  BY <1>2, Zenon DEF ReadN
<1>5. CASE Fail("dangling_read") \/ Fail("exit")
  BY <1>5, FailKeepsRing DEF Faults
<1>6. CASE /\ \A k \in 0 .. m - 1 : ~Stops(x, sample, k)
           /\ ring' = x[m] /\ UNCHANGED <<len, fault>>
  <2>1. \A k \in 0 .. m - 1 : slot(x, sample, k) # NoFile
    BY <1>6
  <2>2. PICK t : t = x[m]
    OBVIOUS
  <2>3. WellFormed(t) /\ NoStrays(t) /\ Contents(t) = Contents(ring) /\ t.size = ring.size
    <3>1. m \in 0 .. m
      BY <1>3
    <3>. QED BY <1>1, <1>3, <1>4, <2>1, <2>2, <3>1, SampleUsesKeep
  <2>4. len' \in [Files -> 0 .. MaxFileSize] /\ \A g \in Files \ Contents(t) : len'[g] = 0
    BY <1>1, <1>6, <2>3 DEF LengthsOfStored
  <2>. QED BY <1>1, <1>6, <2>2, <2>3, <2>4, RingInvAfter
<1>. QED BY <1>4, <1>5, <1>6

\* The ring is in order before and after every operation.
THEOREM RingInvariance == Spec => []RingInv
<1>1. RingInv /\ [Next]_vars => RingInv'
  <2>. SUFFICES ASSUME RingInv, [Next]_vars
                PROVE  RingInv'
    OBVIOUS
  <2>1. CASE UNCHANGED vars
    BY <2>1 DEF RingInv, vars, LengthsOfStored, WellFormed, NoStrays, Values, Contents, Positions, At,
                FromHead
  <2>2. ASSUME NEW f \in Files, Create(f)
        PROVE  RingInv'
    BY <2>2, CreateKeepsRing
  <2>3. ASSUME NEW f \in Files, Use(f)
        PROVE  RingInv'
    BY <2>3, UseKeepsRing
  <2>4. ASSUME NEW f \in Files, Remove(f)
        PROVE  RingInv'
    BY <2>4, RemoveKeepsRing
  <2>5. ASSUME NEW f \in Files, NEW newSize \in 0 .. MaxFileSize, Edit(f, newSize)
        PROVE  RingInv'
    BY <2>5, EditKeepsRing
  <2>6. ASSUME NEW n \in 0 .. MaxFileCount, ReadN(n)
        PROVE  RingInv'
    BY <2>6, ReadNKeepsRing
  <2>. QED BY <2>1, <2>2, <2>3, <2>4, <2>5, <2>6 DEF Next
<1>. QED BY RingInvInit, <1>1, PTL DEF Spec

(***************************************************************************)
(* For any number of files and any limits, the slots from head to tail are *)
(* exactly the stored files, each once, and a name that is not stored has  *)
(* no bytes: the copying loops of caching.c lose nothing and leave nothing *)
(* behind (caching.c:177-282, 353-377).                                    *)
(***************************************************************************)
THEOREM RingStaysWellFormed == Spec => []RingWellFormed
<1>1. RingInv => RingWellFormed
  <2>. SUFFICES ASSUME RingInv
                PROVE  RingWellFormed
    OBVIOUS
  <2>1. WellFormed(ring) /\ LengthsOfStored /\ fault \in Faults \cup {NoFault}
    BY DEF RingInv
  <2>2. Stored = Contents(ring) /\ Cardinality(Contents(ring)) = ring.count
    BY <2>1, StoredIsContents, ContentsOfWindow
  <2>3. NoFile \notin Contents(ring)
    BY <2>1, ArrayOfRing
  <2>4. ring \in Rings /\ FromHead(ring, ring.count) = ring.tail
    BY <2>1 DEF WellFormed
  <2>. QED BY <2>1, <2>2, <2>3, <2>4 DEF RingWellFormed, TypeOK, LengthsOfStored
<1>. QED BY <1>1, RingInvariance, PTL

(***************************************************************************)
(* The running total of caching.c never passes maxMemorySize, whatever the *)
(* limits: an edit makes room before it grows a file, and nothing else     *)
(* adds to it (caching.c:135-147, 295-307).                                *)
(***************************************************************************)
THEOREM RunningTotalStaysWithinLimit == Spec => []RunningTotalWithinLimit
<1>1. RingInv => RunningTotalWithinLimit
  BY DEF RingInv, RunningTotalWithinLimit
<1>. QED BY <1>1, RingInvariance, PTL

----------------------------------------------------------------------------
(* The queue the policy promises.                                          *)

(***************************************************************************)
(* A queue of n files, none of them twice, and what EvictionQueue does to  *)
(* it.  Here t is the queue afterwards.                                    *)
(***************************************************************************)
IsQueue(q, n) ==
    /\ n \in Nat /\ q \in [1 .. n -> Files]
    /\ \A i, j \in 1 .. n : q[i] = q[j] => i = j

\* from names m of the n positions, in their order.
IsOrdered(from, m, n) ==
    /\ m \in Nat /\ n \in Nat /\ from \in [1 .. m -> 1 .. n]
    /\ \A i, j \in 1 .. m : i < j => from[i] < from[j]

\* They are the positions of q whose files are not in F.
IsKept(from, m, q, n, F) == \A i \in 1 .. n : q[i] \notin F <=> \E j \in 1 .. m : from[j] = i

\* kept[i] is what remains of the first i files of s without those of F.
IsPassed(kept, s, F) ==
    /\ kept[0] = << >>
    /\ \A i \in 1 .. Len(s) :
          kept[i] = IF s[i] \in F THEN kept[i - 1] ELSE Append(kept[i - 1], s[i])

\* Without goes through the queue from its front.
LEMMA WithoutSteps ==
    ASSUME NEW s, Len(s) \in Nat, NEW F
    PROVE  \E kept : Oldest!Without(s, F) = kept[Len(s)] /\ IsPassed(kept, s, F)
<1>. DEFINE n == Len(s)
            Passed(x, i) == IF i = 0 THEN << >>
                            ELSE IF s[i] \in F THEN x[i - 1] ELSE Append(x[i - 1], s[i])
<1>1. PICK kept : kept = CHOOSE x : x = [i \in 0 .. n |-> Passed(x, i)]
  OBVIOUS
<1>2. Oldest!Without(s, F) = kept[n]
  BY <1>1 DEF Oldest!Without
<1>3. PICK c : c = [list |-> s, gone |-> F]
  OBVIOUS
<1>4. PICK x : IsTrail(x, n, "kept", << >>, c)
  BY Trails
<1>5. x = [i \in 0 .. n |-> IF i = 0 THEN << >> ELSE Step("kept", c, x[i - 1], i - 1)]
  BY <1>4 DEF IsTrail
<1>6. ASSUME NEW i \in 0 .. n, i # 0
      PROVE  Step("kept", c, x[i - 1], i - 1) = Passed(x, i)
  <2>1. (i - 1) + 1 = i
    OBVIOUS
  <2>2. Step("kept", c, x[i - 1], i - 1)
            = IF c.list[(i - 1) + 1] \in c.gone THEN x[i - 1] ELSE Append(x[i - 1], c.list[(i - 1) + 1])
    BY DEF Step
  <2>. QED BY <1>3, <1>6, <2>1, <2>2
<1>7. x = [i \in 0 .. n |-> Passed(x, i)]
  BY <1>5, <1>6
<1>8. kept = [i \in 0 .. n |-> Passed(kept, i)]
  <2>. HIDE DEF Passed
  <2>. QED BY <1>1, <1>7
<1>9. kept[0] = << >> /\ \A i \in 1 .. n : kept[i] = Passed(kept, i)
  <2>1. 0 \in 0 .. n /\ \A i \in 1 .. n : i \in 0 .. n
    OBVIOUS
  <2>2. \A i \in 0 .. n : kept[i] = Passed(kept, i)
    <3>. HIDE DEF Passed
    <3>. QED BY <1>8
  <2>3. Passed(kept, 0) = << >>
    OBVIOUS
  <2>. QED BY <2>1, <2>2, <2>3
<1>10. IsPassed(kept, s, F)
  BY <1>9 DEF IsPassed
<1>. QED BY <1>2, <1>10

\* A sequence of n files is the function with its values.
LEMMA SameFiles ==
    ASSUME NEW n \in Nat, NEW u \in Seq(Files), Len(u) = n, NEW v \in [1 .. n -> Files],
           \A j \in 1 .. n : u[j] = v[j]
    PROVE  u = v
<1>1. u \in [1 .. n -> Files]
  BY LenProperties
<1>. QED BY <1>1

\* A sequence made of the first k files that from names, and one file more.
LEMMA OneFileMore ==
    ASSUME NEW q, NEW from, NEW k \in Nat, NEW n \in Nat, q \in [1 .. n -> Files],
           from \in [1 .. k + 1 -> 1 .. n]
    PROVE  Append([j \in 1 .. k |-> q[from[j]]], q[from[k + 1]])
               = [j \in 1 .. k + 1 |-> q[from[j]]]
<1>1. PICK t : t = [j \in 1 .. k |-> q[from[j]]]
  OBVIOUS
<1>2. \A j \in 1 .. k + 1 : q[from[j]] \in Files
  OBVIOUS
<1>3. t \in Seq(Files) /\ Len(t) = k
  BY <1>1, <1>2
<1>4. k + 1 \in 1 .. k + 1
  OBVIOUS
<1>5. PICK x \in Files : x = q[from[k + 1]]
  BY <1>2, <1>4
<1>6. PICK u : u = Append(t, x)
  OBVIOUS
<1>7. /\ u \in Seq(Files) /\ Len(u) = k + 1
      /\ \A j \in 1 .. k : u[j] = t[j]
      /\ u[k + 1] = x
  BY <1>3, <1>6, AppendProperties
<1>8. \A j \in 1 .. k + 1 : u[j] = q[from[j]]
  BY <1>1, <1>5, <1>7
<1>9. PICK v : v = [j \in 1 .. k + 1 |-> q[from[j]]]
  OBVIOUS
<1>10. v \in [1 .. k + 1 -> Files] /\ \A j \in 1 .. k + 1 : u[j] = v[j]
  BY <1>2, <1>8, <1>9
<1>11. u = v
  BY <1>7, <1>10, SameFiles
<1>. QED BY <1>1, <1>5, <1>6, <1>9, <1>11

\* What is left of a queue, by position.
LEMMA WithoutIs ==
    ASSUME NEW q, NEW n, IsQueue(q, n), NEW from, NEW m, IsOrdered(from, m, n),
           NEW F, IsKept(from, m, q, n, F)
    PROVE  Oldest!Without(q, F) = [j \in 1 .. m |-> q[from[j]]]
<1>0. /\ n \in Nat /\ q \in [1 .. n -> Files] /\ Len(q) = n /\ Len(q) \in Nat
      /\ m \in Nat /\ from \in [1 .. m -> 1 .. n]
      /\ \A i, j \in 1 .. m : i < j => from[i] < from[j]
      /\ \A i \in 1 .. n : q[i] \notin F <=> \E j \in 1 .. m : from[j] = i
  BY DEF IsQueue, IsOrdered, IsKept
<1>1. PICK kept : /\ Oldest!Without(q, F) = kept[n]
                  /\ kept[0] = << >>
                  /\ \A i \in 1 .. n :
                        kept[i] = IF q[i] \in F THEN kept[i - 1] ELSE Append(kept[i - 1], q[i])
  <2>1. PICK kept : Oldest!Without(q, F) = kept[Len(q)] /\ IsPassed(kept, q, F)
    <3>1. Len(q) \in Nat
      BY <1>0
    <3>. QED BY <3>1, WithoutSteps
  <2>. QED BY <1>0, <2>1 DEF IsPassed
<1>. DEFINE First(k) == [j \in 1 .. k |-> q[from[j]]]
            Splits(i, k) == /\ k \in 0 .. m /\ kept[i] = First(k)
                            /\ \A j \in 1 .. m : from[j] <= i <=> j <= k
            Done(i) == \E k : Splits(i, k)
<1>2. Splits(0, 0)
  <2>1. First(0) = << >>
    OBVIOUS
  <2>2. \A j \in 1 .. m : ~(from[j] <= 0) /\ ~(j <= 0)
    BY <1>0
  <2>. QED BY <1>0, <1>1, <2>1, <2>2
<1>3. ASSUME NEW i \in 0 .. n - 1, Done(i)
      PROVE  Done(i + 1)
  <2>1. PICK k : Splits(i, k)
    BY <1>3
  <2>2. PICK a \in 1 .. n : a = i + 1 /\ a - 1 = i
    BY <1>0
  <2>3. k \in 0 .. m /\ kept[i] = First(k) /\ \A j \in 1 .. m : from[j] <= i <=> j <= k
    BY <2>1
  <2>4. kept[a] = IF q[a] \in F THEN kept[i] ELSE Append(kept[i], q[a])
    BY <1>1, <2>2
  <2>. HIDE DEF First
  <2>5. CASE q[a] \in F
    <3>1. \A j \in 1 .. m : from[j] # a
      BY <1>0, <2>5
    <3>2. \A j \in 1 .. m : from[j] \in Int
      BY <1>0
    <3>3. \A j \in 1 .. m : from[j] <= a <=> j <= k
      BY <1>0, <2>2, <2>3, <3>1, <3>2
    <3>4. Splits(a, k)
      BY <2>3, <2>4, <2>5, <3>3
    <3>. QED BY <2>2, <3>4
  <2>6. CASE q[a] \notin F
    <3>1. PICK b \in 1 .. m : from[b] = a
      BY <1>0, <2>6
    <3>2. b = k + 1
      <4>1. b > k
        BY <1>0, <2>2, <2>3, <3>1
      <4>2. ASSUME k + 1 < b
            PROVE  FALSE
        <5>1. PICK e \in 1 .. m : e = k + 1
          BY <1>0, <2>3, <4>2
        <5>2. from[e] < a /\ from[e] \in Int
          BY <1>0, <3>1, <4>2, <5>1
        <5>3. e <= k
          BY <2>2, <2>3, <5>2
        <5>. QED BY <2>3, <5>1, <5>3
      <4>. QED BY <1>0, <2>3, <4>1, <4>2
    <3>3. ASSUME NEW j \in 1 .. m
          PROVE  from[j] <= a <=> j <= b
      <4>1. j < b => from[j] < a
        BY <1>0, <3>1
      <4>2. b < j => a < from[j]
        BY <1>0, <3>1
      <4>3. j = b => from[j] = a
        BY <3>1
      <4>4. j < b \/ b < j \/ j = b
        BY <1>0
      <4>5. from[j] \in Int
        BY <1>0
      <4>. QED BY <4>1, <4>2, <4>3, <4>4, <4>5
    <3>4. First(b) = Append(First(k), q[a])
      <4>1. k \in Nat /\ k + 1 = b
        BY <1>0, <2>3, <3>2
      <4>2. PICK g : g = [j \in 1 .. k + 1 |-> from[j]]
        OBVIOUS
      <4>3. g \in [1 .. k + 1 -> 1 .. n] /\ g[k + 1] = a
        BY <1>0, <2>3, <3>1, <3>2, <4>2
      <4>4. Append([j \in 1 .. k |-> q[g[j]]], q[g[k + 1]]) = [j \in 1 .. k + 1 |-> q[g[j]]]
        BY <1>0, <4>1, <4>3, OneFileMore
      <4>5. [j \in 1 .. k |-> q[g[j]]] = First(k)
        BY <4>1, <4>2 DEF First
      <4>6. [j \in 1 .. k + 1 |-> q[g[j]]] = First(k + 1)
        BY <4>1, <4>2 DEF First
      <4>. QED BY <4>1, <4>3, <4>4, <4>5, <4>6
    <3>5. Splits(a, b)
      <4>1. b \in 0 .. m /\ kept[a] = First(b)
        BY <1>0, <2>3, <2>4, <2>6, <3>4
      <4>. QED BY <3>3, <4>1
    <3>. QED BY <2>2, <3>5
  <2>. QED BY <2>5, <2>6
<1>4. Done(0)
  BY <1>2
<1>. HIDE DEF Done
<1>5. Done(n)
  <2>. SUFFICES ASSUME ~Done(n)
                PROVE  FALSE
    OBVIOUS
  <2>. DEFINE S == {i \in 0 .. n : ~Done(i)}
  <2>1. n \in S /\ S \in SUBSET Nat
    BY <1>0
  <2>2. PICK i \in S : \A k \in Nat : k < i => k \notin S
    BY <2>1, LeastOf
  <2>3. i # 0
    BY <1>4, <2>2
  <2>4. PICK k \in 0 .. n - 1 : i = k + 1
    BY <1>0, <2>2, <2>3
  <2>5. Done(k)
    BY <1>0, <2>2, <2>4
  <2>. QED BY <1>3, <2>2, <2>4, <2>5
<1>6. PICK k : Splits(n, k)
  BY <1>5 DEF Done
<1>7. k = m
  <2>1. k \in 0 .. m /\ \A j \in 1 .. m : from[j] <= n <=> j <= k
    BY <1>6
  <2>2. m # 0 => m \in 1 .. m /\ from[m] <= n
    BY <1>0
  <2>. QED BY <1>0, <2>1, <2>2
<1>. QED BY <1>1, <1>6, <1>7

\* Queue t is q without the file at position p, with that file at its end, or without its first
\* k files, the one at position p excepted.
IsDropped(t, q, n, p) == t = [j \in 1 .. n - 1 |-> q[IF j < p THEN j ELSE j + 1]]

IsMoved(t, q, n, p) ==
    t = [j \in 1 .. n |-> IF j = n THEN q[p] ELSE q[IF j < p THEN j ELSE j + 1]]

IsShortened(t, q, n, k, p) ==
    t = IF k < p THEN [j \in 1 .. n - k |-> q[k + j]]
        ELSE [j \in 1 .. n - k + 1 |-> q[IF j = 1 THEN p ELSE k - 1 + j]]

\* What Without makes of a queue when one file leaves.
LEMMA DropIs ==
    ASSUME NEW q, NEW n, IsQueue(q, n), NEW p \in 1 .. n, NEW t, IsDropped(t, q, n, p)
    PROVE  Oldest!Without(q, {q[p]}) = t
<1>1. n \in Nat /\ q \in [1 .. n -> Files] /\ \A i, j \in 1 .. n : q[i] = q[j] => i = j
  BY DEF IsQueue
<1>2. PICK m, from : m = n - 1 /\ from = [j \in 1 .. m |-> IF j < p THEN j ELSE j + 1]
  OBVIOUS
<1>3. IsOrdered(from, m, n)
  BY <1>1, <1>2 DEF IsOrdered
<1>4. \A j \in 1 .. m : from[j] # p
  BY <1>1, <1>2
<1>5. ASSUME NEW i \in 1 .. n, i # p
      PROVE  \E j \in 1 .. m : from[j] = i
  <2>1. CASE i < p
    <3>1. i \in 1 .. m /\ from[i] = i
      BY <1>1, <1>2, <2>1
    <3>. QED BY <3>1
  <2>2. CASE i > p
    <3>1. PICK j \in 1 .. m : j + 1 = i
      BY <1>1, <1>2, <2>2
    <3>2. from[j] = i
      BY <1>1, <1>2, <2>2, <3>1
    <3>. QED BY <3>2
  <2>. QED BY <1>5, <2>1, <2>2
<1>6. \A i \in 1 .. n : q[i] \notin {q[p]} <=> i # p
  BY <1>1
<1>7. PICK F : F = {q[p]}
  OBVIOUS
<1>8. IsKept(from, m, q, n, F)
  BY <1>4, <1>5, <1>6, <1>7 DEF IsKept
<1>9. Oldest!Without(q, F) = [j \in 1 .. m |-> q[from[j]]]
  BY <1>3, <1>8, WithoutIs
<1>10. t = [j \in 1 .. m |-> q[from[j]]]
  BY <1>2 DEF IsDropped
<1>. QED BY <1>7, <1>9, <1>10

\* A used file goes to the end.
LEMMA MoveIs ==
    ASSUME NEW q, NEW n, IsQueue(q, n), NEW p \in 1 .. n, NEW t, IsMoved(t, q, n, p)
    PROVE  Oldest!MoveToEnd(q, q[p]) = t
<1>1. n \in Nat /\ q \in [1 .. n -> Files]
  BY DEF IsQueue
<1>2. PICK u : IsDropped(u, q, n, p)
  BY DEF IsDropped
<1>3. u = [j \in 1 .. n - 1 |-> q[IF j < p THEN j ELSE j + 1]]
  BY <1>2 DEF IsDropped
<1>4. u \in Seq(Files) /\ Len(u) = n - 1
  <2>1. \A j \in 1 .. n - 1 : q[IF j < p THEN j ELSE j + 1] \in Files
    BY <1>1
  <2>. QED BY <1>1, <1>3, <2>1
<1>5. PICK x \in Files : x = q[p]
  BY <1>1
<1>6. PICK v : v = Append(u, x)
  OBVIOUS
<1>7. /\ v \in Seq(Files) /\ Len(v) = n
      /\ \A j \in 1 .. n - 1 : v[j] = u[j]
      /\ v[n] = x
  <2>1. /\ v \in Seq(Files) /\ Len(v) = (n - 1) + 1
        /\ \A j \in 1 .. n - 1 : v[j] = u[j]
        /\ v[(n - 1) + 1] = x
    BY <1>4, <1>6, AppendProperties
  <2>. QED BY <1>1, <2>1
<1>8. t = [j \in 1 .. n |-> IF j = n THEN q[p] ELSE q[IF j < p THEN j ELSE j + 1]]
  BY DEF IsMoved
<1>9. t \in [1 .. n -> Files] /\ \A j \in 1 .. n : v[j] = t[j]
  <2>1. \A j \in 1 .. n : j = n \/ j \in 1 .. n - 1
    BY <1>1
  <2>. QED BY <1>1, <1>3, <1>5, <1>7, <1>8, <2>1
<1>10. v = t
  BY <1>1, <1>7, <1>9, SameFiles
<1>11. Oldest!Without(q, {q[p]}) = u
  BY <1>2, DropIs
<1>. QED BY <1>5, <1>6, <1>10, <1>11 DEF Oldest!MoveToEnd

\* A moved file makes no other leave.
LEMMA MovedIsQueue ==
    ASSUME NEW q, NEW n, IsQueue(q, n), NEW p \in 1 .. n, NEW t, IsMoved(t, q, n, p)
    PROVE  IsQueue(t, n)
<1>1. n \in Nat /\ q \in [1 .. n -> Files] /\ \A i, j \in 1 .. n : q[i] = q[j] => i = j
  BY DEF IsQueue
<1>2. PICK from : from = [j \in 1 .. n |-> IF j = n THEN p ELSE IF j < p THEN j ELSE j + 1]
  OBVIOUS
<1>3. from \in [1 .. n -> 1 .. n] /\ \A i, j \in 1 .. n : from[i] = from[j] => i = j
  BY <1>1, <1>2
<1>4. t = [j \in 1 .. n |-> q[from[j]]]
  BY <1>2 DEF IsMoved
<1>. QED BY <1>1, <1>3, <1>4 DEF IsQueue

\* Making room takes the files from the front.
LEMMA ShortIs ==
    ASSUME NEW q, NEW n, IsQueue(q, n), NEW k \in 0 .. n, NEW p \in 1 .. n,
           NEW t, IsShortened(t, q, n, k, p)
    PROVE  Oldest!Without(q, Oldest!Range(SubSeq(q, 1, k)) \ {q[p]}) = t
<1>1. n \in Nat /\ q \in [1 .. n -> Files] /\ \A i, j \in 1 .. n : q[i] = q[j] => i = j
  BY DEF IsQueue
<1>2. PICK F : F = Oldest!Range(SubSeq(q, 1, k)) \ {q[p]}
  OBVIOUS
<1>3. \A i \in 1 .. n : q[i] \notin F <=> i > k \/ i = p
  <2>1. PICK u : u = SubSeq(q, 1, k)
    OBVIOUS
  <2>2. /\ u \in Seq(Files) /\ Len(u) = (IF 1 <= k THEN k - 1 + 1 ELSE 0)
        /\ \A i \in 1 .. k - 1 + 1 : u[i] = q[1 + i - 1]
    BY <1>1, <2>1, SubSeqProperties
  <2>3. DOMAIN u = 1 .. k /\ \A i \in 1 .. k : u[i] = q[i]
    BY <1>1, <2>2, LenProperties
  <2>4. \A x : x \in Oldest!Range(u) <=> \E i \in 1 .. k : q[i] = x
    BY <2>3 DEF Oldest!Range
  <2>5. \A i \in 1 .. n : q[i] \in Oldest!Range(u) <=> i <= k
    BY <1>1, <2>4
  <2>. QED BY <1>1, <1>2, <2>1, <2>5
<1>4. CASE k < p
  <2>1. PICK m, from : m = n - k /\ from = [j \in 1 .. m |-> k + j]
    OBVIOUS
  <2>2. IsOrdered(from, m, n)
    BY <1>1, <2>1 DEF IsOrdered
  <2>3. \A j \in 1 .. m : from[j] > k
    BY <1>1, <2>1
  <2>4. ASSUME NEW i \in 1 .. n, i > k
        PROVE  \E j \in 1 .. m : from[j] = i
    <3>1. PICK j \in 1 .. m : k + j = i
      BY <1>1, <2>1, <2>4
    <3>. QED BY <2>1, <3>1
  <2>5. IsKept(from, m, q, n, F)
    BY <1>1, <1>3, <1>4, <2>3, <2>4 DEF IsKept
  <2>6. Oldest!Without(q, F) = [j \in 1 .. m |-> q[from[j]]]
    BY <2>2, <2>5, WithoutIs
  <2>7. t = [j \in 1 .. m |-> q[from[j]]]
    BY <1>4, <2>1 DEF IsShortened
  <2>. QED BY <1>2, <2>6, <2>7
<1>5. CASE k >= p
  <2>1. PICK m, from : m = n - k + 1
                       /\ from = [j \in 1 .. m |-> IF j = 1 THEN p ELSE k - 1 + j]
    OBVIOUS
  <2>2. IsOrdered(from, m, n)
    BY <1>1, <1>5, <2>1 DEF IsOrdered
  <2>3. \A j \in 1 .. m : from[j] > k \/ from[j] = p
    BY <1>1, <2>1
  <2>4. ASSUME NEW i \in 1 .. n, i > k \/ i = p
        PROVE  \E j \in 1 .. m : from[j] = i
    <3>1. CASE i = p
      <4>1. 1 \in 1 .. m /\ from[1] = i
        BY <1>1, <2>1, <3>1
      <4>. QED BY <4>1
    <3>2. CASE i > k
      <4>1. PICK j \in 1 .. m : k - 1 + j = i /\ j # 1
        BY <1>1, <2>1, <3>2
      <4>2. from[j] = i
        BY <2>1, <4>1
      <4>. QED BY <4>2
    <3>. QED BY <2>4, <3>1, <3>2
  <2>5. IsKept(from, m, q, n, F)
    BY <1>1, <1>3, <2>3, <2>4 DEF IsKept
  <2>6. Oldest!Without(q, F) = [j \in 1 .. m |-> q[from[j]]]
    BY <2>2, <2>5, WithoutIs
  <2>7. ~(k < p)
    BY <1>1, <1>5
  <2>8. t = [j \in 1 .. m |-> q[from[j]]]
    BY <2>1, <2>7 DEF IsShortened
  <2>. QED BY <1>2, <2>6, <2>8
<1>. QED BY <1>1, <1>4, <1>5

\* The files from head to tail are a queue.
LEMMA WindowIsQueue ==
    ASSUME NEW r, WellFormed(r)
    PROVE  /\ IsQueue(Window(r), r.count) /\ Len(Window(r)) = r.count
           /\ Window(r) \in Seq(Files) /\ r.count \in 0 .. MaxFileCount
           /\ \A k \in 1 .. r.count : Window(r)[k] = At(r, k - 1)
           /\ Oldest!Range(Window(r)) = Contents(r)
<1>1. r.count \in Nat /\ r.count <= MaxFileCount /\ MaxFileCount \in Nat
  BY RingFields, MaxFileCountAssumption DEF WellFormed
<1>2. Window(r) = [k \in 1 .. r.count |-> At(r, k - 1)]
  BY DEF Window, At
<1>3. \A k \in 1 .. r.count : k - 1 \in Positions(r) /\ At(r, k - 1) \in Files
  BY <1>1 DEF Positions, WellFormed
<1>4. \A i, j \in 1 .. r.count : At(r, i - 1) = At(r, j - 1) => i = j
  <2>1. \A i, j \in 1 .. r.count : At(r, i - 1) = At(r, j - 1) => i - 1 = j - 1
    BY <1>3 DEF WellFormed
  <2>. QED BY <1>1, <2>1
<1>5. IsQueue(Window(r), r.count)
  BY <1>1, <1>2, <1>3, <1>4 DEF IsQueue
<1>6. Window(r) \in Seq(Files) /\ Len(Window(r)) = r.count
  BY <1>1, <1>2, <1>3
<1>7. Oldest!Range(Window(r)) = Contents(r)
  BY ContentsOfWindow DEF Oldest!Range
<1>. QED BY <1>1, <1>2, <1>5, <1>6, <1>7

\* Where a file of the ring is in the queue.
LEMMA PlaceInQueue ==
    ASSUME NEW r, WellFormed(r), NEW f \in Contents(r)
    PROVE  /\ SearchLength(r, f) + 1 \in 1 .. r.count
           /\ Window(r)[SearchLength(r, f) + 1] = f
           /\ f \in Oldest!Range(Window(r))
<1>1. PICK n : n = SearchLength(r, f) /\ n \in 0 .. r.count - 1 /\ At(r, n) = f
  BY SearchFinds DEF Positions
<1>2. r.count \in Nat /\ \A k \in 1 .. r.count : Window(r)[k] = At(r, k - 1)
  BY WindowIsQueue
<1>3. n + 1 \in 1 .. r.count /\ (n + 1) - 1 = n
  BY <1>1, <1>2
<1>4. f \in Oldest!Range(Window(r))
  BY WindowIsQueue
<1>. QED BY <1>1, <1>2, <1>3, <1>4

\* A use under LRU.
LEMMA UseMoves ==
    ASSUME NEW r, WellFormed(r), ~IsFIFO(r), NEW f \in Contents(r), NEW s, s = handleUsage(r, f)
    PROVE  IsMoved(Window(s), Window(r), r.count, SearchLength(r, f) + 1)
<1>1. PICK n : n = SearchLength(r, f) /\ n \in 0 .. r.count - 1
  BY SearchFinds DEF Positions
<1>2. PICK m \in Nat : m = r.count
  BY WindowIsQueue
<1>3. s.count = m /\ \A k \in 0 .. m - 1 : At(s, k) = At(r, BeforeUse(n, m)[k])
  <2>1. s = handleUsageLRU(r, f)
    BY DEF handleUsage
  <2>2. s.count = r.count /\ \A k \in Positions(s) : At(s, k) = At(r, BeforeUse(SearchLength(r, f), r.count)[k])
    BY <2>1, UsageAt
  <2>. QED BY <1>1, <1>2, <2>2 DEF Positions
<1>4. PICK q : q = Window(r) /\ \A k \in 1 .. m : q[k] = At(r, k - 1)
  BY <1>2, WindowIsQueue
<1>5. Window(s) = [j \in 1 .. m |-> At(s, j - 1)]
  BY <1>3 DEF Window, At
<1>6. ASSUME NEW j \in 1 .. m
      PROVE  At(s, j - 1) = IF j = m THEN q[n + 1] ELSE q[IF j < n + 1 THEN j ELSE j + 1]
  <2>1. PICK k \in 0 .. m - 1 : k = j - 1
    BY <1>2
  <2>2. At(s, k) = At(r, IF k < n THEN k ELSE IF k = m - 1 THEN n ELSE k + 1)
    BY <1>3 DEF BeforeUse
  <2>3. n \in 0 .. m - 1
    BY <1>1, <1>2
  <2>4. CASE j = m
    <3>1. k = m - 1 /\ ~(k < n)
      BY <1>2, <2>1, <2>3, <2>4
    <3>2. n + 1 \in 1 .. m /\ (n + 1) - 1 = n
      BY <1>2, <2>3
    <3>. QED BY <1>4, <2>1, <2>2, <2>4, <3>1, <3>2
  <2>5. CASE j # m /\ j < n + 1
    <3>1. k < n
      BY <1>2, <2>1, <2>3, <2>5
    <3>. QED BY <1>4, <2>1, <2>2, <2>5, <3>1
  <2>6. CASE j # m /\ ~(j < n + 1)
    <3>1. ~(k < n) /\ k # m - 1
      BY <1>2, <2>1, <2>3, <2>6
    <3>2. j + 1 \in 1 .. m /\ (j + 1) - 1 = k + 1
      BY <1>2, <2>1, <2>6
    <3>. QED BY <1>4, <2>1, <2>2, <2>6, <3>1, <3>2
  <2>. QED BY <2>4, <2>5, <2>6
<1>7. IsMoved(Window(s), q, m, n + 1)
  BY <1>5, <1>6 DEF IsMoved
<1>. QED BY <1>1, <1>2, <1>4, <1>7

\* A use, whatever the policy.
LEMMA UseTouches ==
    ASSUME NEW r, WellFormed(r), NEW f \in Contents(r), NEW s, s = handleUsage(r, f)
    PROVE  Window(s) = IF IsFIFO(r) THEN Window(r) ELSE Oldest!MoveToEnd(Window(r), f)
<1>1. CASE IsFIFO(r)
  BY <1>1 DEF handleUsage
<1>2. CASE ~IsFIFO(r)
  <2>1. PICK p, q, n : p = SearchLength(r, f) + 1 /\ q = Window(r) /\ n = r.count
    OBVIOUS
  <2>2. p \in 1 .. n /\ q[p] = f /\ IsQueue(q, n)
    BY <2>1, PlaceInQueue, WindowIsQueue
  <2>3. IsMoved(Window(s), q, n, p)
    BY <1>2, <2>1, UseMoves
  <2>4. Oldest!MoveToEnd(q, q[p]) = Window(s)
    BY <2>2, <2>3, MoveIs
  <2>. QED BY <1>2, <2>1, <2>2, <2>4
<1>. QED BY <1>1, <1>2

\* A removal.
LEMMA RemovalDrops ==
    ASSUME NEW r, WellFormed(r), NEW length \in [Files -> Int], NEW f \in Contents(r),
           NEW s, s = handleRemoval(r, length, f)
    PROVE  Window(s) = Oldest!Without(Window(r), {f})
<1>1. PICK n : n = SearchLength(r, f) /\ n \in 0 .. r.count - 1
  BY SearchFinds DEF Positions
<1>2. PICK m \in Nat : m = r.count
  BY WindowIsQueue
<1>3. s.count = m - 1 /\ \A k \in 0 .. m - 2 : At(s, k) = At(r, IF k < n THEN k ELSE k + 1)
  BY <1>1, <1>2, RemovalKeeps
<1>4. PICK q : q = Window(r) /\ \A k \in 1 .. m : q[k] = At(r, k - 1)
  BY <1>2, WindowIsQueue
<1>5. Window(s) = [j \in 1 .. m - 1 |-> At(s, j - 1)]
  BY <1>3 DEF Window, At
<1>6. PICK p \in 1 .. m : p = n + 1
  BY <1>1, <1>2
<1>7. ASSUME NEW j \in 1 .. m - 1
      PROVE  At(s, j - 1) = q[IF j < p THEN j ELSE j + 1]
  <2>1. PICK k \in 0 .. m - 2 : k = j - 1
    BY <1>2
  <2>2. At(s, k) = At(r, IF k < n THEN k ELSE k + 1)
    BY <1>3
  <2>3. k < n <=> j < p
    BY <1>1, <1>2, <1>6, <2>1
  <2>4. j \in 1 .. m /\ j + 1 \in 1 .. m /\ (j + 1) - 1 = k + 1
    BY <1>2, <2>1
  <2>. QED BY <1>4, <2>1, <2>2, <2>3, <2>4
<1>8. IsDropped(Window(s), q, m, p)
  BY <1>5, <1>7 DEF IsDropped
<1>9. IsQueue(q, m) /\ q[p] = f
  BY <1>1, <1>2, <1>4, <1>6, WindowIsQueue, PlaceInQueue
<1>10. Oldest!Without(q, {q[p]}) = Window(s)
  BY <1>8, <1>9, DropIs
<1>. QED BY <1>4, <1>9, <1>10

\* The queue when the loop of an edit ends, by what became of the file at position p.
LEMMA EditShortens ==
    ASSUME NEW r, WellFormed(r), NEW f \in Contents(r), NEW n \in 0 .. r.count,
           NEW p, p = SearchLength(r, f),
           NEW t, t.count = IF n <= p THEN r.count - n ELSE r.count - (n - 1),
           \/ n <= p /\ \A k \in 0 .. r.count - n - 1 : At(t, k) = At(r, n + k)
           \/ n > p /\ \A k \in 0 .. r.count - n : At(t, k) = At(r, IF k = 0 THEN p ELSE n - 1 + k)
    PROVE  Window(t) = Oldest!Without(Window(r), Oldest!Range(SubSeq(Window(r), 1, n)) \ {f})
<1>1. PICK m \in Nat : m = r.count
  BY WindowIsQueue
<1>2. p \in 0 .. m - 1 /\ n \in 0 .. m
  BY <1>1, SearchFinds DEF Positions
<1>3. PICK q : q = Window(r) /\ \A k \in 1 .. m : q[k] = At(r, k - 1)
  BY <1>1, WindowIsQueue
<1>4. PICK a \in 1 .. m : a = p + 1 /\ q[a] = f
  BY <1>1, <1>3, PlaceInQueue
<1>5. CASE n <= p
  <2>1. t.count = m - n /\ \A k \in 0 .. m - n - 1 : At(t, k) = At(r, n + k)
    BY <1>1, <1>2, <1>5
  <2>2. Window(t) = [j \in 1 .. m - n |-> At(t, j - 1)]
    BY <2>1 DEF Window, At
  <2>3. ASSUME NEW j \in 1 .. m - n
        PROVE  At(t, j - 1) = q[n + j]
    <3>1. PICK k \in 0 .. m - n - 1 : k = j - 1
      BY <1>2
    <3>2. n + j \in 1 .. m /\ (n + j) - 1 = n + k
      BY <1>2, <3>1
    <3>. QED BY <1>3, <2>1, <3>1, <3>2
  <2>4. n < a
    BY <1>2, <1>4, <1>5
  <2>5. IsShortened(Window(t), q, m, n, a)
    BY <2>2, <2>3, <2>4 DEF IsShortened
  <2>6. IsQueue(q, m)
    BY <1>1, <1>3, WindowIsQueue
  <2>7. Oldest!Without(q, Oldest!Range(SubSeq(q, 1, n)) \ {q[a]}) = Window(t)
    BY <1>2, <2>5, <2>6, ShortIs
  <2>. QED BY <1>3, <1>4, <2>7
<1>6. CASE n > p
  <2>1. /\ t.count = m - n + 1
        /\ \A k \in 0 .. m - n : At(t, k) = At(r, IF k = 0 THEN p ELSE n - 1 + k)
    BY <1>1, <1>2, <1>6
  <2>2. Window(t) = [j \in 1 .. m - n + 1 |-> At(t, j - 1)]
    BY <2>1 DEF Window, At
  <2>3. ASSUME NEW j \in 1 .. m - n + 1
        PROVE  At(t, j - 1) = q[IF j = 1 THEN a ELSE n - 1 + j]
    <3>1. PICK k \in 0 .. m - n : k = j - 1
      BY <1>2
    <3>2. CASE j = 1
      <4>1. k = 0 /\ a - 1 = p
        BY <1>2, <1>4, <3>1, <3>2
      <4>. QED BY <1>3, <1>4, <2>1, <3>1, <3>2, <4>1
    <3>3. CASE j # 1
      <4>1. k # 0 /\ n - 1 + j \in 1 .. m /\ (n - 1 + j) - 1 = n - 1 + k
        BY <1>2, <1>6, <3>1, <3>3
      <4>. QED BY <1>3, <2>1, <3>1, <3>3, <4>1
    <3>. QED BY <3>2, <3>3
  <2>4. ~(n < a)
    BY <1>2, <1>4, <1>6
  <2>5. IsShortened(Window(t), q, m, n, a)
    BY <2>2, <2>3, <2>4 DEF IsShortened
  <2>6. IsQueue(q, m)
    BY <1>1, <1>3, WindowIsQueue
  <2>7. Oldest!Without(q, Oldest!Range(SubSeq(q, 1, n)) \ {q[a]}) = Window(t)
    BY <1>2, <2>5, <2>6, ShortIs
  <2>. QED BY <1>3, <1>4, <2>7
<1>. QED BY <1>2, <1>5, <1>6

\* Queue w is q, of n files, after an edit of f: the k oldest other files left, then f was used.
IsEdited(w, q, n, f, policy) ==
    \E k \in 0 .. n : \E u :
        /\ u = Oldest!Without(q, Oldest!Range(SubSeq(q, 1, k)) \ {f})
        /\ w = IF policy = "FIFO" THEN u ELSE Oldest!MoveToEnd(u, f)

\* An edit, whatever the policy: room is made from the front, then the file is used.
LEMMA EditTouches ==
    ASSUME NEW r, WellFormed(r), NEW length \in [Files -> Int], NEW f \in Contents(r),
           NEW newSize \in Int, ~EditOverruns(r, length, f, newSize),
           NEW s, s = handleEdit(r, length, f, newSize)
    PROVE  IsEdited(Window(s), Window(r), r.count, f, r.policy)
<1>1. PICK n, p, size, V : /\ n = EditScan(r, length, f, newSize) /\ p = SearchLength(r, f)
                           /\ size = ExpectedSize(r, length, f, newSize)[n]
                           /\ V = EditVictims(r, length, f, newSize)
  OBVIOUS
<1>2. f \in Files
  BY ContentsOfWindow
<1>3. n \in 0 .. r.count /\ size \in Int
  BY <1>1, <1>2, EditScanStops
<1>4. PICK cache, h, m : /\ HasWindow(r, cache, h, m)
                         /\ r.cache = cache /\ r.head = h /\ r.count = m
  BY FieldsOfRing DEF HasWindow
<1>5. /\ IsEvicted(V, cache, h, m, n, p) /\ cache[Turn(h, p)] = f
      /\ V \subseteq Contents(r) \ {f}
      /\ Cardinality(V) = IF n > p THEN n - 1 ELSE n
  <2>1. n \in 0 .. m
    BY <1>3, <1>4
  <2>2. n = EditScan(r, length, f, newSize) /\ p = SearchLength(r, f)
        /\ V = EditVictims(r, length, f, newSize)
    BY <1>1
  <2>. QED BY <1>4, <2>1, <2>2, EditVictimsAt
<1>6. n \in Nat /\ p \in Nat /\ m \in Nat /\ p \in 0 .. m - 1
  BY <1>3, <1>4, <1>5, CacheSizeType DEF IsEvicted, HasWindow
<1>7. PICK t : t = Advanced(r, n, V, size)
  OBVIOUS
<1>8. s = IF ~(n > p) THEN handleUsage(t, f)
          ELSE IF IsFIFO(r) THEN Replaced(t, f) ELSE Requeued(t, f)
  BY <1>1, <1>7, EditByCases
<1>9. PICK u : u = Oldest!Without(Window(r), Oldest!Range(SubSeq(Window(r), 1, n)) \ {f})
  OBVIOUS
<1>. SUFFICES Window(s) = IF IsFIFO(r) THEN u ELSE Oldest!MoveToEnd(u, f)
  BY <1>3, <1>9 DEF IsEdited, IsFIFO
<1>10. CASE ~(n > p)
  <2>1. n <= p /\ Cardinality(V) = n
    BY <1>5, <1>6, <1>10
  <2>2. /\ WellFormed(t) /\ Contents(t) = Contents(r) \ V
        /\ t.policy = r.policy /\ t.count = r.count - n
        /\ \A k \in 0 .. r.count - n - 1 : At(t, k) = At(r, n + k)
    BY <1>3, <1>4, <1>5, <1>7, <2>1, EditAdvances
  <2>3. Window(t) = u
    BY <1>1, <1>3, <1>9, <2>1, <2>2, EditShortens
  <2>4. f \in Contents(t)
    BY <1>5, <2>2
  <2>5. s = handleUsage(t, f)
    BY <1>8, <1>10
  <2>6. Window(s) = IF IsFIFO(t) THEN Window(t) ELSE Oldest!MoveToEnd(Window(t), f)
    BY <2>2, <2>4, <2>5, UseTouches
  <2>7. IsFIFO(t) <=> IsFIFO(r)
    BY <2>2 DEF IsFIFO
  <2>. QED BY <2>3, <2>6, <2>7
<1>11. CASE n > p
  <2>1. Cardinality(V) = n - 1
    BY <1>5, <1>11
  <2>2. PICK w : w = Replaced(t, f)
    OBVIOUS
  <2>3. /\ WellFormed(w) /\ Contents(w) = Contents(r) \ V /\ w.count = r.count - (n - 1)
        /\ \A k \in 0 .. r.count - n : At(w, k) = At(r, IF k = 0 THEN p ELSE n - 1 + k)
    BY <1>3, <1>4, <1>5, <1>7, <1>11, <2>1, <2>2, EditSkipsFIFO
  <2>4. Window(w) = u
    <3>1. ~(n <= p)
      BY <1>6, <1>11
    <3>. QED BY <1>1, <1>3, <1>9, <1>11, <2>3, <3>1, EditShortens
  <2>5. CASE IsFIFO(r)
    <3>1. s = w
      BY <1>8, <1>11, <2>2, <2>5
    <3>. QED BY <2>4, <2>5, <3>1
  <2>6. CASE ~IsFIFO(r)
    <3>1. s = Requeued(t, f)
      BY <1>8, <1>11, <2>6
    <3>2. /\ s.count = r.count - (n - 1)
          /\ \A k \in 0 .. r.count - n : At(s, k) = At(r, IF k = r.count - n THEN p ELSE n + k)
      BY <1>3, <1>4, <1>5, <1>7, <1>11, <2>1, <3>1, EditSkipsLRU
    <3>3. PICK c \in Nat : c = m - n + 1 /\ c >= 1
      BY <1>3, <1>4, <1>6, <1>11
    <3>4. /\ w.count = c /\ s.count = c
          /\ \A k \in 0 .. c - 1 : At(w, k) = At(r, IF k = 0 THEN p ELSE n - 1 + k)
          /\ \A k \in 0 .. c - 1 : At(s, k) = At(r, IF k = c - 1 THEN p ELSE n + k)
      <4>1. r.count - n = c - 1 /\ r.count - (n - 1) = c
        BY <1>4, <1>6, <3>3
      <4>. QED BY <2>3, <3>2, <4>1
    <3>5. /\ IsQueue(u, c)
          /\ \A j \in 1 .. c : u[j] = At(w, j - 1)
      BY <2>3, <2>4, <3>4, WindowIsQueue
    <3>6. 1 \in 1 .. c /\ u[1] = f
      <4>1. 1 \in 1 .. c /\ 0 \in 0 .. c - 1 /\ 1 - 1 = 0
        BY <3>3
      <4>2. At(w, 0) = At(r, p)
        BY <3>4, <4>1
      <4>3. At(r, p) = f
        BY <1>1, SearchFinds
      <4>. QED BY <3>5, <4>1, <4>2, <4>3
    <3>7. Window(s) = [j \in 1 .. c |-> At(s, j - 1)]
      BY <3>4 DEF Window, At
    <3>8. ASSUME NEW j \in 1 .. c
          PROVE  At(s, j - 1) = IF j = c THEN u[1] ELSE u[IF j < 1 THEN j ELSE j + 1]
      <4>1. PICK k \in 0 .. c - 1 : k = j - 1
        BY <3>3
      <4>2. At(s, k) = At(r, IF k = c - 1 THEN p ELSE n + k)
        BY <3>4
      <4>3. CASE j = c
        <5>1. k = c - 1 /\ At(r, p) = f
          BY <1>1, <3>3, <4>1, <4>3, SearchFinds
        <5>. QED BY <3>6, <4>1, <4>2, <4>3, <5>1
      <4>4. CASE j # c
        <5>1. PICK i \in 0 .. c - 1 : i = k + 1 /\ i # 0 /\ n - 1 + i = n + k
          BY <1>6, <3>3, <4>1, <4>4
        <5>2. At(w, i) = At(r, n + k)
          BY <3>4, <5>1
        <5>3. j + 1 \in 1 .. c /\ (j + 1) - 1 = i /\ ~(j < 1) /\ k # c - 1
          BY <3>3, <4>1, <4>4, <5>1
        <5>4. u[j + 1] = At(w, i)
          BY <3>5, <5>3
        <5>. QED BY <4>1, <4>2, <4>4, <5>2, <5>3, <5>4
      <4>. QED BY <4>3, <4>4
    <3>9. IsMoved(Window(s), u, c, 1)
      BY <3>7, <3>8 DEF IsMoved
    <3>10. Oldest!MoveToEnd(u, u[1]) = Window(s)
      BY <3>5, <3>6, <3>9, MoveIs
    <3>. QED BY <2>6, <3>6, <3>10
  <2>. QED BY <2>5, <2>6
<1>. QED BY <1>10, <1>11

\* An insertion appends the file, and at the limit the oldest file leaves.
LEMMA InsertionAppends ==
    ASSUME NEW r, WellFormed(r), ~InsertionReadsDangling(r), NEW length \in [Files -> Int],
           NEW f \in Files, f \notin Contents(r), NEW s, s = handleInsertion(r, length, f)
    PROVE  /\ WellFormed(s) /\ s.policy = r.policy
           /\ s.count \in Nat \ {0} /\ At(s, s.count - 1) = f
           /\ Window(s) = Append(IF Len(Window(r)) = MaxFileCount THEN Tail(Window(r))
                                 ELSE Window(r), f)
<1>1. PICK m \in Nat, q \in Seq(Files) :
         /\ m = r.count /\ q = Window(r) /\ Len(q) = m
         /\ \A k \in 1 .. m : q[k] = At(r, k - 1)
  BY WindowIsQueue
<1>2. CASE m # MaxFileCount
  <2>1. /\ WellFormed(s) /\ s.policy = r.policy /\ s.count = m + 1
        /\ \A k \in 0 .. m - 1 : At(s, k) = At(r, k)
        /\ At(s, m) = f
    BY <1>1, <1>2, InsertionBelowLimit DEF Positions
  <2>2. PICK u : u = Append(q, f)
    OBVIOUS
  <2>3. /\ u \in Seq(Files) /\ Len(u) = m + 1
        /\ \A j \in 1 .. m : u[j] = q[j]
        /\ u[m + 1] = f
    BY <1>1, <2>2, AppendProperties
  <2>4. Window(s) \in [1 .. m + 1 -> Files] /\ \A j \in 1 .. m + 1 : Window(s)[j] = At(s, j - 1)
    BY <2>1, WindowIsQueue DEF IsQueue
  <2>5. ASSUME NEW j \in 1 .. m + 1
        PROVE  u[j] = Window(s)[j]
    <3>1. PICK k \in 0 .. m : k = j - 1
      OBVIOUS
    <3>2. k = m => j = m + 1
      BY <3>1
    <3>3. k # m => k \in 0 .. m - 1 /\ j \in 1 .. m
      BY <3>1
    <3>. QED BY <1>1, <2>1, <2>3, <2>4, <3>1, <3>2, <3>3
  <2>6. u = Window(s)
    <3>1. m + 1 \in Nat
      OBVIOUS
    <3>. QED BY <2>3, <2>4, <2>5, <3>1, SameFiles
  <2>7. (m + 1) - 1 = m /\ m + 1 \in Nat \ {0}
    OBVIOUS
  <2>. QED BY <1>1, <1>2, <2>1, <2>2, <2>6, <2>7
<1>3. CASE m = MaxFileCount
  <2>1. /\ WellFormed(s) /\ s.policy = r.policy /\ s.count = m
        /\ \A k \in 0 .. m - 2 : At(s, k) = At(r, k + 1)
        /\ At(s, m - 1) = f
    <3>1. /\ WellFormed(s) /\ s.policy = r.policy /\ s.count = r.count
          /\ \A k \in 0 .. r.count - 2 : At(s, k) = At(r, k + 1)
          /\ At(s, r.count - 1) = f
      <4>1. r.count = MaxFileCount
        BY <1>1, <1>3
      <4>. QED BY <4>1, InsertionAtLimit
    <3>. QED BY <1>1, <3>1
  <2>2. m >= 1 /\ q # << >>
    BY <1>1, <1>3, MaxFileCountAssumption
  <2>3. PICK v \in Seq(Files) : v = Tail(q) /\ Len(v) = m - 1 /\ \A j \in 1 .. m - 1 : v[j] = q[j + 1]
    <3>1. /\ Tail(q) \in Seq(Files) /\ Len(Tail(q)) = Len(q) - 1
          /\ \A j \in 1 .. Len(Tail(q)) : Tail(q)[j] = q[j + 1]
      BY <2>2, HeadTailProperties
    <3>. QED BY <1>1, <3>1
  <2>4. PICK u : u = Append(v, f)
    OBVIOUS
  <2>5. /\ u \in Seq(Files) /\ Len(u) = m
        /\ \A j \in 1 .. m - 1 : u[j] = v[j]
        /\ u[m] = f
    <3>1. /\ u \in Seq(Files) /\ Len(u) = (m - 1) + 1
          /\ \A j \in 1 .. m - 1 : u[j] = v[j]
          /\ u[(m - 1) + 1] = f
      BY <2>3, <2>4, AppendProperties
    <3>. QED BY <1>1, <3>1
  <2>6. Window(s) \in [1 .. m -> Files] /\ \A j \in 1 .. m : Window(s)[j] = At(s, j - 1)
    BY <2>1, WindowIsQueue DEF IsQueue
  <2>7. ASSUME NEW j \in 1 .. m
        PROVE  u[j] = Window(s)[j]
    <3>1. PICK k \in 0 .. m - 1 : k = j - 1
      OBVIOUS
    <3>2. CASE j = m
      BY <2>1, <2>5, <2>6, <3>1, <3>2
    <3>3. CASE j # m
      <4>1. k \in 0 .. m - 2 /\ j \in 1 .. m - 1 /\ j + 1 \in 1 .. m /\ (j + 1) - 1 = k + 1
        BY <3>1, <3>3
      <4>. QED BY <1>1, <2>1, <2>3, <2>5, <2>6, <3>1, <4>1
    <3>. QED BY <3>2, <3>3
  <2>8. u = Window(s)
    BY <2>5, <2>6, <2>7, SameFiles
  <2>. QED BY <1>1, <1>3, <2>1, <2>2, <2>3, <2>4, <2>8
<1>. QED BY <1>2, <1>3

\* Using the youngest file changes nothing.
LEMMA YoungestUsed ==
    ASSUME NEW r, WellFormed(r), r.count \in Nat \ {0}, NEW f, At(r, r.count - 1) = f,
           NEW s, s = handleUsage(r, f)
    PROVE  Window(s) = Window(r)
<1>0. PICK m \in Nat : m = r.count /\ m - 1 \in Positions(r)
  BY DEF Positions
<1>1. f \in Contents(r)
  BY <1>0 DEF Contents
<1>2. CASE IsFIFO(r)
  BY <1>2 DEF handleUsage
<1>3. CASE ~IsFIFO(r)
  <2>1. SearchLength(r, f) = m - 1
    <3>1. SearchLength(r, f) \in Positions(r) /\ At(r, SearchLength(r, f)) = f
      BY <1>1, SearchFinds
    <3>. QED BY <1>0, <3>1 DEF WellFormed
  <2>2. PICK q : q = Window(r) /\ IsQueue(q, m)
    BY <1>0, WindowIsQueue
  <2>3. IsMoved(Window(s), q, m, SearchLength(r, f) + 1)
    BY <1>0, <1>1, <1>3, <2>2, UseMoves
  <2>4. SearchLength(r, f) + 1 = m
    BY <2>1
  <2>5. Window(s) = [j \in 1 .. m |-> IF j = m THEN q[m] ELSE q[IF j < m THEN j ELSE j + 1]]
    BY <2>3, <2>4 DEF IsMoved
  <2>6. \A j \in 1 .. m : (IF j = m THEN q[m] ELSE q[IF j < m THEN j ELSE j + 1]) = q[j]
    <3>1. \A j \in 1 .. m : j # m => j < m
      OBVIOUS
    <3>. QED BY <3>1
  <2>7. q = [j \in 1 .. m |-> q[j]]
    BY <2>2 DEF IsQueue
  <2>. QED BY <2>2, <2>5, <2>6, <2>7
<1>. QED BY <1>2, <1>3

(***************************************************************************)
(* Several uses, one after the other: the first m files of t are files of  *)
(* q in their old order, and the others of t are the ones used.            *)
(***************************************************************************)
IsReordered(t, q, n, m, from) ==
    IsOrdered(from, m, n) /\ m <= n /\ \A j \in 1 .. m : t[j] = q[from[j]]

\* One more use leaves the first files in their order, those before the used one at least.
LEMMA MoveReorders ==
    ASSUME NEW q, NEW n, NEW m, NEW t, NEW from, IsReordered(t, q, n, m, from),
           NEW p \in 1 .. n, NEW u, IsMoved(u, t, n, p)
    PROVE  \E l, to : IsReordered(u, q, n, l, to)
<1>1. /\ m \in Nat /\ n \in Nat /\ m <= n /\ from \in [1 .. m -> 1 .. n]
      /\ \A i, j \in 1 .. m : i < j => from[i] < from[j]
      /\ \A j \in 1 .. m : t[j] = q[from[j]]
  BY DEF IsReordered, IsOrdered
<1>2. \A j \in 1 .. n : u[j] = IF j = n THEN t[p] ELSE t[IF j < p THEN j ELSE j + 1]
  BY DEF IsMoved
<1>3. CASE p > m
  <2>1. ASSUME NEW j \in 1 .. m
        PROVE  u[j] = q[from[j]]
    <3>1. j \in 1 .. n /\ j < p /\ j # n
      BY <1>1, <1>3
    <3>2. u[j] = t[j]
      BY <1>2, <3>1
    <3>. QED BY <1>1, <3>2
  <2>2. IsReordered(u, q, n, m, from)
    BY <2>1 DEF IsReordered
  <2>. QED BY <2>2
<1>4. CASE p <= m
  <2>1. PICK l, to : l = m - 1 /\ to = [j \in 1 .. l |-> from[IF j < p THEN j ELSE j + 1]]
    OBVIOUS
  <2>2. \A j \in 1 .. l : (IF j < p THEN j ELSE j + 1) \in 1 .. m
    BY <1>1, <2>1
  <2>3. l \in Nat /\ l <= n /\ to \in [1 .. l -> 1 .. n]
    BY <1>1, <1>4, <2>1, <2>2
  <2>4. ASSUME NEW i \in 1 .. l, NEW j \in 1 .. l, i < j
        PROVE  to[i] < to[j]
    <3>1. PICK a \in 1 .. m, b \in 1 .. m : /\ a = IF i < p THEN i ELSE i + 1
                                            /\ b = IF j < p THEN j ELSE j + 1
      BY <2>2
    <3>2. a < b
      BY <1>1, <2>1, <2>4, <3>1
    <3>. QED BY <1>1, <2>1, <3>1, <3>2
  <2>5. ASSUME NEW j \in 1 .. l
        PROVE  u[j] = q[to[j]]
    <3>1. PICK a \in 1 .. m : a = IF j < p THEN j ELSE j + 1
      BY <2>2
    <3>2. j \in 1 .. n /\ j # n
      BY <1>1, <2>1
    <3>3. u[j] = t[a]
      BY <1>2, <3>1, <3>2
    <3>4. to[j] = from[a]
      BY <2>1, <3>1
    <3>. QED BY <1>1, <3>3, <3>4
  <2>6. IsReordered(u, q, n, l, to)
    BY <1>1, <2>3, <2>4, <2>5 DEF IsReordered, IsOrdered
  <2>. QED BY <2>6
<1>. QED BY <1>1, <1>3, <1>4

\* Queue t is q with the files of used at its end.
IsRequeued(t, q, used) == t = Oldest!Without(q, Oldest!Range(used)) \o used

\* The files used are at the end of t, the others in front of them.
LEMMA ReorderedIs ==
    ASSUME NEW q, NEW n, IsQueue(q, n), NEW t, IsQueue(t, n), NEW m, NEW from,
           IsReordered(t, q, n, m, from), Oldest!Range(t) = Oldest!Range(q),
           NEW used, used = SubSeq(t, m + 1, n)
    PROVE  IsRequeued(t, q, used)
<1>1. /\ n \in Nat /\ q \in [1 .. n -> Files] /\ \A i, j \in 1 .. n : q[i] = q[j] => i = j
      /\ t \in [1 .. n -> Files] /\ \A i, j \in 1 .. n : t[i] = t[j] => i = j
  BY DEF IsQueue
<1>2. /\ m \in Nat /\ m <= n /\ from \in [1 .. m -> 1 .. n]
      /\ \A j \in 1 .. m : t[j] = q[from[j]]
  BY DEF IsReordered, IsOrdered
<1>3. /\ used \in Seq(Files) /\ Len(used) = n - m
      /\ \A i \in 1 .. n - m : used[i] = t[m + i]
  <2>1. PICK a \in Int : a = m + 1 /\ n - a + 1 = n - m /\ \A i \in a .. n : t[i] \in Files
    BY <1>1, <1>2
  <2>2. /\ SubSeq(t, a, n) \in Seq(Files)
        /\ Len(SubSeq(t, a, n)) = IF a <= n THEN n - a + 1 ELSE 0
        /\ \A i \in 1 .. n - a + 1 : SubSeq(t, a, n)[i] = t[a + i - 1]
    BY <1>1, <2>1, SubSeqProperties
  <2>3. used = SubSeq(t, a, n)
    BY <2>1
  <2>4. Len(used) = n - m
    BY <1>1, <1>2, <2>1, <2>2, <2>3
  <2>5. \A i \in 1 .. n - m : a + i - 1 = m + i
    BY <1>1, <1>2, <2>1
  <2>. QED BY <2>1, <2>2, <2>3, <2>4, <2>5
<1>4. PICK F : F = Oldest!Range(used)
  OBVIOUS
<1>5. \A x : x \in F <=> \E j \in 1 .. n : j > m /\ t[j] = x
  <2>1. DOMAIN used = 1 .. n - m
    BY <1>3, LenProperties
  <2>2. \A x : x \in F <=> \E i \in 1 .. n - m : used[i] = x
    BY <1>4, <2>1 DEF Oldest!Range
  <2>3. \A i \in 1 .. n - m : m + i \in 1 .. n /\ m + i > m
    BY <1>1, <1>2
  <2>4. \A j \in 1 .. n : j > m => j - m \in 1 .. n - m /\ m + (j - m) = j
    BY <1>1, <1>2
  <2>. QED BY <1>3, <2>2, <2>3, <2>4, ZenonT(30)
<1>6. ASSUME NEW i \in 1 .. n
      PROVE  q[i] \notin F <=> \E j \in 1 .. m : from[j] = i
  <2>1. \A j \in 1 .. m : j \in 1 .. n
    BY <1>1, <1>2
  <2>2. ASSUME q[i] \notin F
        PROVE  \E j \in 1 .. m : from[j] = i
    <3>1. q[i] \in Oldest!Range(t)
      BY <1>1 DEF Oldest!Range
    <3>2. PICK j \in 1 .. n : t[j] = q[i]
      BY <1>1, <3>1 DEF Oldest!Range
    <3>3. j \in 1 .. m
      BY <1>1, <1>2, <1>5, <2>2, <3>2
    <3>4. q[from[j]] = q[i] /\ from[j] \in 1 .. n
      BY <1>2, <3>2, <3>3
    <3>. QED BY <1>1, <3>3, <3>4
  <2>3. ASSUME NEW j \in 1 .. m, from[j] = i, q[i] \in F
        PROVE  FALSE
    <3>1. PICK k \in 1 .. n : k > m /\ t[k] = q[i]
      BY <1>5, <2>3
    <3>2. t[j] = q[i] /\ j \in 1 .. n
      BY <1>2, <2>1, <2>3
    <3>3. j = k
      BY <1>1, <3>1, <3>2
    <3>. QED BY <1>2, <3>1, <3>3
  <2>. QED BY <2>2, <2>3
<1>7. IsOrdered(from, m, n) /\ IsKept(from, m, q, n, F)
  BY <1>6 DEF IsReordered, IsKept
<1>8. PICK v : v = Oldest!Without(q, F)
  OBVIOUS
<1>9. v = [j \in 1 .. m |-> q[from[j]]]
  BY <1>7, <1>8, WithoutIs
<1>10. v \in Seq(Files) /\ Len(v) = m /\ \A j \in 1 .. m : v[j] = t[j]
  <2>1. \A j \in 1 .. m : q[from[j]] \in Files
    BY <1>1, <1>2
  <2>. QED BY <1>2, <1>9, <2>1
<1>11. PICK w : w = v \o used
  OBVIOUS
<1>12. /\ w \in Seq(Files) /\ Len(w) = n
       /\ \A j \in 1 .. n : w[j] = IF j <= m THEN v[j] ELSE used[j - m]
  <2>1. /\ w \in Seq(Files) /\ Len(w) = Len(v) + Len(used)
        /\ \A j \in 1 .. Len(v) + Len(used) : w[j] = IF j <= Len(v) THEN v[j] ELSE used[j - Len(v)]
    <3>1. v \in Seq(Files) /\ used \in Seq(Files)
      BY <1>3, <1>10
    <3>. QED BY <1>11, <3>1, ConcatProperties
  <2>2. Len(v) + Len(used) = n /\ Len(v) = m
    BY <1>1, <1>2, <1>3, <1>10
  <2>. QED BY <2>1, <2>2
<1>13. ASSUME NEW j \in 1 .. n
       PROVE  w[j] = t[j]
  <2>1. CASE j <= m
    BY <1>2, <1>10, <1>12, <2>1, SMTT(30)
  <2>2. CASE ~(j <= m)
    <3>1. j - m \in 1 .. n - m /\ m + (j - m) = j
      BY <1>1, <1>2, <2>2
    <3>. QED BY <1>3, <1>12, <2>2, <3>1
  <2>. QED BY <2>1, <2>2
<1>14. w = t
  BY <1>1, <1>12, <1>13, SameFiles
<1>. QED BY <1>4, <1>8, <1>11, <1>14 DEF IsRequeued

\* Reading several files changes nothing under FIFO.
LEMMA ReadsUnderFIFO ==
    ASSUME NEW r, IsFIFO(r), NEW n \in Nat, NEW sample, NEW x, x = SampleUses(r, sample)
    PROVE  x[n] = r
<1>1. x[0] = r /\ \A i \in Nat : x[i + 1] = handleUsage(x[i], x[i].cache[SampledSlot(r, sample[i])])
  BY SampleUsesSteps
<1>2. ASSUME NEW i \in Nat, x[i] = r
      PROVE  x[i + 1] = r
  BY <1>1, <1>2 DEF handleUsage
<1>. SUFFICES ASSUME x[n] # r
              PROVE  FALSE
  OBVIOUS
<1>. DEFINE S == {i \in Nat : x[i] # r}
<1>3. n \in S /\ S \in SUBSET Nat
  OBVIOUS
<1>4. PICK i \in S : \A k \in Nat : k < i => k \notin S
  BY <1>3, LeastOf
<1>5. PICK k \in Nat : i = k + 1
  BY <1>1, <1>4
<1>6. x[k] = r
  BY <1>4, <1>5
<1>. QED BY <1>2, <1>4, <1>5, <1>6

\* Reading several files, under LRU, uses them one after the other.
LEMMA ReadsReorder ==
    ASSUME NEW r, WellFormed(r), NoStrays(r), ~IsFIFO(r), NEW n \in 0 .. r.count, NEW sample \in Samples(r, n),
           NEW x, x = SampleUses(r, sample),
           \A i \in 0 .. n - 1 : x[i].cache[SampledSlot(r, sample[i])] # NoFile
    PROVE  \E m, from : IsReordered(Window(x[n]), Window(r), r.count, m, from)
<1>. DEFINE slot(i) == SampledSlot(r, sample[i])
            Done(i) == \E m, from : IsReordered(Window(x[i]), Window(r), r.count, m, from)
<1>1. n \in Nat /\ r.count \in Nat /\ IsQueue(Window(r), r.count)
  BY WindowIsQueue
<1>2. x[0] = r /\ \A i \in Nat : x[i + 1] = handleUsage(x[i], x[i].cache[slot(i)])
  BY SampleUsesSteps
<1>3. \A i \in 0 .. n - 1 : slot(i) \in Slots /\ x[i].cache[slot(i)] # NoFile
  BY SampledSlots
<1>4. ASSUME NEW i \in 0 .. n
      PROVE  /\ WellFormed(x[i]) /\ NoStrays(x[i]) /\ Contents(x[i]) = Contents(r)
             /\ x[i].policy = r.policy /\ x[i].count = r.count
  <2>1. \A k \in 0 .. i - 1 : x[k].cache[SampledSlot(r, sample[k])] # NoFile
    BY <1>1
  <2>. QED BY <2>1, SampleUsesKeep
<1>5. Done(0)
  <2>1. PICK m, q : m \in Nat /\ m = r.count /\ q = Window(r)
    BY <1>1
  <2>2. PICK from : from = [j \in 1 .. m |-> j]
    OBVIOUS
  <2>3. IsReordered(q, q, m, m, from)
    BY <2>1, <2>2 DEF IsReordered, IsOrdered
  <2>. QED BY <1>2, <2>1, <2>3
<1>. HIDE DEF slot
<1>6. ASSUME NEW i \in 0 .. n - 1, Done(i)
      PROVE  Done(i + 1)
  <2>1. PICK m, from : IsReordered(Window(x[i]), Window(r), r.count, m, from)
    BY <1>6
  <2>2. PICK y, f, z : y = x[i] /\ f = y.cache[slot(i)] /\ z = x[i + 1]
    OBVIOUS
  <2>3. i \in 0 .. n /\ i \in Nat
    BY <1>1
  <2>4. WellFormed(y) /\ y.policy = r.policy /\ y.count = r.count /\ f \in Contents(y)
    <3>1. slot(i) \in Slots /\ y.cache[slot(i)] # NoFile
      BY <1>3, <2>2
    <3>. QED BY <1>4, <2>2, <2>3, <3>1 DEF NoStrays, Values
  <2>5. ~IsFIFO(y) /\ z = handleUsage(y, f)
    BY <1>2, <2>2, <2>3, <2>4 DEF IsFIFO
  <2>6. PICK p \in 1 .. r.count : p = SearchLength(y, f) + 1
    BY <2>4, PlaceInQueue
  <2>7. IsMoved(Window(z), Window(y), r.count, p)
    BY <2>4, <2>5, <2>6, UseMoves
  <2>8. IsReordered(Window(y), Window(r), r.count, m, from)
    BY <2>1, <2>2
  <2>9. \E l, to : IsReordered(Window(z), Window(r), r.count, l, to)
    BY <2>7, <2>8, MoveReorders
  <2>. QED BY <2>2, <2>9
<1>. HIDE DEF Done
<1>7. Done(n)
  <2>. SUFFICES ASSUME ~Done(n)
                PROVE  FALSE
    OBVIOUS
  <2>. DEFINE S == {i \in 0 .. n : ~Done(i)}
  <2>1. n \in S /\ S \in SUBSET Nat
    BY <1>1
  <2>2. PICK i \in S : \A k \in Nat : k < i => k \notin S
    BY <2>1, LeastOf
  <2>3. i # 0
    BY <1>5, <2>2
  <2>4. PICK k \in 0 .. n - 1 : i = k + 1
    BY <1>1, <2>2, <2>3
  <2>5. Done(k)
    BY <1>1, <2>2, <2>4
  <2>. QED BY <1>6, <2>2, <2>4, <2>5
<1>. QED BY <1>7 DEF Done

----------------------------------------------------------------------------
(* What the operations do to the queue.                                    *)

\* A failed step leaves everything but fault alone.
Failed == fault' \in Faults /\ UNCHANGED <<ring, len>>

\* Queue after a step that sets the ring to s.
LEMMA QueueAfter ==
    ASSUME NEW s, ring' = s
    PROVE  Queue' = Window(s)
BY DEF Queue, Window, FromHead

\* openFile of a new file.
LEMMA CreateFollows ==
    ASSUME RingInv, NEW f \in Files, Create(f)
    PROVE  Failed \/ (Oldest!Create(f) /\ ring'.policy = ring.policy)
<1>1. f \notin Contents(ring) /\ WellFormed(ring) /\ NoStrays(ring) /\ len \in [Files -> Int]
  BY StoredIsContents, LengthTypes DEF RingInv, Create
<1>2. CASE InsertionReadsDangling(ring)
  BY <1>2 DEF Create, Fail, Failed, Faults
<1>3. CASE ~InsertionReadsDangling(ring)
  <2>1. PICK s : s = handleInsertion(ring, len, f)
    OBVIOUS
  <2>2. CASE UsageExits(s, f)
    BY <1>3, <2>1, <2>2 DEF Create, Fail, Failed, Faults
  <2>3. CASE ~UsageExits(s, f)
    <3>1. PICK V, u, t : V = InsertionVictims(ring) /\ u = handleUsage(s, f) /\ t = Free(u, V)
      OBVIOUS
    <3>2. ring' = t
      BY <1>3, <2>1, <2>3, <3>1 DEF Create
    <3>3. /\ WellFormed(s) /\ s.policy = ring.policy
          /\ s.count \in Nat \ {0} /\ At(s, s.count - 1) = f
          /\ Window(s) = Append(IF Len(Window(ring)) = MaxFileCount THEN Tail(Window(ring))
                                ELSE Window(ring), f)
      BY <1>1, <1>3, <2>1, InsertionAppends
    <3>4. Window(u) = Window(s)
      BY <3>1, <3>3, YoungestUsed
    <3>5. Window(t) = Window(u) /\ t.policy = ring.policy
      BY <1>1, <1>3, <2>1, <3>1, CreatedRing
    <3>6. f \notin Oldest!Range(Queue)
      BY <1>1, WindowIsQueue DEF Queue
    <3>7. Queue' = Append(IF Len(Queue) = MaxFileCount THEN Tail(Queue) ELSE Queue, f)
      BY <3>2, <3>3, <3>4, <3>5, QueueAfter DEF Queue
    <3>. QED BY <3>2, <3>3, <3>5, <3>6, <3>7 DEF Oldest!Create
  <2>. QED BY <2>2, <2>3
<1>. QED BY <1>2, <1>3

\* openFile of a stored file, get_fileEntry.
LEMMA UseFollows ==
    ASSUME RingInv, NEW f \in Files, Use(f)
    PROVE  Failed \/ (Oldest!Use(f) /\ ring'.policy = ring.policy)
<1>1. f \in Contents(ring) /\ WellFormed(ring)
  BY StoredIsContents DEF RingInv, Use
<1>2. CASE UsageExits(ring, f)
  BY <1>2 DEF Use, Fail, Failed, Faults
<1>3. CASE ~UsageExits(ring, f)
  <2>1. PICK t : t = handleUsage(ring, f)
    OBVIOUS
  <2>2. ring' = t
    BY <1>3, <2>1 DEF Use
  <2>3. t.policy = ring.policy
    BY <1>1, <2>1, UsageKeeps
  <2>4. Queue' = Oldest!Touched(Queue, f)
    <3>1. Window(t) = IF IsFIFO(ring) THEN Window(ring) ELSE Oldest!MoveToEnd(Window(ring), f)
      BY <1>1, <2>1, UseTouches
    <3>2. Queue' = Window(t)
      BY <2>2, QueueAfter
    <3>. QED BY <3>1, <3>2 DEF Oldest!Touched, Queue, IsFIFO
  <2>5. f \in Oldest!Range(Queue)
    BY <1>1, PlaceInQueue DEF Queue
  <2>. QED BY <2>2, <2>3, <2>4, <2>5 DEF Oldest!Use
<1>. QED BY <1>2, <1>3

\* writeFile and appendToFile.
LEMMA EditFollows ==
    ASSUME RingInv, NEW f \in Files, NEW newSize \in 0 .. MaxFileSize, Edit(f, newSize)
    PROVE  Failed \/ (Oldest!Edit(f) /\ ring'.policy = ring.policy)
<1>1. f \in Contents(ring) /\ WellFormed(ring) /\ NoStrays(ring) /\ LengthsOfStored
  BY StoredIsContents DEF RingInv, Edit
<1>2. len \in [Files -> Int] /\ newSize \in Int
  BY <1>1, LengthTypes
<1>3. CASE EditOverruns(ring, len, f, newSize)
  BY <1>3 DEF Edit, Fail, Failed, Faults
<1>4. CASE ~EditOverruns(ring, len, f, newSize) /\ EditExits(ring, len, f, newSize)
  BY <1>4 DEF Edit, Fail, Failed, Faults
<1>5. CASE ~EditOverruns(ring, len, f, newSize) /\ ~EditExits(ring, len, f, newSize)
  <2>1. PICK s, V, t : /\ s = handleEdit(ring, len, f, newSize)
                       /\ V = EditVictims(ring, len, f, newSize) /\ t = Free(s, V)
    OBVIOUS
  <2>2. ring' = t
    BY <1>5, <2>1 DEF Edit
  <2>3. t.policy = ring.policy /\ Window(t) = Window(s)
    BY <1>1, <1>2, <1>5, <2>1, EditedRing
  <2>4. PICK q : q = Window(ring) /\ Len(q) = ring.count
    BY <1>1, WindowIsQueue
  <2>5. PICK k, u :
           /\ k \in 0 .. ring.count
           /\ u = Oldest!Without(q, Oldest!Range(SubSeq(q, 1, k)) \ {f})
           /\ Window(s) = IF IsFIFO(ring) THEN u ELSE Oldest!MoveToEnd(u, f)
    <3>1. IsEdited(Window(s), Window(ring), ring.count, f, ring.policy)
      BY <1>1, <1>2, <1>5, <2>1, EditTouches
    <3>. QED BY <2>4, <3>1 DEF IsEdited, IsFIFO
  <2>6. Queue = q /\ Queue' = Window(s)
    BY <2>2, <2>3, <2>4, QueueAfter DEF Queue
  <2>7. Queue' = Oldest!Touched(u, f)
    BY <2>5, <2>6 DEF Oldest!Touched, IsFIFO
  <2>8. k \in 0 .. Len(Queue)
        /\ Queue' = Oldest!Touched(Oldest!Without(Queue, Oldest!Range(SubSeq(Queue, 1, k)) \ {f}), f)
    BY <2>4, <2>5, <2>6, <2>7
  <2>9. f \in Oldest!Range(Queue)
    BY <1>1, PlaceInQueue DEF Queue
  <2>. QED BY <2>2, <2>3, <2>8, <2>9 DEF Oldest!Edit
<1>. QED BY <1>3, <1>4, <1>5

\* removeFile.
LEMMA RemoveFollows ==
    ASSUME RingInv, NEW f \in Files, Remove(f)
    PROVE  Oldest!Remove(f) /\ ring'.policy = ring.policy
<1>1. f \in Contents(ring) /\ WellFormed(ring) /\ NoStrays(ring) /\ len \in [Files -> Int]
  BY StoredIsContents, LengthTypes DEF RingInv, Remove
<1>2. PICK s, t : s = handleRemoval(ring, len, f) /\ t = Free(s, {f}) /\ ring' = t
  BY DEF Remove
<1>3. t.policy = ring.policy /\ Window(t) = Window(s)
  BY <1>1, <1>2, RemovedRing
<1>4. Queue' = Oldest!Without(Queue, {f})
  <2>1. Window(s) = Oldest!Without(Window(ring), {f})
    BY <1>1, <1>2, RemovalDrops
  <2>. QED BY <1>2, <1>3, <2>1, QueueAfter DEF Queue
<1>5. f \in Oldest!Range(Queue)
  BY <1>1, PlaceInQueue DEF Queue
<1>. QED BY <1>2, <1>3, <1>4, <1>5 DEF Oldest!Remove

\* readNFiles, undisturbed: under FIFO the queue stays, under LRU some files are used.
LEMMA ReadNFollows ==
    ASSUME RingInv, NEW n \in 0 .. MaxFileCount, ReadN(n)
    PROVE  \/ Failed
           \/ Queue' = Queue /\ ring'.policy = ring.policy
           \/ Oldest!UseMany /\ ring'.policy = ring.policy
<1>1. WellFormed(ring) /\ NoStrays(ring)
  BY DEF RingInv
<1>2. PICK m : m = SampleSize(ring, n)
  OBVIOUS
<1>3. m \in 0 .. ring.count /\ m \in Nat
  BY <1>1, <1>2, RingFields DEF SampleSize, WellFormed
<1>. DEFINE slot(x, sample, k) == x[k].cache[SampledSlot(ring, sample[k])]
            Stops(x, sample, k) == \/ slot(x, sample, k) = NoFile
                                   \/ /\ slot(x, sample, k) # NoFile
                                      /\ UsageExits(x[k], slot(x, sample, k))
<1>4. PICK sample, x :
         /\ sample \in Samples(ring, m) /\ x = SampleUses(ring, sample)
         /\ \/ Fail("dangling_read") \/ Fail("exit")
            \/ /\ \A k \in 0 .. m - 1 : ~Stops(x, sample, k)
               /\ ring' = x[m] /\ UNCHANGED <<len, fault>>
  BY <1>2, Zenon DEF ReadN
<1>5. CASE Fail("dangling_read") \/ Fail("exit")
  BY <1>5 DEF Fail, Failed, Faults
<1>6. CASE /\ \A k \in 0 .. m - 1 : ~Stops(x, sample, k)
           /\ ring' = x[m] /\ UNCHANGED <<len, fault>>
  <2>1. \A k \in 0 .. m - 1 : x[k].cache[SampledSlot(ring, sample[k])] # NoFile
    BY <1>6
  <2>2. PICK t : t = x[m]
    OBVIOUS
  <2>3. /\ WellFormed(t) /\ Contents(t) = Contents(ring)
        /\ t.policy = ring.policy /\ t.count = ring.count
    <3>1. m \in 0 .. m
      BY <1>3
    <3>. QED BY <1>1, <1>3, <1>4, <2>1, <2>2, <3>1, SampleUsesKeep
  <2>4. Queue' = Window(t) /\ ring'.policy = ring.policy
    BY <1>6, <2>2, <2>3, QueueAfter
  <2>5. CASE IsFIFO(ring)
    <3>1. t = ring
      BY <1>3, <1>4, <2>2, <2>5, ReadsUnderFIFO
    <3>. QED BY <2>4, <3>1 DEF Queue
  <2>6. CASE ~IsFIFO(ring)
    <3>1. PICK l, from : IsReordered(Window(t), Window(ring), ring.count, l, from)
      BY <1>1, <1>3, <1>4, <2>1, <2>2, <2>6, ReadsReorder
    <3>2. PICK q, w, c : q = Queue /\ w = Window(t) /\ c = ring.count /\ c \in Nat
      BY <1>1, WindowIsQueue
    <3>3. IsQueue(q, c) /\ IsQueue(w, c) /\ Len(w) = c /\ Oldest!Range(w) = Oldest!Range(q)
      BY <1>1, <2>3, <3>2, WindowIsQueue DEF Queue
    <3>4. IsReordered(w, q, c, l, from) /\ l \in 0 .. c
      BY <3>1, <3>2 DEF Queue, IsReordered, IsOrdered
    <3>5. PICK used : used = SubSeq(w, l + 1, c)
      OBVIOUS
    <3>9. IsRequeued(w, q, used)
      BY <3>3, <3>4, <3>5, ReorderedIs
    <3>6. ring.policy # "FIFO"
      BY <2>6 DEF IsFIFO
    <3>7. Oldest!UseMany
      <4>1. Queue' = w /\ Queue = q /\ Len(q) = c
        BY <1>1, <2>4, <3>2, WindowIsQueue DEF Queue
      <4>2. used = SubSeq(Queue', l + 1, Len(Queue')) /\ l \in 0 .. Len(Queue)
        BY <3>3, <3>4, <3>5, <4>1
      <4>3. Queue' = Oldest!Without(Queue, Oldest!Range(used)) \o used
        BY <3>9, <4>1 DEF IsRequeued
      <4>4. Oldest!Range(Queue') = Oldest!Range(Queue)
        BY <3>3, <4>1
      <4>. QED BY <3>6, <4>2, <4>3, <4>4 DEF Oldest!UseMany
    <3>. QED BY <2>4, <3>7
  <2>. QED BY <2>5, <2>6
<1>. QED BY <1>4, <1>5, <1>6

(***************************************************************************)
(* For any number of files, any limits and either policy, each operation   *)
(* does to the queue what the policy says of it: a use moves the file to   *)
(* the end under LRU and nothing under FIFO, an edit takes the oldest      *)
(* other files and then uses the file, a creation takes the oldest file of *)
(* a full store and no other, a removal takes its file only                *)
(* (files.c:445-474, 516-643; caching.c:77-377).                           *)
(***************************************************************************)
THEOREM OperationsAlwaysFollowPolicy == Spec => OperationsFollowPolicy
<1>. DEFINE Follows(f) == /\ Create(f) => Oldest!Create(f)
                          /\ Use(f) => Oldest!Use(f)
                          /\ Remove(f) => Oldest!Remove(f)
                          /\ (\E newSize \in 0 .. MaxFileSize : Edit(f, newSize)) => Oldest!Edit(f)
            Obeys == fault' = NoFault => \A f \in Files : Follows(f)
<1>1. RingInv => Obeys
  <2>. SUFFICES ASSUME RingInv, fault' = NoFault, NEW f \in Files
                PROVE  Follows(f)
    OBVIOUS
  <2>1. ~Failed
    BY NoFaultAssumption DEF Failed
  <2>2. Create(f) => Oldest!Create(f)
    BY <2>1, CreateFollows
  <2>3. Use(f) => Oldest!Use(f)
    BY <2>1, UseFollows
  <2>4. Remove(f) => Oldest!Remove(f)
    BY RemoveFollows
  <2>5. ASSUME NEW newSize \in 0 .. MaxFileSize, Edit(f, newSize)
        PROVE  Oldest!Edit(f)
    BY <2>1, <2>5, EditFollows
  <2>. QED BY <2>2, <2>3, <2>4, <2>5
<1>2. RingInv => [Obeys]_vars
  BY <1>1
<1>. HIDE DEF Obeys
<1>3. Spec => [][Obeys]_vars
  BY <1>2, RingInvariance, PTL
<1>. QED BY <1>3 DEF OperationsFollowPolicy, Obeys, Follows

(***************************************************************************)
(* The ring of caching.c implements the queue of the policy, step by step, *)
(* for any number of files and any limits: files leave oldest first, where *)
(* a file is as old as its creation under FIFO and as its last use under   *)
(* LRU, and the file being edited does not leave (caching.c:77-377).       *)
(***************************************************************************)
THEOREM RingImplementsQueue == Spec => EvictsOldestFirst
<1>1. Init => Oldest!Init
  <2>. SUFFICES ASSUME Init
                PROVE  Oldest!Init
    OBVIOUS
  <2>1. RingInv
    BY RingInvInit
  <2>2. ring.count = 0 /\ ring.policy \in CachePolicies
    BY DEF Init, initCachingSystem
  <2>3. Queue \in Seq(Files) /\ Len(Queue) = 0
    BY <2>1, <2>2, WindowIsQueue DEF RingInv, Queue
  <2>4. Queue = << >>
    BY <2>3, EmptySeq
  <2>. QED BY <2>2, <2>4 DEF Oldest!Init
<1>2. RingInv /\ [Next]_vars => [Oldest!Next]_<<Queue, ring.policy>>
  <2>. SUFFICES ASSUME RingInv, [Next]_vars
                PROVE  [Oldest!Next]_<<Queue, ring.policy>>
    OBVIOUS
  <2>1. UNCHANGED ring => UNCHANGED <<Queue, ring.policy>>
    BY QueueAfter DEF Queue
  <2>2. Failed => UNCHANGED <<Queue, ring.policy>>
    BY <2>1 DEF Failed
  <2>3. CASE UNCHANGED vars
    BY <2>1, <2>3 DEF vars
  <2>4. ASSUME NEW f \in Files, Create(f)
        PROVE  [Oldest!Next]_<<Queue, ring.policy>>
    BY <2>2, <2>4, CreateFollows DEF Oldest!Next
  <2>5. ASSUME NEW f \in Files, Use(f)
        PROVE  [Oldest!Next]_<<Queue, ring.policy>>
    BY <2>2, <2>5, UseFollows DEF Oldest!Next
  <2>6. ASSUME NEW f \in Files, Remove(f)
        PROVE  [Oldest!Next]_<<Queue, ring.policy>>
    BY <2>6, RemoveFollows DEF Oldest!Next
  <2>7. ASSUME NEW f \in Files, NEW newSize \in 0 .. MaxFileSize, Edit(f, newSize)
        PROVE  [Oldest!Next]_<<Queue, ring.policy>>
    BY <2>2, <2>7, EditFollows DEF Oldest!Next
  <2>8. ASSUME NEW n \in 0 .. MaxFileCount, ReadN(n)
        PROVE  [Oldest!Next]_<<Queue, ring.policy>>
    BY <2>2, <2>8, ReadNFollows DEF Oldest!Next
  <2>. QED BY <2>3, <2>4, <2>5, <2>6, <2>7, <2>8 DEF Next
<1>. QED BY <1>1, <1>2, RingInvariance, PTL DEF Spec, EvictsOldestFirst, Oldest!Spec

----------------------------------------------------------------------------
(* The bytes stored.                                                       *)

\* What the files of S have by the lengths w.
Bytes(w, S) == MapThenSumSet(LAMBDA f : w[f], S)

\* g gives the bytes of every part of S: any file can be taken off first.
IsSum(g, S, w) ==
    /\ g \in [SUBSET S -> Int] /\ g[{}] = 0
    /\ \A T \in SUBSET S : \A x \in T : g[T] = w[x] + g[T \ {x}]

\* One file more.
LEMMA OneMoreSum ==
    ASSUME NEW w \in [Files -> Int], NEW S \in SUBSET Files, NEW a \in S,
           NEW g, IsSum(g, S \ {a}, w)
    PROVE  \E h : IsSum(h, S, w)
<1>1. /\ g \in [SUBSET (S \ {a}) -> Int] /\ g[{}] = 0
      /\ \A T \in SUBSET (S \ {a}) : \A x \in T : g[T] = w[x] + g[T \ {x}]
  BY DEF IsSum
<1>2. PICK h : h = [T \in SUBSET S |-> IF a \in T THEN w[a] + g[T \ {a}] ELSE g[T]]
  OBVIOUS
<1>3. \A T \in SUBSET S : T \ {a} \in SUBSET (S \ {a}) /\ g[T \ {a}] \in Int
  BY <1>1
<1>4. h \in [SUBSET S -> Int]
  <2>1. \A T \in SUBSET S : a \notin T => g[T] \in Int
    BY <1>1
  <2>2. w[a] \in Int
    OBVIOUS
  <2>. QED BY <1>2, <1>3, <2>1, <2>2
<1>5. h[{}] = 0
  BY <1>1, <1>2
<1>6. ASSUME NEW T \in SUBSET S, NEW x \in T
      PROVE  h[T] = w[x] + h[T \ {x}]
  <2>1. T \ {x} \in SUBSET S /\ x \in Files
    OBVIOUS
  <2>2. CASE x = a
    BY <1>2, <2>1, <2>2
  <2>3. CASE x # a /\ a \in T
    <3>1. PICK U \in SUBSET (S \ {a}) : U = T \ {a} /\ x \in U
      BY <2>3
    <3>2. (T \ {x}) \ {a} = U \ {x}
      BY <3>1
    <3>3. g[U] = w[x] + g[U \ {x}]
      BY <1>1, <3>1
    <3>4. h[T] = w[a] + g[U] /\ h[T \ {x}] = w[a] + g[U \ {x}]
      BY <1>2, <2>1, <2>3, <3>1, <3>2
    <3>5. U \ {x} \in SUBSET (S \ {a}) /\ g[U \ {x}] \in Int /\ w[x] \in Int /\ w[a] \in Int
      BY <1>1, <2>1
    <3>. QED BY <3>3, <3>4, <3>5
  <2>4. CASE a \notin T
    <3>1. T \in SUBSET (S \ {a}) /\ a \notin T \ {x}
      BY <2>4
    <3>2. g[T] = w[x] + g[T \ {x}]
      BY <1>1, <3>1
    <3>3. h[T] = g[T] /\ h[T \ {x}] = g[T \ {x}]
      BY <1>2, <2>1, <2>4, <3>1
    <3>. QED BY <3>2, <3>3
  <2>. QED BY <2>2, <2>3, <2>4
<1>7. IsSum(h, S, w)
  BY <1>4, <1>5, <1>6 DEF IsSum
<1>. QED BY <1>7

\* Finitely many files can be summed.
LEMMA SumsExist ==
    ASSUME NEW w \in [Files -> Int], NEW S \in SUBSET Files, IsFiniteSet(S)
    PROVE  \E g : IsSum(g, S, w)
<1>. DEFINE Bad(T) == T \in SUBSET Files /\ IsFiniteSet(T) /\ ~ \E g : IsSum(g, T, w)
            K == {k \in Nat : \E T : Bad(T) /\ Cardinality(T) = k}
<1>. SUFFICES ASSUME Bad(S)
              PROVE  FALSE
  OBVIOUS
<1>1. \A T : Bad(T) => Cardinality(T) \in Nat
  BY FS_CardinalityType
<1>. HIDE DEF Bad
<1>2. Cardinality(S) \in K /\ K \in SUBSET Nat
  BY <1>1
<1>3. PICK k \in K : \A i \in Nat : i < k => i \notin K
  BY <1>2, LeastOf
<1>4. PICK T : Bad(T) /\ Cardinality(T) = k
  BY <1>3
<1>5. T \in SUBSET Files /\ IsFiniteSet(T) /\ ~ \E g : IsSum(g, T, w)
  BY <1>4 DEF Bad
<1>6. T # {}
  <2>1. PICK g : g = [U \in SUBSET {} |-> 0]
    OBVIOUS
  <2>2. IsSum(g, {}, w)
    BY <2>1 DEF IsSum
  <2>. QED BY <1>5, <2>2
<1>7. PICK a \in T : TRUE
  BY <1>6
<1>8. PICK U : U = T \ {a} /\ U \in SUBSET Files /\ IsFiniteSet(U) /\ Cardinality(U) = k - 1
  BY <1>4, <1>5, <1>7, FS_RemoveElement
<1>9. ~Bad(U)
  <2>1. ASSUME Bad(U)
        PROVE  FALSE
    <3>1. k - 1 \in Nat
      BY <1>1, <1>8, <2>1
    <3>2. k - 1 \in K
      BY <1>8, <2>1, <3>1
    <3>. QED BY <1>2, <1>3, <3>1, <3>2
  <2>. QED BY <2>1
<1>10. PICK g : IsSum(g, U, w)
  BY <1>8, <1>9 DEF Bad
<1>11. \E h : IsSum(h, T, w)
  BY <1>5, <1>7, <1>8, <1>10, OneMoreSum
<1>. QED BY <1>5, <1>11

\* And that is the sum of FiniteSetsExt, whichever file it takes off first.
LEMMA SumIs ==
    ASSUME NEW w \in [Files -> Int], NEW S \in SUBSET Files, IsFiniteSet(S),
           NEW g, IsSum(g, S, w)
    PROVE  Bytes(w, S) = g[S]
<1>1. /\ g \in [SUBSET S -> Int] /\ g[{}] = 0
      /\ \A T \in SUBSET S : \A x \in T : g[T] = w[x] + g[T \ {x}]
  BY DEF IsSum
<1>. DEFINE one(T) == CHOOSE x \in T : TRUE
            sum(v, T) == IF T = {} THEN 0 ELSE w[one(T)] + v[T \ {one(T)}]
<1>2. PICK v : Bytes(w, S) = v[S] /\ v = CHOOSE u : u = [T \in SUBSET S |-> sum(u, T)]
  BY DEF Bytes, MapThenSumSet, MapThenFoldSet
<1>3. \A T \in SUBSET S : T # {} => one(T) \in T
  OBVIOUS
<1>. HIDE DEF one
<1>4. g = [T \in SUBSET S |-> sum(g, T)]
  BY <1>1, <1>3
<1>5. v = [T \in SUBSET S |-> sum(v, T)]
  <2>. HIDE DEF sum
  <2>. QED BY <1>2, <1>4
<1>6. ASSUME v[S] # g[S]
      PROVE  FALSE
  <2>. DEFINE K == {k \in Nat : \E T \in SUBSET S : Cardinality(T) = k /\ v[T] # g[T]}
  <2>1. \A T \in SUBSET S : IsFiniteSet(T) /\ Cardinality(T) \in Nat
    BY FS_Subset, FS_CardinalityType
  <2>2. Cardinality(S) \in K /\ K \in SUBSET Nat
    BY <1>6, <2>1
  <2>3. PICK k \in K : \A i \in Nat : i < k => i \notin K
    BY <2>2, LeastOf
  <2>4. PICK T \in SUBSET S : Cardinality(T) = k /\ v[T] # g[T]
    BY <2>3
  <2>5. v[T] = sum(v, T) /\ g[T] = sum(g, T)
    <3>. HIDE DEF sum
    <3>. QED BY <1>4, <1>5
  <2>6. T # {}
    BY <2>4, <2>5
  <2>7. PICK x \in T : x = one(T)
    BY <1>3, <2>6
  <2>8. v[T] = w[x] + v[T \ {x}] /\ g[T] = w[x] + g[T \ {x}]
    BY <2>5, <2>6, <2>7
  <2>9. PICK U \in SUBSET S : U = T \ {x} /\ Cardinality(U) = k - 1 /\ k - 1 \in Nat
    <3>1. IsFiniteSet(T) /\ IsFiniteSet(T \ {x}) /\ Cardinality(T \ {x}) = Cardinality(T) - 1
      BY <2>1, FS_RemoveElement
    <3>2. Cardinality(T \ {x}) \in Nat
      BY <2>1
    <3>. QED BY <2>4, <3>1, <3>2
  <2>10. v[U] = g[U]
    <3>1. k - 1 \notin K
      BY <2>2, <2>3, <2>9
    <3>. QED BY <2>9, <3>1
  <2>. QED BY <2>4, <2>8, <2>9, <2>10
<1>. QED BY <1>2, <1>6

\* Every file counts with its length, and nothing else counts.
LEMMA BytesSteps ==
    ASSUME NEW w \in [Files -> Int], NEW S \in SUBSET Files, IsFiniteSet(S)
    PROVE  /\ Bytes(w, S) \in Int
           /\ \A x \in S : Bytes(w, S) = w[x] + Bytes(w, S \ {x})
<1>1. PICK g : IsSum(g, S, w)
  BY SumsExist
<1>2. Bytes(w, S) = g[S] /\ g[S] \in Int
  BY <1>1, SumIs DEF IsSum
<1>3. ASSUME NEW x \in S
      PROVE  Bytes(w, S) = w[x] + Bytes(w, S \ {x})
  <2>1. PICK U \in SUBSET Files : U = S \ {x} /\ IsFiniteSet(U)
    BY FS_RemoveElement
  <2>2. PICK h : h = [T \in SUBSET U |-> g[T]]
    OBVIOUS
  <2>3. IsSum(h, U, w)
    <3>1. /\ g \in [SUBSET S -> Int] /\ g[{}] = 0
          /\ \A T \in SUBSET S : \A y \in T : g[T] = w[y] + g[T \ {y}]
      BY <1>1 DEF IsSum
    <3>2. \A T \in SUBSET U : T \in SUBSET S
      BY <2>1
    <3>3. \A T \in SUBSET U : h[T] = g[T]
      BY <2>2
    <3>4. \A T \in SUBSET U : \A y \in T : T \ {y} \in SUBSET U
      OBVIOUS
    <3>5. h \in [SUBSET U -> Int]
      BY <2>2, <3>1, <3>2
    <3>. QED BY <3>1, <3>2, <3>3, <3>4, <3>5 DEF IsSum
  <2>4. Bytes(w, U) = h[U]
    BY <2>1, <2>3, SumIs
  <2>5. h[U] = g[U] /\ g[S] = w[x] + g[S \ {x}]
    BY <1>1, <2>2 DEF IsSum
  <2>. QED BY <1>2, <2>1, <2>4, <2>5
<1>. QED BY <1>2, <1>3

\* The lengths of other files do not count.
LEMMA BytesAgree ==
    ASSUME NEW w \in [Files -> Int], NEW v \in [Files -> Int],
           NEW S \in SUBSET Files, IsFiniteSet(S), \A f \in S : v[f] = w[f]
    PROVE  Bytes(v, S) = Bytes(w, S)
<1>1. PICK g : IsSum(g, S, w)
  BY SumsExist
<1>2. IsSum(g, S, v)
  BY <1>1 DEF IsSum
<1>. QED BY <1>1, <1>2, SumIs


\* What never changes from one number to the next is what it was at 0.
LEMMA SameAlong ==
    ASSUME NEW m \in Nat, NEW d, \A k \in 0 .. m - 1 : d[k + 1] = d[k]
    PROVE  \A k \in 0 .. m : d[k] = d[0]
<1>. DEFINE K == {k \in 0 .. m : d[k] # d[0]}
<1>. SUFFICES ASSUME K # {}
              PROVE  FALSE
  OBVIOUS
<1>1. K \in SUBSET Nat
  OBVIOUS
<1>2. PICK k \in K : \A i \in Nat : i < k => i \notin K
  BY <1>1, LeastOf
<1>3. k # 0 /\ k - 1 \in 0 .. m - 1 /\ (k - 1) + 1 = k
  OBVIOUS
<1>4. d[k - 1] = d[0]
  BY <1>2, <1>3
<1>. QED BY <1>2, <1>3, <1>4

\* The running total against the bytes of the files from head to tail.
Excess(r, w) == r.size - Bytes(w, Contents(r))

\* That is the error of the total, before a step and after it.
LEMMA ErrorIsExcess ==
    ASSUME WellFormed(ring)
    PROVE  SizeError = Excess(ring, len)
<1>1. Stored \cap Files = Contents(ring)
  BY StoredIsContents, ContentsOfWindow
<1>. QED BY <1>1 DEF SizeError, StoredBytes, Excess, Bytes

\* After a step it is that of the new ring, by the new lengths.
LEMMA ErrorAfter ==
    ASSUME NEW s, ring' = s, WellFormed(s), NEW w, len' = w
    PROVE  SizeError' = Excess(s, w)
<1>1. Queue' = Window(s)
  BY QueueAfter
<1>2. Stored' = Contents(s)
  BY <1>1, ContentsOfWindow DEF Stored
<1>3. (Stored \cap Files)' = Contents(s)
  BY <1>2, ContentsOfWindow
<1>4. StoredBytes' = Bytes(len', (Stored \cap Files)')
  BY DEF StoredBytes, Bytes, MapThenSumSet, MapThenFoldSet
<1>5. SizeError' = ring'.size - StoredBytes'
  BY DEF SizeError
<1>. QED BY <1>3, <1>4, <1>5 DEF Excess

\* The files an edit has looked at after k slots, but for the one it is about.
LookedAt(r, f, k) == {At(r, i) : i \in 0 .. k - 1} \ {f}

\* By then the total e has lost what those files have.
TotalAfter(e, r, w, f, newSize, n) ==
    e[n] = r.size + newSize - w[f] - Bytes(w, Contents(r))
           + Bytes(w, Contents(r) \ LookedAt(r, f, n))

\* What the eviction loop takes off the total is what the files it takes out have.
LEMMA LoopTakesBytes ==
    ASSUME NEW r, WellFormed(r), NEW w \in [Files -> Int], NEW f \in Contents(r),
           NEW newSize \in Int, NEW e, e = ExpectedSize(r, w, f, newSize), NEW n \in 0 .. r.count
    PROVE  TotalAfter(e, r, w, f, newSize, n)
<1>1. PICK m, C : /\ m = r.count /\ m \in Nat /\ C = Contents(r)
                  /\ C \in SUBSET Files /\ IsFiniteSet(C) /\ r.size \in Int
  BY ContentsOfWindow, RingFields DEF WellFormed
<1>2. PICK rest : rest = [k \in 0 .. m |-> C \ LookedAt(r, f, k)]
  OBVIOUS
<1>3. \A k \in 0 .. m : rest[k] \in SUBSET Files /\ IsFiniteSet(rest[k]) /\ Bytes(w, rest[k]) \in Int
  <2>1. \A k \in 0 .. m : rest[k] \subseteq C
    BY <1>2
  <2>. QED BY <1>1, <2>1, FS_Subset, BytesSteps
<1>4. /\ e[0] = r.size + newSize - w[f]
      /\ \A k \in Nat : e[k + 1] = e[k] - (IF At(r, k) = f THEN 0 ELSE w[At(r, k)])
  BY ExpectedSizeSteps DEF At
<1>5. \A k \in 0 .. m : e[k] \in Int
  BY <1>1, ExpectedSizeType, ContentsOfWindow
<1>6. PICK d : d = [k \in 0 .. m |-> e[k] - Bytes(w, rest[k])]
  OBVIOUS
<1>7. ASSUME NEW k \in 0 .. m - 1
      PROVE  d[k + 1] = d[k]
  <2>1. k \in 0 .. m /\ k + 1 \in 0 .. m /\ k \in Nat
    BY <1>1
  <2>2. PICK x \in C : x = At(r, k) /\ x \in Files
    BY <1>1 DEF Contents, Positions
  <2>3. LookedAt(r, f, k + 1) = (LookedAt(r, f, k) \cup {x}) \ {f}
    <3>1. 0 .. (k + 1) - 1 = (0 .. k - 1) \cup {k}
      BY <2>1
    <3>. QED BY <2>2, <3>1 DEF LookedAt
  <2>4. CASE x = f
    <3>1. LookedAt(r, f, k + 1) = LookedAt(r, f, k)
      BY <2>3, <2>4 DEF LookedAt
    <3>2. rest[k + 1] = rest[k]
      BY <1>2, <2>1, <3>1
    <3>3. e[k + 1] = e[k]
      <4>1. At(r, k) = f /\ e[k] \in Int
        BY <1>5, <2>1, <2>2, <2>4
      <4>2. e[k + 1] = e[k] - (IF At(r, k) = f THEN 0 ELSE w[At(r, k)])
        BY <1>4, <2>1
      <4>. QED BY <4>1, <4>2
    <3>. QED BY <1>6, <2>1, <3>2, <3>3
  <2>5. CASE x # f
    <3>1. x \notin LookedAt(r, f, k)
      <4>1. \A i \in 0 .. k - 1 : At(r, i) # x
        BY <1>1, <2>1, <2>2 DEF WellFormed, Positions
      <4>. QED BY <4>1 DEF LookedAt
    <3>2. x \in rest[k] /\ rest[k + 1] = rest[k] \ {x}
      BY <1>2, <2>1, <2>3, <2>5, <3>1 DEF LookedAt
    <3>3. Bytes(w, rest[k]) = w[x] + Bytes(w, rest[k + 1])
      BY <1>3, <2>1, <3>2, BytesSteps
    <3>4. e[k + 1] = e[k] - w[x]
      BY <1>4, <2>1, <2>2, <2>5
    <3>5. /\ e[k] \in Int /\ w[x] \in Int
          /\ Bytes(w, rest[k]) \in Int /\ Bytes(w, rest[k + 1]) \in Int
      BY <1>3, <1>5, <2>1, <2>2
    <3>. QED BY <1>6, <2>1, <3>3, <3>4, <3>5
  <2>. QED BY <2>4, <2>5
<1>8. d[n] = d[0]
  BY <1>1, <1>7, SameAlong
<1>9. rest[0] = C
  <2>1. LookedAt(r, f, 0) = {}
    BY DEF LookedAt
  <2>. QED BY <1>1, <1>2, <2>1
<1>10. n \in 0 .. m /\ 0 \in 0 .. m
  BY <1>1
<1>11. e[n] - Bytes(w, rest[n]) = e[0] - Bytes(w, C)
  BY <1>6, <1>8, <1>9, <1>10
<1>12. rest[n] = Contents(r) \ LookedAt(r, f, n)
  BY <1>1, <1>2, <1>10
<1>13. /\ e[n] \in Int /\ Bytes(w, rest[n]) \in Int /\ Bytes(w, C) \in Int
  BY <1>3, <1>5, <1>9, <1>10
<1>14. w[f] \in Int
  BY <1>1
<1>15. PICK size : size = r.size /\ size \in Int
  BY <1>1
<1>16. e[n] = size + newSize - w[f] - Bytes(w, C) + Bytes(w, rest[n])
  BY <1>4, <1>11, <1>13, <1>14, <1>15
<1>. QED BY <1>1, <1>12, <1>15, <1>16 DEF TotalAfter

\* The bytes after one file got another length and the others kept theirs.
LEMMA BytesOfEdited ==
    ASSUME NEW w \in [Files -> Int], NEW v \in [Files -> Int],
           NEW S \in SUBSET Files, IsFiniteSet(S), NEW f \in S,
           \A g \in S \ {f} : v[g] = w[g]
    PROVE  Bytes(v, S) = Bytes(w, S) - w[f] + v[f]
<1>1. PICK U \in SUBSET Files : U = S \ {f} /\ IsFiniteSet(U)
  BY FS_RemoveElement
<1>2. Bytes(v, U) = Bytes(w, U) /\ Bytes(w, U) \in Int
  BY <1>1, BytesAgree, BytesSteps
<1>3. Bytes(v, S) = v[f] + Bytes(v, U) /\ Bytes(w, S) = w[f] + Bytes(w, U)
  BY <1>1, BytesSteps
<1>4. v[f] \in Int /\ w[f] \in Int
  OBVIOUS
<1>. QED BY <1>2, <1>3, <1>4

\* An edit adds to the total what it adds to the bytes.
LEMMA EditCounts ==
    ASSUME NEW r, WellFormed(r), NEW w \in [Files -> Int], NEW f \in Contents(r),
           NEW newSize \in Int, ~EditOverruns(r, w, f, newSize),
           NoStrays(r), NEW V, V = EditVictims(r, w, f, newSize),
           NEW s, s = Free(handleEdit(r, w, f, newSize), V), NEW v \in [Files -> Int],
           v[f] = newSize, \A g \in Files \ (V \cup {f}) : v[g] = w[g]
    PROVE  Excess(s, v) = Excess(r, w)
<1>1. PICK n, e : n = EditScan(r, w, f, newSize) /\ e = ExpectedSize(r, w, f, newSize)
  OBVIOUS
<1>2. PICK C : C = Contents(r) /\ C \in SUBSET Files /\ IsFiniteSet(C) /\ f \in C
  BY ContentsOfWindow
<1>3. Contents(s) = C \ V /\ V \subseteq C \ {f} /\ s.size = e[n]
  BY <1>1, <1>2, EditedRing
<1>4. n \in 0 .. r.count
  BY <1>1, <1>2, EditScanStops
<1>5. V = LookedAt(r, f, n)
  BY <1>1 DEF EditVictims, LookedAt, At
<1>6. PICK D : D = C \ V /\ D \in SUBSET Files /\ IsFiniteSet(D) /\ f \in D
  BY <1>2, <1>3, FS_Subset
<1>7. e[n] = r.size + newSize - w[f] - Bytes(w, C) + Bytes(w, D)
  <2>1. TotalAfter(e, r, w, f, newSize, n)
    BY <1>1, <1>4, LoopTakesBytes
  <2>. QED BY <1>2, <1>5, <1>6, <2>1 DEF TotalAfter
<1>8. Bytes(v, D) = Bytes(w, D) - w[f] + newSize
  <2>1. \A g \in D \ {f} : v[g] = w[g]
    BY <1>6
  <2>. QED BY <1>6, <2>1, BytesOfEdited
<1>9. Bytes(w, C) \in Int /\ Bytes(w, D) \in Int /\ w[f] \in Int /\ r.size \in Int
  BY <1>2, <1>6, BytesSteps, RingFields DEF WellFormed
<1>10. PICK size, t : size = r.size /\ t = s.size /\ size \in Int
  BY <1>9
<1>11. t - Bytes(v, D) = size - Bytes(w, C)
  BY <1>3, <1>7, <1>8, <1>9, <1>10
<1>. QED BY <1>2, <1>3, <1>6, <1>10, <1>11 DEF Excess

\* What a step has to show: that the total follows the bytes from the one ring to the other.
LEMMA ErrorKept ==
    ASSUME RingInv, NEW s, ring' = s, WellFormed(s), NEW w, len' = w,
           Excess(s, w) = Excess(ring, len)
    PROVE  SizeError' = SizeError
BY ErrorIsExcess, ErrorAfter DEF RingInv

\* A step that leaves the ring and the lengths alone.
LEMMA NothingCounts ==
    ASSUME RingInv, UNCHANGED <<ring, len>>
    PROVE  SizeError' = SizeError
<1>1. PICK s, w : s = ring /\ w = len
  OBVIOUS
<1>2. ring' = s /\ len' = w /\ WellFormed(s) /\ Excess(s, w) = Excess(ring, len)
  BY <1>1 DEF RingInv
<1>. QED BY <1>2, ErrorKept

\* openFile of a new file, below the limit: it has no bytes yet.
LEMMA CreateCounts ==
    ASSUME RingInv, NEW f \in Files, Create(f), ~AtCountLimit(ring)
    PROVE  SizeError' = SizeError
<1>1. /\ f \notin Contents(ring) /\ WellFormed(ring) /\ NoStrays(ring) /\ LengthsOfStored
      /\ ring.count \in Nat
  BY StoredIsContents, RingFields DEF RingInv, Create, WellFormed
<1>2. len \in [Files -> Int]
  BY <1>1, LengthTypes
<1>3. ~InsertionReadsDangling(ring) /\ InsertionVictims(ring) = {}
  BY DEF InsertionReadsDangling, InsertionVictims
<1>5. PICK s, V, t : /\ s = handleInsertion(ring, len, f) /\ V = InsertionVictims(ring)
                     /\ t = Free(handleUsage(s, f), V)
  OBVIOUS
<1>6. CASE UsageExits(s, f)
  BY <1>3, <1>5, <1>6, NothingCounts DEF Create, Fail
<1>7. CASE ~UsageExits(s, f)
  <2>1. ring' = t /\ len' = [g \in Files |-> len[g]]
    BY <1>3, <1>5, <1>7 DEF Create
  <2>2. len' = len
    BY <1>2, <2>1
  <2>3. WellFormed(t) /\ Contents(t) = (Contents(ring) \cup {f}) \ V /\ (V = {} => t.size = ring.size)
    <3>1. PICK u : u = handleUsage(s, f) /\ t = Free(u, V)
      BY <1>5
    <3>. QED BY <1>1, <1>2, <1>3, <1>5, <3>1, CreatedRing
  <2>4. WellFormed(t) /\ Contents(t) = Contents(ring) \cup {f} /\ t.size = ring.size
    BY <1>3, <1>5, <2>3
  <2>5. Bytes(len, Contents(t)) = Bytes(len, Contents(ring))
    <3>1. PICK C, D : C = Contents(ring) /\ D = Contents(t) /\ D \in SUBSET Files /\ IsFiniteSet(D)
      BY <2>4, ContentsOfWindow
    <3>2. f \in D /\ D \ {f} = C
      BY <1>1, <2>4, <3>1
    <3>3. Bytes(len, D) = len[f] + Bytes(len, C) /\ len[f] = 0
      BY <1>1, <1>2, <3>1, <3>2, BytesSteps DEF LengthsOfStored
    <3>4. Bytes(len, C) \in Int
      BY <1>1, <1>2, <3>1, ContentsOfWindow, BytesSteps
    <3>. QED BY <3>1, <3>3, <3>4
  <2>6. Excess(t, len) = Excess(ring, len)
    BY <2>4, <2>5 DEF Excess
  <2>. QED BY <2>1, <2>2, <2>4, <2>6, ErrorKept
<1>. QED BY <1>6, <1>7

\* openFile of a stored file, get_fileEntry.
LEMMA UseCounts ==
    ASSUME RingInv, NEW f \in Files, Use(f)
    PROVE  SizeError' = SizeError
<1>1. f \in Contents(ring) /\ WellFormed(ring)
  BY StoredIsContents DEF RingInv, Use
<1>2. CASE UsageExits(ring, f)
  BY <1>2, NothingCounts DEF Use, Fail
<1>3. CASE ~UsageExits(ring, f)
  <2>1. PICK t : t = handleUsage(ring, f)
    OBVIOUS
  <2>2. ring' = t /\ len' = len
    BY <1>3, <2>1 DEF Use
  <2>3. WellFormed(t) /\ Excess(t, len) = Excess(ring, len)
    BY <1>1, <2>1, UsageKeeps DEF Excess
  <2>. QED BY <2>2, <2>3, ErrorKept
<1>. QED BY <1>2, <1>3

\* writeFile and appendToFile.
LEMMA EditsCount ==
    ASSUME RingInv, NEW f \in Files, NEW newSize \in 0 .. MaxFileSize, Edit(f, newSize)
    PROVE  SizeError' = SizeError
<1>1. f \in Contents(ring) /\ WellFormed(ring) /\ NoStrays(ring) /\ LengthsOfStored
  BY StoredIsContents DEF RingInv, Edit
<1>2. len \in [Files -> Int] /\ newSize \in Int
  BY <1>1, LengthTypes
<1>3. CASE \/ EditOverruns(ring, len, f, newSize)
           \/ EditExits(ring, len, f, newSize)
  BY <1>3, NothingCounts DEF Edit, Fail
<1>4. CASE ~EditOverruns(ring, len, f, newSize) /\ ~EditExits(ring, len, f, newSize)
  <2>1. PICK V, s : V = EditVictims(ring, len, f, newSize) /\ s = Free(handleEdit(ring, len, f, newSize), V)
    OBVIOUS
  <2>2. PICK w : w = [g \in Files |-> IF g = f THEN newSize ELSE IF g \in V THEN 0 ELSE len[g]]
    OBVIOUS
  <2>3. ring' = s /\ len' = w
    BY <1>4, <2>1, <2>2 DEF Edit
  <2>4. WellFormed(s)
    BY <1>1, <1>2, <1>4, <2>1, EditedRing
  <2>5. w \in [Files -> Int] /\ w[f] = newSize /\ \A g \in Files \ (V \cup {f}) : w[g] = len[g]
    BY <1>2, <2>2
  <2>6. Excess(s, w) = Excess(ring, len)
    BY <1>1, <1>2, <1>4, <2>1, <2>5, EditCounts
  <2>. QED BY <2>3, <2>4, <2>6, ErrorKept
<1>. QED BY <1>3, <1>4

\* removeFile.
LEMMA RemoveCounts ==
    ASSUME RingInv, NEW f \in Files, Remove(f)
    PROVE  SizeError' = SizeError
<1>1. f \in Contents(ring) /\ WellFormed(ring) /\ NoStrays(ring) /\ len \in [Files -> Int]
  BY StoredIsContents, LengthTypes DEF RingInv, Remove
<1>2. PICK s, w : s = Free(handleRemoval(ring, len, f), {f}) /\ w = [len EXCEPT ![f] = 0]
  OBVIOUS
<1>3. ring' = s /\ len' = w
  BY <1>2 DEF Remove
<1>4. WellFormed(s) /\ Contents(s) = Contents(ring) \ {f} /\ s.size = ring.size - len[f]
  BY <1>1, <1>2, RemovedRing
<1>5. PICK C, D : /\ C = Contents(ring) /\ D = Contents(s) /\ D = C \ {f}
                  /\ C \in SUBSET Files /\ IsFiniteSet(C) /\ D \in SUBSET Files /\ IsFiniteSet(D)
  BY <1>1, <1>4, ContentsOfWindow
<1>6. Bytes(w, D) = Bytes(len, D)
  <2>1. w \in [Files -> Int] /\ \A g \in D : w[g] = len[g]
    BY <1>1, <1>2, <1>5
  <2>. QED BY <1>1, <1>5, <2>1, BytesAgree
<1>7. Bytes(len, C) = len[f] + Bytes(len, D) /\ Bytes(len, D) \in Int /\ len[f] \in Int
  BY <1>1, <1>5, BytesSteps
<1>8. PICK size : size = ring.size /\ size \in Int
  BY <1>1, RingFields DEF WellFormed
<1>9. Excess(s, w) = (size - len[f]) - Bytes(w, D)
  BY <1>4, <1>5, <1>8 DEF Excess
<1>10. Excess(ring, len) = size - Bytes(len, C)
  BY <1>5, <1>8 DEF Excess
<1>11. Excess(s, w) = Excess(ring, len)
  BY <1>6, <1>7, <1>8, <1>9, <1>10
<1>. QED BY <1>3, <1>4, <1>11, ErrorKept

\* readNFiles, undisturbed.
LEMMA ReadNCounts ==
    ASSUME RingInv, NEW n \in 0 .. MaxFileCount, ReadN(n)
    PROVE  SizeError' = SizeError
<1>1. WellFormed(ring) /\ NoStrays(ring)
  BY DEF RingInv
<1>2. PICK m : m = SampleSize(ring, n)
  OBVIOUS
<1>3. m \in 0 .. ring.count /\ m \in Nat
  BY <1>1, <1>2, RingFields DEF SampleSize, WellFormed
<1>. DEFINE slot(x, sample, k) == x[k].cache[SampledSlot(ring, sample[k])]
            Stops(x, sample, k) == \/ slot(x, sample, k) = NoFile
                                   \/ /\ slot(x, sample, k) # NoFile
                                      /\ UsageExits(x[k], slot(x, sample, k))
<1>4. PICK sample, x :
         /\ sample \in Samples(ring, m) /\ x = SampleUses(ring, sample)
         /\ \/ Fail("dangling_read") \/ Fail("exit")
            \/ /\ \A k \in 0 .. m - 1 : ~Stops(x, sample, k)
               /\ ring' = x[m] /\ UNCHANGED <<len, fault>>
  BY <1>2, Zenon DEF ReadN
<1>5. CASE Fail("dangling_read") \/ Fail("exit")
  BY <1>5, NothingCounts DEF Fail
<1>6. CASE /\ \A k \in 0 .. m - 1 : ~Stops(x, sample, k)
           /\ ring' = x[m] /\ UNCHANGED <<len, fault>>
  <2>1. \A k \in 0 .. m - 1 : x[k].cache[SampledSlot(ring, sample[k])] # NoFile
    BY <1>6
  <2>2. PICK t : t = x[m]
    OBVIOUS
  <2>3. WellFormed(t) /\ NoStrays(t) /\ Contents(t) = Contents(ring) /\ t.size = ring.size
    <3>1. m \in 0 .. m
      BY <1>3
    <3>. QED BY <1>1, <1>3, <1>4, <2>1, <2>2, <3>1, SampleUsesKeep
  <2>4. ring' = t /\ len' = len /\ Excess(t, len) = Excess(ring, len)
    BY <1>6, <2>2, <2>3 DEF Excess
  <2>. QED BY <2>3, <2>4, ErrorKept
<1>. QED BY <1>4, <1>5, <1>6

(***************************************************************************)
(* For any files and any limits, the running total and the bytes stored    *)
(* drift apart in one kind of step only, a creation at the file limit,     *)
(* which takes off the size of the wrong slot (caching.c:94, 227).  Every  *)
(* other operation, the evictions of an edit included, changes the total   *)
(* by exactly what it changes the stored bytes by.                         *)
(***************************************************************************)
THEOREM TotalErrsOnlyAtCountLimit == Spec => SizeErrsOnlyAtCountLimit
<1>. DEFINE Errs == SizeError' # SizeError => \E f \in Files : AtCountLimit(ring) /\ Create(f)
<1>1. RingInv /\ [Next]_vars => [Errs]_vars
  <2>. SUFFICES ASSUME RingInv, [Next]_vars
                PROVE  Errs
    OBVIOUS
  <2>1. CASE UNCHANGED vars
    BY <2>1, NothingCounts DEF vars
  <2>2. ASSUME NEW f \in Files, Create(f)
        PROVE  Errs
    BY <2>2, CreateCounts
  <2>3. ASSUME NEW f \in Files, Use(f)
        PROVE  Errs
    BY <2>3, UseCounts
  <2>4. ASSUME NEW f \in Files, Remove(f)
        PROVE  Errs
    BY <2>4, RemoveCounts
  <2>5. ASSUME NEW f \in Files, NEW newSize \in 0 .. MaxFileSize, Edit(f, newSize)
        PROVE  Errs
    BY <2>5, EditsCount
  <2>6. ASSUME NEW n \in 0 .. MaxFileCount, ReadN(n)
        PROVE  Errs
    BY <2>6, ReadNCounts
  <2>. QED BY <2>1, <2>2, <2>3, <2>4, <2>5, <2>6 DEF Next
<1>. HIDE DEF Errs
<1>2. Spec => [][Errs]_vars
  BY <1>1, RingInvariance, PTL DEF Spec
<1>. QED BY <1>2 DEF SizeErrsOnlyAtCountLimit, Errs
=============================================================================
