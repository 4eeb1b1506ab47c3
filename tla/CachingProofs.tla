--------------------------- MODULE CachingProofs ---------------------------
(***************************************************************************)
(* What the handlers of caching.c do to the ring, for any number of files  *)
(* and any limits: a ring whose window holds count live files, each once,  *)
(* is mapped to such a ring, and the files it holds are the ones the       *)
(* policy says.  A ring is described by its positions, counted from head,  *)
(* so that the proofs see no division: At(r, k) is the k-th.               *)
(***************************************************************************)
EXTENDS Caching, FiniteSetTheorems, TLAPS

\* The slot at position k of a ring with head h, without division.
Turn(h, k) == IF h + k < cacheSize THEN h + k ELSE h + k - cacheSize

\* What is at position k, counted from head.
At(r, k) == r.cache[FromHead(r, k)]

\* The positions of the window.
Positions(r) == 0 .. r.count - 1

\* The files from head to tail.
Contents(r) == {At(r, k) : k \in Positions(r)}

\* The window holds count files, each once.
WellFormed(r) ==
    /\ r \in Rings
    /\ FromHead(r, r.count) = r.tail
    /\ \A k \in Positions(r) : At(r, k) \in Files
    /\ \A j, k \in Positions(r) : At(r, j) = At(r, k) => j = k

\* What the slots point to, inside the window and outside it.
Values(r) == {r.cache[i] : i \in Slots}

\* No slot points to a file that the window does not hold.
NoStrays(r) == Values(r) \subseteq Contents(r) \cup {NoFile}

----------------------------------------------------------------------------
(* Counting round the ring.                                                *)

\* A ring has at least two slots.
LEMMA CacheSizeType ==
    /\ MaxFileCount \in Nat /\ MaxFileCount >= 1
    /\ cacheSize \in Nat /\ cacheSize = MaxFileCount + 1 /\ cacheSize >= 2
BY MaxFileCountAssumption DEF cacheSize

\* Remainders of what is less than two rounds.
LEMMA WithinTwoRounds ==
    ASSUME NEW x \in 0 .. 2 * cacheSize - 1
    PROVE  x % cacheSize = IF x < cacheSize THEN x ELSE x - cacheSize
<1>. DEFINE n == cacheSize
<1>1. n \in Nat /\ n >= 2 /\ x \in 0 .. 2 * n - 1
  BY CacheSizeType
<1>. HIDE DEF n
<1>2. x % n = IF x < n THEN x ELSE x - n
  BY <1>1
<1>. QED BY <1>2 DEF n

\* The slots next to a slot, and the slots counted from head.
LEMMA SlotArithmetic ==
    /\ \A i \in Slots : Forth(i) = Turn(i, 1) /\ Back(i) = Turn(i, cacheSize - 1)
    /\ \A r : r.head \in Slots => \A k \in 0 .. cacheSize : FromHead(r, k) = Turn(r.head, k)
<1>1. ASSUME NEW i \in Slots
      PROVE  Forth(i) = Turn(i, 1) /\ Back(i) = Turn(i, cacheSize - 1)
  <2>. DEFINE x == i + 1
              y == i + (cacheSize - 1)
  <2>1. x \in 0 .. 2 * cacheSize - 1 /\ y \in 0 .. 2 * cacheSize - 1
    BY CacheSizeType DEF Slots
  <2>2. y = i + cacheSize - 1
    BY CacheSizeType DEF Slots
  <2>. HIDE DEF x, y
  <2>3. /\ x % cacheSize = IF x < cacheSize THEN x ELSE x - cacheSize
        /\ y % cacheSize = IF y < cacheSize THEN y ELSE y - cacheSize
    BY <2>1, WithinTwoRounds
  <2>4. x % cacheSize = Turn(i, 1) /\ y % cacheSize = Turn(i, cacheSize - 1)
    BY <2>1, <2>3, CacheSizeType DEF Turn, Slots, x, y
  <2>. QED BY <2>2, <2>4 DEF Forth, Back, x
<1>2. ASSUME NEW r, r.head \in Slots, NEW k \in 0 .. cacheSize
      PROVE  FromHead(r, k) = Turn(r.head, k)
  <2>. DEFINE x == r.head + k
  <2>1. x \in 0 .. 2 * cacheSize - 1
    BY <1>2, CacheSizeType DEF Slots
  <2>. HIDE DEF x
  <2>2. x % cacheSize = IF x < cacheSize THEN x ELSE x - cacheSize
    BY <2>1, WithinTwoRounds
  <2>. QED BY <1>2, <2>2, CacheSizeType DEF Turn, FromHead, Slots, x
<1>. QED BY <1>1, <1>2

\* Every slot has one position.
LEMMA TurnIsOnto ==
    ASSUME NEW h \in Slots
    PROVE  /\ Turn(h, 0) = h /\ Turn(h, cacheSize) = h
           /\ \A k \in Slots : Turn(h, k) \in Slots
           /\ \A i \in Slots : \E k \in Slots : Turn(h, k) = i
           /\ \A j, k \in Slots : Turn(h, j) = Turn(h, k) => j = k
<1>1. ASSUME NEW i \in Slots
      PROVE  \E k \in Slots : Turn(h, k) = i
  <2>. DEFINE k == IF i >= h THEN i - h ELSE i + cacheSize - h
  <2>1. k \in Slots /\ Turn(h, k) = i
    BY CacheSizeType DEF Turn, Slots
  <2>. QED BY <2>1
<1>. QED BY <1>1, CacheSizeType DEF Turn, Slots

\* Two positions have two slots.
LEMMA TurnIsSlot ==
    ASSUME NEW h \in Slots, NEW j \in Slots, NEW k \in Slots
    PROVE  Turn(h, k) \in Slots /\ (Turn(h, k) = Turn(h, j) <=> k = j)
BY CacheSizeType DEF Turn, Slots

\* Positions counted from another slot, and the positions next to a position.
LEMMA TurnTwice ==
    ASSUME NEW h \in Slots
    PROVE  /\ \A j, k \in 0 .. cacheSize :
                  j + k <= cacheSize => Turn(Turn(h, j), k) = Turn(h, j + k)
           /\ \A k \in Slots : k >= 1 => Turn(Turn(h, k), cacheSize - 1) = Turn(h, k - 1)
BY CacheSizeType DEF Turn, Slots

\* The copying loop, seen from head: n + 1 slots from position p down take what was one before.
LEMMA ShiftUpAt ==
    ASSUME NEW h \in Slots, NEW p \in Slots, NEW n, n = p \/ n = p + 1, NEW cache,
           NEW k \in Slots, k >= 1
    PROVE  ShiftUp(cache, Turn(h, p), n)[Turn(h, k)]
               = IF k <= p THEN cache[Turn(h, k - 1)] ELSE cache[Turn(h, k)]
<1>. DEFINE i == Turn(h, k)
            x == Turn(h, p) + cacheSize - i
<1>1. i \in Slots /\ Back(i) = Turn(h, k - 1)
  BY TurnIsOnto, TurnTwice, SlotArithmetic
<1>2. x \in 0 .. 2 * cacheSize - 1
  <2>1. Turn(h, p) \in Slots
    BY TurnIsOnto
  <2>. HIDE DEF i
  <2>. QED BY <1>1, <2>1, CacheSizeType DEF Slots
<1>3. (IF x < cacheSize THEN x ELSE x - cacheSize) < n <=> k <= p
  BY CacheSizeType DEF Turn, Slots
<1>4. ShiftUp(cache, Turn(h, p), n)[i] = IF x % cacheSize < n THEN cache[Back(i)] ELSE cache[i]
  BY <1>1 DEF ShiftUp
<1>5. x % cacheSize = IF x < cacheSize THEN x ELSE x - cacheSize
  <2>. HIDE DEF x
  <2>. QED BY <1>2, WithinTwoRounds
<1>. HIDE DEF x, i
<1>6. x % cacheSize < n <=> k <= p
  BY <1>3, <1>5
<1>7. ShiftUp(cache, Turn(h, p), n)[i] = IF k <= p THEN cache[Turn(h, k - 1)] ELSE cache[i]
  BY <1>1, <1>4, <1>6, Zenon
<1>. QED BY <1>7 DEF i

----------------------------------------------------------------------------
(* The window.                                                             *)

\* A set of natural numbers has a least element.
LEMMA MinIsLeast ==
    ASSUME NEW S \in SUBSET Nat, S # {}
    PROVE  Min(S) \in S /\ \A x \in S : Min(S) <= x
<1>. DEFINE R == {ss \in Nat \X Nat : ss[1] < ss[2]}
<1>1. IsWellFoundedOn(R, Nat)
  BY NatLessThanWellFounded DEF OpToRel
<1>. HIDE DEF R
<1>2. PICK m \in S : \A x \in S : ~ (<<x, m>> \in R)
  BY <1>1, WFMin
<1>3. ASSUME NEW x \in S
      PROVE  m <= x
  <2>1. <<x, m>> \in R <=> x < m
    BY DEF R
  <2>. QED BY <1>2, <2>1
<1>. QED BY <1>3 DEF Min

\* What is known of the fields of a ring.
LEMMA RingFields ==
    ASSUME NEW r \in Rings
    PROVE  /\ r.policy \in CachePolicies /\ r.cache \in [Slots -> Files \cup {NoFile}]
           /\ r.head \in Slots /\ r.tail \in Slots /\ r.size \in Int
           /\ r.count \in Nat /\ r.count < cacheSize /\ r.count <= MaxFileCount
           /\ Positions(r) \subseteq Slots
           /\ \A k \in 0 .. cacheSize : FromHead(r, k) = Turn(r.head, k)
           /\ \A k \in Slots : FromHead(r, k) \in Slots
<1>1. /\ r.policy \in CachePolicies /\ r.cache \in [Slots -> Files \cup {NoFile}]
      /\ r.head \in Slots /\ r.tail \in Slots /\ r.size \in Int /\ r.count \in 0 .. MaxFileCount
  BY DEF Rings
<1>2. r.count \in Nat /\ r.count < cacheSize /\ r.count <= MaxFileCount
  BY <1>1, CacheSizeType, MaxFileCountAssumption
<1>3. Positions(r) \subseteq Slots
  BY <1>2, CacheSizeType DEF Positions, Slots
<1>4. \A k \in 0 .. cacheSize : FromHead(r, k) = Turn(r.head, k)
  BY <1>1, SlotArithmetic
<1>5. ASSUME NEW k \in Slots
      PROVE  FromHead(r, k) \in Slots
  <2>1. k \in 0 .. cacheSize
    BY CacheSizeType DEF Slots
  <2>2. FromHead(r, k) = Turn(r.head, k)
    BY <1>4, <2>1
  <2>3. \A h \in Slots : Turn(h, k) \in Slots
    BY TurnIsOnto
  <2>. QED BY <1>1, <2>2, <2>3
<1>. QED BY <1>1, <1>2, <1>3, <1>4, <1>5

\* The first n natural numbers are n.
LEMMA IntervalSize ==
    ASSUME NEW n \in Nat
    PROVE  IsFiniteSet(0 .. n - 1) /\ Cardinality(0 .. n - 1) = n
<1>1. PICK x \in Int : x = n - 1
  OBVIOUS
<1>2. IsFiniteSet(0 .. x) /\ Cardinality(0 .. x) = IF 0 > x THEN 0 ELSE x - 0 + 1
  BY FS_Interval
<1>. QED BY <1>1, <1>2

\* The window as a sequence holds the contents; they are count files.
LEMMA ContentsOfWindow ==
    ASSUME NEW r, WellFormed(r)
    PROVE  /\ {Window(r)[k] : k \in DOMAIN Window(r)} = Contents(r)
           /\ {Window(r)[k] : k \in 1 .. r.count} = Contents(r)
           /\ Contents(r) \subseteq Files /\ IsFiniteSet(Contents(r))
           /\ Cardinality(Contents(r)) = r.count
<1>0. r \in Rings /\ r.count \in Nat
  BY RingFields DEF WellFormed
<1>1. DOMAIN Window(r) = 1 .. r.count
  BY DEF Window
<1>2. {Window(r)[k] : k \in 1 .. r.count} = Contents(r)
  <2>1. \A k \in 1 .. r.count : Window(r)[k] = At(r, k - 1) /\ k - 1 \in Positions(r)
    BY <1>0 DEF Window, At, Positions
  <2>2. \A k \in Positions(r) : k + 1 \in 1 .. r.count /\ (k + 1) - 1 = k
    BY <1>0 DEF Positions
  <2>. QED BY <2>1, <2>2 DEF Contents
<1>3. Contents(r) \subseteq Files
  BY DEF Contents, WellFormed
<1>4. IsFiniteSet(Contents(r)) /\ Cardinality(Contents(r)) = r.count
  <2>. DEFINE g == [k \in Positions(r) |-> At(r, k)]
  <2>1. g \in Surjection(Positions(r), Contents(r)) /\ g \in Injection(Positions(r), Contents(r))
    BY DEF Surjection, Injection, IsInjective, Contents, WellFormed
  <2>. HIDE DEF g
  <2>2. IsFiniteSet(Positions(r)) /\ Cardinality(Positions(r)) = r.count
    BY <1>0, IntervalSize DEF Positions
  <2>. QED BY <2>1, <2>2, FS_Surjection
<1>. QED BY <1>1, <1>2, <1>3, <1>4

\* The linear search of a handler ends inside the window, at the file.
LEMMA SearchFinds ==
    ASSUME NEW r, WellFormed(r), NEW f \in Contents(r)
    PROVE  SearchLength(r, f) \in Positions(r) /\ At(r, SearchLength(r, f)) = f
<1>. DEFINE S == {k \in Slots : r.cache[FromHead(r, k)] = f}
<1>0. r \in Rings /\ r.count \in Nat /\ Positions(r) \subseteq Slots
  BY RingFields DEF WellFormed
<1>1. PICK k \in Positions(r) : At(r, k) = f
  BY DEF Contents
<1>2. k \in S /\ S \in SUBSET Nat
  BY <1>0, <1>1, CacheSizeType DEF At, Slots
<1>3. SearchLength(r, f) = Min(S)
  BY DEF SearchLength
<1>. HIDE DEF S
<1>4. Min(S) \in S /\ Min(S) <= k
  BY <1>2, MinIsLeast
<1>. QED BY <1>0, <1>1, <1>2, <1>3, <1>4, CacheSizeType DEF S, Positions, At, Slots

(***************************************************************************)
(* A ring whose window takes its files from another one, none of them      *)
(* twice, is well-formed.                                                  *)
(***************************************************************************)
LEMMA Rearranged ==
    ASSUME NEW r, WellFormed(r), NEW s \in Rings, FromHead(s, s.count) = s.tail,
           NEW from \in [Positions(s) -> Positions(r)],
           \A j, k \in Positions(s) : from[j] = from[k] => j = k,
           \A k \in Positions(s) : At(s, k) = At(r, from[k])
    PROVE  WellFormed(s) /\ Contents(s) = {At(r, from[k]) : k \in Positions(s)}
BY DEF WellFormed, Contents

----------------------------------------------------------------------------
(* The array, whoever holds it: h is the head and m the number of files.   *)

Arrays(S) == [Slots -> S]

\* The array with f in slot e.
Written(cache, e, f) == [cache EXCEPT ![e] = f]

\* What the arrays after a write, a shift and a use hold, by position.
IsWritten(d, cache, h, p, f) ==
    \A k \in Slots : d[Turn(h, k)] = IF k = p THEN f ELSE cache[Turn(h, k)]

IsShifted(d, cache, h, p) ==
    \A k \in Slots :
        k >= 1 => d[Turn(h, k)] = IF k <= p THEN cache[Turn(h, k - 1)] ELSE cache[Turn(h, k)]

IsUsed(d, cache, h, m, n, f) ==
    \A k \in 0 .. m - 1 :
        d[Turn(Turn(h, 1), k)] = IF k < n THEN cache[Turn(h, k)]
                                 ELSE IF k = m - 1 THEN f ELSE cache[Turn(h, k + 1)]

IsClosed(d, cache, h, n) ==
    \A k \in 0 .. MaxFileCount - 1 :
        d[Turn(Turn(h, 1), k)] = IF k < n THEN cache[Turn(h, k)] ELSE cache[Turn(h, k + 1)]

\* Writing a slot by its position.
LEMMA WriteAt ==
    ASSUME NEW h \in Slots, NEW p \in Slots, NEW S, NEW cache \in Arrays(S), NEW f
    PROVE  IsWritten(Written(cache, Turn(h, p), f), cache, h, p, f)
<1>1. ASSUME NEW k \in Slots
      PROVE  Written(cache, Turn(h, p), f)[Turn(h, k)] = IF k = p THEN f ELSE cache[Turn(h, k)]
  <2>1. Turn(h, p) \in Slots /\ Turn(h, k) \in Slots /\ (Turn(h, k) = Turn(h, p) <=> k = p)
    BY TurnIsSlot
  <2>. QED BY <2>1 DEF Arrays, Written
<1>. QED BY <1>1 DEF IsWritten

\* Copying from position p down.
LEMMA ShiftAt ==
    ASSUME NEW h \in Slots, NEW p \in Slots, NEW n, n = p \/ n = p + 1, NEW cache
    PROVE  IsShifted(ShiftUp(cache, Turn(h, p), n), cache, h, p)
BY ShiftUpAt DEF IsShifted

\* After a use: the file of position n is the youngest, and those behind it are one further on.
LEMMA UsedArray ==
    ASSUME NEW h \in Slots, NEW m \in 1 .. MaxFileCount, NEW n \in 0 .. m - 1, NEW cache, NEW f,
           NEW c, IsWritten(c, cache, h, m, f), NEW d, IsShifted(d, c, h, n)
    PROVE  IsUsed(d, cache, h, m, n, f)
<1>. SUFFICES ASSUME NEW k \in 0 .. m - 1
              PROVE  d[Turn(Turn(h, 1), k)] = IF k < n THEN cache[Turn(h, k)]
                                              ELSE IF k = m - 1 THEN f ELSE cache[Turn(h, k + 1)]
  BY DEF IsUsed
<1>1. PICK j : j = k + 1
  OBVIOUS
<1>2. j \in Slots /\ j >= 1 /\ j - 1 = k /\ k \in Slots /\ k # m
  BY <1>1, CacheSizeType DEF Slots
<1>3. Turn(Turn(h, 1), k) = Turn(h, j)
  BY <1>1, <1>2, CacheSizeType DEF Turn, Slots
<1>4. (j <= n <=> k < n) /\ (j = m <=> k = m - 1)
  BY <1>1, <1>2
<1>5. d[Turn(h, j)] = IF j <= n THEN c[Turn(h, j - 1)] ELSE c[Turn(h, j)]
  BY <1>2 DEF IsShifted
<1>6. d[Turn(h, j)] = IF k < n THEN c[Turn(h, k)] ELSE c[Turn(h, j)]
  BY <1>2, <1>4, <1>5
<1>7. c[Turn(h, k)] = cache[Turn(h, k)]
  BY <1>2 DEF IsWritten
<1>8. c[Turn(h, j)] = IF k = m - 1 THEN f ELSE cache[Turn(h, j)]
  BY <1>2, <1>4 DEF IsWritten
<1>. QED BY <1>1, <1>3, <1>6, <1>7, <1>8

\* After a removal from position n: the older files are one further on, the younger ones stay.
LEMMA ClosedArray ==
    ASSUME NEW h \in Slots, NEW n \in Slots, NEW cache, NEW d, IsShifted(d, cache, h, n)
    PROVE  IsClosed(d, cache, h, n)
<1>. SUFFICES ASSUME NEW k \in 0 .. MaxFileCount - 1
              PROVE  d[Turn(Turn(h, 1), k)] = IF k < n THEN cache[Turn(h, k)]
                                              ELSE cache[Turn(h, k + 1)]
  BY DEF IsClosed
<1>1. PICK j : j = k + 1
  OBVIOUS
<1>2. j \in Slots /\ j >= 1 /\ j - 1 = k /\ k \in Slots
  BY <1>1, CacheSizeType DEF Slots
<1>3. Turn(Turn(h, 1), k) = Turn(h, j)
  BY <1>1, <1>2, CacheSizeType DEF Turn, Slots
<1>4. d[Turn(h, j)] = IF j <= n THEN cache[Turn(h, j - 1)] ELSE cache[Turn(h, j)]
  BY <1>2 DEF IsShifted
<1>5. j <= n <=> k < n
  BY <1>1, <1>2, CacheSizeType DEF Slots
<1>. QED BY <1>1, <1>2, <1>3, <1>4, <1>5

\* A shift moves what is in the array, it makes up nothing.
LEMMA ShiftedFrom ==
    ASSUME NEW S, NEW cache \in Arrays(S), NEW p, NEW n
    PROVE  ShiftUp(cache, p, n) \in Arrays(S)
<1>1. \A i \in Slots : Back(i) \in Slots
  BY SlotArithmetic, CacheSizeType DEF Turn, Slots
<1>. QED BY <1>1 DEF ShiftUp, Arrays

\* Steps round the ring: counting from the next slot, and from any other.
LEMMA TurnOn ==
    ASSUME NEW h \in Slots, NEW m \in Slots
    PROVE  /\ Turn(h, m) \in Slots /\ Turn(h, 1) \in Slots
           /\ Forth(Turn(h, m)) = Turn(h, m + 1) /\ Forth(Turn(h, m)) \in Slots
           /\ Turn(Turn(h, 1), m) = Turn(h, m + 1)
           /\ \A k \in 0 .. cacheSize - m : Turn(Turn(h, m), k) = Turn(h, m + k)
BY SlotArithmetic, CacheSizeType DEF Turn, Slots

\* A ring by its fields.
Ring(policy, cache, head, tail, count, size) ==
    [policy |-> policy, cache |-> cache, head |-> head, tail |-> tail,
     count |-> count, size |-> size]

\* A ring made of fields of the right types is one; its positions are turns from its head.
LEMMA RingOfFields ==
    ASSUME NEW policy \in CachePolicies, NEW cache \in [Slots -> Files \cup {NoFile}],
           NEW h \in Slots, NEW t \in Slots, NEW m \in 0 .. MaxFileCount, NEW size \in Int,
           NEW s, s = Ring(policy, cache, h, t, m, size)
    PROVE  /\ s \in Rings /\ Positions(s) = 0 .. m - 1
           /\ s.policy = policy /\ s.cache = cache /\ s.head = h /\ s.tail = t
           /\ s.count = m /\ s.size = size
           /\ (FromHead(s, s.count) = s.tail <=> Turn(h, m) = t)
           /\ \A k \in 0 .. m - 1 : At(s, k) = cache[Turn(h, k)]
<1>1. s \in Rings /\ Positions(s) = 0 .. m - 1
      /\ s.policy = policy /\ s.cache = cache /\ s.head = h /\ s.tail = t
      /\ s.count = m /\ s.size = size
  BY DEF Ring, Rings, Positions
<1>2. m \in 0 .. cacheSize /\ \A k \in 0 .. m - 1 : k \in 0 .. cacheSize
  BY CacheSizeType
<1>3. \A k \in 0 .. cacheSize : FromHead(s, k) = Turn(h, k)
  BY <1>1, SlotArithmetic
<1>. QED BY <1>1, <1>2, <1>3 DEF At

\* Ring r has m files, in the slots of the array from h on.
HasWindow(r, cache, h, m) ==
    /\ r.cache = cache /\ r.head = h /\ r.count = m
    /\ h \in Slots /\ m \in 0 .. MaxFileCount
    /\ \A k \in 0 .. m - 1 : At(r, k) = cache[Turn(h, k)]

\* And a well-formed ring has fields of these types.
LEMMA FieldsOfRing ==
    ASSUME NEW r, WellFormed(r)
    PROVE  \E policy \in CachePolicies, cache \in [Slots -> Files \cup {NoFile}], h \in Slots,
              m \in 0 .. MaxFileCount, size \in Int :
               /\ r = Ring(policy, cache, h, Turn(h, m), m, size) /\ m \in Slots
               /\ r.policy = policy /\ r.cache = cache /\ r.head = h /\ r.tail = Turn(h, m)
               /\ r.count = m /\ r.size = size
               /\ Positions(r) = 0 .. m - 1
               /\ \A k \in 0 .. m : FromHead(r, k) = Turn(h, k)
               /\ \A k \in 0 .. m - 1 : At(r, k) = cache[Turn(h, k)]
               /\ HasWindow(r, cache, h, m)
<1>1. r \in Rings /\ FromHead(r, r.count) = r.tail
  BY DEF WellFormed
<1>2. PICK policy \in CachePolicies, cache \in [Slots -> Files \cup {NoFile}], h \in Slots,
           m \in 0 .. MaxFileCount, size \in Int :
         /\ r.policy = policy /\ r.cache = cache /\ r.head = h /\ r.count = m /\ r.size = size
         /\ r = Ring(policy, cache, h, r.tail, m, size)
  BY <1>1 DEF Rings, Ring
<1>3. m \in 0 .. cacheSize /\ m \in Slots /\ \A k \in 0 .. m : k \in 0 .. cacheSize
  BY CacheSizeType DEF Slots
<1>4. \A k \in 0 .. cacheSize : FromHead(r, k) = Turn(h, k)
  BY <1>2, SlotArithmetic
<1>5. r.tail = Turn(h, m)
  BY <1>1, <1>2, <1>3, <1>4
<1>6. \A k \in 0 .. m : FromHead(r, k) = Turn(h, k)
  BY <1>3, <1>4
<1>7. \A k \in 0 .. m - 1 : At(r, k) = cache[Turn(h, k)]
  <2>1. \A k \in 0 .. m - 1 : k \in 0 .. m
    OBVIOUS
  <2>. QED BY <1>2, <1>6, <2>1 DEF At
<1>8. Positions(r) = 0 .. m - 1
  BY <1>2 DEF Positions
<1>9. HasWindow(r, cache, h, m)
  BY <1>2, <1>7 DEF HasWindow
<1>. QED BY <1>2, <1>3, <1>5, <1>6, <1>7, <1>8, <1>9

\* What the array of a well-formed ring holds.
LEMMA ArrayOfRing ==
    ASSUME NEW r, WellFormed(r)
    PROVE  /\ r.cache \in Arrays(Values(r)) /\ r.cache \in Arrays(Files \cup {NoFile})
           /\ Contents(r) \subseteq Values(r) /\ NoFile \notin Contents(r)
<1>1. r.cache \in [Slots -> Files \cup {NoFile}]
  BY RingFields DEF WellFormed
<1>2. Contents(r) \subseteq Files
  BY ContentsOfWindow
<1>3. Contents(r) \subseteq Values(r)
  <2>1. \A k \in Positions(r) : FromHead(r, k) \in Slots
    BY RingFields DEF WellFormed
  <2>. QED BY <2>1 DEF Contents, Values, At
<1>. QED BY <1>1, <1>2, <1>3, NoFileAssumption DEF Arrays, Values

----------------------------------------------------------------------------
(* handleUsage.                                                            *)

\* Where a file of the window was before f, at position n of count, became the youngest.
BeforeUse(n, count) ==
    [k \in 0 .. count - 1 |-> IF k < n THEN k ELSE IF k = count - 1 THEN n ELSE k + 1]

\* A used file goes to the tail, the younger ones take a place forward.
LEMMA UsageAt ==
    ASSUME NEW r, WellFormed(r), NEW f \in Contents(r), NEW s, s = handleUsageLRU(r, f)
    PROVE  /\ s \in Rings /\ FromHead(s, s.count) = s.tail
           /\ s.policy = r.policy /\ s.count = r.count /\ s.size = r.size
           /\ \A k \in Positions(s) : At(s, k) = At(r, BeforeUse(SearchLength(r, f), r.count)[k])
           /\ Values(s) \subseteq Values(r)
<1>1. PICK policy \in CachePolicies, cache \in [Slots -> Files \cup {NoFile}], h \in Slots,
           m \in 0 .. MaxFileCount, size \in Int :
         /\ r = Ring(policy, cache, h, Turn(h, m), m, size) /\ m \in Slots
         /\ r.policy = policy /\ r.cache = cache /\ r.head = h /\ r.tail = Turn(h, m)
         /\ r.count = m /\ r.size = size
         /\ Positions(r) = 0 .. m - 1
         /\ \A k \in 0 .. m : FromHead(r, k) = Turn(h, k)
         /\ \A k \in 0 .. m - 1 : At(r, k) = cache[Turn(h, k)]
         /\ HasWindow(r, cache, h, m)
  BY FieldsOfRing
<1>2. PICK n : n = SearchLength(r, f)
  OBVIOUS
<1>3. n \in 0 .. m - 1 /\ n \in Slots /\ cache[Turn(h, n)] = f /\ m \in 1 .. MaxFileCount
      /\ FromHead(r, n) = Turn(h, n)
  <2>1. n \in 0 .. m - 1 /\ At(r, n) = f
    BY <1>1, <1>2, SearchFinds
  <2>. QED BY <1>1, <2>1, CacheSizeType DEF Slots
<1>4. PICK c : c = Written(cache, Turn(h, m), f)
  OBVIOUS
<1>5. PICK d : d = ShiftUp(c, Turn(h, n), n + 1)
  OBVIOUS
<1>6. cache \in Arrays(Values(r)) /\ f \in Values(r) /\ Values(r) \subseteq Files \cup {NoFile}
  <2>1. r.cache = cache
    BY <1>1
  <2>2. /\ cache \in Arrays(Values(r)) /\ Values(r) \subseteq Files \cup {NoFile}
        /\ Contents(r) \subseteq Values(r)
    BY <2>1, ArrayOfRing DEF Values
  <2>. QED BY <2>2
<1>7. c \in Arrays(Values(r))
  BY <1>4, <1>6 DEF Arrays, Written
<1>8. d \in Arrays(Values(r))
  BY <1>5, <1>7, ShiftedFrom
<1>9. Turn(h, 1) \in Slots /\ Turn(h, m + 1) \in Slots /\ Turn(Turn(h, 1), m) = Turn(h, m + 1)
      /\ Forth(h) = Turn(h, 1) /\ Forth(Turn(h, m)) = Turn(h, m + 1)
  BY <1>1, TurnOn, SlotArithmetic
<1>10. s = Ring(policy, d, Turn(h, 1), Turn(h, m + 1), m, size)
  <2>0. (n + 1) % cacheSize = n + 1
    <3>1. PICK x \in 0 .. 2 * cacheSize - 1 : x = n + 1 /\ x < cacheSize
      BY <1>3, CacheSizeType
    <3>2. x % cacheSize = x
      BY <3>1, WithinTwoRounds
    <3>. QED BY <3>1, <3>2
  <2>1. s = [r EXCEPT !.cache = d, !.head = Forth(h), !.tail = Forth(Turn(h, m))]
    BY <1>1, <1>2, <1>3, <1>4, <1>5, <2>0 DEF handleUsageLRU, Written
  <2>. QED BY <1>1, <1>9, <2>1 DEF Ring
<1>11. d \in [Slots -> Files \cup {NoFile}]
  BY <1>6, <1>8 DEF Arrays
<1>12. /\ s \in Rings /\ Positions(s) = 0 .. m - 1
       /\ s.policy = policy /\ s.cache = d /\ s.count = m /\ s.size = size
       /\ (FromHead(s, s.count) = s.tail <=> Turn(Turn(h, 1), m) = Turn(h, m + 1))
       /\ \A k \in 0 .. m - 1 : At(s, k) = d[Turn(Turn(h, 1), k)]
  <2>1. PICK g \in Slots, t \in Slots : g = Turn(h, 1) /\ t = Turn(h, m + 1)
    BY <1>9
  <2>2. s = Ring(policy, d, g, t, m, size)
    BY <1>10, <2>1
  <2>3. /\ s \in Rings /\ Positions(s) = 0 .. m - 1
        /\ s.policy = policy /\ s.cache = d /\ s.count = m /\ s.size = size
        /\ (FromHead(s, s.count) = s.tail <=> Turn(g, m) = t)
        /\ \A k \in 0 .. m - 1 : At(s, k) = d[Turn(g, k)]
    BY <1>11, <2>2, RingOfFields
  <2>. QED BY <2>1, <2>3
<1>13. IsUsed(d, cache, h, m, n, f)
  <2>1. cache \in Arrays(Files \cup {NoFile})
    BY DEF Arrays
  <2>2. IsWritten(c, cache, h, m, f)
    BY <1>1, <1>4, <2>1, WriteAt
  <2>3. IsShifted(d, c, h, n)
    BY <1>3, <1>5, ShiftAt
  <2>. QED BY <1>3, <2>2, <2>3, UsedArray
<1>14. ASSUME NEW k \in 0 .. m - 1
       PROVE  At(s, k) = At(r, BeforeUse(n, m)[k])
  <2>1. d[Turn(Turn(h, 1), k)] = IF k < n THEN cache[Turn(h, k)]
                                 ELSE IF k = m - 1 THEN f ELSE cache[Turn(h, k + 1)]
    BY <1>13 DEF IsUsed
  <2>2. BeforeUse(n, m)[k] = IF k < n THEN k ELSE IF k = m - 1 THEN n ELSE k + 1
    BY DEF BeforeUse
  <2>3. k # m - 1 => k + 1 \in 0 .. m - 1
    BY <1>3
  <2>. QED BY <1>1, <1>3, <1>12, <2>1, <2>2, <2>3
<1>15. Values(s) \subseteq Values(r)
  <2>1. \A i \in Slots : s.cache[i] \in Values(r)
    BY <1>8, <1>12 DEF Arrays
  <2>. QED BY <2>1 DEF Values
<1>. QED BY <1>1, <1>2, <1>9, <1>12, <1>15, <1>14

\* A use keeps the ring in order and the files in it.
LEMMA UsageKeeps ==
    ASSUME NEW r, WellFormed(r), NEW f \in Contents(r)
    PROVE  /\ WellFormed(handleUsage(r, f)) /\ Contents(handleUsage(r, f)) = Contents(r)
           /\ handleUsage(r, f).policy = r.policy
           /\ handleUsage(r, f).count = r.count /\ handleUsage(r, f).size = r.size
           /\ Values(handleUsage(r, f)) \subseteq Values(r)
           /\ NoStrays(r) => NoStrays(handleUsage(r, f))
<1>1. CASE IsFIFO(r)
  BY <1>1 DEF handleUsage
<1>2. CASE ~IsFIFO(r)
  <2>. DEFINE n == SearchLength(r, f)
              from == BeforeUse(n, r.count)
  <2>1. PICK s : s = handleUsageLRU(r, f)
    OBVIOUS
  <2>2. /\ s \in Rings /\ FromHead(s, s.count) = s.tail
        /\ s.policy = r.policy /\ s.count = r.count /\ s.size = r.size
        /\ \A k \in Positions(s) : At(s, k) = At(r, from[k])
        /\ Values(s) \subseteq Values(r)
    BY <2>1, UsageAt
  <2>3. n \in Positions(r) /\ r.count \in Nat
    BY SearchFinds, RingFields DEF WellFormed
  <2>. HIDE DEF n
  <2>4. /\ from \in [Positions(s) -> Positions(r)]
        /\ \A j, k \in Positions(s) : from[j] = from[k] => j = k
        /\ \A j \in Positions(r) : \E k \in Positions(s) : from[k] = j
    <3>1. Positions(s) = 0 .. r.count - 1 /\ Positions(r) = 0 .. r.count - 1
      BY <2>2 DEF Positions
    <3>2. ASSUME NEW j \in Positions(r)
          PROVE  \E k \in Positions(s) : from[k] = j
      <4>1. CASE j < n
        BY <2>3, <3>1, <4>1 DEF BeforeUse
      <4>2. CASE j = n
        <5>1. r.count - 1 \in Positions(s) /\ from[r.count - 1] = j
          BY <2>3, <3>1, <4>2 DEF BeforeUse
        <5>. QED BY <5>1
      <4>3. CASE j > n
        <5>1. j - 1 \in Positions(s) /\ from[j - 1] = j
          BY <2>3, <3>1, <4>3 DEF BeforeUse
        <5>. QED BY <5>1
      <4>. QED BY <2>3, <3>1, <4>1, <4>2, <4>3
    <3>. QED BY <2>3, <3>1, <3>2 DEF BeforeUse
  <2>. HIDE DEF from
  <2>5. Contents(s) = Contents(r)
    BY <2>2, <2>4 DEF Contents
  <2>6. WellFormed(s)
    BY <2>2, <2>4, Rearranged
  <2>7. NoStrays(r) => NoStrays(s)
    BY <2>2, <2>5 DEF NoStrays
  <2>. QED BY <1>2, <2>1, <2>2, <2>5, <2>6, <2>7 DEF handleUsage
<1>. QED BY <1>1, <1>2

----------------------------------------------------------------------------
(* handleInsertion.                                                        *)

\* Array d holds the m files of the list w from slot g on, each once.
IsListed(d, g, m, w, C) ==
    /\ w \in [0 .. m - 1 -> Files]
    /\ \A j, k \in 0 .. m - 1 : w[j] = w[k] => j = k
    /\ \A k \in 0 .. m - 1 : d[Turn(g, k)] = w[k]
    /\ C = {w[k] : k \in 0 .. m - 1}
    /\ d \in Arrays(Files \cup {NoFile})

\* Ring s has array d, head g and m files.
IsRing(s, policy, d, g, m, size) ==
    /\ policy \in CachePolicies /\ g \in Slots /\ m \in 0 .. MaxFileCount /\ size \in Int
    /\ s = Ring(policy, d, g, Turn(g, m), m, size)

\* A ring that holds the files w, in this order.
LEMMA RingOfFiles ==
    ASSUME NEW s, NEW policy, NEW d, NEW g, NEW m, NEW size, NEW w, NEW C,
           IsRing(s, policy, d, g, m, size), IsListed(d, g, m, w, C)
    PROVE  /\ WellFormed(s) /\ Contents(s) = C
           /\ s.policy = policy /\ s.count = m /\ s.size = size
           /\ \A k \in 0 .. m - 1 : At(s, k) = w[k]
           /\ \A S : d \in Arrays(S) => Values(s) \subseteq S
<1>0. /\ policy \in CachePolicies /\ g \in Slots /\ m \in 0 .. MaxFileCount /\ size \in Int
      /\ s = Ring(policy, d, g, Turn(g, m), m, size)
  BY DEF IsRing
<1>1. d \in [Slots -> Files \cup {NoFile}]
  BY DEF Arrays, IsListed
<1>2. m \in Slots /\ Turn(g, m) \in Slots
  BY <1>0, TurnIsSlot, CacheSizeType DEF Slots
<1>3. PICK t \in Slots : t = Turn(g, m)
  BY <1>2
<1>4. s = Ring(policy, d, g, t, m, size)
  BY <1>0, <1>3
<1>5. /\ s \in Rings /\ Positions(s) = 0 .. m - 1
      /\ s.policy = policy /\ s.cache = d /\ s.head = g /\ s.tail = t
      /\ s.count = m /\ s.size = size
      /\ (FromHead(s, s.count) = s.tail <=> Turn(g, m) = t)
      /\ \A k \in 0 .. m - 1 : At(s, k) = d[Turn(g, k)]
  BY <1>0, <1>1, <1>4, RingOfFields
<1>6. \A k \in 0 .. m - 1 : At(s, k) = w[k]
  BY <1>5 DEF IsListed
<1>7. Contents(s) = C
  BY <1>5, <1>6 DEF Contents, IsListed
<1>8. \A S : d \in Arrays(S) => Values(s) \subseteq S
  BY <1>5 DEF Arrays, Values
<1>9. WellFormed(s)
  BY <1>3, <1>5, <1>6 DEF WellFormed, IsListed
<1>. QED BY <1>5, <1>6, <1>7, <1>8, <1>9

\* A ring has room for its files, and the slots of its window are known by their positions.
LEMMA ContentsByPosition ==
    ASSUME NEW r, WellFormed(r), NEW cache, NEW h, NEW m, HasWindow(r, cache, h, m)
    PROVE  /\ Contents(r) = {cache[Turn(h, k)] : k \in 0 .. m - 1}
           /\ \A k \in 0 .. m - 1 : cache[Turn(h, k)] \in Contents(r)
           /\ \A j, k \in 0 .. m - 1 : cache[Turn(h, j)] = cache[Turn(h, k)] => j = k
BY DEF Contents, Positions, WellFormed, HasWindow

\* A new file below the limit goes to the tail.
LEMMA InsertionBelowLimit ==
    ASSUME NEW r, WellFormed(r), r.count # MaxFileCount, NEW len,
           NEW f \in Files, f \notin Contents(r), NEW s, s = handleInsertion(r, len, f)
    PROVE  /\ WellFormed(s) /\ Contents(s) = Contents(r) \cup {f}
           /\ InsertionVictims(r) = {}
           /\ s.policy = r.policy /\ s.count = r.count + 1 /\ s.size = r.size
           /\ \A k \in Positions(r) : At(s, k) = At(r, k)
           /\ At(s, r.count) = f
           /\ Values(s) \subseteq Values(r) \cup {f}
<1>1. PICK policy \in CachePolicies, cache \in [Slots -> Files \cup {NoFile}], h \in Slots,
           m \in 0 .. MaxFileCount, size \in Int :
         /\ r = Ring(policy, cache, h, Turn(h, m), m, size) /\ m \in Slots
         /\ r.policy = policy /\ r.cache = cache /\ r.head = h /\ r.tail = Turn(h, m)
         /\ r.count = m /\ r.size = size
         /\ Positions(r) = 0 .. m - 1
         /\ \A k \in 0 .. m : FromHead(r, k) = Turn(h, k)
         /\ \A k \in 0 .. m - 1 : At(r, k) = cache[Turn(h, k)]
         /\ HasWindow(r, cache, h, m)
  BY FieldsOfRing
<1>2. PICK n \in 0 .. MaxFileCount : n = m + 1
  BY <1>1, CacheSizeType
<1>3. PICK c : c = Written(cache, Turn(h, m), f)
  OBVIOUS
<1>4. PICK d : d = c
  OBVIOUS
<1>5. InsertionVictims(r) = {} /\ IsRing(s, policy, d, h, n, size)
  <2>1. Forth(Turn(h, m)) = Turn(h, n)
    BY <1>1, <1>2, TurnOn
  <2>2. ~AtCountLimit(r)
    BY <1>1, MaxFileCountAssumption DEF AtCountLimit
  <2>3. InsertionVictims(r) = {}
    BY <2>2 DEF InsertionVictims
  <2>4. s = [r EXCEPT !.cache = d, !.head = h, !.tail = Forth(Turn(h, m)),
                      !.count = n, !.size = size]
    BY <1>1, <1>2, <1>3, <1>4, <2>2 DEF handleInsertion, Written
  <2>5. s = Ring(policy, d, h, Turn(h, n), n, size)
    BY <1>1, <2>1, <2>4 DEF Ring
  <2>. QED BY <2>3, <2>5 DEF IsRing
<1>0. PICK C : C = Contents(r) \cup {f}
  OBVIOUS
<1>6. cache \in Arrays(Values(r)) /\ cache \in Arrays(Files \cup {NoFile})
  BY <1>1, ArrayOfRing
<1>7. IsWritten(c, cache, h, m, f)
  BY <1>1, <1>3, <1>6, WriteAt
<1>8. /\ d \in Arrays(Values(r) \cup {f}) /\ d \in Arrays(Files \cup {NoFile})
      /\ \A i \in Slots : d[i] = c[i]
  BY <1>3, <1>4, <1>6 DEF Arrays, Written
<1>9. \A k \in Slots : d[Turn(h, k)] = IF k = m THEN f ELSE cache[Turn(h, k)]
  BY <1>7, <1>8, TurnIsSlot DEF IsWritten
<1>10. PICK w : w = [k \in 0 .. n - 1 |-> IF k = m THEN f ELSE cache[Turn(h, k)]]
  OBVIOUS
<1>11. /\ Contents(r) = {cache[Turn(h, k)] : k \in 0 .. m - 1}
       /\ \A k \in 0 .. m - 1 : cache[Turn(h, k)] \in Contents(r)
       /\ \A j, k \in 0 .. m - 1 : cache[Turn(h, j)] = cache[Turn(h, k)] => j = k
  BY <1>1, ContentsByPosition
<1>12. /\ w \in [0 .. n - 1 -> Files]
       /\ \A j, k \in 0 .. n - 1 : w[j] = w[k] => j = k
       /\ \A k \in 0 .. n - 1 : d[Turn(h, k)] = w[k]
  <2>1. \A k \in 0 .. n - 1 : k = m \/ k \in 0 .. m - 1
    BY <1>2
  <2>2. \A k \in 0 .. n - 1 : k \in Slots
    BY CacheSizeType DEF Slots
  <2>3. Contents(r) \subseteq Files
    BY ContentsOfWindow
  <2>. QED BY <1>9, <1>10, <1>11, <2>1, <2>2, <2>3
<1>13. C = {w[k] : k \in 0 .. n - 1}
  <2>1. \A k \in 0 .. n - 1 : w[k] \in Contents(r) \cup {f}
    <3>1. \A k \in 0 .. n - 1 : k = m \/ k \in 0 .. m - 1
      BY <1>2
    <3>. QED BY <1>10, <1>11, <3>1
  <2>2. \A k \in 0 .. m - 1 : k \in 0 .. n - 1 /\ w[k] = cache[Turn(h, k)]
    BY <1>2, <1>10
  <2>3. m \in 0 .. n - 1 /\ w[m] = f
    BY <1>2, <1>10
  <2>. QED BY <1>0, <1>11, <2>1, <2>2, <2>3
<1>14. /\ WellFormed(s) /\ Contents(s) = C
       /\ s.policy = policy /\ s.count = n /\ s.size = size
       /\ \A k \in 0 .. n - 1 : At(s, k) = w[k]
       /\ Values(s) \subseteq Values(r) \cup {f}
  <2>1. IsListed(d, h, n, w, C)
    BY <1>8, <1>12, <1>13 DEF IsListed
  <2>2. \A S : d \in Arrays(S) => Values(s) \subseteq S
    BY <1>5, <2>1, RingOfFiles
  <2>3. /\ WellFormed(s) /\ Contents(s) = C
        /\ s.policy = policy /\ s.count = n /\ s.size = size
        /\ \A k \in 0 .. n - 1 : At(s, k) = w[k]
    BY <1>5, <2>1, RingOfFiles
  <2>. QED BY <1>8, <2>2, <2>3
<1>15. (\A k \in 0 .. m - 1 : At(s, k) = At(r, k)) /\ At(s, m) = f
  BY <1>1, <1>2, <1>10, <1>14
<1>. QED BY <1>0, <1>1, <1>2, <1>5, <1>14, <1>15

\* A new file at the limit goes to the tail, and the oldest file leaves.
LEMMA InsertionAtLimit ==
    ASSUME NEW r, WellFormed(r), r.count = MaxFileCount, ~InsertionReadsDangling(r),
           NEW len \in [Files -> Int],
           NEW f \in Files, f \notin Contents(r), NEW s, s = handleInsertion(r, len, f)
    PROVE  /\ WellFormed(s) /\ Contents(s) = (Contents(r) \cup {f}) \ {At(r, 0)}
           /\ InsertionVictims(r) = {At(r, 0)} /\ At(r, 0) \in Contents(r)
           /\ r.cache[Forth(r.head)] \in Files
           /\ s.policy = r.policy /\ s.count = r.count
           /\ s.size = r.size - len[r.cache[Forth(r.head)]]
           /\ \A k \in 0 .. r.count - 2 : At(s, k) = At(r, k + 1)
           /\ At(s, r.count - 1) = f
           /\ Values(s) \subseteq Values(r) \cup {f}
<1>1. PICK policy \in CachePolicies, cache \in [Slots -> Files \cup {NoFile}], h \in Slots,
           m \in 0 .. MaxFileCount, size \in Int :
         /\ r = Ring(policy, cache, h, Turn(h, m), m, size) /\ m \in Slots
         /\ r.policy = policy /\ r.cache = cache /\ r.head = h /\ r.tail = Turn(h, m)
         /\ r.count = m /\ r.size = size
         /\ Positions(r) = 0 .. m - 1
         /\ \A k \in 0 .. m : FromHead(r, k) = Turn(h, k)
         /\ \A k \in 0 .. m - 1 : At(r, k) = cache[Turn(h, k)]
         /\ HasWindow(r, cache, h, m)
  BY FieldsOfRing
<1>2. m = MaxFileCount /\ m >= 1 /\ Turn(h, 0) = h /\ AtCountLimit(r)
  <2>1. m = MaxFileCount /\ m >= 1
    BY <1>1, MaxFileCountAssumption
  <2>2. Turn(h, 0) = h
    BY TurnIsOnto
  <2>3. AtCountLimit(r)
    BY <1>1, <2>1 DEF AtCountLimit
  <2>. QED BY <2>1, <2>2, <2>3
<1>3. PICK v : v = cache[h]
  OBVIOUS
<1>4. InsertionVictims(r) = {v} /\ At(r, 0) = v /\ v \in Contents(r)
  <2>1. InsertionVictims(r) = {v}
    BY <1>1, <1>2, <1>3 DEF InsertionVictims
  <2>2. 0 \in 0 .. m - 1
    BY <1>1, <1>2
  <2>. QED BY <1>1, <1>2, <1>3, <2>1, <2>2 DEF Contents
<1>5. PICK x : x = cache[Forth(h)]
  OBVIOUS
<1>6. x \in Files /\ r.cache[Forth(r.head)] = x
  BY <1>1, <1>2, <1>5 DEF InsertionReadsDangling
<1>7. PICK c : c = Written(cache, Turn(h, m), f)
  OBVIOUS
<1>8. PICK d : d = c
  OBVIOUS
<1>9. PICK g \in Slots : g = Turn(h, 1) /\ Turn(g, m) = Turn(h, m + 1)
  BY <1>1, TurnOn
<1>10. IsRing(s, policy, d, g, m, size - len[x])
  <2>1. Forth(Turn(h, m)) = Turn(g, m) /\ Forth(h) = g
    BY <1>1, <1>9, TurnOn, SlotArithmetic
  <2>2. size - len[x] \in Int
    BY <1>1, <1>6
  <2>3. s = [r EXCEPT !.cache = d, !.head = g, !.tail = Turn(g, m), !.count = m,
                      !.size = size - len[x]]
    BY <1>1, <1>2, <1>4, <1>5, <1>7, <1>8, <2>1 DEF handleInsertion, Written
  <2>4. s = Ring(policy, d, g, Turn(g, m), m, size - len[x])
    BY <1>1, <2>3 DEF Ring
  <2>. QED BY <1>1, <2>2, <2>4 DEF IsRing
<1>11. PICK C : C = (Contents(r) \cup {f}) \ {v}
  OBVIOUS
<1>12. /\ Contents(r) = {cache[Turn(h, k)] : k \in 0 .. m - 1}
       /\ \A k \in 0 .. m - 1 : cache[Turn(h, k)] \in Contents(r)
       /\ \A j, k \in 0 .. m - 1 : cache[Turn(h, j)] = cache[Turn(h, k)] => j = k
       /\ Contents(r) \subseteq Files
  <2>1. Contents(r) \subseteq Files
    BY ContentsOfWindow
  <2>2. /\ Contents(r) = {cache[Turn(h, k)] : k \in 0 .. m - 1}
        /\ \A k \in 0 .. m - 1 : cache[Turn(h, k)] \in Contents(r)
        /\ \A j, k \in 0 .. m - 1 : cache[Turn(h, j)] = cache[Turn(h, k)] => j = k
    BY <1>1, ContentsByPosition
  <2>. QED BY <2>1, <2>2
<1>13. cache \in Arrays(Values(r)) /\ cache \in Arrays(Files \cup {NoFile})
  <2>1. r.cache = cache
    BY <1>1
  <2>. QED BY <2>1, ArrayOfRing
<1>14. IsWritten(c, cache, h, m, f)
  BY <1>1, <1>7, <1>13, WriteAt
<1>15. c \in Arrays(Values(r) \cup {f}) /\ c \in Arrays(Files \cup {NoFile})
  BY <1>7, <1>13 DEF Arrays, Written
<1>16. /\ d \in Arrays(Values(r) \cup {f}) /\ d \in Arrays(Files \cup {NoFile})
       /\ \A i \in Slots : d[i] = c[i]
  BY <1>8, <1>15
<1>17. ASSUME NEW k \in 0 .. m - 1
       PROVE  d[Turn(g, k)] = IF k = m - 1 THEN f ELSE cache[Turn(h, k + 1)]
  <2>1. PICK j : j = k + 1
    OBVIOUS
  <2>2. j \in Slots /\ (j = m <=> k = m - 1) /\ j # 0
    BY <1>1, <2>1, CacheSizeType DEF Slots
  <2>3. Turn(g, k) = Turn(h, j) /\ Turn(h, j) \in Slots
    BY <1>1, <1>9, <2>1, <2>2, CacheSizeType, TurnIsSlot DEF Turn, Slots
  <2>4. c[Turn(h, j)] = IF j = m THEN f ELSE cache[Turn(h, j)]
    BY <1>14, <2>2 DEF IsWritten
  <2>. QED BY <1>16, <2>1, <2>2, <2>3, <2>4
<1>18. PICK w : w = [k \in 0 .. m - 1 |-> IF k = m - 1 THEN f ELSE cache[Turn(h, k + 1)]]
  OBVIOUS
<1>19. \A k \in 0 .. m - 1 : k # m - 1 => k + 1 \in 0 .. m - 1 /\ k + 1 # 0
  BY <1>1
<1>20. \A k \in 0 .. m - 1 : w[k] \in C
  <2>1. \A k \in 0 .. m - 1 : k # 0 => cache[Turn(h, k)] \in C
    <3>1. \A k \in 0 .. m - 1 : k # 0 => cache[Turn(h, k)] # cache[Turn(h, 0)]
      BY <1>1, <1>2, <1>12
    <3>. QED BY <1>2, <1>3, <1>11, <1>12, <3>1
  <2>2. f \in C
    BY <1>4, <1>11
  <2>. QED BY <1>18, <1>19, <2>1, <2>2
<1>21. IsListed(d, g, m, w, C)
  <2>1. C \subseteq Files
    BY <1>11, <1>12
  <2>2. w \in [0 .. m - 1 -> Files]
    BY <1>18, <1>20, <2>1
  <2>3. \A j, k \in 0 .. m - 1 : w[j] = w[k] => j = k
    BY <1>12, <1>18, <1>19
  <2>4. \A k \in 0 .. m - 1 : d[Turn(g, k)] = w[k]
    BY <1>17, <1>18
  <2>5. \A y \in C : \E k \in 0 .. m - 1 : w[k] = y
    <3>1. ASSUME NEW y \in C
          PROVE  \E k \in 0 .. m - 1 : w[k] = y
      <4>1. CASE y = f
        <5>1. m - 1 \in 0 .. m - 1 /\ w[m - 1] = f
          BY <1>1, <1>2, <1>18
        <5>. QED BY <4>1, <5>1
      <4>2. CASE y # f
        <5>1. PICK k \in 0 .. m - 1 : y = cache[Turn(h, k)]
          BY <1>11, <1>12, <4>2
        <5>2. k # 0
          BY <1>2, <1>3, <1>11, <5>1
        <5>3. PICK j \in 0 .. m - 1 : j + 1 = k /\ j # m - 1
          BY <1>1, <5>2
        <5>4. w[j] = y
          BY <1>18, <5>1, <5>3
        <5>. QED BY <5>4
      <4>. QED BY <4>1, <4>2
    <3>. QED BY <3>1
  <2>. QED BY <1>16, <1>20, <2>2, <2>3, <2>4, <2>5 DEF IsListed
<1>22. /\ WellFormed(s) /\ Contents(s) = C
       /\ s.policy = policy /\ s.count = m /\ s.size = size - len[x]
       /\ \A k \in 0 .. m - 1 : At(s, k) = w[k]
  BY <1>10, <1>21, RingOfFiles
<1>24. Values(s) \subseteq Values(r) \cup {f}
  <2>1. \A S : d \in Arrays(S) => Values(s) \subseteq S
    BY <1>10, <1>21, RingOfFiles
  <2>. QED BY <1>16, <2>1
<1>23. /\ \A k \in 0 .. m - 2 : At(s, k) = At(r, k + 1)
       /\ At(s, m - 1) = f
  <2>1. \A k \in 0 .. m - 2 : k \in 0 .. m - 1 /\ k # m - 1 /\ k + 1 \in 0 .. m - 1
    BY <1>1
  <2>2. m - 1 \in 0 .. m - 1
    BY <1>1, <1>2
  <2>. QED BY <1>1, <1>18, <1>22, <2>1, <2>2, ZenonT(30)
<1>. QED BY <1>1, <1>4, <1>6, <1>11, <1>22, <1>23, <1>24

----------------------------------------------------------------------------
(* handleRemoval.                                                          *)

\* The files of the m positions of an array from h on that from names, in its order.
Picked(cache, h, from, q) == [k \in 0 .. q - 1 |-> cache[Turn(h, from[k])]]

\* from names q of m positions, none twice, and all of them but those of F.
IsPick(from, q, m, cache, h, F) ==
    /\ q \in Nat /\ m \in Nat
    /\ from \in [0 .. q - 1 -> 0 .. m - 1]
    /\ \A j, k \in 0 .. q - 1 : from[j] = from[k] => j = k
    /\ \A i \in 0 .. m - 1 : cache[Turn(h, i)] \in F <=> \A k \in 0 .. q - 1 : from[k] # i

\* Array d has them from g on.
IsCopied(d, g, cache, h, from, q) == \A k \in 0 .. q - 1 : d[Turn(g, k)] = cache[Turn(h, from[k])]

\* C is what ring r holds without F, and array d holds nothing but what r points to.
IsRest(C, d, r, F) ==
    /\ C = Contents(r) \ F
    /\ d \in Arrays(Values(r)) /\ d \in Arrays(Files \cup {NoFile})

\* What is picked from the window of a ring is a list of its files, without F.
LEMMA PickedIsListed ==
    ASSUME NEW r, WellFormed(r), NEW cache, NEW h, NEW m, HasWindow(r, cache, h, m),
           NEW q, NEW from, NEW F, IsPick(from, q, m, cache, h, F),
           NEW d, NEW g, IsCopied(d, g, cache, h, from, q), NEW C, IsRest(C, d, r, F)
    PROVE  IsListed(d, g, q, Picked(cache, h, from, q), C)
<1>1. /\ Contents(r) = {cache[Turn(h, k)] : k \in 0 .. m - 1}
      /\ \A k \in 0 .. m - 1 : cache[Turn(h, k)] \in Contents(r)
      /\ \A j, k \in 0 .. m - 1 : cache[Turn(h, j)] = cache[Turn(h, k)] => j = k
  BY ContentsByPosition
<1>2. PICK w : w = Picked(cache, h, from, q)
  OBVIOUS
<1>3. \A k \in 0 .. q - 1 : from[k] \in 0 .. m - 1 /\ w[k] = cache[Turn(h, from[k])]
  BY <1>2 DEF Picked, IsPick
<1>4. \A k \in 0 .. q - 1 : w[k] \in C
  BY <1>1, <1>3 DEF IsPick, IsRest
<1>5. w \in [0 .. q - 1 -> Files]
  <2>1. Contents(r) \subseteq Files
    BY ContentsOfWindow DEF IsRest
  <2>2. \A k \in 0 .. q - 1 : w[k] \in Files
    BY <1>4, <2>1 DEF IsRest
  <2>. QED BY <1>2, <2>2 DEF Picked
<1>6. ASSUME NEW j \in 0 .. q - 1, NEW k \in 0 .. q - 1, w[j] = w[k]
      PROVE  j = k
  <2>1. from[j] = from[k]
    BY <1>1, <1>3, <1>6
  <2>. QED BY <2>1 DEF IsPick
<1>7. ASSUME NEW y \in C
      PROVE  \E k \in 0 .. q - 1 : w[k] = y
  <2>1. PICK i \in 0 .. m - 1 : y = cache[Turn(h, i)]
    BY <1>1 DEF IsRest
  <2>2. cache[Turn(h, i)] \notin F
    BY <2>1 DEF IsRest
  <2>3. PICK k \in 0 .. q - 1 : from[k] = i
    BY <2>2 DEF IsPick
  <2>. QED BY <1>3, <2>1, <2>3
<1>8. C = {w[k] : k \in 0 .. q - 1}
  BY <1>4, <1>7
<1>9. \A k \in 0 .. q - 1 : d[Turn(g, k)] = w[k]
  BY <1>3 DEF IsCopied
<1>. QED BY <1>2, <1>5, <1>6, <1>8, <1>9 DEF IsListed, IsRest

\* A ring that has what is picked from another one has it from these positions.
LEMMA PickedAt ==
    ASSUME NEW r, NEW cache, NEW h, NEW m, HasWindow(r, cache, h, m),
           NEW q, NEW from, NEW F, IsPick(from, q, m, cache, h, F),
           NEW s, \A k \in 0 .. q - 1 : At(s, k) = Picked(cache, h, from, q)[k]
    PROVE  \A k \in 0 .. q - 1 : At(s, k) = At(r, from[k])
<1>. SUFFICES ASSUME NEW k \in 0 .. q - 1
              PROVE  At(s, k) = At(r, from[k])
  OBVIOUS
<1>1. from[k] \in 0 .. m - 1
  BY DEF IsPick
<1>2. At(s, k) = cache[Turn(h, from[k])]
  BY DEF Picked
<1>. QED BY <1>1, <1>2 DEF HasWindow

\* A removed file leaves, the others keep their order.
LEMMA RemovalKeeps ==
    ASSUME NEW r, WellFormed(r), NEW len \in [Files -> Int], NEW f \in Contents(r),
           NEW s, s = handleRemoval(r, len, f)
    PROVE  /\ WellFormed(s) /\ Contents(s) = Contents(r) \ {f}
           /\ s.policy = r.policy /\ s.count = r.count - 1 /\ s.size = r.size - len[f]
           /\ \A k \in 0 .. r.count - 2 :
                 At(s, k) = At(r, IF k < SearchLength(r, f) THEN k ELSE k + 1)
           /\ Values(s) \subseteq Values(r)
<1>1. PICK policy \in CachePolicies, cache \in [Slots -> Files \cup {NoFile}], h \in Slots,
           m \in 0 .. MaxFileCount, size \in Int :
         /\ r = Ring(policy, cache, h, Turn(h, m), m, size) /\ m \in Slots
         /\ r.policy = policy /\ r.cache = cache /\ r.head = h /\ r.tail = Turn(h, m)
         /\ r.count = m /\ r.size = size
         /\ Positions(r) = 0 .. m - 1
         /\ \A k \in 0 .. m : FromHead(r, k) = Turn(h, k)
         /\ \A k \in 0 .. m - 1 : At(r, k) = cache[Turn(h, k)]
         /\ HasWindow(r, cache, h, m)
  BY FieldsOfRing
<1>2. PICK n : n = SearchLength(r, f)
  OBVIOUS
<1>3. n \in 0 .. m - 1 /\ n \in Slots /\ cache[Turn(h, n)] = f /\ m \in 1 .. MaxFileCount
      /\ FromHead(r, n) = Turn(h, n)
  <2>1. n \in 0 .. m - 1 /\ At(r, n) = f
    BY <1>1, <1>2, SearchFinds
  <2>. QED BY <1>1, <2>1, CacheSizeType DEF Slots
<1>4. PICK shifts : shifts = (IF IsFIFO(r) THEN n + 1 ELSE n)
  OBVIOUS
<1>5. shifts = n \/ shifts = n + 1
  BY <1>4
<1>6. PICK c : c = ShiftUp(cache, Turn(h, n), shifts)
  OBVIOUS
<1>7. IsClosed(c, cache, h, n)
  <2>1. IsShifted(c, cache, h, n)
    BY <1>3, <1>5, <1>6, ShiftAt
  <2>. QED BY <1>3, <2>1, ClosedArray
<1>8. PICK d : d = c
  OBVIOUS
<1>9. PICK g \in Slots : g = Turn(h, 1)
  BY <1>1, TurnOn
<1>10. PICK q \in 0 .. MaxFileCount : q = m - 1
  BY <1>3, CacheSizeType
<1>11. IsRing(s, policy, d, g, q, size - len[f])
  <2>1. Forth(h) = g /\ Turn(g, q) = Turn(h, m)
    BY <1>3, <1>9, <1>10, SlotArithmetic, CacheSizeType DEF Turn, Slots
  <2>2. f \in Files
    BY ContentsOfWindow
  <2>3. s = [r EXCEPT !.cache = d, !.head = g, !.count = q, !.size = size - len[f]]
    BY <1>1, <1>2, <1>3, <1>4, <1>6, <1>8, <1>10, <2>1 DEF handleRemoval
  <2>4. s = Ring(policy, d, g, Turn(g, q), q, size - len[f])
    BY <1>1, <2>1, <2>3 DEF Ring
  <2>. QED BY <1>1, <1>9, <1>10, <2>2, <2>4 DEF IsRing
<1>12. PICK from : from = [k \in 0 .. q - 1 |-> IF k < n THEN k ELSE k + 1]
  OBVIOUS
<1>13. IsPick(from, q, m, cache, h, {f})
  <2>1. /\ from \in [0 .. q - 1 -> 0 .. m - 1]
        /\ \A j, k \in 0 .. q - 1 : from[j] = from[k] => j = k
        /\ \A k \in 0 .. q - 1 : from[k] # n
    BY <1>3, <1>10, <1>12
  <2>2. \A i \in 0 .. m - 1 : cache[Turn(h, i)] = f <=> i = n
    <3>1. \A j, k \in 0 .. m - 1 : cache[Turn(h, j)] = cache[Turn(h, k)] => j = k
      BY <1>1, ContentsByPosition
    <3>. QED BY <1>3, <3>1
  <2>3. ASSUME NEW i \in 0 .. m - 1, i # n
        PROVE  \E k \in 0 .. q - 1 : from[k] = i
    <3>1. CASE i < n
      BY <1>3, <1>10, <1>12, <3>1
    <3>2. CASE i > n
      <4>1. i - 1 \in 0 .. q - 1 /\ from[i - 1] = i
        BY <1>3, <1>10, <1>12, <3>2
      <4>. QED BY <4>1
    <3>. QED BY <1>3, <2>3, <3>1, <3>2
  <2>. QED BY <1>10, <2>1, <2>2, <2>3 DEF IsPick
<1>14. PICK C : C = Contents(r) \ {f}
  OBVIOUS
<1>15. IsRest(C, d, r, {f})
  <2>1. cache \in Arrays(Values(r)) /\ cache \in Arrays(Files \cup {NoFile})
    BY <1>1, ArrayOfRing
  <2>2. c \in Arrays(Values(r)) /\ c \in Arrays(Files \cup {NoFile})
    BY <1>6, <2>1, ShiftedFrom
  <2>. QED BY <1>8, <1>14, <2>2 DEF IsRest
<1>16. ASSUME NEW k \in 0 .. q - 1
       PROVE  d[Turn(g, k)] = cache[Turn(h, from[k])]
  <2>1. c[Turn(g, k)] = cache[Turn(h, from[k])]
    <3>1. k \in 0 .. MaxFileCount - 1
      BY <1>10, CacheSizeType
    <3>2. c[Turn(Turn(h, 1), k)] = IF k < n THEN cache[Turn(h, k)] ELSE cache[Turn(h, k + 1)]
      BY <1>7, <3>1 DEF IsClosed
    <3>3. from[k] = IF k < n THEN k ELSE k + 1
      BY <1>12
    <3>. QED BY <1>9, <3>2, <3>3
  <2>. QED BY <1>8, <2>1
<1>17. IsListed(d, g, q, Picked(cache, h, from, q), C)
  <2>1. IsCopied(d, g, cache, h, from, q)
    BY <1>16 DEF IsCopied
  <2>. QED BY <1>1, <1>13, <1>15, <2>1, PickedIsListed
<1>18. /\ WellFormed(s) /\ Contents(s) = C
       /\ s.policy = policy /\ s.count = q /\ s.size = size - len[f]
       /\ \A k \in 0 .. q - 1 : At(s, k) = Picked(cache, h, from, q)[k]
  BY <1>11, <1>17, RingOfFiles
<1>19. \A k \in 0 .. q - 1 : At(s, k) = At(r, from[k])
  BY <1>1, <1>13, <1>18, PickedAt, SMTT(30)
<1>20. \A k \in 0 .. m - 2 : At(s, k) = At(r, IF k < n THEN k ELSE k + 1)
  <2>1. \A k \in 0 .. m - 2 : k \in 0 .. q - 1
    BY <1>10
  <2>. QED BY <1>12, <1>19, <2>1
<1>21. Values(s) \subseteq Values(r)
  <2>1. \A S : d \in Arrays(S) => Values(s) \subseteq S
    BY <1>11, <1>17, RingOfFiles
  <2>. QED BY <1>15, <2>1 DEF IsRest
<1>. QED BY <1>1, <1>2, <1>10, <1>14, <1>18, <1>20, <1>21

----------------------------------------------------------------------------
(* The two loops of caching.c, and a third one that shortens a list.       *)

\* A least counterexample, if there is one.
LEMMA LeastOf ==
    ASSUME NEW S \in SUBSET Nat, S # {}
    PROVE  \E m \in S : \A n \in Nat : n < m => n \notin S
<1>1. PICK m \in Nat : m \in S /\ \A x \in S : m <= x
  BY MinIsLeast
<1>. QED BY <1>1

(***************************************************************************)
(* One round of a loop: the total goes down by c[k], the file in slot c[k] *)
(* of the ring is used, or one more of the files c.list goes on the list,  *)
(* unless it is one of c.gone.                                             *)
(***************************************************************************)
Step(kind, c, x, k) ==
    IF kind = "total" THEN x - c[k]
    ELSE IF kind = "use" THEN handleUsage(x, x.cache[c[k]])
    ELSE IF c.list[k + 1] \in c.gone THEN x ELSE Append(x, c.list[k + 1])

\* p is what n rounds from a go through.
IsTrail(p, n, kind, a, c) ==
    p = [k \in 0 .. n |-> IF k = 0 THEN a ELSE Step(kind, c, p[k - 1], k - 1)]

\* Trails of any length exist, and they agree.
LEMMA Trails ==
    ASSUME NEW kind, NEW a, NEW c
    PROVE  /\ \A n \in Nat : \E p : IsTrail(p, n, kind, a, c)
           /\ \A p, q : \A n \in Nat :
                 IsTrail(p, n, kind, a, c) /\ IsTrail(q, n + 1, kind, a, c) => p[n] = q[n]
<1>1. ASSUME NEW n \in Nat, ~ \E p : IsTrail(p, n, kind, a, c)
      PROVE  FALSE
  <2>. DEFINE S == {k \in Nat : ~ \E p : IsTrail(p, k, kind, a, c)}
  <2>1. n \in S /\ S \in SUBSET Nat
    BY <1>1
  <2>2. PICK m \in S : \A k \in Nat : k < m => k \notin S
    BY <2>1, LeastOf
  <2>3. CASE m = 0
    <3>. DEFINE p == [k \in 0 .. m |-> a]
    <3>1. IsTrail(p, m, kind, a, c)
      BY <2>3 DEF IsTrail
    <3>. QED BY <2>2, <3>1
  <2>4. CASE m # 0
    <3>1. PICK j \in Nat : m = j + 1
      BY <2>2, <2>4
    <3>2. PICK p : IsTrail(p, j, kind, a, c)
      BY <2>2, <3>1
    <3>3. p = [k \in 0 .. j |-> IF k = 0 THEN a ELSE Step(kind, c, p[k - 1], k - 1)]
      BY <3>2 DEF IsTrail
    <3>4. PICK q : q = [k \in 0 .. m |-> IF k = m THEN Step(kind, c, p[j], j) ELSE p[k]]
      OBVIOUS
    <3>5. ASSUME NEW k \in 0 .. m
          PROVE  q[k] = IF k = 0 THEN a ELSE Step(kind, c, q[k - 1], k - 1)
      <4>1. CASE k = m
        BY <3>1, <3>4, <4>1
      <4>2. CASE k # m
        <5>1. k \in 0 .. j /\ (k # 0 => k - 1 \in 0 .. j)
          BY <3>1, <4>2
        <5>2. p[k] = IF k = 0 THEN a ELSE Step(kind, c, p[k - 1], k - 1)
          BY <3>3, <5>1
        <5>. QED BY <3>1, <3>4, <4>2, <5>1, <5>2
      <4>. QED BY <4>1, <4>2
    <3>6. IsTrail(q, m, kind, a, c)
      BY <3>4, <3>5 DEF IsTrail
    <3>. QED BY <2>2, <3>6
  <2>. QED BY <2>3, <2>4
<1>2. ASSUME NEW p, NEW q, NEW n \in Nat, IsTrail(p, n, kind, a, c), IsTrail(q, n + 1, kind, a, c),
             p[n] # q[n]
      PROVE  FALSE
  <2>. DEFINE S == {k \in 0 .. n : p[k] # q[k]}
  <2>1. n \in S /\ S \in SUBSET Nat
    BY <1>2
  <2>2. PICK m \in S : \A k \in Nat : k < m => k \notin S
    BY <2>1, LeastOf
  <2>3. /\ p[m] = IF m = 0 THEN a ELSE Step(kind, c, p[m - 1], m - 1)
        /\ q[m] = IF m = 0 THEN a ELSE Step(kind, c, q[m - 1], m - 1)
    BY <1>2, <2>2 DEF IsTrail
  <2>4. m # 0 => p[m - 1] = q[m - 1]
    BY <2>2
  <2>. QED BY <2>2, <2>3, <2>4
<1>. QED BY <1>1, <1>2

\* x goes on without end.
IsEndless(x, kind, a, c) == x = [k \in Nat |-> IF k = 0 THEN a ELSE Step(kind, c, x[k - 1], k - 1)]

\* So there is a trail that never ends.
LEMMA EndlessTrail ==
    ASSUME NEW kind, NEW a, NEW c
    PROVE  \E x : IsEndless(x, kind, a, c)
<1>. DEFINE P(n) == CHOOSE p : IsTrail(p, n, kind, a, c)
<1>1. \A n \in Nat : IsTrail(P(n), n, kind, a, c)
  BY Trails
<1>. HIDE DEF P
<1>2. PICK x : x = [k \in Nat |-> P(k)[k]]
  OBVIOUS
<1>3. ASSUME NEW k \in Nat
      PROVE  x[k] = IF k = 0 THEN a ELSE Step(kind, c, x[k - 1], k - 1)
  <2>1. x[k] = P(k)[k]
    BY <1>2
  <2>2. P(k)[k] = IF k = 0 THEN a ELSE Step(kind, c, P(k)[k - 1], k - 1)
    <3>1. PICK p : p = P(k)
      OBVIOUS
    <3>2. p = [i \in 0 .. k |-> IF i = 0 THEN a ELSE Step(kind, c, p[i - 1], i - 1)]
      BY <1>1, <3>1 DEF IsTrail
    <3>3. k \in 0 .. k
      OBVIOUS
    <3>4. p[k] = IF k = 0 THEN a ELSE Step(kind, c, p[k - 1], k - 1)
      BY <3>2, <3>3
    <3>. QED BY <3>1, <3>4
  <2>3. CASE k # 0
    <3>1. PICK j \in Nat : k = j + 1
      BY <2>3
    <3>2. P(j)[j] = P(k)[j]
      BY <1>1, <3>1, Trails
    <3>3. k - 1 = j /\ x[j] = P(j)[j]
      BY <1>2, <3>1
    <3>. QED BY <2>1, <2>2, <2>3, <3>2, <3>3
  <2>. QED BY <2>1, <2>2, <2>3
<1>. QED BY <1>2, <1>3 DEF IsEndless


----------------------------------------------------------------------------
(* handleEdit.                                                             *)

\* The eviction loop of handleEdit takes the files off one by one, except the one being edited.
LEMMA ExpectedSizeSteps ==
    ASSUME NEW r, NEW len, NEW f, NEW newSize,
           NEW e, e = ExpectedSize(r, len, f, newSize)
    PROVE  /\ e[0] = r.size + newSize - len[f]
           /\ \A k \in Nat : e[k + 1] = e[k] - (IF r.cache[FromHead(r, k)] = f THEN 0
                                                ELSE len[r.cache[FromHead(r, k)]])
<1>. DEFINE start == r.size + newSize - len[f]
            took(k) == IF r.cache[FromHead(r, k)] = f THEN 0 ELSE len[r.cache[FromHead(r, k)]]
<1>1. e = CHOOSE x : x = [k \in Nat |-> IF k = 0 THEN start ELSE x[k - 1] - took(k - 1)]
  BY DEF ExpectedSize
<1>. HIDE DEF start, took
<1>2. PICK c : c = [k \in Nat |-> took(k)]
  OBVIOUS
<1>3. PICK x : IsEndless(x, "total", start, c)
  BY EndlessTrail
<1>4. x = [k \in Nat |-> IF k = 0 THEN start ELSE x[k - 1] - took(k - 1)]
  <2>1. \A k \in Nat : k # 0 => c[k - 1] = took(k - 1)
    BY <1>2
  <2>. QED BY <1>3, <2>1 DEF IsEndless, Step
<1>5. e = [k \in Nat |-> IF k = 0 THEN start ELSE e[k - 1] - took(k - 1)]
  BY <1>1, <1>4
<1>6. e[0] = start
  BY <1>5
<1>7. ASSUME NEW k \in Nat
      PROVE  e[k + 1] = e[k] - took(k)
  <2>1. PICK j \in Nat : j = k + 1 /\ j # 0 /\ j - 1 = k
    OBVIOUS
  <2>2. e[j] = e[j - 1] - took(j - 1)
    BY <1>5, <2>1
  <2>. QED BY <2>1, <2>2
<1>. QED BY <1>6, <1>7 DEF start, took

\* As long as it stays in the window, it counts bytes.
LEMMA ExpectedSizeType ==
    ASSUME NEW r, WellFormed(r), NEW len \in [Files -> Int], NEW f \in Files, NEW newSize \in Int
    PROVE  \A k \in 0 .. r.count : ExpectedSize(r, len, f, newSize)[k] \in Int
<1>1. PICK e : e = ExpectedSize(r, len, f, newSize)
  OBVIOUS
<1>2. PICK m \in Nat : m = r.count
  BY RingFields DEF WellFormed
<1>3. /\ e[0] = r.size + newSize - len[f]
      /\ \A k \in Nat : e[k + 1] = e[k] - (IF r.cache[FromHead(r, k)] = f THEN 0
                                           ELSE len[r.cache[FromHead(r, k)]])
  BY <1>1, ExpectedSizeSteps
<1>4. e[0] \in Int
  <2>1. r.size \in Int
    BY RingFields DEF WellFormed
  <2>. QED BY <1>3, <2>1
<1>5. ASSUME NEW k \in 0 .. m - 1, e[k] \in Int
      PROVE  e[k + 1] \in Int
  <2>1. At(r, k) \in Files
    BY <1>2 DEF WellFormed, Positions
  <2>2. PICK x : x = r.cache[FromHead(r, k)] /\ x \in Files
    BY <2>1 DEF At
  <2>3. e[k + 1] = e[k] - (IF x = f THEN 0 ELSE len[x])
    BY <1>3, <2>2
  <2>. QED BY <1>5, <2>2, <2>3
<1>6. ASSUME NEW i \in 0 .. m, e[i] \notin Int
      PROVE  FALSE
  <2>. DEFINE S == {k \in 0 .. m : e[k] \notin Int}
  <2>1. i \in S /\ S \in SUBSET Nat
    BY <1>6
  <2>2. PICK k \in S : \A n \in Nat : n < k => n \notin S
    BY <2>1, LeastOf
  <2>3. CASE k = 0
    BY <1>4, <2>2, <2>3
  <2>4. CASE k # 0
    <3>1. PICK j \in 0 .. m - 1 : k = j + 1
      BY <2>2, <2>4
    <3>2. e[j] \in Int
      BY <2>2, <3>1
    <3>. QED BY <1>5, <2>2, <3>1, <3>2
  <2>. QED BY <2>3, <2>4
<1>. QED BY <1>1, <1>2, <1>6

\* The loop stops inside the window, at a total that fits.
LEMMA EditScanStops ==
    ASSUME NEW r, WellFormed(r), NEW len \in [Files -> Int], NEW f \in Files, NEW newSize \in Int,
           ~EditOverruns(r, len, f, newSize)
    PROVE  LET n == EditScan(r, len, f, newSize)
               size == ExpectedSize(r, len, f, newSize)[n]
           IN  n \in 0 .. r.count /\ size \in Int /\ size <= MaxMemorySize
<1>1. PICK S : S = EditStops(r, len, f, newSize)
  OBVIOUS
<1>2. S \in SUBSET Nat /\ S # {}
  <2>1. r.count \in Nat
    BY RingFields DEF WellFormed
  <2>. QED BY <1>1, <2>1 DEF EditStops, EditOverruns
<1>3. Min(S) \in S
  BY <1>2, MinIsLeast
<1>. QED BY <1>1, <1>3, ExpectedSizeType DEF EditStops, EditScan

\* The first n files of a window without the one at position p.
IsEvicted(V, cache, h, m, n, p) ==
    /\ n \in 0 .. m /\ p \in 0 .. m - 1
    /\ \A i \in 0 .. m - 1 : cache[Turn(h, i)] \in V <=> i < n /\ i # p

\* The files an edit takes out are the oldest ones, as many as the loop has looked at.
LEMMA EditVictimsAt ==
    ASSUME NEW r, WellFormed(r), NEW cache, NEW h, NEW m, HasWindow(r, cache, h, m),
           NEW len, NEW f \in Contents(r), NEW newSize,
           NEW n, n = EditScan(r, len, f, newSize), n \in 0 .. m,
           NEW p, p = SearchLength(r, f), NEW V, V = EditVictims(r, len, f, newSize)
    PROVE  /\ IsEvicted(V, cache, h, m, n, p) /\ cache[Turn(h, p)] = f
           /\ V \subseteq Contents(r) \ {f}
           /\ Cardinality(V) = IF n > p THEN n - 1 ELSE n
<1>1. /\ Contents(r) = {cache[Turn(h, k)] : k \in 0 .. m - 1}
      /\ \A k \in 0 .. m - 1 : cache[Turn(h, k)] \in Contents(r)
      /\ \A j, k \in 0 .. m - 1 : cache[Turn(h, j)] = cache[Turn(h, k)] => j = k
  BY ContentsByPosition
<1>2. m \in Nat /\ r.count = m /\ \A k \in 0 .. m - 1 : At(r, k) = cache[Turn(h, k)]
  BY CacheSizeType DEF HasWindow
<1>3. p \in 0 .. m - 1 /\ cache[Turn(h, p)] = f
  BY <1>2, SearchFinds DEF Positions
<1>4. n \in Nat /\ \A k \in 0 .. n - 1 : k \in 0 .. m - 1
  BY <1>2
<1>5. PICK W : W = {cache[Turn(h, k)] : k \in 0 .. n - 1}
  OBVIOUS
<1>6. V = W \ {f}
  <2>1. \A k \in 0 .. n - 1 : r.cache[FromHead(r, k)] = cache[Turn(h, k)]
    BY <1>2, <1>4 DEF At
  <2>. QED BY <1>5, <2>1 DEF EditVictims
<1>7. \A i \in 0 .. m - 1 : cache[Turn(h, i)] \in W <=> i < n
  BY <1>1, <1>2, <1>4, <1>5
<1>8. \A i \in 0 .. m - 1 : cache[Turn(h, i)] = f <=> i = p
  BY <1>1, <1>3
<1>9. IsEvicted(V, cache, h, m, n, p)
  BY <1>3, <1>6, <1>7, <1>8 DEF IsEvicted
<1>10. W \subseteq Contents(r)
  BY <1>1, <1>4, <1>5
<1>11. IsFiniteSet(W) /\ Cardinality(W) = n
  <2>1. PICK I : I = 0 .. n - 1
    OBVIOUS
  <2>2. IsFiniteSet(I) /\ Cardinality(I) = n
    BY <1>4, <2>1, IntervalSize
  <2>3. PICK g : g = [k \in I |-> cache[Turn(h, k)]]
    OBVIOUS
  <2>4. g \in Surjection(I, W) /\ g \in Injection(I, W)
    BY <1>1, <1>4, <1>5, <2>1, <2>3 DEF Surjection, Injection, IsInjective
  <2>. QED BY <2>2, <2>4, FS_Surjection
<1>12. Cardinality(V) = IF f \in W THEN n - 1 ELSE n
  BY <1>6, <1>11, FS_RemoveElement
<1>13. f \in W <=> n > p
  BY <1>3, <1>4, <1>7
<1>. QED BY <1>3, <1>6, <1>9, <1>10, <1>12, <1>13

\* Array d is the array of r; n slots further there are the files without those of V.
IsAdvanced(d, r, V, cache, h, m, n) ==
    /\ d \in Arrays(Values(r)) /\ d \in Arrays(Files \cup {NoFile})
    /\ \A k \in 0 .. m - 1 : cache[Turn(h, k)] \notin V => d[Turn(h, k)] = cache[Turn(h, k)]
    /\ Turn(h, n) \in Slots /\ FromHead(r, n) = Turn(h, n)
    /\ \A k \in 0 .. cacheSize - n : Turn(Turn(h, n), k) = Turn(h, n + k)

\* The ring after the loop: its head has moved over n files, the ones of V and perhaps f.
LEMMA AdvancedRing ==
    ASSUME NEW r, WellFormed(r), NEW cache, NEW h, NEW m, HasWindow(r, cache, h, m),
           NEW n, NEW p, NEW V, IsEvicted(V, cache, h, m, n, p),
           NEW d, d = cache
    PROVE  IsAdvanced(d, r, V, cache, h, m, n)
<1>1. h \in Slots /\ m \in 0 .. MaxFileCount /\ n \in 0 .. m
  BY DEF HasWindow, IsEvicted
<1>2. n \in Slots /\ \A k \in 0 .. m - 1 : k \in Slots
  BY <1>1, CacheSizeType DEF Slots
<1>3. cache \in Arrays(Values(r)) /\ cache \in Arrays(Files \cup {NoFile})
  BY ArrayOfRing DEF HasWindow
<1>7. FromHead(r, n) = Turn(h, n)
  <2>1. \A k \in 0 .. cacheSize : FromHead(r, k) = Turn(r.head, k)
    BY RingFields DEF WellFormed
  <2>. QED BY <1>1, <2>1, CacheSizeType DEF HasWindow
<1>8. Turn(h, n) \in Slots /\ \A k \in 0 .. cacheSize - n : Turn(Turn(h, n), k) = Turn(h, n + k)
  BY <1>1, <1>2, TurnOn
<1>. QED BY <1>3, <1>7, <1>8 DEF IsAdvanced

\* The ring handleEdit has when its loop ends.
Advanced(r, n, V, size) ==
    [r EXCEPT !.head = FromHead(r, n), !.count = @ - Cardinality(V), !.size = size]

\* An edited file the loop has not reached is still in the window, with the younger ones.
LEMMA EditAdvances ==
    ASSUME NEW r, WellFormed(r), NEW f \in Contents(r), NEW n, NEW size \in Int,
           NEW p, NEW V, IsEvicted(V, r.cache, r.head, r.count, n, p), n <= p,
           V \subseteq Contents(r) \ {f}, Cardinality(V) = n,
           NEW t, t = Advanced(r, n, V, size)
    PROVE  /\ WellFormed(t) /\ Contents(t) = Contents(r) \ V
           /\ t.policy = r.policy /\ t.count = r.count - n /\ t.size = size
           /\ \A k \in 0 .. r.count - n - 1 : At(t, k) = At(r, n + k)
           /\ Values(t) \subseteq Values(r)
<1>1. PICK policy \in CachePolicies, cache \in [Slots -> Files \cup {NoFile}], h \in Slots,
           m \in 0 .. MaxFileCount, size0 \in Int :
         /\ r = Ring(policy, cache, h, Turn(h, m), m, size0) /\ m \in Slots
         /\ r.policy = policy /\ r.cache = cache /\ r.head = h /\ r.tail = Turn(h, m)
         /\ r.count = m /\ r.size = size0
         /\ Positions(r) = 0 .. m - 1
         /\ \A k \in 0 .. m : FromHead(r, k) = Turn(h, k)
         /\ \A k \in 0 .. m - 1 : At(r, k) = cache[Turn(h, k)]
         /\ HasWindow(r, cache, h, m)
  BY FieldsOfRing
<1>2. IsEvicted(V, cache, h, m, n, p)
  BY <1>1
<1>3. n \in 0 .. m /\ p \in 0 .. m - 1 /\ m \in Nat
  BY <1>1, <1>2, CacheSizeType DEF IsEvicted
<1>4. PICK d : d = cache
  OBVIOUS
<1>5. /\ d \in Arrays(Values(r)) /\ d \in Arrays(Files \cup {NoFile})
      /\ \A k \in 0 .. m - 1 : cache[Turn(h, k)] \notin V => d[Turn(h, k)] = cache[Turn(h, k)]
      /\ Turn(h, n) \in Slots /\ FromHead(r, n) = Turn(h, n)
      /\ \A k \in 0 .. cacheSize - n : Turn(Turn(h, n), k) = Turn(h, n + k)
  <2>1. IsAdvanced(d, r, V, cache, h, m, n)
    BY <1>1, <1>2, <1>4, AdvancedRing
  <2>. QED BY <2>1 DEF IsAdvanced
<1>6. PICK g \in Slots, q \in 0 .. MaxFileCount : g = Turn(h, n) /\ q = m - n
  <2>1. m - n \in 0 .. MaxFileCount
    BY <1>1, <1>3, CacheSizeType
  <2>. QED BY <1>5, <2>1
<1>7. \A k \in 0 .. q : Turn(g, k) = Turn(h, n + k)
  BY <1>3, <1>5, <1>6, CacheSizeType
<1>8. IsRing(t, policy, d, g, q, size)
  <2>1. Turn(g, q) = Turn(h, m)
    BY <1>3, <1>6, <1>7
  <2>2. t = [r EXCEPT !.cache = d, !.head = g, !.count = q, !.size = size]
    BY <1>1, <1>4, <1>5, <1>6 DEF Advanced
  <2>3. t = Ring(policy, d, g, Turn(g, q), q, size)
    BY <1>1, <2>1, <2>2 DEF Ring
  <2>. QED BY <1>1, <1>6, <2>3 DEF IsRing
<1>9. PICK from : from = [k \in 0 .. q - 1 |-> n + k]
  OBVIOUS
<1>10. IsPick(from, q, m, cache, h, V)
  <2>1. /\ from \in [0 .. q - 1 -> 0 .. m - 1]
        /\ \A j, k \in 0 .. q - 1 : from[j] = from[k] => j = k
        /\ \A k \in 0 .. q - 1 : from[k] >= n
    BY <1>3, <1>6, <1>9
  <2>2. ASSUME NEW i \in 0 .. m - 1, i >= n
        PROVE  \E k \in 0 .. q - 1 : from[k] = i
    <3>1. i - n \in 0 .. q - 1 /\ from[i - n] = i
      BY <1>3, <1>6, <1>9, <2>2
    <3>. QED BY <3>1
  <2>3. \A i \in 0 .. m - 1 : cache[Turn(h, i)] \in V <=> i < n
    BY <1>2, <1>3 DEF IsEvicted
  <2>. QED BY <1>3, <1>6, <2>1, <2>2, <2>3 DEF IsPick
<1>11. PICK C : C = Contents(r) \ V
  OBVIOUS
<1>12. IsRest(C, d, r, V)
  BY <1>5, <1>11 DEF IsRest
<1>13. IsCopied(d, g, cache, h, from, q)
  <2>1. ASSUME NEW k \in 0 .. q - 1
        PROVE  d[Turn(g, k)] = cache[Turn(h, from[k])]
    <3>1. PICK i \in 0 .. m - 1 : i = n + k /\ from[k] = i
      BY <1>3, <1>6, <1>9
    <3>2. Turn(g, k) = Turn(h, i)
      BY <1>7, <3>1
    <3>3. cache[Turn(h, i)] \notin V
      BY <1>2, <1>3, <3>1 DEF IsEvicted
    <3>. QED BY <1>5, <3>1, <3>2, <3>3
  <2>. QED BY <2>1 DEF IsCopied
<1>14. IsListed(d, g, q, Picked(cache, h, from, q), C)
  BY <1>1, <1>10, <1>12, <1>13, PickedIsListed
<1>15. /\ WellFormed(t) /\ Contents(t) = C
       /\ t.policy = policy /\ t.count = q /\ t.size = size
       /\ \A k \in 0 .. q - 1 : At(t, k) = Picked(cache, h, from, q)[k]
  BY <1>8, <1>14, RingOfFiles
<1>16. \A k \in 0 .. q - 1 : At(t, k) = At(r, from[k])
  BY <1>1, <1>10, <1>15, PickedAt
<1>17. \A k \in 0 .. q - 1 : At(t, k) = At(r, n + k)
  BY <1>9, <1>16
<1>18. Values(t) \subseteq Values(r)
  <2>1. \A S : d \in Arrays(S) => Values(t) \subseteq S
    BY <1>8, <1>14, RingOfFiles
  <2>. QED BY <1>12, <2>1 DEF IsRest
<1>. QED BY <1>1, <1>6, <1>11, <1>15, <1>17, <1>18

\* The two ways in which an edited file the loop went over comes back.
Replaced(t, f) == [t EXCEPT !.head = Back(@), !.cache[Back(t.head)] = f]
Requeued(t, f) == [t EXCEPT !.cache[t.tail] = f, !.tail = Forth(@)]

\* Under FIFO an edited file the loop went over is put back in front of the head.
LEMMA EditSkipsFIFO ==
    ASSUME NEW r, WellFormed(r), NEW f \in Contents(r), NEW n, NEW size \in Int,
           NEW p, NEW V, IsEvicted(V, r.cache, r.head, r.count, n, p), n > p,
           r.cache[Turn(r.head, p)] = f, V \subseteq Contents(r) \ {f}, Cardinality(V) = n - 1,
           NEW s, s = Replaced(Advanced(r, n, V, size), f)
    PROVE  /\ WellFormed(s) /\ Contents(s) = Contents(r) \ V
           /\ s.policy = r.policy /\ s.count = r.count - (n - 1) /\ s.size = size
           /\ \A k \in 0 .. r.count - n : At(s, k) = At(r, IF k = 0 THEN p ELSE n - 1 + k)
           /\ Values(s) \subseteq Values(r)
<1>1. PICK policy \in CachePolicies, cache \in [Slots -> Files \cup {NoFile}], h \in Slots,
           m \in 0 .. MaxFileCount, size0 \in Int :
         /\ r = Ring(policy, cache, h, Turn(h, m), m, size0) /\ m \in Slots
         /\ r.policy = policy /\ r.cache = cache /\ r.head = h /\ r.tail = Turn(h, m)
         /\ r.count = m /\ r.size = size0
         /\ Positions(r) = 0 .. m - 1
         /\ \A k \in 0 .. m : FromHead(r, k) = Turn(h, k)
         /\ \A k \in 0 .. m - 1 : At(r, k) = cache[Turn(h, k)]
         /\ HasWindow(r, cache, h, m)
  BY FieldsOfRing
<1>2. IsEvicted(V, cache, h, m, n, p) /\ cache[Turn(h, p)] = f
  BY <1>1
<1>3. n \in 1 .. m /\ p \in 0 .. m - 1 /\ m \in Nat /\ p <= n - 1
  BY <1>1, <1>2, CacheSizeType DEF IsEvicted
<1>4. PICK d : d = cache
  OBVIOUS
<1>5. /\ d \in Arrays(Values(r)) /\ d \in Arrays(Files \cup {NoFile})
      /\ \A k \in 0 .. m - 1 : cache[Turn(h, k)] \notin V => d[Turn(h, k)] = cache[Turn(h, k)]
      /\ Turn(h, n) \in Slots /\ FromHead(r, n) = Turn(h, n)
      /\ \A k \in 0 .. cacheSize - n : Turn(Turn(h, n), k) = Turn(h, n + k)
  <2>1. IsAdvanced(d, r, V, cache, h, m, n)
    BY <1>1, <1>2, <1>4, AdvancedRing
  <2>. QED BY <2>1 DEF IsAdvanced
<1>6. PICK g \in Slots, q \in 0 .. MaxFileCount : g = Turn(h, n - 1) /\ q = m - (n - 1)
  <2>1. n - 1 \in Slots /\ m - (n - 1) \in 0 .. MaxFileCount
    BY <1>1, <1>3, CacheSizeType DEF Slots
  <2>2. Turn(h, n - 1) \in Slots
    BY <2>1, TurnIsSlot
  <2>. QED BY <2>1, <2>2
<1>0. PICK e : e = Written(d, g, f)
  OBVIOUS
<1>7. Back(Turn(h, n)) = g /\ \A k \in 0 .. q : Turn(g, k) = Turn(h, n - 1 + k)
  <2>1. PICK j \in Slots : j = n /\ j >= 1 /\ g = Turn(h, j - 1)
    BY <1>1, <1>3, <1>6, CacheSizeType DEF Slots
  <2>2. Back(Turn(h, n)) = Turn(Turn(h, j), cacheSize - 1)
    BY <1>5, <2>1, SlotArithmetic
  <2>3. Back(Turn(h, n)) = g
    BY <2>1, <2>2, TurnTwice
  <2>4. PICK i \in Slots : i = n - 1 /\ g = Turn(h, i)
    BY <1>1, <1>3, <1>6, CacheSizeType DEF Slots
  <2>5. \A k \in 0 .. cacheSize - i : Turn(Turn(h, i), k) = Turn(h, i + k)
    BY TurnOn
  <2>. QED BY <1>3, <1>6, <2>3, <2>4, <2>5, CacheSizeType
<1>8. IsRing(s, policy, e, g, q, size)
  <2>1. Turn(g, q) = Turn(h, m)
    BY <1>3, <1>6, <1>7
  <2>0. PICK t : t = Advanced(r, n, V, size)
    OBVIOUS
  <2>2. t = [r EXCEPT !.cache = d, !.head = Turn(h, n), !.count = q, !.size = size]
    BY <1>1, <1>3, <1>4, <1>5, <1>6, <2>0 DEF Advanced
  <2>3. t = Ring(policy, d, Turn(h, n), Turn(g, q), q, size)
    BY <1>1, <2>1, <2>2 DEF Ring
  <2>4. PICK u : u = Ring(policy, d, Turn(h, n), Turn(g, q), q, size)
    OBVIOUS
  <2>5. u.cache = d /\ u.head = Turn(h, n)
    BY <2>4 DEF Ring
  <2>6. Replaced(u, f) = [u EXCEPT !.head = g, !.cache = e]
    BY <1>0, <1>6, <1>7, <2>5 DEF Replaced, Written
  <2>7. s = Ring(policy, e, g, Turn(g, q), q, size)
    BY <2>0, <2>3, <2>4, <2>6 DEF Ring
  <2>. QED BY <1>1, <1>6, <2>7 DEF IsRing
<1>9. PICK from : from = [k \in 0 .. q - 1 |-> IF k = 0 THEN p ELSE n - 1 + k]
  OBVIOUS
<1>10. IsPick(from, q, m, cache, h, V)
  <2>1. /\ from \in [0 .. q - 1 -> 0 .. m - 1]
        /\ \A j, k \in 0 .. q - 1 : from[j] = from[k] => j = k
        /\ \A k \in 0 .. q - 1 : from[k] = p \/ from[k] >= n
    BY <1>3, <1>6, <1>9
  <2>2. ASSUME NEW i \in 0 .. m - 1, i >= n
        PROVE  \E k \in 0 .. q - 1 : from[k] = i
    <3>1. PICK k \in 0 .. q - 1 : k = i - n + 1
      BY <1>3, <1>6, <2>2
    <3>2. from[k] = i
      BY <1>3, <1>6, <1>9, <2>2, <3>1
    <3>. QED BY <3>2
  <2>3. \E k \in 0 .. q - 1 : from[k] = p
    <3>1. 0 \in 0 .. q - 1 /\ from[0] = p
      BY <1>3, <1>6, <1>9
    <3>. QED BY <3>1
  <2>4. \A i \in 0 .. m - 1 : cache[Turn(h, i)] \in V <=> i < n /\ i # p
    BY <1>2 DEF IsEvicted
  <2>5. ASSUME NEW i \in 0 .. m - 1
        PROVE  i < n /\ i # p <=> \A k \in 0 .. q - 1 : from[k] # i
    <3>1. CASE i >= n
      BY <1>3, <2>2, <3>1
    <3>2. CASE i = p
      BY <2>3, <3>2
    <3>3. CASE i < n /\ i # p
      <4>1. \A k \in 0 .. q - 1 : from[k] # i
        BY <1>3, <2>1, <3>3
      <4>. QED BY <3>3, <4>1
    <3>. QED BY <1>3, <3>1, <3>2, <3>3
  <2>. QED BY <1>3, <1>6, <2>1, <2>4, <2>5 DEF IsPick
<1>11. PICK C : C = Contents(r) \ V
  OBVIOUS
<1>12. IsRest(C, e, r, V)
  <2>1. f \in Values(r) /\ f \in Files
    BY ArrayOfRing, ContentsOfWindow
  <2>. QED BY <1>0, <1>5, <1>11, <2>1 DEF IsRest, Arrays, Written
<1>13. IsCopied(e, g, cache, h, from, q)
  <2>1. ASSUME NEW k \in 0 .. q - 1
        PROVE  e[Turn(g, k)] = cache[Turn(h, from[k])]
    <3>1. Turn(g, k) \in Slots /\ (Turn(g, k) = g <=> k = 0)
      <4>1. k \in Slots /\ 0 \in Slots
        BY <1>6, CacheSizeType DEF Slots
      <4>2. Turn(g, k) \in Slots /\ (Turn(g, k) = Turn(g, 0) <=> k = 0)
        BY <4>1, TurnIsSlot
      <4>3. Turn(g, 0) = g
        BY TurnIsOnto
      <4>. QED BY <4>2, <4>3
    <3>2. e[Turn(g, k)] = IF k = 0 THEN f ELSE d[Turn(g, k)]
      BY <1>0, <1>5, <1>6, <3>1 DEF Written, Arrays
    <3>3. CASE k = 0
      BY <1>2, <1>9, <3>2, <3>3
    <3>4. CASE k # 0
      <4>1. PICK i \in 0 .. m - 1 : i = n - 1 + k /\ from[k] = i /\ i >= n
        BY <1>3, <1>6, <1>9, <3>4
      <4>2. Turn(g, k) = Turn(h, i)
        BY <1>7, <4>1
      <4>3. cache[Turn(h, i)] \notin V
        BY <1>2, <1>3, <4>1 DEF IsEvicted
      <4>. QED BY <1>5, <3>2, <3>4, <4>1, <4>2, <4>3
    <3>. QED BY <3>3, <3>4
  <2>. QED BY <2>1 DEF IsCopied
<1>14. IsListed(e, g, q, Picked(cache, h, from, q), C)
  BY <1>1, <1>10, <1>12, <1>13, PickedIsListed
<1>15. /\ WellFormed(s) /\ Contents(s) = C
       /\ s.policy = policy /\ s.count = q /\ s.size = size
       /\ \A k \in 0 .. q - 1 : At(s, k) = Picked(cache, h, from, q)[k]
  BY <1>8, <1>14, RingOfFiles
<1>16. \A k \in 0 .. q - 1 : At(s, k) = At(r, from[k])
  BY <1>1, <1>10, <1>15, PickedAt
<1>17. \A k \in 0 .. m - n : At(s, k) = At(r, IF k = 0 THEN p ELSE n - 1 + k)
  <2>1. \A k \in 0 .. m - n : k \in 0 .. q - 1
    BY <1>3, <1>6
  <2>. QED BY <1>9, <1>16, <2>1
<1>18. Values(s) \subseteq Values(r)
  <2>1. \A S : e \in Arrays(S) => Values(s) \subseteq S
    BY <1>8, <1>14, RingOfFiles
  <2>. QED BY <1>12, <2>1 DEF IsRest
<1>. QED BY <1>1, <1>6, <1>11, <1>15, <1>17, <1>18

\* Under LRU an edited file the loop went over is put at the tail.
LEMMA EditSkipsLRU ==
    ASSUME NEW r, WellFormed(r), NEW f \in Contents(r), NEW n, NEW size \in Int,
           NEW p, NEW V, IsEvicted(V, r.cache, r.head, r.count, n, p), n > p,
           r.cache[Turn(r.head, p)] = f, V \subseteq Contents(r) \ {f}, Cardinality(V) = n - 1,
           NEW s, s = Requeued(Advanced(r, n, V, size), f)
    PROVE  /\ WellFormed(s) /\ Contents(s) = Contents(r) \ V
           /\ s.policy = r.policy /\ s.count = r.count - (n - 1) /\ s.size = size
           /\ \A k \in 0 .. r.count - n : At(s, k) = At(r, IF k = r.count - n THEN p ELSE n + k)
           /\ Values(s) \subseteq Values(r)
<1>1. PICK policy \in CachePolicies, cache \in [Slots -> Files \cup {NoFile}], h \in Slots,
           m \in 0 .. MaxFileCount, size0 \in Int :
         /\ r = Ring(policy, cache, h, Turn(h, m), m, size0) /\ m \in Slots
         /\ r.policy = policy /\ r.cache = cache /\ r.head = h /\ r.tail = Turn(h, m)
         /\ r.count = m /\ r.size = size0
         /\ Positions(r) = 0 .. m - 1
         /\ \A k \in 0 .. m : FromHead(r, k) = Turn(h, k)
         /\ \A k \in 0 .. m - 1 : At(r, k) = cache[Turn(h, k)]
         /\ HasWindow(r, cache, h, m)
  BY FieldsOfRing
<1>2. IsEvicted(V, cache, h, m, n, p) /\ cache[Turn(h, p)] = f
  BY <1>1
<1>3. n \in 1 .. m /\ p \in 0 .. m - 1 /\ m \in Nat /\ p <= n - 1
  BY <1>1, <1>2, CacheSizeType DEF IsEvicted
<1>4. PICK d : d = cache
  OBVIOUS
<1>5. /\ d \in Arrays(Values(r)) /\ d \in Arrays(Files \cup {NoFile})
      /\ \A k \in 0 .. m - 1 : cache[Turn(h, k)] \notin V => d[Turn(h, k)] = cache[Turn(h, k)]
      /\ Turn(h, n) \in Slots /\ FromHead(r, n) = Turn(h, n)
      /\ \A k \in 0 .. cacheSize - n : Turn(Turn(h, n), k) = Turn(h, n + k)
  <2>1. IsAdvanced(d, r, V, cache, h, m, n)
    BY <1>1, <1>2, <1>4, AdvancedRing
  <2>. QED BY <2>1 DEF IsAdvanced
<1>6. PICK g \in Slots, q \in 0 .. MaxFileCount : g = Turn(h, n) /\ q = m - (n - 1)
  <2>1. m - (n - 1) \in 0 .. MaxFileCount
    BY <1>1, <1>3, CacheSizeType
  <2>. QED BY <1>5, <2>1
<1>0. PICK e : e = Written(d, Turn(h, m), f)
  OBVIOUS
<1>7. Forth(Turn(h, m)) = Turn(h, m + 1) /\ \A k \in 0 .. q : Turn(g, k) = Turn(h, n + k)
  <2>1. Forth(Turn(h, m)) = Turn(h, m + 1)
    BY <1>1, TurnOn
  <2>2. \A k \in 0 .. q : k \in 0 .. cacheSize - n
    <3>1. n \in Int /\ m \in Int /\ m <= MaxFileCount /\ q = m - (n - 1) /\ q \in Nat
      BY <1>3, <1>6, CacheSizeType
    <3>2. q <= cacheSize - n /\ cacheSize - n \in Int
      BY <3>1, CacheSizeType
    <3>. QED BY <3>1, <3>2
  <2>. QED BY <1>5, <1>6, <2>1, <2>2
<1>8. IsRing(s, policy, e, g, q, size)
  <2>1. Turn(g, q) = Turn(h, m + 1)
    BY <1>3, <1>6, <1>7
  <2>0. PICK t : t = Advanced(r, n, V, size)
    OBVIOUS
  <2>2. t = [r EXCEPT !.cache = d, !.head = g, !.count = q, !.size = size]
    BY <1>1, <1>3, <1>4, <1>5, <1>6, <2>0 DEF Advanced
  <2>3. t = Ring(policy, d, g, Turn(h, m), q, size)
    BY <1>1, <2>2 DEF Ring
  <2>4. PICK u : u = Ring(policy, d, g, Turn(h, m), q, size)
    OBVIOUS
  <2>5. u.cache = d /\ u.tail = Turn(h, m)
    BY <2>4 DEF Ring
  <2>6. Requeued(u, f) = [u EXCEPT !.cache = e, !.tail = Turn(g, q)]
    BY <1>0, <1>6, <1>7, <2>1, <2>5 DEF Requeued, Written
  <2>7. s = Ring(policy, e, g, Turn(g, q), q, size)
    BY <2>0, <2>3, <2>4, <2>6 DEF Ring
  <2>. QED BY <1>1, <1>6, <2>7 DEF IsRing
<1>9. PICK from : from = [k \in 0 .. q - 1 |-> IF k = q - 1 THEN p ELSE n + k]
  OBVIOUS
<1>10. IsPick(from, q, m, cache, h, V)
  <2>1. /\ from \in [0 .. q - 1 -> 0 .. m - 1]
        /\ \A j, k \in 0 .. q - 1 : from[j] = from[k] => j = k
        /\ \A k \in 0 .. q - 1 : from[k] = p \/ from[k] >= n
    BY <1>3, <1>6, <1>9
  <2>2. ASSUME NEW i \in 0 .. m - 1, i >= n
        PROVE  \E k \in 0 .. q - 1 : from[k] = i
    <3>1. PICK k \in 0 .. q - 1 : k = i - n
      BY <1>3, <1>6, <2>2
    <3>2. from[k] = i
      BY <1>3, <1>6, <1>9, <2>2, <3>1, SMTT(30)
    <3>. QED BY <3>2
  <2>3. \E k \in 0 .. q - 1 : from[k] = p
    <3>1. q - 1 \in 0 .. q - 1 /\ from[q - 1] = p
      BY <1>3, <1>6, <1>9
    <3>. QED BY <3>1
  <2>4. \A i \in 0 .. m - 1 : cache[Turn(h, i)] \in V <=> i < n /\ i # p
    BY <1>2 DEF IsEvicted
  <2>5. ASSUME NEW i \in 0 .. m - 1
        PROVE  i < n /\ i # p <=> \A k \in 0 .. q - 1 : from[k] # i
    <3>1. CASE i >= n
      BY <1>3, <2>2, <3>1
    <3>2. CASE i = p
      BY <2>3, <3>2
    <3>3. CASE i < n /\ i # p
      <4>1. \A k \in 0 .. q - 1 : from[k] # i
        BY <1>3, <2>1, <3>3
      <4>. QED BY <3>3, <4>1
    <3>. QED BY <1>3, <3>1, <3>2, <3>3
  <2>. QED BY <1>3, <1>6, <2>1, <2>4, <2>5 DEF IsPick
<1>11. PICK C : C = Contents(r) \ V
  OBVIOUS
<1>12. IsRest(C, e, r, V)
  <2>1. f \in Values(r) /\ f \in Files
    BY ArrayOfRing, ContentsOfWindow
  <2>. QED BY <1>0, <1>5, <1>11, <2>1 DEF IsRest, Arrays, Written
<1>13. IsCopied(e, g, cache, h, from, q)
  <2>1. ASSUME NEW k \in 0 .. q - 1
        PROVE  e[Turn(g, k)] = cache[Turn(h, from[k])]
    <3>0. \A i \in Slots : Turn(h, i) \in Slots /\ (Turn(h, i) = Turn(h, m) <=> i = m)
      BY <1>1, TurnIsSlot
    <3>1. PICK i \in Slots : i = n + k /\ Turn(g, k) = Turn(h, i) /\ (i = m <=> k = q - 1)
      <4>1. n + k \in Slots /\ (n + k = m <=> k = q - 1) /\ k \in 0 .. q
        BY <1>1, <1>3, <1>6, CacheSizeType DEF Slots
      <4>. QED BY <1>7, <4>1
    <3>2. Turn(h, i) \in Slots /\ (Turn(h, i) = Turn(h, m) <=> i = m)
      BY <3>0
    <3>3. e[Turn(h, i)] = IF i = m THEN f ELSE d[Turn(h, i)]
      BY <1>0, <1>5, <1>6, <3>2 DEF Written, Arrays
    <3>4. CASE k = q - 1
      BY <1>2, <1>9, <3>1, <3>3, <3>4
    <3>5. CASE k # q - 1
      <4>1. i \in 0 .. m - 1 /\ from[k] = i /\ i >= n
        BY <1>3, <1>6, <1>9, <3>1, <3>5
      <4>2. cache[Turn(h, i)] \notin V
        BY <1>2, <1>3, <4>1 DEF IsEvicted
      <4>. QED BY <1>5, <3>1, <3>3, <3>5, <4>1, <4>2
    <3>. QED BY <3>4, <3>5
  <2>. QED BY <2>1 DEF IsCopied
<1>14. IsListed(e, g, q, Picked(cache, h, from, q), C)
  BY <1>1, <1>10, <1>12, <1>13, PickedIsListed
<1>15. /\ WellFormed(s) /\ Contents(s) = C
       /\ s.policy = policy /\ s.count = q /\ s.size = size
       /\ \A k \in 0 .. q - 1 : At(s, k) = Picked(cache, h, from, q)[k]
  BY <1>8, <1>14, RingOfFiles
<1>16. \A k \in 0 .. q - 1 : At(s, k) = At(r, from[k])
  BY <1>1, <1>10, <1>15, PickedAt
<1>17. \A k \in 0 .. m - n : At(s, k) = At(r, IF k = m - n THEN p ELSE n + k)
  <2>1. \A k \in 0 .. m - n : k \in 0 .. q - 1
    BY <1>3, <1>6
  <2>. QED BY <1>3, <1>6, <1>9, <1>16, <2>1
<1>18. Values(s) \subseteq Values(r)
  <2>1. \A S : e \in Arrays(S) => Values(s) \subseteq S
    BY <1>8, <1>14, RingOfFiles
  <2>. QED BY <1>12, <2>1 DEF IsRest
<1>. QED BY <1>1, <1>6, <1>11, <1>15, <1>17, <1>18

\* handleEdit in these terms.
LEMMA EditOfRecord ==
    ASSUME NEW r, NEW len, NEW f, NEW newSize,
           NEW n, n = EditScan(r, len, f, newSize), NEW V, V = EditVictims(r, len, f, newSize),
           NEW size, size = ExpectedSize(r, len, f, newSize)[n],
           NEW t, t = Advanced(r, n, V, size), t.tail = r.tail
    PROVE  handleEdit(r, len, f, newSize)
               = IF ~(n > SearchLength(r, f)) THEN handleUsage(t, f)
                 ELSE IF IsFIFO(r) THEN Replaced(t, f) ELSE Requeued(t, f)
<1>1. t = [r EXCEPT !.head = FromHead(r, n), !.count = @ - Cardinality(V), !.size = size]
  BY DEF Advanced
<1>2. handleEdit(r, len, f, newSize)
          = IF ~(n > SearchLength(r, f)) THEN handleUsage(t, f)
            ELSE IF IsFIFO(r) THEN [t EXCEPT !.head = Back(@), !.cache[Back(t.head)] = f]
            ELSE [t EXCEPT !.cache[r.tail] = f, !.tail = Forth(@)]
  BY <1>1 DEF handleEdit
<1>. QED BY <1>2 DEF Replaced, Requeued

\* ... of a well-formed ring.
LEMMA EditByCases ==
    ASSUME NEW r, WellFormed(r), NEW len, NEW f, NEW newSize,
           NEW n, n = EditScan(r, len, f, newSize), NEW V, V = EditVictims(r, len, f, newSize),
           NEW size, size = ExpectedSize(r, len, f, newSize)[n],
           NEW t, t = Advanced(r, n, V, size)
    PROVE  handleEdit(r, len, f, newSize)
               = IF ~(n > SearchLength(r, f)) THEN handleUsage(t, f)
                 ELSE IF IsFIFO(r) THEN Replaced(t, f) ELSE Requeued(t, f)
<1>1. t.tail = r.tail
  <2>1. PICK policy \in CachePolicies, cache \in [Slots -> Files \cup {NoFile}], h \in Slots,
             m \in 0 .. MaxFileCount, size0 \in Int :
           r = Ring(policy, cache, h, Turn(h, m), m, size0) /\ r.tail = Turn(h, m)
    BY FieldsOfRing
  <2>. QED BY <2>1 DEF Advanced, Ring
<1>. QED BY <1>1, EditOfRecord

\* An edit that fits takes out the oldest other files it must, and keeps everything else.
LEMMA EditKeeps ==
    ASSUME NEW r, WellFormed(r), NEW len \in [Files -> Int], NEW f \in Contents(r),
           NEW newSize \in Int, ~EditOverruns(r, len, f, newSize),
           NEW s, s = handleEdit(r, len, f, newSize),
           NEW V, V = EditVictims(r, len, f, newSize)
    PROVE  /\ WellFormed(s) /\ Contents(s) = Contents(r) \ V
           /\ V \subseteq Contents(r) \ {f}
           /\ s.policy = r.policy /\ s.count = r.count - Cardinality(V)
           /\ s.size = ExpectedSize(r, len, f, newSize)[EditScan(r, len, f, newSize)]
           /\ s.size <= MaxMemorySize
           /\ Values(s) \subseteq Values(r)
<1>1. PICK n, p, size : /\ n = EditScan(r, len, f, newSize) /\ p = SearchLength(r, f)
                        /\ size = ExpectedSize(r, len, f, newSize)[n]
  OBVIOUS
<1>2. f \in Files
  BY ContentsOfWindow
<1>3. n \in 0 .. r.count /\ size \in Int /\ size <= MaxMemorySize
  BY <1>1, <1>2, EditScanStops
<1>4. PICK cache, h, m : /\ HasWindow(r, cache, h, m)
                         /\ r.cache = cache /\ r.head = h /\ r.count = m
  BY FieldsOfRing DEF HasWindow
<1>5. /\ IsEvicted(V, cache, h, m, n, p) /\ cache[Turn(h, p)] = f
      /\ V \subseteq Contents(r) \ {f}
      /\ Cardinality(V) = IF n > p THEN n - 1 ELSE n
  BY <1>1, <1>3, <1>4, EditVictimsAt
<1>6. n \in Nat /\ p \in Nat /\ m \in Nat
  BY <1>3, <1>4, <1>5, CacheSizeType DEF IsEvicted, HasWindow
<1>7. PICK t : t = Advanced(r, n, V, size)
  OBVIOUS
<1>8. s = IF ~(n > p) THEN handleUsage(t, f)
          ELSE IF IsFIFO(r) THEN Replaced(t, f) ELSE Requeued(t, f)
  BY <1>1, <1>7, EditByCases
<1>9. CASE ~(n > p)
  <2>1. n <= p /\ Cardinality(V) = n
    BY <1>5, <1>6, <1>9
  <2>2. /\ WellFormed(t) /\ Contents(t) = Contents(r) \ V
        /\ t.policy = r.policy /\ t.count = r.count - n /\ t.size = size
        /\ Values(t) \subseteq Values(r)
    BY <1>3, <1>4, <1>5, <1>7, <2>1, EditAdvances
  <2>3. f \in Contents(t)
    BY <1>5, <2>2
  <2>4. s = handleUsage(t, f)
    BY <1>8, <1>9
  <2>5. /\ WellFormed(s) /\ Contents(s) = Contents(t) /\ Values(s) \subseteq Values(t)
        /\ s.policy = t.policy /\ s.count = t.count /\ s.size = t.size
    BY <2>2, <2>3, <2>4, UsageKeeps
  <2>. QED BY <1>1, <1>3, <1>5, <2>1, <2>2, <2>5
<1>10. CASE n > p /\ IsFIFO(r)
  <2>1. Cardinality(V) = n - 1 /\ s = Replaced(t, f)
    BY <1>5, <1>8, <1>10
  <2>2. /\ WellFormed(s) /\ Contents(s) = Contents(r) \ V
        /\ s.policy = r.policy /\ s.count = r.count - (n - 1) /\ s.size = size
        /\ Values(s) \subseteq Values(r)
    BY <1>3, <1>4, <1>5, <1>7, <1>10, <2>1, EditSkipsFIFO
  <2>. QED BY <1>1, <1>3, <1>5, <2>1, <2>2
<1>11. CASE n > p /\ ~IsFIFO(r)
  <2>1. Cardinality(V) = n - 1 /\ s = Requeued(t, f)
    BY <1>5, <1>8, <1>11
  <2>2. /\ WellFormed(s) /\ Contents(s) = Contents(r) \ V
        /\ s.policy = r.policy /\ s.count = r.count - (n - 1) /\ s.size = size
        /\ Values(s) \subseteq Values(r)
    BY <1>3, <1>4, <1>5, <1>7, <1>11, <2>1, EditSkipsLRU
  <2>. QED BY <1>1, <1>3, <1>5, <2>1, <2>2
<1>. QED BY <1>9, <1>10, <1>11

----------------------------------------------------------------------------
(* The caller frees what a handler has taken out.                          *)

\* Freeing files outside the window changes nothing in it; what else pointed to them dangles.
LEMMA Freed ==
    ASSUME NEW s, WellFormed(s), NEW V, \A x \in V : x \notin Contents(s),
           NEW t, t = Free(s, V)
    PROVE  /\ WellFormed(t) /\ Contents(t) = Contents(s)
           /\ t.policy = s.policy /\ t.count = s.count /\ t.size = s.size
           /\ t.head = s.head /\ t.tail = s.tail
           /\ Window(t) = Window(s)
           /\ Values(s) \subseteq Contents(s) \cup V \cup {NoFile} => NoStrays(t)
<1>1. PICK policy \in CachePolicies, cache \in [Slots -> Files \cup {NoFile}], h \in Slots,
           m \in 0 .. MaxFileCount, size \in Int :
         /\ s = Ring(policy, cache, h, Turn(h, m), m, size) /\ m \in Slots
         /\ s.policy = policy /\ s.cache = cache /\ s.head = h /\ s.tail = Turn(h, m)
         /\ s.count = m /\ s.size = size
         /\ \A k \in 0 .. m - 1 : At(s, k) = cache[Turn(h, k)]
         /\ HasWindow(s, cache, h, m)
  BY FieldsOfRing
<1>2. PICK d : d = Dangle(cache, V)
  OBVIOUS
<1>3. \A i \in Slots : d[i] = IF cache[i] \in V THEN NoFile ELSE cache[i]
  BY <1>2 DEF Dangle
<1>4. d \in Arrays(Files \cup {NoFile})
  BY <1>1, <1>2 DEF Dangle, Arrays
<1>5. t = Ring(policy, d, h, Turn(h, m), m, size)
  BY <1>1, <1>2 DEF Free, Ring
<1>6. PICK C : C = Contents(s)
  OBVIOUS
<1>7. /\ C = {cache[Turn(h, k)] : k \in 0 .. m - 1}
      /\ \A k \in 0 .. m - 1 : cache[Turn(h, k)] \in C
      /\ \A j, k \in 0 .. m - 1 : cache[Turn(h, j)] = cache[Turn(h, k)] => j = k
  BY <1>1, <1>6, ContentsByPosition
<1>8. PICK w : w = [k \in 0 .. m - 1 |-> cache[Turn(h, k)]]
  OBVIOUS
<1>9. \A k \in 0 .. m - 1 : d[Turn(h, k)] = w[k]
  <2>1. \A k \in 0 .. m - 1 : Turn(h, k) \in Slots
    <3>1. \A k \in 0 .. m - 1 : k \in Slots
      BY <1>1, CacheSizeType DEF Slots
    <3>. QED BY <3>1, TurnIsSlot
  <2>2. \A k \in 0 .. m - 1 : cache[Turn(h, k)] \notin V
    BY <1>6, <1>7
  <2>. QED BY <1>3, <1>8, <2>1, <2>2
<1>10. IsListed(d, h, m, w, C) /\ IsRing(t, policy, d, h, m, size)
  <2>1. C \subseteq Files
    BY <1>6, ContentsOfWindow
  <2>2. w \in [0 .. m - 1 -> Files] /\ C = {w[k] : k \in 0 .. m - 1}
    BY <1>7, <1>8, <2>1
  <2>3. \A j, k \in 0 .. m - 1 : w[j] = w[k] => j = k
    BY <1>7, <1>8
  <2>. QED BY <1>1, <1>4, <1>5, <1>9, <2>2, <2>3 DEF IsListed, IsRing
<1>11. /\ WellFormed(t) /\ Contents(t) = C
       /\ t.policy = policy /\ t.count = m /\ t.size = size
       /\ \A k \in 0 .. m - 1 : At(t, k) = w[k]
  BY <1>10, RingOfFiles
<1>12. t.head = h /\ t.tail = Turn(h, m) /\ t.cache = d
  BY <1>5 DEF Ring
<1>13. ASSUME Values(s) \subseteq C \cup V \cup {NoFile}
       PROVE  NoStrays(t)
  <2>1. \A i \in Slots : cache[i] \in C \cup V \cup {NoFile}
    BY <1>1, <1>13 DEF Values
  <2>2. \A i \in Slots : d[i] \in C \cup {NoFile}
    BY <1>3, <2>1
  <2>. QED BY <1>11, <1>12, <2>2 DEF NoStrays, Values
<1>14. Window(t) = Window(s)
  <2>1. m \in Nat
    BY <1>1, CacheSizeType
  <2>2. \A k \in 1 .. m : k - 1 \in 0 .. m - 1
    BY <2>1
  <2>3. \A k \in 1 .. m : At(t, k - 1) = At(s, k - 1)
    BY <1>1, <1>8, <1>11, <2>2
  <2>4. t.count = m /\ s.count = m
    BY <1>1, <1>11
  <2>. QED BY <2>3, <2>4 DEF Window, At
<1>. QED BY <1>1, <1>6, <1>11, <1>12, <1>13, <1>14

\* A creation, with the file it expels freed.
LEMMA CreatedRing ==
    ASSUME NEW r, WellFormed(r), NoStrays(r), ~InsertionReadsDangling(r),
           NEW len \in [Files -> Int], NEW f \in Files, f \notin Contents(r),
           NEW V, V = InsertionVictims(r), NEW s, s = handleInsertion(r, len, f),
           NEW u, u = handleUsage(s, f), NEW t, t = Free(u, V)
    PROVE  /\ WellFormed(t) /\ NoStrays(t) /\ Contents(t) = (Contents(r) \cup {f}) \ V
           /\ V \subseteq Contents(r)
           /\ t.policy = r.policy /\ Window(t) = Window(u)
           /\ V = {} => t.size = r.size
           /\ V # {} => /\ r.cache[Forth(r.head)] \in Files
                        /\ t.size = r.size - len[r.cache[Forth(r.head)]]
<1>1. /\ WellFormed(s) /\ Contents(s) = (Contents(r) \cup {f}) \ V /\ V \subseteq Contents(r)
      /\ s.policy = r.policy /\ Values(s) \subseteq Values(r) \cup {f}
      /\ V = {} => s.size = r.size
      /\ V # {} => /\ r.cache[Forth(r.head)] \in Files
                   /\ s.size = r.size - len[r.cache[Forth(r.head)]]
  <2>1. CASE r.count # MaxFileCount
    <3>1. /\ WellFormed(s) /\ Contents(s) = Contents(r) \cup {f} /\ InsertionVictims(r) = {}
          /\ s.policy = r.policy /\ s.size = r.size /\ Values(s) \subseteq Values(r) \cup {f}
      BY <2>1, InsertionBelowLimit
    <3>. QED BY <3>1
  <2>2. CASE r.count = MaxFileCount
    <3>1. /\ WellFormed(s) /\ Contents(s) = (Contents(r) \cup {f}) \ {At(r, 0)}
          /\ InsertionVictims(r) = {At(r, 0)} /\ At(r, 0) \in Contents(r)
          /\ r.cache[Forth(r.head)] \in Files /\ s.policy = r.policy
          /\ s.size = r.size - len[r.cache[Forth(r.head)]]
          /\ Values(s) \subseteq Values(r) \cup {f}
      BY <2>2, InsertionAtLimit
    <3>. QED BY <3>1
  <2>. QED BY <2>1, <2>2
<1>2. /\ WellFormed(u) /\ Contents(u) = Contents(s) /\ Values(u) \subseteq Values(s)
      /\ u.policy = s.policy /\ u.size = s.size
  <2>1. f \in Contents(s)
    BY <1>1
  <2>. QED BY <1>1, <2>1, UsageKeeps
<1>3. \A x \in V : x \notin Contents(u)
  BY <1>1, <1>2
<1>4. Values(u) \subseteq Contents(u) \cup V \cup {NoFile}
  BY <1>1, <1>2 DEF NoStrays
<1>5. /\ WellFormed(t) /\ NoStrays(t) /\ Contents(t) = Contents(u)
      /\ t.policy = u.policy /\ t.size = u.size /\ Window(t) = Window(u)
  BY <1>2, <1>3, <1>4, Freed
<1>. QED BY <1>1, <1>2, <1>5

\* An edit, with the files it expels freed.
LEMMA EditedRing ==
    ASSUME NEW r, WellFormed(r), NoStrays(r), NEW len \in [Files -> Int], NEW f \in Contents(r),
           NEW newSize \in Int, ~EditOverruns(r, len, f, newSize),
           NEW V, V = EditVictims(r, len, f, newSize),
           NEW s, s = handleEdit(r, len, f, newSize), NEW t, t = Free(s, V)
    PROVE  /\ WellFormed(t) /\ NoStrays(t) /\ Contents(t) = Contents(r) \ V
           /\ V \subseteq Contents(r) \ {f}
           /\ t.policy = r.policy /\ Window(t) = Window(s)
           /\ t.size = ExpectedSize(r, len, f, newSize)[EditScan(r, len, f, newSize)]
           /\ t.size <= MaxMemorySize
<1>1. /\ WellFormed(s) /\ Contents(s) = Contents(r) \ V /\ V \subseteq Contents(r) \ {f}
      /\ s.policy = r.policy /\ Values(s) \subseteq Values(r)
      /\ s.size = ExpectedSize(r, len, f, newSize)[EditScan(r, len, f, newSize)]
      /\ s.size <= MaxMemorySize
  BY EditKeeps
<1>2. \A x \in V : x \notin Contents(s)
  BY <1>1
<1>3. Values(s) \subseteq Contents(s) \cup V \cup {NoFile}
  BY <1>1 DEF NoStrays
<1>4. /\ WellFormed(t) /\ NoStrays(t) /\ Contents(t) = Contents(s)
      /\ t.policy = s.policy /\ t.size = s.size /\ Window(t) = Window(s)
  BY <1>1, <1>2, <1>3, Freed
<1>. QED BY <1>1, <1>4

\* A removal, with the file freed.
LEMMA RemovedRing ==
    ASSUME NEW r, WellFormed(r), NoStrays(r), NEW len \in [Files -> Int], NEW f \in Contents(r),
           NEW s, s = handleRemoval(r, len, f), NEW t, t = Free(s, {f})
    PROVE  /\ WellFormed(t) /\ NoStrays(t) /\ Contents(t) = Contents(r) \ {f}
           /\ t.policy = r.policy /\ Window(t) = Window(s)
           /\ t.size = r.size - len[f]
<1>1. /\ WellFormed(s) /\ Contents(s) = Contents(r) \ {f} /\ Values(s) \subseteq Values(r)
      /\ s.policy = r.policy /\ s.size = r.size - len[f]
  BY RemovalKeeps
<1>2. \A x \in {f} : x \notin Contents(s)
  BY <1>1
<1>3. Values(s) \subseteq Contents(s) \cup {f} \cup {NoFile}
  BY <1>1 DEF NoStrays
<1>4. /\ WellFormed(t) /\ NoStrays(t) /\ Contents(t) = Contents(s)
      /\ t.policy = s.policy /\ t.size = s.size /\ Window(t) = Window(s)
  BY <1>1, <1>2, <1>3, Freed
<1>. QED BY <1>1, <1>4

----------------------------------------------------------------------------
(* filesystem_get_n_fileEntry.                                             *)

\* Every read uses the file found at its offset.
LEMMA SampleUsesSteps ==
    ASSUME NEW r, NEW sample, NEW x, x = SampleUses(r, sample)
    PROVE  /\ x[0] = r
           /\ \A k \in Nat :
                 x[k + 1] = handleUsage(x[k], x[k].cache[SampledSlot(r, sample[k])])
<1>. DEFINE slot(k) == SampledSlot(r, sample[k])
<1>1. x = CHOOSE y : y = [k \in Nat |-> IF k = 0 THEN r
                                        ELSE handleUsage(y[k - 1], y[k - 1].cache[slot(k - 1)])]
  BY DEF SampleUses
<1>. HIDE DEF slot
<1>2. PICK c : c = [k \in Nat |-> slot(k)]
  OBVIOUS
<1>3. PICK y : IsEndless(y, "use", r, c)
  BY EndlessTrail
<1>4. y = [k \in Nat |-> IF k = 0 THEN r
                         ELSE handleUsage(y[k - 1], y[k - 1].cache[slot(k - 1)])]
  <2>1. \A k \in Nat : k # 0 => c[k - 1] = slot(k - 1)
    BY <1>2
  <2>. QED BY <1>3, <2>1 DEF IsEndless, Step
<1>5. x = [k \in Nat |-> IF k = 0 THEN r
                         ELSE handleUsage(x[k - 1], x[k - 1].cache[slot(k - 1)])]
  BY <1>1, <1>4
<1>6. x[0] = r
  BY <1>5
<1>7. ASSUME NEW k \in Nat
      PROVE  x[k + 1] = handleUsage(x[k], x[k].cache[slot(k)])
  <2>1. PICK j \in Nat : j = k + 1 /\ j # 0 /\ j - 1 = k
    OBVIOUS
  <2>2. x[j] = handleUsage(x[j - 1], x[j - 1].cache[slot(j - 1)])
    BY <1>5, <2>1
  <2>. QED BY <2>1, <2>2
<1>. QED BY <1>6, <1>7 DEF slot

\* The largest number of a bounded set is one of it.
LEMMA MaxIsGreatest ==
    ASSUME NEW n \in Nat, NEW S \in SUBSET (0 .. n), S # {}
    PROVE  Max(S) \in S
<1>1. PICK T : T = {n - x : x \in S}
  OBVIOUS
<1>2. T \in SUBSET Nat /\ T # {}
  <2>1. \A x \in S : x \in 0 .. n /\ n - x \in Nat
    OBVIOUS
  <2>. QED BY <1>1, <2>1
<1>3. PICK m \in T : \A x \in T : m <= x
  BY <1>2, MinIsLeast
<1>4. PICK x \in S : m = n - x
  BY <1>1, <1>3
<1>5. \A y \in S : x >= y
  BY <1>1, <1>3, <1>4
<1>. QED BY <1>5 DEF Max

\* A sample is a list of offsets, and the slots read are below the file limit.
LEMMA SampledSlots ==
    ASSUME NEW r, WellFormed(r), NEW n \in 0 .. r.count, NEW sample \in Samples(r, n)
    PROVE  /\ DOMAIN sample = 0 .. n - 1
           /\ \A k \in 0 .. n - 1 : /\ SampledSlot(r, sample[k]) \in 0 .. MaxFileCount - 1
                                     /\ SampledSlot(r, sample[k]) \in Slots
<1>1. r.count \in Nat /\ r.head \in Slots /\ n \in Nat
  BY RingFields DEF WellFormed
<1>2. PICK place : sample = [j \in 0 .. n - 1 |->
                                Max({j} \cup {i \in n .. r.count - 1 : place[i] = j})]
  BY DEF Samples
<1>3. ASSUME NEW k \in 0 .. n - 1
      PROVE  SampledSlot(r, sample[k]) \in 0 .. MaxFileCount - 1
  <2>1. PICK S : S = {k} \cup {i \in n .. r.count - 1 : place[i] = k}
    OBVIOUS
  <2>2. S \in SUBSET (0 .. r.count) /\ S # {}
    BY <1>1, <2>1
  <2>3. sample[k] \in Nat
    <3>1. Max(S) \in S
      BY <1>1, <2>2, MaxIsGreatest
    <3>2. sample[k] = Max(S)
      BY <1>2, <2>1
    <3>3. \A v \in S : v \in Nat
      BY <1>1, <2>2
    <3>. QED BY <3>1, <3>2, <3>3, Zenon
  <2>4. PICK e \in Nat : e = r.head + sample[k]
    BY <1>1, <2>3, CacheSizeType DEF Slots
  <2>5. e % MaxFileCount \in 0 .. MaxFileCount - 1
    BY CacheSizeType
  <2>. QED BY <2>4, <2>5 DEF SampledSlot
<1>4. 0 .. MaxFileCount - 1 \subseteq Slots
  BY CacheSizeType DEF Slots
<1>. QED BY <1>2, <1>3, <1>4

\* As long as no read meets a dangling slot, the reads keep the ring in order and its files in it.
LEMMA SampleUsesKeep ==
    ASSUME NEW r, WellFormed(r), NoStrays(r), NEW n \in 0 .. r.count, NEW sample \in Samples(r, n),
           NEW x, x = SampleUses(r, sample), NEW k \in 0 .. n,
           \A i \in 0 .. k - 1 : x[i].cache[SampledSlot(r, sample[i])] # NoFile
    PROVE  /\ WellFormed(x[k]) /\ NoStrays(x[k]) /\ Contents(x[k]) = Contents(r)
           /\ x[k].policy = r.policy /\ x[k].count = r.count /\ x[k].size = r.size
<1>. DEFINE Kept(y) == /\ WellFormed(y) /\ NoStrays(y) /\ Contents(y) = Contents(r)
                       /\ y.policy = r.policy /\ y.count = r.count /\ y.size = r.size
            slot(i) == SampledSlot(r, sample[i])
<1>1. /\ x[0] = r
      /\ \A i \in Nat : x[i + 1] = handleUsage(x[i], x[i].cache[slot(i)])
  BY SampleUsesSteps
<1>2. n \in Nat /\ k \in Nat /\ \A i \in 0 .. k - 1 : i \in 0 .. n - 1
  BY RingFields DEF WellFormed
<1>3. \A i \in 0 .. k - 1 : slot(i) \in Slots
  BY <1>2, SampledSlots
<1>4. \A i \in 0 .. k - 1 : x[i].cache[slot(i)] # NoFile
  OBVIOUS
<1>. HIDE DEF slot
<1>5. ASSUME NEW i \in 0 .. k - 1, Kept(x[i])
      PROVE  Kept(x[i + 1])
  <2>1. PICK y, f : y = x[i] /\ f = x[i].cache[slot(i)]
    OBVIOUS
  <2>2. WellFormed(y) /\ f \in Contents(y)
    BY <1>3, <1>4, <1>5, <2>1 DEF NoStrays, Values
  <2>3. /\ WellFormed(handleUsage(y, f)) /\ Contents(handleUsage(y, f)) = Contents(y)
        /\ NoStrays(handleUsage(y, f))
        /\ handleUsage(y, f).policy = y.policy
        /\ handleUsage(y, f).count = y.count /\ handleUsage(y, f).size = y.size
    BY <1>5, <2>1, <2>2, UsageKeeps
  <2>. QED BY <1>1, <1>2, <1>5, <2>1, <2>3
<1>6. Kept(x[0])
  BY <1>1
<1>. HIDE DEF Kept
<1>7. Kept(x[k])
  <2>. DEFINE S == {i \in 0 .. k : ~Kept(x[i])}
  <2>1. ASSUME ~Kept(x[k])
        PROVE  FALSE
    <3>1. k \in S /\ S \in SUBSET Nat
      BY <1>2, <2>1
    <3>2. PICK m \in S : \A i \in Nat : i < m => i \notin S
      BY <3>1, LeastOf
    <3>3. CASE m = 0
      BY <1>6, <3>2, <3>3
    <3>4. CASE m # 0
      <4>1. PICK i \in 0 .. k - 1 : m = i + 1
        BY <1>2, <3>2, <3>4
      <4>2. Kept(x[i])
        BY <1>2, <3>2, <4>1
      <4>. QED BY <1>5, <3>2, <4>1, <4>2
    <3>. QED BY <3>3, <3>4
  <2>. QED BY <2>1
<1>. QED BY <1>7 DEF Kept
=============================================================================
