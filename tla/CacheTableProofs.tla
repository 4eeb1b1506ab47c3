-------------------------- MODULE CacheTableProofs --------------------------
(***************************************************************************)
(* The file table and the cache, for any number of clients, files, slots   *)
(* and bytes: they hold the same files until a readNFiles brings one back  *)
(* that the table has expelled, and what the store does with the ring is   *)
(* what CacheRing says of one caller at a time.                            *)
(***************************************************************************)
EXTENDS FilesystemProofs, CachingProofs

\* The slots that readNFiles requests still have to read are slots of the ring.
SlotsToRead == toRead \in [Clients -> Seq(0 .. MaxFileCount - 1)]

\* What a slot of the store's ring can hold.
Pointers == Files \cup {NoFile} \cup Expelled

\* An array, and a ring, for which only the entries in the table matter.
Filed(cache) == [i \in Slots |-> IF cache[i] \in Files THEN cache[i] ELSE NoFile]
Plain(r) == [r EXCEPT !.cache = Filed(@)]

\* A ring of the store: a record of six fields, with an array of pointers.
IsStoreRing(r, policy, cache, h, t, m, size) ==
    r = Ring(policy, cache, h, t, m, size) /\ cache \in Arrays(Pointers)
Shaped(r) == \E policy, cache, h, t, m, size : IsStoreRing(r, policy, cache, h, t, m, size)

\* The ring holds the files S of the table and no other.
Agrees(r, S) == WellFormed(Plain(r)) /\ NoStrays(Plain(r)) /\ Contents(Plain(r)) = S

\* A readNFiles has brought an expelled file back.
BroughtBack(r, S) ==
    /\ Plain(r) \in Rings /\ FromHead(r, r.count) = r.tail
    /\ {Window(r)[k] : k \in 1 .. r.count} # S

(***************************************************************************)
(* CacheMatchesTable counts the files of the window.  What the operations  *)
(* need to keep it is that none is there twice, and that a slot outside    *)
(* the window, which the offsets of readNFiles can reach, points to no     *)
(* file of the table that is not in the window too.                        *)
(***************************************************************************)
TableInv ==
    /\ Shaped(ring) /\ SlotsToRead
    /\ fault # "expelled_use" => Agrees(ring, stored)
    /\ fault = "expelled_use" => BroughtBack(ring, stored)

\* The ring of the properties, before and after a step.
LEMMA TableRingIsPlain == TableRing = Plain(ring) /\ TableRing' = Plain(ring')
BY DEF TableRing, Plain, Filed

\* The lengths, as the handlers of caching.c take them.
LEMMA LengthsAreNumbers ==
    ASSUME TypeOK
    PROVE  len \in [Files -> Int] /\ MaxFileSize \in Nat
BY MaxFileSizeAssumption DEF TypeOK

----------------------------------------------------------------------------
(* The handlers look at the entries of the table only: what they do to a   *)
(* ring with expelled entries they do to the ring without them.            *)

\* Values of the three kinds differ.
LEMMA KindsDiffer ==
    /\ NoFile \notin Files /\ NoFile \notin Expelled
    /\ \A e \in Expelled : e \notin Files
    /\ \A c \in Clients, f \in Files : <<c, f>> \in Expelled
BY NoFileAssumption, ExpelledAssumption DEF Expelled

\* The fields of a ring, and of the plain one.
LEMMA PlainFields ==
    ASSUME NEW r, NEW policy, NEW cache, NEW h, NEW t, NEW m, NEW size,
           IsStoreRing(r, policy, cache, h, t, m, size)
    PROVE  /\ r.policy = policy /\ r.cache = cache /\ r.head = h /\ r.tail = t
           /\ r.count = m /\ r.size = size /\ cache \in Arrays(Pointers)
           /\ Plain(r) = Ring(policy, Filed(cache), h, t, m, size)
           /\ Plain(r).policy = policy /\ Plain(r).cache = Filed(cache) /\ Plain(r).head = h
           /\ Plain(r).tail = t /\ Plain(r).count = m /\ Plain(r).size = size
           /\ \A k : FromHead(r, k) = FromHead(Plain(r), k)
           /\ IsFIFO(r) <=> IsFIFO(Plain(r))
<1>1. r = Ring(policy, cache, h, t, m, size) /\ cache \in Arrays(Pointers)
  BY DEF IsStoreRing
<1>2. PICK d : d = Filed(cache)
  OBVIOUS
<1>3. Plain(r) = Ring(policy, d, h, t, m, size)
  BY <1>1, <1>2 DEF Plain, Ring
<1>4. PICK p : p = Plain(r)
  OBVIOUS
<1>5. /\ r.policy = policy /\ r.cache = cache /\ r.head = h /\ r.tail = t
      /\ r.count = m /\ r.size = size
  BY <1>1 DEF Ring
<1>6. /\ p.policy = policy /\ p.cache = d /\ p.head = h
      /\ p.tail = t /\ p.count = m /\ p.size = size
  BY <1>3, <1>4 DEF Ring
<1>7. /\ \A k : FromHead(r, k) = FromHead(p, k)
      /\ IsFIFO(r) <=> IsFIFO(p)
  BY <1>5, <1>6 DEF FromHead, IsFIFO
<1>. QED BY <1>1, <1>2, <1>3, <1>4, <1>5, <1>6, <1>7

\* What an array holds without its expelled entries.
LEMMA FiledAt ==
    ASSUME NEW cache, NEW i \in Slots
    PROVE  /\ Filed(cache)[i] = IF cache[i] \in Files THEN cache[i] ELSE NoFile
           /\ \A f \in Files : Filed(cache)[i] = f <=> cache[i] = f
           /\ cache[i] \in Expelled => Filed(cache)[i] = NoFile
BY KindsDiffer DEF Filed

\* An array without its expelled entries is one of CacheRing's.
LEMMA FiledType ==
    ASSUME NEW cache
    PROVE  Filed(cache) \in [Slots -> Files \cup {NoFile}]
BY DEF Filed

\* Writing, shifting, expelling and freeing, with and without the expelled entries.
LEMMA FiledCommutes ==
    ASSUME NEW cache \in Arrays(Pointers)
    PROVE  /\ \A i \in Slots, f \in Files : /\ Filed(Written(cache, i, f)) = Written(Filed(cache), i, f)
                                            /\ Written(cache, i, f) \in Arrays(Pointers)
           /\ \A p, n : /\ Filed(ShiftUp(cache, p, n)) = ShiftUp(Filed(cache), p, n)
                        /\ ShiftUp(cache, p, n) \in Arrays(Pointers)
<1>1. ASSUME NEW i \in Slots, NEW f \in Files
      PROVE  /\ Filed(Written(cache, i, f)) = Written(Filed(cache), i, f)
             /\ Written(cache, i, f) \in Arrays(Pointers)
  <2>1. Written(cache, i, f) \in Arrays(Pointers)
    BY DEF Arrays, Written, Pointers
  <2>2. \A j \in Slots : Filed(Written(cache, i, f))[j] = Written(Filed(cache), i, f)[j]
    BY DEF Arrays, Written, Filed
  <2>3. /\ Filed(Written(cache, i, f)) \in [Slots -> Files \cup {NoFile}]
        /\ Written(Filed(cache), i, f) \in [Slots -> Files \cup {NoFile}]
    BY FiledType DEF Written
  <2>. QED BY <2>1, <2>2, <2>3
<1>2. ASSUME NEW p, NEW n
      PROVE  /\ Filed(ShiftUp(cache, p, n)) = ShiftUp(Filed(cache), p, n)
             /\ ShiftUp(cache, p, n) \in Arrays(Pointers)
  <2>1. \A i \in Slots : Back(i) \in Slots
    BY SlotArithmetic, TurnIsOnto, CacheSizeType DEF Slots
  <2>2. \A i \in Slots : Filed(ShiftUp(cache, p, n))[i] = ShiftUp(Filed(cache), p, n)[i]
    BY <2>1 DEF ShiftUp, Filed
  <2>3. /\ Filed(ShiftUp(cache, p, n)) \in [Slots -> Files \cup {NoFile}]
        /\ ShiftUp(Filed(cache), p, n) \in [Slots -> Files \cup {NoFile}]
    BY <2>1, FiledType DEF ShiftUp
  <2>. QED BY <2>2, <2>3, ShiftedFrom
<1>. QED BY <1>1, <1>2

\* The search for a file of the table passes over the expelled ones.
LEMMA PlainSearch ==
    ASSUME NEW r, Shaped(r), r.head \in Slots, NEW f \in Files
    PROVE  SearchLength(Plain(r), f) = SearchLength(r, f)
<1>1. PICK policy, cache, h, t, m, size : IsStoreRing(r, policy, cache, h, t, m, size)
  BY DEF Shaped
<1>2. /\ r.cache = cache /\ r.head = h /\ Plain(r).cache = Filed(cache)
      /\ \A k : FromHead(r, k) = FromHead(Plain(r), k)
  BY <1>1, PlainFields
<1>3. \A k \in Slots : FromHead(r, k) \in Slots
  <2>1. \A k \in Slots : k \in 0 .. cacheSize
    BY CacheSizeType DEF Slots
  <2>2. \A k \in 0 .. cacheSize : FromHead(r, k) = Turn(r.head, k)
    BY SlotArithmetic
  <2>3. \A k \in Slots : FromHead(r, k) = Turn(r.head, k)
    BY <2>1, <2>2
  <2>4. \A k \in Slots : Turn(r.head, k) \in Slots
    BY TurnIsOnto
  <2>. QED BY <2>3, <2>4
<1>4. {k \in Slots : Plain(r).cache[FromHead(Plain(r), k)] = f}
          = {k \in Slots : r.cache[FromHead(r, k)] = f}
  BY <1>2, <1>3, FiledAt
<1>. QED BY <1>4 DEF SearchLength

\* A record with these fields is a ring of the store.
LEMMA ShapedBy ==
    ASSUME NEW r, NEW policy, NEW cache, NEW h, NEW t, NEW m, NEW size,
           IsStoreRing(r, policy, cache, h, t, m, size)
    PROVE  Shaped(r)
BY DEF Shaped

\* handleUsageLRU, field by field.
LEMMA UsedFields ==
    ASSUME NEW r, NEW policy, NEW cache, NEW h, NEW t, NEW m, NEW size,
           r = Ring(policy, cache, h, t, m, size), NEW f, NEW n, n = SearchLength(r, f)
    PROVE  handleUsageLRU(r, f)
               = Ring(policy,
                      ShiftUp(Written(cache, t, f), FromHead(r, n), (n + 1) % cacheSize),
                      Forth(h), Forth(t), m, size)
<1>1. PICK p, q : p = FromHead(r, n) /\ q = (n + 1) % cacheSize
  OBVIOUS
<1>2. handleUsageLRU(r, f) = [r EXCEPT !.cache = ShiftUp(Written(@, r.tail, f), p, q),
                                       !.head = Forth(@), !.tail = Forth(@)]
  BY <1>1 DEF handleUsageLRU, Written
<1>3. r.tail = t
  BY DEF Ring
<1>. QED BY <1>1, <1>2, <1>3 DEF Ring

\* handleUsage of a file of the table.
LEMMA PlainUsage ==
    ASSUME NEW r, Shaped(r), r.head \in Slots, r.tail \in Slots, NEW f \in Files
    PROVE  /\ Plain(handleUsage(r, f)) = handleUsage(Plain(r), f)
           /\ UsageExits(Plain(r), f) <=> UsageExits(r, f)
           /\ Shaped(handleUsage(r, f))
<1>1. PICK policy, cache, h, t, m, size : IsStoreRing(r, policy, cache, h, t, m, size)
  BY DEF Shaped
<1>2. PICK n, p, d : n = SearchLength(r, f) /\ p = Plain(r) /\ d = Filed(cache)
  OBVIOUS
<1>3. /\ r.head = h /\ r.tail = t /\ p = Ring(policy, d, h, t, m, size)
      /\ r = Ring(policy, cache, h, t, m, size) /\ cache \in Arrays(Pointers)
      /\ (IsFIFO(r) <=> IsFIFO(p)) /\ \A k : FromHead(r, k) = FromHead(p, k)
  BY <1>1, <1>2, PlainFields DEF IsStoreRing
<1>4. SearchLength(p, f) = n
  BY <1>2, PlainSearch
<1>5. UsageExits(p, f) <=> UsageExits(r, f)
  BY <1>2, <1>3, <1>4 DEF UsageExits
<1>6. PICK a, q, c : a = FromHead(r, n) /\ q = (n + 1) % cacheSize /\ c = ShiftUp(Written(cache, t, f), a, q)
  OBVIOUS
<1>7. handleUsageLRU(r, f) = Ring(policy, c, Forth(h), Forth(t), m, size)
  BY <1>2, <1>3, <1>6, UsedFields
<1>8. handleUsageLRU(p, f) = Ring(policy, ShiftUp(Written(d, t, f), a, q), Forth(h), Forth(t), m, size)
  BY <1>3, <1>4, <1>6, UsedFields
<1>9. Filed(c) = ShiftUp(Written(d, t, f), a, q) /\ c \in Arrays(Pointers)
  <2>1. Filed(Written(cache, t, f)) = Written(d, t, f) /\ Written(cache, t, f) \in Arrays(Pointers)
    BY <1>2, <1>3, FiledCommutes
  <2>. QED BY <1>6, <2>1, FiledCommutes
<1>10. IsStoreRing(handleUsageLRU(r, f), policy, c, Forth(h), Forth(t), m, size)
  BY <1>7, <1>9 DEF IsStoreRing
<1>11. Plain(handleUsageLRU(r, f)) = handleUsageLRU(p, f)
  BY <1>8, <1>9, <1>10, PlainFields
<1>12. Shaped(handleUsageLRU(r, f))
  BY <1>10, ShapedBy
<1>. QED BY <1>2, <1>3, <1>5, <1>11, <1>12 DEF handleUsage

\* handleInsertion, field by field.
LEMMA InsertedFields ==
    ASSUME NEW r, NEW policy, NEW cache, NEW h, NEW t, NEW m, NEW size,
           r = Ring(policy, cache, h, t, m, size), NEW l, NEW f
    PROVE  /\ AtCountLimit(r) =>
                 handleInsertion(r, l, f) = Ring(policy, Written(cache, t, f), Forth(h), Forth(t), m,
                                                 size - l[cache[Forth(h)]])
           /\ ~AtCountLimit(r) =>
                 handleInsertion(r, l, f) = Ring(policy, Written(cache, t, f), h, Forth(t), m + 1,
                                                 size)
<1>1. /\ r.policy = policy /\ r.cache = cache /\ r.head = h /\ r.tail = t
      /\ r.count = m /\ r.size = size
  BY DEF Ring
<1>2. PICK c, a, b, z : /\ c = Written(cache, t, f) /\ a = Forth(h) /\ b = Forth(t)
                        /\ z = size - l[cache[Forth(h)]]
  OBVIOUS
<1>3. CASE AtCountLimit(r)
  <2>1. handleInsertion(r, l, f) = [r EXCEPT !.cache = c, !.head = a, !.tail = b, !.count = m,
                                             !.size = z]
    BY <1>1, <1>2, <1>3 DEF handleInsertion, Written
  <2>2. handleInsertion(r, l, f) = Ring(policy, c, a, b, m, z)
    BY <2>1 DEF Ring
  <2>. QED BY <1>2, <1>3, <2>2
<1>4. CASE ~AtCountLimit(r)
  <2>1. handleInsertion(r, l, f) = [r EXCEPT !.cache = c, !.head = h, !.tail = b, !.count = m + 1,
                                             !.size = size]
    BY <1>1, <1>2, <1>4 DEF handleInsertion, Written
  <2>2. handleInsertion(r, l, f) = Ring(policy, c, h, b, m + 1, size)
    BY <2>1 DEF Ring
  <2>. QED BY <1>2, <1>4, <2>2
<1>. QED BY <1>3, <1>4

\* handleInsertion of a file that comes into the table.
LEMMA PlainInsertion ==
    ASSUME NEW r, Shaped(r), Plain(r) \in Rings, NEW l, NEW f \in Files,
           ~InsertionReadsDangling(r)
    PROVE  /\ Plain(handleInsertion(r, l, f)) = handleInsertion(Plain(r), l, f)
           /\ Shaped(handleInsertion(r, l, f))
           /\ r.head \in Slots /\ r.tail \in Slots
           /\ handleInsertion(r, l, f).head \in Slots /\ handleInsertion(r, l, f).tail \in Slots
<1>1. PICK policy, cache, h, t, m, size : IsStoreRing(r, policy, cache, h, t, m, size)
  BY DEF Shaped
<1>2. PICK p, d : p = Plain(r) /\ d = Filed(cache)
  OBVIOUS
<1>3. /\ r.head = h /\ r.tail = t /\ p = Ring(policy, d, h, t, m, size)
      /\ r = Ring(policy, cache, h, t, m, size) /\ cache \in Arrays(Pointers)
      /\ p.head = h /\ p.tail = t /\ p.count = m /\ r.count = m
      /\ p.cache = d /\ r.cache = cache
  BY <1>1, <1>2, PlainFields DEF IsStoreRing
<1>4. h \in Slots /\ t \in Slots /\ Forth(h) \in Slots /\ Forth(t) \in Slots
  <2>1. h \in Slots /\ t \in Slots
    BY <1>2, <1>3, RingFields
  <2>2. 1 \in Slots
    BY CacheSizeType DEF Slots
  <2>3. Forth(h) = Turn(h, 1) /\ Forth(t) = Turn(t, 1)
    BY <2>1, SlotArithmetic
  <2>4. Turn(h, 1) \in Slots /\ Turn(t, 1) \in Slots
    BY <2>1, <2>2, TurnIsSlot
  <2>. QED BY <2>1, <2>3, <2>4
<1>5. AtCountLimit(r) <=> AtCountLimit(p)
  BY <1>3 DEF AtCountLimit
<1>6. AtCountLimit(r) => d[Forth(h)] = cache[Forth(h)]
  BY <1>2, <1>3, <1>4 DEF InsertionReadsDangling, Filed
<1>7. PICK g, k, z : /\ g = IF AtCountLimit(r) THEN Forth(h) ELSE h
                     /\ k = IF AtCountLimit(r) THEN m ELSE m + 1
                     /\ z = IF AtCountLimit(r) THEN size - l[cache[Forth(h)]] ELSE size
  OBVIOUS
<1>8. /\ handleInsertion(r, l, f) = Ring(policy, Written(cache, t, f), g, Forth(t), k, z)
      /\ handleInsertion(p, l, f) = Ring(policy, Written(d, t, f), g, Forth(t), k, z)
  <2>1. CASE AtCountLimit(r)
    <3>1. handleInsertion(r, l, f) = Ring(policy, Written(cache, t, f), g, Forth(t), k, z)
      BY <1>3, <1>7, <2>1, InsertedFields
    <3>2. handleInsertion(p, l, f) = Ring(policy, Written(d, t, f), Forth(h), Forth(t), m,
                                          size - l[d[Forth(h)]])
      BY <1>3, <1>5, <2>1, InsertedFields
    <3>. QED BY <1>6, <1>7, <2>1, <3>1, <3>2
  <2>2. CASE ~AtCountLimit(r)
    <3>1. handleInsertion(r, l, f) = Ring(policy, Written(cache, t, f), g, Forth(t), k, z)
      BY <1>3, <1>7, <2>2, InsertedFields
    <3>2. handleInsertion(p, l, f) = Ring(policy, Written(d, t, f), g, Forth(t), k, z)
      BY <1>3, <1>5, <1>7, <2>2, InsertedFields
    <3>. QED BY <3>1, <3>2
  <2>. QED BY <2>1, <2>2
<1>9. Filed(Written(cache, t, f)) = Written(d, t, f) /\ Written(cache, t, f) \in Arrays(Pointers)
  BY <1>2, <1>3, <1>4, FiledCommutes
<1>10. IsStoreRing(handleInsertion(r, l, f), policy, Written(cache, t, f), g, Forth(t), k, z)
  BY <1>8, <1>9 DEF IsStoreRing
<1>11. /\ Plain(handleInsertion(r, l, f)) = handleInsertion(p, l, f)
       /\ handleInsertion(r, l, f).head = g /\ handleInsertion(r, l, f).tail = Forth(t)
  BY <1>8, <1>9, <1>10, PlainFields
<1>12. Shaped(handleInsertion(r, l, f))
  BY <1>10, ShapedBy
<1>. QED BY <1>2, <1>3, <1>4, <1>7, <1>11, <1>12

\* handleRemoval of a file of the table.
LEMMA PlainRemoval ==
    ASSUME NEW r, Shaped(r), r.head \in Slots, NEW l, NEW f \in Files
    PROVE  /\ Plain(handleRemoval(r, l, f)) = handleRemoval(Plain(r), l, f)
           /\ Shaped(handleRemoval(r, l, f))
<1>1. PICK policy, cache, h, t, m, size : IsStoreRing(r, policy, cache, h, t, m, size)
  BY DEF Shaped
<1>2. PICK n, p, d : n = SearchLength(r, f) /\ p = Plain(r) /\ d = Filed(cache)
  OBVIOUS
<1>3. /\ r.head = h /\ p = Ring(policy, d, h, t, m, size)
      /\ r = Ring(policy, cache, h, t, m, size) /\ cache \in Arrays(Pointers)
      /\ (IsFIFO(r) <=> IsFIFO(p)) /\ FromHead(r, n) = FromHead(p, n)
  BY <1>1, <1>2, PlainFields DEF IsStoreRing
<1>4. SearchLength(p, f) = n
  BY <1>2, PlainSearch
<1>5. PICK a, q, g, k, z : /\ a = FromHead(r, n) /\ q = IF IsFIFO(r) THEN n + 1 ELSE n
                           /\ g = Forth(h) /\ k = m - 1 /\ z = size - l[f]
  OBVIOUS
<1>6. handleRemoval(r, l, f) = Ring(policy, ShiftUp(cache, a, q), g, t, k, z)
  <2>1. handleRemoval(r, l, f) = [r EXCEPT !.cache = ShiftUp(@, a, q), !.head = Forth(@),
                                           !.count = @ - 1, !.size = @ - l[f]]
    BY <1>2, <1>5 DEF handleRemoval
  <2>2. r = Ring(policy, cache, h, t, m, size)
    BY <1>3
  <2>. QED BY <1>5, <2>1, <2>2 DEF Ring
<1>7. handleRemoval(p, l, f) = Ring(policy, ShiftUp(d, a, q), g, t, k, z)
  <2>1. handleRemoval(p, l, f) = [p EXCEPT !.cache = ShiftUp(@, a, q), !.head = Forth(@),
                                           !.count = @ - 1, !.size = @ - l[f]]
    BY <1>3, <1>4, <1>5 DEF handleRemoval
  <2>2. p = Ring(policy, d, h, t, m, size)
    BY <1>3
  <2>. QED BY <1>5, <2>1, <2>2 DEF Ring
<1>8. Filed(ShiftUp(cache, a, q)) = ShiftUp(d, a, q) /\ ShiftUp(cache, a, q) \in Arrays(Pointers)
  BY <1>2, <1>3, FiledCommutes
<1>9. IsStoreRing(handleRemoval(r, l, f), policy, ShiftUp(cache, a, q), g, t, k, z)
  BY <1>6, <1>8 DEF IsStoreRing
<1>10. Plain(handleRemoval(r, l, f)) = handleRemoval(p, l, f)
  BY <1>7, <1>8, <1>9, PlainFields
<1>11. Shaped(handleRemoval(r, l, f))
  BY <1>9, ShapedBy
<1>. QED BY <1>2, <1>10, <1>11

\* The files of the window are the same with and without the expelled entries.
LEMMA PlainWindow ==
    ASSUME NEW r, Shaped(r), WellFormed(Plain(r))
    PROVE  /\ r.count = Plain(r).count /\ r.head = Plain(r).head /\ r.tail = Plain(r).tail
           /\ r.size = Plain(r).size /\ r.policy = Plain(r).policy
           /\ r.head \in Slots /\ r.tail \in Slots /\ r.count \in 0 .. MaxFileCount
           /\ \A k \in Positions(r) : /\ r.cache[FromHead(r, k)] = At(Plain(r), k)
                                      /\ Plain(r).cache[FromHead(Plain(r), k)] = At(Plain(r), k)
                                      /\ At(Plain(r), k) \in Files
           /\ Window(r) = Window(Plain(r))
<1>1. PICK policy, cache, h, t, m, size : IsStoreRing(r, policy, cache, h, t, m, size)
  BY DEF Shaped
<1>2. PICK p, d : p = Plain(r) /\ d = Filed(cache)
  OBVIOUS
<1>3. /\ r.policy = policy /\ r.cache = cache /\ r.head = h /\ r.tail = t /\ r.count = m
      /\ r.size = size
      /\ p.policy = policy /\ p.cache = d /\ p.head = h /\ p.tail = t /\ p.count = m
      /\ p.size = size
      /\ \A k : FromHead(r, k) = FromHead(p, k)
  BY <1>1, <1>2, PlainFields
<1>4. /\ h \in Slots /\ t \in Slots /\ m \in 0 .. MaxFileCount
      /\ Positions(p) \subseteq Slots /\ \A k \in Slots : FromHead(p, k) \in Slots
  BY <1>2, <1>3, RingFields DEF WellFormed
<1>5. Positions(r) = Positions(p)
  BY <1>3 DEF Positions
<1>6. ASSUME NEW k \in Positions(p)
      PROVE  cache[FromHead(p, k)] = At(p, k) /\ d[FromHead(p, k)] = At(p, k) /\ At(p, k) \in Files
  <2>1. PICK i \in Slots : i = FromHead(p, k)
    BY <1>4
  <2>2. At(p, k) = d[i] /\ At(p, k) \in Files
    BY <1>2, <1>3, <2>1 DEF At, WellFormed
  <2>. QED BY <1>2, <2>1, <2>2, FiledAt
<1>7. Window(r) = Window(p)
  <2>1. \A k \in 1 .. m : k - 1 \in Positions(p)
    BY <1>3, <1>4 DEF Positions
  <2>2. \A k \in 1 .. m : r.cache[FromHead(r, k - 1)] = p.cache[FromHead(p, k - 1)]
    BY <1>3, <1>6, <2>1
  <2>. QED BY <1>3, <2>2 DEF Window
<1>. QED BY <1>2, <1>3, <1>4, <1>5, <1>6, <1>7

\* The eviction loop of handleEdit counts the same bytes as long as it is in the window.
LEMMA PlainExpectedSize ==
    ASSUME NEW r, Shaped(r), WellFormed(Plain(r)), NEW l \in [Files -> Int], NEW f \in Files,
           NEW newSize \in Int
    PROVE  \A k \in 0 .. r.count :
              ExpectedSize(r, l, f, newSize)[k] = ExpectedSize(Plain(r), l, f, newSize)[k]
<1>1. PICK p, e, x : /\ p = Plain(r) /\ e = ExpectedSize(r, l, f, newSize)
                     /\ x = ExpectedSize(p, l, f, newSize)
  OBVIOUS
<1>2. PICK m \in Nat : m = r.count
  BY PlainWindow
<1>3. /\ e[0] = r.size + newSize - l[f]
      /\ \A k \in Nat : e[k + 1] = e[k] - (IF r.cache[FromHead(r, k)] = f THEN 0
                                           ELSE l[r.cache[FromHead(r, k)]])
  BY <1>1, ExpectedSizeSteps
<1>4. /\ x[0] = p.size + newSize - l[f]
      /\ \A k \in Nat : x[k + 1] = x[k] - (IF p.cache[FromHead(p, k)] = f THEN 0
                                           ELSE l[p.cache[FromHead(p, k)]])
  BY <1>1, ExpectedSizeSteps
<1>5. e[0] = x[0]
  BY <1>1, <1>3, <1>4, PlainWindow
<1>6. ASSUME NEW k \in 0 .. m - 1, e[k] = x[k]
      PROVE  e[k + 1] = x[k + 1]
  <2>1. k \in Positions(r) /\ k \in Nat
    BY <1>2 DEF Positions
  <2>2. r.cache[FromHead(r, k)] = p.cache[FromHead(p, k)]
    BY <1>1, <2>1, PlainWindow
  <2>. QED BY <1>3, <1>4, <1>6, <2>1, <2>2
<1>7. ASSUME NEW i \in 0 .. m, e[i] # x[i]
      PROVE  FALSE
  <2>. DEFINE S == {k \in 0 .. m : e[k] # x[k]}
  <2>1. i \in S /\ S \in SUBSET Nat
    BY <1>7
  <2>2. PICK k \in S : \A n \in Nat : n < k => n \notin S
    BY <2>1, LeastOf
  <2>3. k # 0
    BY <1>5, <2>2
  <2>4. k - 1 \in 0 .. m - 1 /\ k - 1 \in 0 .. m /\ k - 1 \in Nat /\ k - 1 < k
    BY <2>2, <2>3
  <2>5. e[k - 1] = x[k - 1]
    BY <2>2, <2>4
  <2>6. e[k] = x[k]
    BY <1>6, <2>4, <2>5
  <2>. QED BY <2>2, <2>6
<1>. QED BY <1>1, <1>2, <1>7

\* So it stops at the same place, having evicted the same files.
LEMMA PlainEditScan ==
    ASSUME NEW r, Shaped(r), WellFormed(Plain(r)), NEW l \in [Files -> Int], NEW f \in Files,
           NEW newSize \in Int
    PROVE  /\ EditOverruns(r, l, f, newSize) <=> EditOverruns(Plain(r), l, f, newSize)
           /\ EditScan(r, l, f, newSize) = EditScan(Plain(r), l, f, newSize)
           /\ ~EditOverruns(r, l, f, newSize) =>
                 /\ EditScan(r, l, f, newSize) \in 0 .. r.count
                 /\ EditVictims(r, l, f, newSize) = EditVictims(Plain(r), l, f, newSize)
<1>1. PICK p : p = Plain(r) /\ WellFormed(p) /\ p.count = r.count /\ r.count \in Nat
  BY PlainWindow
<1>2. EditStops(r, l, f, newSize) = EditStops(p, l, f, newSize)
  BY <1>1, PlainExpectedSize DEF EditStops
<1>3. EditOverruns(r, l, f, newSize) <=> EditOverruns(p, l, f, newSize)
  BY <1>2 DEF EditOverruns
<1>4. PICK n : n = EditScan(r, l, f, newSize) /\ n = EditScan(p, l, f, newSize)
  BY <1>2 DEF EditScan
<1>5. ASSUME ~EditOverruns(r, l, f, newSize)
      PROVE  n \in 0 .. r.count /\ EditVictims(r, l, f, newSize) = EditVictims(p, l, f, newSize)
  <2>1. n \in 0 .. p.count
    BY <1>1, <1>3, <1>4, <1>5, EditScanStops
  <2>2. \A k \in 0 .. n - 1 : k \in Positions(r)
    BY <1>1, <2>1 DEF Positions
  <2>3. \A k \in 0 .. n - 1 : r.cache[FromHead(r, k)] = p.cache[FromHead(p, k)]
    BY <1>1, <2>2, PlainWindow
  <2>. QED BY <1>1, <1>4, <2>1, <2>3 DEF EditVictims
<1>. QED BY <1>1, <1>3, <1>4, <1>5

\* The ring that the loop leaves.
LEMMA PlainAdvanced ==
    ASSUME NEW r, Shaped(r), NEW n, NEW V, NEW z
    PROVE  /\ Plain(Advanced(r, n, V, z)) = Advanced(Plain(r), n, V, z)
           /\ Shaped(Advanced(r, n, V, z))
           /\ Advanced(r, n, V, z).head = FromHead(r, n) /\ Advanced(r, n, V, z).tail = r.tail
           /\ Advanced(Plain(r), n, V, z).tail = Plain(r).tail
<1>1. PICK policy, cache, h, t, m, size : IsStoreRing(r, policy, cache, h, t, m, size)
  BY DEF Shaped
<1>2. PICK p, d : p = Plain(r) /\ d = Filed(cache)
  OBVIOUS
<1>3. /\ r.tail = t /\ p = Ring(policy, d, h, t, m, size) /\ p.tail = t
      /\ r = Ring(policy, cache, h, t, m, size) /\ cache \in Arrays(Pointers)
      /\ FromHead(r, n) = FromHead(p, n)
  BY <1>1, <1>2, PlainFields DEF IsStoreRing
<1>4. PICK g, k : g = FromHead(r, n) /\ k = m - Cardinality(V)
  OBVIOUS
<1>5. Advanced(r, n, V, z) = Ring(policy, cache, g, t, k, z)
  <2>1. r = Ring(policy, cache, h, t, m, size)
    BY <1>3
  <2>2. Advanced(r, n, V, z) = [r EXCEPT !.head = g, !.count = @ - Cardinality(V), !.size = z]
    BY <1>4 DEF Advanced
  <2>. QED BY <1>4, <2>1, <2>2 DEF Ring
<1>6. Advanced(p, n, V, z) = Ring(policy, d, g, t, k, z)
  <2>1. p = Ring(policy, d, h, t, m, size)
    BY <1>3
  <2>2. Advanced(p, n, V, z) = [p EXCEPT !.head = g, !.count = @ - Cardinality(V), !.size = z]
    BY <1>3, <1>4 DEF Advanced
  <2>. QED BY <1>4, <2>1, <2>2 DEF Ring
<1>7. IsStoreRing(Advanced(r, n, V, z), policy, cache, g, t, k, z)
  BY <1>3, <1>5 DEF IsStoreRing
<1>8. /\ Plain(Advanced(r, n, V, z)) = Advanced(p, n, V, z)
      /\ Advanced(r, n, V, z).head = g /\ Advanced(r, n, V, z).tail = t
  BY <1>2, <1>6, <1>7, PlainFields
<1>9. Shaped(Advanced(r, n, V, z))
  BY <1>7, ShapedBy
<1>10. Advanced(p, n, V, z).tail = t
  BY <1>6 DEF Ring
<1>. QED BY <1>2, <1>3, <1>4, <1>8, <1>9, <1>10

\* Where it puts the edited file if it has passed it, field by field.
LEMMA ReplacedFields ==
    ASSUME NEW r, NEW policy, NEW cache, NEW h, NEW t, NEW m, NEW size,
           r = Ring(policy, cache, h, t, m, size), NEW f
    PROVE  /\ Replaced(r, f) = Ring(policy, Written(cache, Back(h), f), Back(h), t, m, size)
           /\ Requeued(r, f) = Ring(policy, Written(cache, t, f), h, Forth(t), m, size)
<1>1. PICK b, a : b = Back(h) /\ a = Forth(t)
  OBVIOUS
<1>2. r.head = h /\ r.tail = t
  BY DEF Ring
<1>3. Replaced(r, f) = [r EXCEPT !.head = b, !.cache = Written(@, b, f)]
  BY <1>1, <1>2 DEF Replaced, Written
<1>4. Requeued(r, f) = [r EXCEPT !.cache = Written(@, t, f), !.tail = a]
  BY <1>1, <1>2 DEF Requeued, Written
<1>5. Replaced(r, f) = Ring(policy, Written(cache, b, f), b, t, m, size)
  BY <1>3 DEF Ring
<1>6. Requeued(r, f) = Ring(policy, Written(cache, t, f), h, a, m, size)
  BY <1>4 DEF Ring
<1>. QED BY <1>1, <1>5, <1>6

\* ... with and without the expelled entries.
LEMMA PlainSkipped ==
    ASSUME NEW r, Shaped(r), r.head \in Slots, r.tail \in Slots, NEW f \in Files
    PROVE  /\ Plain(Replaced(r, f)) = Replaced(Plain(r), f) /\ Shaped(Replaced(r, f))
           /\ Plain(Requeued(r, f)) = Requeued(Plain(r), f) /\ Shaped(Requeued(r, f))
<1>1. PICK policy, cache, h, t, m, size : IsStoreRing(r, policy, cache, h, t, m, size)
  BY DEF Shaped
<1>2. PICK p, d : p = Plain(r) /\ d = Filed(cache)
  OBVIOUS
<1>3. /\ r.head = h /\ r.tail = t /\ p = Ring(policy, d, h, t, m, size)
      /\ r = Ring(policy, cache, h, t, m, size) /\ cache \in Arrays(Pointers)
      /\ p.head = h /\ p.tail = t
  BY <1>1, <1>2, PlainFields DEF IsStoreRing
<1>4. PICK b \in Slots : b = Back(h)
  <2>1. Back(h) = Turn(h, cacheSize - 1) /\ cacheSize - 1 \in Slots
    BY <1>3, SlotArithmetic, CacheSizeType DEF Slots
  <2>. QED BY <1>3, <2>1, TurnIsSlot
<1>5. /\ Replaced(r, f) = Ring(policy, Written(cache, b, f), b, t, m, size)
      /\ Replaced(p, f) = Ring(policy, Written(d, b, f), b, t, m, size)
  <2>1. Replaced(r, f) = Ring(policy, Written(cache, b, f), b, t, m, size)
    BY <1>3, <1>4, ReplacedFields
  <2>2. Replaced(p, f) = Ring(policy, Written(d, b, f), b, t, m, size)
    BY <1>3, <1>4, ReplacedFields
  <2>. QED BY <2>1, <2>2
<1>6. /\ Requeued(r, f) = Ring(policy, Written(cache, t, f), h, Forth(t), m, size)
      /\ Requeued(p, f) = Ring(policy, Written(d, t, f), h, Forth(t), m, size)
  <2>1. Requeued(r, f) = Ring(policy, Written(cache, t, f), h, Forth(t), m, size)
    BY <1>3, ReplacedFields
  <2>2. Requeued(p, f) = Ring(policy, Written(d, t, f), h, Forth(t), m, size)
    BY <1>3, ReplacedFields
  <2>. QED BY <2>1, <2>2
<1>7. /\ Filed(Written(cache, b, f)) = Written(d, b, f) /\ Written(cache, b, f) \in Arrays(Pointers)
      /\ Filed(Written(cache, t, f)) = Written(d, t, f) /\ Written(cache, t, f) \in Arrays(Pointers)
  BY <1>2, <1>3, <1>4, FiledCommutes
<1>8. IsStoreRing(Replaced(r, f), policy, Written(cache, b, f), b, t, m, size)
  BY <1>5, <1>7 DEF IsStoreRing
<1>9. IsStoreRing(Requeued(r, f), policy, Written(cache, t, f), h, Forth(t), m, size)
  BY <1>6, <1>7 DEF IsStoreRing
<1>10. Plain(Replaced(r, f)) = Replaced(p, f)
  BY <1>5, <1>7, <1>8, PlainFields
<1>11. Plain(Requeued(r, f)) = Requeued(p, f)
  BY <1>6, <1>7, <1>9, PlainFields
<1>12. Shaped(Replaced(r, f))
  BY <1>8, ShapedBy
<1>13. Shaped(Requeued(r, f))
  BY <1>9, ShapedBy
<1>. QED BY <1>2, <1>10, <1>11, <1>12, <1>13

\* handleEdit of a file of the table.
LEMMA PlainEdit ==
    ASSUME NEW r, Shaped(r), WellFormed(Plain(r)), NEW l \in [Files -> Int], NEW f \in Files,
           NEW newSize \in Int, ~EditOverruns(r, l, f, newSize)
    PROVE  /\ EditExits(r, l, f, newSize) <=> EditExits(Plain(r), l, f, newSize)
           /\ Plain(handleEdit(r, l, f, newSize)) = handleEdit(Plain(r), l, f, newSize)
           /\ Shaped(handleEdit(r, l, f, newSize))
<1>1. PICK p, n, V, z : /\ p = Plain(r) /\ n = EditScan(r, l, f, newSize)
                        /\ V = EditVictims(r, l, f, newSize)
                        /\ z = ExpectedSize(r, l, f, newSize)[n]
  OBVIOUS
<1>2. /\ n = EditScan(p, l, f, newSize) /\ V = EditVictims(p, l, f, newSize) /\ n \in 0 .. r.count
  BY <1>1, PlainEditScan
<1>3. z = ExpectedSize(p, l, f, newSize)[n]
  BY <1>1, <1>2, PlainExpectedSize
<1>4. /\ r.head \in Slots /\ r.tail \in Slots /\ r.count \in 0 .. MaxFileCount
      /\ r.tail = p.tail
  BY <1>1, PlainWindow
<1>5. SearchLength(p, f) = SearchLength(r, f) /\ (IsFIFO(r) <=> IsFIFO(p))
  <2>1. IsFIFO(r) <=> IsFIFO(p)
    BY <1>1, PlainWindow DEF IsFIFO
  <2>. QED BY <1>1, <1>4, <2>1, PlainSearch
<1>6. PICK t, u : t = Advanced(r, n, V, z) /\ u = Advanced(p, n, V, z)
  OBVIOUS
<1>7. /\ u = Plain(t) /\ Shaped(t) /\ t.head = FromHead(r, n) /\ t.tail = r.tail /\ u.tail = p.tail
  BY <1>1, <1>6, PlainAdvanced
<1>8. t.head \in Slots /\ t.tail \in Slots
  <2>1. n \in Slots /\ n \in 0 .. cacheSize
    BY <1>2, <1>4, CacheSizeType DEF Slots
  <2>2. FromHead(r, n) = Turn(r.head, n)
    BY <1>4, <2>1, SlotArithmetic
  <2>3. Turn(r.head, n) \in Slots
    BY <1>4, <2>1, TurnIsSlot
  <2>. QED BY <1>4, <1>7, <2>2, <2>3
<1>9. /\ handleEdit(r, l, f, newSize)
             = IF ~(n > SearchLength(r, f)) THEN handleUsage(t, f)
               ELSE IF IsFIFO(r) THEN Replaced(t, f) ELSE Requeued(t, f)
  BY <1>1, <1>6, <1>7, EditOfRecord
<1>10. /\ handleEdit(p, l, f, newSize)
             = IF ~(n > SearchLength(p, f)) THEN handleUsage(u, f)
               ELSE IF IsFIFO(p) THEN Replaced(u, f) ELSE Requeued(u, f)
  <2>1. /\ n = EditScan(p, l, f, newSize) /\ V = EditVictims(p, l, f, newSize)
        /\ z = ExpectedSize(p, l, f, newSize)[n] /\ u = Advanced(p, n, V, z) /\ u.tail = p.tail
    BY <1>2, <1>3, <1>6, <1>7
  <2>. QED BY <2>1, EditOfRecord
<1>11. /\ Plain(handleUsage(t, f)) = handleUsage(u, f) /\ Shaped(handleUsage(t, f))
  BY <1>7, <1>8, PlainUsage
<1>12. /\ Plain(Replaced(t, f)) = Replaced(u, f) /\ Shaped(Replaced(t, f))
       /\ Plain(Requeued(t, f)) = Requeued(u, f) /\ Shaped(Requeued(t, f))
  BY <1>7, <1>8, PlainSkipped
<1>13. PICK s, q : s = handleEdit(r, l, f, newSize) /\ q = handleEdit(p, l, f, newSize)
  OBVIOUS
<1>14. Plain(s) = q /\ Shaped(s)
  <2>1. CASE ~(n > SearchLength(r, f))
    BY <1>5, <1>9, <1>10, <1>11, <1>13, <2>1
  <2>2. CASE n > SearchLength(r, f) /\ IsFIFO(r)
    BY <1>5, <1>9, <1>10, <1>12, <1>13, <2>2
  <2>3. CASE n > SearchLength(r, f) /\ ~IsFIFO(r)
    BY <1>5, <1>9, <1>10, <1>12, <1>13, <2>3
  <2>. QED BY <2>1, <2>2, <2>3
<1>15. EditExits(r, l, f, newSize) <=> EditExits(p, l, f, newSize)
  <2>1. PICK a, b : a = [r EXCEPT !.head = FromHead(r, n)] /\ b = [p EXCEPT !.head = FromHead(p, n)]
    OBVIOUS
  <2>2. b = Plain(a) /\ Shaped(a) /\ a.head = FromHead(r, n) /\ a.tail = r.tail
    <3>1. PICK policy, cache, h, tl, m, size : IsStoreRing(r, policy, cache, h, tl, m, size)
      BY DEF Shaped
    <3>2. PICK d, g : d = Filed(cache) /\ g = FromHead(r, n)
      OBVIOUS
    <3>3. /\ r.tail = tl /\ p = Ring(policy, d, h, tl, m, size)
          /\ r = Ring(policy, cache, h, tl, m, size) /\ cache \in Arrays(Pointers)
          /\ g = FromHead(p, n)
      BY <1>1, <3>1, <3>2, PlainFields DEF IsStoreRing
    <3>4. a = Ring(policy, cache, g, tl, m, size)
      <4>1. r = Ring(policy, cache, h, tl, m, size) /\ a = [r EXCEPT !.head = g]
        BY <2>1, <3>2, <3>3
      <4>. QED BY <4>1 DEF Ring
    <3>5. b = Ring(policy, d, g, tl, m, size)
      <4>1. p = Ring(policy, d, h, tl, m, size) /\ b = [p EXCEPT !.head = g]
        BY <2>1, <3>3
      <4>. QED BY <4>1 DEF Ring
    <3>6. IsStoreRing(a, policy, cache, g, tl, m, size)
      BY <3>3, <3>4 DEF IsStoreRing
    <3>7. Plain(a) = b /\ a.head = g /\ a.tail = tl
      BY <3>2, <3>5, <3>6, PlainFields
    <3>8. Shaped(a)
      BY <3>6, ShapedBy
    <3>. QED BY <3>2, <3>3, <3>7, <3>8
  <2>3. UsageExits(a, f) <=> UsageExits(b, f)
    BY <1>4, <1>7, <1>8, <2>2, PlainUsage
  <2>. QED BY <1>1, <1>2, <1>5, <2>1, <2>3 DEF EditExits
<1>. QED BY <1>1, <1>13, <1>14, <1>15

----------------------------------------------------------------------------
(* What only the store does: it keeps an expelled entry for a while, in    *)
(* which a readNFiles may use it.                                          *)

\* Freeing, field by field.
LEMMA FreedFields ==
    ASSUME NEW r, NEW policy, NEW cache, NEW h, NEW t, NEW m, NEW size,
           r = Ring(policy, cache, h, t, m, size), NEW V
    PROVE  Free(r, V) = Ring(policy, Dangle(cache, V), h, t, m, size)
<1>1. PICK d : d = Dangle(cache, V)
  OBVIOUS
<1>2. r.cache = cache
  BY DEF Ring
<1>3. Free(r, V) = [r EXCEPT !.cache = d]
  BY <1>1, <1>2 DEF Free
<1>4. Free(r, V) = Ring(policy, d, h, t, m, size)
  BY <1>3 DEF Ring
<1>. QED BY <1>1, <1>4

\* The array after client c has expelled the files V.
Kept(cache, c, V) == [i \in Slots |-> IF cache[i] \in V THEN <<c, cache[i]>> ELSE cache[i]]

\* Expelling, field by field.
LEMMA ExpelledFields ==
    ASSUME NEW r, NEW policy, NEW cache, NEW h, NEW t, NEW m, NEW size,
           r = Ring(policy, cache, h, t, m, size), NEW V, NEW c
    PROVE  Expel(r, c, V) = Ring(policy, Kept(cache, c, V), h, t, m, size)
<1>1. PICK d : d = Kept(cache, c, V)
  OBVIOUS
<1>2. r.cache = cache
  BY DEF Ring
<1>3. Expel(r, c, V) = [r EXCEPT !.cache = d]
  BY <1>1, <1>2 DEF Expel, Kept
<1>4. Expel(r, c, V) = Ring(policy, d, h, t, m, size)
  BY <1>3 DEF Ring
<1>. QED BY <1>1, <1>4

\* An expelled file is as good as freed: the table has it no more.
LEMMA PlainExpel ==
    ASSUME NEW r, Shaped(r), NEW c \in Clients, NEW V \in SUBSET Files
    PROVE  Plain(Expel(r, c, V)) = Free(Plain(r), V) /\ Shaped(Expel(r, c, V))
<1>1. PICK policy, cache, h, t, m, size : IsStoreRing(r, policy, cache, h, t, m, size)
  BY DEF Shaped
<1>2. PICK p, d : p = Plain(r) /\ d = Filed(cache)
  OBVIOUS
<1>3. /\ p = Ring(policy, d, h, t, m, size)
      /\ r = Ring(policy, cache, h, t, m, size) /\ cache \in Arrays(Pointers)
  BY <1>1, <1>2, PlainFields DEF IsStoreRing
<1>4. PICK a : a = Kept(cache, c, V)
  OBVIOUS
<1>5. Expel(r, c, V) = Ring(policy, a, h, t, m, size)
  BY <1>3, <1>4, ExpelledFields
<1>6. Free(p, V) = Ring(policy, Dangle(d, V), h, t, m, size)
  <2>1. p = Ring(policy, d, h, t, m, size)
    BY <1>3
  <2>. QED BY <2>1, FreedFields
<1>7. \A i \in Slots : cache[i] \in Pointers
  BY <1>3 DEF Arrays
<1>8. a \in Arrays(Pointers)
  <2>1. ASSUME NEW i \in Slots
        PROVE  (IF cache[i] \in V THEN <<c, cache[i]>> ELSE cache[i]) \in Pointers
    <3>1. CASE cache[i] \in V
      <4>1. <<c, cache[i]>> \in Expelled
        BY <3>1, KindsDiffer
      <4>. QED BY <3>1, <4>1 DEF Pointers
    <3>. QED BY <1>7, <3>1
  <2>. QED BY <1>4, <2>1 DEF Arrays, Kept
<1>9. Filed(a) = Dangle(d, V)
  <2>1. ASSUME NEW i \in Slots
        PROVE  Filed(a)[i] = Dangle(d, V)[i]
    <3>1. PICK x : x = cache[i]
      OBVIOUS
    <3>2. Dangle(d, V)[i] = IF d[i] \in V THEN NoFile ELSE d[i]
      BY DEF Dangle
    <3>3. d[i] = IF x \in Files THEN x ELSE NoFile
      BY <1>2, <3>1, FiledAt
    <3>4. CASE x \in V
      <4>1. a[i] = <<c, x>> /\ a[i] \in Expelled
        BY <1>4, <3>1, <3>4, KindsDiffer DEF Kept
      <4>2. Filed(a)[i] = NoFile
        BY <4>1, FiledAt
      <4>. QED BY <3>2, <3>3, <3>4, <4>2
    <3>5. CASE x \notin V
      <4>1. a[i] = x
        BY <1>4, <3>1, <3>5 DEF Kept
      <4>2. Filed(a)[i] = d[i]
        BY <3>3, <4>1, FiledAt
      <4>3. d[i] \notin V
        BY <3>3, <3>5, KindsDiffer
      <4>. QED BY <3>2, <4>2, <4>3
    <3>. QED BY <3>4, <3>5
  <2>2. /\ Dangle(d, V) = [i \in Slots |-> Dangle(d, V)[i]]
        /\ Filed(a) = [i \in Slots |-> Filed(a)[i]]
    BY DEF Dangle, Filed
  <2>. QED BY <2>1, <2>2
<1>10. IsStoreRing(Expel(r, c, V), policy, a, h, t, m, size)
  BY <1>5, <1>8 DEF IsStoreRing
<1>11. Plain(Expel(r, c, V)) = Free(p, V)
  BY <1>6, <1>9, <1>10, PlainFields
<1>12. Shaped(Expel(r, c, V))
  BY <1>10, ShapedBy
<1>. QED BY <1>2, <1>11, <1>12

\* Freeing files of the table frees them with and without the expelled entries ...
LEMMA PlainFree ==
    ASSUME NEW r, Shaped(r), NEW V \in SUBSET Pointers, V \cap {NoFile} = {}
    PROVE  /\ Shaped(Free(r, V))
           /\ V \subseteq Files => Plain(Free(r, V)) = Free(Plain(r), V)
           /\ V \subseteq Expelled => Plain(Free(r, V)) = Plain(r)
<1>1. PICK policy, cache, h, t, m, size : IsStoreRing(r, policy, cache, h, t, m, size)
  BY DEF Shaped
<1>2. PICK p, d, a : p = Plain(r) /\ d = Filed(cache) /\ a = Dangle(cache, V)
  OBVIOUS
<1>3. /\ p = Ring(policy, d, h, t, m, size)
      /\ r = Ring(policy, cache, h, t, m, size) /\ cache \in Arrays(Pointers)
  BY <1>1, <1>2, PlainFields DEF IsStoreRing
<1>4. Free(r, V) = Ring(policy, a, h, t, m, size)
  <2>1. r = Ring(policy, cache, h, t, m, size)
    BY <1>3
  <2>. QED BY <1>2, <2>1, FreedFields
<1>5. Free(p, V) = Ring(policy, Dangle(d, V), h, t, m, size)
  <2>1. p = Ring(policy, d, h, t, m, size)
    BY <1>3
  <2>. QED BY <2>1, FreedFields
<1>6. a \in Arrays(Pointers)
  BY <1>2, <1>3 DEF Arrays, Dangle, Pointers
<1>7. IsStoreRing(Free(r, V), policy, a, h, t, m, size)
  BY <1>4, <1>6 DEF IsStoreRing
<1>8. Plain(Free(r, V)) = Ring(policy, Filed(a), h, t, m, size)
  BY <1>7, PlainFields
<1>9. \A i \in Slots : a[i] = IF cache[i] \in V THEN NoFile ELSE cache[i]
  BY <1>2 DEF Dangle
<1>10. ASSUME V \subseteq Files
       PROVE  Filed(a) = Dangle(d, V)
  <2>1. ASSUME NEW i \in Slots
        PROVE  Filed(a)[i] = IF d[i] \in V THEN NoFile ELSE d[i]
    <3>1. PICK x : x = cache[i]
      OBVIOUS
    <3>2. d[i] = IF x \in Files THEN x ELSE NoFile
      BY <1>2, <3>1, FiledAt
    <3>3. a[i] = IF x \in V THEN NoFile ELSE x
      BY <1>9, <3>1
    <3>4. Filed(a)[i] = IF a[i] \in Files THEN a[i] ELSE NoFile
      BY FiledAt
    <3>. QED BY <1>10, <3>2, <3>3, <3>4, KindsDiffer
  <2>2. Filed(a) = [i \in Slots |-> Filed(a)[i]]
    BY DEF Filed
  <2>. QED BY <2>1, <2>2 DEF Dangle
<1>11. ASSUME V \subseteq Expelled
       PROVE  Filed(a) = d
  <2>1. ASSUME NEW i \in Slots
        PROVE  Filed(a)[i] = d[i]
    <3>1. PICK x : x = cache[i]
      OBVIOUS
    <3>2. d[i] = IF x \in Files THEN x ELSE NoFile
      BY <1>2, <3>1, FiledAt
    <3>3. a[i] = IF x \in V THEN NoFile ELSE x
      BY <1>9, <3>1
    <3>4. Filed(a)[i] = IF a[i] \in Files THEN a[i] ELSE NoFile
      BY FiledAt
    <3>. QED BY <1>11, <3>2, <3>3, <3>4, KindsDiffer
  <2>2. Filed(a) = [i \in Slots |-> Filed(a)[i]] /\ d = [i \in Slots |-> d[i]]
    BY <1>2 DEF Filed
  <2>. QED BY <2>1, <2>2
<1>12. Shaped(Free(r, V))
  BY <1>7, ShapedBy
<1>. QED BY <1>2, <1>3, <1>5, <1>8, <1>10, <1>11, <1>12

\* A ring that keeps its window, and outside it shows no other file, agrees as before.
LEMMA SameWindowAgrees ==
    ASSUME NEW p, WellFormed(p), NoStrays(p), NEW q \in Rings, FromHead(q, q.count) = q.tail,
           q.count = p.count, \A k \in Positions(p) : At(q, k) = At(p, k),
           Values(q) \subseteq Values(p) \cup {NoFile}
    PROVE  /\ WellFormed(q) /\ NoStrays(q) /\ Contents(q) = Contents(p)
           /\ Window(q) = Window(p)
<1>1. Positions(q) = Positions(p) /\ p.count \in Nat
  BY RingFields DEF Positions, WellFormed
<1>2. WellFormed(q)
  BY <1>1 DEF WellFormed
<1>3. Contents(q) = Contents(p)
  BY <1>1 DEF Contents
<1>4. NoStrays(q)
  BY <1>3 DEF NoStrays
<1>5. \A k \in 1 .. p.count : k - 1 \in Positions(p)
  BY <1>1 DEF Positions
<1>6. \A k \in 1 .. p.count : q.cache[FromHead(q, k - 1)] = p.cache[FromHead(p, k - 1)]
  BY <1>5 DEF At
<1>7. Window(q) = Window(p)
  BY <1>6 DEF Window
<1>. QED BY <1>2, <1>3, <1>4, <1>7

\* The slot of the expelled entry that is used is outside the window.
LEMMA ExpelledIsOutside ==
    ASSUME NEW r, Shaped(r), WellFormed(Plain(r)), NEW e \in Expelled, NEW i \in Slots,
           r.cache[i] = e
    PROVE  /\ SearchLength(r, e) \in Slots /\ SearchLength(r, e) >= r.count
           /\ \A k \in 0 .. cacheSize : FromHead(r, k) = Turn(r.head, k)
<1>1. r.head \in Slots /\ r.count \in 0 .. MaxFileCount
  BY PlainWindow
<1>2. \A k \in 0 .. cacheSize : FromHead(r, k) = Turn(r.head, k)
  BY <1>1, SlotArithmetic
<1>3. \A k \in Slots : k \in 0 .. cacheSize /\ k \in Nat
  BY CacheSizeType DEF Slots
<1>4. PICK S : S = {k \in Slots : r.cache[FromHead(r, k)] = e}
  OBVIOUS
<1>5. PICK j \in Slots : Turn(r.head, j) = i
  BY <1>1, TurnIsOnto
<1>6. j \in S /\ S \in SUBSET Nat
  <2>1. FromHead(r, j) = i
    BY <1>2, <1>3, <1>5
  <2>. QED BY <1>3, <1>4, <2>1
<1>7. PICK n : n = Min(S) /\ n \in S
  BY <1>6, MinIsLeast
<1>8. n = SearchLength(r, e)
  BY <1>4, <1>7 DEF SearchLength
<1>9. n >= r.count
  <2>1. SUFFICES ASSUME n < r.count
                 PROVE  FALSE
    BY <1>1, <1>3, <1>4, <1>7
  <2>2. n \in Positions(r)
    BY <1>1, <1>3, <1>4, <1>7, <2>1 DEF Positions
  <2>3. r.cache[FromHead(r, n)] \in Files
    BY <2>2, PlainWindow
  <2>. QED BY <1>4, <1>7, <2>3, KindsDiffer
<1>. QED BY <1>2, <1>4, <1>7, <1>8, <1>9

\* What the shift makes of the array: the window, one slot on, or the entry in its last place.
LEMMA ExpelledArray ==
    ASSUME NEW cache \in Arrays(Pointers), NEW h \in Slots, NEW m \in 0 .. MaxFileCount,
           NEW e \in Expelled, NEW n \in Slots, n >= m,
           NEW a, a = ShiftUp(Written(cache, Turn(h, m), e), Turn(h, n), (n + 1) % cacheSize)
    PROVE  /\ a \in Arrays(Pointers)
           /\ \A S : cache \in Arrays(S) => a \in Arrays(S \cup {e})
           /\ n # cacheSize - 1 =>
                 \A k \in 0 .. m - 1 : a[Turn(Turn(h, 1), k)] = cache[Turn(h, k)]
           /\ n = cacheSize - 1 /\ m # 0 => a[Turn(Turn(h, 1), m - 1)] = e
<1>1. m \in Slots /\ Turn(h, m) \in Slots /\ Turn(h, n) \in Slots
  <2>1. m \in Slots
    BY CacheSizeType DEF Slots
  <2>. QED BY <2>1, TurnIsSlot
<1>2. PICK w : w = Written(cache, Turn(h, m), e)
  OBVIOUS
<1>3. IsWritten(w, cache, h, m, e)
  BY <1>1, <1>2, WriteAt
<1>4. ASSUME NEW S, cache \in Arrays(S)
      PROVE  a \in Arrays(S \cup {e})
  <2>1. w \in Arrays(S \cup {e})
    BY <1>1, <1>2, <1>4 DEF Arrays, Written
  <2>. QED BY <1>2, <2>1, ShiftedFrom
<1>5. a \in Arrays(Pointers)
  <2>1. Pointers \cup {e} = Pointers
    BY DEF Pointers
  <2>. QED BY <1>4, <2>1
<1>6. \A k \in 0 .. m - 1 : /\ k \in Slots /\ k + 1 \in Slots /\ k + 1 >= 1 /\ k + 1 <= n /\ k # m
                            /\ Turn(Turn(h, 1), k) = Turn(h, k + 1) /\ (k + 1) - 1 = k
  <2>1. ASSUME NEW k \in 0 .. m - 1
        PROVE  /\ k \in Slots /\ k + 1 \in Slots /\ k + 1 >= 1 /\ k + 1 <= n /\ k # m
               /\ k \in 0 .. cacheSize /\ 1 \in 0 .. cacheSize /\ 1 + k <= cacheSize
               /\ 1 + k = k + 1 /\ (k + 1) - 1 = k
    BY CacheSizeType DEF Slots
  <2>2. ASSUME NEW k \in 0 .. m - 1
        PROVE  Turn(Turn(h, 1), k) = Turn(h, k + 1)
    <3>1. Turn(Turn(h, 1), k) = Turn(h, 1 + k)
      BY <2>1, TurnTwice
    <3>. QED BY <2>1, <3>1
  <2>. QED BY <2>1, <2>2
<1>7. ASSUME n # cacheSize - 1, NEW k \in 0 .. m - 1
      PROVE  a[Turn(Turn(h, 1), k)] = cache[Turn(h, k)]
  <2>1. (n + 1) % cacheSize = n + 1
    <3>1. n + 1 \in 0 .. 2 * cacheSize - 1 /\ n + 1 < cacheSize
      BY <1>7, CacheSizeType DEF Slots
    <3>. QED BY <3>1, WithinTwoRounds
  <2>2. IsShifted(a, w, h, n)
    BY <1>2, <2>1, ShiftAt
  <2>3. a[Turn(h, k + 1)] = w[Turn(h, (k + 1) - 1)]
    BY <1>6, <2>2 DEF IsShifted
  <2>4. w[Turn(h, k)] = cache[Turn(h, k)]
    BY <1>3, <1>6 DEF IsWritten
  <2>. QED BY <1>6, <2>3, <2>4
<1>8. ASSUME n = cacheSize - 1, m # 0
      PROVE  a[Turn(Turn(h, 1), m - 1)] = e
  <2>1. (n + 1) % cacheSize = 0
    <3>1. n + 1 \in 0 .. 2 * cacheSize - 1 /\ n + 1 = cacheSize
      BY <1>8, CacheSizeType DEF Slots
    <3>. QED BY <3>1, WithinTwoRounds, CacheSizeType
  <2>2. m - 1 \in 0 .. m - 1 /\ (m - 1) + 1 = m
    BY <1>8
  <2>3. PICK j \in Slots : j = Turn(h, m) /\ j = Turn(Turn(h, 1), m - 1)
    BY <1>1, <1>6, <2>2
  <2>4. PICK b \in Slots : b = Turn(h, n)
    BY <1>1
  <2>5. b + cacheSize - j \in 0 .. 2 * cacheSize - 1
    BY CacheSizeType DEF Slots
  <2>6. ~((b + cacheSize - j) % cacheSize < 0)
    BY <2>5, WithinTwoRounds, CacheSizeType
  <2>7. a[j] = w[j]
    BY <1>2, <2>1, <2>4, <2>6 DEF ShiftUp
  <2>8. w[j] = e
    BY <1>1, <1>3, <2>3 DEF IsWritten
  <2>. QED BY <2>3, <2>7, <2>8
<1>. QED BY <1>4, <1>5, <1>7, <1>8

\* The use of an expelled entry under LRU.
LEMMA UseOfExpelled ==
    ASSUME NEW r, Shaped(r), WellFormed(Plain(r)), NoStrays(Plain(r)), NEW e \in Expelled,
           NEW i \in Slots, r.cache[i] = e, NEW s, s = handleUsageLRU(r, e)
    PROVE  /\ Shaped(s) /\ s.policy = r.policy /\ s.count = r.count /\ s.size = r.size
           /\ SearchLength(r, e) = cacheSize - 1 /\ r.count # 0 =>
                 \A S \in SUBSET Files : BroughtBack(s, S)
           /\ ~(SearchLength(r, e) = cacheSize - 1 /\ r.count # 0) =>
                 /\ Agrees(s, Contents(Plain(r)))
                 /\ Window(Plain(s)) = Window(Plain(r))
<1>1. PICK policy, cache, h, t, m, size : IsStoreRing(r, policy, cache, h, t, m, size)
  BY DEF Shaped
<1>2. PICK p, d, n : p = Plain(r) /\ d = Filed(cache) /\ n = SearchLength(r, e)
  OBVIOUS
<1>3. /\ p.policy = policy /\ p.cache = d /\ p.head = h /\ p.tail = t /\ p.count = m
      /\ p.size = size
      /\ r.policy = policy /\ r.cache = cache /\ r.head = h /\ r.tail = t /\ r.count = m
      /\ r.size = size
      /\ r = Ring(policy, cache, h, t, m, size) /\ cache \in Arrays(Pointers)
  BY <1>1, <1>2, PlainFields DEF IsStoreRing
<1>4. /\ policy \in CachePolicies /\ h \in Slots /\ m \in 0 .. MaxFileCount /\ size \in Int
      /\ t = FromHead(p, m) /\ \A k \in 0 .. cacheSize : FromHead(p, k) = Turn(h, k)
  BY <1>2, <1>3, RingFields DEF WellFormed
<1>5. m \in Slots /\ m \in 0 .. cacheSize
  BY <1>4, CacheSizeType DEF Slots
<1>6. t = Turn(h, m)
  BY <1>4, <1>5
<1>7. n \in Slots /\ n >= m /\ FromHead(r, n) = Turn(h, n)
  <2>1. /\ n \in Slots /\ n >= m
        /\ \A k \in 0 .. cacheSize : FromHead(r, k) = Turn(h, k)
    BY <1>2, <1>3, ExpelledIsOutside
  <2>2. n \in 0 .. cacheSize
    BY <2>1, CacheSizeType DEF Slots
  <2>. QED BY <2>1, <2>2
<1>8. PICK g \in Slots : /\ g = Turn(h, 1) /\ g = Forth(h)
                         /\ Turn(g, m) = Forth(t) /\ Turn(g, m) \in Slots
  <2>1. Turn(h, 1) \in Slots /\ Forth(Turn(h, m)) = Turn(Turn(h, 1), m)
    <3>1. h \in Slots /\ m \in Slots
      BY <1>4, <1>5
    <3>2. /\ Turn(h, 1) \in Slots /\ Forth(Turn(h, m)) = Turn(h, m + 1)
          /\ Turn(Turn(h, 1), m) = Turn(h, m + 1)
      BY <3>1, TurnOn
    <3>. QED BY <3>2
  <2>2. Forth(h) = Turn(h, 1)
    BY <1>4, SlotArithmetic
  <2>3. Turn(Turn(h, 1), m) \in Slots
    BY <1>5, <2>1, TurnIsSlot
  <2>. QED BY <1>6, <2>1, <2>2, <2>3
<1>9. PICK a : a = ShiftUp(Written(cache, Turn(h, m), e), Turn(h, n), (n + 1) % cacheSize)
  OBVIOUS
<1>10. s = Ring(policy, a, g, Turn(g, m), m, size)
  <2>1. handleUsageLRU(r, e)
            = Ring(policy, ShiftUp(Written(cache, t, e), FromHead(r, n), (n + 1) % cacheSize),
                   Forth(h), Forth(t), m, size)
    BY <1>2, <1>3, UsedFields
  <2>. QED BY <1>6, <1>7, <1>8, <1>9, <2>1
<1>11. /\ a \in Arrays(Pointers)
       /\ \A S : cache \in Arrays(S) => a \in Arrays(S \cup {e})
       /\ n # cacheSize - 1 => \A k \in 0 .. m - 1 : a[Turn(g, k)] = cache[Turn(h, k)]
       /\ n = cacheSize - 1 /\ m # 0 => a[Turn(g, m - 1)] = e
  BY <1>3, <1>4, <1>7, <1>8, <1>9, ExpelledArray
<1>12. IsStoreRing(s, policy, a, g, Turn(g, m), m, size)
  BY <1>10, <1>11 DEF IsStoreRing
<1>13. PICK q : q = Plain(s) /\ q = Ring(policy, Filed(a), g, Turn(g, m), m, size)
  BY <1>12, PlainFields
<1>14. /\ s.policy = policy /\ s.cache = a /\ s.head = g /\ s.tail = Turn(g, m)
       /\ s.count = m /\ s.size = size /\ \A k : FromHead(s, k) = FromHead(q, k)
  BY <1>12, <1>13, PlainFields
<1>15. /\ q \in Rings /\ Positions(q) = 0 .. m - 1
       /\ q.cache = Filed(a) /\ q.head = g /\ q.tail = Turn(g, m) /\ q.count = m
       /\ FromHead(q, q.count) = q.tail
       /\ \A k \in 0 .. m - 1 : At(q, k) = Filed(a)[Turn(g, k)]
  BY <1>4, <1>8, <1>13, FiledType, RingOfFields
<1>16. Shaped(s)
  BY <1>12, ShapedBy
<1>17. ASSUME n = cacheSize - 1, m # 0, NEW S \in SUBSET Files
       PROVE  BroughtBack(s, S)
  <2>1. m - 1 \in 0 .. cacheSize /\ m \in 1 .. m
    BY <1>4, <1>17, CacheSizeType
  <2>2. FromHead(s, m - 1) = Turn(g, m - 1)
    <3>1. s.head \in Slots
      BY <1>8, <1>14
    <3>2. \A k \in 0 .. cacheSize : FromHead(s, k) = Turn(s.head, k)
      BY <3>1, SlotArithmetic
    <3>. QED BY <1>14, <2>1, <3>2
  <2>3. Window(s)[m] = e
    BY <1>11, <1>14, <1>17, <2>1, <2>2 DEF Window
  <2>4. e \in {Window(s)[k] : k \in 1 .. s.count} /\ e \notin S
    BY <1>14, <2>1, <2>3, KindsDiffer
  <2>5. FromHead(s, s.count) = s.tail
    BY <1>14, <1>15
  <2>. QED BY <1>13, <1>15, <2>4, <2>5 DEF BroughtBack
<1>18. ASSUME n # cacheSize - 1 \/ m = 0
       PROVE  Agrees(s, Contents(p)) /\ Window(q) = Window(p)
  <2>1. ASSUME NEW k \in Positions(p)
        PROVE  At(q, k) = At(p, k)
    <3>1. k \in 0 .. m - 1 /\ k \in Positions(r) /\ m # 0
      BY <1>3, <1>4 DEF Positions
    <3>2. k \in Slots /\ k \in 0 .. cacheSize
      BY <1>4, <3>1, CacheSizeType DEF Slots
    <3>3. Turn(h, k) \in Slots /\ Turn(g, k) \in Slots
      BY <1>4, <3>2, TurnIsSlot
    <3>4. At(p, k) = d[Turn(h, k)] /\ At(p, k) \in Files
      BY <1>2, <1>3, <1>4, <3>2 DEF At, WellFormed
    <3>5. a[Turn(g, k)] = cache[Turn(h, k)]
      BY <1>11, <1>18, <3>1
    <3>6. At(q, k) = Filed(a)[Turn(g, k)]
      BY <1>15, <3>1
    <3>7. Filed(a)[Turn(g, k)] = d[Turn(h, k)]
      BY <1>2, <3>3, <3>5, FiledAt
    <3>. QED BY <3>4, <3>6, <3>7
  <2>2. Values(q) \subseteq Values(p) \cup {NoFile}
    <3>1. cache \in Arrays({cache[j] : j \in Slots})
      BY <1>3 DEF Arrays
    <3>2. a \in Arrays({cache[j] : j \in Slots} \cup {e})
      BY <1>11, <3>1
    <3>3. ASSUME NEW j \in Slots
          PROVE  Filed(a)[j] \in Values(p) \cup {NoFile}
      <4>1. a[j] \in {cache[l] : l \in Slots} \cup {e}
        BY <3>2 DEF Arrays
      <4>2. CASE a[j] = e
        BY <4>2, FiledAt
      <4>3. ASSUME NEW l \in Slots, a[j] = cache[l]
            PROVE  Filed(a)[j] \in Values(p) \cup {NoFile}
        <5>1. Filed(a)[j] = d[l]
          BY <1>2, <4>3, FiledAt
        <5>. QED BY <1>3, <5>1 DEF Values
      <4>. QED BY <4>1, <4>2, <4>3
    <3>. QED BY <1>15, <3>3 DEF Values
  <2>3. WellFormed(p) /\ NoStrays(p) /\ q.count = p.count
    BY <1>2, <1>3, <1>15
  <2>4. /\ WellFormed(q) /\ NoStrays(q) /\ Contents(q) = Contents(p)
        /\ Window(q) = Window(p)
    BY <1>15, <2>1, <2>2, <2>3, SameWindowAgrees
  <2>. QED BY <1>13, <2>4 DEF Agrees
<1>. QED BY <1>2, <1>3, <1>13, <1>14, <1>16, <1>17, <1>18

----------------------------------------------------------------------------
(* The four handlers, called by the store: what they make of its ring      *)
(* agrees with what the store makes of the table.                          *)

\* What a ring that agrees with the table S is.
LEMMA AgreeingRing ==
    ASSUME NEW r, Shaped(r), NEW S, Agrees(r, S)
    PROVE  /\ WellFormed(Plain(r)) /\ NoStrays(Plain(r)) /\ Contents(Plain(r)) = S
           /\ Plain(r) \in Rings /\ S \in SUBSET Files
           /\ r.head \in Slots /\ r.tail \in Slots
BY PlainWindow, ContentsOfWindow DEF Agrees, WellFormed

\* handleUsage of a file of the table.
LEMMA UsedInStore ==
    ASSUME NEW r, Shaped(r), NEW S, Agrees(r, S), NEW f \in S
    PROVE  /\ UsageExits(r, f) <=> UsageExits(Plain(r), f)
           /\ Plain(handleUsage(r, f)) = handleUsage(Plain(r), f)
           /\ Shaped(handleUsage(r, f)) /\ Agrees(handleUsage(r, f), S)
<1>1. PICK p, s : p = Plain(r) /\ s = handleUsage(r, f)
  OBVIOUS
<1>2. /\ WellFormed(p) /\ NoStrays(p) /\ Contents(p) = S /\ f \in Files
      /\ r.head \in Slots /\ r.tail \in Slots
  BY <1>1, AgreeingRing
<1>3. /\ UsageExits(r, f) <=> UsageExits(p, f)
      /\ Plain(s) = handleUsage(p, f) /\ Shaped(s)
  BY <1>1, <1>2, PlainUsage
<1>4. WellFormed(Plain(s)) /\ NoStrays(Plain(s)) /\ Contents(Plain(s)) = S
  BY <1>2, <1>3, UsageKeeps
<1>. QED BY <1>1, <1>3, <1>4 DEF Agrees

\* What an insertion evicts, with and without the expelled entries.
LEMMA PlainVictims ==
    ASSUME NEW r, Shaped(r), NEW S, Agrees(r, S)
    PROVE  /\ InsertionVictims(Plain(r)) = InsertionVictims(r) /\ InsertionVictims(r) \subseteq S
           /\ InsertionReadsDangling(Plain(r)) <=> InsertionReadsDangling(r)
<1>1. PICK p : p = Plain(r)
  OBVIOUS
<1>2. /\ WellFormed(p) /\ Contents(p) = S /\ p.count = r.count /\ p.head = r.head
      /\ r.head \in Slots /\ r.count \in 0 .. MaxFileCount
  BY <1>1, AgreeingRing, PlainWindow
<1>3. AtCountLimit(p) <=> AtCountLimit(r)
  BY <1>2 DEF AtCountLimit
<1>4. ASSUME AtCountLimit(r)
      PROVE  r.cache[r.head] = p.cache[p.head] /\ p.cache[p.head] \in S
  <2>1. 0 \in Positions(r) /\ 0 \in Positions(p) /\ 0 \in 0 .. cacheSize
    BY <1>2, <1>4, CacheSizeType DEF AtCountLimit, Positions
  <2>2. FromHead(r, 0) = r.head /\ FromHead(p, 0) = p.head
    <3>1. FromHead(r, 0) = Turn(r.head, 0) /\ FromHead(p, 0) = Turn(p.head, 0)
      BY <1>2, <2>1, SlotArithmetic
    <3>. QED BY <1>2, <3>1, TurnIsOnto
  <2>3. r.cache[FromHead(r, 0)] = At(p, 0)
    BY <1>1, <1>2, <2>1, PlainWindow
  <2>4. At(p, 0) \in S
    BY <1>2, <2>1 DEF Contents
  <2>. QED BY <2>2, <2>3, <2>4 DEF At
<1>5. InsertionVictims(p) = InsertionVictims(r) /\ InsertionVictims(r) \subseteq S
  BY <1>3, <1>4 DEF InsertionVictims
<1>6. InsertionReadsDangling(p) <=> InsertionReadsDangling(r)
  <2>1. PICK policy, cache, h, t, m, size : IsStoreRing(r, policy, cache, h, t, m, size)
    BY DEF Shaped
  <2>2. r.cache = cache /\ p.cache = Filed(cache)
    BY <1>1, <2>1, PlainFields
  <2>3. Forth(r.head) \in Slots
    <3>1. Forth(r.head) = Turn(r.head, 1) /\ 1 \in Slots
      BY <1>2, SlotArithmetic, CacheSizeType DEF Slots
    <3>. QED BY <1>2, <3>1, TurnIsSlot
  <2>4. p.cache[Forth(p.head)] \in Files <=> r.cache[Forth(r.head)] \in Files
    <3>1. PICK j \in Slots : j = Forth(r.head) /\ j = Forth(p.head)
      BY <1>2, <2>3
    <3>2. p.cache[j] = IF r.cache[j] \in Files THEN r.cache[j] ELSE NoFile
      BY <2>2, FiledAt
    <3>. QED BY <3>1, <3>2, KindsDiffer
  <2>. QED BY <1>3, <2>4 DEF InsertionReadsDangling
<1>. QED BY <1>1, <1>5, <1>6

\* openFile of a new file.
LEMMA PlainCreation ==
    ASSUME NEW r, Shaped(r), NEW S, Agrees(r, S), ~InsertionReadsDangling(r), NEW l, NEW f \in Files
    PROVE  /\ UsageExits(handleInsertion(r, l, f), f) <=>
                 UsageExits(handleInsertion(Plain(r), l, f), f)
           /\ \A c \in Clients :
                 LET u == Expel(handleUsage(handleInsertion(r, l, f), f), c, InsertionVictims(r))
                 IN  /\ Shaped(u)
                     /\ Plain(u) = Free(handleUsage(handleInsertion(Plain(r), l, f), f),
                                        InsertionVictims(r))
<1>1. PICK p, s, q, V : /\ p = Plain(r) /\ s = handleInsertion(r, l, f)
                        /\ q = handleInsertion(p, l, f) /\ V = InsertionVictims(r)
  OBVIOUS
<1>2. p \in Rings /\ S \in SUBSET Files /\ V \subseteq S
  BY <1>1, AgreeingRing, PlainVictims
<1>3. Plain(s) = q /\ Shaped(s) /\ s.head \in Slots /\ s.tail \in Slots
  BY <1>1, <1>2, PlainInsertion
<1>4. PICK x, y : x = handleUsage(s, f) /\ y = handleUsage(q, f)
  OBVIOUS
<1>5. Plain(x) = y /\ Shaped(x) /\ (UsageExits(s, f) <=> UsageExits(q, f))
  BY <1>3, <1>4, PlainUsage
<1>6. \A c \in Clients : Plain(Expel(x, c, V)) = Free(y, V) /\ Shaped(Expel(x, c, V))
  BY <1>2, <1>5, PlainExpel
<1>. QED BY <1>1, <1>4, <1>5, <1>6

\* ... and it holds the new file and not the victim.
LEMMA CreatedInStore ==
    ASSUME NEW r, Shaped(r), NEW S, Agrees(r, S), ~InsertionReadsDangling(r),
           NEW l \in [Files -> Int], NEW f \in Files, f \notin S, NEW c \in Clients,
           NEW V, V = InsertionVictims(r), NEW s, s = handleInsertion(r, l, f),
           NEW u, u = Expel(handleUsage(s, f), c, V)
    PROVE  Shaped(u) /\ Agrees(u, (S \cup {f}) \ V)
<1>1. PICK p, q : p = Plain(r) /\ q = handleInsertion(p, l, f)
  OBVIOUS
<1>2. /\ WellFormed(p) /\ NoStrays(p) /\ Contents(p) = S
      /\ V = InsertionVictims(p) /\ ~InsertionReadsDangling(p)
  BY <1>1, AgreeingRing, PlainVictims
<1>3. PICK t : t = Free(handleUsage(q, f), V)
  OBVIOUS
<1>4. Plain(u) = t /\ Shaped(u)
  BY <1>1, <1>3, PlainCreation
<1>5. WellFormed(t) /\ NoStrays(t) /\ Contents(t) = (Contents(p) \cup {f}) \ V
  BY <1>1, <1>2, <1>3, CreatedRing
<1>. QED BY <1>2, <1>4, <1>5 DEF Agrees

\* writeFile and appendToFile.
LEMMA EditedInStore ==
    ASSUME NEW r, Shaped(r), NEW S, Agrees(r, S), NEW l \in [Files -> Int], NEW f \in S,
           NEW newSize \in Int
    PROVE  /\ EditOverruns(r, l, f, newSize) <=> EditOverruns(Plain(r), l, f, newSize)
           /\ ~EditOverruns(r, l, f, newSize) =>
                 /\ EditExits(r, l, f, newSize) <=> EditExits(Plain(r), l, f, newSize)
                 /\ EditVictims(r, l, f, newSize) = EditVictims(Plain(r), l, f, newSize)
                 /\ EditVictims(r, l, f, newSize) \subseteq S
                 /\ \A c \in Clients : \A V, u :
                       /\ V = EditVictims(r, l, f, newSize)
                       /\ u = Expel(handleEdit(r, l, f, newSize), c, V)
                       => /\ Plain(u) = Free(handleEdit(Plain(r), l, f, newSize), V)
                          /\ Shaped(u) /\ Agrees(u, S \ V)
<1>1. PICK p : p = Plain(r)
  OBVIOUS
<1>2. /\ WellFormed(p) /\ NoStrays(p) /\ Contents(p) = S /\ S \in SUBSET Files /\ f \in Files
  BY <1>1, AgreeingRing
<1>3. EditOverruns(r, l, f, newSize) <=> EditOverruns(p, l, f, newSize)
  BY <1>1, <1>2, PlainEditScan
<1>4. ASSUME ~EditOverruns(r, l, f, newSize)
      PROVE  /\ EditExits(r, l, f, newSize) <=> EditExits(p, l, f, newSize)
             /\ EditVictims(r, l, f, newSize) = EditVictims(p, l, f, newSize)
             /\ EditVictims(r, l, f, newSize) \subseteq S
             /\ \A c \in Clients : \A V, u :
                   /\ V = EditVictims(r, l, f, newSize)
                   /\ u = Expel(handleEdit(r, l, f, newSize), c, V)
                   => /\ Plain(u) = Free(handleEdit(p, l, f, newSize), V)
                      /\ Shaped(u) /\ Agrees(u, S \ V)
  <2>1. PICK V, s : V = EditVictims(r, l, f, newSize) /\ s = handleEdit(r, l, f, newSize)
    OBVIOUS
  <2>2. PICK q : q = handleEdit(p, l, f, newSize)
    OBVIOUS
  <2>3. V = EditVictims(p, l, f, newSize)
    BY <1>1, <1>2, <1>4, <2>1, PlainEditScan
  <2>4. /\ EditExits(r, l, f, newSize) <=> EditExits(p, l, f, newSize)
        /\ Plain(s) = q /\ Shaped(s)
    BY <1>1, <1>2, <1>4, <2>1, <2>2, PlainEdit
  <2>5. PICK t : t = Free(q, V)
    OBVIOUS
  <2>6. /\ WellFormed(t) /\ NoStrays(t) /\ Contents(t) = Contents(p) \ V /\ V \subseteq Contents(p)
    BY <1>2, <1>3, <1>4, <2>2, <2>3, <2>5, EditedRing
  <2>7. ASSUME NEW c \in Clients, NEW u, u = Expel(s, c, V)
        PROVE  Plain(u) = t /\ Shaped(u) /\ Agrees(u, S \ V)
    <3>1. Plain(u) = t /\ Shaped(u)
      BY <1>2, <2>4, <2>5, <2>6, <2>7, PlainExpel
    <3>. QED BY <1>2, <2>6, <3>1 DEF Agrees
  <2>. QED BY <1>2, <2>1, <2>2, <2>3, <2>4, <2>5, <2>6, <2>7
<1>. QED BY <1>1, <1>3, <1>4

\* removeFile.
LEMMA RemovedInStore ==
    ASSUME NEW r, Shaped(r), NEW S, Agrees(r, S), NEW l \in [Files -> Int], NEW f \in S,
           NEW u, u = Free(handleRemoval(r, l, f), {f})
    PROVE  /\ Plain(u) = Free(handleRemoval(Plain(r), l, f), {f})
           /\ Shaped(u) /\ Agrees(u, S \ {f})
<1>1. PICK p, s, q : p = Plain(r) /\ s = handleRemoval(r, l, f) /\ q = handleRemoval(p, l, f)
  OBVIOUS
<1>2. /\ WellFormed(p) /\ NoStrays(p) /\ Contents(p) = S /\ f \in Files /\ r.head \in Slots
  BY <1>1, AgreeingRing
<1>3. Plain(s) = q /\ Shaped(s)
  BY <1>1, <1>2, PlainRemoval
<1>4. PICK t : t = Free(q, {f})
  OBVIOUS
<1>5. Plain(u) = t /\ Shaped(u)
  <2>1. PICK V : V = {f} /\ V \in SUBSET Pointers /\ V \cap {NoFile} = {} /\ V \subseteq Files
    BY <1>2, KindsDiffer DEF Pointers
  <2>. QED BY <1>1, <1>3, <1>4, <2>1, PlainFree
<1>6. WellFormed(t) /\ NoStrays(t) /\ Contents(t) = Contents(p) \ {f}
  BY <1>1, <1>2, <1>4, RemovedRing
<1>. QED BY <1>1, <1>2, <1>4, <1>5, <1>6 DEF Agrees

\* The use of an entry by a readNFiles: of a file of the table, or of an expelled one.
LEMMA UsedByReader ==
    ASSUME NEW r, Shaped(r), NEW S, Agrees(r, S), NEW i \in Slots, NEW e, e = r.cache[i],
           e # NoFile, e \notin S, NEW s, s = handleUsage(r, e)
    PROVE  /\ e \in Expelled /\ Shaped(s)
           /\ s.policy = r.policy /\ s.count = r.count /\ s.size = r.size
           /\ ~IsFIFO(r) /\ SearchLength(r, e) = cacheSize - 1 /\ r.count # 0 =>
                 BroughtBack(s, S)
           /\ ~(~IsFIFO(r) /\ SearchLength(r, e) = cacheSize - 1 /\ r.count # 0) =>
                 Agrees(s, S) /\ Window(Plain(s)) = Window(Plain(r))
<1>1. PICK p : p = Plain(r)
  OBVIOUS
<1>2. WellFormed(p) /\ NoStrays(p) /\ Contents(p) = S /\ S \in SUBSET Files
  BY <1>1, AgreeingRing
<1>3. e \in Expelled
  <2>1. PICK policy, cache, h, t, m, size : IsStoreRing(r, policy, cache, h, t, m, size)
    BY DEF Shaped
  <2>2. r.cache = cache /\ cache \in Arrays(Pointers) /\ p.cache = Filed(cache)
    BY <1>1, <2>1, PlainFields
  <2>3. e \in Pointers
    BY <2>2 DEF Arrays
  <2>4. CASE e \in Files
    <3>1. p.cache[i] = e
      BY <2>2, <2>4, FiledAt
    <3>2. e \in Contents(p)
      BY <1>2, <3>1 DEF NoStrays, Values
    <3>. QED BY <1>2, <3>2
  <2>. QED BY <2>3, <2>4 DEF Pointers
<1>4. CASE IsFIFO(r)
  BY <1>1, <1>2, <1>3, <1>4 DEF handleUsage, Agrees
<1>5. CASE ~IsFIFO(r)
  <2>1. s = handleUsageLRU(r, e)
    BY <1>5 DEF handleUsage
  <2>2. /\ Shaped(s) /\ s.policy = r.policy /\ s.count = r.count /\ s.size = r.size
        /\ SearchLength(r, e) = cacheSize - 1 /\ r.count # 0 =>
              \A T \in SUBSET Files : BroughtBack(s, T)
        /\ ~(SearchLength(r, e) = cacheSize - 1 /\ r.count # 0) =>
              /\ Agrees(s, Contents(p))
              /\ Window(Plain(s)) = Window(p)
    BY <1>1, <1>2, <1>3, <2>1, UseOfExpelled
  <2>. QED BY <1>1, <1>2, <1>3, <1>5, <2>2
<1>. QED BY <1>4, <1>5

----------------------------------------------------------------------------
(* The operations.                                                         *)

\* The server starts with an empty ring and no files.
LEMMA TableInvInit ==
    ASSUME Init
    PROVE  TableInv
<1>1. PICK policy \in CachePolicies : ring = initCachingSystem(policy)
  BY DEF Init
<1>2. PICK cache : cache = [i \in Slots |-> NoFile]
  OBVIOUS
<1>3. /\ cache \in [Slots -> Files \cup {NoFile}] /\ cache \in Arrays(Pointers)
      /\ 0 \in Slots /\ 0 \in 0 .. MaxFileCount
  BY <1>2, CacheSizeType DEF Slots, Arrays, Pointers
<1>4. ring = Ring(policy, cache, 0, 0, 0, 0)
  BY <1>1, <1>2 DEF initCachingSystem, Ring
<1>5. IsStoreRing(ring, policy, cache, 0, 0, 0, 0)
  BY <1>3, <1>4 DEF IsStoreRing
<1>6. Filed(cache) = cache
  BY <1>2, KindsDiffer DEF Filed
<1>7. PICK p : p = Plain(ring) /\ p = Ring(policy, cache, 0, 0, 0, 0)
  BY <1>5, <1>6, PlainFields
<1>8. /\ p \in Rings /\ Positions(p) = 0 .. 0 - 1
      /\ p.cache = cache /\ p.count = 0
      /\ (FromHead(p, p.count) = p.tail <=> Turn(0, 0) = 0)
  BY <1>3, <1>7, RingOfFields
<1>9. Turn(0, 0) = 0
  BY <1>3, TurnIsOnto
<1>10. WellFormed(p)
  BY <1>8, <1>9 DEF WellFormed
<1>11. Contents(p) = {} /\ stored = {}
  BY <1>8 DEF Contents, Init
<1>12. NoStrays(p)
  BY <1>2, <1>8 DEF NoStrays, Values
<1>13. SlotsToRead
  BY DEF SlotsToRead, Init
<1>14. Shaped(ring)
  BY <1>5, ShapedBy
<1>15. fault # "expelled_use"
  BY NoFaultAssumption DEF Init, Faults
<1>. QED BY <1>7, <1>10, <1>11, <1>12, <1>13, <1>14, <1>15 DEF TableInv, Agrees

\* What a step of a running server has to show.
LEMMA TableInvAfter ==
    ASSUME NEW s, NEW S, ring' = s, stored' = S, Shaped(s), SlotsToRead',
           \/ fault' # "expelled_use" /\ Agrees(s, S)
           \/ fault' = "expelled_use" /\ BroughtBack(s, S)
    PROVE  TableInv'
<1>1. Shaped(ring') /\ (Agrees(s, S) <=> Agrees(ring', stored')) /\ (BroughtBack(s, S) <=> BroughtBack(ring', stored'))
  OBVIOUS
<1>. QED BY <1>1 DEF TableInv

\* A running server: no fault has occurred.
Runs == fault = NoFault

\* Its ring and its table agree.
LEMMA RunsAgree ==
    ASSUME TableInv, Runs
    PROVE  Shaped(ring) /\ SlotsToRead /\ Agrees(ring, stored)
BY NoFaultAssumption DEF TableInv, Runs, Faults

\* A step that leaves the ring and the table alone.
LEMMA TableInvUndisturbed ==
    ASSUME TableInv, Runs, UNCHANGED <<ring, stored>>, SlotsToRead', fault' # "expelled_use"
    PROVE  TableInv'
<1>1. PICK s, S : s = ring /\ S = stored
  OBVIOUS
<1>2. Shaped(s) /\ Agrees(s, S) /\ ring' = s /\ stored' = S
  BY <1>1, RunsAgree
<1>. QED BY <1>2, TableInvAfter

\* A step that fails leaves the cache alone.
LEMMA FailKeepsTable ==
    ASSUME TableInv, Runs, NEW kind, kind # "expelled_use", Fail(kind)
    PROVE  TableInv'
<1>1. SlotsToRead' /\ UNCHANGED <<ring, stored>> /\ fault' # "expelled_use"
  BY RunsAgree DEF Fail, cacheVars, SlotsToRead
<1>. QED BY <1>1, TableInvUndisturbed

\* The other operations use neither the ring nor the table.
LEMMA OthersKeepTable ==
    ASSUME TableInv, Runs, UNCHANGED <<cacheVars, toRead, fault>>
    PROVE  TableInv'
<1>1. SlotsToRead' /\ UNCHANGED <<ring, stored>> /\ fault' # "expelled_use"
  BY RunsAgree, NoFaultAssumption DEF cacheVars, SlotsToRead, Runs, Faults
<1>. QED BY <1>1, TableInvUndisturbed

\* openFile of a new file.
LEMMA CreateFileKeepsTable ==
    ASSUME TypeOK, TableInv, Runs, NEW c \in Clients, NEW f \in Files, NEW lock \in BOOLEAN,
           CreateFile(c, f, lock)
    PROVE  TableInv'
<1>1. Shaped(ring) /\ Agrees(ring, stored) /\ SlotsToRead /\ f \notin stored
  BY RunsAgree DEF CreateFile, Creates
<1>2. CASE InsertionReadsDangling(ring)
  BY <1>2, FailKeepsTable DEF CreateFile
<1>3. CASE ~InsertionReadsDangling(ring)
  <2>1. PICK s, V : s = handleInsertion(ring, len, f) /\ V = InsertionVictims(ring)
    OBVIOUS
  <2>2. CASE UsageExits(s, f)
    BY <1>3, <2>1, <2>2, FailKeepsTable DEF CreateFile
  <2>3. CASE ~UsageExits(s, f)
    <3>1. V \subseteq stored /\ V \cap stored = V
      BY <1>1, <2>1, PlainVictims
    <3>2. PICK u : u = Expel(handleUsage(s, f), c, V)
      OBVIOUS
    <3>3. ring' = u /\ stored' = (stored \cup {f}) \ V /\ UNCHANGED <<toRead, fault>>
      BY <1>3, <2>1, <2>3, <3>1, <3>2 DEF CreateFile
    <3>4. Shaped(u) /\ Agrees(u, (stored \cup {f}) \ V)
      BY <1>1, <1>3, <2>1, <3>2, LengthsAreNumbers, CreatedInStore
    <3>5. SlotsToRead' /\ fault' # "expelled_use"
      BY <1>1, <3>3, NoFaultAssumption DEF SlotsToRead, Runs, Faults
    <3>. QED BY <3>3, <3>4, <3>5, TableInvAfter
  <2>. QED BY <2>2, <2>3
<1>. QED BY <1>2, <1>3

\* A file that is in the table is reported as used.
LEMMA UseKeepsTable ==
    ASSUME TableInv, Runs, NEW f \in stored, ring' = handleUsage(ring, f), UNCHANGED stored,
           SlotsToRead', fault' # "expelled_use"
    PROVE  TableInv'
<1>1. Shaped(ring) /\ Agrees(ring, stored)
  BY RunsAgree
<1>2. PICK s, S : s = handleUsage(ring, f) /\ S = stored
  OBVIOUS
<1>3. Shaped(s) /\ Agrees(s, S)
  BY <1>1, <1>2, UsedInStore
<1>. QED BY <1>2, <1>3, TableInvAfter

\* openFile of a stored file.
LEMMA OpenStoredFileKeepsTable ==
    ASSUME TableInv, Runs, NEW c \in Clients, NEW f \in Files, NEW create \in BOOLEAN,
           NEW lock \in BOOLEAN, OpenStoredFile(c, f, create, lock)
    PROVE  TableInv'
<1>1. f \in stored
  BY DEF OpenStoredFile, OpensStored
<1>2. CASE Fail("exit") \/ Fail("descriptor")
  BY <1>2, FailKeepsTable
<1>3. CASE ring' = handleUsage(ring, f) /\ UNCHANGED <<stored, toRead, fault>>
  <2>1. SlotsToRead' /\ fault' # "expelled_use"
    BY <1>3, RunsAgree, NoFaultAssumption DEF SlotsToRead, Runs, Faults
  <2>. QED BY <1>1, <1>3, <2>1, UseKeepsTable
<1>. QED BY <1>2, <1>3 DEF OpenStoredFile

\* readFile.
LEMMA ReadFileKeepsTable ==
    ASSUME TableInv, Runs, NEW c \in Clients, NEW f \in Files, ReadFile(c, f)
    PROVE  TableInv'
<1>1. CASE Fail("exit")
  BY <1>1, FailKeepsTable
<1>2. CASE ring' = handleUsage(ring, f) /\ UNCHANGED <<stored, toRead, fault>>
  <2>1. SlotsToRead' /\ fault' # "expelled_use"
    BY <1>2, RunsAgree, NoFaultAssumption DEF SlotsToRead, Runs, Faults
  <2>. QED BY <1>2, <2>1, UseKeepsTable DEF ReadFile
<1>. QED BY <1>1, <1>2 DEF ReadFile

\* readNFiles draws its sample: the slots are taken modulo the file limit.
LEMMA ReadNFilesKeepsTable ==
    ASSUME TableInv, Runs, NEW c \in Clients, NEW n \in SampleSizes, ReadNFiles(c, n)
    PROVE  TableInv'
<1>1. Shaped(ring) /\ WellFormed(Plain(ring)) /\ SlotsToRead /\ n \in Nat
  BY RunsAgree, AgreeingRing, SampleSizesAssumption
<1>2. PICK p, m : p = Plain(ring) /\ m = SampleSize(ring, n)
  OBVIOUS
<1>3. p.count = ring.count /\ p.head = ring.head /\ ring.count \in 0 .. MaxFileCount
  BY <1>1, <1>2, PlainWindow
<1>4. m \in 0 .. p.count /\ m \in Nat
  BY <1>1, <1>2, <1>3 DEF SampleSize
<1>5. PICK sample \in Samples(ring, m) :
         toRead' = [toRead EXCEPT ![c] = [k \in 1 .. m |-> SampledSlot(ring, sample[k - 1])]]
  BY <1>2 DEF ReadNFiles
<1>6. sample \in Samples(p, m)
  BY <1>3, <1>5 DEF Samples
<1>7. \A k \in 0 .. m - 1 : SampledSlot(ring, sample[k]) \in 0 .. MaxFileCount - 1
  <2>1. \A k \in 0 .. m - 1 : SampledSlot(p, sample[k]) \in 0 .. MaxFileCount - 1
    BY <1>1, <1>2, <1>4, <1>6, SampledSlots
  <2>. QED BY <1>3, <2>1 DEF SampledSlot
<1>8. [k \in 1 .. m |-> SampledSlot(ring, sample[k - 1])] \in Seq(0 .. MaxFileCount - 1)
  <2>1. \A k \in 1 .. m : k - 1 \in 0 .. m - 1
    BY <1>4
  <2>. QED BY <1>4, <1>7, <2>1
<1>9. SlotsToRead'
  BY <1>1, <1>5, <1>8 DEF SlotsToRead
<1>10. fault' # "expelled_use" /\ UNCHANGED <<ring, stored>>
  BY NoFaultAssumption DEF ReadNFiles, cacheVars, Runs, Faults
<1>. QED BY <1>9, <1>10, TableInvUndisturbed

\* The slot that a readNFiles looks at next.
LEMMA NextSlot ==
    ASSUME TableInv, Runs, NEW c \in Clients, toRead[c] # << >>
    PROVE  /\ Head(toRead[c]) \in Slots /\ Tail(toRead[c]) \in Seq(0 .. MaxFileCount - 1)
           /\ Tail(toRead[c]) # toRead[c]
<1>1. toRead[c] \in Seq(0 .. MaxFileCount - 1)
  BY RunsAgree DEF SlotsToRead
<1>2. /\ Head(toRead[c]) \in 0 .. MaxFileCount - 1 /\ Tail(toRead[c]) \in Seq(0 .. MaxFileCount - 1)
      /\ Len(Tail(toRead[c])) = Len(toRead[c]) - 1
  BY <1>1, HeadTailProperties, Zenon
<1>3. Head(toRead[c]) \in Slots
  BY <1>2, CacheSizeType DEF Slots
<1>4. Tail(toRead[c]) # toRead[c]
  <2>1. PICK s, t : s = toRead[c] /\ t = Tail(toRead[c])
    OBVIOUS
  <2>2. Len(t) = Len(s) - 1 /\ Len(s) \in Nat
    BY <1>1, <1>2, <2>1, LenProperties
  <2>3. t # s
    BY <2>2
  <2>. QED BY <2>1, <2>3
<1>. QED BY <1>2, <1>3, <1>4

\* One read of a readNFiles request, some operations later.
LEMMA ReadNextKeepsTable ==
    ASSUME TableInv, Runs, NEW c \in Clients, ReadNext(c)
    PROVE  TableInv'
<1>1. PICK e : e = ring.cache[Head(toRead[c])]
  OBVIOUS
<1>2. CASE Fail("dangling_read") \/ Fail("exit")
  BY <1>2, FailKeepsTable
<1>3. CASE /\ e # NoFile /\ ring' = handleUsage(ring, e)
           /\ toRead' = [toRead EXCEPT ![c] = Tail(@)] /\ UNCHANGED stored
           /\ fault' = IF BringsBack(e) THEN "expelled_use" ELSE fault
  <2>1. Shaped(ring) /\ Agrees(ring, stored) /\ SlotsToRead /\ fault # "expelled_use"
    BY RunsAgree, NoFaultAssumption DEF Runs, Faults
  <2>2. PICK i \in Slots : i = Head(toRead[c]) /\ e = ring.cache[i]
    BY <1>1, NextSlot DEF ReadNext
  <2>3. SlotsToRead'
    <3>1. Tail(toRead[c]) \in Seq(0 .. MaxFileCount - 1)
      BY NextSlot DEF ReadNext
    <3>. QED BY <1>3, <2>1, <3>1 DEF SlotsToRead
  <2>4. CASE e \in stored
    <3>1. e \notin Expelled
      BY <2>1, <2>4, AgreeingRing, KindsDiffer
    <3>. QED BY <1>3, <2>1, <2>3, <2>4, <3>1, UseKeepsTable DEF BringsBack
  <2>5. CASE e \notin stored
    <3>1. PICK s, S : s = handleUsage(ring, e) /\ S = stored
      OBVIOUS
    <3>2. /\ e \in Expelled /\ Shaped(s)
          /\ ~IsFIFO(ring) /\ SearchLength(ring, e) = cacheSize - 1 /\ ring.count # 0 =>
                BroughtBack(s, S)
          /\ ~(~IsFIFO(ring) /\ SearchLength(ring, e) = cacheSize - 1 /\ ring.count # 0) =>
                Agrees(s, S)
      BY <1>3, <2>1, <2>2, <2>5, <3>1, UsedByReader
    <3>3. \/ fault' # "expelled_use" /\ Agrees(s, S)
          \/ fault' = "expelled_use" /\ BroughtBack(s, S)
      BY <1>3, <2>1, <3>2 DEF BringsBack
    <3>. QED BY <1>3, <2>3, <3>1, <3>2, <3>3, TableInvAfter
  <2>. QED BY <2>4, <2>5
<1>. QED BY <1>1, <1>2, <1>3 DEF ReadNext

\* An expelled entry is freed.
LEMMA FreeExpelledInRing ==
    ASSUME TableInv, Runs, NEW c \in Clients, FreeExpelled(c)
    PROVE  \E s : /\ ring' = s /\ Shaped(s) /\ Plain(s) = Plain(ring)
                  /\ UNCHANGED <<stored, len, toRead, fault>>
<1>1. PICK e \in ExpelledBy(c) : ring' = Free(ring, {e})
  BY DEF FreeExpelled
<1>2. PICK V : V = {e} /\ V \subseteq Expelled /\ V \in SUBSET Pointers /\ V \cap {NoFile} = {}
  BY <1>1, KindsDiffer DEF ExpelledBy, Expelled, Pointers
<1>3. PICK s : s = Free(ring, V)
  OBVIOUS
<1>4. Shaped(s) /\ Plain(s) = Plain(ring)
  BY <1>2, <1>3, RunsAgree, PlainFree
<1>. QED BY <1>1, <1>2, <1>3, <1>4 DEF FreeExpelled

\* ... which the table has no more.
LEMMA FreeExpelledKeepsTable ==
    ASSUME TableInv, Runs, NEW c \in Clients, FreeExpelled(c)
    PROVE  TableInv'
<1>1. PICK s : /\ ring' = s /\ Shaped(s) /\ Plain(s) = Plain(ring)
               /\ UNCHANGED <<stored, len, toRead, fault>>
  BY FreeExpelledInRing
<1>2. PICK S : S = stored
  OBVIOUS
<1>3. Agrees(s, S)
  BY <1>1, <1>2, RunsAgree DEF Agrees
<1>4. SlotsToRead' /\ fault' # "expelled_use"
  BY <1>1, RunsAgree, NoFaultAssumption DEF SlotsToRead, Runs, Faults
<1>. QED BY <1>1, <1>2, <1>3, <1>4, TableInvAfter

\* writeFile and appendToFile.
LEMMA EditFileKeepsTable ==
    ASSUME TypeOK, TableInv, Runs, NEW c \in Clients, NEW f \in stored,
           NEW newSize \in 0 .. MaxFileSize, EditFile(c, f, newSize)
    PROVE  TableInv'
<1>1. Shaped(ring) /\ Agrees(ring, stored) /\ SlotsToRead
  BY RunsAgree
<1>2. len \in [Files -> Int] /\ newSize \in Int
  BY LengthsAreNumbers
<1>3. CASE EditOverruns(ring, len, f, newSize)
  BY <1>3, FailKeepsTable DEF EditFile
<1>4. CASE ~EditOverruns(ring, len, f, newSize) /\ EditExits(ring, len, f, newSize)
  BY <1>4, FailKeepsTable DEF EditFile
<1>5. CASE ~EditOverruns(ring, len, f, newSize) /\ ~EditExits(ring, len, f, newSize)
  <2>1. PICK V, S : V = EditVictims(ring, len, f, newSize) /\ S = stored
    OBVIOUS
  <2>2. PICK u : u = Expel(handleEdit(ring, len, f, newSize), c, V)
    OBVIOUS
  <2>3. V \subseteq S /\ V \cap S = V /\ Shaped(u) /\ Agrees(u, S \ V)
    BY <1>1, <1>2, <1>5, <2>1, <2>2, EditedInStore
  <2>4. ring' = u /\ stored' = S \ V /\ UNCHANGED <<toRead, fault>>
    BY <1>5, <2>1, <2>2, <2>3 DEF EditFile
  <2>5. SlotsToRead' /\ fault' # "expelled_use"
    BY <1>1, <2>4, NoFaultAssumption DEF SlotsToRead, Runs, Faults
  <2>. QED BY <2>3, <2>4, <2>5, TableInvAfter
<1>. QED BY <1>3, <1>4, <1>5

\* removeFile.
LEMMA RemoveFileKeepsTable ==
    ASSUME TypeOK, TableInv, Runs, NEW c \in Clients, NEW f \in Files, RemoveFile(c, f)
    PROVE  TableInv'
<1>1. Shaped(ring) /\ Agrees(ring, stored) /\ SlotsToRead /\ f \in stored
  BY RunsAgree DEF RemoveFile
<1>2. PICK u, S : u = Free(handleRemoval(ring, len, f), {f}) /\ S = stored
  OBVIOUS
<1>3. ring' = u /\ stored' = S \ {f} /\ UNCHANGED <<toRead, fault>>
  BY <1>2 DEF RemoveFile
<1>4. Shaped(u) /\ Agrees(u, S \ {f})
  BY <1>1, <1>2, LengthsAreNumbers, RemovedInStore
<1>5. SlotsToRead' /\ fault' # "expelled_use"
  BY <1>1, <1>3, NoFaultAssumption DEF SlotsToRead, Runs, Faults
<1>. QED BY <1>3, <1>4, <1>5, TableInvAfter

----------------------------------------------------------------------------
\* Each step of the server in turn.
LEMMA NextKeepsTable ==
    ASSUME IndInv, TableInv, [Next]_vars
    PROVE  TableInv'
<1>0. TypeOK
  BY DEF IndInv
<1>1. ASSUME Runs, NEW c \in Clients, NEW f \in Files, FileOperation(c, f)
      PROVE  TableInv'
  <2>1. ASSUME NEW lock \in BOOLEAN, CreateFile(c, f, lock)
        PROVE  TableInv'
    BY <1>0, <1>1, <2>1, CreateFileKeepsTable
  <2>2. ASSUME NEW create \in BOOLEAN, NEW lock \in BOOLEAN, OpenStoredFile(c, f, create, lock)
        PROVE  TableInv'
    BY <1>1, <2>2, OpenStoredFileKeepsTable
  <2>3. ASSUME NEW size \in 0 .. MaxFileSize, WriteFile(c, f, size)
        PROVE  TableInv'
    BY <1>0, <1>1, <2>3, EditFileKeepsTable DEF WriteFile
  <2>4. ASSUME NEW size \in 0 .. MaxFileSize, AppendToFile(c, f, size)
        PROVE  TableInv'
    <3>1. len[f] + size \in 0 .. MaxFileSize
      BY <1>0, <2>4, MaxFileSizeAssumption DEF AppendToFile, TypeOK
    <3>. QED BY <1>0, <1>1, <2>4, <3>1, EditFileKeepsTable DEF AppendToFile
  <2>5. CASE ReadFile(c, f)
    BY <1>1, <2>5, ReadFileKeepsTable
  <2>6. CASE LockFile(c, f) \/ UnlockFile(c, f) \/ CloseFile(c, f)
    BY <1>1, <2>6, OthersKeepTable DEF LockFile, UnlockFile, CloseFile
  <2>7. CASE RemoveFile(c, f)
    BY <1>0, <1>1, <2>7, RemoveFileKeepsTable
  <2>. QED BY <1>1, <2>1, <2>2, <2>3, <2>4, <2>5, <2>6, <2>7 DEF FileOperation
<1>2. ASSUME Runs, NEW c \in Clients, Connect(c) \/ ConnectionClosed(c) \/ Notify(c)
      PROVE  TableInv'
  BY <1>2, OthersKeepTable, FailKeepsTable DEF Connect, ConnectionClosed, Notify, Answer
<1>3. ASSUME Runs, NEW c \in Clients, NEW n \in SampleSizes, ReadNFiles(c, n)
      PROVE  TableInv'
  BY <1>3, ReadNFilesKeepsTable
<1>4. ASSUME Runs, NEW c \in Clients, ReadNext(c) \/ FreeExpelled(c)
      PROVE  TableInv'
  BY <1>4, ReadNextKeepsTable, FreeExpelledKeepsTable
<1>5. CASE UNCHANGED vars
  BY <1>5 DEF vars, TableInv, SlotsToRead
<1>6. CASE Next
  <2>1. Runs
    BY <1>6 DEF Next, Runs
  <2>. QED BY <1>1, <1>2, <1>3, <1>4, <1>6, <2>1 DEF Next
<1>. QED BY <1>5, <1>6

\* The ring and the table agree before and after every step, until a file is brought back.
THEOREM TableInvariance == Spec => []TableInv
<1>1. Init => TableInv
  BY TableInvInit
<1>2. IndInv /\ TableInv /\ [Next]_vars => TableInv'
  BY NextKeepsTable
<1>. QED BY <1>1, <1>2, Invariance, PTL DEF Spec

\* The ring of the table, in the words of the property.
LEMMA AgreementOfRing ==
    ASSUME TableInv, fault # "expelled_use"
    PROVE  /\ TableRing \in Rings /\ {Window(ring)[k] : k \in 1 .. ring.count} = stored
           /\ Cardinality(stored) = ring.count /\ FromHead(ring, ring.count) = ring.tail
<1>1. PICK p : p = Plain(ring) /\ p = TableRing
  BY TableRingIsPlain
<1>2. Shaped(ring) /\ WellFormed(p) /\ p \in Rings /\ Contents(p) = stored
  BY <1>1 DEF TableInv, Agrees, WellFormed
<1>3. /\ ring.count = p.count /\ ring.head = p.head /\ ring.tail = p.tail
      /\ Window(ring) = Window(p)
  BY <1>1, <1>2, PlainWindow
<1>4. {Window(p)[k] : k \in 1 .. p.count} = stored /\ Cardinality(stored) = p.count
  BY <1>2, ContentsOfWindow
<1>5. FromHead(p, p.count) = p.tail
  BY <1>2 DEF WellFormed
<1>6. FromHead(ring, ring.count) = ring.tail
  BY <1>3, <1>5 DEF FromHead
<1>. QED BY <1>1, <1>2, <1>3, <1>4, <1>6

(***************************************************************************)
(* For any number of clients, files and slots, the files in the table are  *)
(* exactly those from head to tail, each once: no operation of files.c, no *)
(* use of an expelled file by a readNFiles that leaves it out of the       *)
(* window, and no free makes them differ (files.c:392-394, 431-671,        *)
(* worker.c:195-207).  The one step that does is told by the fault: a      *)
(* readNFiles that finds such a file in the slot before head.              *)
(***************************************************************************)
THEOREM TableAndCacheAgree == Spec => []CacheMatchesTable
<1>1. TableInv => CacheMatchesTable
  <2>. SUFFICES ASSUME TableInv
                PROVE  CacheMatchesTable
    OBVIOUS
  <2>1. ring.cache \in [Slots -> Files \cup {NoFile} \cup Expelled]
    <3>1. PICK policy, cache, h, t, m, size : IsStoreRing(ring, policy, cache, h, t, m, size)
      BY DEF TableInv, Shaped
    <3>2. ring.cache \in Arrays(Pointers)
      BY <3>1, PlainFields
    <3>. QED BY <3>2 DEF Arrays, Pointers
  <2>2. toRead \in [Clients -> Seq(0 .. MaxFileCount - 1)]
    BY DEF TableInv, SlotsToRead
  <2>3. CASE fault # "expelled_use"
    BY <2>1, <2>2, <2>3, AgreementOfRing DEF CacheMatchesTable
  <2>4. CASE fault = "expelled_use"
    BY <2>1, <2>2, <2>4, TableRingIsPlain DEF CacheMatchesTable, TableInv, BroughtBack
  <2>. QED BY <2>3, <2>4
<1>. QED BY <1>1, TableInvariance, PTL

----------------------------------------------------------------------------
(* The operators of Caching, which CacheRing extends, are those of the     *)
(* store: shown for each, from the simple ones up.                         *)

\* Slots, and the ways around the ring.
LEMMA SameRing ==
    /\ Cache!Slots = Slots /\ Cache!cacheSize = cacheSize
    /\ \A S : Cache!Min(S) = Min(S)
    /\ \A i : Cache!Forth(i) = Forth(i) /\ Cache!Back(i) = Back(i)
    /\ \A r : Cache!IsFIFO(r) <=> IsFIFO(r)
    /\ \A r, k : Cache!FromHead(r, k) = FromHead(r, k)
BY DEF Cache!Slots, Slots, Cache!cacheSize, cacheSize, Cache!Min, Min, Cache!Forth, Forth,
       Cache!Back, Back, Cache!IsFIFO, IsFIFO, Cache!FromHead, FromHead

\* The search for a file.
LEMMA SameSearch == \A r, f : Cache!SearchLength(r, f) = SearchLength(r, f)
<1>1. ASSUME NEW r, NEW f
      PROVE  Cache!SearchLength(r, f) = SearchLength(r, f)
  <2>1. {k \in Cache!Slots : r.cache[Cache!FromHead(r, k)] = f}
            = {k \in Slots : r.cache[FromHead(r, k)] = f}
    BY SameRing
  <2>. QED BY <2>1, SameRing DEF Cache!SearchLength, SearchLength
<1>. QED BY <1>1

\* What is done to the slots.
LEMMA SameShift == \A c, p, n : Cache!ShiftUp(c, p, n) = ShiftUp(c, p, n)
BY SameRing DEF Cache!ShiftUp, ShiftUp

\* ... and what a free does to them.
LEMMA SameFree == \A r, F : Cache!Free(r, F) = Free(r, F)
<1>1. \A c, F : Cache!Dangle(c, F) = Dangle(c, F)
  BY SameRing DEF Cache!Dangle, Dangle
<1>. QED BY <1>1 DEF Cache!Free, Free

\* The four handlers, and what they evict and how they fail.
LEMMA SameUsage ==
    \A r, f : /\ Cache!handleUsage(r, f) = handleUsage(r, f)
              /\ Cache!UsageExits(r, f) <=> UsageExits(r, f)
<1>1. ASSUME NEW r, NEW f
      PROVE  Cache!handleUsageLRU(r, f) = handleUsageLRU(r, f)
  BY SameRing, SameSearch, SameShift DEF Cache!handleUsageLRU, handleUsageLRU
<1>2. \A r, f : Cache!UsageExits(r, f) <=> UsageExits(r, f)
  BY SameRing, SameSearch DEF Cache!UsageExits, UsageExits, Cache!SCAN_LIMIT, SCAN_LIMIT
<1>. QED BY <1>1, <1>2, SameRing DEF Cache!handleUsage, handleUsage

\* The insertion, its victim and its undefined case.
LEMMA SameInsertion ==
    \A r : /\ Cache!InsertionVictims(r) = InsertionVictims(r)
           /\ Cache!InsertionReadsDangling(r) <=> InsertionReadsDangling(r)
           /\ \A l, f : Cache!handleInsertion(r, l, f) = handleInsertion(r, l, f)
<1>1. \A r : Cache!AtCountLimit(r) <=> AtCountLimit(r)
  BY DEF Cache!AtCountLimit, AtCountLimit
<1>2. ASSUME NEW r
      PROVE  /\ Cache!InsertionVictims(r) = InsertionVictims(r)
             /\ Cache!InsertionReadsDangling(r) <=> InsertionReadsDangling(r)
  BY <1>1, SameRing DEF Cache!InsertionVictims, InsertionVictims,
                        Cache!InsertionReadsDangling, InsertionReadsDangling
<1>3. ASSUME NEW r, NEW l, NEW f
      PROVE  Cache!handleInsertion(r, l, f) = handleInsertion(r, l, f)
  BY <1>1, <1>2, SameRing DEF Cache!handleInsertion, handleInsertion
<1>. QED BY <1>2, <1>3

\* The removal.
LEMMA SameRemoval == \A r, l, f : Cache!handleRemoval(r, l, f) = handleRemoval(r, l, f)
BY SameRing, SameShift, SameSearch DEF Cache!handleRemoval, handleRemoval

\* The edit, its victims and the two ways it fails.
LEMMA SameEdit ==
    \A r, l, f, n : /\ Cache!EditOverruns(r, l, f, n) <=> EditOverruns(r, l, f, n)
                    /\ Cache!EditVictims(r, l, f, n) = EditVictims(r, l, f, n)
                    /\ Cache!EditExits(r, l, f, n) <=> EditExits(r, l, f, n)
                    /\ Cache!handleEdit(r, l, f, n) = handleEdit(r, l, f, n)
<1>. SUFFICES ASSUME NEW r, NEW l, NEW f, NEW n
              PROVE  /\ Cache!EditOverruns(r, l, f, n) <=> EditOverruns(r, l, f, n)
                     /\ Cache!EditVictims(r, l, f, n) = EditVictims(r, l, f, n)
                     /\ Cache!EditExits(r, l, f, n) <=> EditExits(r, l, f, n)
                     /\ Cache!handleEdit(r, l, f, n) = handleEdit(r, l, f, n)
  OBVIOUS
<1>1. Cache!ExpectedSize(r, l, f, n) = ExpectedSize(r, l, f, n)
  BY DEF Cache!ExpectedSize, ExpectedSize, Cache!FromHead, FromHead, Cache!cacheSize, cacheSize
<1>0. \A S : Cache!Cardinality(S) = Cardinality(S)
  BY Zenon DEF Cache!Cardinality, Cardinality
<1>2. Cache!EditStops(r, l, f, n) = EditStops(r, l, f, n)
  BY <1>1 DEF Cache!EditStops, EditStops
<1>3. Cache!EditScan(r, l, f, n) = EditScan(r, l, f, n)
  BY <1>2, SameRing DEF Cache!EditScan, EditScan
<1>4. Cache!EditVictims(r, l, f, n) = EditVictims(r, l, f, n)
  BY <1>3, SameRing DEF Cache!EditVictims, EditVictims
<1>5. Cache!EditExits(r, l, f, n) <=> EditExits(r, l, f, n)
  BY <1>3, SameRing, SameSearch, SameUsage DEF Cache!EditExits, EditExits
<1>6. Cache!handleEdit(r, l, f, n) = handleEdit(r, l, f, n)
  <2>1. PICK m, V, p, h : /\ m = EditScan(r, l, f, n) /\ V = EditVictims(r, l, f, n)
                          /\ p = SearchLength(r, f) /\ h = FromHead(r, m)
    OBVIOUS
  <2>2. PICK t : t = [r EXCEPT !.head = h, !.count = @ - Cardinality(V),
                               !.size = ExpectedSize(r, l, f, n)[m]]
    OBVIOUS
  <2>3. handleEdit(r, l, f, n) =
          IF ~(m > p) THEN handleUsage(t, f)
          ELSE IF IsFIFO(r) THEN [t EXCEPT !.head = Back(@), !.cache[Back(t.head)] = f]
          ELSE [t EXCEPT !.cache[r.tail] = f, !.tail = Forth(@)]
    BY <2>1, <2>2, Zenon DEF handleEdit
  <2>4. Cache!handleEdit(r, l, f, n) =
          IF ~(m > p) THEN Cache!handleUsage(t, f)
          ELSE IF Cache!IsFIFO(r)
          THEN [t EXCEPT !.head = Cache!Back(@), !.cache[Cache!Back(t.head)] = f]
          ELSE [t EXCEPT !.cache[r.tail] = f, !.tail = Cache!Forth(@)]
    <3>1. /\ m = Cache!EditScan(r, l, f, n) /\ V = Cache!EditVictims(r, l, f, n)
          /\ p = Cache!SearchLength(r, f) /\ h = Cache!FromHead(r, m)
      BY <1>3, <1>4, <2>1, SameRing, SameSearch
    <3>2. t = [r EXCEPT !.head = h, !.count = @ - Cache!Cardinality(V),
                        !.size = Cache!ExpectedSize(r, l, f, n)[m]]
      BY <1>0, <1>1, <2>2
    <3>. QED BY <3>1, <3>2, Zenon DEF Cache!handleEdit
  <2>5. /\ Cache!handleUsage(t, f) = handleUsage(t, f) /\ (Cache!IsFIFO(r) <=> IsFIFO(r))
        /\ Cache!Back(t.head) = Back(t.head) /\ Cache!Forth(t.tail) = Forth(t.tail)
    BY SameRing, SameUsage
  <2>6. CASE ~(m > p)
    BY <2>3, <2>4, <2>5, <2>6
  <2>7. CASE m > p /\ IsFIFO(r)
    BY <2>3, <2>4, <2>5, <2>7
  <2>8. CASE m > p /\ ~IsFIFO(r)
    BY <2>3, <2>4, <2>5, <2>8
  <2>. QED BY <2>6, <2>7, <2>8
<1>. QED BY <1>2, <1>4, <1>5, <1>6 DEF Cache!EditOverruns, EditOverruns

\* The empty ring.
LEMMA SameInit == \A policy : Cache!initCachingSystem(policy) = initCachingSystem(policy)
BY SameRing DEF Cache!initCachingSystem, initCachingSystem

\* The queue that CacheRing sees is that of the table's ring, and its files are the stored ones.
LEMMA StoredInRing ==
    /\ TableInv /\ fault # "expelled_use" => Cache!Stored = stored
    /\ Cache!Queue = Window(TableRing) /\ Cache!Queue' = Window(TableRing')
<1>1. \A r : Cache!Window(r) = Window(r)
  BY SameRing DEF Cache!Window, Window
<1>2. Cache!Queue = Window(TableRing) /\ Cache!Queue' = Window(TableRing')
  BY <1>1 DEF Cache!Queue
<1>3. ASSUME TableInv, fault # "expelled_use"
      PROVE  Cache!Stored = stored
  <2>1. WellFormed(TableRing) /\ Contents(TableRing) = stored
    BY <1>3, TableRingIsPlain DEF TableInv, Agrees
  <2>2. {Window(TableRing)[k] : k \in DOMAIN Window(TableRing)} = stored
    BY <2>1, ContentsOfWindow
  <2>. QED BY <1>2, <2>2 DEF Cache!Stored
<1>. QED BY <1>2, <1>3

----------------------------------------------------------------------------
(* The operations of the store are operations of CacheRing.                *)

\* The faults of the store that are none of the cache's, and the fault as CacheRing sees it.
Hidden == {"descriptor", "double_free", "dangling_read", "expelled_use"}
cacheFault == IF fault \in Hidden THEN NoFault ELSE fault

\* Both start with an empty ring.
LEMMA StoreStartsAsCache == Init => Cache!Init
<1>. SUFFICES ASSUME Init
              PROVE  Cache!Init
  OBVIOUS
<1>1. NoFault \notin Hidden
  BY NoFaultAssumption DEF Faults, Hidden
<1>2. PICK policy \in CachePolicies : ring = initCachingSystem(policy)
  BY DEF Init
<1>3. TableRing = Cache!initCachingSystem(policy)
  BY <1>2, SameInit, KindsDiffer DEF TableRing, initCachingSystem
<1>. QED BY <1>1, <1>2, <1>3 DEF Init, Cache!Init, Hidden

\* Nothing of what CacheRing sees has changed.
CacheStutters == UNCHANGED <<TableRing, len, cacheFault>>

\* ... as when the ring has not.
LEMMA CacheUndisturbed ==
    ASSUME UNCHANGED <<ring, len, cacheFault>>
    PROVE  CacheStutters
BY TableRingIsPlain DEF CacheStutters

\* A running server has not failed for CacheRing either.
LEMMA Running ==
    ASSUME Runs
    PROVE  cacheFault = NoFault
BY DEF cacheFault, Runs

\* A failure in a handler of caching.c is one in CacheRing; the others are not its own.
LEMMA FailsInCache ==
    ASSUME Runs, NEW kind \in {"dangling_insertion", "edit_overrun", "exit"}, Fail(kind)
    PROVE  Cache!Fail(kind)
<1>1. fault' = kind /\ UNCHANGED <<ring, len>> /\ kind \notin Hidden
  BY DEF Fail, cacheVars, Hidden
<1>2. UNCHANGED TableRing
  BY <1>1, TableRingIsPlain
<1>. QED BY <1>1, <1>2 DEF Cache!Fail, Hidden

\* The others leave the cache alone.
LEMMA FailsOutsideCache ==
    ASSUME Runs, NEW kind \in Hidden, Fail(kind)
    PROVE  CacheStutters
<1>1. fault' = kind /\ UNCHANGED <<ring, len>>
  BY DEF Fail, cacheVars
<1>2. UNCHANGED cacheFault
  BY <1>1 DEF Runs, cacheFault
<1>. QED BY <1>1, <1>2, CacheUndisturbed

\* A new file is inserted, and used once.
LEMMA CreateFileIsCreate ==
    ASSUME TableInv, Runs, NEW c \in Clients, NEW f \in Files, NEW lock \in BOOLEAN,
           CreateFile(c, f, lock)
    PROVE  Cache!Create(f)
<1>1. /\ f \notin Cache!Stored /\ f \notin stored
      /\ Shaped(ring) /\ Agrees(ring, stored) /\ fault # "expelled_use"
  BY StoredInRing, RunsAgree, NoFaultAssumption DEF CreateFile, Creates, Runs, Faults
<1>2. PICK p : p = Plain(ring) /\ p = TableRing
  BY TableRingIsPlain
<1>3. /\ InsertionVictims(p) = InsertionVictims(ring) /\ InsertionVictims(ring) \subseteq stored
      /\ InsertionReadsDangling(p) <=> InsertionReadsDangling(ring)
  BY <1>1, <1>2, PlainVictims
<1>4. CASE InsertionReadsDangling(ring)
  <2>1. Cache!Fail("dangling_insertion")
    BY <1>4, FailsInCache DEF CreateFile
  <2>. QED BY <1>1, <1>2, <1>3, <1>4, <2>1, SameInsertion DEF Cache!Create
<1>5. CASE ~InsertionReadsDangling(ring)
  <2>1. PICK s, q, V : /\ s = handleInsertion(ring, len, f) /\ q = handleInsertion(p, len, f)
                       /\ V = InsertionVictims(ring)
    OBVIOUS
  <2>2. PICK u : u = Expel(handleUsage(s, f), c, V)
    OBVIOUS
  <2>3. /\ UsageExits(s, f) <=> UsageExits(q, f)
        /\ Plain(u) = Free(handleUsage(q, f), V)
    BY <1>1, <1>2, <1>5, <2>1, <2>2, PlainCreation
  <2>4. CASE UsageExits(s, f)
    <3>1. Cache!Fail("exit")
      BY <1>5, <2>1, <2>4, FailsInCache DEF CreateFile
    <3>. QED BY <1>1, <1>2, <1>3, <1>5, <2>1, <2>3, <2>4, <3>1, SameInsertion, SameUsage
             DEF Cache!Create
  <2>5. CASE ~UsageExits(s, f)
    <3>1. V \cap stored = V
      BY <1>3, <2>1
    <3>2. /\ ring' = u /\ UNCHANGED fault
          /\ len' = [g \in Files |-> IF g \in V THEN 0 ELSE len[g]]
      BY <1>5, <2>1, <2>2, <2>5, <3>1 DEF CreateFile
    <3>3. TableRing' = Free(handleUsage(q, f), V)
      BY <2>3, <3>2, TableRingIsPlain
    <3>. QED BY <1>1, <1>2, <1>3, <1>5, <2>1, <2>3, <2>5, <3>2, <3>3,
                SameInsertion, SameUsage, SameFree
             DEF Cache!Create
  <2>. QED BY <2>4, <2>5
<1>. QED BY <1>4, <1>5

\* A read, or an open of a stored file, is a use.
LEMMA UseOfStored ==
    ASSUME TableInv, Runs, NEW f \in stored,
           \/ UsageExits(ring, f) /\ Fail("exit")
           \/ ~UsageExits(ring, f) /\ ring' = handleUsage(ring, f) /\ UNCHANGED <<len, fault>>
    PROVE  Cache!Use(f)
<1>1. /\ f \in Cache!Stored /\ f \in stored
      /\ Shaped(ring) /\ Agrees(ring, stored)
  BY StoredInRing, RunsAgree, NoFaultAssumption DEF Runs, Faults
<1>2. PICK p, s : p = Plain(ring) /\ p = TableRing /\ s = handleUsage(ring, f)
  BY TableRingIsPlain
<1>3. /\ UsageExits(ring, f) <=> UsageExits(p, f)
      /\ Plain(s) = handleUsage(p, f)
  <2>1. PICK r, S : r = ring /\ S = stored
    OBVIOUS
  <2>2. Shaped(r) /\ Agrees(r, S) /\ f \in S
    BY <1>1, <2>1
  <2>3. UsageExits(r, f) <=> UsageExits(Plain(r), f)
    BY <2>2, UsedInStore
  <2>4. Plain(handleUsage(r, f)) = handleUsage(Plain(r), f)
    BY <2>2, UsedInStore
  <2>. QED BY <1>2, <2>1, <2>3, <2>4
<1>4. CASE UsageExits(ring, f) /\ Fail("exit")
  <2>1. Cache!Fail("exit")
    BY <1>4, FailsInCache
  <2>. QED BY <1>1, <1>2, <1>3, <1>4, <2>1, SameUsage DEF Cache!Use
<1>5. CASE ~UsageExits(ring, f) /\ ring' = handleUsage(ring, f) /\ UNCHANGED <<len, fault>>
  <2>1. TableRing' = handleUsage(p, f)
    BY <1>2, <1>3, <1>5, TableRingIsPlain
  <2>. QED BY <1>1, <1>2, <1>3, <1>5, <2>1, SameUsage DEF Cache!Use
<1>. QED BY <1>4, <1>5

\* An open of a stored file uses it, or fails for want of a descriptor.
LEMMA OpenStoredFileIsUse ==
    ASSUME TableInv, Runs, NEW c \in Clients, NEW f \in Files,
           NEW create \in BOOLEAN, NEW lock \in BOOLEAN, OpenStoredFile(c, f, create, lock)
    PROVE  Cache!Use(f) \/ CacheStutters
<1>1. f \in stored
  BY DEF OpenStoredFile, OpensStored
<1>2. CASE UsageExits(ring, f) /\ Fail("exit")
  BY <1>1, <1>2, UseOfStored
<1>3. CASE Fail("descriptor")
  BY <1>3, FailsOutsideCache DEF Hidden
<1>4. CASE ~UsageExits(ring, f) /\ ring' = handleUsage(ring, f) /\ UNCHANGED <<len, fault>>
  BY <1>1, <1>4, UseOfStored
<1>. QED BY <1>2, <1>3, <1>4 DEF OpenStoredFile

\* So does a read by name.
LEMMA ReadFileIsUse ==
    ASSUME TableInv, Runs, NEW c \in Clients, NEW f \in Files, ReadFile(c, f)
    PROVE  Cache!Use(f)
BY UseOfStored DEF ReadFile

\* A read of readNFiles uses a stored file, fails at a freed slot, or uses an expelled entry.
LEMMA ReadNextIsUse ==
    ASSUME TableInv, Runs, NEW c \in Clients, ReadNext(c)
    PROVE  (\E f \in stored : Cache!Use(f)) \/ CacheStutters \/ ReadsExpelled
<1>1. PICK e : e = ring.cache[Head(toRead[c])]
  OBVIOUS
<1>2. CASE e = NoFile
  BY <1>1, <1>2, FailsOutsideCache DEF ReadNext, Hidden
<1>3. CASE e \in stored
  <2>1. e \notin Expelled /\ e # NoFile
    BY <1>3, RunsAgree, AgreeingRing, KindsDiffer
  <2>2. ~BringsBack(e)
    BY <2>1 DEF BringsBack
  <2>. QED BY <1>1, <1>3, <2>1, <2>2, UseOfStored DEF ReadNext
<1>4. CASE e # NoFile /\ e \notin stored
  <2>1. Shaped(ring) /\ Agrees(ring, stored)
    BY RunsAgree
  <2>2. PICK i, s, S : /\ i \in Slots /\ i = Head(toRead[c]) /\ e = ring.cache[i]
                      /\ s = handleUsage(ring, e) /\ S = stored
    BY <1>1, NextSlot DEF ReadNext
  <2>3. /\ e \in Expelled
        /\ s.policy = ring.policy /\ s.count = ring.count /\ s.size = ring.size
        /\ ~(~IsFIFO(ring) /\ SearchLength(ring, e) = cacheSize - 1 /\ ring.count # 0) =>
               Window(Plain(s)) = Window(Plain(ring))
    BY <1>4, <2>1, <2>2, UsedByReader
  <2>4. fault' # "expelled_use" =>
            UNCHANGED <<Cache!Queue, ring.policy, ring.count, ring.size, len>>
    <3>1. CASE Fail("exit")
      <4>1. UNCHANGED <<ring, len>>
        BY <3>1 DEF Fail, cacheVars
      <4>2. UNCHANGED TableRing
        BY <4>1, TableRingIsPlain
      <4>. QED BY <4>1, <4>2, StoredInRing
    <3>2. CASE /\ ring' = s /\ UNCHANGED len
               /\ fault' = IF BringsBack(e) THEN "expelled_use" ELSE fault
      <4>1. fault' # "expelled_use" => ~BringsBack(e)
        BY <3>2
      <4>2. fault' # "expelled_use" => Window(Plain(s)) = Window(Plain(ring))
        BY <2>3, <4>1 DEF BringsBack
      <4>3. fault' # "expelled_use" => UNCHANGED Cache!Queue
        BY <3>2, <4>2, TableRingIsPlain, StoredInRing
      <4>. QED BY <2>3, <3>2, <4>3
    <3>. QED BY <1>1, <1>4, <2>2, <3>1, <3>2 DEF ReadNext
  <2>. QED BY <1>1, <2>3, <2>4 DEF ReadsExpelled
<1>. QED BY <1>2, <1>3, <1>4

\* A free leaves the files of the table where they are.
LEMMA FreeExpelledIsHidden ==
    ASSUME TableInv, Runs, NEW c \in Clients, FreeExpelled(c)
    PROVE  CacheStutters
<1>1. PICK s : ring' = s /\ Plain(s) = Plain(ring) /\ UNCHANGED <<len, fault>>
  BY FreeExpelledInRing
<1>2. UNCHANGED TableRing
  BY <1>1, TableRingIsPlain
<1>. QED BY <1>1, <1>2 DEF CacheStutters, cacheFault

\* A write or append, whose victims are in the table.
LEMMA EditFileIsEdit ==
    ASSUME TypeOK, TableInv, Runs, NEW c \in Clients, NEW f \in stored,
           NEW newSize \in 0 .. MaxFileSize, EditFile(c, f, newSize)
    PROVE  Cache!Edit(f, newSize)
<1>1. /\ f \in Cache!Stored /\ newSize <= MaxFileSize /\ newSize \in Int
      /\ Shaped(ring) /\ Agrees(ring, stored) /\ len \in [Files -> Int]
  BY StoredInRing, RunsAgree, LengthsAreNumbers, MaxFileSizeAssumption, NoFaultAssumption
     DEF Runs, Faults
<1>2. PICK r, p, l, S : /\ r = ring /\ l = len /\ S = stored
                        /\ p = TableRing /\ p = Plain(r)
  BY TableRingIsPlain
<1>3. Shaped(r) /\ Agrees(r, S) /\ f \in S /\ l \in [Files -> Int] /\ newSize \in Int
  BY <1>1, <1>2
<1>4. EditOverruns(r, l, f, newSize) <=> EditOverruns(Plain(r), l, f, newSize)
  BY <1>3, EditedInStore
<1>5. CASE EditOverruns(ring, len, f, newSize)
  <2>1. Cache!Fail("edit_overrun")
    BY <1>5, FailsInCache DEF EditFile
  <2>. QED BY <1>1, <1>2, <1>4, <1>5, <2>1, SameEdit DEF Cache!Edit
<1>6. CASE ~EditOverruns(ring, len, f, newSize)
  <2>1. ~EditOverruns(r, l, f, newSize)
    BY <1>2, <1>6
  <2>2. /\ EditExits(r, l, f, newSize) <=> EditExits(Plain(r), l, f, newSize)
        /\ EditVictims(r, l, f, newSize) = EditVictims(Plain(r), l, f, newSize)
        /\ EditVictims(r, l, f, newSize) \subseteq S
    BY <1>3, <2>1, EditedInStore
  <2>3. CASE EditExits(ring, len, f, newSize)
    <3>1. Cache!Fail("exit")
      BY <1>6, <2>3, FailsInCache DEF EditFile
    <3>. QED BY <1>1, <1>2, <1>4, <1>6, <2>2, <2>3, <3>1, SameEdit DEF Cache!Edit
  <2>4. CASE ~EditExits(ring, len, f, newSize)
    <3>1. PICK V, u, q : /\ V = EditVictims(r, l, f, newSize)
                         /\ u = Expel(handleEdit(r, l, f, newSize), c, V)
                         /\ q = handleEdit(Plain(r), l, f, newSize)
      OBVIOUS
    <3>2. V \cap stored = V
      BY <1>2, <2>2, <3>1
    <3>3. /\ ring' = u /\ UNCHANGED fault
          /\ len' = [g \in Files |-> IF g = f THEN newSize ELSE IF g \in V THEN 0 ELSE len[g]]
      BY <1>2, <1>6, <2>4, <3>1, <3>2 DEF EditFile
    <3>4. Plain(u) = Free(q, V)
      <4>1. WellFormed(Plain(r)) /\ S \in SUBSET Files /\ f \in Files /\ V \in SUBSET Files
        BY <1>3, <2>2, <3>1, AgreeingRing
      <4>2. PICK x : x = handleEdit(r, l, f, newSize)
        OBVIOUS
      <4>3. Plain(x) = q /\ Shaped(x)
        BY <1>3, <2>1, <3>1, <4>1, <4>2, PlainEdit
      <4>. QED BY <3>1, <4>1, <4>2, <4>3, PlainExpel
    <3>5. TableRing' = Free(q, V)
      BY <3>1, <3>3, <3>4, TableRingIsPlain
    <3>6. /\ ~Cache!EditOverruns(TableRing, len, f, newSize)
          /\ ~Cache!EditExits(TableRing, len, f, newSize)
          /\ V = Cache!EditVictims(TableRing, len, f, newSize)
          /\ q = Cache!handleEdit(TableRing, len, f, newSize) /\ Free(q, V) = Cache!Free(q, V)
      BY <1>2, <1>4, <1>6, <2>2, <2>4, <3>1, SameEdit, SameFree
    <3>. QED BY <1>1, <3>3, <3>5, <3>6 DEF Cache!Edit
  <2>. QED BY <2>3, <2>4
<1>. QED BY <1>5, <1>6

\* A removal.
LEMMA RemoveFileIsRemove ==
    ASSUME TypeOK, TableInv, Runs, NEW c \in Clients, NEW f \in Files, RemoveFile(c, f)
    PROVE  Cache!Remove(f)
<1>1. /\ f \in Cache!Stored /\ f \in stored
      /\ Shaped(ring) /\ Agrees(ring, stored) /\ len \in [Files -> Int]
  BY StoredInRing, RunsAgree, LengthsAreNumbers, NoFaultAssumption
     DEF RemoveFile, Runs, Faults
<1>2. PICK r, l, S, u : /\ r = ring /\ l = len /\ S = stored
                        /\ u = Free(handleRemoval(r, l, f), {f})
  OBVIOUS
<1>3. Plain(u) = Free(handleRemoval(Plain(r), l, f), {f})
  <2>1. Shaped(r) /\ Agrees(r, S) /\ f \in S /\ l \in [Files -> Int]
    BY <1>1, <1>2
  <2>2. PICK x, y, V : /\ x = handleRemoval(r, l, f) /\ y = handleRemoval(Plain(r), l, f)
                       /\ V = {f}
    OBVIOUS
  <2>3. /\ r.head \in Slots /\ f \in Files
        /\ V \in SUBSET Pointers /\ V \cap {NoFile} = {} /\ V \subseteq Files
    BY <2>1, <2>2, AgreeingRing, KindsDiffer DEF Pointers
  <2>4. Plain(x) = y /\ Shaped(x)
    BY <2>1, <2>2, <2>3, PlainRemoval
  <2>5. Plain(Free(x, V)) = Free(Plain(x), V)
    BY <2>3, <2>4, PlainFree
  <2>6. u = Free(x, V)
    BY <1>2, <2>2
  <2>7. Plain(u) = Free(y, V)
    BY <2>4, <2>5, <2>6
  <2>. QED BY <2>2, <2>7
<1>4. ring' = u /\ len' = [len EXCEPT ![f] = 0] /\ UNCHANGED fault
  BY <1>2 DEF RemoveFile
<1>5. TableRing' = Free(handleRemoval(TableRing, len, f), {f})
  BY <1>2, <1>3, <1>4, TableRingIsPlain
<1>. QED BY <1>1, <1>4, <1>5, SameRemoval, SameFree DEF Cache!Remove

\* The steps of Next, and the stutter, in CacheRing.
LEMMA StepsAreCacheSteps ==
    ASSUME IndInv, TableInv, [Next]_vars
    PROVE  [Cache!Next \/ ReadsExpelled]_(Cache!vars)
<1>. DEFINE Operation(f) ==
              \/ Cache!Create(f) \/ Cache!Use(f) \/ Cache!Remove(f)
              \/ \E newSize \in 0 .. MaxFileSize : Cache!Edit(f, newSize)
<1>0. TypeOK
  BY DEF IndInv
<1>1. ASSUME Runs, NEW f \in Files, Operation(f)
      PROVE  Cache!Next
  BY <1>1, Running DEF Cache!Next, cacheFault, Hidden
<1>2. ASSUME Runs, NEW c \in Clients, NEW f \in Files, FileOperation(c, f)
      PROVE  Operation(f) \/ CacheStutters
  <2>1. ASSUME NEW lock \in BOOLEAN, CreateFile(c, f, lock)
        PROVE  Operation(f)
    BY <1>2, <2>1, CreateFileIsCreate
  <2>2. ASSUME NEW create \in BOOLEAN, NEW lock \in BOOLEAN, OpenStoredFile(c, f, create, lock)
        PROVE  Operation(f) \/ CacheStutters
    BY <1>2, <2>2, OpenStoredFileIsUse
  <2>3. ASSUME NEW size \in 0 .. MaxFileSize, WriteFile(c, f, size)
        PROVE  Operation(f)
    BY <1>0, <1>2, <2>3, EditFileIsEdit DEF WriteFile
  <2>4. ASSUME NEW size \in 0 .. MaxFileSize, AppendToFile(c, f, size)
        PROVE  Operation(f)
    <3>1. len[f] + size \in 0 .. MaxFileSize
      BY <1>0, <2>4, MaxFileSizeAssumption DEF AppendToFile, TypeOK
    <3>. QED BY <1>0, <1>2, <2>4, <3>1, EditFileIsEdit DEF AppendToFile
  <2>5. CASE ReadFile(c, f)
    BY <1>2, <2>5, ReadFileIsUse
  <2>6. CASE LockFile(c, f) \/ UnlockFile(c, f) \/ CloseFile(c, f)
    <3>1. UNCHANGED <<ring, len, fault>>
      BY <2>6 DEF LockFile, UnlockFile, CloseFile, cacheVars
    <3>. QED BY <3>1, CacheUndisturbed DEF cacheFault
  <2>7. CASE RemoveFile(c, f)
    BY <1>0, <1>2, <2>7, RemoveFileIsRemove
  <2>. QED BY <1>2, <2>1, <2>2, <2>3, <2>4, <2>5, <2>6, <2>7 DEF FileOperation
<1>3. ASSUME Runs, NEW c \in Clients, Connect(c) \/ ConnectionClosed(c) \/ Notify(c)
      PROVE  CacheStutters
  <2>1. Fail("double_free") \/ UNCHANGED <<ring, len, fault>>
    BY <1>3 DEF Connect, ConnectionClosed, Notify, Answer, cacheVars
  <2>. QED BY <1>3, <2>1, FailsOutsideCache, CacheUndisturbed DEF cacheFault, Hidden
<1>4. ASSUME NEW c \in Clients, NEW n \in SampleSizes, ReadNFiles(c, n)
      PROVE  CacheStutters
  <2>1. UNCHANGED <<ring, len, fault>>
    BY <1>4 DEF ReadNFiles, cacheVars
  <2>. QED BY <2>1, CacheUndisturbed DEF cacheFault
<1>5. ASSUME Runs, NEW c \in Clients, ReadNext(c) \/ FreeExpelled(c)
      PROVE  (\E f \in Files : Operation(f)) \/ CacheStutters \/ ReadsExpelled
  BY <1>0, <1>5, ReadNextIsUse, FreeExpelledIsHidden DEF TypeOK
<1>6. CacheStutters => UNCHANGED Cache!vars
  BY DEF CacheStutters, cacheFault, Hidden, Cache!vars
<1>7. CASE UNCHANGED vars
  <2>1. UNCHANGED <<ring, len, fault>>
    BY <1>7 DEF vars
  <2>. QED BY <1>6, <2>1, CacheUndisturbed DEF cacheFault
<1>8. CASE Next
  <2>. HIDE DEF Operation
  <2>1. Runs
    BY <1>8 DEF Next, Runs
  <2>2. (\E f \in Files : Operation(f)) \/ CacheStutters \/ ReadsExpelled
    BY <1>2, <1>3, <1>4, <1>5, <1>8, <2>1 DEF Next
  <2>. QED BY <1>1, <1>6, <2>1, <2>2
<1>. QED BY <1>7, <1>8

(***************************************************************************)
(* Each step of the store, whoever takes it, is one of CacheRing's         *)
(* operations or leaves ring and lengths alone (files.c:438-489, 535-560,  *)
(* 605-626, 692-709), the uses of expelled entries by readNFiles excepted: *)
(* these leave the files of the window and their order alone as long as    *)
(* they bring none back (files.c:392-394, worker.c:195-207).               *)
(***************************************************************************)
THEOREM StoreImplementsCacheRing == Spec => ImplementsCacheRing
<1>1. Init => Cache!Init
  BY StoreStartsAsCache
<1>2. IndInv /\ TableInv /\ [Next]_vars => [Cache!Next \/ ReadsExpelled]_(Cache!vars)
  BY StepsAreCacheSteps
<1>. QED BY <1>1, <1>2, Invariance, TableInvariance, PTL DEF Spec, ImplementsCacheRing

=============================================================================
