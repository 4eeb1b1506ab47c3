---------------------------- MODULE MCCacheRing ----------------------------
EXTENDS CacheRing, TLC

CONSTANT MaxDrift   \* bound on the error of the running total

FileSymmetry == Permutations(Files)

(***************************************************************************)
(* Every eviction at the count limit can add to the error of the running   *)
(* total, so it has no bound of its own; behaviours are cut where it has   *)
(* grown past MaxDrift.                                                    *)
(***************************************************************************)
BoundedDrift == ring.size - StoredBytes \in -MaxDrift .. MaxDrift

(***************************************************************************)
(* With the real SCAN_LIMIT the index has to travel round a ring of more   *)
(* than 100 slots.  It is enough to follow the behaviours of Spec that     *)
(* create and use files, and in which all but the youngest slot point to   *)
(* one file.                                                               *)
(***************************************************************************)
UseSpec ==
    Init /\ [][fault = NoFault /\ \E f \in Files : Create(f) \/ Use(f)]_vars

OneOtherFile ==
    Cardinality({ring.cache[i] : i \in Slots \ {Back(ring.tail)}} \ {NoFile}) <= 1
=============================================================================
