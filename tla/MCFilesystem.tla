--------------------------- MODULE MCFilesystem ---------------------------
EXTENDS Filesystem, TLC

CONSTANT MaxDrift   \* bound on the error of the running total

ClientFileSymmetry == Permutations(Clients) \cup Permutations(Files)

(***************************************************************************)
(* As in MCCacheRing: every eviction at the count limit can add to the     *)
(* error of the running total; behaviours are cut where it passes MaxDrift.*)
(***************************************************************************)
BoundedDrift ==
    ring.size - MapThenSumSet(LAMBDA f : len[f], stored) \in -MaxDrift .. MaxDrift
=============================================================================
