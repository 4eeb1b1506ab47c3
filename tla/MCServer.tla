------------------------------ MODULE MCServer ------------------------------
(***************************************************************************)
(* Server for TLC.  The workers are alike, so the runs without liveness    *)
(* may exchange them.  Liveness is checked with fewer crashes: no socket   *)
(* is reset, and only the client of the lowest descriptor goes in the      *)
(* middle of a request.                                                    *)
(***************************************************************************)
EXTENDS Server, TLC

Symmetry == Permutations(Workers)

FewCrashes ==
    \A fd \in Fds : client'[fd] # client[fd] =>
        /\ client'[fd] # "reset"
        /\ client'[fd] = "gone" => client[fd] = "idle" \/ fd = Min(Fds)

EndsSpec == Init /\ [][Next /\ FewCrashes]_vars /\ Fairness
=============================================================================
