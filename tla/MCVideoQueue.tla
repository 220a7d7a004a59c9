--------------------------- MODULE MCVideoQueue ---------------------------
(* Instances of VideoQueue for TLC.                                        *)
EXTENDS VideoQueue

(* Every list of distinct job ids a client may send to /jobs/reprioritize. *)
AllOrderings ==
    {p \in UNION {[1..n -> Jobs] : n \in 1..Cardinality(Jobs)} :
        \A i, k \in DOMAIN p : p[i] = p[k] => i = k}
=============================================================================
