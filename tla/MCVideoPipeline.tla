-------------------------- MODULE MCVideoPipeline --------------------------
(* Instances of VideoPipeline for TLC.                                     *)
EXTENDS VideoPipeline

(* The lists of two job ids a client may send to /jobs/reprioritize.       *)
PairOrderings == {p \in [1..2 -> Jobs] : p[1] # p[2]}
=============================================================================
