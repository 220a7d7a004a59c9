------------------------ MODULE MCModelOrchestrator ------------------------
(* Instances of ModelOrchestrator for TLC: two 7B models and a small one,  *)
(* or the 7B models alone.                                                 *)
EXTENDS ModelOrchestrator, TLC

CONSTANTS forge, oracle, pilot

AllModels == {forge, oracle, pilot}
Sevens    == {forge, oracle}
Sizes     == [m \in AllModels |-> IF m \in Sevens THEN 2 ELSE 1]
SevenSizes == [m \in Sevens |-> 2]

Symmetry == Permutations(Callers) \cup Permutations(Sevens)
=============================================================================
