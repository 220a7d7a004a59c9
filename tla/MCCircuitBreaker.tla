-------------------------- MODULE MCCircuitBreaker --------------------------
(* Instances of CircuitBreaker for TLC.                                    *)
EXTENDS CircuitBreaker

(* A canonical tag and its aliases: they share one circuit.                *)
Aliases == [t \in Tags |-> CHOOSE m \in Models : TRUE]
=============================================================================
