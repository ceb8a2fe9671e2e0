------------------------------ MODULE Routing_MC ------------------------------
(***************************************************************************)
(* A vehicle with a sensor and an actuator, and one with a sensor.         *)
(***************************************************************************)
EXTENDS Routing, TLC

CONSTANTS s1, a1, s2, v1, v2

MCHome == (s1 :> v1) @@ (a1 :> v1) @@ (s2 :> v2)
MCPort == (s1 :> 1000) @@ (a1 :> 1001) @@ (s2 :> 1000)
MCUnit == [c \in Components |-> "TEMPERATURE"]

=============================================================================
