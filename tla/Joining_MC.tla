------------------------------ MODULE Joining_MC ------------------------------
(***************************************************************************)
(* A sensor, an actuator and a component too many for the registry.        *)
(***************************************************************************)
EXTENDS Joining, TLC

CONSTANTS s1, a1, x1

MCUnit == (s1 :> "TEMPERATURE") @@ (a1 :> "TEMPERATURE") @@ (x1 :> "PRESSURE")

=============================================================================
