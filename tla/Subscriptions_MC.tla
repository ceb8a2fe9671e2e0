--------------------------- MODULE Subscriptions_MC ---------------------------
(***************************************************************************)
(* Two actuators of another vehicle and one of the sensor's own.           *)
(***************************************************************************)
EXTENDS Subscriptions, TLC

CONSTANTS a1, a2, a3, v1

MCHome == (a1 :> v1) @@ (a2 :> v1) @@ (a3 :> Own)

=============================================================================
