------------------------------- MODULE Ptp_MC -------------------------------
EXTENDS Ptp

CONSTANTS m1, m2

(* Two roadside units whose clocks differ. *)
TwoClocks == [m \in Masters |-> IF m = m1 THEN 0 ELSE 4]
=============================================================================
