---------------------------- MODULE Vehicle_MC -----------------------------
EXTENDS Vehicle, TLC

(* Each leader sends out a key of its own, named by its quadrant. *)
OwnKeys == [q \in Quadrants |-> q]

(* Vehicles are interchangeable, and so are quadrants. *)
VehicleSymmetry == Permutations(Vehicles) \cup Permutations(Quadrants)
=============================================================================
