---------------------------- MODULE ShmEngine_MC ----------------------------
EXTENDS ShmEngine, TLC

(* Every sender is in process 0. *)
AllInProcess0 == [w \in Writers |-> 0]

(* The senders of one process are interchangeable. *)
SenderSymmetry == Permutations(Writers)
=============================================================================
