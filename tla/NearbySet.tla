----------------------------- MODULE NearbySet ------------------------------
(***************************************************************************)
(* What the list of nearby entities promises the threads of a vehicle: a   *)
(* set of at most Limit addresses.  Every operation takes effect at one    *)
(* instant between its call and its return.                                *)
(***************************************************************************)
EXTENDS Naturals, FiniteSets

CONSTANTS Addresses, NoAddress, Limit, Callers

VARIABLES
    nearby,             \* the set
    phase,              \* per caller: "idle", "pending" or "done"
    request, argument,  \* per caller: the operation it is in
    answer              \* per caller: what its last query returned

setVars == <<nearby, phase, request, argument, answer>>

Requests == {"register", "unregister", "reset", "is_nearby", "get"}

SetInit ==
    /\ nearby = {}
    /\ phase = [p \in Callers |-> "idle"]
    /\ request = [p \in Callers |-> "none"]
    /\ argument = [p \in Callers |-> NoAddress]
    /\ answer = [p \in Callers |-> {}]

Invoke(p) ==
    /\ phase[p] = "idle" /\ phase' = [phase EXCEPT ![p] = "pending"]
    /\ \E r \in Requests, a \in Addresses :
           /\ request' = [request EXCEPT ![p] = r]
           /\ argument' = [argument EXCEPT ![p] = a]
    /\ UNCHANGED <<nearby, answer>>

(* A full set ignores a new address. *)
Updated(r, a) ==
    CASE r = "register" ->
             IF Cardinality(nearby) < Limit THEN nearby \cup {a} ELSE nearby
      [] r = "unregister" -> nearby \ {a}
      [] r = "reset" -> {}
      [] OTHER -> nearby

Answered(r, a, old) ==
    CASE r = "is_nearby" -> nearby \cap {a}
      [] r = "get" -> nearby
      [] OTHER -> old

Effect(p) ==
    /\ phase[p] = "pending" /\ phase' = [phase EXCEPT ![p] = "done"]
    /\ nearby' = Updated(request[p], argument[p])
    /\ answer' = [answer EXCEPT ![p] = Answered(request[p], argument[p], @)]
    /\ UNCHANGED <<request, argument>>

Return(p) ==
    /\ phase[p] = "done" /\ phase' = [phase EXCEPT ![p] = "idle"]
    /\ request' = [request EXCEPT ![p] = "none"]
    /\ argument' = [argument EXCEPT ![p] = NoAddress]
    /\ UNCHANGED <<nearby, answer>>

SetNext == \E p \in Callers : Invoke(p) \/ Effect(p) \/ Return(p)

SetSpec == SetInit /\ [][SetNext]_setVars
=============================================================================
