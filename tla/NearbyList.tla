----------------------------- MODULE NearbyList -----------------------------
(***************************************************************************)
(* The list of nearby entities in the shared block of a vehicle            *)
(* (api/network/engines/smh_engine.hpp): an array with a count behind a    *)
(* spin lock.  The gateway registers, unregisters and resets from its      *)
(* signal thread and its quadrant thread; every process may query.         *)
(***************************************************************************)
EXTENDS Integers, FiniteSets

CONSTANTS
    MAX_NEARBY_ENTITIES,
    MACs,       \* the physical addresses that are heard
    NoMAC,      \* the zero address
    Callers     \* the threads that use the list

ASSUME LimitAssumption == MAX_NEARBY_ENTITIES \in Nat \ {0}
ASSUME ZeroAssumption == NoMAC \notin MACs

VARIABLES
    nearby_entities, nearby_count,
    nearby_lock,    \* the flag of the spin lock
    pc, op, addr,   \* per caller: where it is, in which operation
    result          \* per caller: the addresses its last query found

shared == <<nearby_entities, nearby_count>>
vars == <<shared, nearby_lock, pc, op, addr, result>>

Slots == 0 .. MAX_NEARBY_ENTITIES - 1
Listed == 0 .. nearby_count - 1     \* the slots a scan visits

Operations == {"register", "unregister", "reset", "is_nearby", "get"}

Init ==
    /\ nearby_entities = [i \in Slots |-> NoMAC]
    /\ nearby_count = 0
    /\ nearby_lock = FALSE
    /\ pc = [p \in Callers |-> "idle"]
    /\ op = [p \in Callers |-> "none"] /\ addr = [p \in Callers |-> NoMAC]
    /\ result = [p \in Callers |-> {}]

Goes(p, from, to) == pc[p] = from /\ pc' = [pc EXCEPT ![p] = to]

Call(p) ==
    /\ Goes(p, "idle", "spin")
    /\ \E o \in Operations, a \in MACs :
           op' = [op EXCEPT ![p] = o] /\ addr' = [addr EXCEPT ![p] = a]
    /\ UNCHANGED <<shared, nearby_lock, result>>

(* The test_and_set that finds the flag clear; the others spin on. *)
Acquire(p) ==
    /\ ~nearby_lock
    /\ Goes(p, "spin", op[p])
    /\ nearby_lock' = TRUE
    /\ UNCHANGED <<shared, op, addr, result>>

Exists(p) == \E i \in Listed : nearby_entities[i] = addr[p]

(* Mutant: no look at the count. *)
RegisterBeyondLimit(p) ==
    /\ ~Exists(p)
    /\ Goes(p, "register", "grow")
    /\ nearby_entities' = [nearby_entities EXCEPT ![nearby_count] = addr[p]]
    /\ UNCHANGED <<nearby_count, nearby_lock, op, addr, result>>

(* register_nearby_entity: the entry, and then the count. *)
Register(p) ==
    /\ ~Exists(p) /\ nearby_count < MAX_NEARBY_ENTITIES
    /\ Goes(p, "register", "grow")
    /\ nearby_entities' = [nearby_entities EXCEPT ![nearby_count] = addr[p]]
    /\ UNCHANGED <<nearby_count, nearby_lock, op, addr, result>>

RegisterNothing(p) ==
    /\ Exists(p) \/ nearby_count >= MAX_NEARBY_ENTITIES
    /\ Goes(p, "register", "unlock")
    /\ UNCHANGED <<shared, nearby_lock, op, addr, result>>

Grow(p) ==
    /\ Goes(p, "grow", "unlock")
    /\ nearby_count' = nearby_count + 1
    /\ UNCHANGED <<nearby_entities, nearby_lock, op, addr, result>>

(* Mutant: the count drops, the last entry is not moved. *)
UnregisterLast(p) ==
    /\ Exists(p)
    /\ Goes(p, "unregister", "shrink")
    /\ UNCHANGED <<shared, nearby_lock, op, addr, result>>

(* unregister_nearby_entity: the last entry takes the place of the first   *)
(* one that matches, and then the count drops.                             *)
Unregister(p) ==
    /\ Goes(p, "unregister", "shrink")
    /\ \E i \in Listed :
           /\ nearby_entities[i] = addr[p]
           /\ \A j \in 0 .. i - 1 : nearby_entities[j] # addr[p]
           /\ nearby_entities' =
                  [nearby_entities EXCEPT ![i] = nearby_entities[nearby_count - 1]]
    /\ UNCHANGED <<nearby_count, nearby_lock, op, addr, result>>

UnregisterNothing(p) ==
    /\ ~Exists(p)
    /\ Goes(p, "unregister", "unlock")
    /\ UNCHANGED <<shared, nearby_lock, op, addr, result>>

Shrink(p) ==
    /\ Goes(p, "shrink", "unlock")
    /\ nearby_count' = nearby_count - 1
    /\ UNCHANGED <<nearby_entities, nearby_lock, op, addr, result>>

(* reset_entities_nearby leaves the entries where they are. *)
Reset(p) ==
    /\ Goes(p, "reset", "unlock")
    /\ nearby_count' = 0
    /\ UNCHANGED <<nearby_entities, nearby_lock, op, addr, result>>

(* is_entity_nearby *)
IsEntityNearby(p) ==
    /\ Goes(p, "is_nearby", "unlock")
    /\ result' = [result EXCEPT ![p] = IF Exists(p) THEN {addr[p]} ELSE {}]
    /\ UNCHANGED <<shared, nearby_lock, op, addr>>

(* get_entities_nearby *)
GetEntitiesNearby(p) ==
    /\ Goes(p, "get", "unlock")
    /\ result' = [result EXCEPT ![p] = {nearby_entities[i] : i \in Listed}]
    /\ UNCHANGED <<shared, nearby_lock, op, addr>>

Release(p) ==
    /\ Goes(p, "unlock", "idle")
    /\ nearby_lock' = FALSE
    /\ op' = [op EXCEPT ![p] = "none"] /\ addr' = [addr EXCEPT ![p] = NoMAC]
    /\ UNCHANGED <<shared, result>>

Body(p) ==
    \/ Register(p) \/ RegisterNothing(p) \/ Grow(p)
    \/ Unregister(p) \/ UnregisterNothing(p) \/ Shrink(p)
    \/ Reset(p) \/ IsEntityNearby(p) \/ GetEntitiesNearby(p) \/ Release(p)

Next == \E p \in Callers : Call(p) \/ Acquire(p) \/ Body(p)

Spec == Init /\ [][Next]_vars

-----------------------------------------------------------------------------

(* The threads between their test_and_set and their clear. *)
Inside == {p \in Callers : pc[p] \notin {"idle", "spin"}}

(* Types of the list and of the callers' locals; the count stays within    *)
(* the array.                                                              *)
TypeOK ==
    /\ nearby_entities \in [Slots -> MACs \cup {NoMAC}]
    /\ nearby_count \in 0 .. MAX_NEARBY_ENTITIES
    /\ nearby_lock \in BOOLEAN
    /\ pc \in [Callers -> Operations \cup {"idle", "spin", "grow", "shrink", "unlock"}]
    /\ op \in [Callers -> Operations \cup {"none"}]
    /\ addr \in [Callers -> MACs \cup {NoMAC}]
    /\ result \in [Callers -> SUBSET MACs]

(* The spin lock excludes: at most one thread is between its test_and_set  *)
(* and its clear, and then the flag is set.                                *)
Exclusive ==
    /\ \A p, q \in Inside : p = q
    /\ nearby_lock <=> Inside # {}

(* Whenever the lock is free no address is listed twice, so that one       *)
(* unregister_nearby_entity removes an entity whatever register, unregister *)
(* and reset did before.                                                   *)
NoDuplicates ==
    ~nearby_lock => \A i, j \in Listed :
                        nearby_entities[i] = nearby_entities[j] => i = j

(* What the list stands for.  The last entry is out of the list as soon as *)
(* it has been moved.                                                      *)
Live ==
    IF \E p \in Callers : pc[p] = "shrink" THEN nearby_count - 1 ELSE nearby_count

Entities == {nearby_entities[i] : i \in 0 .. Live - 1}

Phase(p) ==
    CASE pc[p] = "idle" -> "idle"
      [] pc[p] \in {"unlock", "shrink"} -> "done"
      [] OTHER -> "pending"

Set == INSTANCE NearbySet WITH
    Addresses <- MACs, NoAddress <- NoMAC, Limit <- MAX_NEARBY_ENTITIES,
    nearby <- Entities, phase <- [p \in Callers |-> Phase(p)],
    request <- op, argument <- addr, answer <- result

(* The array, the count and the swap of the last entry implement a bounded *)
(* set whose operations are atomic, queries of other threads included.     *)
ImplementsSet == Set!SetSpec
=============================================================================
