---------------------------- MODULE VehicleProofs ----------------------------
(***************************************************************************)
(* Proofs about module Vehicle, for any number of vehicles, quadrants,     *)
(* moves, messages and losses.                                             *)
(***************************************************************************)
EXTENDS Vehicle, FiniteSetTheorems, TLAPS

Stamps == [loc : Quadrants, nr : Nat]

(* What the threads hold fits the step they are at, and no vehicle has     *)
(* made more moves than there were.                                        *)
HoldsInv ==
    \A v \in Vehicles :
        /\ visit[v] <= moves
        /\ rx[v] = "update" => buf[v] \in Frames /\ buf[v].to = v
        /\ tx[v] = "sign" => stamp[v] \in Stamps

(* What a frame says does not change any more: a KEY has the key of its    *)
(* quadrant, so has a sure message, and a JOIN goes to the leader of its   *)
(* quadrant.                                                               *)
Honest(f) ==
    /\ f.kind = "KEY" => f.key = KeyOf[f.loc]
    /\ f.kind = "JOIN" /\ f.to \in Quadrants => f.to = f.loc
    /\ f.kind = "SERVICE" /\ f.sure => f.key = KeyOf[f.loc]

HonestInv ==
    /\ \A f \in network \cup lost : Honest(f)
    /\ \A v \in Vehicles : rx[v] = "update" => Honest(buf[v])

(* A JOIN or KEY of this visit was sent from, and for, this quadrant.      *)
CurrentInv ==
    \A f \in network \cup lost : \A v \in Vehicles : Concerns(v, f) =>
        /\ f.nr <= visit[v]
        /\ f.nr = visit[v] => /\ f.loc = quadrant[v]
                              /\ qpc[v] \notin {"boot", "first", "join"}

(* A KEY that filter_location let pass is of this quadrant, or the vehicle *)
(* has moved since and its new JOIN is pending.                            *)
KeyHeld ==
    \A v \in Vehicles : Holds(v, "KEY") => buf[v].loc = quadrant[v] \/ Pending(v)

VehicleInv == TypeOK /\ HoldsInv /\ HonestInv /\ CurrentInv /\ KeyHeld /\ KeySettles

-----------------------------------------------------------------------------

(* What a leader sends, the first key and a spoilt one are keys. *)
LEMMA KeyTypes ==
    /\ NoKey \in Keys /\ Garbage \in Keys
    /\ \A q \in Quadrants : KeyOf[q] \in Keys
BY DEF Keys

(* The names that may be registered are finitely many. *)
LEMMA EntitiesFinite == IsFiniteSet(Entities)
BY NamesAssumption, FS_Union DEF Entities

-----------------------------------------------------------------------------

(* The invariant holds at first. *)
LEMMA InitHolds == Init => VehicleInv
<1> SUFFICES ASSUME Init PROVE VehicleInv OBVIOUS
<1>1. TypeOK BY BoundsAssumption, KeyTypes, FS_EmptySet DEF Init, TypeOK
<1>2. HoldsInv BY DEF Init, HoldsInv
<1>3. HonestInv BY DEF Init, HonestInv
<1>4. CurrentInv BY DEF Init, CurrentInv
<1>5. KeyHeld BY DEF Init, KeyHeld, Holds
<1>6. KeySettles BY DEF Init, KeySettles, Settled, Awaited, Pending
<1> QED BY <1>1, <1>2, <1>3, <1>4, <1>5, <1>6 DEF VehicleInv

(* update_quadrant at boot: no JOIN of the vehicle exists yet. *)
LEMMA UpdateQuadrantKeeps ==
    ASSUME VehicleInv, NEW v \in Vehicles, UpdateQuadrant(v)
    PROVE  VehicleInv'
<1> USE DEF VehicleInv
<1>1. PICK q \in Quadrants : quadrant' = [quadrant EXCEPT ![v] = q]
  BY DEF UpdateQuadrant
<1>2. /\ qpc[v] = "boot" /\ qpc' = [qpc EXCEPT ![v] = "first"]
      /\ visit' = visit /\ moves' = moves /\ session_key' = session_key
      /\ nearby' = nearby /\ bus' = bus /\ rx' = rx /\ buf' = buf /\ tx' = tx
      /\ stamp' = stamp /\ network' = network /\ lost' = lost /\ traffic' = traffic
  BY DEF UpdateQuadrant, Goes, signal, forward
<1>3. TypeOK' BY <1>1, <1>2 DEF TypeOK
<1>4. HoldsInv' BY <1>2 DEF HoldsInv
<1>5. HonestInv' BY <1>2 DEF HonestInv
<1>6. CurrentInv' BY <1>1, <1>2 DEF CurrentInv, TypeOK, Concerns
<1>7. qpc' [v] = "first" /\ \A w \in Vehicles \ {v} :
         qpc'[w] = qpc[w] /\ quadrant'[w] = quadrant[w]
  BY <1>1, <1>2 DEF TypeOK
<1>8. KeyHeld' BY <1>2, <1>7 DEF KeyHeld, Holds, Pending, Concerns
<1>9. KeySettles' BY <1>2, <1>7 DEF KeySettles, Settled, Awaited, Pending, Holds, Concerns
<1> QED BY <1>3, <1>4, <1>5, <1>6, <1>8, <1>9

(* _quadrant_changer: the new visit is later than every frame under way. *)
LEMMA MoveKeeps ==
    ASSUME VehicleInv, NEW v \in Vehicles, Move(v)
    PROVE  VehicleInv'
<1> USE DEF VehicleInv
<1>1. PICK q \in Quadrants : quadrant' = [quadrant EXCEPT ![v] = q]
  BY DEF Move
<1>2. /\ qpc' = [qpc EXCEPT ![v] = "join"]
      /\ moves' = moves + 1 /\ visit' = [visit EXCEPT ![v] = moves + 1]
      /\ session_key' = session_key
      /\ nearby' = nearby /\ bus' = bus /\ rx' = rx /\ buf' = buf /\ tx' = tx
      /\ stamp' = stamp /\ network' = network /\ lost' = lost /\ traffic' = traffic
  BY DEF Move, Goes, signal, forward
<1>3. TypeOK' BY <1>1, <1>2 DEF TypeOK
<1>4. HoldsInv' BY <1>2 DEF HoldsInv, TypeOK
<1>5. HonestInv' BY <1>2 DEF HonestInv
<1>7. /\ qpc'[v] = "join" /\ visit'[v] = moves + 1
      /\ \A w \in Vehicles \ {v} :
         qpc'[w] = qpc[w] /\ quadrant'[w] = quadrant[w] /\ visit'[w] = visit[w]
  BY <1>1, <1>2 DEF TypeOK
<1>6. CurrentInv'
  <2> SUFFICES ASSUME NEW f \in network \cup lost, NEW w \in Vehicles, Concerns(w, f)
               PROVE  /\ f.nr <= visit'[w]
                      /\ f.nr = visit'[w] => /\ f.loc = quadrant'[w]
                                             /\ qpc'[w] \notin {"boot", "first", "join"}
    BY <1>2 DEF CurrentInv, Concerns
  <2>1. f.nr \in Nat /\ visit[w] \in Nat /\ moves \in Nat /\ visit[w] <= moves
    BY DEF TypeOK, Frames, HoldsInv
  <2>2. f.nr <= visit[w] BY DEF CurrentInv
  <2>3. CASE w = v BY <2>1, <2>2, <2>3, <1>7
  <2>4. CASE w # v BY <2>4, <1>7 DEF CurrentInv
  <2> QED BY <2>3, <2>4
<1>8. KeyHeld' BY <1>2, <1>7 DEF KeyHeld, Holds, Pending, Concerns
<1>9. KeySettles' BY <1>2, <1>7 DEF KeySettles, Settled, Awaited, Pending, Holds, Concerns
<1> QED BY <1>3, <1>4, <1>5, <1>6, <1>8, <1>9

(* notify_location_change: the JOIN is of this visit and this quadrant. *)
LEMMA SendJoinKeeps ==
    ASSUME VehicleInv, NEW v \in Vehicles, SendJoin(v)
    PROVE  VehicleInv'
<1> USE DEF VehicleInv
<1> DEFINE J(e) == Frame("JOIN", v, e, quadrant[v], NoKey, visit[v], FALSE)
           Receivers == {quadrant[v]} \cup (Vehicles \ {v})
<1>1. /\ network' = network \cup {J(e) : e \in Receivers}
      /\ quadrant' = quadrant /\ visit' = visit /\ moves' = moves
      /\ session_key' = session_key /\ nearby' = nearby /\ bus' = bus
      /\ rx' = rx /\ buf' = buf /\ tx' = tx /\ stamp' = stamp
      /\ lost' = lost /\ traffic' = traffic
  BY DEF SendJoin, signal, forward
<1>2. \/ qpc[v] = "first" /\ qpc' = [qpc EXCEPT ![v] = "sleep"]
      \/ qpc[v] = "join" /\ qpc' = [qpc EXCEPT ![v] = "reset"]
  BY DEF SendJoin, Goes
<1>3. quadrant[v] \in Quadrants /\ visit[v] \in Nat BY DEF TypeOK
<1>4. \A e \in Receivers : /\ J(e) \in Frames /\ J(e).kind = "JOIN" /\ J(e).from = v
                           /\ J(e).to = e /\ J(e).loc = quadrant[v] /\ J(e).nr = visit[v]
  <2> TAKE e \in Receivers
  <2>1. v \in Entities /\ e \in Entities BY <1>3 DEF Entities
  <2> QED BY <1>3, <2>1, KeyTypes DEF Frame, Frames
<1> HIDE DEF J
<1>5. TypeOK' BY <1>1, <1>2, <1>4 DEF TypeOK
<1>6. HoldsInv' BY <1>1 DEF HoldsInv
<1>7. HonestInv'
  <2>1. \A e \in Receivers : e \in Quadrants => e = quadrant[v]
    BY NamesAssumption
  <2>2. \A e \in Receivers : Honest(J(e)) BY <1>4, <2>1 DEF Honest
  <2> QED BY <1>1, <2>2 DEF HonestInv
<1>8. \A w \in Vehicles : qpc'[w] \in {"boot", "first", "join"} =>
                             w # v /\ qpc'[w] = qpc[w]
  BY <1>2 DEF TypeOK
<1>9. CurrentInv'
  <2> SUFFICES ASSUME NEW f \in network' \cup lost', NEW w \in Vehicles, Concerns(w, f)
               PROVE  /\ f.nr <= visit[w]
                      /\ f.nr = visit[w] => /\ f.loc = quadrant[w]
                                            /\ qpc'[w] \notin {"boot", "first", "join"}
    BY <1>1 DEF CurrentInv, Concerns
  <2>1. CASE f \in network \cup lost BY <2>1, <1>8 DEF CurrentInv
  <2>2. CASE \E e \in Receivers : f = J(e)
    <3>1. w = v /\ f.nr = visit[v] /\ f.loc = quadrant[v] BY <2>2, <1>4 DEF Concerns
    <3> QED BY <3>1, <1>3, <1>8
  <2> QED BY <2>1, <2>2, <1>1
<1>10. Pending(v)'
  <2>1. quadrant[v] \in Receivers OBVIOUS
  <2>2. J(quadrant[v]) \in network' BY <1>1, <2>1
  <2>3. Concerns(v, J(quadrant[v])) /\ J(quadrant[v]).nr = visit'[v]
    BY <2>1, <1>1, <1>3, <1>4 DEF Concerns
  <2> QED BY <2>2, <2>3 DEF Pending, Concerns
<1>11. \A w \in Vehicles \ {v} : Pending(w) => Pending(w)'
  <2> SUFFICES ASSUME NEW w \in Vehicles \ {v}, Pending(w) PROVE Pending(w)' OBVIOUS
  <2>1. qpc'[w] = qpc[w] BY <1>2 DEF TypeOK
  <2> QED BY <1>1, <2>1 DEF Pending, Concerns
<1>12. KeyHeld' BY <1>1, <1>10, <1>11 DEF KeyHeld, Holds
<1>13. KeySettles' BY <1>1, <1>10, <1>11 DEF KeySettles, Settled, Awaited, Holds
<1> QED BY <1>5, <1>6, <1>7, <1>9, <1>12, <1>13


(* reset_entities_nearby touches nothing but the list. *)
LEMMA ResetNearbyKeeps ==
    ASSUME VehicleInv, NEW v \in Vehicles, ResetNearby(v)
    PROVE  VehicleInv'
<1> USE DEF VehicleInv
<1>1. /\ qpc[v] = "reset" /\ qpc' = [qpc EXCEPT ![v] = "sleep"]
      /\ nearby' = [nearby EXCEPT ![v] = {}]
      /\ quadrant' = quadrant /\ visit' = visit /\ moves' = moves
      /\ session_key' = session_key /\ bus' = bus /\ rx' = rx /\ buf' = buf
      /\ tx' = tx /\ stamp' = stamp /\ network' = network /\ lost' = lost
      /\ traffic' = traffic
  BY DEF ResetNearby, Goes, signal, forward
<1>2. TypeOK' BY <1>1, BoundsAssumption, FS_EmptySet DEF TypeOK
<1>3. HoldsInv' BY <1>1 DEF HoldsInv
<1>4. HonestInv' BY <1>1 DEF HonestInv
<1>5. \A w \in Vehicles : qpc'[w] \in {"boot", "first", "join"}
                             <=> qpc[w] \in {"boot", "first", "join"}
  BY <1>1 DEF TypeOK
<1>6. CurrentInv' BY <1>1, <1>5 DEF CurrentInv, Concerns
<1>7. \A w \in Vehicles : Pending(w)' <=> Pending(w) BY <1>1, <1>5 DEF Pending, Concerns
<1>8. KeyHeld' BY <1>1, <1>7 DEF KeyHeld, Holds
<1>9. KeySettles' BY <1>1, <1>7 DEF KeySettles, Settled, Awaited, Holds
<1> QED BY <1>2, <1>3, <1>4, <1>6, <1>8, <1>9

(* The signal thread.  A KEY of this visit passes the filter, so that the  *)
(* signal thread holds it when it is no longer under way.                  *)
LEMMA HandleReceiveKeeps ==
    ASSUME VehicleInv, NEW v \in Vehicles, NEW f \in network, HandleReceive(v, f)
    PROVE  VehicleInv'
<1> USE DEF VehicleInv
<1>1. /\ rx[v] = "idle" /\ f.to = v /\ network' = network \ {f}
      /\ quadrant' = quadrant /\ qpc' = qpc /\ visit' = visit /\ moves' = moves
      /\ session_key' = session_key /\ nearby' = nearby /\ bus' = bus
      /\ tx' = tx /\ stamp' = stamp /\ lost' = lost /\ traffic' = traffic
  BY DEF HandleReceive, place, forward
<1>2. \/ /\ f.loc = quadrant[v]
         /\ rx' = [rx EXCEPT ![v] = "update"] /\ buf' = [buf EXCEPT ![v] = f]
      \/ f.loc # quadrant[v] /\ rx' = rx /\ buf' = buf
  BY DEF HandleReceive, signal
<1>3. f \in Frames BY DEF TypeOK
<1>4. TypeOK' BY <1>1, <1>2, <1>3 DEF TypeOK
<1>5. \A w \in Vehicles : \/ rx'[w] = rx[w] /\ buf'[w] = buf[w]
                          \/ /\ w = v /\ rx'[w] = "update" /\ buf'[w] = f
                             /\ f.loc = quadrant[v]
  BY <1>2 DEF TypeOK
<1>6. HoldsInv' BY <1>1, <1>3, <1>5 DEF HoldsInv
<1>7. HonestInv' BY <1>1, <1>5 DEF HonestInv
<1>8. CurrentInv' BY <1>1 DEF CurrentInv, Concerns
<1>9. \A w \in Vehicles \ {v} : Pending(w) => Pending(w)'
  <2>1. \A w \in Vehicles \ {v} : ~Concerns(w, f)
    BY <1>1, NamesAssumption DEF Concerns
  <2> QED BY <1>1, <2>1 DEF Pending, Concerns
<1>10. Pending(v) => Pending(v)' \/ Holds(v, "KEY")'
  <2>1. CASE Concerns(v, f) /\ f.nr = visit[v]
    <3>1. f.kind = "KEY" BY <2>1, <1>1, NamesAssumption DEF Concerns
    <3>2. f.loc = quadrant[v] BY <2>1 DEF CurrentInv
    <3>3. rx'[v] = "update" /\ buf'[v] = f BY <3>2, <1>2 DEF TypeOK
    <3> QED BY <3>1, <3>3 DEF Holds
  <2>2. CASE ~(Concerns(v, f) /\ f.nr = visit[v])
    BY <2>2, <1>1 DEF Pending, Concerns
  <2> QED BY <2>1, <2>2
<1>11. KeyHeld' BY <1>1, <1>5, <1>9 DEF KeyHeld, Holds
<1>12. \A w \in Vehicles : Awaited(w) => Awaited(w)'
  BY <1>1, <1>5, <1>9, <1>10 DEF Awaited, Holds
<1>13. KeySettles' BY <1>1, <1>12 DEF KeySettles, Settled
<1> QED BY <1>4, <1>6, <1>7, <1>8, <1>11, <1>13

(* register_nearby_entity keeps to the size of the list. *)
LEMMA UpdateRegisters ==
    ASSUME TypeOK, HoldsInv, NEW v \in Vehicles, NEW kind, Update(v, kind)
    PROVE  /\ nearby' \in [Vehicles -> SUBSET Entities]
           /\ \A w \in Vehicles : Cardinality(nearby'[w]) <= MAX_NEARBY_ENTITIES
           /\ rx' = [rx EXCEPT ![v] = "idle"] /\ buf' = [buf EXCEPT ![v] = NoFrame]
           /\ buf[v] \in Frames /\ buf[v].kind = kind /\ rx[v] = "update"
<1>1. rx[v] = "update" /\ buf[v] \in Frames /\ buf[v].from \in Entities
  BY DEF Update, HoldsInv, Frames
<1>2. nearby[v] \in SUBSET Entities /\ IsFiniteSet(nearby[v])
  BY EntitiesFinite, FS_Subset DEF TypeOK
<1>3. /\ Cardinality(nearby[v]) \in Nat
      /\ Cardinality(nearby[v] \cup {buf[v].from}) \in
             {Cardinality(nearby[v]), Cardinality(nearby[v]) + 1}
  BY <1>2, FS_AddElement, FS_CardinalityType
<1>4. PICK S \in {nearby[v], nearby[v] \cup {buf[v].from}} :
          /\ nearby' = [nearby EXCEPT ![v] = S]
          /\ S = nearby[v] \/ Cardinality(nearby[v]) < MAX_NEARBY_ENTITIES
  BY DEF Update, TypeOK
<1>5. S \in SUBSET Entities BY <1>1, <1>2, <1>4
<1>6. Cardinality(S) <= MAX_NEARBY_ENTITIES
  <2>1. CASE S = nearby[v] BY <2>1 DEF TypeOK
  <2>2. CASE S # nearby[v]
    <3>1. S = nearby[v] \cup {buf[v].from} BY <2>2, <1>4
    <3>2. Cardinality(S) \in {Cardinality(nearby[v]), Cardinality(nearby[v]) + 1}
      BY <3>1, <1>3
    <3>3. Cardinality(nearby[v]) < MAX_NEARBY_ENTITIES BY <2>2, <1>4
    <3> HIDE DEF TypeOK
    <3> QED BY <3>2, <3>3, <1>3, BoundsAssumption
  <2> QED BY <2>1, <2>2
<1>7. nearby' \in [Vehicles -> SUBSET Entities] BY <1>4, <1>5 DEF TypeOK
<1>8. \A w \in Vehicles : Cardinality(nearby'[w]) <= MAX_NEARBY_ENTITIES
  BY <1>4, <1>6 DEF TypeOK
<1> QED BY <1>1, <1>7, <1>8 DEF Update

(* What all cases of Protocol::update for a frame have in common: nothing  *)
(* that is pending is settled by it, and frames keep what they say.        *)
LEMMA UpdateKeeps ==
    ASSUME VehicleInv, NEW v \in Vehicles, NEW kind, Update(v, kind),
           UNCHANGED <<place, forward, network, lost, traffic>>
    PROVE  /\ HoldsInv' /\ HonestInv' /\ CurrentInv' /\ KeyHeld'
           /\ \A w \in Vehicles : Pending(w)' <=> Pending(w)
           /\ \A w \in Vehicles \ {v} : Holds(w, "KEY")' <=> Holds(w, "KEY")
           /\ quadrant' = quadrant /\ ~Holds(v, "KEY")'
<1> USE DEF VehicleInv
<1>1. /\ quadrant' = quadrant /\ qpc' = qpc /\ visit' = visit /\ moves' = moves
      /\ tx' = tx /\ stamp' = stamp /\ network' = network /\ lost' = lost
  BY DEF place, forward
<1>2. /\ rx'[v] = "idle"
      /\ \A w \in Vehicles \ {v} : rx'[w] = rx[w] /\ buf'[w] = buf[w]
  BY UpdateRegisters DEF TypeOK
<1>3. HoldsInv' BY <1>1, <1>2 DEF HoldsInv
<1>4. HonestInv' BY <1>1, <1>2 DEF HonestInv
<1>5. CurrentInv' BY <1>1 DEF CurrentInv, Concerns
<1>6. \A w \in Vehicles : Pending(w)' <=> Pending(w) BY <1>1 DEF Pending, Concerns
<1>7. KeyHeld' BY <1>1, <1>2, <1>6 DEF KeyHeld, Holds
<1> QED BY <1>1, <1>2, <1>3, <1>4, <1>5, <1>6, <1>7 DEF Holds

(* Protocol::update, one case for each kind of frame. *)
LEMMA HandleFrameKeeps ==
    ASSUME VehicleInv, NEW v \in Vehicles,
           HandleKey(v) \/ HandleJoin(v) \/ HandleLeft(v) \/ HandleService(v)
    PROVE  VehicleInv'
<1> USE DEF VehicleInv
<1>1. CASE HandleKey(v)
  <2>1. Update(v, "KEY") /\ UNCHANGED <<place, forward, network, lost, traffic>>
    BY <1>1 DEF HandleKey, place, forward
  <2>2. session_key' = [session_key EXCEPT ![v] = buf[v].key] /\ bus' = bus
    BY <1>1 DEF HandleKey
  <2>3. buf[v].key \in Keys BY <2>1, UpdateRegisters DEF Frames
  <2>4. TypeOK' BY <2>1, <2>2, <2>3, UpdateRegisters DEF TypeOK, place, forward
  <2>5. ~Pending(v) => buf[v].key = KeyOf[quadrant[v]]
    <3>1. Holds(v, "KEY") /\ Honest(buf[v])
      BY <2>1, UpdateRegisters DEF Holds, HonestInv
    <3> QED BY <3>1 DEF KeyHeld, Honest, Holds
  <2>6. KeySettles' BY <2>1, <2>2, <2>5, UpdateKeeps DEF KeySettles, Settled, Awaited, TypeOK
  <2> QED BY <2>1, <2>4, <2>6, UpdateKeeps
<1>2. CASE HandleJoin(v)
  <2>1. Update(v, "JOIN") /\ UNCHANGED <<place, forward, network, lost, traffic>>
    BY <1>2 DEF HandleJoin, place, forward
  <2>2. session_key' = session_key /\ bus' = bus BY <1>2 DEF HandleJoin
  <2>3. ~Holds(v, "KEY") BY <2>1, UpdateRegisters DEF Holds
  <2>4. TypeOK' BY <2>1, <2>2, UpdateRegisters DEF TypeOK, place, forward
  <2>5. KeySettles' BY <2>1, <2>2, <2>3, UpdateKeeps DEF KeySettles, Settled, Awaited
  <2> QED BY <2>1, <2>4, <2>5, UpdateKeeps
<1>3. CASE HandleLeft(v)
  <2>1. Update(v, "LEFT") /\ UNCHANGED <<place, forward, network, lost, traffic>>
    BY <1>3 DEF HandleLeft, place, forward
  <2>2. PICK key \in {session_key[v], Garbage} :
            session_key' = [session_key EXCEPT ![v] = key] /\ bus' = bus
    BY <1>3 DEF HandleLeft
  <2>3. ~Holds(v, "KEY") BY <2>1, UpdateRegisters DEF Holds
  <2>4. key \in Keys BY KeyTypes DEF TypeOK
  <2>5. TypeOK' BY <2>1, <2>2, <2>4, UpdateRegisters DEF TypeOK, place, forward
  <2>6. KeySettles' BY <2>1, <2>2, <2>3, UpdateKeeps DEF KeySettles, Settled, Awaited, TypeOK
  <2> QED BY <2>1, <2>5, <2>6, UpdateKeeps
<1>4. CASE HandleService(v)
  <2>1. Update(v, "SERVICE") /\ UNCHANGED <<place, forward, network, lost, traffic>>
    BY <1>4 DEF HandleService, place, forward
  <2>2. session_key' = session_key BY <1>4 DEF HandleService
  <2>3. PICK S \in {bus[v], bus[v] \cup {buf[v].nr}} : bus' = [bus EXCEPT ![v] = S]
    BY <1>4 DEF HandleService, TypeOK
  <2>4. buf[v].nr \in Nat BY <2>1, UpdateRegisters DEF Frames
  <2>5. S \in SUBSET Nat BY <2>4 DEF TypeOK
  <2>6. ~Holds(v, "KEY") BY <2>1, UpdateRegisters DEF Holds
  <2>7. TypeOK' BY <2>1, <2>2, <2>3, <2>5, UpdateRegisters DEF TypeOK, place, forward
  <2>8. KeySettles' BY <2>1, <2>2, <2>6, UpdateKeeps DEF KeySettles, Settled, Awaited
  <2> QED BY <2>1, <2>7, <2>8, UpdateKeeps
<1> QED BY <1>1, <1>2, <1>3, <1>4

(* The forwarding thread, the leaders and the network.  They change only   *)
(* the frames under way, the forwarding thread and what counts them.       *)
Elsewhere == <<place, session_key, nearby, bus, signal>>

(* An action that leaves the vehicles' state alone keeps the invariant if  *)
(* the frames it adds are in order and nothing that is pending is          *)
(* forgotten.                                                              *)
LEMMA FramesAdded ==
    ASSUME VehicleInv, UNCHANGED Elsewhere, TypeOK',
           \A v \in Vehicles : tx'[v] = "sign" => stamp'[v] \in Stamps,
           \A f \in (network' \cup lost') \ (network \cup lost) :
               /\ Honest(f)
               /\ \A v \in Vehicles : Concerns(v, f) =>
                      \E g \in network \cup lost :
                          Concerns(v, g) /\ g.nr = f.nr /\ g.loc = f.loc,
           \A v \in Vehicles : Pending(v) => Pending(v)'
    PROVE  VehicleInv'
<1> USE DEF VehicleInv
<1>1. /\ quadrant' = quadrant /\ qpc' = qpc /\ visit' = visit /\ moves' = moves
      /\ session_key' = session_key /\ rx' = rx /\ buf' = buf
  BY DEF Elsewhere, place, signal
<1>2. HoldsInv' BY <1>1 DEF HoldsInv
<1>3. HonestInv' BY <1>1 DEF HonestInv
<1>4. CurrentInv'
  <2> SUFFICES ASSUME NEW f \in network' \cup lost', NEW v \in Vehicles, Concerns(v, f)
               PROVE  /\ f.nr <= visit[v]
                      /\ f.nr = visit[v] => /\ f.loc = quadrant[v]
                                            /\ qpc[v] \notin {"boot", "first", "join"}
    BY <1>1 DEF CurrentInv, Concerns
  <2>1. PICK g \in network \cup lost : Concerns(v, g) /\ g.nr = f.nr /\ g.loc = f.loc
    OBVIOUS
  <2> QED BY <2>1 DEF CurrentInv
<1>5. KeyHeld' BY <1>1 DEF KeyHeld, Holds
<1>6. KeySettles' BY <1>1 DEF KeySettles, Settled, Awaited, Holds
<1> QED BY <1>2, <1>3, <1>4, <1>5, <1>6

(* More frames under way, nothing forgotten. *)
LEMMA PendingStays ==
    ASSUME network \cup lost \subseteq network' \cup lost', UNCHANGED place
    PROVE  \A v \in Vehicles : Pending(v) => Pending(v)'
BY DEF Pending, Concerns, place

(* _send_frame reads the quadrant. *)
LEMMA StampServiceKeeps ==
    ASSUME VehicleInv, NEW v \in Vehicles, StampService(v)
    PROVE  VehicleInv'
<1> USE DEF VehicleInv
<1> DEFINE s == [loc |-> quadrant[v], nr |-> traffic']
<1>1. s \in Stamps BY DEF StampService, Stamps, TypeOK
<1>2. /\ stamp' = [stamp EXCEPT ![v] = s] /\ tx' = [tx EXCEPT ![v] = "sign"]
      /\ traffic' \in Nat /\ UNCHANGED Elsewhere /\ network' = network /\ lost' = lost
  BY DEF StampService, Elsewhere, TypeOK
<1> HIDE DEF s
<1>3. TypeOK' BY <1>1, <1>2 DEF TypeOK, Elsewhere, place, signal, Stamps
<1>4. \A w \in Vehicles : tx'[w] = "sign" => stamp'[w] \in Stamps
  BY <1>1, <1>2 DEF TypeOK, HoldsInv
<1>5. \A w \in Vehicles : Pending(w) => Pending(w)'
  BY <1>2, PendingStays DEF Elsewhere
<1> QED BY <1>2, <1>3, <1>4, <1>5, FramesAdded

(* _send_frame signs: a sure message has the key of its quadrant. *)
LEMMA SignServiceKeeps ==
    ASSUME VehicleInv, NEW v \in Vehicles, SignService(v)
    PROVE  VehicleInv'
<1> USE DEF VehicleInv
<1> DEFINE sure == Settled(v) /\ stamp[v].loc = quadrant[v]
           M(w) == Frame("SERVICE", v, w, stamp[v].loc, session_key[v], stamp[v].nr, sure)
<1>1. /\ network' = network \cup {M(w) : w \in Vehicles \ {v}}
      /\ tx[v] = "sign" /\ tx' = [tx EXCEPT ![v] = "idle"]
      /\ stamp' = [stamp EXCEPT ![v] = NoStamp]
      /\ UNCHANGED Elsewhere /\ lost' = lost /\ traffic' = traffic
  BY DEF SignService, Elsewhere
<1>2. sure \in BOOLEAN BY DEF Settled, Awaited, Pending
<1>3. /\ stamp[v].loc \in Quadrants /\ stamp[v].nr \in Nat /\ session_key[v] \in Keys
      /\ sure => session_key[v] = KeyOf[stamp[v].loc]
  BY <1>1 DEF HoldsInv, Stamps, TypeOK, KeySettles
<1> HIDE DEF sure
<1>4. \A w \in Vehicles \ {v} :
          M(w) \in Frames /\ M(w).kind = "SERVICE" /\ Honest(M(w))
  <2> TAKE w \in Vehicles \ {v}
  <2>1. v \in Entities /\ w \in Entities BY DEF Entities
  <2>2. /\ M(w) \in Frames /\ M(w).kind = "SERVICE" /\ M(w).sure = sure
        /\ M(w).key = session_key[v] /\ M(w).loc = stamp[v].loc
    BY <1>2, <1>3, <2>1 DEF Frame, Frames
  <2> QED BY <2>2, <1>3 DEF Honest
<1> HIDE DEF M
<1>5. TypeOK' BY <1>1, <1>4 DEF TypeOK, Elsewhere, place, signal
<1>6. \A w \in Vehicles : tx'[w] = "sign" => stamp'[w] \in Stamps
  BY <1>1 DEF TypeOK, HoldsInv
<1>7. \A w \in Vehicles : Pending(w) => Pending(w)'
  BY <1>1, PendingStays DEF Elsewhere
<1>8. \A f \in (network' \cup lost') \ (network \cup lost) :
          Honest(f) /\ \A w \in Vehicles : ~Concerns(w, f)
  BY <1>1, <1>4 DEF Concerns
<1> QED BY <1>1, <1>5, <1>6, <1>7, <1>8, FramesAdded

(* send_notify_left concerns no JOIN. *)
LEMMA LeaderLeftKeeps ==
    ASSUME VehicleInv, NEW q \in Quadrants, LeaderLeft(q)
    PROVE  VehicleInv'
<1> USE DEF VehicleInv
<1> DEFINE L(w) == Frame("LEFT", q, w, q, NoKey, traffic', FALSE)
<1>1. /\ network' = network \cup {L(w) : w \in Vehicles}
      /\ traffic' \in Nat /\ tx' = tx /\ stamp' = stamp
      /\ UNCHANGED Elsewhere /\ lost' = lost
  BY DEF LeaderLeft, Elsewhere, forward, TypeOK
<1>2. \A w \in Vehicles : L(w) \in Frames /\ L(w).kind = "LEFT"
  <2> TAKE w \in Vehicles
  <2>1. q \in Entities /\ w \in Entities BY DEF Entities
  <2> QED BY <1>1, <2>1, KeyTypes DEF Frame, Frames
<1> HIDE DEF L
<1>3. TypeOK' BY <1>1, <1>2 DEF TypeOK, Elsewhere, place, signal
<1>4. \A w \in Vehicles : tx'[w] = "sign" => stamp'[w] \in Stamps
  BY <1>1 DEF HoldsInv
<1>5. \A w \in Vehicles : Pending(w) => Pending(w)'
  BY <1>1, PendingStays DEF Elsewhere
<1>6. \A f \in (network' \cup lost') \ (network \cup lost) :
          Honest(f) /\ \A w \in Vehicles : ~Concerns(w, f)
  BY <1>1, <1>2 DEF Concerns, Honest
<1> QED BY <1>1, <1>3, <1>4, <1>5, <1>6, FramesAdded

(* The answer takes the place of the JOIN. *)
LEMMA LeaderJoinKeeps ==
    ASSUME VehicleInv, NEW f \in network, LeaderJoin(f)
    PROVE  VehicleInv'
<1> USE DEF VehicleInv
<1> DEFINE K == Frame("KEY", f.to, f.from, f.to, KeyOf[f.to], f.nr, FALSE)
<1>1. /\ f.kind = "JOIN" /\ f.to \in Quadrants
      /\ network' = (network \ {f}) \cup {K} /\ tx' = tx /\ stamp' = stamp
      /\ UNCHANGED Elsewhere /\ lost' = lost /\ traffic' = traffic
  BY DEF LeaderJoin, Elsewhere, forward
<1>2. f \in Frames /\ f.from \in Entities /\ f.to \in Entities /\ f.nr \in Nat
  BY <1>1 DEF TypeOK, Frames
<1>3. /\ K \in Frames /\ K.kind = "KEY" /\ K.to = f.from /\ K.loc = f.to
      /\ K.key = KeyOf[f.to] /\ K.nr = f.nr
  BY <1>1, <1>2, KeyTypes DEF Frame, Frames
<1> HIDE DEF K
<1>4. TypeOK' BY <1>1, <1>3 DEF TypeOK, Elsewhere, place, signal
<1>5. \A w \in Vehicles : tx'[w] = "sign" => stamp'[w] \in Stamps
  BY <1>1 DEF HoldsInv
<1>6. f.loc = f.to BY <1>1 DEF HonestInv, Honest
<1>7. \A w \in Vehicles : Concerns(w, f) <=> Concerns(w, K)
  BY <1>1, <1>3 DEF Concerns
<1>8. Honest(K) BY <1>3 DEF Honest
<1>9. \A w \in Vehicles : Pending(w) => Pending(w)'
  <2> SUFFICES ASSUME NEW w \in Vehicles, Pending(w) PROVE Pending(w)' OBVIOUS
  <2>1. qpc' = qpc /\ visit' = visit BY <1>1 DEF Elsewhere, place
  <2>2. CASE qpc[w] \in {"boot", "first", "join"} BY <2>1, <2>2 DEF Pending
  <2>3. CASE Concerns(w, f) /\ f.nr = visit[w]
    BY <2>1, <2>3, <1>1, <1>3, <1>7 DEF Pending, Concerns
  <2>4. ASSUME NEW g \in (network \cup lost) \ {f}, Concerns(w, g) /\ g.nr = visit[w]
        PROVE  Pending(w)'
    BY <2>1, <2>4, <1>1 DEF Pending, Concerns
  <2> QED BY <2>2, <2>3, <2>4 DEF Pending
<1>10. \A g \in (network' \cup lost') \ (network \cup lost) : g = K BY <1>1
<1> QED BY <1>1, <1>3, <1>4, <1>5, <1>6, <1>7, <1>8, <1>9, <1>10, FramesAdded

(* A lost JOIN or KEY stays pending. *)
LEMMA LoseKeeps ==
    ASSUME VehicleInv, NEW f \in network, Lose(f)
    PROVE  VehicleInv'
<1> USE DEF VehicleInv
<1>1. /\ network' = network \ {f} /\ lost' = lost \cup {f}
      /\ tx' = tx /\ stamp' = stamp /\ traffic' = traffic /\ UNCHANGED Elsewhere
  BY DEF Lose, Elsewhere, forward
<1>2. TypeOK' BY <1>1 DEF TypeOK, Elsewhere, place, signal
<1>3. \A w \in Vehicles : tx'[w] = "sign" => stamp'[w] \in Stamps
  BY <1>1 DEF HoldsInv
<1>4. \A w \in Vehicles : Pending(w) => Pending(w)'
  BY <1>1, PendingStays DEF Elsewhere
<1> QED BY <1>1, <1>2, <1>3, <1>4, FramesAdded

-----------------------------------------------------------------------------

(* Every step keeps the invariant. *)
LEMMA StepKeeps == VehicleInv /\ [Next]_vars => VehicleInv'
<1> SUFFICES ASSUME VehicleInv, [Next]_vars PROVE VehicleInv' OBVIOUS
<1>1. ASSUME NEW v \in Vehicles, Move(v) PROVE VehicleInv' BY <1>1, MoveKeeps
<1>2. ASSUME NEW v \in Vehicles, QuadrantStep(v) PROVE VehicleInv'
  BY <1>2, UpdateQuadrantKeeps, SendJoinKeeps, ResetNearbyKeeps DEF QuadrantStep
<1>3. ASSUME NEW v \in Vehicles, SignalStep(v) PROVE VehicleInv'
  BY <1>3, HandleReceiveKeeps, HandleFrameKeeps DEF SignalStep
<1>4. ASSUME NEW v \in Vehicles, StampService(v) \/ SignService(v) PROVE VehicleInv'
  BY <1>4, StampServiceKeeps, SignServiceKeeps
<1>5. ASSUME NEW f \in network, LeaderJoin(f) \/ Lose(f) PROVE VehicleInv'
  BY <1>5, LeaderJoinKeeps, LoseKeeps
<1>6. ASSUME NEW q \in Quadrants, LeaderLeft(q) PROVE VehicleInv'
  BY <1>6, LeaderLeftKeeps
<1>7. CASE UNCHANGED vars
  <2>1. UNCHANGED Elsewhere /\ tx' = tx /\ stamp' = stamp /\ network' = network
        /\ lost' = lost /\ traffic' = traffic
    BY <1>7 DEF vars, Elsewhere, forward
  <2>2. TypeOK' BY <2>1 DEF VehicleInv, TypeOK, Elsewhere, place, signal
  <2>3. \A w \in Vehicles : tx'[w] = "sign" => stamp'[w] \in Stamps
    BY <2>1 DEF VehicleInv, HoldsInv
  <2>4. \A w \in Vehicles : Pending(w) => Pending(w)'
    BY <2>1, PendingStays DEF Elsewhere
  <2> QED BY <2>1, <2>2, <2>3, <2>4, FramesAdded
<1> QED BY <1>1, <1>2, <1>3, <1>4, <1>5, <1>6, <1>7 DEF Next

(* The inductive invariant: KEYs and sure messages have the key of their   *)
(* quadrant, and a KEY the signal thread holds is of this quadrant unless  *)
(* a newer JOIN is pending.                                                *)
THEOREM VehicleInvariant == Spec => []VehicleInv
BY InitHolds, StepKeeps, PTL DEF Spec

(* Types; the nearby list keeps to its size. *)
THEOREM VehicleTypes == Spec => []TypeOK
<1>1. VehicleInv => TypeOK BY DEF VehicleInv
<1> QED BY <1>1, VehicleInvariant, PTL

(* A vehicle whose JOIN is answered has the key of its quadrant. *)
THEOREM KeysSettle == Spec => []KeySettles
<1>1. VehicleInv => KeySettles BY DEF VehicleInv
<1> QED BY <1>1, VehicleInvariant, PTL

(* Settled vehicles of a quadrant take each other's messages. *)
THEOREM SettledUnderstand == Spec => MembersUnderstand
<1> DEFINE Taken(v) ==
        /\ rx[v] = "update" /\ rx'[v] = "idle" /\ Settled(v)
        /\ buf[v].kind = "SERVICE" /\ buf[v].sure /\ buf[v].loc = quadrant[v]
        => buf[v].nr \in bus'[v]
<1>1. VehicleInv /\ [Next]_vars => [\A v \in Vehicles : Taken(v)]_vars
  <2> SUFFICES ASSUME VehicleInv, Next, NEW v \in Vehicles,
                      rx[v] = "update", rx'[v] = "idle", Settled(v),
                      buf[v].kind = "SERVICE", buf[v].sure, buf[v].loc = quadrant[v]
               PROVE  buf[v].nr \in bus'[v]
    OBVIOUS
  <2>1. buf[v].key = session_key[v]
    BY DEF VehicleInv, HonestInv, Honest, KeySettles
  <2>2. HandleService(v)
    <3>1. rx \in [Vehicles -> {"idle", "update"}] BY DEF VehicleInv, TypeOK
    <3>2. \E w \in Vehicles : SignalStep(w)
      BY DEF Next, Move, QuadrantStep, UpdateQuadrant, SendJoin, ResetNearby,
             StampService, SignService, LeaderJoin, Lose, LeaderLeft, signal
    <3>3. PICK w \in Vehicles : SignalStep(w) BY <3>2
    <3>4. ~\E f \in network : HandleReceive(w, f)
      BY <3>1 DEF HandleReceive, signal
    <3>5. w = v
      BY <3>1, <3>3, <3>4 DEF SignalStep, HandleKey, HandleJoin, HandleLeft,
                              HandleService, Update
    <3> QED BY <3>3, <3>4, <3>5 DEF SignalStep, HandleKey, HandleJoin, HandleLeft, Update
  <2>3. bus' = [bus EXCEPT ![v] = bus[v] \cup {buf[v].nr}]
    BY <2>1, <2>2 DEF HandleService, VehicleInv, TypeOK
  <2> QED BY <2>3 DEF VehicleInv, TypeOK
<1> QED BY <1>1, VehicleInvariant, PTL DEF Spec, MembersUnderstand

=============================================================================
