-------------------------- MODULE NearbyListProofs --------------------------
(***************************************************************************)
(* The list of nearby entities, for every number of callers, addresses and *)
(* slots: the lock excludes, no address is listed twice, and the list      *)
(* implements the bounded set.                                             *)
(***************************************************************************)
EXTENDS NearbyList, FiniteSetTheorems, TLAPS

(* What each caller knows where it stands. *)
AtCall(p) == pc[p] = "spin" => op[p] \in Operations /\ addr[p] \in MACs

AtBody(p) == pc[p] \in Operations => op[p] = pc[p] /\ addr[p] \in MACs

AtGrow(p) ==
    pc[p] = "grow" =>
        /\ op[p] = "register" /\ addr[p] \in MACs
        /\ nearby_count < MAX_NEARBY_ENTITIES
        /\ nearby_entities[nearby_count] = addr[p]
        /\ \A i \in 0 .. nearby_count - 1 : nearby_entities[i] # addr[p]

AtShrink(p) == pc[p] = "shrink" => nearby_count > 0

(* The live entries are addresses, and no two are the same. *)
LiveDistinct ==
    /\ \A i \in 0 .. Live - 1 : nearby_entities[i] \in MACs
    /\ \A i, j \in 0 .. Live - 1 : nearby_entities[i] = nearby_entities[j] => i = j

CallersInv == \A p \in Callers : AtCall(p) /\ AtBody(p) /\ AtGrow(p) /\ AtShrink(p)

ListInv == TypeOK /\ Exclusive /\ CallersInv /\ LiveDistinct

(* A thread that is inside is alone there, so the list is between two      *)
(* stores only where that thread is.                                       *)
LEMMA Alone ==
    ASSUME TypeOK, Exclusive, NEW p \in Callers, pc[p] \notin {"idle", "spin"}
    PROVE  /\ nearby_lock
           /\ \A q \in Callers : q # p => pc[q] \in {"idle", "spin"}
           /\ Live = IF pc[p] = "shrink" THEN nearby_count - 1 ELSE nearby_count
<1>1. p \in Inside BY DEF Inside
<1>2. \A q \in Callers : q # p => pc[q] \in {"idle", "spin"}
  BY <1>1 DEF Exclusive, Inside
<1>3. nearby_lock BY <1>1 DEF Exclusive
<1>4. (\E q \in Callers : pc[q] = "shrink") <=> pc[p] = "shrink"
  BY <1>2
<1> QED BY <1>2, <1>3, <1>4 DEF Live

(* With nobody inside, every counted entry is live. *)
LEMMA AllLive ==
    ASSUME Exclusive, ~nearby_lock
    PROVE  Live = nearby_count
<1>1. \A q \in Callers : pc[q] # "shrink" BY DEF Exclusive, Inside
<1> QED BY <1>1 DEF Live

(* The same facts about the list after a step. *)
LEMMA AloneAfter ==
    ASSUME Exclusive', NEW p \in Callers, pc'[p] \notin {"idle", "spin"}
    PROVE  Live' = IF pc'[p] = "shrink" THEN nearby_count' - 1 ELSE nearby_count'
<1>1. p \in Inside' BY DEF Inside
<1>2. \A q \in Callers : q # p => pc'[q] \in {"idle", "spin"}
  BY <1>1 DEF Exclusive, Inside
<1>3. (\E q \in Callers : pc'[q] = "shrink") <=> pc'[p] = "shrink"
  BY <1>2
<1> QED BY <1>3 DEF Live

(* Once the lock is free no entry is still on its way out of the array. *)
LEMMA AllLiveAfter ==
    ASSUME Exclusive', ~nearby_lock'
    PROVE  Live' = nearby_count'
<1>1. \A q \in Callers : pc'[q] # "shrink" BY DEF Exclusive, Inside
<1> QED BY <1>1 DEF Live

(* The list starts empty. *)
LEMMA ListInit == Init => ListInv
<1> SUFFICES ASSUME Init PROVE ListInv OBVIOUS
<1> USE LimitAssumption
<1>1. TypeOK
  <2>1. nearby_entities \in [Slots -> MACs \cup {NoMAC}] BY DEF Init
  <2>2. nearby_count \in 0 .. MAX_NEARBY_ENTITIES BY DEF Init
  <2>3. result \in [Callers -> SUBSET MACs] BY DEF Init
  <2> QED BY <2>1, <2>2, <2>3 DEF Init, TypeOK
<1>2. Exclusive BY DEF Init, Exclusive, Inside
<1>3. CallersInv
  BY DEF Init, CallersInv, AtCall, AtBody, AtGrow, AtShrink, Operations
<1>4. LiveDistinct
  <2>1. Live = 0 BY DEF Live, Init
  <2> QED BY <2>1 DEF LiveDistinct
<1> QED BY <1>1, <1>2, <1>3, <1>4 DEF ListInv

(* Every step keeps the types. *)
LEMMA TypesKept ==
    ASSUME ListInv, [Next]_vars
    PROVE  TypeOK'
<1> USE LimitAssumption DEF ListInv, TypeOK, Slots
<1>1. CASE UNCHANGED vars BY <1>1 DEF vars, shared
<1>2. ASSUME NEW p \in Callers, Call(p) PROVE TypeOK'
  BY <1>2 DEF Call, Goes, shared
<1>3. ASSUME NEW p \in Callers, Acquire(p) PROVE TypeOK'
  BY <1>3 DEF Acquire, Goes, shared, CallersInv, AtCall
<1>4. ASSUME NEW p \in Callers, Register(p) PROVE TypeOK'
  <2>1. addr[p] \in MACs BY <1>4 DEF Register, Goes, CallersInv, AtBody, Operations
  <2> QED BY <1>4, <2>1 DEF Register, Goes
<1>5. ASSUME NEW p \in Callers, RegisterNothing(p) PROVE TypeOK'
  BY <1>5 DEF RegisterNothing, Goes, shared
<1>6. ASSUME NEW p \in Callers, Grow(p) PROVE TypeOK'
  BY <1>6 DEF Grow, Goes, CallersInv, AtGrow
<1>7. ASSUME NEW p \in Callers, Unregister(p) PROVE TypeOK'
  BY <1>7 DEF Unregister, Goes, Listed
<1>8. ASSUME NEW p \in Callers, UnregisterNothing(p) PROVE TypeOK'
  BY <1>8 DEF UnregisterNothing, Goes, shared
<1>9. ASSUME NEW p \in Callers, Shrink(p) PROVE TypeOK'
  BY <1>9 DEF Shrink, Goes, CallersInv, AtShrink
<1>10. ASSUME NEW p \in Callers, Reset(p) PROVE TypeOK'
  BY <1>10 DEF Reset, Goes
<1>11. ASSUME NEW p \in Callers, IsEntityNearby(p) PROVE TypeOK'
  <2>1. addr[p] \in MACs
    BY <1>11 DEF IsEntityNearby, Goes, CallersInv, AtBody, Operations
  <2> QED BY <1>11, <2>1 DEF IsEntityNearby, Goes, shared
<1>12. ASSUME NEW p \in Callers, GetEntitiesNearby(p) PROVE TypeOK'
  <2>1. Live = nearby_count BY <1>12, Alone DEF GetEntitiesNearby, Goes
  <2>2. {nearby_entities[i] : i \in Listed} \in SUBSET MACs
    BY <2>1 DEF Listed, LiveDistinct
  <2> QED BY <1>12, <2>2 DEF GetEntitiesNearby, Goes, shared
<1>13. ASSUME NEW p \in Callers, Release(p) PROVE TypeOK'
  BY <1>13 DEF Release, Goes, shared
<1> QED BY <1>1, <1>2, <1>3, <1>4, <1>5, <1>6, <1>7, <1>8, <1>9, <1>10, <1>11,
           <1>12, <1>13 DEF Next, Body

(* Every step keeps the lock exclusive. *)
LEMMA LockKept ==
    ASSUME ListInv, [Next]_vars
    PROVE  Exclusive'
<1>1. CASE UNCHANGED vars BY <1>1 DEF vars, shared, ListInv, Exclusive, Inside
<1>2. ASSUME NEW p \in Callers, Call(p) PROVE Exclusive'
  <2>1. Inside' = Inside BY <1>2 DEF Call, Goes, Inside, ListInv, TypeOK
  <2> QED BY <1>2, <2>1 DEF Call, ListInv, Exclusive
<1>3. ASSUME NEW p \in Callers, Acquire(p) PROVE Exclusive'
  <2>1. Inside = {} BY <1>3 DEF Acquire, ListInv, Exclusive
  <2>2. op[p] \in Operations
    BY <1>3 DEF Acquire, Goes, ListInv, CallersInv, AtCall
  <2>3. Inside' = {p}
    BY <1>3, <2>1, <2>2 DEF Acquire, Goes, Inside, ListInv, TypeOK, Operations
  <2> QED BY <1>3, <2>3 DEF Acquire, Exclusive
<1>4. ASSUME NEW p \in Callers, Release(p) PROVE Exclusive'
  <2>1. pc[p] = "unlock" BY <1>4 DEF Release, Goes
  <2>2. \A q \in Callers : q # p => pc[q] \in {"idle", "spin"}
    BY <2>1, Alone DEF ListInv
  <2>3. Inside' = {}
    BY <1>4, <2>2 DEF Release, Goes, Inside, ListInv, TypeOK
  <2> QED BY <1>4, <2>3 DEF Release, Exclusive
<1>5. ASSUME NEW p \in Callers, Body(p), ~Release(p) PROVE Exclusive'
  <2>1. /\ pc[p] \notin {"idle", "spin"}
        /\ \E to \in {"grow", "shrink", "unlock"} : pc' = [pc EXCEPT ![p] = to]
        /\ nearby_lock' = nearby_lock
    BY <1>5 DEF Body, Register, RegisterNothing, Grow, Unregister,
                UnregisterNothing, Shrink, Reset, IsEntityNearby,
                GetEntitiesNearby, Goes, Operations
  <2>2. Inside' = Inside BY <2>1 DEF Inside, ListInv, TypeOK
  <2> QED BY <2>1, <2>2 DEF ListInv, Exclusive
<1> QED BY <1>1, <1>2, <1>3, <1>4, <1>5 DEF Next

(* A step that moves only p, and only inside, keeps what the others know. *)
LEMMA OthersKept ==
    ASSUME ListInv, TypeOK', NEW p \in Callers, pc[p] \notin {"idle", "spin"},
           NEW to, pc' = [pc EXCEPT ![p] = to], to \notin Operations,
           op' = op, addr' = addr,
           AtCall(p)', AtGrow(p)', AtShrink(p)'
    PROVE  CallersInv'
<1> SUFFICES ASSUME NEW q \in Callers
             PROVE  (AtCall(q) /\ AtBody(q) /\ AtGrow(q) /\ AtShrink(q))'
  BY DEF CallersInv
<1>1. CASE q = p BY <1>1 DEF AtBody, ListInv, TypeOK
<1>2. CASE q # p
  <2>1. pc[q] \in {"idle", "spin"} BY <1>2, Alone DEF ListInv
  <2>2. pc'[q] = pc[q] BY <1>2 DEF ListInv, TypeOK
  <2>3. AtCall(q) BY DEF ListInv, CallersInv
  <2> QED BY <2>1, <2>2, <2>3 DEF AtCall, AtBody, AtGrow, AtShrink, Operations
<1> QED BY <1>1, <1>2

(* Every step keeps what the callers know and the entries distinct. *)
LEMMA ListKept ==
    ASSUME ListInv, [Next]_vars
    PROVE  CallersInv' /\ LiveDistinct'
<1>t. TypeOK /\ TypeOK' /\ Exclusive /\ Exclusive'
  BY TypesKept, LockKept DEF ListInv
<1> USE LimitAssumption
<1>1. CASE UNCHANGED vars
  <2>1. Live' = Live BY <1>1 DEF vars, shared, Live
  <2> QED BY <1>1, <2>1 DEF vars, shared, ListInv, CallersInv, LiveDistinct,
                           AtCall, AtBody, AtGrow, AtShrink
<1>2. ASSUME NEW p \in Callers, Call(p) PROVE CallersInv' /\ LiveDistinct'
  <2>1. Live' = Live BY <1>2, <1>t DEF Call, Goes, shared, Live, TypeOK
  <2>2. LiveDistinct' BY <1>2, <2>1 DEF Call, shared, ListInv, LiveDistinct
  <2>3. ASSUME NEW q \in Callers
        PROVE  (AtCall(q) /\ AtBody(q) /\ AtGrow(q) /\ AtShrink(q))'
    <3>1. CASE q = p
      BY <3>1, <1>2, <1>t DEF Call, Goes, TypeOK, AtCall, AtBody, AtGrow,
                              AtShrink, Operations
    <3>2. CASE q # p
      <4>1. pc'[q] = pc[q] /\ op'[q] = op[q] /\ addr'[q] = addr[q]
        BY <3>2, <1>2, <1>t DEF Call, Goes, TypeOK
      <4>2. nearby_count' = nearby_count /\ nearby_entities' = nearby_entities
        BY <1>2 DEF Call, shared
      <4> QED BY <4>1, <4>2 DEF ListInv, CallersInv, AtCall, AtBody, AtGrow,
                                AtShrink
    <3> QED BY <3>1, <3>2
  <2> QED BY <2>2, <2>3 DEF CallersInv
<1>3. ASSUME NEW p \in Callers, Acquire(p) PROVE CallersInv' /\ LiveDistinct'
  <2>0. op[p] \in Operations /\ addr[p] \in MACs
    BY <1>3 DEF Acquire, Goes, ListInv, CallersInv, AtCall
  <2>1. Live' = Live
    BY <1>3, <1>t, <2>0 DEF Acquire, Goes, shared, Live, TypeOK, Operations
  <2>2. LiveDistinct' BY <1>3, <2>1 DEF Acquire, shared, ListInv, LiveDistinct
  <2>3. ASSUME NEW q \in Callers
        PROVE  (AtCall(q) /\ AtBody(q) /\ AtGrow(q) /\ AtShrink(q))'
    <3>1. CASE q = p
      BY <3>1, <1>3, <1>t, <2>0 DEF Acquire, Goes, TypeOK, AtCall, AtBody,
                                    AtGrow, AtShrink, Operations
    <3>2. CASE q # p
      <4>1. pc'[q] = pc[q] /\ op'[q] = op[q] /\ addr'[q] = addr[q]
        BY <3>2, <1>3, <1>t DEF Acquire, Goes, TypeOK
      <4>2. nearby_count' = nearby_count /\ nearby_entities' = nearby_entities
        BY <1>3 DEF Acquire, shared
      <4> QED BY <4>1, <4>2 DEF ListInv, CallersInv, AtCall, AtBody, AtGrow,
                                AtShrink
    <3> QED BY <3>1, <3>2
  <2> QED BY <2>2, <2>3 DEF CallersInv
<1>4. ASSUME NEW p \in Callers, Register(p) PROVE CallersInv' /\ LiveDistinct'
  <2>1. pc[p] = "register" /\ pc'[p] = "grow" /\ op[p] = "register" /\ addr[p] \in MACs
    BY <1>4, <1>t DEF Register, Goes, TypeOK, ListInv, CallersInv, AtBody, Operations
  <2>2. Live = nearby_count /\ Live' = nearby_count
    BY <1>4, <1>t, <2>1, Alone, AloneAfter DEF Register
  <2>3. nearby_count \in Slots /\ nearby_count \in Nat
    BY <1>4, <1>t DEF Register, TypeOK, Slots
  <2>4. \A i \in 0 .. nearby_count - 1 : nearby_entities'[i] = nearby_entities[i]
    BY <1>4, <1>t, <2>3 DEF Register, TypeOK, Slots
  <2>5. LiveDistinct'
    BY <2>2, <2>4 DEF ListInv, LiveDistinct
  <2>6. AtGrow(p)'
    BY <1>4, <1>t, <2>1, <2>3, <2>4 DEF Register, TypeOK, AtGrow, Exists, Listed
  <2>7. AtCall(p)' /\ AtShrink(p)' BY <2>1 DEF AtCall, AtShrink
  <2>8. CallersInv'
    BY <1>4, <1>t, <2>1, <2>6, <2>7, OthersKept DEF Register, Goes, Operations
  <2> QED BY <2>5, <2>8
<1>5. ASSUME NEW p \in Callers, Grow(p) PROVE CallersInv' /\ LiveDistinct'
  <2>1. pc[p] = "grow" /\ pc'[p] = "unlock" BY <1>5, <1>t DEF Grow, Goes, TypeOK
  <2>2. Live = nearby_count /\ Live' = nearby_count + 1
    BY <1>5, <1>t, <2>1, Alone, AloneAfter DEF Grow
  <2>3. AtGrow(p) /\ nearby_count \in Nat
    BY <1>t DEF ListInv, CallersInv, TypeOK
  <2>4. LiveDistinct'
    BY <1>5, <2>1, <2>2, <2>3 DEF Grow, ListInv, LiveDistinct, AtGrow
  <2>5. AtCall(p)' /\ AtGrow(p)' /\ AtShrink(p)'
    BY <2>1 DEF AtCall, AtGrow, AtShrink
  <2>6. CallersInv'
    BY <1>5, <1>t, <2>1, <2>5, OthersKept DEF Grow, Goes, Operations
  <2> QED BY <2>4, <2>6
<1>6. ASSUME NEW p \in Callers, Unregister(p) PROVE CallersInv' /\ LiveDistinct'
  <2>1. pc[p] = "unregister" /\ pc'[p] = "shrink"
    BY <1>6, <1>t DEF Unregister, Goes, TypeOK
  <2>2. Live = nearby_count /\ Live' = nearby_count - 1
    BY <1>6, <1>t, <2>1, Alone, AloneAfter DEF Unregister
  <2>3. PICK i \in Listed :
            nearby_entities' =
                [nearby_entities EXCEPT ![i] = nearby_entities[nearby_count - 1]]
    BY <1>6 DEF Unregister
  <2>4. nearby_count \in Nat /\ nearby_count <= MAX_NEARBY_ENTITIES /\ nearby_count > 0
    BY <1>t, <2>3 DEF TypeOK, Listed
  <2>5. \A j \in 0 .. nearby_count - 1 :
            nearby_entities'[j] = IF j = i THEN nearby_entities[nearby_count - 1]
                                           ELSE nearby_entities[j]
    BY <1>t, <2>3, <2>4 DEF TypeOK, Slots, Listed
  <2>6. LiveDistinct'
    BY <2>2, <2>4, <2>5 DEF ListInv, LiveDistinct, Listed
  <2>7. AtCall(p)' /\ AtGrow(p)' /\ AtShrink(p)'
    BY <1>6, <2>1, <2>4 DEF Unregister, AtCall, AtGrow, AtShrink
  <2>8. CallersInv'
    BY <1>6, <1>t, <2>1, <2>7, OthersKept DEF Unregister, Goes, Operations
  <2> QED BY <2>6, <2>8
<1>7. ASSUME NEW p \in Callers, Shrink(p) PROVE CallersInv' /\ LiveDistinct'
  <2>1. pc[p] = "shrink" /\ pc'[p] = "unlock"
    BY <1>7, <1>t DEF Shrink, Goes, TypeOK
  <2>2. Live' = Live
    BY <1>7, <1>t, <2>1, Alone, AloneAfter DEF Shrink
  <2>3. LiveDistinct' BY <1>7, <2>2 DEF Shrink, ListInv, LiveDistinct
  <2>4. AtCall(p)' /\ AtGrow(p)' /\ AtShrink(p)'
    BY <2>1 DEF AtCall, AtGrow, AtShrink
  <2>5. CallersInv'
    BY <1>7, <1>t, <2>1, <2>4, OthersKept DEF Shrink, Goes, Operations
  <2> QED BY <2>3, <2>5
<1>8. ASSUME NEW p \in Callers,
             \/ RegisterNothing(p) \/ UnregisterNothing(p) \/ Reset(p)
             \/ IsEntityNearby(p) \/ GetEntitiesNearby(p)
      PROVE  CallersInv' /\ LiveDistinct'
  <2>1. /\ pc[p] \in Operations /\ pc' = [pc EXCEPT ![p] = "unlock"]
        /\ op' = op /\ addr' = addr
        /\ nearby_entities' = nearby_entities
        /\ nearby_count' \in {0, nearby_count}
    BY <1>8 DEF RegisterNothing, UnregisterNothing, Reset, IsEntityNearby,
                GetEntitiesNearby, Goes, shared, Operations
  <2>2. pc'[p] = "unlock" BY <2>1, <1>t DEF TypeOK
  <2>3. Live = nearby_count /\ Live' = nearby_count'
    BY <1>t, <2>1, <2>2, Alone, AloneAfter DEF Operations
  <2>4. LiveDistinct'
    <3>1. CASE nearby_count' = nearby_count
      <4>1. Live' = Live BY <2>3, <3>1
      <4> QED BY <2>1, <4>1 DEF ListInv, LiveDistinct
    <3>2. CASE nearby_count' = 0
      <4>1. Live' = 0 BY <2>3, <3>2
      <4>2. 0 .. Live' - 1 = {} BY <4>1
      <4> QED BY <4>2 DEF LiveDistinct
    <3> QED BY <2>1, <3>1, <3>2
  <2>5. AtCall(p)' /\ AtGrow(p)' /\ AtShrink(p)'
    BY <2>2 DEF AtCall, AtGrow, AtShrink
  <2>6. CallersInv'
    BY <1>t, <2>1, <2>5, OthersKept DEF Operations
  <2> QED BY <2>4, <2>6
<1>9. ASSUME NEW p \in Callers, Release(p) PROVE CallersInv' /\ LiveDistinct'
  <2>1. pc[p] = "unlock" /\ pc'[p] = "idle"
    BY <1>9, <1>t DEF Release, Goes, TypeOK
  <2>2. ~nearby_lock' BY <1>9 DEF Release
  <2>3. Live = nearby_count /\ Live' = nearby_count
    BY <1>9, <1>t, <2>1, <2>2, Alone, AllLiveAfter DEF Release, shared
  <2>4. LiveDistinct' BY <1>9, <2>3 DEF Release, shared, ListInv, LiveDistinct
  <2>5. ASSUME NEW q \in Callers
        PROVE  (AtCall(q) /\ AtBody(q) /\ AtGrow(q) /\ AtShrink(q))'
    <3>1. CASE q = p
      BY <3>1, <2>1 DEF AtCall, AtBody, AtGrow, AtShrink, Operations
    <3>2. CASE q # p
      <4>1. pc'[q] = pc[q] /\ op'[q] = op[q] /\ addr'[q] = addr[q]
        BY <3>2, <1>9, <1>t DEF Release, Goes, TypeOK
      <4>2. nearby_count' = nearby_count /\ nearby_entities' = nearby_entities
        BY <1>9 DEF Release, shared
      <4> QED BY <4>1, <4>2 DEF ListInv, CallersInv, AtCall, AtBody, AtGrow,
                                AtShrink
    <3> QED BY <3>1, <3>2
  <2> QED BY <2>4, <2>5 DEF CallersInv
<1> QED BY <1>1, <1>2, <1>3, <1>4, <1>5, <1>6, <1>7, <1>8, <1>9 DEF Next, Body

(* The invariant of the list. *)
THEOREM ListInvariant == Spec => []ListInv
<1>1. Init => ListInv BY ListInit
<1>2. ListInv /\ [Next]_vars => ListInv'
  BY TypesKept, LockKept, ListKept DEF ListInv
<1> QED BY <1>1, <1>2, PTL DEF Spec

(* register, unregister and reset stay within the array, whatever the size *)
(* of it and the number of threads.                                        *)
THEOREM ListTypes == Spec => []TypeOK
<1>1. ListInv => TypeOK BY DEF ListInv
<1> QED BY <1>1, ListInvariant, PTL

(* The spin lock of the list excludes. *)
THEOREM LockExcludes == Spec => []Exclusive
<1>1. ListInv => Exclusive BY DEF ListInv
<1> QED BY <1>1, ListInvariant, PTL

(* No address is listed twice while the lock is free. *)
THEOREM ListedOnce == Spec => []NoDuplicates
<1>1. ListInv => NoDuplicates
  <2> SUFFICES ASSUME ListInv, ~nearby_lock
               PROVE  \A i, j \in Listed :
                          nearby_entities[i] = nearby_entities[j] => i = j
    BY DEF NoDuplicates
  <2>1. Live = nearby_count BY AllLive DEF ListInv
  <2> QED BY <2>1 DEF ListInv, LiveDistinct, Listed
<1> QED BY <1>1, ListInvariant, PTL

-----------------------------------------------------------------------------
(***************************************************************************)
(* The list implements the set.                                            *)
(***************************************************************************)

(* The live entries are as many as the entities. *)
LEMMA LiveCount ==
    ASSUME ListInv
    PROVE  Live \in Nat /\ Cardinality(Entities) = Live
<1>1. Live \in Nat
  BY LimitAssumption DEF ListInv, TypeOK, Live, CallersInv, AtShrink
<1> DEFINE f == [i \in 0 .. Live - 1 |-> nearby_entities[i]]
<1>2. f \in Injection(0 .. Live - 1, Entities)
  <2>1. f \in [0 .. Live - 1 -> Entities] BY DEF Entities
  <2>2. \A i, j \in 0 .. Live - 1 : f[i] = f[j] => i = j BY DEF ListInv, LiveDistinct
  <2> QED BY <2>1, <2>2 DEF Injection, IsInjective
<1>3. f \in Surjection(0 .. Live - 1, Entities)
  <2>1. f \in [0 .. Live - 1 -> Entities] BY DEF Entities
  <2>2. \A e \in Entities : \E i \in 0 .. Live - 1 : f[i] = e BY DEF Entities
  <2> QED BY <2>1, <2>2 DEF Surjection
<1>4. ExistsBijection(0 .. Live - 1, Entities)
  BY <1>2, <1>3 DEF Bijection, ExistsBijection
<1>5. IsFiniteSet(0 .. Live - 1) /\ Cardinality(0 .. Live - 1) = Live
  BY <1>1, FS_Interval
<1> QED BY <1>1, <1>4, <1>5, FS_Bijection

(* The set counts with the same Cardinality. *)
LEMMA SameCount == \A S : Set!Cardinality(S) = Cardinality(S)
BY DEF Set!Cardinality, Cardinality

(* The list starts as the empty set, with nobody in an operation. *)
LEMMA SetStarts == Init => Set!SetInit
<1> SUFFICES ASSUME Init PROVE Set!SetInit OBVIOUS
<1>1. Live = 0 BY DEF Live, Init
<1>2. Entities = {} BY <1>1 DEF Entities
<1>3. \A p \in Callers : Phase(p) = "idle" BY DEF Init, Phase
<1> QED BY <1>2, <1>3 DEF Init, Set!SetInit

(* The phases of the other callers do not move. *)
LEMMA PhaseMoves ==
    ASSUME TypeOK, NEW p \in Callers, NEW to, pc' = [pc EXCEPT ![p] = to]
    PROVE  /\ pc'[p] = to
           /\ [q \in Callers |-> Phase(q)]' =
                  [[q \in Callers |-> Phase(q)] EXCEPT ![p] = Phase(p)']
<1>1. pc'[p] = to /\ \A q \in Callers : q # p => pc'[q] = pc[q] BY DEF TypeOK
<1>2. \A q \in Callers : q # p => Phase(q)' = Phase(q) BY <1>1 DEF Phase
<1> QED BY <1>1, <1>2

(* A step that performs the pending operation. *)
LEMMA Performs ==
    ASSUME TypeOK, NEW p \in Callers, NEW to \in {"unlock", "shrink"},
           pc[p] \in Operations \cup {"grow"}, pc' = [pc EXCEPT ![p] = to],
           op' = op, addr' = addr,
           Entities' = Set!Updated(op[p], addr[p]),
           result' = [result EXCEPT ![p] = Set!Answered(op[p], addr[p], result[p])]
    PROVE  Set!SetNext
<1>1. Phase(p) = "pending" BY DEF Phase, Operations
<1>2. pc'[p] = to /\ [q \in Callers |-> Phase(q)]' =
                         [[q \in Callers |-> Phase(q)] EXCEPT ![p] = Phase(p)']
  BY PhaseMoves
<1>3. Phase(p)' = "done" BY <1>2 DEF Phase
<1>4. Set!Effect(p) BY <1>1, <1>2, <1>3 DEF Set!Effect
<1> QED BY <1>4 DEF Set!SetNext

(* Every step of the list is a step of the set or changes nothing of it. *)
LEMMA SetStep ==
    ASSUME ListInv, ListInv', [Next]_vars
    PROVE  [Set!SetNext]_(Set!setVars)
<1>t. TypeOK /\ Exclusive /\ TypeOK' /\ Exclusive' BY DEF ListInv
<1> USE LimitAssumption
<1> DEFINE phases == [q \in Callers |-> Phase(q)]
<1>1. CASE UNCHANGED vars
  BY <1>1 DEF vars, shared, Set!setVars, Entities, Live, Phase
<1>2. ASSUME NEW p \in Callers, Call(p) PROVE Set!SetNext
  <2>1. Live' = Live BY <1>2, <1>t DEF Call, Goes, shared, Live, TypeOK
  <2>2. Entities' = Entities BY <1>2, <2>1 DEF Call, shared, Entities
  <2>3. pc'[p] = "spin" /\ phases' = [phases EXCEPT ![p] = Phase(p)']
    BY <1>2, <1>t, PhaseMoves DEF Call, Goes
  <2>4. Phase(p) = "idle" /\ Phase(p)' = "pending"
    BY <1>2, <2>3 DEF Call, Goes, Phase
  <2>5. Set!Invoke(p)
    BY <1>2, <2>2, <2>3, <2>4 DEF Call, Set!Invoke, Set!Requests, Operations
  <2> QED BY <2>5 DEF Set!SetNext
<1>3. ASSUME NEW p \in Callers, Acquire(p) PROVE UNCHANGED Set!setVars
  <2>1. op[p] \in Operations
    BY <1>3 DEF Acquire, Goes, ListInv, CallersInv, AtCall
  <2>2. Live' = Live
    BY <1>3, <1>t, <2>1 DEF Acquire, Goes, shared, Live, TypeOK, Operations
  <2>3. Entities' = Entities BY <1>3, <2>2 DEF Acquire, shared, Entities
  <2>4. pc'[p] = op[p] /\ phases' = [phases EXCEPT ![p] = Phase(p)']
    BY <1>3, <1>t, PhaseMoves DEF Acquire, Goes
  <2>5. Phase(p) = "pending" /\ Phase(p)' = "pending"
    BY <1>3, <2>1, <2>4 DEF Acquire, Goes, Phase, Operations
  <2>6. phases' = phases BY <2>4, <2>5
  <2> QED BY <1>3, <2>3, <2>6 DEF Acquire, Set!setVars
<1>4. ASSUME NEW p \in Callers, Register(p) PROVE UNCHANGED Set!setVars
  <2>1. pc'[p] = "grow" /\ phases' = [phases EXCEPT ![p] = Phase(p)']
    BY <1>4, <1>t, PhaseMoves DEF Register, Goes
  <2>2. Phase(p) = "pending" /\ Phase(p)' = "pending"
    BY <1>4, <2>1 DEF Register, Goes, Phase
  <2>3. Live = nearby_count /\ Live' = nearby_count
    BY <1>4, <1>t, <2>1, Alone, AloneAfter DEF Register, Goes
  <2>4. \A i \in 0 .. nearby_count - 1 : nearby_entities'[i] = nearby_entities[i]
    BY <1>4, <1>t DEF Register, TypeOK, Slots
  <2>5. Entities' = Entities BY <2>3, <2>4 DEF Entities
  <2>6. phases' = phases BY <2>1, <2>2
  <2> QED BY <1>4, <2>5, <2>6 DEF Register, Set!setVars
<1>5. ASSUME NEW p \in Callers, Shrink(p) PROVE UNCHANGED Set!setVars
  <2>1. pc'[p] = "unlock" /\ phases' = [phases EXCEPT ![p] = Phase(p)']
    BY <1>5, <1>t, PhaseMoves DEF Shrink, Goes
  <2>2. Phase(p) = "done" /\ Phase(p)' = "done"
    BY <1>5, <2>1 DEF Shrink, Goes, Phase
  <2>3. Live' = Live
    BY <1>5, <1>t, <2>1, Alone, AloneAfter DEF Shrink, Goes
  <2>4. Entities' = Entities BY <1>5, <2>3 DEF Shrink, Entities
  <2>5. phases' = phases BY <2>1, <2>2
  <2> QED BY <1>5, <2>4, <2>5 DEF Shrink, Set!setVars
<1>6. ASSUME NEW p \in Callers, Release(p) PROVE Set!SetNext
  <2>1. pc'[p] = "idle" /\ phases' = [phases EXCEPT ![p] = Phase(p)']
    BY <1>6, <1>t, PhaseMoves DEF Release, Goes
  <2>2. Phase(p) = "done" /\ Phase(p)' = "idle"
    BY <1>6, <2>1 DEF Release, Goes, Phase
  <2>3. Live = nearby_count /\ Live' = nearby_count
    BY <1>6, <1>t, Alone, AllLiveAfter DEF Release, Goes, shared
  <2>4. Entities' = Entities BY <1>6, <2>3 DEF Release, shared, Entities
  <2>5. Set!Return(p) BY <1>6, <2>1, <2>2, <2>4 DEF Release, Set!Return
  <2> QED BY <2>5 DEF Set!SetNext
<1>7. ASSUME NEW p \in Callers, Grow(p) PROVE Set!SetNext
  <2>1. pc[p] = "grow" /\ pc'[p] = "unlock" BY <1>7, <1>t DEF Grow, Goes, TypeOK
  <2>2. Live = nearby_count /\ Live' = nearby_count + 1
    BY <1>7, <1>t, <2>1, Alone, AloneAfter DEF Grow
  <2>3. AtGrow(p) BY DEF ListInv, CallersInv
  <2>4. Entities' = Entities \cup {addr[p]}
    BY <1>7, <1>t, <2>1, <2>2, <2>3 DEF Grow, Entities, AtGrow, TypeOK
  <2>5. Cardinality(Entities) < MAX_NEARBY_ENTITIES
    BY <2>1, <2>2, <2>3, LiveCount DEF AtGrow
  <2>6. op[p] = "register" BY <2>1, <2>3 DEF AtGrow
  <2>7. Entities' = Set!Updated(op[p], addr[p])
    BY <2>4, <2>5, <2>6, SameCount DEF Set!Updated
  <2>8. result' = [result EXCEPT ![p] = Set!Answered(op[p], addr[p], result[p])]
    BY <1>7, <1>t, <2>6 DEF Grow, Set!Answered, TypeOK
  <2> QED BY <1>7, <1>t, <2>1, <2>7, <2>8, Performs DEF Grow, Goes
<1>8. ASSUME NEW p \in Callers, Unregister(p) PROVE Set!SetNext
  <2>1. pc[p] = "unregister" /\ pc'[p] = "shrink" /\ op[p] = "unregister"
    BY <1>8, <1>t DEF Unregister, Goes, TypeOK, ListInv, CallersInv, AtBody, Operations
  <2>2. Live = nearby_count /\ Live' = nearby_count - 1
    BY <1>8, <1>t, <2>1, Alone, AloneAfter DEF Unregister
  <2>3. PICK i \in Listed :
            /\ nearby_entities[i] = addr[p]
            /\ nearby_entities' =
                  [nearby_entities EXCEPT ![i] = nearby_entities[nearby_count - 1]]
    BY <1>8 DEF Unregister
  <2>4. nearby_count \in Nat /\ nearby_count <= MAX_NEARBY_ENTITIES /\ nearby_count > 0
    BY <1>t, <2>3 DEF TypeOK, Listed
  <2>5. \A j \in 0 .. nearby_count - 1 :
            nearby_entities'[j] = IF j = i THEN nearby_entities[nearby_count - 1]
                                           ELSE nearby_entities[j]
    BY <1>t, <2>3, <2>4 DEF TypeOK, Slots, Listed
  <2>6. \A j, k \in 0 .. nearby_count - 1 :
            nearby_entities[j] = nearby_entities[k] => j = k
    BY <2>2 DEF ListInv, LiveDistinct
  <2>7. Entities' \subseteq Entities \ {addr[p]}
    BY <2>2, <2>3, <2>4, <2>5, <2>6 DEF Entities, Listed
  <2>8. ASSUME NEW e \in Entities, e # addr[p] PROVE e \in Entities'
    <3>1. PICK j \in 0 .. nearby_count - 1 : e = nearby_entities[j]
      BY <2>2 DEF Entities
    <3>2. j # i BY <3>1, <2>3, <2>8
    <3>3. CASE j = nearby_count - 1
      BY <3>1, <3>2, <3>3, <2>2, <2>4, <2>5 DEF Entities, Listed
    <3>4. CASE j # nearby_count - 1
      BY <3>1, <3>2, <3>4, <2>2, <2>4, <2>5 DEF Entities
    <3> QED BY <3>3, <3>4
  <2>9. Entities' = Set!Updated(op[p], addr[p])
    BY <2>1, <2>7, <2>8 DEF Set!Updated
  <2>10. result' = [result EXCEPT ![p] = Set!Answered(op[p], addr[p], result[p])]
    BY <1>8, <1>t, <2>1 DEF Unregister, Set!Answered, TypeOK
  <2> QED BY <1>8, <1>t, <2>1, <2>9, <2>10, Performs DEF Unregister, Goes, Operations
<1>9. ASSUME NEW p \in Callers,
             \/ RegisterNothing(p) \/ UnregisterNothing(p) \/ Reset(p)
             \/ IsEntityNearby(p) \/ GetEntitiesNearby(p)
      PROVE  Set!SetNext
  <2>1. /\ pc[p] \in Operations /\ pc' = [pc EXCEPT ![p] = "unlock"]
        /\ op' = op /\ addr' = addr
        /\ nearby_entities' = nearby_entities
    BY <1>9 DEF RegisterNothing, UnregisterNothing, Reset, IsEntityNearby,
                GetEntitiesNearby, Goes, shared, Operations
  <2>2. pc'[p] = "unlock" /\ op[p] = pc[p]
    BY <2>1, <1>t DEF TypeOK, ListInv, CallersInv, AtBody
  <2>3. Live = nearby_count /\ Live' = nearby_count'
    BY <1>t, <2>1, <2>2, Alone, AloneAfter DEF Operations
  <2>4. Exists(p) <=> addr[p] \in Entities
    BY <2>3 DEF Exists, Listed, Entities
  <2>5. CASE RegisterNothing(p)
    <3>1. op[p] = "register" BY <2>2, <2>5 DEF RegisterNothing, Goes
    <3>2. Entities' = Entities BY <2>1, <2>3, <2>5 DEF RegisterNothing, shared, Entities
    <3>3. addr[p] \in Entities \/ ~(Cardinality(Entities) < MAX_NEARBY_ENTITIES)
      BY <2>3, <2>4, <2>5, <1>t, LiveCount DEF RegisterNothing, TypeOK
    <3>4. Entities' = Set!Updated(op[p], addr[p])
      BY <3>1, <3>2, <3>3, SameCount DEF Set!Updated
    <3>5. result' = [result EXCEPT ![p] = Set!Answered(op[p], addr[p], result[p])]
      BY <3>1, <2>5, <1>t DEF RegisterNothing, Set!Answered, TypeOK
    <3> QED BY <1>t, <2>1, <3>4, <3>5, Performs
  <2>6. CASE UnregisterNothing(p)
    <3>1. op[p] = "unregister" BY <2>2, <2>6 DEF UnregisterNothing, Goes
    <3>2. Entities' = Entities
      BY <2>1, <2>3, <2>6 DEF UnregisterNothing, shared, Entities
    <3>3. addr[p] \notin Entities BY <2>4, <2>6 DEF UnregisterNothing
    <3>4. Entities' = Set!Updated(op[p], addr[p])
      BY <3>1, <3>2, <3>3 DEF Set!Updated
    <3>5. result' = [result EXCEPT ![p] = Set!Answered(op[p], addr[p], result[p])]
      BY <3>1, <2>6, <1>t DEF UnregisterNothing, Set!Answered, TypeOK
    <3> QED BY <1>t, <2>1, <3>4, <3>5, Performs
  <2>7. CASE Reset(p)
    <3>1. op[p] = "reset" BY <2>2, <2>7 DEF Reset, Goes
    <3>2. Entities' = {} BY <2>3, <2>7 DEF Reset, Entities
    <3>4. Entities' = Set!Updated(op[p], addr[p])
      BY <3>1, <3>2 DEF Set!Updated
    <3>5. result' = [result EXCEPT ![p] = Set!Answered(op[p], addr[p], result[p])]
      BY <3>1, <2>7, <1>t DEF Reset, Set!Answered, TypeOK
    <3> QED BY <1>t, <2>1, <3>4, <3>5, Performs
  <2>8. CASE IsEntityNearby(p)
    <3>1. op[p] = "is_nearby" BY <2>2, <2>8 DEF IsEntityNearby, Goes
    <3>2. Entities' = Entities
      BY <2>1, <2>3, <2>8 DEF IsEntityNearby, shared, Entities
    <3>4. Entities' = Set!Updated(op[p], addr[p])
      BY <3>1, <3>2 DEF Set!Updated
    <3>5. Entities \cap {addr[p]} = IF Exists(p) THEN {addr[p]} ELSE {} BY <2>4
    <3>6. result' = [result EXCEPT ![p] = Set!Answered(op[p], addr[p], result[p])]
      BY <3>1, <3>5, <2>8 DEF IsEntityNearby, Set!Answered
    <3> QED BY <1>t, <2>1, <3>4, <3>6, Performs
  <2>9. CASE GetEntitiesNearby(p)
    <3>1. op[p] = "get" BY <2>2, <2>9 DEF GetEntitiesNearby, Goes
    <3>2. Entities' = Entities
      BY <2>1, <2>3, <2>9 DEF GetEntitiesNearby, shared, Entities
    <3>4. Entities' = Set!Updated(op[p], addr[p])
      BY <3>1, <3>2 DEF Set!Updated
    <3>5. Entities = {nearby_entities[i] : i \in Listed} BY <2>3 DEF Entities, Listed
    <3>6. result' = [result EXCEPT ![p] = Set!Answered(op[p], addr[p], result[p])]
      BY <3>1, <3>5, <2>9 DEF GetEntitiesNearby, Set!Answered
    <3> QED BY <1>t, <2>1, <3>4, <3>6, Performs
  <2> QED BY <1>9, <2>5, <2>6, <2>7, <2>8, <2>9
<1> QED BY <1>1, <1>2, <1>3, <1>4, <1>5, <1>6, <1>7, <1>8, <1>9 DEF Next, Body

(* register, unregister, reset and the two queries behave as the           *)
(* operations of a bounded set, each at one instant between its call and   *)
(* its return, for every limit and any number of threads.                  *)
THEOREM ListImplementsSet == Spec => ImplementsSet
<1>1. Init => Set!SetInit BY SetStarts
<1>2. ListInv /\ ListInv' /\ [Next]_vars => [Set!SetNext]_(Set!setVars)
  BY SetStep
<1> QED BY <1>1, <1>2, ListInvariant, PTL DEF Spec, ImplementsSet, Set!SetSpec
=============================================================================
