-------------------------- MODULE GroupLeaderProofs -------------------------
(***************************************************************************)
(* The membership timers of the group leader, for any number of members    *)
(* and any timeout: types in every case, and until a member joins while    *)
(* its own removal is under way, the two maps agree and nobody expires     *)
(* early.                                                                  *)
(***************************************************************************)
EXTENDS GroupLeader, TLAPS

(* Node numbers are unique and have been given out. *)
NodesUnique ==
    /\ \A n \in clients_timeout : n.node <= nodes
    /\ \A n, m \in clients_timeout : n.node = m.node => n = m

(* A timer runs from the last JOIN of its member. *)
TimersFresh == \A n \in clients_timeout : n.expiry = joined[n.client] + TIMEOUT

(* The timer the monitor works on is in the multimap, *)
IteratorLive == mpc \in {"send", "lock"} => it \in clients_timeout

(* and it is due. *)
IteratorDue == mpc \in {"send", "lock"} => it.expiry <= mnow

(* The timers and what is known about them. *)
TimersInv == MapsAgree /\ NodesUnique /\ TimersFresh

LeaderCore == TimersInv /\ IteratorLive /\ IteratorDue

LeaderInv == TypeOK /\ (~rejoined => LeaderCore)

(* A leader starts with no timer. *)
LEMMA LeaderInit == Init => LeaderInv
<1> SUFFICES ASSUME Init PROVE LeaderInv OBVIOUS
<1> USE TimesAssumption
<1>1. TypeOK BY DEF Init, TypeOK, Timer
<1>2. MapsAgree BY DEF Init, MapsAgree
<1>3. NodesUnique /\ TimersFresh BY DEF Init, NodesUnique, TimersFresh
<1>4. IteratorLive /\ IteratorDue BY DEF Init, IteratorLive, IteratorDue
<1> QED BY <1>1, <1>2, <1>3, <1>4 DEF LeaderInv, LeaderCore, TimersInv

(* Where the monitor stands after a pass through the outer loop. *)
LEMMA LoopTypes ==
    ASSUME TypeOK, NEW t \in SUBSET Timer, Loop(t)
    PROVE  /\ mpc' \in {"wait", "wait_until", "off"}
           /\ earliest' \in Nat /\ it' = Nowhere
<1>1. mpc' \in {"wait", "wait_until", "off"} BY DEF Loop
<1>2. earliest' \in Nat BY DEF Loop, Timer
<1> QED BY <1>1, <1>2 DEF Loop

(* A pass through the inner loop leaves the monitor at a timer of t that   *)
(* is due, or out of the loop.                                             *)
LEMMA ExpireTypes ==
    ASSUME TypeOK, NEW t \in SUBSET Timer, NEW time \in Nat, Expire(t, time)
    PROVE  /\ mpc' \in {"wait", "wait_until", "send", "off"} /\ earliest' \in Nat
           /\ it' \in Timer \cup {Nowhere}
           /\ mpc' = "send" => it' \in t /\ it'.expiry <= time
<1>1. CASE \E n \in t : /\ IsFirst(n, t) /\ n.expiry <= time
                        /\ it' = n /\ mpc' = "send" /\ earliest' = 0
  BY <1>1
<1>2. CASE (\A n \in t : n.expiry > time) /\ Loop(t)
  BY <1>2, LoopTypes
<1> QED BY <1>1, <1>2 DEF Expire

(* The timers heartbeat_update erases are exactly those of its member. *)
LEMMA ErasesOwn ==
    ASSUME TypeOK, TimersInv, ~rejoined, NEW n \in clients_timeout
    PROVE  n.node = client_lookup[from] <=> n.client = from
<1> USE DEF TypeOK, Timer
<1>1. n.client = from => n.node = client_lookup[from]
  BY DEF TimersInv, MapsAgree
<1>2. ASSUME n.node = client_lookup[from] PROVE n.client = from
  <2>1. client_lookup[from] # 0 BY <1>2
  <2>2. PICK m \in clients_timeout : m.client = from
    BY <2>1 DEF TimersInv, MapsAgree
  <2>3. m.node = n.node BY <1>2, <2>2 DEF TimersInv, MapsAgree
  <2>4. m = n BY <2>3 DEF TimersInv, NodesUnique
  <2> QED BY <2>2, <2>4
<1> QED BY <1>1, <1>2

(* heartbeat_update keeps the maps in step. *)
LEMMA HeartbeatKeeps ==
    ASSUME TypeOK, LeaderCore, HeartbeatUpdate, ~rejoined, ~rejoined'
    PROVE  LeaderCore'
<1> DEFINE node == [node |-> nodes + 1, client |-> from, expiry |-> now + TIMEOUT]
           others == {n \in clients_timeout : n.client # from}
<1>0. TypeOK /\ TimersInv BY DEF LeaderCore
<1> USE TimesAssumption
<1>1. clients_timeout' = others \cup {node}
  BY <1>0, ErasesOwn DEF HeartbeatUpdate
<1>2. /\ client_lookup' = [client_lookup EXCEPT ![from] = nodes + 1]
      /\ joined' = [joined EXCEPT ![from] = now]
      /\ nodes' = nodes + 1 /\ mpc' = mpc /\ it' = it /\ mnow' = mnow
  BY DEF HeartbeatUpdate
<1>3. node \in Timer BY <1>0 DEF TypeOK, Timer
<1>5. MapsAgree'
  <2>1. \A n \in clients_timeout' : client_lookup'[n.client] = n.node
    BY <1>0, <1>1, <1>2 DEF TypeOK, TimersInv, MapsAgree, Timer
  <2>2. ASSUME NEW c \in Members, client_lookup'[c] # 0
        PROVE  \E n \in clients_timeout' : n.client = c
    <3>1. CASE c = from
      <4>1. node \in clients_timeout' /\ node.client = from BY <1>1
      <4> QED BY <4>1, <3>1
    <3>2. CASE c # from
      <4>1. client_lookup[c] # 0 BY <3>2, <2>2, <1>0, <1>2 DEF TypeOK
      <4> QED BY <4>1, <3>2, <1>0, <1>1 DEF TimersInv, MapsAgree
    <3> QED BY <3>1, <3>2
  <2> QED BY <2>1, <2>2 DEF MapsAgree
<1>6. NodesUnique'
  <2>1. \A n \in others : n.node <= nodes /\ n.node \in Nat
    BY <1>0 DEF TimersInv, NodesUnique, TypeOK, Timer
  <2>2. \A n, m \in others : n.node = m.node => n = m
    BY <1>0 DEF TimersInv, NodesUnique
  <2>3. nodes \in Nat BY <1>0 DEF TypeOK
  <2> QED BY <1>1, <1>2, <2>1, <2>2, <2>3 DEF NodesUnique
<1>7. TimersFresh'
  <2>1. \A n \in others : n.expiry = joined'[n.client] + TIMEOUT
    BY <1>0, <1>2 DEF TimersInv, TimersFresh, TypeOK, Timer
  <2>2. node.expiry = joined'[from] + TIMEOUT BY <1>0, <1>2 DEF TypeOK
  <2> QED BY <1>1, <2>1, <2>2 DEF TimersFresh
<1>8. IteratorLive' /\ IteratorDue'
  <2> SUFFICES ASSUME mpc \in {"send", "lock"}
               PROVE  it \in clients_timeout' /\ it.expiry <= mnow
    BY <1>2 DEF IteratorLive, IteratorDue
  <2>1. it \in clients_timeout /\ it.expiry <= mnow
    BY DEF LeaderCore, IteratorLive, IteratorDue
  <2>2. it.client # from BY DEF HeartbeatUpdate, UnderRemoval
  <2> QED BY <1>1, <2>1, <2>2
<1> QED BY <1>5, <1>6, <1>7, <1>8 DEF LeaderCore, TimersInv

(* The monitor keeps the maps in step when it removes a member. *)
LEMMA RemovalKeeps ==
    ASSUME TypeOK, LeaderCore, RemoveClient, ~rejoined, ~rejoined'
    PROVE  LeaderCore'
<1>0. TypeOK /\ TimersInv BY DEF LeaderCore
<1> USE TimesAssumption
<1>1. it \in clients_timeout BY DEF LeaderCore, IteratorLive, RemoveClient
<1>2. clients_timeout' = clients_timeout \ {it} BY <1>1 DEF RemoveClient, Erased
<1>3. /\ client_lookup' = [client_lookup EXCEPT ![it.client] = 0]
      /\ joined' = joined /\ nodes' = nodes /\ mnow' = mnow
  BY DEF RemoveClient
<1>4. it.client \in Members /\ mnow \in Nat /\ clients_timeout' \in SUBSET Timer
  BY <1>0, <1>1, <1>2 DEF TypeOK, Timer
<1>5. \A n \in clients_timeout' : n.client # it.client
  <2>1. \A n \in clients_timeout : n.client = it.client => n.node = it.node
    BY <1>0, <1>1 DEF TimersInv, MapsAgree
  <2> QED BY <1>0, <1>1, <1>2, <2>1 DEF TimersInv, NodesUnique
<1>6. /\ mpc' \in {"wait", "wait_until", "send", "off"} /\ earliest' \in Nat
      /\ it' \in Timer \cup {Nowhere}
      /\ mpc' = "send" => it' \in clients_timeout' /\ it'.expiry <= mnow
  BY <1>0, <1>4, ExpireTypes DEF RemoveClient
<1>8. MapsAgree'
  <2>1. \A n \in clients_timeout' : client_lookup'[n.client] = n.node
    BY <1>0, <1>2, <1>3, <1>5 DEF TypeOK, TimersInv, MapsAgree, Timer
  <2>2. ASSUME NEW c \in Members, client_lookup'[c] # 0
        PROVE  \E n \in clients_timeout' : n.client = c
    <3>1. c # it.client /\ client_lookup[c] # 0
      BY <2>2, <1>0, <1>3, <1>4 DEF TypeOK
    <3> QED BY <3>1, <1>0, <1>2 DEF TimersInv, MapsAgree
  <2> QED BY <2>1, <2>2 DEF MapsAgree
<1>9. NodesUnique' /\ TimersFresh'
  BY <1>0, <1>2, <1>3 DEF TimersInv, NodesUnique, TimersFresh
<1>10. IteratorLive' /\ IteratorDue'
  BY <1>3, <1>6 DEF IteratorLive, IteratorDue
<1> QED BY <1>8, <1>9, <1>10 DEF LeaderCore, TimersInv

(* A step that leaves the timers alone keeps what is known about them. *)
LEMMA TimersUntouched ==
    ASSUME TimersInv, UNCHANGED timers, UNCHANGED <<joined, rejoined>>
    PROVE  TimersInv'
BY DEF TimersInv, timers, MapsAgree, NodesUnique, TimersFresh

(* Every step keeps the types, undefined erasures included. *)
LEMMA TypeStep ==
    ASSUME TypeOK, [Next]_vars
    PROVE  TypeOK'
<1> USE TimesAssumption
<1>1. CASE UNCHANGED vars BY <1>1 DEF vars, timers, monitor, TypeOK
<1>2. CASE Tick BY <1>2 DEF Tick, timers, monitor, TypeOK
<1>3. CASE SendKey BY <1>3 DEF SendKey, timers, monitor, TypeOK
<1>4. CASE StopMonitor BY <1>4 DEF StopMonitor, timers, monitor, TypeOK
<1>5. CASE StopNotify BY <1>5 DEF StopNotify, NotifyMonitor, timers, TypeOK
<1>6. ASSUME NEW c \in Members, ReceiveJoin(c) PROVE TypeOK'
  BY <1>6 DEF ReceiveJoin, timers, monitor, TypeOK
<1>7. CASE SendNotifyLeft BY <1>7 DEF SendNotifyLeft, timers, TypeOK
<1>8. CASE WakeNotified
  <2>1. /\ mpc' \in {"wait", "wait_until", "off"}
        /\ earliest' \in Nat /\ it' = Nowhere
    BY <1>8, LoopTypes DEF WakeNotified, TypeOK
  <2> QED BY <1>8, <2>1 DEF WakeNotified, timers, TypeOK
<1>9. CASE WakeTimeout
  <2>1. now \in Nat /\ clients_timeout \in SUBSET Timer BY DEF TypeOK
  <2>2. /\ mpc' \in {"wait", "wait_until", "send", "off"} /\ earliest' \in Nat
        /\ it' \in Timer \cup {Nowhere}
    BY <1>9, <2>1, ExpireTypes DEF WakeTimeout
  <2> QED BY <1>9, <2>1, <2>2 DEF WakeTimeout, timers, TypeOK
<1>10. CASE HeartbeatUpdate
  <2> DEFINE node == [node |-> nodes + 1, client |-> from, expiry |-> now + TIMEOUT]
  <2>1. node \in Timer BY DEF TypeOK, Timer
  <2>2. clients_timeout' \subseteq Timer BY <1>10, <2>1 DEF HeartbeatUpdate, TypeOK
  <2>3. client_lookup' \in [Members -> Nat] /\ joined' \in [Members -> Nat]
    BY <1>10 DEF HeartbeatUpdate, TypeOK
  <2>4. notified' \in BOOLEAN /\ rejoined' \in BOOLEAN
    BY <1>10 DEF TypeOK, HeartbeatUpdate, NotifyMonitor, UnderRemoval
  <2> QED BY <1>10, <2>2, <2>3, <2>4 DEF TypeOK, HeartbeatUpdate
<1>11. CASE RemoveClient
  <2>1. clients_timeout' \in SUBSET Timer /\ mnow \in Nat
    BY <1>11 DEF RemoveClient, Erased, TypeOK
  <2>2. /\ mpc' \in {"wait", "wait_until", "send", "off"} /\ earliest' \in Nat
        /\ it' \in Timer \cup {Nowhere}
    BY <1>11, <2>1, ExpireTypes DEF RemoveClient
  <2>3. client_lookup' \in [Members -> Nat] BY <1>11 DEF RemoveClient, TypeOK
  <2> QED BY <1>11, <2>1, <2>2, <2>3 DEF TypeOK, RemoveClient
<1> QED BY <1>1, <1>2, <1>3, <1>4, <1>5, <1>6, <1>7, <1>8, <1>9, <1>10, <1>11
    DEF Next, MonitorStep, SignalStep

(* Every step keeps the invariant. *)
LEMMA LeaderStep ==
    ASSUME LeaderInv, [Next]_vars
    PROVE  LeaderInv'
<1>0. TypeOK /\ TypeOK' BY TypeStep DEF LeaderInv
<1> USE TimesAssumption
<1> SUFFICES ASSUME ~rejoined' PROVE LeaderCore' BY <1>0 DEF LeaderInv
<1>1. ~rejoined
  BY DEF Next, vars, MonitorStep, SignalStep, Tick, SendKey, StopMonitor, StopNotify,
     ReceiveJoin, HeartbeatUpdate, RemoveClient, SendNotifyLeft, WakeNotified, WakeTimeout
<1>2. LeaderCore /\ TimersInv BY <1>1 DEF LeaderInv, LeaderCore
<1>3. CASE HeartbeatUpdate BY <1>0, <1>1, <1>2, <1>3, HeartbeatKeeps
<1>4. CASE RemoveClient BY <1>0, <1>1, <1>2, <1>4, RemovalKeeps
<1>5. CASE \/ UNCHANGED vars \/ Tick \/ SendKey \/ StopMonitor \/ StopNotify
           \/ \E c \in Members : ReceiveJoin(c)
  <2>1. UNCHANGED <<clients_timeout, client_lookup, nodes, mpc, earliest, mnow,
                    it, joined, rejoined>>
    BY <1>5 DEF vars, Tick, SendKey, StopMonitor, StopNotify, ReceiveJoin,
                timers, monitor
  <2>2. TimersInv' BY <1>2, <2>1, TimersUntouched DEF timers
  <2>3. IteratorLive' /\ IteratorDue'
    BY <1>2, <2>1 DEF LeaderCore, IteratorLive, IteratorDue
  <2> QED BY <2>2, <2>3 DEF LeaderCore
<1>6. CASE SendNotifyLeft
  <2>1. TimersInv' BY <1>6, <1>2, TimersUntouched DEF SendNotifyLeft
  <2>2. IteratorLive' /\ IteratorDue'
    BY <1>2, <1>6 DEF SendNotifyLeft, timers, LeaderCore, IteratorLive, IteratorDue
  <2> QED BY <2>1, <2>2 DEF LeaderCore
<1>7. CASE WakeNotified
  <2>1. mpc' \in {"wait", "wait_until", "off"}
    BY <1>7, <1>0, LoopTypes DEF WakeNotified, TypeOK
  <2>2. TimersInv' BY <1>7, <1>2, TimersUntouched DEF WakeNotified
  <2>3. IteratorLive' /\ IteratorDue' BY <2>1 DEF IteratorLive, IteratorDue
  <2> QED BY <2>2, <2>3 DEF LeaderCore
<1>8. CASE WakeTimeout
  <2>1. now \in Nat /\ clients_timeout \in SUBSET Timer BY <1>0 DEF TypeOK
  <2>2. /\ mpc' \in {"wait", "wait_until", "send", "off"}
        /\ mpc' = "send" => it' \in clients_timeout /\ it'.expiry <= now
    BY <1>8, <1>0, <2>1, ExpireTypes DEF WakeTimeout
  <2>3. TimersInv' BY <1>8, <1>2, TimersUntouched DEF WakeTimeout
  <2>4. IteratorLive' /\ IteratorDue'
    BY <1>8, <2>2 DEF WakeTimeout, timers, IteratorLive, IteratorDue
  <2> QED BY <2>3, <2>4 DEF LeaderCore
<1> QED BY <1>3, <1>4, <1>5, <1>6, <1>7, <1>8 DEF Next, MonitorStep, SignalStep

(* The invariant of the membership timers. *)
THEOREM LeaderInvariant == Spec => []LeaderInv
<1>1. Init => LeaderInv BY LeaderInit
<1>2. LeaderInv /\ [Next]_vars => LeaderInv' BY LeaderStep
<1> QED BY <1>1, <1>2, PTL DEF Spec

(* Whatever an undefined erase(it) does to the multimap, the variables of  *)
(* the leader keep their types.                                            *)
THEOREM LeaderTypes == Spec => []TypeOK
<1>1. LeaderInv => TypeOK BY DEF LeaderInv
<1> QED BY <1>1, LeaderInvariant, PTL

(* _client_lookup leads to every timer of _clients_timeout and to nothing  *)
(* else.                                                                   *)
THEOREM MembershipMapsAgree == Spec => []MapsAgree
<1>1. LeaderInv => MapsAgree BY DEF LeaderInv, LeaderCore, TimersInv, MapsAgree
<1> QED BY <1>1, LeaderInvariant, PTL

(* monitor_loop announces nobody before its timeout has passed since the   *)
(* last JOIN.                                                              *)
THEOREM MembersKeepTheirTime == Spec => []NoEarlyExpiry
<1>1. LeaderInv => NoEarlyExpiry
  BY DEF LeaderInv, LeaderCore, TimersInv, IteratorLive, IteratorDue, TimersFresh,
     NoEarlyExpiry
<1> QED BY <1>1, LeaderInvariant, PTL
=============================================================================
