------------------------- MODULE SubscriptionsProofs -------------------------
(***************************************************************************)
(* Proofs about Subscriptions: the sensor's interval serves all its        *)
(* subscribers, and its process dies only when the responses have to be    *)
(* started a second time.                                                  *)
(***************************************************************************)
EXTENDS Subscriptions, WellFoundedInduction, TLAPS

(* A set of numbers with an upper bound has a greatest element. *)
LEMMA GreatestExists ==
    ASSUME NEW m \in Nat, NEW D \in SUBSET (1 .. m), D # {}
    PROVE  \E d \in D : \A e \in D : e <= d
<1> DEFINE R == OpToRel(<, Nat)
           T == {m - d : d \in D}
<1> HIDE DEF R
<1>1. IsWellFoundedOn(R, Nat)
  BY NatLessThanWellFounded DEF R
<1>2. T \subseteq Nat /\ T # {}
  <2>1. \A d \in D : m - d \in Nat
    OBVIOUS
  <2>2. PICK c \in D : TRUE
    OBVIOUS
  <2>3. m - c \in T
    OBVIOUS
  <2> QED BY <2>1, <2>3
<1>3. PICK x \in T : \A y \in T : ~(<<y, x>> \in R)
  <2> HIDE DEF T
  <2> QED BY <1>1, <1>2, WFMin
<1>4. \A y \in T : ~(y < x)
  BY <1>2, <1>3 DEF R, OpToRel
<1>5. PICK d \in D : x = m - d
  OBVIOUS
<1>6. \A e \in D : e <= d
  BY <1>4, <1>5
<1> QED BY <1>6

(* gcd returns a common divisor, which is not 0. *)
LEMMA GcdDivides ==
    ASSUME NEW S \in SUBSET Nat, 1 <= MAX_PERIOD
    PROVE  /\ Gcd(S) \in 1 .. MAX_PERIOD
           /\ \A n \in S : Divides(Gcd(S), n)
<1>1. MAX_PERIOD \in Nat
  BY PeriodsAssumption
<1>2. \A n \in S : Divides(1, n)
  <2> SUFFICES ASSUME NEW n \in S PROVE \E k \in 0 .. n : n = 1 * k
    BY DEF Divides
  <2> n \in 0 .. n /\ n = 1 * n
    OBVIOUS
  <2> QED OBVIOUS
<1>3. 1 \in CommonDivisors(S)
  BY <1>1, <1>2 DEF CommonDivisors
<1>4. CommonDivisors(S) \in SUBSET (1 .. MAX_PERIOD)
  BY DEF CommonDivisors
<1>5. \E d \in CommonDivisors(S) : \A e \in CommonDivisors(S) : e <= d
  BY <1>1, <1>3, <1>4, GreatestExists
<1>6. Gcd(S) \in CommonDivisors(S)
  BY <1>5 DEF Gcd
<1> QED BY <1>6 DEF CommonDivisors

(* A divisor of the interval divides the periods the interval divides. *)
LEMMA DividesTransitive ==
    ASSUME NEW d \in Nat, NEW e \in Nat, NEW n \in Nat,
           Divides(d, e), Divides(e, n), d # 0
    PROVE  Divides(d, n)
<1>1. PICK j \in 0 .. e : e = d * j
  BY DEF Divides
<1>2. PICK k \in 0 .. n : n = e * k
  BY DEF Divides
<1>3. j * k \in Nat
  OBVIOUS
<1>4. n = d * (j * k)
  BY <1>1, <1>2
<1>5. j * k <= n
  <2> DEFINE q == j * k
  <2>1. q \in Nat /\ n = d * q
    BY <1>3, <1>4
  <2> HIDE DEF q
  <2>2. d * q >= q
    BY <2>1, d >= 1
  <2> QED BY <2>1, <2>2 DEF q
<1> QED BY <1>3, <1>4, <1>5 DEF Divides

-----------------------------------------------------------------------------

LEMMA PeriodsRange ==
    \A p \in Periods : p \in Nat /\ 1 <= p /\ p <= MAX_PERIOD
<1>1. \A p \in Periods : p \in 1 .. MAX_PERIOD
  BY PeriodsAssumption
<1> QED BY <1>1, PeriodsAssumption

LEMMA InitType == Init => TypeOK
<1> SUFFICES ASSUME Init PROVE TypeOK
  OBVIOUS
<1>1. queue \in Seq(Message) /\ Len(queue) = 0
  BY DEF Init
<1>2. 0 \in 0 .. MAX_INTERESTS /\ 0 \in 0 .. MAX_PERIOD /\ 0 <= MAX_QUEUE
  BY PeriodsAssumption
<1> QED BY <1>1, <1>2 DEF Init, TypeOK

LEMMA WorldType ==
    ASSUME TypeOK,
           \/ \E v \in Vehicles : Enter(v) \/ Leave(v)
           \/ ResetNearby
           \/ \E a \in Actuators, p \in Periods : SendInterest(a, p)
    PROVE  TypeOK'
<1>1. CASE \E v \in Vehicles : Enter(v) \/ Leave(v)
  BY <1>1 DEF TypeOK, Enter, Leave, list, responses, receiver, cleanup, history
<1>2. CASE ResetNearby
  BY <1>2 DEF TypeOK, ResetNearby, list, responses, receiver, cleanup, history
<1>3. CASE \E a \in Actuators, p \in Periods : SendInterest(a, p)
  <2>1. PICK a \in Actuators, p \in Periods : SendInterest(a, p)
    BY <1>3
  <2>2. [from |-> a, period |-> p] \in Message
    BY DEF Message
  <2>3. queue' \in Seq(Message) /\ Len(queue') = Len(queue) + 1
    BY <2>1, <2>2 DEF TypeOK, SendInterest
  <2>4. Len(queue') <= MAX_QUEUE /\ asked' \in 0 .. MAX_INTERESTS
    BY <2>1, <2>3, PeriodsAssumption DEF TypeOK, SendInterest
  <2>5. nearby' \subseteq Vehicles
    BY <2>1 DEF TypeOK, SendInterest
  <2> QED
    BY <2>1, <2>3, <2>4, <2>5
    DEF TypeOK, SendInterest, list, responses, receiver, cleanup, history
<1> QED BY <1>1, <1>2, <1>3

(* What the handler computes and keeps stays in range. *)
LEMMA HandlerType ==
    ASSUME TypeOK, HandlerStep \/ UpdateCrash
    PROVE  TypeOK'
<1>1. CASE TakeInterest
  <2>1. Head(queue) \in Message /\ Tail(queue) \in Seq(Message)
        /\ Len(Tail(queue)) <= MAX_QUEUE
    BY <1>1, PeriodsAssumption DEF TypeOK, TakeInterest
  <2> QED
    BY <1>1, <2>1 DEF TypeOK, TakeInterest, Handles, responses, cleanup
<1>2. CASE UpdateList
  <2>1. msg.from \in Actuators /\ msg.period \in Periods
    BY <1>2 DEF TypeOK, UpdateList, Handles, Message
  <2>2. subscribers' \in [Actuators -> Periods \cup {0}]
    BY <1>2, <2>1 DEF TypeOK, UpdateList
  <2> QED
    BY <1>2, <2>2 DEF TypeOK, UpdateList, Handles, world, responses, cleanup, history
<1>3. CASE UpdateCrash
  BY <1>3 DEF TypeOK, UpdateCrash, world, list, responses, receiver, cleanup, history
<1>4. CASE LoadInterval
  <2>1. msg.period \in 1 .. MAX_PERIOD /\ MAX_PERIOD \in Nat
    BY <1>4, PeriodsAssumption DEF TypeOK, LoadInterval, Handles, Message
  <2>2. {interval, msg.period} \in SUBSET Nat /\ 1 <= MAX_PERIOD
    BY <2>1 DEF TypeOK
  <2>3. Gcd({interval, msg.period}) \in 0 .. MAX_PERIOD
    BY <2>1, <2>2, GcdDivides
  <2> QED
    BY <1>4, <2>3 DEF TypeOK, LoadInterval, Handles, world, list, responses, cleanup, history
<1>5. CASE StoreInterval
  BY <1>5 DEF TypeOK, StoreInterval, Handles, world, list, cleanup, history
<1>6. CASE LoadRunning
  BY <1>6, PeriodsAssumption DEF TypeOK, LoadRunning, world, list, responses, cleanup, history
<1>7. CASE Spawn
  BY <1>7 DEF TypeOK, Spawn, StartThread, Handles, world, list, cleanup, history
<1>8. CASE CompareInterval
  BY <1>8 DEF TypeOK, CompareInterval, world, list, responses, cleanup, history
<1> QED BY <1>1, <1>2, <1>3, <1>4, <1>5, <1>6, <1>7, <1>8 DEF HandlerStep

LEMMA CleanupType ==
    ASSUME TypeOK, CleanupStep
    PROVE  TypeOK'
<1>1. CASE Wake
  BY <1>1 DEF TypeOK, Wake, Subscribed, world, list, responses, receiver
<1>2. ASSUME NEW a \in Actuators, CheckNearby(a) PROVE TypeOK'
  BY <1>2 DEF TypeOK, CheckNearby, world, list, responses, receiver, history
<1>3. CASE EraseTail
  BY <1>3 DEF TypeOK, EraseTail, world, responses, receiver, history
<1>4. CASE Decide
  <2>1. CASE Subscribed = {}
    BY <1>4, <2>1 DEF TypeOK, Decide, world, list, responses, receiver, history
  <2>2. CASE Subscribed # {}
    <3>1. PICK b \in Actuators : subscribers[b] # 0
      BY <2>2 DEF Subscribed
    <3>2. \A c \in Actuators : subscribers[c] \in Periods \cup {0}
      BY DEF TypeOK
    <3>3. 1 <= MAX_PERIOD
      <4>1. subscribers[b] \in Periods
        BY <3>1, <3>2
      <4>2. MAX_PERIOD \in Nat
        BY PeriodsAssumption
      <4> QED BY <4>1, <4>2, PeriodsRange
    <3>4. \A c \in Actuators : subscribers[c] \in Nat
      BY <3>2, PeriodsRange
    <3>5. {subscribers[a] : a \in Subscribed} \in SUBSET Nat
      BY <3>4 DEF Subscribed
    <3>6. Gcd({subscribers[a] : a \in Subscribed}) \in 0 .. MAX_PERIOD
      BY <3>3, <3>5, GcdDivides, PeriodsAssumption
    <3> QED
      BY <1>4, <2>2, <3>6 DEF TypeOK, Decide, world, list, responses, receiver, history
  <2> QED BY <2>1, <2>2
<1>5. CASE StopRunning
  BY <1>5 DEF TypeOK, StopRunning, Cleans, world, list, receiver
<1>6. CASE StopInterval
  BY <1>6, PeriodsAssumption DEF TypeOK, StopInterval, Cleans, world, list, receiver, history
<1>7. CASE ResetInterval
  BY <1>7 DEF TypeOK, ResetInterval, Cleans, world, list, receiver, history
<1>8. CASE CheckRunning
  BY <1>8 DEF TypeOK, CheckRunning, world, list, responses, receiver, history
<1>9. CASE Respawn
  BY <1>9 DEF TypeOK, Respawn, StartThread, Cleans, world, list, receiver, history
<1>10. CASE DropEntry
  BY <1>10, PeriodsAssumption DEF TypeOK, DropEntry, Cleans, world, responses, receiver, history
<1> QED BY <1>1, <1>2, <1>3, <1>4, <1>5, <1>6, <1>7, <1>8, <1>9, <1>10 DEF CleanupStep

LEMMA ResponseType ==
    ASSUME TypeOK, ResponseStep
    PROVE  TypeOK'
  BY DEF TypeOK, ResponseStep, SendResponse, EndSleep, EndResponses,
         world, list, receiver, cleanup, history

(* Every variable keeps its type, whatever the threads do to each other.   *)
THEOREM TypeCorrect == Spec => []TypeOK
<1>1. TypeOK /\ [Next]_vars => TypeOK'
  <2>1. TypeOK /\ Next => TypeOK'
    BY WorldType, HandlerType, CleanupType, ResponseType DEF Next
  <2>2. TypeOK /\ UNCHANGED vars => TypeOK'
    BY DEF TypeOK, vars, world, list, responses, receiver, cleanup, history
  <2> QED BY <2>1, <2>2
<1> QED BY InitType, <1>1, PTL DEF Spec

-----------------------------------------------------------------------------
(***************************************************************************)
(* The inductive invariant: what holds at each step of the two threads.    *)
(* It is about behaviours in which they never met, so one of them is       *)
(* outside the handler.                                                    *)
(***************************************************************************)

Serves(i) == \A a \in Subscribed : Divides(i, subscribers[a])

Steady ==
    /\ running <=> Subscribed # {}
    /\ running <=> interval # 0
    /\ Serves(interval)

Active == Subscribed # {} /\ interval # 0 /\ Serves(interval)

HandlerInv ==
    /\ hpc # "idle" => entry /\ cpc = "sleep"
    /\ hpc \in {"idle", "list"} /\ cpc = "sleep" => Steady
    /\ hpc \in {"interval", "load"} =>
          /\ subscribers[msg.from] = msg.period
          /\ \A a \in Subscribed \ {msg.from} : Divides(interval, subscribers[a])
    /\ hpc = "store" => Subscribed # {} /\ loaded # 0 /\ Serves(loaded)
    /\ hpc \in {"start", "spawn"} => Active
    /\ hpc = "spawn" => ~running

CleanupInv ==
    /\ cpc \in {"scan", "erase", "drop"} => Steady
    /\ cpc = "decide" => running /\ interval # 0 /\ Serves(interval)
    /\ cpc \in {"stop", "zero"} => Subscribed = {}
    /\ cpc = "zero" => ~running
    /\ cpc = "reset" => Subscribed # {} /\ running /\ gcd # 0 /\ Serves(gcd)
    /\ cpc = "restart" => running /\ Active
    /\ cpc # "respawn"

ThreadInv ==
    /\ rpc # "off" => thread = "live"
    /\ ~overlapped /\ ~retired => ~dead /\ (~running => thread = "none")

SensorInv == (~overlapped => HandlerInv /\ CleanupInv) /\ ThreadInv

LEMMA InitSensor == Init => SensorInv
  BY DEF Init, SensorInv, HandlerInv, CleanupInv, ThreadInv, Steady, Active, Serves, Subscribed

(* A step that leaves the list, the responses and the threads alone. *)
LEMMA WorldSensor ==
    ASSUME SensorInv, UNCHANGED <<list, responses, receiver, cleanup, dead, history>>
    PROVE  SensorInv'
  BY DEF SensorInv, HandlerInv, CleanupInv, ThreadInv, Steady, Active, Serves, Subscribed,
         list, responses, receiver, cleanup, history

LEMMA ResponseSensor ==
    ASSUME SensorInv, ResponseStep
    PROVE  SensorInv'
<1>1. UNCHANGED <<list, interval, running, receiver, cleanup, dead, history>>
  BY DEF ResponseStep, SendResponse, EndSleep, EndResponses
<1>2. ThreadInv'
  BY <1>1 DEF SensorInv, ThreadInv, ResponseStep, SendResponse, EndSleep, EndResponses, history
<1>3. (HandlerInv /\ CleanupInv) => (HandlerInv /\ CleanupInv)'
  BY <1>1 DEF HandlerInv, CleanupInv, Steady, Active, Serves, Subscribed, list, receiver, cleanup
<1> QED BY <1>1, <1>2, <1>3 DEF SensorInv, history

(* The receiver's steps.  Each changes the list or the responses at most,  *)
(* so the cleanup thread, which is asleep, is not disturbed.               *)
LEMMA HandlerSensor ==
    ASSUME TypeOK, SensorInv, HandlerStep \/ UpdateCrash
    PROVE  SensorInv'
<1>1. CASE TakeInterest
  BY <1>1 DEF TakeInterest, Handles, SensorInv, HandlerInv, CleanupInv, ThreadInv, Steady,
              Active, Serves, Subscribed, responses, cleanup
<1>2. CASE UpdateList
  <2>1. msg \in Message /\ msg.from \in Actuators /\ msg.period \in Periods /\ msg.period # 0
    BY <1>2, PeriodsRange DEF TypeOK, UpdateList, Handles, Message
  <2>2. ThreadInv'
    BY <1>2 DEF UpdateList, SensorInv, ThreadInv, responses, history
  <2>3. ASSUME ~overlapped PROVE HandlerInv' /\ CleanupInv'
    <3>1. entry /\ cpc = "sleep" /\ Steady
      BY <1>2, <2>3 DEF UpdateList, Handles, SensorInv, HandlerInv
    <3>2. subscribers' = [subscribers EXCEPT ![msg.from] = msg.period]
      BY <1>2, <3>1 DEF UpdateList
    <3>3. subscribers'[msg.from] = msg.period
          /\ \A a \in Actuators \ {msg.from} : subscribers'[a] = subscribers[a]
      BY <2>1, <3>2 DEF TypeOK
    <3>4. \A a \in Subscribed' \ {msg.from} : Divides(interval, subscribers'[a])
      BY <3>1, <3>3 DEF Steady, Serves, Subscribed
    <3> QED
      BY <1>2, <3>1, <3>3, <3>4
      DEF UpdateList, Handles, HandlerInv, CleanupInv, responses, cleanup
  <2> QED BY <1>2, <2>2, <2>3 DEF SensorInv, UpdateList, history
<1>3. CASE UpdateCrash
  <2>1. overlapped
    BY <1>3 DEF UpdateCrash, SensorInv, HandlerInv
  <2> QED
    BY <1>3, <2>1 DEF UpdateCrash, SensorInv, ThreadInv, responses, history
<1>4. CASE LoadInterval
  <2>1. ThreadInv'
    BY <1>4 DEF LoadInterval, SensorInv, ThreadInv, responses, history
  <2>2. ASSUME ~overlapped PROVE HandlerInv' /\ CleanupInv'
    <3> DEFINE p == msg.period
               g == Gcd({interval, p})
    <3>1. msg.from \in Actuators /\ p \in Nat /\ 1 <= p /\ interval \in Nat
          /\ MAX_PERIOD \in Nat /\ 1 <= MAX_PERIOD
      <4>1. msg \in Message /\ interval \in 0 .. MAX_PERIOD
        BY <1>4 DEF TypeOK, LoadInterval, Handles
      <4>2. msg.from \in Actuators /\ msg.period \in Periods
        BY <4>1 DEF Message
      <4>3. MAX_PERIOD \in Nat
        BY PeriodsAssumption
      <4> QED BY <4>1, <4>2, <4>3, PeriodsRange
    <3>2. HandlerInv /\ CleanupInv /\ hpc = "load" /\ cpc = "sleep"
      BY <1>4, <2>2 DEF LoadInterval, Handles, SensorInv, HandlerInv
    <3>3. subscribers[msg.from] = p
          /\ \A a \in Subscribed \ {msg.from} : Divides(interval, subscribers[a])
      BY <3>2 DEF HandlerInv
    <3>4. msg.from \in Subscribed
      BY <3>1, <3>3 DEF Subscribed
    <3>5. UNCHANGED <<subscribers, interval, running, entry, cpc, gcd, msg>>
      BY <1>4 DEF LoadInterval, list, responses, cleanup
    <3>6. g \in 1 .. MAX_PERIOD /\ Divides(g, interval) /\ Divides(g, p)
      <4>1. {interval, p} \in SUBSET Nat
        BY <3>1
      <4> QED BY <3>1, <4>1, GcdDivides
    <3>7. hpc' = "store" /\ loaded' = g
      BY <1>4 DEF LoadInterval, Handles
    <3> HIDE DEF g
    <3>8. g \in Nat /\ g # 0
      BY <3>1, <3>6
    <3>9. \A a \in Subscribed : subscribers[a] \in Nat
      BY PeriodsRange DEF TypeOK, Subscribed
    <3>10. ASSUME NEW a \in Subscribed PROVE Divides(g, subscribers[a])
      <4>1. CASE a = msg.from
        BY <3>3, <3>6, <4>1
      <4>2. CASE a # msg.from
        <5>1. Divides(interval, subscribers[a])
          BY <3>3, <4>2
        <5> QED BY <3>1, <3>6, <3>8, <3>9, <5>1, DividesTransitive
      <4> QED BY <4>1, <4>2
    <3>11. (Subscribed # {} /\ loaded # 0 /\ Serves(loaded))'
      BY <3>4, <3>5, <3>7, <3>8, <3>10 DEF Serves, Subscribed
    <3> QED BY <3>2, <3>5, <3>7, <3>11 DEF HandlerInv, CleanupInv
  <2> QED BY <1>4, <2>1, <2>2 DEF SensorInv, LoadInterval, history
<1>5. CASE StoreInterval
  BY <1>5 DEF StoreInterval, Handles, SensorInv, HandlerInv, CleanupInv, ThreadInv, Steady,
              Active, Serves, Subscribed, list, cleanup, history
<1>6. CASE LoadRunning
  BY <1>6 DEF LoadRunning, SensorInv, HandlerInv, CleanupInv, ThreadInv, Steady,
              Active, Serves, Subscribed, list, responses, cleanup, history
<1>7. CASE Spawn
  <2>1. UNCHANGED <<list, interval, cleanup, history>> /\ running' /\ hpc = "spawn" /\ hpc' = "idle"
    BY <1>7 DEF Spawn, StartThread, Handles
  <2>2. ThreadInv'
    BY <1>7 DEF Spawn, StartThread, Handles, SensorInv, ThreadInv, HandlerInv, CleanupInv, history
  <2>3. HandlerInv /\ CleanupInv => (HandlerInv /\ CleanupInv)'
    BY <2>1 DEF HandlerInv, CleanupInv, Steady, Active, Serves, Subscribed, list, cleanup
  <2> QED BY <2>1, <2>2, <2>3 DEF SensorInv, history
<1>8. CASE CompareInterval
  <2>1. ThreadInv'
    BY <1>8 DEF CompareInterval, SensorInv, ThreadInv, responses, history
  <2>2. ASSUME ~overlapped PROVE HandlerInv' /\ CleanupInv'
    <3>1. msg.from \in Actuators /\ msg.period \in Nat /\ 1 <= msg.period
      BY <1>8, PeriodsRange DEF TypeOK, CompareInterval, Message
    <3>2. HandlerInv /\ CleanupInv /\ hpc = "interval" /\ cpc = "sleep"
      BY <1>8, <2>2 DEF CompareInterval, SensorInv, HandlerInv
    <3>3. subscribers[msg.from] = msg.period
          /\ \A a \in Subscribed \ {msg.from} : Divides(interval, subscribers[a])
      BY <3>2 DEF HandlerInv
    <3>4. UNCHANGED <<subscribers, interval, running, entry, cpc, gcd, msg>>
      BY <1>8 DEF CompareInterval, list, responses, cleanup
    <3>5. CASE interval = msg.period
      <4>1. Divides(interval, interval)
        <5>1. 1 \in 0 .. interval /\ interval = interval * 1
          BY <3>1, <3>5
        <5> QED BY <5>1 DEF Divides
      <4>2. Active
        BY <3>1, <3>3, <3>5, <4>1 DEF Active, Serves, Subscribed
      <4>3. hpc' = "start"
        BY <1>8, <3>5 DEF CompareInterval
      <4>4. Active'
        BY <3>4, <4>2 DEF Active, Serves, Subscribed
      <4> QED BY <3>2, <3>4, <4>3, <4>4 DEF HandlerInv, CleanupInv
    <3>6. CASE interval # msg.period
      <4>1. hpc' = "load"
        BY <1>8, <3>6 DEF CompareInterval
      <4> QED BY <3>2, <3>3, <3>4, <4>1 DEF HandlerInv, CleanupInv, Subscribed
    <3> QED BY <3>5, <3>6
  <2> QED BY <1>8, <2>1, <2>2 DEF SensorInv, CompareInterval, history
<1> QED BY <1>1, <1>2, <1>3, <1>4, <1>5, <1>6, <1>7, <1>8 DEF HandlerStep

LEMMA CleanupSensor ==
    ASSUME TypeOK, SensorInv, CleanupStep
    PROVE  SensorInv'
<1>1. CASE Wake
  BY <1>1 DEF Wake, SensorInv, HandlerInv, CleanupInv, ThreadInv, Steady, Active, Serves,
              Subscribed, list, responses, receiver
<1>2. ASSUME NEW a \in Actuators, CheckNearby(a) PROVE SensorInv'
  BY <1>2 DEF CheckNearby, SensorInv, HandlerInv, CleanupInv, ThreadInv, Steady, Active,
              Serves, Subscribed, list, responses, receiver, history
<1>3. CASE EraseTail
  <2>1. ThreadInv'
    BY <1>3 DEF EraseTail, SensorInv, ThreadInv, responses, history
  <2>2. ASSUME ~overlapped PROVE HandlerInv' /\ CleanupInv'
    <3>1. HandlerInv /\ Steady /\ hpc = "idle"
      BY <1>3, <2>2 DEF EraseTail, SensorInv, HandlerInv, CleanupInv
    <3>2. \A a \in Actuators : subscribers'[a] = IF a \in kept THEN subscribers[a] ELSE 0
      BY <1>3 DEF EraseTail
    <3>3. Subscribed' = Subscribed \cap kept
      BY <3>2 DEF Subscribed
    <3>4. \A a \in Subscribed' : a \in Subscribed /\ subscribers'[a] = subscribers[a]
      BY <3>2, <3>3 DEF Subscribed
    <3>5. Serves(interval)'
      BY <1>3, <3>1, <3>4 DEF EraseTail, Steady, Serves, responses
    <3>6. CASE Subscribed \ kept = {}
      <4>1. Subscribed' = Subscribed /\ cpc' = "drop" /\ UNCHANGED <<interval, running>>
        BY <1>3, <3>3, <3>6 DEF EraseTail, responses
      <4>2. Steady'
        BY <3>1, <3>5, <4>1 DEF Steady
      <4> QED BY <1>3, <3>1, <4>1, <4>2 DEF EraseTail, HandlerInv, CleanupInv, receiver
    <3>7. CASE Subscribed \ kept # {}
      <4>1. cpc' = "decide" /\ running' /\ interval' # 0
        BY <1>3, <3>1, <3>7 DEF EraseTail, Steady, responses
      <4> QED BY <1>3, <3>1, <3>5, <4>1 DEF EraseTail, HandlerInv, CleanupInv, receiver
    <3> QED BY <3>6, <3>7
  <2> QED BY <1>3, <2>1, <2>2 DEF SensorInv, EraseTail, history
<1>4. CASE Decide
  <2>1. UNCHANGED <<subscribers, interval, running, entry, hpc, msg, loaded, thread, rpc, dead, overlapped, retired>>
    BY <1>4 DEF Decide, list, responses, receiver, history
  <2>2. ThreadInv'
    BY <2>1 DEF SensorInv, ThreadInv
  <2>3. ASSUME ~overlapped PROVE HandlerInv' /\ CleanupInv'
    <3>1. HandlerInv /\ hpc = "idle" /\ running
      BY <1>4, <2>3 DEF Decide, SensorInv, HandlerInv, CleanupInv
    <3>2. cpc' # "sleep" => HandlerInv'
      BY <2>1, <3>1 DEF HandlerInv
    <3>3. CASE Subscribed = {}
      BY <1>4, <2>1, <3>2, <3>3 DEF Decide, CleanupInv, Subscribed
    <3>4. CASE Subscribed # {}
      <4> DEFINE P == {subscribers[a] : a \in Subscribed}
      <4>1. \A a \in Subscribed : subscribers[a] \in Nat /\ 1 <= subscribers[a] /\ subscribers[a] <= MAX_PERIOD
        BY PeriodsRange DEF TypeOK, Subscribed
      <4>2. P \in SUBSET Nat
        BY <4>1
      <4>3. 1 <= MAX_PERIOD
        <5>1. PICK b \in Subscribed : TRUE
          BY <3>4
        <5> QED BY <4>1, <5>1, PeriodsAssumption
      <4>4. Gcd(P) \in 1 .. MAX_PERIOD /\ \A n \in P : Divides(Gcd(P), n)
        <5> HIDE DEF P
        <5> QED BY <4>2, <4>3, GcdDivides
      <4>5. cpc' = "reset" /\ gcd' = Gcd(P)
        BY <1>4, <3>4 DEF Decide
      <4>6. gcd' # 0
        BY <4>4, <4>5
      <4>7. \A a \in Subscribed : Divides(gcd', subscribers[a])
        BY <4>4, <4>5
      <4>8. (Subscribed # {} /\ Serves(gcd))'
        BY <2>1, <3>4, <4>7 DEF Subscribed, Serves
      <4> QED BY <2>1, <3>1, <3>2, <4>5, <4>6, <4>8 DEF CleanupInv
    <3> QED BY <3>3, <3>4
  <2> QED BY <2>1, <2>2, <2>3 DEF SensorInv
<1>5. CASE StopRunning
  BY <1>5 DEF StopRunning, Cleans, SensorInv, HandlerInv, CleanupInv, ThreadInv, Steady,
              Active, Serves, Subscribed, list, receiver
<1>6. CASE StopInterval
  BY <1>6 DEF StopInterval, Cleans, SensorInv, HandlerInv, CleanupInv, ThreadInv, Steady,
              Active, Serves, Subscribed, list, receiver, history
<1>7. CASE ResetInterval
  BY <1>7 DEF ResetInterval, Cleans, SensorInv, HandlerInv, CleanupInv, ThreadInv, Steady,
              Active, Serves, Subscribed, list, receiver, history
<1>8. CASE CheckRunning
  BY <1>8 DEF CheckRunning, SensorInv, HandlerInv, CleanupInv, ThreadInv, Steady,
              Active, Serves, Subscribed, list, responses, receiver, history
<1>9. CASE Respawn
  <2>1. overlapped
    BY <1>9 DEF Respawn, Cleans, SensorInv, CleanupInv
  <2> QED BY <1>9, <2>1 DEF Respawn, StartThread, SensorInv, ThreadInv, history
<1>10. CASE DropEntry
  BY <1>10 DEF DropEntry, Cleans, SensorInv, HandlerInv, CleanupInv, ThreadInv, Steady,
               Active, Serves, Subscribed, responses, receiver, history
<1> QED BY <1>1, <1>2, <1>3, <1>4, <1>5, <1>6, <1>7, <1>8, <1>9, <1>10 DEF CleanupStep

LEMMA SensorInvariant == Spec => []SensorInv
<1>1. TypeOK /\ SensorInv /\ [Next]_vars => SensorInv'
  <2> SUFFICES ASSUME TypeOK, SensorInv, [Next]_vars PROVE SensorInv'
    OBVIOUS
  <2>1. CASE HandlerStep \/ UpdateCrash
    BY <2>1, HandlerSensor
  <2>2. CASE CleanupStep
    BY <2>2, CleanupSensor
  <2>3. CASE ResponseStep
    BY <2>3, ResponseSensor
  <2>4. ASSUME NEW v \in Vehicles, Enter(v) \/ Leave(v) PROVE SensorInv'
    BY <2>4, WorldSensor DEF Enter, Leave
  <2>5. CASE ResetNearby
    BY <2>5, WorldSensor DEF ResetNearby
  <2>6. ASSUME NEW a \in Actuators, NEW p \in Periods, SendInterest(a, p) PROVE SensorInv'
    BY <2>6, WorldSensor DEF SendInterest
  <2>7. CASE UNCHANGED vars
    BY <2>7, WorldSensor DEF vars
  <2> QED BY <2>1, <2>2, <2>3, <2>4, <2>5, <2>6, <2>7 DEF Next
<1> QED BY InitSensor, TypeCorrect, <1>1, PTL DEF Spec

(* As long as the receiver and the cleanup thread never meet, between two  *)
(* calls of notify_interest_request the interval divides every period in   *)
(* the list, and the sensor responds iff the list is not empty.            *)
THEOREM IntervalRight == Spec => []IntervalServes
<1>1. SensorInv => IntervalServes
  BY DEF SensorInv, HandlerInv, Steady, Serves, IntervalServes, Quiet
<1> QED BY SensorInvariant, <1>1, PTL

(* Only an INTEREST after the responses were stopped, or the two threads   *)
(* meeting, can kill the sensor's process.                                 *)
THEOREM SensorSurvives == Spec => []DiesOnlyOnRestart
<1>1. SensorInv => DiesOnlyOnRestart
  BY DEF SensorInv, ThreadInv, DiesOnlyOnRestart
<1> QED BY SensorInvariant, <1>1, PTL

=============================================================================
