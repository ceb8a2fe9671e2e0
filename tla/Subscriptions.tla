---------------------------- MODULE Subscriptions ----------------------------
(***************************************************************************)
(* A sensor and the actuators that ask it for values: TEDSHandler          *)
(* (handlers/teds_handler.hpp) and Component                               *)
(* (vm/vehicle/components/component.hpp).  Three threads of the sensor     *)
(* share its state: the receiver handles an INTEREST, the cleanup thread   *)
(* drops subscribers that are no longer nearby, the response thread        *)
(* broadcasts the value once per interval.  Only the cleanup thread takes  *)
(* the mutex, so the other two run at any time.                            *)
(*                                                                         *)
(* A sensor listens to one type, so _subscribers has at most one entry.    *)
(* Its list is a function: 0 stands for "not in the list".  The order of   *)
(* the list decides nothing.                                               *)
(***************************************************************************)
EXTENDS Integers, Sequences, FiniteSets

CONSTANTS
    Actuators,              \* the addresses (MAC and port) that may subscribe
    Vehicles,               \* the other vehicles, by MAC
    Own,                    \* LOCAL_ADDR, the MAC of this vehicle's components
    Home,                   \* the MAC of each actuator
    Periods,                \* the intervals actuators ask for
    MAX_PERIOD,
    Values,                 \* what the data generator produces
    MAX_INTERESTS,          \* bound: INTERESTs of all actuators
    MAX_QUEUE               \* bound: INTERESTs that wait in the queue

ASSUME ActuatorsAssumption ==
    /\ Own \notin Vehicles
    /\ Home \in [Actuators -> Vehicles \cup {Own}]

ASSUME PeriodsAssumption ==
    /\ MAX_PERIOD \in Nat /\ Periods \subseteq 1 .. MAX_PERIOD
    /\ MAX_INTERESTS \in Nat /\ MAX_QUEUE \in Nat
    /\ 0 \in Values

VARIABLES
    nearby,                 \* the entities of the shared block's nearby list
    queue, asked,           \* the communicator's queue; INTERESTs sent so far
    entry, subscribers,     \* _subscribers: is there an entry; its list
    interval, running,      \* _responses_interval, _response_running
    thread,                 \* the std::thread object _response_thread
    rpc,                    \* the response thread
    hpc, msg, loaded,       \* the receiver: step, message, local interval
    cpc, todo, kept, gcd,   \* the cleanup thread: step, and remove_if's work
    dead,                   \* the process has crashed or was terminated
    overlapped,             \* history: both threads were in the handler
    retired                 \* history: the responses were stopped once

world == <<nearby, queue, asked>>
list == <<entry, subscribers>>
responses == <<interval, running, thread, rpc>>
receiver == <<hpc, msg, loaded>>
cleanup == <<cpc, todo, kept, gcd>>
history == <<overlapped, retired>>
vars == <<world, list, responses, receiver, cleanup, dead, history>>

Message == [from : Actuators, period : Periods]
NoMessage == [from |-> "none"]

Subscribed == {a \in Actuators : subscribers[a] # 0}

(* The greatest common divisor of a set of numbers, not all 0. *)
Divides(d, n) == \E k \in 0 .. n : n = d * k
CommonDivisors(S) == {d \in 1 .. MAX_PERIOD : \A n \in S : Divides(d, n)}
Gcd(S) == CHOOSE d \in CommonDivisors(S) : \A e \in CommonDivisors(S) : e <= d

Init ==
    /\ nearby = {} /\ queue = <<>> /\ asked = 0
    /\ entry = FALSE /\ subscribers = [a \in Actuators |-> 0]
    /\ interval = 0 /\ running = FALSE
    /\ thread = "none" /\ rpc = "off"
    /\ hpc = "idle" /\ msg = NoMessage /\ loaded = 0
    /\ cpc = "sleep" /\ todo = {} /\ kept = {} /\ gcd = 0
    /\ dead = FALSE /\ overlapped = FALSE /\ retired = FALSE

(***************************************************************************)
(* Outside the sensor.                                                     *)
(***************************************************************************)

(* The nearby list changes: a frame of vehicle v came in, a NOTIFY_LEFT    *)
(* took v off, a change of quadrant emptied the list.                      *)
Enter(v) ==
    /\ ~dead /\ nearby' = nearby \cup {v}
    /\ UNCHANGED <<queue, asked, list, responses, receiver, cleanup, dead, history>>

Leave(v) ==
    /\ ~dead /\ nearby' = nearby \ {v}
    /\ UNCHANGED <<queue, asked, list, responses, receiver, cleanup, dead, history>>

ResetNearby ==
    /\ ~dead /\ nearby' = {}
    /\ UNCHANGED <<queue, asked, list, responses, receiver, cleanup, dead, history>>

(* The INTEREST of an actuator reaches the sensor's communicator; that of  *)
(* another vehicle comes through the gateway, which registers its sender.  *)
SendInterest(a, p) ==
    /\ ~dead /\ Len(queue) < MAX_QUEUE
    /\ asked < MAX_INTERESTS /\ asked' = asked + 1
    /\ queue' = Append(queue, [from |-> a, period |-> p])
    /\ nearby' = nearby \cup ({Home[a]} \cap Vehicles)
    /\ UNCHANGED <<list, responses, receiver, cleanup, dead, history>>

(***************************************************************************)
(* The receiver thread: handleTEDSMessage and notify_interest_request.     *)
(***************************************************************************)

Handles(from, to) == ~dead /\ hpc = from /\ hpc' = to

(* operator[] of the map makes the entry; the reference to its list stays  *)
(* with the handler.                                                       *)
TakeInterest ==
    /\ Handles("idle", "list")
    /\ queue # <<>> /\ queue' = Tail(queue) /\ msg' = Head(queue)
    /\ entry' = TRUE
    /\ overlapped' = (overlapped \/ cpc # "sleep")
    /\ UNCHANGED <<nearby, asked, subscribers, responses, loaded, cleanup, dead, retired>>

(* A new period, or a new subscriber at the end of the list.  What is      *)
(* written to a list the cleanup thread has erased is lost.                *)
UpdateList ==
    /\ Handles("list", "interval")
    /\ subscribers' = IF entry THEN [subscribers EXCEPT ![msg.from] = msg.period]
                      ELSE subscribers
    /\ UNCHANGED <<world, entry, responses, msg, loaded, cleanup, dead, history>>

(* Undefined behaviour: the list is no longer there, or grows under the    *)
(* cleanup thread's iterators.  The process may crash instead.             *)
UpdateCrash ==
    /\ hpc = "list" /\ ~dead
    /\ ~entry \/ (cpc \in {"scan", "erase"} /\ subscribers[msg.from] = 0)
    /\ dead' = TRUE
    /\ UNCHANGED <<world, list, responses, receiver, cleanup, history>>

(* The interval is read twice, to be compared and for the divisor; the     *)
(* cleanup thread may change it in between.                                *)
CompareInterval ==
    /\ ~dead /\ hpc = "interval"
    /\ hpc' = IF interval = msg.period THEN "start" ELSE "load"
    /\ UNCHANGED <<world, list, responses, msg, loaded, cleanup, dead, history>>

(* Mutant: the last period asked for wins. *)
LoadPeriod ==
    /\ Handles("load", "store")
    /\ loaded' = msg.period
    /\ UNCHANGED <<world, list, responses, msg, cleanup, dead, history>>

LoadInterval ==
    /\ Handles("load", "store")
    /\ loaded' = Gcd({interval, msg.period})
    /\ UNCHANGED <<world, list, responses, msg, cleanup, dead, history>>

StoreInterval ==
    /\ Handles("store", "start")
    /\ interval' = loaded
    /\ UNCHANGED <<world, list, running, thread, rpc, msg, loaded, cleanup, dead, history>>

(* Mutant: every INTEREST starts a response thread. *)
IgnoreRunning ==
    /\ ~dead /\ hpc = "start" /\ hpc' = "spawn"
    /\ msg' = NoMessage /\ loaded' = 0
    /\ UNCHANGED <<world, list, responses, cleanup, dead, history>>

(* The response thread is only started when the flag says it does not run. *)
LoadRunning ==
    /\ ~dead /\ hpc = "start"
    /\ hpc' = IF running THEN "idle" ELSE "spawn"
    /\ msg' = NoMessage /\ loaded' = 0
    /\ UNCHANGED <<world, list, responses, cleanup, dead, history>>

(* Mutant: the thread is started and the flag forgotten. *)
StartUnflagged ==
    /\ UNCHANGED running
    /\ IF thread = "none"
       THEN thread' = "live" /\ rpc' = "check" /\ UNCHANGED dead
       ELSE dead' = TRUE /\ UNCHANGED <<thread, rpc>>

(* Assigning to a std::thread that was never joined calls std::terminate,  *)
(* also when its function has returned.                                    *)
StartThread ==
    /\ running' = TRUE
    /\ IF thread = "none"
       THEN thread' = "live" /\ rpc' = "check" /\ UNCHANGED dead
       ELSE dead' = TRUE /\ UNCHANGED <<thread, rpc>>

Spawn ==
    /\ Handles("spawn", "idle")
    /\ StartThread
    /\ UNCHANGED <<world, list, interval, msg, loaded, cleanup, history>>

HandlerStep ==
    \/ TakeInterest \/ UpdateList \/ CompareInterval \/ LoadInterval
    \/ StoreInterval \/ LoadRunning \/ Spawn

(***************************************************************************)
(* The cleanup thread: one turn of cleanup_loop.                           *)
(***************************************************************************)

Cleans(from, to) == ~dead /\ cpc = from /\ cpc' = to

(* Without an entry there is nothing to look through. *)
Wake ==
    /\ ~dead /\ cpc = "sleep" /\ entry
    /\ cpc' = IF Subscribed = {} THEN "erase" ELSE "scan"
    /\ todo' = Subscribed /\ kept' = {}
    /\ overlapped' = (overlapped \/ hpc # "idle")
    /\ UNCHANGED <<world, list, responses, receiver, gcd, dead, retired>>

(* remove_if asks is_entity_nearby about one subscriber after another.  A  *)
(* component of this vehicle is never in the nearby list.                  *)
CheckNearby(a) ==
    /\ ~dead /\ cpc = "scan" /\ a \in todo
    /\ todo' = todo \ {a}
    /\ kept' = IF Home[a] \in nearby THEN kept \cup {a} ELSE kept
    /\ cpc' = IF todo' = {} THEN "erase" ELSE "scan"
    /\ UNCHANGED <<world, list, responses, receiver, gcd, dead, history>>

(* The tail is cut off, with what has been put there since remove_if.      *)
EraseTail ==
    /\ ~dead /\ cpc = "erase"
    /\ subscribers' = [a \in Actuators |-> IF a \in kept THEN subscribers[a] ELSE 0]
    /\ cpc' = IF Subscribed \ kept = {} THEN "drop" ELSE "decide"
    /\ UNCHANGED <<world, entry, responses, receiver, todo, kept, gcd, dead, history>>

(* Mutant: the sensor is not told that its last subscriber is gone. *)
DecideSilent ==
    /\ ~dead /\ cpc = "decide"
    /\ IF Subscribed = {} THEN cpc' = "drop" /\ UNCHANGED gcd
       ELSE cpc' = "reset" /\ gcd' = Gcd({subscribers[a] : a \in Subscribed})
    /\ UNCHANGED <<world, list, responses, receiver, todo, kept, dead, history>>

Decide ==
    /\ ~dead /\ cpc = "decide"
    /\ IF Subscribed = {} THEN cpc' = "stop" /\ UNCHANGED gcd
       ELSE cpc' = "reset" /\ gcd' = Gcd({subscribers[a] : a \in Subscribed})
    /\ UNCHANGED <<world, list, responses, receiver, todo, kept, dead, history>>

(* notify_interest_request(0, type, true). *)
StopRunning ==
    /\ Cleans("stop", "zero")
    /\ running' = FALSE /\ retired' = TRUE
    /\ UNCHANGED <<world, list, interval, thread, rpc, receiver, todo, kept, gcd, dead, overlapped>>

StopInterval ==
    /\ Cleans("zero", "drop")
    /\ interval' = 0
    /\ UNCHANGED <<world, list, running, thread, rpc, receiver, todo, kept, gcd, dead, history>>

(* notify_interest_request(gcd, type, true). *)
ResetInterval ==
    /\ Cleans("reset", "restart")
    /\ interval' = gcd
    /\ UNCHANGED <<world, list, running, thread, rpc, receiver, todo, kept, gcd, dead, history>>

CheckRunning ==
    /\ ~dead /\ cpc = "restart"
    /\ cpc' = IF running THEN "drop" ELSE "respawn"
    /\ UNCHANGED <<world, list, responses, receiver, todo, kept, gcd, dead, history>>

Respawn ==
    /\ Cleans("respawn", "drop")
    /\ StartThread
    /\ UNCHANGED <<world, list, interval, receiver, todo, kept, gcd, history>>

(* An entry whose list is empty is erased. *)
DropEntry ==
    /\ Cleans("drop", "sleep")
    /\ entry' = (Subscribed # {})
    /\ kept' = {} /\ gcd' = 0
    /\ UNCHANGED <<world, subscribers, responses, receiver, todo, dead, history>>

CleanupStep ==
    \/ Wake \/ (\E a \in Actuators : CheckNearby(a)) \/ EraseTail \/ Decide
    \/ StopRunning \/ StopInterval \/ ResetInterval \/ CheckRunning \/ Respawn
    \/ DropEntry

(***************************************************************************)
(* The response thread.                                                    *)
(***************************************************************************)

(* A value is read and, unless it is 0, sent.  The generator replaces the  *)
(* value at any time.                                                      *)
SendResponse ==
    /\ ~dead /\ rpc = "check" /\ running
    /\ \E v \in Values : rpc' = IF v # 0 THEN "sent" ELSE "skipped"
    /\ UNCHANGED <<world, list, interval, running, thread, receiver, cleanup, dead, history>>

EndSleep ==
    /\ ~dead /\ rpc \in {"sent", "skipped"} /\ rpc' = "check"
    /\ UNCHANGED <<world, list, interval, running, thread, receiver, cleanup, dead, history>>

EndResponses ==
    /\ ~dead /\ rpc = "check" /\ ~running
    /\ rpc' = "off" /\ thread' = "ended"
    /\ UNCHANGED <<world, list, interval, running, receiver, cleanup, dead, history>>

ResponseStep == SendResponse \/ EndSleep \/ EndResponses

Next ==
    \/ \E v \in Vehicles : Enter(v) \/ Leave(v)
    \/ ResetNearby
    \/ \E a \in Actuators, p \in Periods : SendInterest(a, p)
    \/ HandlerStep \/ UpdateCrash \/ CleanupStep \/ ResponseStep

(* Every thread of the process goes on: they only ever sleep for a while,  *)
(* or wait for the queue.                                                  *)
Fairness == WF_vars(HandlerStep) /\ WF_vars(CleanupStep) /\ WF_vars(ResponseStep)

Spec == Init /\ [][Next]_vars
LiveSpec == Spec /\ Fairness

-----------------------------------------------------------------------------

TypeOK ==
    /\ nearby \subseteq Vehicles
    /\ queue \in Seq(Message) /\ asked \in 0 .. MAX_INTERESTS
    /\ Len(queue) <= MAX_QUEUE
    /\ entry \in BOOLEAN /\ subscribers \in [Actuators -> Periods \cup {0}]
    /\ interval \in 0 .. MAX_PERIOD /\ running \in BOOLEAN
    /\ thread \in {"none", "live", "ended"}
    /\ rpc \in {"off", "check", "sent", "skipped"}
    /\ hpc \in {"idle", "list", "interval", "load", "store", "start", "spawn"}
    /\ msg \in Message \cup {NoMessage} /\ loaded \in 0 .. MAX_PERIOD
    /\ hpc \in {"list", "interval", "load", "store", "start"} => msg \in Message
    /\ cpc \in {"sleep", "scan", "erase", "decide", "stop", "zero", "reset",
                "restart", "respawn", "drop"}
    /\ todo \subseteq Actuators /\ kept \subseteq Actuators
    /\ gcd \in 0 .. MAX_PERIOD
    /\ dead \in BOOLEAN /\ overlapped \in BOOLEAN /\ retired \in BOOLEAN

Quiet == hpc = "idle" /\ cpc = "sleep" /\ ~dead

(* Between two calls, and as long as the two threads never met in the      *)
(* handler: the sensor responds iff somebody is subscribed, and every      *)
(* subscriber's period is a multiple of the interval at which it does.     *)
IntervalServes ==
    Quiet /\ ~overlapped =>
        /\ running <=> Subscribed # {}
        /\ running <=> interval # 0
        /\ \A a \in Subscribed : Divides(interval, subscribers[a])

(* The sensor's process dies only when an INTEREST comes after the         *)
(* responses were stopped once (the thread object is still joinable), or   *)
(* when the two threads met in the handler.                                *)
DiesOnlyOnRestart == dead => retired \/ overlapped

(* A subscriber that stays in the list has its turn of the response        *)
(* thread, unless the process dies or the threads met.                     *)
ListedIsServed ==
    \A a \in Actuators :
        a \in Subscribed ~>
            (a \notin Subscribed \/ rpc \in {"sent", "skipped"} \/ dead \/ overlapped)

(* When nobody is subscribed any more the response thread ends. *)
StopsWhenUnwanted ==
    (Subscribed = {}) ~> (Subscribed # {} \/ thread # "live" \/ dead \/ overlapped)

=============================================================================
