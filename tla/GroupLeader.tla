---------------------------- MODULE GroupLeader -----------------------------
(***************************************************************************)
(* The group leader of a roadside unit                                     *)
(* (api/network/groups/group_leader_handler.hpp): the membership timers,   *)
(* the monitor thread that expires them, and the answers to the JOIN       *)
(* requests the gateway's signal thread hands over.                        *)
(*                                                                         *)
(* The mutex is held from each wake-up of the monitor to its next wait or  *)
(* unlock, and for the whole of heartbeat_update, so each of these is one  *)
(* step.                                                                   *)
(***************************************************************************)
EXTENDS Integers, FiniteSets

CONSTANTS
    Members,
    TIMEOUT,        \* _timeout_duration
    MAX_TIME,       \* bound: JOINs arrive up to this time
    MAX_JOINS       \* bound: the number of JOINs

ASSUME TimesAssumption ==
    TIMEOUT \in Nat \ {0} /\ MAX_TIME \in Nat /\ MAX_JOINS \in Nat

VARIABLES
    now,                            \* the steady clock
    clients_timeout,                \* the nodes of the multimap
    client_lookup,                  \* per member: its node, 0 if it has none
    nodes,                          \* how many nodes have been made
    running,
    mpc, earliest, mnow, it,        \* the monitor thread and its locals
    notified,                       \* a notify_one has reached its wait
    stopping,                       \* where stop_membership_monitor is
    rx, from,                       \* the signal thread: its step, the sender
    joined,                         \* history: when each member's last JOIN came,
    rejoined                        \*   and if one came during its own removal

timers  == <<clients_timeout, client_lookup, nodes>>
monitor == <<mpc, earliest, mnow, it, notified>>
vars == <<now, timers, running, monitor, stopping, rx, from, joined, rejoined>>

Nowhere == [node |-> 0, client |-> 0, expiry |-> 0]

(* The constructor has started the monitor, which waits. *)
Init ==
    /\ now = 0
    /\ clients_timeout = {} /\ client_lookup = [c \in Members |-> 0] /\ nodes = 0
    /\ running = TRUE /\ stopping = "no"
    /\ mpc = "wait" /\ earliest = 0 /\ mnow = 0 /\ it = Nowhere
    /\ notified = FALSE
    /\ rx = "idle" /\ from \in Members
    /\ joined = [c \in Members |-> 0] /\ rejoined = FALSE

Tick ==
    /\ now < MAX_TIME \/ \E n \in clients_timeout : now < n.expiry
    /\ now' = now + 1
    /\ UNCHANGED <<timers, running, monitor, stopping, rx, from, joined, rejoined>>

(***************************************************************************)
(* The signal thread.                                                      *)
(***************************************************************************)

(* handle_group_message finds a JOIN_REQUEST.  Only JOINs renew a timer:   *)
(* for every other message filter_system_messages returns before it would  *)
(* call heartbeat_update.                                                  *)
ReceiveJoin(c) ==
    /\ rx = "idle" /\ rx' = "beat" /\ from' = c
    /\ now <= MAX_TIME /\ nodes < MAX_JOINS
    /\ UNCHANGED <<now, timers, running, monitor, stopping, joined, rejoined>>

UnderRemoval(c) == mpc \in {"send", "lock"} /\ it.client = c

(* The notify_one reaches the monitor only while it waits. *)
NotifyMonitor == notified' = (notified \/ mpc \in {"wait", "wait_until"})

(* Mutants: the old timer stays; the monitor is not notified. *)
HeartbeatAddsTimer ==
    LET node == [node |-> nodes + 1, client |-> from, expiry |-> now + TIMEOUT]
    IN  /\ rx = "beat" /\ rx' = "key"
        /\ clients_timeout' = clients_timeout \cup {node}
        /\ client_lookup' = [client_lookup EXCEPT ![from] = node.node]
        /\ nodes' = nodes + 1
        /\ NotifyMonitor
        /\ joined' = [joined EXCEPT ![from] = now]
        /\ rejoined' = (rejoined \/ UnderRemoval(from))
        /\ UNCHANGED <<now, running, mpc, earliest, mnow, it, stopping, from>>

HeartbeatUnnoticed ==
    LET node == [node |-> nodes + 1, client |-> from, expiry |-> now + TIMEOUT]
    IN  /\ rx = "beat" /\ rx' = "key"
        /\ clients_timeout' =
               {n \in clients_timeout : n.node # client_lookup[from]} \cup {node}
        /\ client_lookup' = [client_lookup EXCEPT ![from] = node.node]
        /\ nodes' = nodes + 1
        /\ joined' = [joined EXCEPT ![from] = now]
        /\ rejoined' = (rejoined \/ UnderRemoval(from))
        /\ UNCHANGED <<now, running, monitor, stopping, from>>

(* heartbeat_update: the member's old timer makes way for a new one. *)
HeartbeatUpdate ==
    LET node == [node |-> nodes + 1, client |-> from, expiry |-> now + TIMEOUT]
    IN  /\ rx = "beat" /\ rx' = "key"
        /\ clients_timeout' =
               {n \in clients_timeout : n.node # client_lookup[from]} \cup {node}
        /\ client_lookup' = [client_lookup EXCEPT ![from] = node.node]
        /\ nodes' = nodes + 1
        /\ NotifyMonitor
        /\ joined' = [joined EXCEPT ![from] = now]
        /\ rejoined' = (rejoined \/ UnderRemoval(from))
        /\ UNCHANGED <<now, running, mpc, earliest, mnow, it, stopping, from>>

(* send_key; what becomes of the key is in module Vehicle. *)
SendKey ==
    /\ rx = "key" /\ rx' = "idle"
    /\ UNCHANGED <<now, timers, running, monitor, stopping, from, joined, rejoined>>

(***************************************************************************)
(* The monitor thread.                                                     *)
(***************************************************************************)

(* begin() of the multimap: nodes with equal keys keep their order. *)
IsFirst(n, t) ==
    \A m \in t : n.expiry < m.expiry \/ (n.expiry = m.expiry /\ n.node <= m.node)

(* The head of the outer loop, up to the next wait, with the timers in t. *)
Loop(t) ==
    /\ mpc' = IF ~running THEN "off" ELSE IF t = {} THEN "wait" ELSE "wait_until"
    /\ IF running /\ t # {}
       THEN \E n \in t : IsFirst(n, t) /\ earliest' = n.expiry
       ELSE earliest' = 0
    /\ it' = Nowhere

(* The inner loop, up to the next unlock: the first timer, if it is due. *)
Expire(t, time) ==
    \/ \E n \in t : /\ IsFirst(n, t) /\ n.expiry <= time
                    /\ it' = n /\ mpc' = "send" /\ earliest' = 0
    \/ (\A n \in t : n.expiry > time) /\ Loop(t)

(* Either wait ends because of a notify_one. *)
WakeNotified ==
    /\ mpc \in {"wait", "wait_until"} /\ notified
    /\ Loop(clients_timeout)
    /\ notified' = FALSE
    /\ UNCHANGED <<now, timers, running, mnow, stopping, rx, from, joined, rejoined>>

(* wait_until returns timeout. *)
WakeTimeout ==
    /\ mpc = "wait_until" /\ now >= earliest
    /\ mnow' = now
    /\ Expire(clients_timeout, now)
    /\ notified' = FALSE
    /\ UNCHANGED <<now, timers, running, stopping, rx, from, joined, rejoined>>

(* send_notify_left, with the mutex free. *)
SendNotifyLeft ==
    /\ mpc = "send" /\ mpc' = "lock"
    /\ UNCHANGED <<now, timers, running, earliest, mnow, it, notified, stopping,
                   rx, from, joined, rejoined>>

(* What erase(it) leaves.  An iterator whose node is gone is undefined     *)
(* behaviour: any node may go, or none.                                    *)
Erased(t, n) == IF n \in t THEN {t \ {n}} ELSE {t} \cup {t \ {m} : m \in t}

(* Mutant: the member stays in the lookup map. *)
RemoveTimerOnly ==
    /\ mpc = "lock"
    /\ clients_timeout' \in Erased(clients_timeout, it)
    /\ Expire(clients_timeout', mnow)
    /\ UNCHANGED <<now, client_lookup, nodes, running, mnow, notified, stopping,
                   rx, from, joined, rejoined>>

(* With the mutex again: both maps are cleaned and the inner loop goes on, *)
(* with the time it was entered at.                                        *)
RemoveClient ==
    /\ mpc = "lock"
    /\ client_lookup' = [client_lookup EXCEPT ![it.client] = 0]
    /\ clients_timeout' \in Erased(clients_timeout, it)
    /\ Expire(clients_timeout', mnow)
    /\ UNCHANGED <<now, nodes, running, mnow, notified, stopping, rx, from,
                   joined, rejoined>>

(***************************************************************************)
(* stop_membership_monitor, from the destructor.                           *)
(***************************************************************************)

StopMonitor ==
    /\ stopping = "no" /\ stopping' = "notify"
    /\ running' = FALSE
    /\ UNCHANGED <<now, timers, monitor, rx, from, joined, rejoined>>

(* Mutant: no notify_one before the join. *)
StopSilently ==
    /\ stopping = "notify" /\ stopping' = "join"
    /\ UNCHANGED <<now, timers, running, monitor, rx, from, joined, rejoined>>

StopNotify ==
    /\ stopping = "notify" /\ stopping' = "join"
    /\ NotifyMonitor
    /\ UNCHANGED <<now, timers, running, mpc, earliest, mnow, it, rx, from,
                   joined, rejoined>>

-----------------------------------------------------------------------------

MonitorStep == WakeNotified \/ WakeTimeout \/ SendNotifyLeft \/ RemoveClient
SignalStep == HeartbeatUpdate \/ SendKey

Next ==
    \/ Tick \/ MonitorStep \/ SignalStep \/ StopMonitor \/ StopNotify
    \/ \E c \in Members : ReceiveJoin(c)

Spec == Init /\ [][Next]_vars

(* Time passes, the threads run, a thread that is being destroyed is       *)
(* notified.  Nobody has to join, to send or to stop.                      *)
FairSpec ==
    /\ Spec
    /\ WF_vars(Tick) /\ WF_vars(MonitorStep) /\ WF_vars(SignalStep)
    /\ WF_vars(StopNotify)

-----------------------------------------------------------------------------

Timer == [node : Nat \ {0}, client : Members, expiry : Nat]

(* Types of the timers and of the two threads' locals; no timer expires    *)
(* before time zero.                                                       *)
TypeOK ==
    /\ now \in Nat /\ nodes \in Nat /\ mnow \in Nat /\ earliest \in Nat
    /\ clients_timeout \subseteq Timer
    /\ client_lookup \in [Members -> Nat]
    /\ running \in BOOLEAN /\ notified \in BOOLEAN
    /\ mpc \in {"wait", "wait_until", "send", "lock", "off"}
    /\ it \in Timer \cup {Nowhere}
    /\ stopping \in {"no", "notify", "join"}
    /\ rx \in {"idle", "beat", "key"} /\ from \in Members
    /\ joined \in [Members -> Nat] /\ rejoined \in BOOLEAN

(* Only a member whose heartbeat has expired is taken out of the           *)
(* membership ("find all clients that have expired your heartbeats" ...    *)
(* "clean up maps").  Violated: a JOIN that comes while the monitor has    *)
(* unlocked to announce the same member gives it a new timer, and then     *)
(* both maps are cleaned of it, with an iterator whose node is gone.       *)
OnlyExpiredRemoved ==
    [][\A c \in Members :
          client_lookup[c] # 0 /\ client_lookup'[c] = 0
              => joined[c] + TIMEOUT <= now]_vars

(* After such a JOIN erase(it) is undefined.  MapsAgree, NoEarlyExpiry and *)
(* SilentAreRemoved are stated up to it.                                   *)

(* The two maps agree: the lookup map leads to every timer and to nothing  *)
(* else, so that a member has at most one and heartbeat_update erases the  *)
(* right one.                                                              *)
MapsAgree ==
    ~rejoined =>
        /\ \A n \in clients_timeout : client_lookup[n.client] = n.node
        /\ \A c \in Members : client_lookup[c] # 0 =>
               \E n \in clients_timeout : n.client = c

(* No member is announced as gone before _timeout_duration has passed      *)
(* since its last JOIN, although the monitor's wake-up races with          *)
(* heartbeat_update and its time is read once for many timers.             *)
NoEarlyExpiry ==
    ~rejoined /\ mpc \in {"send", "lock"} => joined[it.client] + TIMEOUT <= mnow

(* A member that stops joining is removed. *)
SilentAreRemoved ==
    \A c \in Members :
        client_lookup[c] # 0 ~> client_lookup[c] = 0 \/ ~running \/ rejoined

(* The destructor's join returns: the stop is never missed, wherever the   *)
(* monitor is when it comes, and also after an erase(it) that took any     *)
(* other timer or none.                                                    *)
StopReturns == ~running ~> mpc = "off"
=============================================================================
