------------------------------- MODULE Vehicle -------------------------------
(***************************************************************************)
(* Vehicles that move between quadrants and the roadside units that lead   *)
(* them: the gateway's quadrant thread and signal thread                   *)
(* (api/network/nic.hpp, api/network/protocol.hpp), the thread that        *)
(* forwards its components' messages, and the group member                 *)
(* (api/network/groups/group_member_handler.hpp).  There is one leader in  *)
(* each quadrant; it is named by its quadrant and answers JOINs.           *)
(*                                                                         *)
(* A broadcast is one frame for each vehicle it reaches.  A message is     *)
(* authenticated iff its sender's key is the receiver's.                   *)
(***************************************************************************)
EXTENDS Integers, FiniteSets

CONSTANTS
    Vehicles, Quadrants,
    KeyOf,                  \* the key the leader of each quadrant sends out
    NoKey,                  \* what the shared block holds at first
    Garbage,                \* a key nobody made
    MAX_NEARBY_ENTITIES,
    MAX_MOVES,              \* bound: moves of all vehicles
    MAX_TRAFFIC,            \* bound: messages of components and NOTIFY_LEFTs
    MAX_LOSSES              \* bound: frames that get lost

Entities == Vehicles \cup Quadrants
Keys == {KeyOf[q] : q \in Quadrants} \cup {NoKey, Garbage}

ASSUME NamesAssumption ==
    /\ Vehicles \cap Quadrants = {}
    /\ DOMAIN KeyOf = Quadrants
    /\ IsFiniteSet(Vehicles) /\ IsFiniteSet(Quadrants) /\ Quadrants # {}

ASSUME BoundsAssumption ==
    /\ MAX_NEARBY_ENTITIES \in Nat /\ MAX_MOVES \in Nat
    /\ MAX_TRAFFIC \in Nat /\ MAX_LOSSES \in Nat

VARIABLES
    quadrant,               \* _quadrant of each external NIC
    session_key, nearby, bus,       \* each vehicle's shared block
    qpc,                    \* the main thread, later the quadrant thread
    rx, buf,                \* the signal thread and the frame it handles
    tx, stamp,              \* the forwarding thread and what it has read
    network,                \* the frames under way
    lost, moves, traffic,   \* history: lost frames, moves and messages so far
    visit                   \* history: the move that brought each vehicle here

place == <<quadrant, qpc, visit, moves>>
signal == <<rx, buf>>
forward == <<tx, stamp>>
vars == <<place, session_key, nearby, bus, signal, forward, network, lost, traffic>>

Frame(kind, from, to, loc, key, nr, sure) ==
    [kind |-> kind, from |-> from, to |-> to, loc |-> loc, key |-> key,
     nr |-> nr, sure |-> sure]

NoFrame == [kind |-> "NONE"]
NoStamp == [loc |-> "NONE", nr |-> 0]

(* A JOIN of v on its way to a leader, or a leader's answer to it. *)
Concerns(v, f) ==
    \/ f.kind = "JOIN" /\ f.from = v /\ f.to \in Quadrants
    \/ f.kind = "KEY" /\ f.to = v

Holds(v, kind) == rx[v] # "idle" /\ buf[v].kind = kind

(* The JOIN vehicle v sends, or sent, when it came here is not answered:   *)
(* it is still to be sent, or it or its answer is under way or lost.       *)
Pending(v) ==
    \/ qpc[v] \in {"boot", "first", "join"}
    \/ \E f \in network \cup lost : Concerns(v, f) /\ f.nr = visit[v]

(* Nor is it answered while the signal thread has a KEY in its hands. *)
Awaited(v) == Pending(v) \/ Holds(v, "KEY")

Settled(v) == ~Awaited(v) /\ session_key[v] # Garbage

(* init_gateway up to update_quadrant: the NIC runs, its quadrant is not   *)
(* yet initialised.                                                        *)
Init ==
    /\ quadrant \in [Vehicles -> Quadrants]
    /\ session_key = [v \in Vehicles |-> NoKey]
    /\ nearby = [v \in Vehicles |-> {}]
    /\ bus = [v \in Vehicles |-> {}]
    /\ qpc = [v \in Vehicles |-> "boot"]
    /\ rx = [v \in Vehicles |-> "idle"]
    /\ buf = [v \in Vehicles |-> NoFrame]
    /\ tx = [v \in Vehicles |-> "idle"]
    /\ stamp = [v \in Vehicles |-> NoStamp]
    /\ network = {} /\ lost = {}
    /\ visit = [v \in Vehicles |-> 0] /\ moves = 0 /\ traffic = 0

Goes(v, from, to) == qpc[v] = from /\ qpc' = [qpc EXCEPT ![v] = to]

(***************************************************************************)
(* The main thread: update_quadrant.                                       *)
(***************************************************************************)

(* set_location on both NICs; the one of the shared block only marks       *)
(* frames of the local bus, where nobody looks at it.                      *)
UpdateQuadrant(v) ==
    /\ Goes(v, "boot", "first")
    /\ \E q \in Quadrants : quadrant' = [quadrant EXCEPT ![v] = q]
    /\ UNCHANGED <<visit, moves, session_key, nearby, bus, signal, forward,
                   network, lost, traffic>>

(***************************************************************************)
(* The quadrant thread: _quadrant_changer, and Protocol::update for its    *)
(* dirty buffer.                                                           *)
(***************************************************************************)

Move(v) ==
    /\ Goes(v, "sleep", "join")
    /\ moves < MAX_MOVES /\ moves' = moves + 1
    /\ visit' = [visit EXCEPT ![v] = moves']
    /\ \E q \in Quadrants \ {quadrant[v]} : quadrant' = [quadrant EXCEPT ![v] = q]
    /\ UNCHANGED <<session_key, nearby, bus, signal, forward, network, lost, traffic>>

(* notify_location_change broadcasts a JOIN.  Of the leaders only the one  *)
(* of the quadrant lets it pass its filter.                                *)
SendJoin(v) ==
    /\ Goes(v, "first", "sleep") \/ Goes(v, "join", "reset")
    /\ network' = network \cup
           {Frame("JOIN", v, e, quadrant[v], NoKey, visit[v], FALSE) :
                e \in {quadrant[v]} \cup (Vehicles \ {v})}
    /\ UNCHANGED <<quadrant, visit, moves, session_key, nearby, bus, signal,
                   forward, lost, traffic>>

ResetNearby(v) ==
    /\ Goes(v, "reset", "sleep")
    /\ nearby' = [nearby EXCEPT ![v] = {}]
    /\ UNCHANGED <<quadrant, visit, moves, session_key, bus, signal, forward,
                   network, lost, traffic>>

(***************************************************************************)
(* The signal thread: handle_receive, and Protocol::update for a frame.    *)
(***************************************************************************)

(* Mutant: without filter_location. *)
HandleReceiveUnfiltered(v, f) ==
    /\ rx[v] = "idle" /\ f.to = v
    /\ network' = network \ {f}
    /\ rx' = [rx EXCEPT ![v] = "update"] /\ buf' = [buf EXCEPT ![v] = f]
    /\ UNCHANGED <<place, session_key, nearby, bus, forward, lost, traffic>>

(* The next frame, if filter_location lets it pass. *)
HandleReceive(v, f) ==
    /\ rx[v] = "idle" /\ f.to = v
    /\ network' = network \ {f}
    /\ IF f.loc = quadrant[v]
       THEN rx' = [rx EXCEPT ![v] = "update"] /\ buf' = [buf EXCEPT ![v] = f]
       ELSE UNCHANGED signal
    /\ UNCHANGED <<place, session_key, nearby, bus, forward, lost, traffic>>

(* Protocol::update has the frame.  register_nearby_entity comes first; a  *)
(* full list stays as it is.                                               *)
Update(v, kind) ==
    /\ rx[v] = "update" /\ buf[v].kind = kind
    /\ nearby' = [nearby EXCEPT ![v] =
           IF Cardinality(@) < MAX_NEARBY_ENTITIES THEN @ \cup {buf[v].from} ELSE @]
    /\ rx' = [rx EXCEPT ![v] = "idle"] /\ buf' = [buf EXCEPT ![v] = NoFrame]

(* GroupMemberHandler::handle_group_message takes the key. *)
HandleKey(v) ==
    /\ Update(v, "KEY")
    /\ session_key' = [session_key EXCEPT ![v] = buf[v].key]
    /\ UNCHANGED <<place, bus, forward, network, lost, traffic>>

(* It ignores JOINs. *)
HandleJoin(v) ==
    /\ Update(v, "JOIN")
    /\ UNCHANGED <<place, session_key, bus, forward, network, lost, traffic>>

(* The segment of a NOTIFY_LEFT is padded in front of its payload, where   *)
(* the member looks for the type: it reads a byte nobody wrote.  Read as   *)
(* KEY_DISTRIBUTION, the bytes behind it become the key; read as           *)
(* NOTIFY_LEFT, the entity to unregister is an address nobody has; any     *)
(* other value is ignored.                                                 *)
HandleLeft(v) ==
    /\ Update(v, "LEFT")
    /\ \E key \in {session_key[v], Garbage} :
           session_key' = [session_key EXCEPT ![v] = key]
    /\ UNCHANGED <<place, bus, forward, network, lost, traffic>>

(* Mutant: takes messages only of entities that got into the list. *)
HandleServiceKnown(v) ==
    /\ Update(v, "SERVICE")
    /\ bus' = [bus EXCEPT ![v] =
           IF buf[v].key = session_key[v] /\ buf[v].from \in nearby'[v]
           THEN @ \cup {buf[v].nr} ELSE @]
    /\ UNCHANGED <<place, session_key, forward, network, lost, traffic>>

(* A message for the components goes to the local bus if its code is the   *)
(* one the vehicle's own key gives.                                        *)
HandleService(v) ==
    /\ Update(v, "SERVICE")
    /\ bus' = [bus EXCEPT ![v] =
           IF buf[v].key = session_key[v] THEN @ \cup {buf[v].nr} ELSE @]
    /\ UNCHANGED <<place, session_key, forward, network, lost, traffic>>

(***************************************************************************)
(* The receiver thread of the local NIC forwards a broadcast of a          *)
(* component: _send_frame reads the quadrant, and later the key.           *)
(***************************************************************************)

StampService(v) ==
    /\ tx[v] = "idle" /\ tx' = [tx EXCEPT ![v] = "sign"]
    /\ traffic < MAX_TRAFFIC /\ traffic' = traffic + 1
    /\ stamp' = [stamp EXCEPT ![v] = [loc |-> quadrant[v], nr |-> traffic']]
    /\ UNCHANGED <<place, session_key, nearby, bus, signal, network, lost>>

(* The frame is sure if its sender has settled where the frame says and no *)
(* NOTIFY_LEFT has spoilt its key.                                         *)
SignService(v) ==
    /\ tx[v] = "sign" /\ tx' = [tx EXCEPT ![v] = "idle"]
    /\ stamp' = [stamp EXCEPT ![v] = NoStamp]
    /\ network' = network \cup
           {Frame("SERVICE", v, w, stamp[v].loc, session_key[v], stamp[v].nr,
                  Settled(v) /\ stamp[v].loc = quadrant[v]) : w \in Vehicles \ {v}}
    /\ UNCHANGED <<place, session_key, nearby, bus, signal, lost, traffic>>

(***************************************************************************)
(* The leaders and the network.                                            *)
(***************************************************************************)

(* GroupLeaderHandler::handle_group_message and send_key. *)
LeaderJoin(f) ==
    /\ f.kind = "JOIN" /\ f.to \in Quadrants
    /\ network' = (network \ {f}) \cup
           {Frame("KEY", f.to, f.from, f.to, KeyOf[f.to], f.nr, FALSE)}
    /\ UNCHANGED <<place, session_key, nearby, bus, signal, forward, lost, traffic>>

(* send_notify_left, when a member's timer runs out. *)
LeaderLeft(q) ==
    /\ traffic < MAX_TRAFFIC /\ traffic' = traffic + 1
    /\ network' = network \cup
           {Frame("LEFT", q, v, q, NoKey, traffic', FALSE) : v \in Vehicles}
    /\ UNCHANGED <<place, session_key, nearby, bus, signal, forward, lost>>

Lose(f) ==
    /\ Cardinality(lost) < MAX_LOSSES
    /\ network' = network \ {f} /\ lost' = lost \cup {f}
    /\ UNCHANGED <<place, session_key, nearby, bus, signal, forward, traffic>>

-----------------------------------------------------------------------------

QuadrantStep(v) ==
    UpdateQuadrant(v) \/ SendJoin(v) \/ ResetNearby(v)

SignalStep(v) ==
    \/ \E f \in network : HandleReceive(v, f)
    \/ HandleKey(v) \/ HandleJoin(v) \/ HandleLeft(v) \/ HandleService(v)

Next ==
    \/ \E v \in Vehicles : \/ Move(v) \/ QuadrantStep(v) \/ SignalStep(v)
                           \/ StampService(v) \/ SignService(v)
    \/ \E f \in network : LeaderJoin(f) \/ Lose(f)
    \/ \E q \in Quadrants : LeaderLeft(q)

Spec == Init /\ [][Next]_vars

-----------------------------------------------------------------------------

Frames == [kind : {"JOIN", "KEY", "LEFT", "SERVICE"}, from : Entities, to : Entities,
           loc : Quadrants, key : Keys, nr : Nat, sure : BOOLEAN]

(* Types; the list of nearby entities never outgrows its array. *)
TypeOK ==
    /\ quadrant \in [Vehicles -> Quadrants]
    /\ session_key \in [Vehicles -> Keys]
    /\ nearby \in [Vehicles -> SUBSET Entities]
    /\ \A v \in Vehicles : Cardinality(nearby[v]) <= MAX_NEARBY_ENTITIES
    /\ bus \in [Vehicles -> SUBSET Nat]
    /\ qpc \in [Vehicles -> {"boot", "first", "sleep", "join", "reset"}]
    /\ rx \in [Vehicles -> {"idle", "update"}]
    /\ buf \in [Vehicles -> Frames \cup {NoFrame}]
    /\ tx \in [Vehicles -> {"idle", "sign"}]
    /\ stamp \in [Vehicles -> [loc : Quadrants, nr : Nat] \cup {NoStamp}]
    /\ network \subseteq Frames /\ lost \subseteq Frames
    /\ visit \in [Vehicles -> Nat] /\ moves \in Nat /\ traffic \in Nat

(* A vehicle whose latest JOIN has been answered has the key of the        *)
(* quadrant it is in, unless a NOTIFY_LEFT has spoilt it: no key of a      *)
(* quadrant it has left, delayed on the wire or in the hands of the signal *)
(* thread while the quadrant thread moved on, replaces it.                 *)
KeySettles ==
    \A v \in Vehicles : Settled(v) => session_key[v] = KeyOf[quadrant[v]]

(* A message that a settled vehicle sends from its quadrant is taken by    *)
(* every settled vehicle there, although both ends may have moved since.   *)
(* (Settled when _send_frame reads the key, in the quadrant it has read    *)
(* before: a move between the two reads is excepted.)                      *)
MembersUnderstand ==
    [][\A v \in Vehicles :
           /\ rx[v] = "update" /\ rx'[v] = "idle" /\ Settled(v)
           /\ buf[v].kind = "SERVICE" /\ buf[v].sure /\ buf[v].loc = quadrant[v]
           => buf[v].nr \in bus'[v]]_vars

=============================================================================
