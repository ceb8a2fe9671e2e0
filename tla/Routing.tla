------------------------------- MODULE Routing -------------------------------
(***************************************************************************)
(* How a message finds its way between components: the gateway that        *)
(* forwards between a vehicle's shared memory and the radio                *)
(* (Protocol::send, Protocol::update), the observers of ports and types,   *)
(* the communicator's queue, and the traffic that uses them: PING and ECHO *)
(* (LatencyTestHandler), INTEREST and RESPONSE (TEDS).                     *)
(*                                                                         *)
(* The components have joined (see Joining): they have their ports, all    *)
(* their listeners, and read every frame of their vehicle's ring in order. *)
(* The radio loses frames (quadrant filter and authentication included,    *)
(* see Vehicle) and delivers them in any order.                            *)
(***************************************************************************)
EXTENDS Naturals, Sequences

CONSTANTS
    Vehicles,               \* by the MAC of their gateway's external NIC
    Components, Home, Port, \* components, the vehicle and the port of each
    Sensors, Unit,          \* the others are actuators; the TEDS type of each
    Local, Broadcast,       \* Ethernet::LOCAL_ADDR, BROADCAST_ADDR
    MAX_MESSAGES            \* bound: PINGs, INTERESTs and RESPONSEs sent

BASE_PORT == 1000
TYPE_BASED_ROUTING_PORT == 0

ASSUME AddressesAssumption ==
    /\ Components \cap Vehicles = {}
    /\ {Local, Broadcast} \cap Vehicles = {} /\ Local # Broadcast
    /\ Home \in [Components -> Vehicles] /\ Sensors \subseteq Components
    /\ Port \in [Components -> Nat \ {TYPE_BASED_ROUTING_PORT}]
    /\ \A c, d \in Components : Home[c] = Home[d] /\ c # d => Port[c] # Port[d]

ASSUME BoundsAssumption == MAX_MESSAGES \in Nat

VARIABLES
    unread,                 \* frames of its vehicle's ring a process has to read
    air,                    \* frames a gateway's socket has to read
    queue,                  \* the communicator's _data
    messages,               \* PINGs, INTERESTs and RESPONSEs sent by all
    pinged, replied,        \* PINGs and RESPONSEs sent
    interested, asked,      \* an INTEREST was sent, was taken
    rtt,                    \* the round trips a component measured
    seen, again             \* history: what was queued; what was queued twice

sent == <<messages, pinged, replied, interested>>
taken == <<asked, rtt>>
history == <<seen, again>>
vars == <<unread, air, queue, sent, taken, history>>

Processes == Components \cup Vehicles       \* a vehicle names its gateway process
Aboard(v) == {v} \cup {c \in Components : Home[c] = v}

(* A frame with the segment it carries.  "by" is the component that sent   *)
(* it (the receiver knows only src and sport); sid and ts are the sender   *)
(* id and the timestamp of a latency packet.                               *)
Frame == [kind : {"PING", "ECHO", "INTEREST", "RESPONSE"}, by : Components,
          sid : Components, ts : Nat, src : Vehicles \cup {Local}, sport : Nat,
          dst : {Local, Broadcast}, dport : Nat]
Identity(f) == <<f.kind, f.by, f.sid, f.ts>>

Init ==
    /\ unread = [p \in Processes |-> <<>>]
    /\ air = [v \in Vehicles |-> {}] /\ queue = [c \in Components |-> <<>>]
    /\ messages = 0
    /\ pinged = [c \in Components |-> 0] /\ replied = [c \in Components |-> 0]
    /\ interested = [c \in Components |-> FALSE] /\ asked = [c \in Components |-> FALSE]
    /\ rtt = [c \in Components |-> {}]
    /\ seen = [c \in Components |-> {}] /\ again = {}

(***************************************************************************)
(* Sending.                                                                *)
(***************************************************************************)

Publish(v, f) ==
    unread' = [p \in Processes |-> IF p \in Aboard(v) THEN Append(unread[p], f) ELSE unread[p]]

(* Protocol::send of a component: always its vehicle's ring.               *)
Send(c, kind, sid, ts, dst, dport) ==
    Publish(Home[c], [kind |-> kind, by |-> c, sid |-> sid, ts |-> ts,
                      src |-> Local, sport |-> Port[c], dst |-> dst, dport |-> dport])

(* The bound of the model: a component may always start another message.   *)
Starts == messages < MAX_MESSAGES /\ messages' = messages + 1

(* active_send: PINGs go outside and inside in turn, to the first port.    *)
SendPing(c) ==
    /\ Starts
    /\ pinged' = [pinged EXCEPT ![c] = @ + 1]
    /\ Send(c, "PING", c, pinged[c] + 1,
            IF pinged[c] % 2 = 0 THEN Broadcast ELSE Local, BASE_PORT)
    /\ UNCHANGED <<air, queue, replied, interested, taken, history>>

(* An actuator asks once, at the end of its boot.                          *)
SendInterest(c) ==
    /\ Starts
    /\ c \notin Sensors /\ ~interested[c] /\ interested' = [interested EXCEPT ![c] = TRUE]
    /\ Send(c, "INTEREST", c, 0, Broadcast, TYPE_BASED_ROUTING_PORT)
    /\ UNCHANGED <<air, queue, pinged, replied, taken, history>>

(* The response thread, started by the first INTEREST (see Subscriptions). *)
SendResponse(c) ==
    /\ Starts
    /\ asked[c] /\ replied' = [replied EXCEPT ![c] = @ + 1]
    /\ Send(c, "RESPONSE", c, replied[c] + 1, Broadcast, TYPE_BASED_ROUTING_PORT)
    /\ UNCHANGED <<air, queue, pinged, interested, taken, history>>

(***************************************************************************)
(* The gateway.                                                            *)
(***************************************************************************)

NextFrame(p) == Head(unread[p])
Reads(p) == unread[p] # <<>> /\ unread' = [unread EXCEPT ![p] = Tail(@)]

(* Mutant: the forwarded frame keeps the source LOCAL. *)
ForwardUnsigned(v) ==
    /\ Reads(v)
    /\ IF NextFrame(v).dst = Broadcast
       THEN \E R \in SUBSET Vehicles :
               air' = [w \in Vehicles |->
                          IF w \in R THEN air[w] \cup {NextFrame(v)} ELSE air[w]]
       ELSE air' = air
    /\ UNCHANGED <<queue, sent, taken, history>>

(* A broadcast frame goes out with the gateway's address; whoever the      *)
(* radio reaches gets it, the sender's own socket perhaps too.  A frame    *)
(* for a local port is not the gateway's.                                  *)
Forward(v) ==
    /\ Reads(v)
    /\ IF NextFrame(v).dst = Broadcast
       THEN \E R \in SUBSET Vehicles :
               air' = [w \in Vehicles |->
                          IF w \in R THEN air[w] \cup {[NextFrame(v) EXCEPT !.src = v]} ELSE air[w]]
       ELSE air' = air
    /\ UNCHANGED <<queue, sent, taken, history>>

(* Mutants: the frame keeps the destination BROADCAST in the ring, or gets *)
(* the vehicle's own address instead of LOCAL.                             *)
AcceptBroadcast(v, f) ==
    /\ f \in air[v] /\ air' = [air EXCEPT ![v] = @ \ {f}]
    /\ IF f.src = v THEN UNCHANGED unread ELSE Publish(v, f)
    /\ UNCHANGED <<queue, sent, taken, history>>

AcceptForVehicle(v, f) ==
    /\ f \in air[v] /\ air' = [air EXCEPT ![v] = @ \ {f}]
    /\ IF f.src = v THEN UNCHANGED unread ELSE Publish(v, [f EXCEPT !.dst = v])
    /\ UNCHANGED <<queue, sent, taken, history>>

(* handle_receive skips the gateway's own frames; Protocol::update sends   *)
(* the others into the ring, for the local port, with the remote source.   *)
Accept(v, f) ==
    /\ f \in air[v] /\ air' = [air EXCEPT ![v] = @ \ {f}]
    /\ IF f.src = v THEN UNCHANGED unread ELSE Publish(v, [f EXCEPT !.dst = Local])
    /\ UNCHANGED <<queue, sent, taken, history>>

(***************************************************************************)
(* A component's NIC receiver and its receiver loop.                       *)
(***************************************************************************)

(* extract_type: INTERESTs carry the request type, RESPONSEs the response. *)
TypeOf(f) == [request |-> f.kind = "INTEREST", unit |-> Unit[f.by]]
ListensTo(c) == [request |-> c \in Sensors, unit |-> Unit[c]]

(* Protocol::update and notify_communicator of a component.                *)
Matches(c, f) ==
    IF f.dport = TYPE_BASED_ROUTING_PORT THEN TypeOf(f) = ListensTo(c)
    ELSE f.dst # Broadcast /\ f.dport = Port[c]

Update(c) ==
    LET f == NextFrame(c) IN
    /\ Reads(c)
    /\ IF Matches(c, f)
       THEN /\ queue' = [queue EXCEPT ![c] = Append(@, f)]
            /\ seen' = [seen EXCEPT ![c] = @ \cup {Identity(f)}]
            /\ again' = IF Identity(f) \in seen[c] THEN again \cup {<<c, Identity(f)>>} ELSE again
       ELSE UNCHANGED <<queue, history>>
    /\ UNCHANGED <<air, sent, taken>>

Takes(c, kinds) ==
    /\ queue[c] # <<>> /\ Head(queue[c]).kind \in kinds
    /\ queue' = [queue EXCEPT ![c] = Tail(@)]
    /\ UNCHANGED <<air, sent, history>>

(* Mutants: every ECHO goes outside; an ECHO is answered too. *)
EchoOutside(c) ==
    LET f == Head(queue[c]) IN
    /\ Takes(c, {"PING"})
    /\ Send(c, "ECHO", f.sid, f.ts, Broadcast, BASE_PORT)
    /\ UNCHANGED taken

EchoAll(c) ==
    LET f == Head(queue[c]) IN
    /\ Takes(c, {"PING", "ECHO"})
    /\ Send(c, "ECHO", f.sid, f.ts, IF f.src = Local THEN Local ELSE Broadcast, BASE_PORT)
    /\ UNCHANGED taken

(* The ECHO goes to the first port, inside or outside like the PING came.  *)
TakePing(c) ==
    LET f == Head(queue[c]) IN
    /\ Takes(c, {"PING"})
    /\ Send(c, "ECHO", f.sid, f.ts, IF f.src = Local THEN Local ELSE Broadcast, BASE_PORT)
    /\ UNCHANGED taken

(* Mutant: the sender id is not compared. *)
TakeAnyEcho(c) ==
    LET f == Head(queue[c]) IN
    /\ Takes(c, {"ECHO"})
    /\ rtt' = [rtt EXCEPT ![c] = @ \cup {[from |-> f.by, ts |-> f.ts]}]
    /\ UNCHANGED <<unread, asked>>


TakeEcho(c) ==
    LET f == Head(queue[c]) IN
    /\ Takes(c, {"ECHO"})
    /\ rtt' = IF f.sid = c THEN [rtt EXCEPT ![c] = @ \cup {[from |-> f.by, ts |-> f.ts]}] ELSE rtt
    /\ UNCHANGED <<unread, asked>>

TakeTeds(c) ==
    /\ Takes(c, {"INTEREST", "RESPONSE"})
    /\ asked' = [asked EXCEPT ![c] = @ \/ Head(queue[c]).kind = "INTEREST"]
    /\ UNCHANGED <<unread, rtt>>

-----------------------------------------------------------------------------

Receive(c) == Update(c) \/ TakePing(c) \/ TakeEcho(c) \/ TakeTeds(c)
Gateway(v) == Forward(v) \/ \E f \in air[v] : Accept(v, f)

Next ==
    \/ \E c \in Components : Receive(c) \/ SendPing(c) \/ SendInterest(c) \/ SendResponse(c)
    \/ \E v \in Vehicles : Gateway(v)

Spec == Init /\ [][Next]_vars

(* Receiver and gateway threads run on; nobody has to send.                *)
Fairness ==
    /\ \A c \in Components : WF_vars(Receive(c))
    /\ \A v \in Vehicles : WF_vars(Gateway(v))
LiveSpec == Spec /\ Fairness

-----------------------------------------------------------------------------

TypeOK ==
    /\ unread \in [Processes -> Seq(Frame)]
    /\ air \in [Vehicles -> SUBSET Frame] /\ queue \in [Components -> Seq(Frame)]
    /\ messages \in Nat
    /\ pinged \in [Components -> Nat] /\ replied \in [Components -> Nat]
    /\ interested \in [Components -> BOOLEAN] /\ asked \in [Components -> BOOLEAN]
    /\ rtt \in [Components -> SUBSET [from : Components, ts : Nat]]

(* A communicator never gets the same message twice: not from the ring and *)
(* again from its own gateway, not from two gateways, not in a loop.       *)
DeliveredOnce == again = {}

(* The source address of a queued message identifies who sent it: LOCAL    *)
(* and the port inside the vehicle, the vehicle's MAC and the port outside.*)
(* Subscriptions are kept by that address, and an ECHO goes where it says. *)
SourceIdentifies ==
    \A c \in Components : \A i \in DOMAIN queue[c] :
        LET f == queue[c][i] IN
        f.src = (IF Home[f.by] = Home[c] THEN Local ELSE Home[f.by]) /\ f.sport = Port[f.by]

(* Who measures a round trip sent that PING, from the first port; a PING   *)
(* sent outside was answered from another vehicle, one sent inside by the  *)
(* component itself.                                                       *)
MeasuresOwn ==
    \A c \in Components : \A m \in rtt[c] :
        /\ m.ts \in 1 .. pinged[c] /\ Port[c] = BASE_PORT /\ Port[m.from] = BASE_PORT
        /\ IF m.ts % 2 = 1 THEN Home[m.from] # Home[c] ELSE m.from = c

(* A PING sent inside by the component of the first port comes back to it. *)
LocalPingReturns ==
    \A c \in Components : \A n \in 1 .. MAX_MESSAGES :
        Port[c] = BASE_PORT /\ n % 2 = 0 =>
            (pinged[c] >= n ~> [from |-> c, ts |-> n] \in rtt[c])

(* Forwarding ends: once nobody sends any more, the rings are read and the *)
(* radio and the queues are empty, for good.                               *)
Quiet ==
    <>[](/\ \A v \in Vehicles : air[v] = {}
         /\ \A p \in Processes : unread[p] = <<>>
         /\ \A c \in Components : queue[c] = <<>>)
=============================================================================
