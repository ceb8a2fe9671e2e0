------------------------------- MODULE Joining -------------------------------
(***************************************************************************)
(* How a component joins its vehicle: the client slot and the directory    *)
(* entry it takes in the shared block (ShmEngine::_register_client,        *)
(* registerService), the boot of a Component, and the first messages that  *)
(* reach it meanwhile.                                                     *)
(*                                                                         *)
(* The ring is the sequence of the frames published in it (ShmEngine and   *)
(* MessageBus are about its slots).  A process reads it from the first     *)
(* frame on, one frame for each signal of its client semaphore, and is     *)
(* signalled for what is published while it is a client.  What the gateway *)
(* and the handlers do with the messages is the subject of Routing and     *)
(* Subscriptions; here an INTEREST is queued, a PING of another vehicle is *)
(* queued and answered.  Fewer than BUFFER_SLOTS frames are sent, so no    *)
(* writer waits.                                                           *)
(***************************************************************************)
EXTENDS Naturals, Sequences, FiniteSets

CONSTANTS
    Components,             \* the component processes of one vehicle
    Gateway, NoOne,         \* its gateway process; nobody holds DIRECTORY_SEM
    Sensors, Unit,          \* the others are actuators; the TEDS type of each
    MAX_CLIENTS,
    MAX_FOREIGN,            \* bound: PINGs of other vehicles
    Mortal                  \* bound: the components that may be killed

ASSUME ComponentsAssumption ==
    /\ IsFiniteSet(Components) /\ Sensors \subseteq Components /\ Mortal \subseteq Components
    /\ Gateway \notin Components /\ NoOne \notin Components

ASSUME BoundsAssumption == MAX_CLIENTS \in Nat \ {0} /\ MAX_FOREIGN \in Nat

BASE_PORT == 1000

VARIABLES
    clients, removed,       \* client_registry; the IPC objects were removed
    entries, next, lock,    \* the directory; next_port_to_assign; its semaphore
    pc, slot, ticket, port, \* boot of a component; registerService's locals; _port
    ring, late,             \* the frames published; how many before p registered
    pos, credit,            \* frames p has read; its client semaphore
    queue,                  \* the communicator's _data
    foreign, seen           \* PINGs forwarded; history: INTERESTs queued

directory == <<entries, next, lock, slot, ticket>>
bus == <<ring, late, pos, credit>>
vars == <<clients, removed, directory, pc, port, bus, queue, foreign, seen>>

Processes == Components \cup {Gateway}
SlotsShort == 1 .. MAX_CLIENTS - 1      \* mutant: one entry too few
Slots == 1 .. MAX_CLIENTS
Entry == [active : BOOLEAN, owner : Components \cup {NoOne}, port : Nat]
FreeEntry == [active |-> FALSE, owner |-> NoOne, port |-> 0]
Frame == [kind : {"PING", "ECHO", "INTEREST"}, by : Processes]

Locking == {"locked", "claimed", "numbered"}
Subscribed == {"up", "asked"}
Handling == {"handlers", "observer"} \cup Subscribed
Listening == {"listening"} \cup Handling
Phases == {"forked", "registered", "assigned", "dead"} \cup Locking \cup Listening

Init ==
    /\ clients = {} /\ removed = FALSE
    /\ entries = [i \in Slots |-> FreeEntry] /\ next = BASE_PORT /\ lock = NoOne
    /\ pc = [c \in Components |-> "forked"]
    /\ slot = [c \in Components |-> 0] /\ ticket = [c \in Components |-> 0]
    /\ port = [c \in Components |-> 0]
    /\ ring = <<>> /\ late = [p \in Processes |-> 0]
    /\ pos = [p \in Processes |-> 0] /\ credit = [p \in Processes |-> 0]
    /\ queue = [c \in Components |-> <<>>]
    /\ foreign = 0 /\ seen = [c \in Components |-> {}]

Goes(c, from, to) == pc[c] = from /\ pc' = [pc EXCEPT ![c] = to]

(* The signals c has sent to p.                                            *)
Signals(c, p) == Cardinality({i \in DOMAIN ring : i > late[p] /\ ring[i].by = c})

(* Mutant: no SEM_UNDO for the directory's semaphore.                      *)
DiesLocked(c) ==
    /\ pc' = [pc EXCEPT ![c] = "dead"]
    /\ credit' = [p \in Processes |->
                     IF p = c \/ credit[p] < Signals(c, p) THEN 0
                     ELSE credit[p] - Signals(c, p)]
    /\ queue' = [queue EXCEPT ![c] = <<>>]
    /\ UNCHANGED <<clients, entries, next, lock, slot, ticket, port, ring, late, pos, foreign, seen>>

(* The process of c ends without any destructor.  Its client and directory *)
(* entries stay.  The kernel applies SEM_UNDO: the directory's semaphore   *)
(* is free again, and every signal c has sent is taken back.               *)
Dies(c) ==
    /\ pc' = [pc EXCEPT ![c] = "dead"]
    /\ lock' = IF lock = c THEN NoOne ELSE lock
    /\ credit' = [p \in Processes |->
                     IF p = c \/ credit[p] < Signals(c, p) THEN 0
                     ELSE credit[p] - Signals(c, p)]
    /\ queue' = [queue EXCEPT ![c] = <<>>]
    /\ UNCHANGED <<clients, entries, next, slot, ticket, port, ring, late, pos, foreign, seen>>

(***************************************************************************)
(* Registration in the shared block.                                       *)
(***************************************************************************)

(* The constructor of ShmEngine takes a slot of the client registry.       *)
RegisterClient(c) ==
    /\ ~removed /\ Cardinality(clients) < MAX_CLIENTS
    /\ Goes(c, "forked", "registered")
    /\ clients' = clients \cup {c}
    /\ late' = [late EXCEPT ![c] = Len(ring)]
    /\ UNCHANGED <<removed, directory, port, ring, pos, credit, queue, foreign, seen>>

(* No slot: _cleanupAndThrow removes the semaphores and the segment of the *)
(* whole vehicle before it throws.                                         *)
RegistryFull(c) ==
    /\ ~removed /\ Cardinality(clients) >= MAX_CLIENTS
    /\ pc[c] = "forked" /\ Dies(c)
    /\ removed' = TRUE

(* The gateway does the same; it is forked first, but nothing makes it     *)
(* register first.                                                         *)
RegisterGateway ==
    /\ ~removed /\ Gateway \notin clients /\ Cardinality(clients) < MAX_CLIENTS
    /\ clients' = clients \cup {Gateway}
    /\ late' = [late EXCEPT ![Gateway] = Len(ring)]
    /\ UNCHANGED <<removed, directory, pc, port, ring, pos, credit, queue, foreign, seen>>

GatewayRefused ==
    /\ ~removed /\ Gateway \notin clients /\ Cardinality(clients) >= MAX_CLIENTS
    /\ removed' = TRUE
    /\ UNCHANGED <<clients, directory, pc, port, bus, queue, foreign, seen>>

(* Semaphore operations fail once the semaphores are gone: the constructor *)
(* throws; registerService returns 0 and its caller throws.                *)
RegistrationFails(c) ==
    /\ removed /\ pc[c] \in {"forked", "registered"}
    /\ Dies(c) /\ UNCHANGED removed

(* Mutant: nobody waits for the semaphore. *)
LockNothing(c) ==
    /\ ~removed /\ lock' = c
    /\ Goes(c, "registered", "locked")
    /\ UNCHANGED <<clients, removed, entries, next, slot, ticket, port, bus, queue, foreign, seen>>

LockDirectory(c) ==
    /\ ~removed /\ lock = NoOne /\ lock' = c
    /\ Goes(c, "registered", "locked")
    /\ UNCHANGED <<clients, removed, entries, next, slot, ticket, port, bus, queue, foreign, seen>>

(* Mutant: the index of the entry after the one that was claimed. *)
ClaimPast(c) ==
    /\ Goes(c, "locked", "claimed")
    /\ \E i \in Slots :
        /\ ~entries[i].active /\ \A j \in 1 .. i - 1 : entries[j].active
        /\ slot' = [slot EXCEPT ![c] = i + 1]
        /\ entries' = [entries EXCEPT ![i] = [active |-> TRUE, owner |-> c, port |-> @.port]]
    /\ ticket' = [ticket EXCEPT ![c] = next]
    /\ UNCHANGED <<clients, removed, next, lock, port, bus, queue, foreign, seen>>

(* The first inactive entry becomes active and gets the component's name,  *)
(* type and pid, which only the lookups nobody calls would read;           *)
(* next_port_to_assign++ loads the counter.  (No inactive entry: see       *)
(* DirectoryHasRoom.)                                                      *)
ClaimEntry(c) ==
    /\ Goes(c, "locked", "claimed")
    /\ \E i \in Slots :
        /\ ~entries[i].active /\ \A j \in 1 .. i - 1 : entries[j].active
        /\ slot' = [slot EXCEPT ![c] = i]
        /\ entries' = [entries EXCEPT ![i] = [active |-> TRUE, owner |-> c, port |-> @.port]]
    /\ ticket' = [ticket EXCEPT ![c] = next]
    /\ UNCHANGED <<clients, removed, next, lock, port, bus, queue, foreign, seen>>

(* next_port_to_assign++ stores the counter.                               *)
CountPort(c) ==
    /\ Goes(c, "claimed", "numbered")
    /\ next' = ticket[c] + 1
    /\ UNCHANGED <<clients, removed, entries, lock, slot, ticket, port, bus, queue, foreign, seen>>

(* The port goes into the entry, the semaphore is released, the            *)
(* communicator is constructed and attached to the port.                   *)
AssignPort(c) ==
    /\ Goes(c, "numbered", "assigned")
    /\ entries' = [entries EXCEPT ![slot[c]].port = ticket[c]]
    /\ lock' = NoOne
    /\ port' = [port EXCEPT ![c] = ticket[c]]
    /\ UNCHANGED <<clients, removed, next, slot, ticket, bus, queue, foreign, seen>>

(***************************************************************************)
(* The rest of the boot.                                                   *)
(***************************************************************************)

Boots(c, from, to) ==
    /\ Goes(c, from, to)
    /\ UNCHANGED <<clients, removed, directory, port, bus, queue, foreign, seen>>

(* init_component starts the NIC's receiver; then the component's receiver *)
(* thread starts.                                                          *)
InitComponent(c) == Boots(c, "assigned", "listening")
MakeHandlers(c) == Boots(c, "listening", "handlers")

(* Conditionally_Data_Observed::attach inserts into two vectors.           *)
AttachObserver(c) == Boots(c, "handlers", "observer")
AttachCondition(c) == Boots(c, "observer", "up")

(* The receiver thread calls a handler that is not there yet.              *)
UseBeforeHandlers(c) ==
    /\ pc[c] = "listening" /\ queue[c] # <<>>
    /\ Dies(c) /\ UNCHANGED removed

Crash(c) ==
    /\ c \in Mortal /\ pc[c] \notin {"forked", "dead"}
    /\ Dies(c) /\ UNCHANGED removed

(***************************************************************************)
(* Messages.                                                               *)
(***************************************************************************)

(* Mutant: only the gateway is signalled. *)
PublishToGateway(f) ==
    /\ ring' = IF removed THEN ring ELSE Append(ring, f)
    /\ credit' = [p \in Processes |->
                     IF p = Gateway /\ p \in clients /\ ~removed
                     THEN credit[p] + 1 ELSE credit[p]]
    /\ UNCHANGED <<late, pos>>

(* A frame in the ring and a signal to every client, unless the semaphores *)
(* are gone.                                                               *)
Publish(f) ==
    /\ ring' = IF removed THEN ring ELSE Append(ring, f)
    /\ credit' = [p \in Processes |->
                     IF p \in clients /\ ~removed /\ (p = Gateway \/ pc[p] # "dead")
                     THEN credit[p] + 1 ELSE credit[p]]
    /\ UNCHANGED <<late, pos>>

(* The gateway passes on a PING of another vehicle, for the first port.    *)
ForwardPing ==
    /\ Gateway \in clients
    /\ foreign < MAX_FOREIGN /\ foreign' = foreign + 1
    /\ Publish([kind |-> "PING", by |-> Gateway])
    /\ UNCHANGED <<clients, removed, directory, pc, port, queue, seen>>

(* The last step of subscribe_to_responses.                                *)
SendInterest(c) ==
    /\ c \notin Sensors /\ Goes(c, "up", "asked")
    /\ Publish([kind |-> "INTEREST", by |-> c])
    /\ UNCHANGED <<clients, removed, directory, port, queue, foreign, seen>>

(* receive_zerocopy: the next frame, once the semaphore has a signal.      *)
CanRead(p) == credit[p] > 0 /\ ~removed
NextFrame(p) == ring[pos[p] + 1]
ReadsAgain(p) ==                \* mutant: the semaphore is not decremented
    /\ CanRead(p)
    /\ pos' = [pos EXCEPT ![p] = @ + 1]
    /\ UNCHANGED <<ring, late, credit>>
Reads(p) ==
    /\ CanRead(p)
    /\ pos' = [pos EXCEPT ![p] = @ + 1] /\ credit' = [credit EXCEPT ![p] = @ - 1]
    /\ UNCHANGED <<ring, late>>

(* The gateway's receiver (what it sends outside is in Routing).           *)
GatewayReads ==
    /\ Reads(Gateway)
    /\ UNCHANGED <<clients, removed, directory, pc, port, queue, foreign, seen>>

(* Mutant: the component is attached to its type before it has handlers. *)
MatchesEarly(c, f) ==
    \/ f.kind = "PING" /\ port[c] = BASE_PORT
    \/ f.kind = "INTEREST" /\ pc[c] \in Listening /\ c \in Sensors /\ Unit[f.by] = Unit[c]

(* Protocol::update of a component: a PING for its port; an INTEREST of    *)
(* its type if it is attached; the ECHO is for another vehicle.            *)
Matches(c, f) ==
    \/ f.kind = "PING" /\ port[c] = BASE_PORT
    \/ f.kind = "INTEREST" /\ pc[c] \in Subscribed /\ c \in Sensors /\ Unit[f.by] = Unit[c]

Update(c) ==
    LET f == NextFrame(c) IN
    /\ pc[c] \in Listening /\ Reads(c) /\ ~(pc[c] = "observer" /\ f.kind = "INTEREST")
    /\ queue' = IF Matches(c, f) THEN [queue EXCEPT ![c] = Append(@, f)] ELSE queue
    /\ seen' = IF Matches(c, f) /\ f.kind = "INTEREST"
               THEN [seen EXCEPT ![c] = @ \cup {f.by}] ELSE seen
    /\ UNCHANGED <<clients, removed, directory, pc, port, foreign>>

(* notify finds an observer without its condition and reads past the end   *)
(* of an empty vector.                                                     *)
UpdateInAttach(c) ==
    /\ pc[c] = "observer" /\ CanRead(c) /\ NextFrame(c).kind = "INTEREST"
    /\ Dies(c) /\ UNCHANGED removed

(* The receiver thread: the answer to a PING of another vehicle goes out   *)
(* through the ring; for an INTEREST see Subscriptions.                    *)
Handle(c) ==
    /\ pc[c] \in Handling /\ queue[c] # <<>>
    /\ queue' = [queue EXCEPT ![c] = Tail(@)]
    /\ IF Head(queue[c]).kind = "PING" THEN Publish([kind |-> "ECHO", by |-> c]) ELSE UNCHANGED bus
    /\ UNCHANGED <<clients, removed, directory, pc, port, foreign, seen>>

-----------------------------------------------------------------------------

Start(c) == RegisterClient(c) \/ RegistryFull(c)

Boot(c) ==
    \/ RegistrationFails(c)
    \/ LockDirectory(c) \/ ClaimEntry(c) \/ CountPort(c) \/ AssignPort(c)
    \/ InitComponent(c) \/ MakeHandlers(c) \/ AttachObserver(c) \/ AttachCondition(c)
    \/ SendInterest(c)

Receive(c) == Update(c) \/ UpdateInAttach(c) \/ Handle(c)

Next ==
    \/ \E c \in Components :
        Start(c) \/ Boot(c) \/ Receive(c) \/ UseBeforeHandlers(c) \/ Crash(c)
    \/ RegisterGateway \/ GatewayRefused \/ ForwardPing \/ GatewayReads

Spec == Init /\ [][Next]_vars

(* A thread that can take a step takes it.  How many components start_car  *)
(* forks is its argument, no other vehicle has to send a PING, and nobody  *)
(* has to die.                                                             *)
Fairness ==
    /\ \A c \in Components : WF_vars(Boot(c)) /\ WF_vars(Receive(c))
    /\ WF_vars(GatewayReads)
LiveSpec == Spec /\ Fairness

-----------------------------------------------------------------------------

TypeOK ==
    /\ clients \subseteq Processes /\ removed \in BOOLEAN
    /\ entries \in [Slots -> Entry] /\ next \in Nat /\ lock \in Components \cup {NoOne}
    /\ pc \in [Components -> Phases] /\ slot \in [Components -> Slots \cup {0}]
    /\ ticket \in [Components -> Nat] /\ port \in [Components -> Nat]
    /\ ring \in Seq(Frame) /\ queue \in [Components -> Seq(Frame)]
    /\ late \in [Processes -> Nat] /\ pos \in [Processes -> Nat] /\ credit \in [Processes -> Nat]
    /\ foreign \in Nat /\ seen \in [Components -> SUBSET Processes]

(* No two components of a vehicle have the same port, whoever is killed    *)
(* while it registers (registerService).                                   *)
PortsUnique ==
    \A c, d \in Components : c # d /\ port[c] # 0 => port[c] # port[d]

(* A component that holds the directory's semaphore finds an inactive      *)
(* entry: entries are never given back, not even by the dead, but client   *)
(* slots are not either, so the registry is full first and the "No slot    *)
(* found" return is never taken.                                           *)
DirectoryHasRoom ==
    (\E c \in Components : pc[c] = "locked") => \E i \in Slots : ~entries[i].active

(* A receiver never takes a slot nobody has published: the frames it has   *)
(* read, its signals and the frames it was not signalled for add up to no  *)
(* more than what is in the ring (receive_zerocopy trusts the semaphore).  *)
ReadsPublished ==
    \A p \in Processes : pos[p] + credit[p] + late[p] <= Len(ring)

(* A component that has no handlers yet may have got a PING, never a TEDS  *)
(* message: it attaches to its type only after they are there.             *)
NoTedsBeforeHandlers ==
    \A c \in Components : pc[c] = "listening" =>
        \A i \in DOMAIN queue[c] : queue[c][i].kind = "PING"

(* registerService returns, even when another process is killed while it   *)
(* holds the directory's semaphore.                                        *)
RegisterReturns ==
    \A c \in Components : pc[c] = "registered" ~> pc[c] \in {"assigned", "dead"}

(* An INTEREST reaches every sensor of its type that had subscribed when   *)
(* it was sent, if the sensor registered before the first frame and no     *)
(* process of the vehicle dies: a frame published before it registered, or *)
(* a signal taken back, leaves a reader behind for good.                   *)
InterestReaches ==
    \A a \in Components \ Sensors, s \in Sensors :
        (pc[a] = "up" /\ pc[s] = "up" /\ Unit[a] = Unit[s] /\ late[s] = 0) ~>
            \/ a \in seen[s] \/ removed \/ \E c \in Components : pc[c] = "dead"
=============================================================================
