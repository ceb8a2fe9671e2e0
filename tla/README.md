# A verification project for CommunicationAPI

CommunicationAPI is a C++ library for vehicles and road-side units that talk over
raw Ethernet frames, and for the processes inside one vehicle that talk over shared
memory. This directory holds TLA+ models of its protocols, TLC configurations that
check them on small instances, and proofs of the main results for every size.
Paths below are relative to `src/source/`.

## 1. Inventory

A *vehicle* (or *road-side unit*) is one gateway process and several component
processes, forked by `start_car.cpp` / `start_roadside_unit.cpp`.  All of them attach
to one shared block.  The gateway also owns a raw socket.

| Component | State | Operations | Talks to |
|---|---|---|---|
| **ShmEngine** (`api/network/engines/smh_engine.hpp`) | ring of `BUFFER_SLOTS` slots, claim and publish counters, client registry with `last_read`, semaphores, `writer_is_blocked` | `send`, `receive_zerocopy`, `release_frame`, registration in the constructor and destructor | every process of the vehicle, through memory and SysV semaphores |
| **NIC** (`api/network/nic.hpp`) | receiver thread and its `next_sequence_to_read`; for the raw socket a `SIGIO` handler and the quadrant thread | `_receiver_thread`, `handle_receive`, `free`, `_quadrant_changer` | notifies Protocol, calls the engine |
| **Protocol** (`api/network/protocol.hpp`) | addresses, group handler, PTP synchronizer | `send`, `update`, `filter_system_messages` | notifies Communicators; routes between NICs |
| **Communicator** (`api/network/communicator.hpp`) | queue of buffers and its semaphore | `queue_incoming_buffer`, `receive`, `send` | Protocol below, the application above |
| **Nearby list** (`smh_engine.hpp`, in the shared block) | array of MACs, count, spin lock | register, unregister, reset, get, is-nearby | gateway writes, components read |
| **Component directory** (`smh_engine.hpp`) | `MAX_CLIENTS` entries (active, name, type, port), `next_port_to_assign`, `DIRECTORY_SEM` | `registerService` (`lookupService` and `lookupServiceByType` have no caller) | all processes |
| **Start-up** (`vm/vehicle/start_car.cpp`, `vm/vehicle/components/component.hpp`) | registry slot, port, handlers, threads of a component | fork, `init_component`, `start`, `subscribe_to_responses` | directory, Communicator, Observers |
| **Group leader / member** (`api/network/groups/`) | sorted timeouts, lookup map, session key; the key in the shared block | JOIN, KEY_DISTRIBUTION, NOTIFY_LEFT, heartbeat, monitor thread | over the raw network |
| **PTP** (`api/network/ptp/`, `api/utils/clock.hpp`) | slave state, four timestamps, clock offset | START, SYNC, FOLLOW_UP, DELAY_REQ, DELAY_RESP, timer thread | over the raw network |
| **TEDS subscriptions** (`handlers/teds_handler.hpp`, `vm/vehicle/components/`) | map of subscriber lists, response interval, `_response_running`, the response thread | handle an INTEREST, clean up who is no longer nearby, respond | over Communicator; asks the nearby list |
| **Latency test** (`handlers/latency_test_handler.hpp`) | PINGs sent, round trips measured | PING, ECHO | over Communicator |
| **Observers** (`api/observer/`) | vectors of observers and of their conditions | attach, detach, notify | glue between the layers |
| **Authentication** (`api/network/crypto/`) | none | XOR MAC | Protocol |

### What is hard here

* *Lock-free shared memory.* The ring is filled by several senders of several
  processes and read in place; a slot may be reused only when everybody has freed
  it, and "everybody" is a registry that changes meanwhile.
* *Sleeping and waking.* A sender without room sets one shared flag and sleeps;
  readers look at the flag when they free a frame.
* *Out-of-order frees.* A process frees some frames in its receiver thread and others
  later in the application's thread, while `last_read` is a single number.
* *State used across an unlock.* The leader's monitor keeps an iterator while it
  sends a message without the mutex.
* *Two answers to one question.* A PTP START is a broadcast, so several masters
  answer; frames may overtake each other or be lost.
* *A signal handler and a thread* of one gateway change the same quadrant, nearby
  list and key.
* *A mutex that only one side takes.* The subscriber map of a sensor is changed by the
  receiver thread without the mutex of the cleanup thread, and the two share the
  response interval and a `std::thread` that is never joined.
* *Boot order.* A component reads messages before its handlers exist, attaches to its
  type in two inserts, and may register after others have begun to send.
* *Kill.* A killed process leaves its registry slot and directory entry behind, and
  `SEM_UNDO` takes back signals it sent long ago.
* *Two networks, one gateway.* What comes from the ring goes on the radio and the other
  way round, so addresses must keep a frame from going in circles.

The full list, each at its line, is `hazards` in `PROJECT.json`.

### What makes each component correct

* ring: a view is not overwritten before it is freed; nothing is lost, repeated or
  reordered; two senders never share a slot; a sleeping sender is woken;
* nearby list: callers see an atomic bounded set;
* group leader: both maps agree, nobody is removed before its timeout, the silent
  are removed, shutdown returns;
* PTP: answers of different masters or rounds are not mixed, a set clock is
  accurate, every round ends;
* vehicles: the key is that of the current quadrant once the JOIN is answered, and
  members of a quadrant understand each other;
* joining: ports are unique, the directory never runs out, nobody reads what is not
  published, registration returns whoever is killed;
* subscriptions: the interval divides what every subscriber asked for, the response
  thread runs iff somebody is subscribed, the process survives;
* routing: a message is delivered at most once, its source says who sent it, only own
  round trips are measured, forwarding ends.

## 2. Modules

| Module | Role |
|---|---|
| `ShmEngine` | ring + receiver threads + Communicator queues of one vehicle |
| `MessageBus` | abstract: a lossless, ordered broadcast bus with cumulative acknowledgements; `ShmEngine` implements it |
| `ShmEngineProofs` | proofs about the ring and its refinement of `MessageBus` |
| `NearbyList` | spin lock and the five operations |
| `NearbySet` | abstract: an atomic bounded set; `NearbyList` implements it |
| `NearbyListProofs` | invariant and refinement |
| `GroupLeader`, `GroupLeaderProofs` | leader and monitor thread |
| `Ptp`, `PtpProofs` | slave, masters and the frames between them |
| `Vehicle`, `VehicleProofs` | vehicles that move between quadrants, their gateways' threads, the leaders and the frames between them |
| `Subscriptions`, `SubscriptionsProofs` | the three threads of one sensor and the actuators that ask it |
| `Joining`, `JoiningProofs` | registration, directory and boot of the processes of one vehicle, and the first messages |
| `Routing`, `RoutingProofs` | messages of joined components through rings, gateways and the radio |
| `*_MC` | constants and symmetry sets for TLC |

Definitions called *Mutant* in a comment are deliberately wrong variants of the
definition that follows them.  They are in no specification; each is used to confirm
that a property notices the mistake.

### ShmEngine

A process is named by the index of its registry slot; `<<c, "rx">>` is its receiver
thread and `<<c, "app">>` the thread that calls `Communicator::receive`.  `Writers` are
the threads that call `send`.  A frame is named by the ticket it was sent with, so
"slot `s` shows frame `t`" is `frame[s] = t`.

Every load or store of shared memory that another thread can observe is a step:
claiming (one step, since `CLAIM_SEM` is held), each registry slot of the scan, the
room check, the store of the flag, the sleep, the frame, the stamp, the
compare-and-swap, the notification; on the reader's side the wait, the check of the
slot, the delivery, the pop, the copy, and in `release_frame` the read of the flag, the
read of the own `last_read`, each registry slot, the store of `last_read` and the signal.
A `semop` is one step, and a local that is out of scope is 0.

Memory is taken to be sequentially consistent.  For the atomics (`claim`, `publish`,
`last_read`) the code's orderings and fences give what the model uses; for `is_active`,
`sequence_id` and `writer_is_blocked`, which are volatile or plain, it is an assumption:
the language calls concurrent access to them a data race, and the model takes the outcome
of a compiler that does each access once and of hardware that does them in order.

`Queueing` and `Dropping` say which processes keep frames in a queue and which free
them at once (no observer, wrong port).  Every component of the program does both: its
`Protocol` frees what is not for its port or type in the receiver thread while what was for
it waits in the Communicator's queue.  The acknowledgement is one number, so freeing a later
frame gives up the queued earlier ones as well, and `last_read` may even go back.  What the
ring does guarantee is therefore stated with the history variable `given_up`: for each
process the highest message it has stored in `last_read` since it registered, or the last
ticket that was claimed when it registered, if that is higher.  `ViewKept`, `NoMismatch` and
the mapping to `MessageBus`, whose acknowledgements are cumulative, speak of the messages
above it.  They hold for every process, also one that queues and frees at once, joins late
(`LateJoin`) or takes over a registry slot with tokens left on its semaphore.  What they leave
out is what the code does not give: the view of a queued frame after a later one was freed
(`shm_overwrite` shows it overwritten), and frames claimed before a late process registered,
which it waits for in vain once the ring has wrapped (the CRITICAL branch reached from
`nic.hpp:424`).

Simplifications: the loop of the notification over `is_active` and its `semop` are one step
(a client that leaves in between would be left one more token, one that registers in between
has given up that message); a failing `semop` is left out, among them the `ERANGE` of the
`SEM_UNDO` adjustment after 32767 sends; `Deregister` leaves out that the last client removes
the IPC objects (nobody is left to see it) and the `SEM_UNDO` at the exit of the process
(`Joining` has it).

`MAX_TICKET` bounds TLC only, through the guard of `Claim`.

### NearbyList

`Callers` are threads of any process.  Each is outside, waiting for the lock, or at a
place inside an operation; an operation is split where it makes more than one store.
The abstract `NearbySet` performs each operation in one step and answers each query
from one state.

### GroupLeader

Sections under `_mutex` are single steps; the monitor's expiry loop is split at the
unlock around `send_notify_left`.  `pthread` spurious wake-ups recompute the same
deadline and change nothing.  Where the code calls `erase` with an invalid iterator
(undefined behaviour) the outcome is a free choice.  Only JOINs renew a timer: the call
of `heartbeat_update` in `filter_system_messages` (`protocol.hpp:442`) stands behind a
`switch` whose every case returns.  The history variable `rejoined` says that a member has
sent a JOIN while the monitor was between its unlock and its lock for that same member: the
iterator is then invalid and the erase undefined.  The run `group_leader_rejoin` shows that
this happens: the member is removed although it has just joined.  `MapsAgree`, `NoEarlyExpiry`
and `SilentAreRemoved` speak of behaviours up to that point.  Beyond it only the types and
`StopReturns` hold, for the outcomes `Erased` allows (another timer goes, or none); a crash of
the process is not among them.

The comment on `heartbeat_update` (`group_leader_handler.hpp:97`) says that it is called for
every Service message.  In the code only a JOIN reaches it, so a member that is active and
stays in its quadrant is announced as gone after one timeout.

### Ptp

`now` is true time, the slave's clock is `now` plus a skew and each master has its own
clock.  A frame in the network is at most `MaxDelay` old (time does not pass otherwise),
and frames overtake each other.  A lost frame and a `settimeofday` that is refused are
faults, of which there are at most `MAX_FAULTS`.

### Vehicle

Each vehicle has the three threads that share its quadrant and its key: the quadrant
thread (`_quadrant_changer`, and `Protocol::update` for its dirty buffer), the signal
thread (`handle_receive` with `filter_location`, then `Protocol::update`) and the receiver
thread that forwards a component's broadcast (`_send_frame`, split between its reads of the
quadrant and of the key).  A leader is named by its quadrant and answers JOINs; `KeyOf` is
the key it sends, whatever that is.  (In the code it is the field `_session_key`, which
nothing assigns, and not the key the leader's constructor stores in the shared block.)  A
broadcast is one frame for each receiver, frames overtake each other and at most
`MAX_LOSSES` are lost.  The authentication code is abstracted to the key it was made with.

`NOTIFY_LEFT` is sent from a struct with a byte of padding in front of the payload, and the
member reads that byte as the message type; `HandleLeft` takes every outcome, among them
that the bytes behind it become the session key (`Garbage`).

`visit` (the number of the move that brought a vehicle where it is) and `lost` are history:
a vehicle is *awaited* while the JOIN of this visit, or its answer, is still to be sent,
under way, lost, or in the hands of the signal thread, and *settled* otherwise.

### Subscriptions

One sensor, the actuators that may subscribe to it and the nearby list it asks.  Its three
threads take one step per load or store of what they share: the receiver
(`handleTEDSMessage`, `notify_interest_request`) makes the map entry, changes the list,
reads the interval twice, stores it, reads the running flag and starts the thread; the
cleanup thread asks `is_entity_nearby` for each subscriber, cuts the list, and stops or
resets the responses; the response thread sends while the flag is set.  A sensor listens to
one type, so the map has at most one entry and its list is a function from actuators to
periods (0: not in it).

The unlocked map is undefined behaviour when the two threads meet in it.  `UpdateList`
(what is written to an erased list is lost), `EraseTail` (what was put there since
`remove_if` is lost) and `UpdateCrash` (the process dies) are its outcomes, and the history
variable `overlapped` records that they met.  Assigning to the joinable `_response_thread`
calls `std::terminate`; `retired` records that the responses were stopped once before.
Local subscribers are never in the nearby list, so the cleanup thread drops them at its
next turn: the model shows this behaviour of the code and no property excludes it.  Periods are
positive: an INTEREST with period 0 would stop the responses, but `start_car` asks for 2000 to
4000 ms.

### Joining

The gateway and the components of one vehicle compete, in any order, for `MAX_CLIENTS`
registry slots; one process too many removes the IPC objects of the whole vehicle
(`_cleanupAndThrow`).  A component then takes the directory's semaphore, claims the first
inactive entry, loads and stores the port counter, writes the port, starts its receiver,
makes its handlers, attaches to its type in two inserts and, if it is an actuator, sends its
INTEREST.  The stores of an entry's name, type and pid are one step with its claim: only the
lookups would see them apart, and these have no caller.  Meanwhile the gateway may pass on a PING of another vehicle.  Messages that meet a
component without handlers or between the two inserts end its process.

A killed component (`Mortal`) runs no destructor.  `Dies` applies what the kernel does with
`SEM_UNDO`: the directory's semaphore is released, and all signals the process has ever sent
are subtracted from the client semaphores, down to 0.  The ring is the sequence of the frames
in it.  `pos` counts the frames a process has read, `credit` is its semaphore and `late` the
number of frames published before it registered.  A late process is signalled only for later
frames but starts to read at the first one, so it stays `late` frames behind for good.

### Routing

Vehicles with their gateways, and components that have joined.  A component sends into its
vehicle's ring; the gateway puts broadcast frames on the radio under its own address and what
it hears into the ring for `LOCAL`, under the sender's address; a component queues what
matches its port or its type.  The radio loses, reorders and may return a gateway's own
frame.  The traffic is what the components produce: PINGs (outside and inside in turn),
ECHOs, INTERESTs and RESPONSEs.  `seen` and `again` are history.

### How the modules fit together

`ShmEngine` shows that the ring is an ordered bus with cumulative acknowledgements; `Routing`
builds on the part of it in which a queued frame is taken before `BUFFER_SLOTS` later ones are
sent (there no view is lost), `Joining` on the same ring when processes do not join first.  `Vehicle` uses the nearby list as the bounded set that `NearbyList` implements,
and its losses (quadrant filter, authentication) are losses of `Routing`'s radio.
`Subscriptions` takes the INTERESTs that `Routing` and `Joining` queue.

## 3. Runs

| Run | Shows | Bounds |
|---|---|---|
| `shm` | types, views not given up are kept, the application's order, no mismatch in the stream, nobody reads ahead, refinement of `MessageBus` | 2 processes: one sends, queues and frees at once; the other joins at any time, leaves and is replaced. 3 slots: two views may be outstanding, so one is given up by the other. 4 tickets: the ring wraps and the sender blocks |
| `shm_live` | no two senders in one slot, the published stream contiguous, every published message reaches the receiver | 4 senders on 3 slots: one more than slots, for the lap, and fills in any order |
| `shm_overwrite` | *violated:* freeing a later frame acknowledges the queued earlier one | 3 slots, 4 tickets |
| `shm_lostwake` | *violated:* a sender sleeps although its slot is free | 2 senders, 2 slots |
| `nearby` | the count stays in the array, refinement of `NearbySet` | 2 threads, 2 places, 3 addresses: the list fills up |
| `group_leader` | maps agree, no early expiry; the silent are removed, shutdown returns | 2 members, timeout 2, time 4, 4 JOINs |
| `group_leader_rejoin` | *violated:* a member that joins during its own removal is removed | the same |
| `vehicle` | the key settles, settled members understand each other | 2 vehicles, 2 quadrants, one move, one message or NOTIFY_LEFT, one loss, a nearby list of one |
| `ptp` | responses not mixed up, set clocks accurate; every round ends without faults | 2 masters with different clocks, delay 2, 1 fault, 2 rounds |
| `subscriptions` | the interval serves everybody, the process dies only on a restart; who is listed is served, responses stop when unwanted | 3 actuators, one of them in the vehicle of the sensor, periods 4 and 6 (their divisor is neither), 3 INTERESTs |
| `joining` | unique ports, room in the directory, only published frames read, no TEDS message before the handlers; registration returns, an INTEREST arrives | 3 components and the gateway for 3 slots, one foreign PING, one component that may be killed |
| `routing` | delivered once, sources identify senders, only own round trips; a local PING returns, forwarding ends | 2 vehicles, 3 components (one vehicle has two), 2 messages and the ECHOs they cause |

The three violated properties quote what a comment of the code promises; `findings` in
`PROJECT.json` gives the lines.  The bounds are small but each reaches the case its
property is about: a full ring and a second lap, a full list, an expiry during a JOIN,
a second round with frames of the first still under way, a KEY that arrives after the
move, an INTEREST at every step of a cleanup, a refused registration, a kill under the
directory's semaphore, a broadcast that comes back (longer chains are left to the proofs).
Runs have `CHECK_DEADLOCK FALSE` where a bound on tickets, time, rounds or messages lets the
model stop; the nearby list has no such bound and is checked for deadlock.

Behaviours of the code that the models contain and the properties except, because nothing in
the code prevents them (`hazards` in `PROJECT.json` says so at each line):

* a late joiner never catches up (`late` in `InterestReaches`), and meets the mismatch branch
  once the ring has wrapped (`given_up` in `NoMismatch`);
* a lost PTP frame ends synchronisation for good, since a round is never given up
  (`RoundCompletes` is for rounds without a fault);
* a JOIN during a member's own removal (`rejoined`; shown by `group_leader_rejoin`);
* a key spoilt by NOTIFY_LEFT, and a message whose sender moved between its reads of the
  quadrant and of the key (`MembersUnderstand`);
* the two threads of a sensor meeting in the unlocked map (`overlapped`), and a new subscriber
  after the last one was cleaned up, which terminates the sensor (`retired`);
* a PING that reaches a component before its handlers exist, or an INTEREST between the two
  inserts of `attach`, which end the process.

### Fairness

* `ShmEngine`: weak fairness for each receiver thread, application thread,
  registration and send, because the scheduler runs every runnable thread; strong
  fairness for `WakeUp`, because SysV semaphores queue their waiters.  Nobody is
  obliged to send, register or stop.
* `GroupLeader`: weak fairness of the clock, the monitor thread, the notification of a
  JOIN and the notification of the shutdown.  Members owe nothing.
* `Ptp`: weak fairness of the timer thread, of the second half of a request and of the
  delivery of each frame that is not lost.
* `Subscriptions`: weak fairness of each of the sensor's three threads, which only sleep for
  a while or wait for the queue.  Actuators and the nearby list owe nothing.
* `Joining`: weak fairness of the boot and of the receiver of each component and of the
  gateway's receiver.  Nobody has to start, to send from outside or to die.
* `Routing`: weak fairness of each component's receiver and of each gateway.  Nobody has to
  send; a lost frame is lost when it is sent.

## 4. Proofs

Proved by TLAPS for every value of the constants that satisfies the named assumptions.

**Ring, senders** (`ShmEngineProofs`, assumptions `SizesAssumption`,
`ThreadsAssumption`): types, `WritersApart`, `PublishedStamped`, `OnlyPublished`.
None of them is inductive.  `RingInv` adds that tickets of active senders are distinct
and lie between the published and the claimed ones, that a sender past its check has a
ticket less than a lap ahead of the published ones, and that tokens on a semaphore,
plus what the process has read, never exceed what was published.  The second is the
crux: a scan includes the sender's own process, whose `last_read` cannot exceed the
published id, so passing the check bounds the ticket.

**Ring, what it owes a process** (`ShmEngineProofs`, the same assumptions): `ViewKept`,
`QueueInOrder`, `NoMismatch`, for any readers.  `StreamInv` is about `given_up`: the `slowest` a
sender has computed is behind what each process it has scanned has given up (`last_read` may go
back, `given_up` does not, and `last_read` never exceeds it, so a stale minimum is safe; a
process that registers meanwhile has given up the sender's ticket); published messages that some
process has not given up keep their slots; a process has a view of every message it has received
and not given up; and views are in order from the application's to the receiver's.

**Ring as a bus** (`ShmEngineProofs`): `ImplementsBus`.  A process is in the stream once its
receiver has passed the messages claimed before it registered, and its inbox is what it sees
through its views of the messages it has received and not given up.  A step of any sender could
change any inbox; `StreamInv` removes that coupling, since every entry of the inbox is then its own
number.  The compare-and-swap of `send` is the bus's publication; `receive` appends the next id,
since the tokens of the semaphore bound what is read by what is published, or enters the stream;
a store of `last_read` that is higher than all before acknowledges, and gives up all entries up to
it; a lower one, queueing, popping and copying leave the bus as it is, and leaving the registry
leaves the stream.

**Nearby list** (`NearbyListProofs`): types, `Exclusive`, `NoDuplicates` and the
refinement `ImplementsSet`.  The invariant relates the count to the array at each
stage of an update.

**Group leader** (`GroupLeaderProofs`): types, `MapsAgree`,
`NoEarlyExpiry`, for all behaviours.  `LeaderInv` is `TypeOK` with an implication: while
`rejoined` is false, each timer belongs to the member that looks it up, the monitor's iterator
is the timer of the member it removes, and expiries are at least a timeout after the JOIN.

**PTP** (`PtpProofs`): types, `NoStrayResponse`, `SyncAccuracy`.  `PtpInv` bounds the age of
each frame and, for a slave in each state, how long its SYNC and its request were under
way; the error of the computed offset is half the difference of the two delays.

**Vehicles** (`VehicleProofs`, assumptions `NamesAssumption`, `BoundsAssumption`): types,
`KeySettles`, `MembersUnderstand`.  `VehicleInv` says that KEYs and messages of settled
senders have the key of the quadrant in their header, that a JOIN or KEY of the present
visit is for the present quadrant (so an awaited KEY always passes `filter_location`), and
that a KEY the signal thread holds is of this quadrant unless a newer JOIN is pending, which
is why a stale key never has the last word.

**Subscriptions** (`SubscriptionsProofs`, assumptions `ActuatorsAssumption`,
`PeriodsAssumption`): types, `IntervalServes`, `DiesOnlyOnRestart`, for every number of
actuators and every set of periods.  Lemmas say that a greatest common divisor exists, divides
each of its arguments, and that divisibility is transitive, which carries a subscriber's period
over a change of the interval.  `SensorInv` describes, while the threads have not met, the flag,
the interval and the list at each step of the handler and of the cleanup.  The types are proved
for all behaviours, those where the threads meet included.

**Joining** (`JoiningProofs`, assumptions `ComponentsAssumption`, `BoundsAssumption`): types,
`PortsUnique`, `DirectoryHasRoom`, `ReadsPublished`, `NoTedsBeforeHandlers`.
`JoinInv` says that each process with an entry is a client, so that active entries inject into
the registry: with one entry per client slot (a pigeonhole argument) whoever holds the semaphore
finds an inactive one.  It also says that ports given are below the counter except for the one
process that holds the semaphore between its load and its store (a kill there re-issues a number
nobody has), and that frames read, signals and missed frames never exceed the frames published,
which survives the subtraction of a dead sender's signals.

**Routing** (`RoutingProofs`, assumptions `AddressesAssumption`, `BoundsAssumption`): types,
`DeliveredOnce`, `SourceIdentifies`, `MeasuresOwn`.  None is inductive.  `RouteInv` first fixes
the form of every frame (`Forms`): its message and the place it is in (the ring of vehicle `v`,
the air, a queue) determine all its addresses, which is also why the radio's set of frames cannot
hold a message twice.  Messages are told apart by kind, sender, PING's sender and number; `AllSent`
says that each one that exists was sent, and that the PING of an ECHO was queued by the
ECHO's sender and is no longer there, so that a new message is nowhere yet.  The rest follows a
message on its way: a process has it at most once, unread or queued before (`ReadOnce`); while it
is on the air for a vehicle nobody aboard has it (`AirOnce`); and while a gateway has yet to read
a message of its own vehicle it is nowhere outside (`InsideFirst`).  Forwarding, accepting and
queueing each move it from one of these to the next.  `LocalPingsKept`, in the same module, is the
safety half of `LocalPingReturns`: a PING sent inside by the first port, or its ECHO, is in that
component's ring or queue until its round trip is measured.

The types of `GroupLeader`, `Subscriptions` and `Vehicle`, and `Exclusive` and `NoDuplicates` of
`NearbyList`, are stated by theorems and not repeated in runs.

**Only model-checked:** the liveness properties (`PublishedIsReceived`, `SilentAreRemoved`,
`StopReturns`, `RoundCompletes`, `ListedIsServed`, `StopsWhenUnwanted`, `RegisterReturns`,
`InterestReaches`, `LocalPingReturns`, `Quiet`), since TLAPS has no rules for fairness here.
Every invariant, action property and refinement that a passing run checks has its theorem.

## 5. Not modelled

* `ShmEngine::receive` (copying), `lookupService` and `lookupServiceByType`, which have no
  caller.  (A lookup matches an entry's name or type and loads its port later, without the
  semaphore under which entries are written; whoever calls one should know.)  Failing system
  calls other than those of removed IPC objects, and failing allocation.
* A process killed inside `send` or inside the nearby list's spin lock.  Nothing in the code
  repairs the ticket or the flag it leaves, so there is no promise to check; both are listed as
  hazards without a property.
* Wrap-around of the 64-bit sequence numbers and of timestamps.
* Message authentication beyond "codes agree iff the keys do": a pure fold without state.
* Destructors of communicators and handlers, and `detach` of observers: no process of a vehicle
  destroys them.
* Raw sockets, wire formats, logging, profiling, scripts, random sensor data: no protocol state.

## 6. Plan

The modules above were written in the order ring, nearby list, leader, PTP, vehicles,
subscriptions, joining, routing.  What is left:

1. A sender that crashes inside `send`, as an extra action of `ShmEngine`, with the safety
   properties that should survive it (`OnlyPublished`, `WritersApart`).
2. The folded XOR code of the authentication against a reference definition.
