------------------------------ MODULE ShmEngine ------------------------------
(***************************************************************************)
(* The local bus of one vehicle: the shared-memory ring of ShmEngine       *)
(* (api/network/engines/smh_engine.hpp), the receiver thread of            *)
(* NIC<ShmEngine> (api/network/nic.hpp) and the buffer queue of the        *)
(* Communicator (api/network/communicator.hpp).                            *)
(*                                                                         *)
(* A process is named by the index of the registry slot it occupies.  Its  *)
(* receiver thread is <<c, "rx">>, the thread that calls                   *)
(* Communicator::receive is <<c, "app">>, and the threads that call send   *)
(* are the Writers.  A frame is named by the ticket it was sent with.      *)
(* Loads and stores are taken to be sequentially consistent, the volatile  *)
(* and plain ones too, and a semop is one step.  A local that is out of    *)
(* scope is 0.                                                             *)
(***************************************************************************)
EXTENDS Integers, Sequences, FiniteSets

CONSTANTS
    MAX_CLIENTS,    \* slots of the client registry
    BUFFER_SLOTS,   \* slots of the ring
    MAX_TICKET,     \* bound: the last ticket a writer may claim
    Writers,        \* threads that call send
    Owner,          \* the process each writer belongs to
    AppThreads,     \* the writers that are also their process's "app" thread
    Queueing,       \* processes whose Communicator queues some of the frames
    Dropping,       \* processes whose NIC or Protocol frees some frames at once
    Stopping,       \* processes that may be destroyed
    LateJoin        \* may a process register once traffic has started?

Clients == 0 .. MAX_CLIENTS - 1
Threads == Clients \X {"rx", "app"}
None == -1

ASSUME SizesAssumption ==
    /\ MAX_CLIENTS \in Nat \ {0}
    /\ BUFFER_SLOTS \in Nat \ {0}
    /\ MAX_TICKET \in Nat

ASSUME ThreadsAssumption ==
    /\ IsFiniteSet(Writers)
    /\ Owner \in [Writers -> Clients]
    /\ AppThreads \subseteq Writers
    /\ Queueing \subseteq Clients /\ Dropping \subseteq Clients
    /\ Stopping \subseteq Clients
    /\ LateJoin \in BOOLEAN

VARIABLES
    claim_sequence_id, publish_sequence_id,
    sequence_id, frame,             \* the fields of each MessageSlot
    is_active, last_read,           \* the fields of each ClientState
    client_sem, writer_wait_sem,    \* the counting semaphores
    writer_is_blocked,
    registering,                    \* who is inside _register_client
    wpc, ticket, wi, slowest,       \* the locals of send, per writer
    pc, held,                       \* per thread: where it is, and its view
    ri, mine, i_am_the_slowest,     \* the locals of release_frame, per thread
    next_sequence_to_read, running, \* the locals of each NIC
    data,                           \* the queue of each Communicator
    given_up                        \* history, per process: what it let go of

ring    == <<claim_sequence_id, publish_sequence_id, sequence_id, frame>>
registry == <<is_active, registering>>
writers == <<wpc, ticket, wi, slowest>>
release == <<ri, mine, i_am_the_slowest>>
readers == <<pc, held, next_sequence_to_read, running, data>>
vars == <<ring, registry, last_read, client_sem, writer_wait_sem,
          writer_is_blocked, writers, release, readers, given_up>>

(***************************************************************************)
(* given_up is a history variable: no step reads it.  It records, for each *)
(* registered process, the highest message the room check of send owes it  *)
(* nothing for: the last ticket claimed when it registered, and from then  *)
(* on the highest one it has stored in its last_read.                      *)
(***************************************************************************)

SlotOf(t) == t % BUFFER_SLOTS

WriterStates == {"idle", "scan", "block", "sleep", "write", "stamp",
                 "publish", "notify"}
RxStates == {"off", "loop", "wait", "check", "deliver", "exit"}
AppStates == {"off", "idle", "copy"}
ReleaseStates == {"rel", "relown", "relscan", "store", "signal"}

(* The block as bootstrapIPC leaves it, before any process attaches. *)
Init ==
    /\ claim_sequence_id = 1 /\ publish_sequence_id = 0
    /\ sequence_id = [s \in 0 .. BUFFER_SLOTS - 1 |-> 0]
    /\ frame = [s \in 0 .. BUFFER_SLOTS - 1 |-> 0]
    /\ is_active = [c \in Clients |-> FALSE]
    /\ last_read = [c \in Clients |-> 0]
    /\ client_sem = [c \in Clients |-> 0]
    /\ writer_wait_sem = 0 /\ writer_is_blocked = FALSE
    /\ registering = None
    /\ wpc = [w \in Writers |-> "idle"]
    /\ ticket = [w \in Writers |-> 0]
    /\ wi = [w \in Writers |-> 0]
    /\ slowest = [w \in Writers |-> 0]
    /\ pc = [th \in Threads |-> "off"]
    /\ held = [th \in Threads |-> 0]
    /\ ri = [th \in Threads |-> 0]
    /\ mine = [th \in Threads |-> 0]
    /\ i_am_the_slowest = [th \in Threads |-> FALSE]
    /\ next_sequence_to_read = [c \in Clients |-> 1]
    /\ running = [c \in Clients |-> FALSE]
    /\ data = [c \in Clients |-> <<>>]
    /\ given_up = [c \in Clients |-> 0]

(***************************************************************************)
(* Registration and deregistration.  REGISTRY_SEM is held while a process  *)
(* is registering; writers read the registry without it.                   *)
(***************************************************************************)

(* _register_client takes the lock and the first free slot. *)
RegisterActivate(c) ==
    /\ registering = None
    /\ ~is_active[c] /\ \A d \in 0 .. c - 1 : is_active[d]
    /\ LateJoin \/ claim_sequence_id = 1
    /\ is_active' = [is_active EXCEPT ![c] = TRUE]
    /\ registering' = c
    /\ UNCHANGED <<ring, last_read, given_up, client_sem, writer_wait_sem,
                   writer_is_blocked, writers, release, readers>>

(* It then stores last_read and unlocks; init_nic starts the receiver. *)
RegisterStore(c) ==
    /\ registering = c
    /\ last_read' = [last_read EXCEPT ![c] = publish_sequence_id]
    /\ registering' = None
    /\ pc' = [pc EXCEPT ![<<c, "rx">>] = "loop", ![<<c, "app">>] = "idle"]
    /\ next_sequence_to_read' = [next_sequence_to_read EXCEPT ![c] = 1]
    /\ running' = [running EXCEPT ![c] = TRUE]
    /\ given_up' = [given_up EXCEPT ![c] = claim_sequence_id - 1]
    /\ UNCHANGED <<ring, is_active, client_sem, writer_wait_sem,
                   writer_is_blocked, writers, release, held, data>>

(* ~NIC clears _running and joins the receiver thread. *)
Stop(c) ==
    /\ c \in Stopping /\ running[c]
    /\ running' = [running EXCEPT ![c] = FALSE]
    /\ UNCHANGED <<ring, registry, last_read, given_up, client_sem,
                   writer_wait_sem, writer_is_blocked, writers, release, pc,
                   held, next_sequence_to_read, data>>

(* ~ShmEngine, once the receiver is joined and no thread is in send. *)
Deregister(c) ==
    /\ pc[<<c, "rx">>] = "exit" /\ pc[<<c, "app">>] = "idle"
    /\ registering = None
    /\ \A w \in Writers : Owner[w] = c => wpc[w] = "idle"
    /\ is_active' = [is_active EXCEPT ![c] = FALSE]
    /\ pc' = [pc EXCEPT ![<<c, "rx">>] = "off", ![<<c, "app">>] = "off"]
    /\ data' = [data EXCEPT ![c] = <<>>]
    /\ next_sequence_to_read' = [next_sequence_to_read EXCEPT ![c] = 1]
    /\ given_up' = [given_up EXCEPT ![c] = 0]
    /\ UNCHANGED <<ring, registering, last_read, client_sem, writer_wait_sem,
                   writer_is_blocked, writers, release, held, running>>

(***************************************************************************)
(* send.                                                                   *)
(***************************************************************************)

WriterGoes(w, from, to) == wpc[w] = from /\ wpc' = [wpc EXCEPT ![w] = to]

(* Step 1: take the next ticket, under CLAIM_SEM. *)
Claim(w) ==
    /\ WriterGoes(w, "idle", "scan")
    /\ claim_sequence_id <= MAX_TICKET
    /\ running[Owner[w]]
    /\ w \in AppThreads => pc[<<Owner[w], "app">>] = "idle"
    /\ LateJoin \/ registering = None
    /\ ticket' = [ticket EXCEPT ![w] = claim_sequence_id]
    /\ slowest' = [slowest EXCEPT ![w] = claim_sequence_id]
    /\ wi' = [wi EXCEPT ![w] = 0]
    /\ claim_sequence_id' = claim_sequence_id + 1
    /\ UNCHANGED <<publish_sequence_id, sequence_id, frame, registry,
                   last_read, given_up, client_sem, writer_wait_sem,
                   writer_is_blocked, release, readers>>

(* Mutant: the sender leaves its own process out of the scan. *)
ScanOtherReaders(w) ==
    /\ wpc[w] = "scan" /\ wi[w] < MAX_CLIENTS
    /\ slowest' = [slowest EXCEPT ![w] =
           IF wi[w] # Owner[w] /\ is_active[wi[w]] /\ last_read[wi[w]] < @
           THEN last_read[wi[w]] ELSE @]
    /\ wi' = [wi EXCEPT ![w] = @ + 1]
    /\ UNCHANGED <<ring, registry, last_read, given_up, client_sem,
                   writer_wait_sem, writer_is_blocked, wpc, ticket, release,
                   readers>>

(* Step 2.1: the scan for the slowest reader, one registry slot at a time. *)
ScanReader(w) ==
    /\ wpc[w] = "scan" /\ wi[w] < MAX_CLIENTS
    /\ slowest' = [slowest EXCEPT ![w] =
           IF is_active[wi[w]] /\ last_read[wi[w]] < @
           THEN last_read[wi[w]] ELSE @]
    /\ wi' = [wi EXCEPT ![w] = @ + 1]
    /\ UNCHANGED <<ring, registry, last_read, given_up, client_sem,
                   writer_wait_sem, writer_is_blocked, wpc, ticket, release,
                   readers>>

(* Mutant: the room check is left out. *)
NoRoomCheck(w) == TRUE

HasRoom(w) == ticket[w] - slowest[w] < BUFFER_SLOTS

(* Step 2: the slot is free; leave the loop. *)
PassCheck(w) ==
    /\ wi[w] = MAX_CLIENTS /\ HasRoom(w)
    /\ WriterGoes(w, "scan", "write")
    /\ writer_is_blocked' = FALSE
    /\ UNCHANGED <<ring, registry, last_read, given_up, client_sem,
                   writer_wait_sem, ticket, wi, slowest, release, readers>>

(* Step 2: the slot is not free; the flag is set in a later step. *)
FailCheck(w) ==
    /\ wi[w] = MAX_CLIENTS /\ ~HasRoom(w)
    /\ WriterGoes(w, "scan", "block")
    /\ UNCHANGED <<ring, registry, last_read, given_up, client_sem,
                   writer_wait_sem, writer_is_blocked, ticket, wi, slowest,
                   release, readers>>

SetBlocked(w) ==
    /\ WriterGoes(w, "block", "sleep")
    /\ writer_is_blocked' = TRUE
    /\ UNCHANGED <<ring, registry, last_read, given_up, client_sem,
                   writer_wait_sem, ticket, wi, slowest, release, readers>>

(* The semop on WRITER_WAIT_SEM succeeds and the loop scans again. *)
WakeUp(w) ==
    /\ writer_wait_sem > 0
    /\ WriterGoes(w, "sleep", "scan")
    /\ writer_wait_sem' = writer_wait_sem - 1
    /\ wi' = [wi EXCEPT ![w] = 0]
    /\ slowest' = [slowest EXCEPT ![w] = ticket[w]]
    /\ UNCHANGED <<ring, registry, last_read, given_up, client_sem,
                   writer_is_blocked, ticket, release, readers>>

(* Step 3. *)
WriteFrame(w) ==
    /\ WriterGoes(w, "write", "stamp")
    /\ frame' = [frame EXCEPT ![SlotOf(ticket[w])] = ticket[w]]
    /\ UNCHANGED <<claim_sequence_id, publish_sequence_id, sequence_id,
                   registry, last_read, given_up, client_sem, writer_wait_sem,
                   writer_is_blocked, ticket, wi, slowest, release, readers>>

(* Step 4. *)
StampSlot(w) ==
    /\ WriterGoes(w, "stamp", "publish")
    /\ sequence_id' = [sequence_id EXCEPT ![SlotOf(ticket[w])] = ticket[w]]
    /\ UNCHANGED <<claim_sequence_id, publish_sequence_id, frame, registry,
                   last_read, given_up, client_sem, writer_wait_sem,
                   writer_is_blocked, ticket, wi, slowest, release, readers>>

(* Mutant: a plain store in place of the compare-and-swap. *)
PublishUnordered(w) ==
    /\ WriterGoes(w, "publish", "notify")
    /\ publish_sequence_id' = ticket[w]
    /\ UNCHANGED <<claim_sequence_id, sequence_id, frame, registry, last_read,
                   given_up, client_sem, writer_wait_sem, writer_is_blocked,
                   ticket, wi, slowest, release, readers>>

(* Step 5: the compare-and-swap that succeeds; a failing one retries. *)
Publish(w) ==
    /\ WriterGoes(w, "publish", "notify")
    /\ publish_sequence_id = ticket[w] - 1
    /\ publish_sequence_id' = ticket[w]
    /\ UNCHANGED <<claim_sequence_id, sequence_id, frame, registry, last_read,
                   given_up, client_sem, writer_wait_sem, writer_is_blocked,
                   ticket, wi, slowest, release, readers>>

(* Mutant: the client semaphores are binary. *)
NotifyBinary(w) ==
    /\ WriterGoes(w, "notify", "idle")
    /\ client_sem' = [c \in Clients |->
           IF is_active[c] THEN 1 ELSE client_sem[c]]
    /\ ticket' = [ticket EXCEPT ![w] = 0] /\ wi' = [wi EXCEPT ![w] = 0]
    /\ slowest' = [slowest EXCEPT ![w] = 0]
    /\ UNCHANGED <<ring, registry, last_read, given_up, writer_wait_sem,
                   writer_is_blocked, release, readers>>

(* Step 6: one batched semop over the active clients. *)
Notify(w) ==
    /\ WriterGoes(w, "notify", "idle")
    /\ client_sem' = [c \in Clients |->
           IF is_active[c] THEN client_sem[c] + 1 ELSE client_sem[c]]
    /\ ticket' = [ticket EXCEPT ![w] = 0] /\ wi' = [wi EXCEPT ![w] = 0]
    /\ slowest' = [slowest EXCEPT ![w] = 0]
    /\ UNCHANGED <<ring, registry, last_read, given_up, writer_wait_sem,
                   writer_is_blocked, release, readers>>

(***************************************************************************)
(* The receiver thread of NIC<ShmEngine>.                                  *)
(***************************************************************************)

ThreadGoes(th, from, to) == pc[th] = from /\ pc' = [pc EXCEPT ![th] = to]

ReceiverLoop(c) ==
    /\ ThreadGoes(<<c, "rx">>, "loop", IF running[c] THEN "wait" ELSE "exit")
    /\ UNCHANGED <<ring, registry, last_read, given_up, client_sem,
                   writer_wait_sem, writer_is_blocked, writers, release, held,
                   next_sequence_to_read, running, data>>

(* Mutants: the wait does not block; the wait leaves the token behind. *)
ReceiveAtOnce(c) ==
    /\ ThreadGoes(<<c, "rx">>, "wait", "check")
    /\ client_sem' = [client_sem EXCEPT ![c] = @ - 1]
    /\ UNCHANGED <<ring, registry, last_read, given_up, writer_wait_sem,
                   writer_is_blocked, writers, release, held,
                   next_sequence_to_read, running, data>>

ReceivePeek(c) ==
    /\ client_sem[c] > 0
    /\ ThreadGoes(<<c, "rx">>, "wait", "check")
    /\ UNCHANGED <<ring, registry, last_read, given_up, client_sem,
                   writer_wait_sem, writer_is_blocked, writers, release, held,
                   next_sequence_to_read, running, data>>

(* receive_zerocopy: the semop on the client's own semaphore. *)
ReceiveWait(c) ==
    /\ client_sem[c] > 0
    /\ ThreadGoes(<<c, "rx">>, "wait", "check")
    /\ client_sem' = [client_sem EXCEPT ![c] = @ - 1]
    /\ UNCHANGED <<ring, registry, last_read, given_up, writer_wait_sem,
                   writer_is_blocked, writers, release, held,
                   next_sequence_to_read, running, data>>

SlotIsExpected(c) ==
    sequence_id[SlotOf(next_sequence_to_read[c])] = next_sequence_to_read[c]

(* The slot carries the expected id: a view of it is handed to notify. *)
ReceiveView(c) ==
    /\ SlotIsExpected(c)
    /\ ThreadGoes(<<c, "rx">>, "check", "deliver")
    /\ held' = [held EXCEPT ![<<c, "rx">>] = next_sequence_to_read[c]]
    /\ next_sequence_to_read' = [next_sequence_to_read EXCEPT ![c] = @ + 1]
    /\ UNCHANGED <<ring, registry, last_read, given_up, client_sem,
                   writer_wait_sem, writer_is_blocked, writers, release,
                   running, data>>

(* It does not: nullptr, and the receiver retries the same target. *)
ReceiveMismatch(c) ==
    /\ ~SlotIsExpected(c)
    /\ ThreadGoes(<<c, "rx">>, "check", "loop")
    /\ UNCHANGED <<ring, registry, last_read, given_up, client_sem,
                   writer_wait_sem, writer_is_blocked, writers, release, held,
                   next_sequence_to_read, running, data>>

(* Mutant: the newest view goes to the front of the queue. *)
QueueAtFront(c) ==
    /\ c \in Queueing
    /\ ThreadGoes(<<c, "rx">>, "deliver", "loop")
    /\ data' = [data EXCEPT ![c] = <<held[<<c, "rx">>]>> \o @]
    /\ held' = [held EXCEPT ![<<c, "rx">>] = 0]
    /\ UNCHANGED <<ring, registry, last_read, given_up, client_sem,
                   writer_wait_sem, writer_is_blocked, writers, release,
                   next_sequence_to_read, running>>

(* The observers put the view in the Communicator's queue. *)
QueueIncomingBuffer(c) ==
    /\ c \in Queueing
    /\ ThreadGoes(<<c, "rx">>, "deliver", "loop")
    /\ data' = [data EXCEPT ![c] = Append(@, held[<<c, "rx">>])]
    /\ held' = [held EXCEPT ![<<c, "rx">>] = 0]
    /\ UNCHANGED <<ring, registry, last_read, given_up, client_sem,
                   writer_wait_sem, writer_is_blocked, writers, release,
                   next_sequence_to_read, running>>

(* No observer wants it: the receiver thread frees it itself. *)
FreeAtOnce(c) ==
    /\ c \in Dropping
    /\ ThreadGoes(<<c, "rx">>, "deliver", "rel")
    /\ UNCHANGED <<ring, registry, last_read, given_up, client_sem,
                   writer_wait_sem, writer_is_blocked, writers, release, held,
                   next_sequence_to_read, running, data>>

(***************************************************************************)
(* Communicator::receive, in the application's thread.                     *)
(***************************************************************************)

(* The wait on the queue's semaphore succeeds and the oldest view is popped. *)
PopBuffer(c) ==
    /\ data[c] # <<>>
    /\ \A w \in AppThreads : Owner[w] = c => wpc[w] = "idle"
    /\ ThreadGoes(<<c, "app">>, "idle", "copy")
    /\ held' = [held EXCEPT ![<<c, "app">>] = Head(data[c])]
    /\ data' = [data EXCEPT ![c] = Tail(@)]
    /\ UNCHANGED <<ring, registry, last_read, given_up, client_sem,
                   writer_wait_sem, writer_is_blocked, writers, release,
                   next_sequence_to_read, running>>

(* The copy out of the slot; then free calls release_frame. *)
CopyMessage(c) ==
    /\ ThreadGoes(<<c, "app">>, "copy", "rel")
    /\ UNCHANGED <<ring, registry, last_read, given_up, client_sem,
                   writer_wait_sem, writer_is_blocked, writers, release, held,
                   next_sequence_to_read, running, data>>

(***************************************************************************)
(* release_frame, in either thread.                                        *)
(***************************************************************************)

AfterRelease(th) == IF th[2] = "rx" THEN "loop" ELSE "idle"

(* Only a release that sees the flag looks for the slowest reader. *)
ReleaseReadFlag(th) ==
    /\ ThreadGoes(th, "rel", IF writer_is_blocked THEN "relown" ELSE "store")
    /\ i_am_the_slowest' = [i_am_the_slowest EXCEPT ![th] = FALSE]
    /\ UNCHANGED <<ring, registry, last_read, given_up, client_sem,
                   writer_wait_sem, writer_is_blocked, writers, ri, mine,
                   held, next_sequence_to_read, running, data>>

ReleaseReadOwn(th) ==
    /\ ThreadGoes(th, "relown", "relscan")
    /\ mine' = [mine EXCEPT ![th] = last_read[th[1]]]
    /\ i_am_the_slowest' = [i_am_the_slowest EXCEPT ![th] = TRUE]
    /\ ri' = [ri EXCEPT ![th] = 0]
    /\ UNCHANGED <<ring, registry, last_read, given_up, client_sem,
                   writer_wait_sem, writer_is_blocked, writers, held,
                   next_sequence_to_read, running, data>>

ReleaseScan(th) ==
    /\ pc[th] = "relscan" /\ ri[th] < MAX_CLIENTS
    /\ i_am_the_slowest' = [i_am_the_slowest EXCEPT ![th] =
           @ /\ (ri[th] # th[1] /\ is_active[ri[th]]
                    => mine[th] <= last_read[ri[th]])]
    /\ ri' = [ri EXCEPT ![th] = @ + 1]
    /\ UNCHANGED <<ring, registry, last_read, given_up, client_sem,
                   writer_wait_sem, writer_is_blocked, writers, mine,
                   readers>>

ReleaseStore(th) ==
    /\ pc[th] = "store" \/ (pc[th] = "relscan" /\ ri[th] = MAX_CLIENTS)
    /\ last_read' = [last_read EXCEPT ![th[1]] = held[th]]
    /\ given_up' = [given_up EXCEPT ![th[1]] =
           IF held[th] > @ THEN held[th] ELSE @]
    /\ held' = [held EXCEPT ![th] = 0]
    /\ pc' = [pc EXCEPT ![th] =
                  IF i_am_the_slowest[th] THEN "signal" ELSE AfterRelease(th)]
    /\ mine' = [mine EXCEPT ![th] = 0] /\ ri' = [ri EXCEPT ![th] = 0]
    /\ i_am_the_slowest' = [i_am_the_slowest EXCEPT ![th] = FALSE]
    /\ UNCHANGED <<ring, registry, client_sem, writer_wait_sem,
                   writer_is_blocked, writers, next_sequence_to_read, running,
                   data>>

ReleaseSignal(th) ==
    /\ ThreadGoes(th, "signal", AfterRelease(th))
    /\ writer_wait_sem' = writer_wait_sem + 1
    /\ UNCHANGED <<ring, registry, last_read, given_up, client_sem,
                   writer_is_blocked, writers, release, held,
                   next_sequence_to_read, running, data>>

-----------------------------------------------------------------------------

SendStep(w) ==
    \/ ScanReader(w) \/ PassCheck(w) \/ FailCheck(w) \/ SetBlocked(w)
    \/ WakeUp(w) \/ WriteFrame(w) \/ StampSlot(w) \/ Publish(w) \/ Notify(w)

ReleaseStep(th) ==
    \/ ReleaseReadFlag(th) \/ ReleaseReadOwn(th) \/ ReleaseScan(th)
    \/ ReleaseStore(th) \/ ReleaseSignal(th)

ReceiverStep(c) ==
    \/ ReceiverLoop(c) \/ ReceiveWait(c) \/ ReceiveView(c)
    \/ ReceiveMismatch(c) \/ QueueIncomingBuffer(c) \/ FreeAtOnce(c)
    \/ ReleaseStep(<<c, "rx">>)

AppStep(c) == PopBuffer(c) \/ CopyMessage(c) \/ ReleaseStep(<<c, "app">>)

RegistryStep(c) ==
    \/ RegisterActivate(c) \/ RegisterStore(c) \/ Stop(c) \/ Deregister(c)

Next ==
    \/ \E c \in Clients : RegistryStep(c) \/ ReceiverStep(c) \/ AppStep(c)
    \/ \E w \in Writers : Claim(w) \/ SendStep(w)

Spec == Init /\ [][Next]_vars

(***************************************************************************)
(* Threads that can move do: the scheduler runs every runnable thread, and *)
(* a semop that can succeed does.  Nobody has to send, register or stop.   *)
(***************************************************************************)
Fairness ==
    /\ \A c \in Clients : /\ WF_vars(ReceiverStep(c)) /\ WF_vars(AppStep(c))
                          /\ WF_vars(RegisterStore(c))
    /\ \A w \in Writers : WF_vars(SendStep(w)) /\ SF_vars(WakeUp(w))

FairSpec == Spec /\ Fairness

-----------------------------------------------------------------------------
(***************************************************************************)
(* Properties.                                                             *)
(***************************************************************************)

RingTypes ==
    /\ claim_sequence_id \in Nat \ {0} /\ publish_sequence_id \in Nat
    /\ sequence_id \in [0 .. BUFFER_SLOTS - 1 -> Nat]
    /\ frame \in [0 .. BUFFER_SLOTS - 1 -> Nat]
    /\ writer_wait_sem \in Nat /\ writer_is_blocked \in BOOLEAN

RegistryTypes ==
    /\ is_active \in [Clients -> BOOLEAN]
    /\ registering \in Clients \cup {None}
    /\ last_read \in [Clients -> Nat] /\ given_up \in [Clients -> Nat]
    /\ client_sem \in [Clients -> Nat]

WriterTypes ==
    /\ wpc \in [Writers -> WriterStates] /\ ticket \in [Writers -> Nat]
    /\ wi \in [Writers -> 0 .. MAX_CLIENTS] /\ slowest \in [Writers -> Nat]

ThreadTypes ==
    /\ pc \in [Threads -> RxStates \cup AppStates \cup ReleaseStates]
    /\ held \in [Threads -> Nat]

ReleaseTypes ==
    /\ ri \in [Threads -> 0 .. MAX_CLIENTS] /\ mine \in [Threads -> Nat]
    /\ i_am_the_slowest \in [Threads -> BOOLEAN]

NicTypes ==
    /\ next_sequence_to_read \in [Clients -> Nat]
    /\ running \in [Clients -> BOOLEAN]
    /\ data \in [Clients -> Seq(Nat)]

(* Types of the shared block and of the threads' locals. *)
TypeOK ==
    /\ RingTypes /\ RegistryTypes /\ WriterTypes
    /\ ThreadTypes /\ ReleaseTypes /\ NicTypes

(* The views process c has not freed: the ones in its Communicator's queue *)
(* and the ones its two threads are working on.                            *)
Views(c) ==
    {data[c][n] : n \in DOMAIN data[c]}
      \cup {v \in {held[<<c, "rx">>], held[<<c, "app">>]} : v # 0}

ShowsFrame(v) == frame[SlotOf(v)] = v /\ sequence_id[SlotOf(v)] = v

(* A zero-copy view shows its own message until it is freed: the wait of   *)
(* send for the slowest reader keeps every writer off a slot somebody may  *)
(* still read.                                                             *)
ViewIntact == \A c \in Clients : \A v \in Views(c) : ShowsFrame(v)

(* What the wait of send does keep: a view shows its own message as long   *)
(* as its process has not freed that frame or a later one, and the ticket  *)
(* was claimed after the process had registered.                           *)
ViewKept ==
    \A c \in Clients : \A v \in Views(c) : v > given_up[c] => ShowsFrame(v)

(* The application is given the frames in the order they were sent: the    *)
(* view it works on is older than the queued ones, these are in order, and *)
(* the one the receiver thread is handing over is the newest.              *)
QueueInOrder ==
    \A c \in Clients :
        LET rx == held[<<c, "rx">>] app == held[<<c, "app">>] IN
        /\ \A n \in DOMAIN data[c] :
              /\ app < data[c][n] /\ (rx # 0 => data[c][n] < rx)
              /\ \A m \in DOMAIN data[c] : m < n => data[c][m] < data[c][n]
        /\ rx # 0 => app < rx

(* Two senders never fill the same slot at the same time: the wait of send *)
(* also keeps a ticket from overtaking an unpublished one by a whole lap.  *)
WritersApart ==
    \A w, x \in Writers :
        /\ w # x
        /\ wpc[w] \in {"write", "stamp", "publish"}
        /\ wpc[x] \in {"write", "stamp", "publish"}
        => SlotOf(ticket[w]) # SlotOf(ticket[x])

(* Readers see a contiguous stream: every slot of a published ticket has   *)
(* been filled with that ticket or a later one, never left behind or put   *)
(* back to an older one.                                                   *)
PublishedStamped ==
    \A n \in 1 .. publish_sequence_id :
        sequence_id[SlotOf(n)] >= n /\ frame[SlotOf(n)] >= n

(* A process never reads a message that is not yet published, however its  *)
(* semaphore came by its tokens (a slot of the registry is taken over with *)
(* the tokens of its last owner).                                          *)
OnlyPublished ==
    \A c \in Clients : \A v \in Views(c) : v <= publish_sequence_id

(* The branch that reports CRITICAL: Mismatch in receive_zerocopy is not   *)
(* reached for a message claimed after the process registered: a token on  *)
(* the client's semaphore means that the slot of the next sequence number  *)
(* carries it.                                                             *)
NoMismatch ==
    \A c \in Clients :
        pc[<<c, "rx">>] = "check" /\ next_sequence_to_read[c] > given_up[c]
            => SlotIsExpected(c)

(* Every message published while a process runs reaches its receiver       *)
(* thread (unless the process is being destroyed).                         *)
PublishedIsReceived ==
    \A c \in Clients : \A t \in 1 .. MAX_TICKET :
        running[c] /\ publish_sequence_id >= t
            ~> next_sequence_to_read[c] > t \/ ~running[c]

(* A send that has claimed a ticket returns. *)
SendCompletes == \A w \in Writers : wpc[w] # "idle" ~> wpc[w] = "idle"

-----------------------------------------------------------------------------
(***************************************************************************)
(* The bus the ring implements.                                            *)
(***************************************************************************)

(* The receiver thread of c has reached the messages that were claimed     *)
(* after c registered.                                                     *)
InStream(c) ==
    pc[<<c, "rx">>] # "off" /\ next_sequence_to_read[c] > given_up[c]

(* How far c has read in the stream. *)
Received(c) == IF InStream(c) THEN next_sequence_to_read[c] - 1 ELSE 0

(* What c sees through its view of message n, if it still has one. *)
Shown(c, n) == IF n \in Views(c) THEN frame[SlotOf(n)] ELSE 0

(* What c sees of the messages it has received and not given up. *)
Inbox(c) ==
    [n \in 1 .. IF InStream(c) THEN Received(c) - given_up[c] ELSE 0
        |-> Shown(c, given_up[c] + n)]

Bus == INSTANCE MessageBus WITH
    Processes <- Clients,
    published <- publish_sequence_id,
    attached  <- [c \in Clients |-> InStream(c)],
    received  <- [c \in Clients |-> Received(c)],
    inbox     <- [c \in Clients |-> Inbox(c)]

(* The ring, the receiver threads and the queues together implement the    *)
(* message bus with cumulative acknowledgements: nothing a process has not *)
(* given up is lost, repeated, reordered or overwritten.                   *)
ImplementsBus == Bus!BusSpec
=============================================================================
