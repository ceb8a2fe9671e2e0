---------------------------- MODULE JoiningProofs ----------------------------
(***************************************************************************)
(* Proofs about Joining: ports are unique, the directory has room,         *)
(* receivers read only what is published, and no TEDS message comes before *)
(* the handlers, whoever is killed on the way.                             *)
(***************************************************************************)
EXTENDS Joining, FiniteSetTheorems, TLAPS

Unnumbered == {"forked", "registered"} \cup Locking
Deaf == {"assigned", "dead"} \cup Unnumbered

(* A process that is not registered has no signals; the registry never     *)
(* holds more than MAX_CLIENTS.                                            *)
RegistryInv ==
    /\ \A c \in Components : pc[c] = "forked" =>
            c \notin clients /\ pos[c] = 0 /\ credit[c] = 0
    /\ \A c \in Components : pc[c] \notin {"forked", "dead"} => c \in clients
    /\ Gateway \notin clients => pos[Gateway] = 0 /\ credit[Gateway] = 0
    /\ Cardinality(clients) <= MAX_CLIENTS

(* One component at a time is inside registerService, and the counter is   *)
(* ahead of every port.                                                    *)
NumberInv ==
    /\ \A c \in Components : pc[c] \in Locking => lock = c
    /\ \A c \in Components : pc[c] \in Unnumbered => port[c] = 0
    /\ BASE_PORT <= next /\ \A c \in Components : port[c] < next
    /\ \A c \in Components : pc[c] = "claimed" => ticket[c] = next
    /\ \A c \in Components : pc[c] = "numbered" =>
            /\ BASE_PORT <= ticket[c] /\ ticket[c] < next
            /\ \A d \in Components : port[d] # ticket[c]

(* An active entry belongs to one client, which has no other.              *)
EntryInv ==
    /\ \A i \in Slots : ~entries[i].active => entries[i].port = 0
    /\ \A i \in Slots : entries[i].active =>
            /\ entries[i].owner \in Components \cap clients
            /\ entries[i].port \in {0, port[entries[i].owner]}
    /\ \A i, j \in Slots : entries[i].active /\ entries[j].active
            /\ entries[i].owner = entries[j].owner => i = j
    /\ \A c \in Components : pc[c] \in {"forked", "registered", "locked"} =>
            \A i \in Slots : ~(entries[i].active /\ entries[i].owner = c)
    /\ \A c \in Components : pc[c] \in {"claimed", "numbered"} =>
            /\ slot[c] \in Slots
            /\ entries[slot[c]].active /\ entries[slot[c]].owner = c

QueueInv == \A c \in Components : pc[c] \in Deaf => queue[c] = <<>>

JoinInv ==
    /\ TypeOK /\ ReadsPublished /\ RegistryInv
    /\ NumberInv /\ PortsUnique /\ EntryInv /\ QueueInv /\ NoTedsBeforeHandlers

(* What dies: the actions in which a process ends. *)
Ends(c) ==
    /\ Dies(c)
    /\ \/ RegistryFull(c) \/ RegistrationFails(c) \/ UseBeforeHandlers(c)
       \/ Crash(c) \/ UpdateInAttach(c)

(* What boots: the phase of c moves on and nothing else changes. *)
Advances(c) ==
    \/ InitComponent(c) \/ MakeHandlers(c) \/ AttachObserver(c) \/ AttachCondition(c)

LEMMA SignalsNat ==
    ASSUME TypeOK, NEW c \in Components, NEW p \in Processes
    PROVE  Signals(c, p) \in Nat
<1> DEFINE S == {i \in DOMAIN ring : i > late[p] /\ ring[i].by = c}
<1>1. DOMAIN ring = 1 .. Len(ring) /\ Len(ring) \in Nat
  BY DEF TypeOK
<1>2. IsFiniteSet(1 .. Len(ring))
  BY <1>1, FS_Interval
<1>3. S \in SUBSET (1 .. Len(ring))
  BY <1>1
<1>4. IsFiniteSet(S)
  BY <1>2, <1>3, FS_Subset
<1> QED BY <1>4, FS_CardinalityType DEF Signals

(* A death takes signals back and gives none. *)
LEMMA DeathCredit ==
    ASSUME TypeOK, NEW c \in Components, Dies(c)
    PROVE  /\ credit' \in [Processes -> Nat]
           /\ \A p \in Processes : credit'[p] <= credit[p]
<1>1. \A p \in Processes : Signals(c, p) \in Nat
  BY SignalsNat
<1>2. credit' = [p \in Processes |->
                     IF p = c \/ credit[p] < Signals(c, p) THEN 0
                     ELSE credit[p] - Signals(c, p)]
  BY DEF Dies
<1>3. \A p \in Processes : credit[p] \in Nat
  BY DEF TypeOK
<1>4. ASSUME NEW p \in Processes
      PROVE  credit'[p] \in Nat /\ credit'[p] <= credit[p]
  <2> DEFINE s == Signals(c, p)
  <2>1. s \in Nat /\ credit[p] \in Nat
    BY <1>1, <1>3
  <2>2. credit'[p] = IF p = c \/ credit[p] < s THEN 0 ELSE credit[p] - s
    BY <1>2
  <2> HIDE DEF s
  <2> QED BY <2>1, <2>2
<1> QED BY <1>2, <1>4

(* Publishing appends a frame and gives each process at most one signal. *)
LEMMA PublishBus ==
    ASSUME TypeOK, NEW f \in Frame, Publish(f)
    PROVE  /\ ring' \in Seq(Frame) /\ late' = late /\ pos' = pos
           /\ credit' \in [Processes -> Nat]
           /\ Len(ring') >= Len(ring)
           /\ \A p \in Processes :
                credit'[p] - credit[p] <= Len(ring') - Len(ring) /\ credit'[p] >= credit[p]
           /\ \A p \in Processes : p \notin clients => credit'[p] = credit[p]
<1>1. CASE removed
  BY <1>1 DEF TypeOK, Publish
<1>2. CASE ~removed
  <2>1. ring' = Append(ring, f) /\ Len(ring') = Len(ring) + 1 /\ ring' \in Seq(Frame)
    BY <1>2 DEF TypeOK, Publish
  <2> QED BY <1>2, <2>1 DEF TypeOK, Publish
<1> QED BY <1>1, <1>2 DEF TypeOK

(* The frame a receiver takes has been published. *)
LEMMA ReadFrame ==
    ASSUME TypeOK, ReadsPublished, NEW p \in Processes, CanRead(p)
    PROVE  NextFrame(p) \in Frame
<1>1. pos[p] + 1 \in 1 .. Len(ring)
  BY DEF TypeOK, ReadsPublished, CanRead
<1> QED BY <1>1 DEF TypeOK, NextFrame

(* The steps, with the deaths and the plain boot steps taken together. *)
Step(c) ==
    \/ RegisterClient(c) \/ Ends(c) \/ LockDirectory(c) \/ ClaimEntry(c)
    \/ CountPort(c) \/ AssignPort(c) \/ Advances(c)
    \/ SendInterest(c) \/ Update(c) \/ Handle(c)

LEMMA NextCases ==
    ASSUME Next
    PROVE  \/ \E c \in Components : Step(c)
           \/ RegisterGateway \/ GatewayRefused \/ ForwardPing \/ GatewayReads
BY DEF Next, Start, Boot, Receive, Step, Ends, Advances,
       RegistryFull, RegistrationFails, UseBeforeHandlers, Crash, UpdateInAttach

-----------------------------------------------------------------------------

LEMMA InitInv == Init => JoinInv
<1> SUFFICES ASSUME Init PROVE JoinInv
  OBVIOUS
<1>1. TypeOK
  <2>1. FreeEntry \in Entry
    BY DEF FreeEntry, Entry
  <2>2. <<>> \in Seq(Frame) /\ BASE_PORT \in Nat
    BY DEF BASE_PORT
  <2>3. "forked" \in Phases
    BY DEF Phases
  <2> QED BY <2>1, <2>2, <2>3 DEF Init, TypeOK, Processes
<1>2. ReadsPublished
  <2>1. Len(ring) = 0
    BY DEF Init
  <2> QED BY <2>1 DEF Init, ReadsPublished
<1>3. RegistryInv
  <2>1. Cardinality({}) = 0
    BY FS_EmptySet
  <2>2. Gateway \in Processes /\ \A c \in Components : c \in Processes
    BY DEF Processes
  <2> QED BY <2>1, <2>2, BoundsAssumption DEF Init, RegistryInv
<1>4. NumberInv /\ PortsUnique
  BY DEF Init, NumberInv, PortsUnique, BASE_PORT, Locking
<1>5. EntryInv
  BY DEF Init, EntryInv, FreeEntry
<1>6. QueueInv /\ NoTedsBeforeHandlers
  BY DEF Init, QueueInv, NoTedsBeforeHandlers
<1> QED BY <1>1, <1>2, <1>3, <1>4, <1>5, <1>6 DEF JoinInv

LEMMA TypeStep ==
    ASSUME JoinInv, Next
    PROVE  TypeOK'
<1> USE DEF JoinInv
<1>1. ASSUME NEW c \in Components, RegisterClient(c) PROVE TypeOK'
  BY <1>1 DEF TypeOK, RegisterClient, Goes, Phases, Processes, directory
<1>2. ASSUME NEW c \in Components, Ends(c) PROVE TypeOK'
  <2>1. Dies(c) /\ removed' \in BOOLEAN
    BY <1>2 DEF Ends, RegistryFull, RegistrationFails, UseBeforeHandlers, Crash, UpdateInAttach, TypeOK
  <2>2. credit' \in [Processes -> Nat]
    BY <2>1, DeathCredit
  <2>3. queue' \in [Components -> Seq(Frame)]
    BY <2>1 DEF Dies, TypeOK
  <2>4. pc' \in [Components -> Phases] /\ lock' \in Components \cup {NoOne}
    BY <2>1 DEF Dies, TypeOK, Phases
  <2> QED BY <2>1, <2>2, <2>3, <2>4 DEF Dies, TypeOK
<1>3. ASSUME NEW c \in Components, LockDirectory(c) PROVE TypeOK'
  BY <1>3 DEF TypeOK, LockDirectory, Goes, Phases, Locking, bus
<1>4. ASSUME NEW c \in Components, ClaimEntry(c) PROVE TypeOK'
  <2>1. PICK i \in Slots :
            /\ slot' = [slot EXCEPT ![c] = i]
            /\ entries' = [entries EXCEPT ![i] = [active |-> TRUE, owner |-> c, port |-> @.port]]
    BY <1>4 DEF ClaimEntry
  <2>2. entries[i].port \in Nat
    BY DEF TypeOK, Entry
  <2>3. [active |-> TRUE, owner |-> c, port |-> entries[i].port] \in Entry
    BY <2>2 DEF Entry
  <2>4. entries' \in [Slots -> Entry]
    BY <2>1, <2>3 DEF TypeOK
  <2> QED BY <1>4, <2>1, <2>4 DEF TypeOK, ClaimEntry, Goes, Phases, Locking, bus
<1>5. ASSUME NEW c \in Components, CountPort(c) PROVE TypeOK'
  BY <1>5 DEF TypeOK, CountPort, Goes, Phases, Locking, bus
<1>6. ASSUME NEW c \in Components, AssignPort(c) PROVE TypeOK'
  <2>1. entries' \in [Slots -> Entry]
    BY <1>6 DEF TypeOK, AssignPort, Entry
  <2> QED BY <1>6, <2>1 DEF TypeOK, AssignPort, Goes, Phases, bus
<1>7. ASSUME NEW c \in Components, Advances(c) PROVE TypeOK'
  BY <1>7 DEF TypeOK, Advances, InitComponent, MakeHandlers, AttachObserver, AttachCondition,
     Boots, Goes, Phases, Listening, Handling, Subscribed, directory, bus
<1>8. ASSUME NEW c \in Components, SendInterest(c) PROVE TypeOK'
  <2>1. [kind |-> "INTEREST", by |-> c] \in Frame
    BY DEF Frame, Processes
  <2>2. ring' \in Seq(Frame) /\ late' = late /\ pos' = pos /\ credit' \in [Processes -> Nat]
    BY <1>8, <2>1, PublishBus DEF SendInterest
  <2> QED BY <1>8, <2>2
    DEF TypeOK, SendInterest, Goes, Phases, Listening, Handling, Subscribed, directory
<1>9. ASSUME NEW c \in Components, Update(c) PROVE TypeOK'
  <2>1. c \in Processes /\ CanRead(c)
    BY <1>9 DEF Processes, Update, Reads
  <2>2. NextFrame(c) \in Frame
    BY <2>1, ReadFrame
  <2>3. queue' \in [Components -> Seq(Frame)] /\ seen' \in [Components -> SUBSET Processes]
    <3> DEFINE f == NextFrame(c)
    <3>1. f \in Frame /\ f.by \in Processes
      BY <2>2 DEF Frame
    <3>2. Append(queue[c], f) \in Seq(Frame) /\ seen[c] \cup {f.by} \in SUBSET Processes
      BY <3>1 DEF TypeOK
    <3>3. /\ queue' = IF Matches(c, f) THEN [queue EXCEPT ![c] = Append(queue[c], f)] ELSE queue
          /\ seen' = IF Matches(c, f) /\ f.kind = "INTEREST"
                     THEN [seen EXCEPT ![c] = seen[c] \cup {f.by}] ELSE seen
      BY <1>9 DEF Update
    <3> HIDE DEF f
    <3> QED BY <3>2, <3>3 DEF TypeOK
  <2>4. pos' \in [Processes -> Nat] /\ credit' \in [Processes -> Nat]
    BY <1>9, <2>1 DEF TypeOK, Update, Reads, CanRead
  <2> QED BY <1>9, <2>3, <2>4 DEF TypeOK, Update, Reads, directory
<1>10. ASSUME NEW c \in Components, Handle(c) PROVE TypeOK'
  <2>1. [kind |-> "ECHO", by |-> c] \in Frame
    BY DEF Frame, Processes
  <2>2. ring' \in Seq(Frame) /\ late' = late /\ pos' = pos /\ credit' \in [Processes -> Nat]
    <3>1. CASE Publish([kind |-> "ECHO", by |-> c])
      BY <3>1, <2>1, PublishBus
    <3>2. CASE UNCHANGED bus
      BY <3>2 DEF TypeOK, bus
    <3> QED BY <1>10, <3>1, <3>2 DEF Handle
  <2>3. queue' \in [Components -> Seq(Frame)]
    BY <1>10 DEF TypeOK, Handle
  <2> QED BY <1>10, <2>2, <2>3 DEF TypeOK, Handle, directory
<1>11. ASSUME ForwardPing PROVE TypeOK'
  <2>1. [kind |-> "PING", by |-> Gateway] \in Frame
    BY DEF Frame, Processes
  <2>2. ring' \in Seq(Frame) /\ late' = late /\ pos' = pos /\ credit' \in [Processes -> Nat]
    BY <1>11, <2>1, PublishBus DEF ForwardPing
  <2> QED BY <1>11, <2>2 DEF TypeOK, ForwardPing, directory
<1>12. ASSUME GatewayReads PROVE TypeOK'
  <2>1. Gateway \in Processes
    BY DEF Processes
  <2>2. pos' \in [Processes -> Nat] /\ credit' \in [Processes -> Nat]
    BY <1>12, <2>1 DEF TypeOK, GatewayReads, Reads, CanRead
  <2> QED BY <1>12, <2>2 DEF TypeOK, GatewayReads, Reads, directory
<1>13. ASSUME RegisterGateway \/ GatewayRefused PROVE TypeOK'
  <2>1. Gateway \in Processes /\ Len(ring) \in Nat
    BY DEF Processes, TypeOK
  <2>2. CASE RegisterGateway
    BY <2>1, <2>2 DEF TypeOK, RegisterGateway, directory
  <2>3. CASE GatewayRefused
    BY <2>3 DEF TypeOK, GatewayRefused, directory, bus
  <2> QED BY <1>13, <2>2, <2>3
<1> QED
  BY <1>1, <1>2, <1>3, <1>4, <1>5, <1>6, <1>7, <1>8, <1>9, <1>10, <1>11, <1>12, <1>13, NextCases
  DEF Step

(* A receiver's signals stand for published frames it has not read.        *)
LEMMA PublishedStep ==
    ASSUME JoinInv, Next
    PROVE  ReadsPublished'
<1> USE DEF JoinInv
<1>0. /\ \A p \in Processes : pos[p] \in Nat /\ credit[p] \in Nat /\ late[p] \in Nat
      /\ Len(ring) \in Nat
  BY DEF TypeOK
<1>1. ASSUME NEW c \in Components, RegisterClient(c) PROVE ReadsPublished'
  <2>1. pos[c] = 0 /\ credit[c] = 0
    BY <1>1 DEF RegistryInv, RegisterClient, Goes
  <2>2. late' = [late EXCEPT ![c] = Len(ring)] /\ ring' = ring /\ pos' = pos /\ credit' = credit
    BY <1>1 DEF RegisterClient
  <2> QED BY <1>0, <2>1, <2>2 DEF ReadsPublished, TypeOK
<1>2. ASSUME NEW c \in Components, Ends(c) PROVE ReadsPublished'
  <2>1. Dies(c)
    BY <1>2 DEF Ends
  <2>2. credit' \in [Processes -> Nat] /\ \A p \in Processes : credit'[p] <= credit[p]
    BY <2>1, DeathCredit
  <2>3. ring' = ring /\ late' = late /\ pos' = pos
    BY <2>1 DEF Dies
  <2> QED BY <1>0, <2>2, <2>3 DEF ReadsPublished
<1>3. ASSUME NEW f \in Frame, Publish(f) PROVE ReadsPublished'
  <2>1. /\ late' = late /\ pos' = pos /\ credit' \in [Processes -> Nat] /\ Len(ring') \in Nat
        /\ \A p \in Processes : credit'[p] - credit[p] <= Len(ring') - Len(ring)
    BY <1>3, PublishBus
  <2> QED BY <1>0, <2>1 DEF ReadsPublished
<1>4. ASSUME NEW p \in Processes, Reads(p) PROVE ReadsPublished'
  <2>1. /\ pos' = [pos EXCEPT ![p] = pos[p] + 1] /\ credit' = [credit EXCEPT ![p] = credit[p] - 1]
        /\ ring' = ring /\ late' = late
    BY <1>4 DEF Reads
  <2> QED BY <1>0, <2>1 DEF ReadsPublished, TypeOK
<1>5. ASSUME UNCHANGED bus PROVE ReadsPublished'
  BY <1>5 DEF ReadsPublished, bus
<1>6. ASSUME NEW c \in Components, Step(c) PROVE ReadsPublished'
  <2>1. CASE LockDirectory(c) \/ ClaimEntry(c) \/ CountPort(c) \/ AssignPort(c) \/ Advances(c)
    <3>1. UNCHANGED bus
      BY <2>1 DEF LockDirectory, ClaimEntry, CountPort, AssignPort, Advances,
         InitComponent, MakeHandlers, AttachObserver, AttachCondition, Boots
    <3> QED BY <3>1, <1>5
  <2>2. CASE SendInterest(c)
    BY <2>2, <1>3 DEF SendInterest, Frame, Processes
  <2>3. CASE Update(c)
    BY <2>3, <1>4 DEF Update, Processes
  <2>4. CASE Handle(c)
    BY <2>4, <1>3, <1>5 DEF Handle, Frame, Processes
  <2> QED BY <1>1, <1>2, <1>6, <2>1, <2>2, <2>3, <2>4 DEF Step
<1>7. CASE ForwardPing
  BY <1>7, <1>3 DEF ForwardPing, Frame, Processes
<1>8. CASE GatewayReads
  BY <1>8, <1>4 DEF GatewayReads, Processes
<1>9. CASE RegisterGateway
  <2>1. pos[Gateway] = 0 /\ credit[Gateway] = 0 /\ Gateway \in Processes
    BY <1>9 DEF RegistryInv, RegisterGateway, Processes
  <2>2. late' = [late EXCEPT ![Gateway] = Len(ring)] /\ ring' = ring /\ pos' = pos
        /\ credit' = credit
    BY <1>9 DEF RegisterGateway
  <2>3. \A p \in Processes : late'[p] = IF p = Gateway THEN Len(ring) ELSE late[p]
    BY <2>2 DEF TypeOK
  <2>4. \A p \in Processes : pos[p] + credit[p] + late[p] <= Len(ring)
    BY DEF ReadsPublished
  <2>5. \A p \in Processes : pos[p] + credit[p] + late'[p] <= Len(ring)
    BY <1>0, <2>1, <2>3, <2>4
  <2> QED BY <2>2, <2>5 DEF ReadsPublished
<1>10. CASE GatewayRefused
  BY <1>10, <1>5 DEF GatewayRefused
<1> QED BY <1>6, <1>7, <1>8, <1>9, <1>10, NextCases

LEMMA RegistryStep ==
    ASSUME JoinInv, Next
    PROVE  RegistryInv'
<1> USE DEF JoinInv
<1>0. \A c \in Components : c \in Processes /\ c # Gateway
  BY ComponentsAssumption DEF Processes
<1>9. ASSUME NEW p \in Processes, p \notin clients, Cardinality(clients) < MAX_CLIENTS
      PROVE  Cardinality(clients \cup {p}) <= MAX_CLIENTS
  <2>1. IsFiniteSet(clients)
    <3>1. IsFiniteSet(Processes)
      BY ComponentsAssumption, FS_AddElement DEF Processes
    <3> QED BY <3>1, FS_Subset DEF TypeOK
  <2>2. Cardinality(clients \cup {p}) = Cardinality(clients) + 1
    BY <1>9, <2>1, FS_AddElement
  <2>3. Cardinality(clients) \in Nat
    BY <2>1, FS_CardinalityType
  <2> QED BY <1>9, <2>2, <2>3, BoundsAssumption
<1>1. ASSUME NEW c \in Components, RegisterClient(c) PROVE RegistryInv'
  <2>1. c \notin clients /\ Cardinality(clients) < MAX_CLIENTS
    BY <1>1 DEF RegistryInv, RegisterClient, Goes
  <2>2. Cardinality(clients \cup {c}) <= MAX_CLIENTS
    BY <1>0, <1>9, <2>1
  <2> QED BY <1>0, <1>1, <2>2 DEF RegistryInv, RegisterClient, Goes, TypeOK
<1>2. ASSUME NEW c \in Components, Ends(c) PROVE RegistryInv'
  <2>1. Dies(c)
    BY <1>2 DEF Ends
  <2>2. \A p \in Processes : credit'[p] \in Nat /\ credit'[p] <= credit[p] /\ credit[p] \in Nat
    BY <2>1, DeathCredit DEF TypeOK
  <2>3. pc' = [pc EXCEPT ![c] = "dead"] /\ clients' = clients /\ pos' = pos
    BY <2>1 DEF Dies
  <2>4. \A d \in Components : pc'[d] = IF d = c THEN "dead" ELSE pc[d]
    BY <2>3 DEF TypeOK
  <2>5. \A d \in Components : pc'[d] = "forked" =>
            d \notin clients' /\ pos'[d] = 0 /\ credit'[d] = 0
    <3> SUFFICES ASSUME NEW d \in Components, pc'[d] = "forked"
                 PROVE  d \notin clients' /\ pos'[d] = 0 /\ credit'[d] = 0
      OBVIOUS
    <3>1. pc[d] = "forked"
      BY <2>4
    <3>2. d \notin clients /\ pos[d] = 0 /\ credit[d] = 0
      BY <3>1 DEF RegistryInv
    <3>3. credit'[d] \in Nat /\ credit'[d] <= credit[d]
      BY <1>0, <2>2
    <3> QED BY <2>3, <3>2, <3>3
  <2>6. Gateway \notin clients' => pos'[Gateway] = 0 /\ credit'[Gateway] = 0
    <3>1. credit'[Gateway] \in Nat /\ credit'[Gateway] <= credit[Gateway]
      BY <2>2 DEF Processes
    <3> QED BY <2>3, <3>1 DEF RegistryInv
  <2> QED BY <2>3, <2>4, <2>5, <2>6 DEF RegistryInv
<1>3. ASSUME NEW c \in Components,
             \/ LockDirectory(c) \/ ClaimEntry(c) \/ CountPort(c) \/ AssignPort(c) \/ Advances(c)
      PROVE  RegistryInv'
  BY <1>3 DEF RegistryInv, TypeOK, LockDirectory, ClaimEntry, CountPort, AssignPort, Advances,
     InitComponent, MakeHandlers, AttachObserver, AttachCondition, Boots, Goes, bus
<1>4. ASSUME NEW f \in Frame, Publish(f), clients' = clients,
             \A d \in Components : pc'[d] = pc[d] \/ (pc[d] = "up" /\ pc'[d] = "asked")
      PROVE  RegistryInv'
  <2>1. pos' = pos /\ \A p \in Processes : p \notin clients => credit'[p] = credit[p]
    BY <1>4, PublishBus
  <2>2. Gateway \in Processes
    BY DEF Processes
  <2> QED BY <1>0, <1>4, <2>1, <2>2 DEF RegistryInv
<1>5. ASSUME NEW p \in Processes, Reads(p), clients' = clients, pc' = pc,
             p = Gateway \/ pc[p] # "forked"
      PROVE  RegistryInv'
  <2>1. credit[p] # 0 /\ Gateway \in Processes
    BY <1>5 DEF Reads, CanRead, TypeOK, Processes
  <2> QED BY <1>0, <1>5, <2>1 DEF RegistryInv, Reads, TypeOK
<1>6. ASSUME NEW c \in Components, Step(c) PROVE RegistryInv'
  <2>1. CASE SendInterest(c)
    BY <2>1, <1>4 DEF SendInterest, Goes, TypeOK, Frame, Processes
  <2>2. CASE Update(c)
    BY <2>2, <1>0, <1>5 DEF Update, Listening, Handling, Subscribed
  <2>3. CASE Handle(c)
    <3>1. CASE UNCHANGED bus
      BY <2>3, <3>1 DEF RegistryInv, Handle, bus
    <3>2. CASE Publish([kind |-> "ECHO", by |-> c])
      BY <2>3, <3>2, <1>4 DEF Handle, Frame, Processes
    <3> QED BY <2>3, <3>1, <3>2 DEF Handle
  <2> QED BY <1>1, <1>2, <1>3, <1>6, <2>1, <2>2, <2>3 DEF Step
<1>7. CASE ForwardPing
  BY <1>7, <1>4 DEF ForwardPing, Frame, Processes
<1>8. CASE GatewayReads
  BY <1>8, <1>5 DEF GatewayReads, Processes
<1>10. CASE RegisterGateway
  <2>1. Cardinality(clients \cup {Gateway}) <= MAX_CLIENTS
    BY <1>9, <1>10 DEF RegisterGateway, Processes
  <2> QED BY <1>0, <1>10, <2>1 DEF RegistryInv, RegisterGateway
<1>11. CASE GatewayRefused
  BY <1>11 DEF RegistryInv, GatewayRefused, bus
<1> QED BY <1>6, <1>7, <1>8, <1>10, <1>11, NextCases

(* The deaths and the steps outside registerService leave its numbers     *)
(* alone.                                                                  *)
LEMMA NumberStep ==
    ASSUME JoinInv, Next
    PROVE  NumberInv' /\ PortsUnique'
<1> USE DEF JoinInv
<1>0. /\ next \in Nat /\ BASE_PORT \in Nat /\ BASE_PORT # 0
      /\ \A c \in Components : port[c] \in Nat /\ ticket[c] \in Nat
  BY DEF TypeOK, BASE_PORT
<1>1. ASSUME NEW c \in Components, Ends(c) PROVE NumberInv' /\ PortsUnique'
  <2>1. /\ pc' = [pc EXCEPT ![c] = "dead"] /\ lock' = IF lock = c THEN NoOne ELSE lock
        /\ next' = next /\ ticket' = ticket /\ port' = port
    BY <1>1 DEF Ends, Dies
  <2>2. \A d \in Components : pc'[d] = IF d = c THEN "dead" ELSE pc[d]
    BY <2>1 DEF TypeOK
  <2>3. \A d \in Components : pc'[d] \in Locking \cup Unnumbered => d # c
    BY <2>2 DEF Locking, Unnumbered
  <2> QED BY <2>1, <2>2, <2>3 DEF NumberInv, PortsUnique
<1>2. ASSUME NEW c \in Components, LockDirectory(c) PROVE NumberInv' /\ PortsUnique'
  <2>1. /\ lock = NoOne /\ lock' = c /\ pc[c] = "registered"
        /\ next' = next /\ ticket' = ticket /\ port' = port
    BY <1>2 DEF LockDirectory, Goes
  <2>2. \A d \in Components : pc'[d] = IF d = c THEN "locked" ELSE pc[d]
    BY <1>2 DEF LockDirectory, Goes, TypeOK
  <2>3. \A d \in Components : pc[d] \notin Locking
    BY <2>1, ComponentsAssumption DEF NumberInv
  <2>4. pc[c] \in Unnumbered
    BY <2>1 DEF Unnumbered
  <2> QED BY <2>1, <2>2, <2>3, <2>4 DEF NumberInv, PortsUnique, Locking
<1>3. ASSUME NEW c \in Components, ClaimEntry(c) PROVE NumberInv' /\ PortsUnique'
  <2>1. /\ pc[c] = "locked" /\ ticket' = [ticket EXCEPT ![c] = next]
        /\ lock' = lock /\ next' = next /\ port' = port
    BY <1>3 DEF ClaimEntry, Goes
  <2>2. \A d \in Components : pc'[d] = IF d = c THEN "claimed" ELSE pc[d]
    BY <1>3 DEF ClaimEntry, Goes, TypeOK
  <2>3. \A d \in Components : pc[d] \in Locking => d = c
    BY <2>1 DEF NumberInv, Locking
  <2>4. pc[c] \in Unnumbered /\ pc[c] \in Locking
    BY <2>1 DEF Unnumbered, Locking
  <2>5. ticket'[c] = next
    BY <2>1 DEF TypeOK
  <2> QED BY <2>1, <2>2, <2>3, <2>4, <2>5 DEF NumberInv, PortsUnique, Locking
<1>4. ASSUME NEW c \in Components, CountPort(c) PROVE NumberInv' /\ PortsUnique'
  <2>1. /\ pc[c] = "claimed" /\ next' = ticket[c] + 1
        /\ lock' = lock /\ ticket' = ticket /\ port' = port
    BY <1>4 DEF CountPort, Goes
  <2>2. \A d \in Components : pc'[d] = IF d = c THEN "numbered" ELSE pc[d]
    BY <1>4 DEF CountPort, Goes, TypeOK
  <2>3. \A d \in Components : pc[d] \in Locking => d = c
    BY <2>1 DEF NumberInv, Locking
  <2>4. pc[c] \in Unnumbered /\ pc[c] \in Locking
    BY <2>1 DEF Unnumbered, Locking
  <2>5. ticket[c] = next /\ next' = next + 1 /\ \A d \in Components : port[d] # ticket[c]
    BY <1>0, <2>1 DEF NumberInv
  <2>6. BASE_PORT <= next' /\ \A d \in Components : port'[d] < next'
    BY <1>0, <2>1, <2>5 DEF NumberInv
  <2> QED BY <1>0, <2>1, <2>2, <2>3, <2>4, <2>5, <2>6 DEF NumberInv, PortsUnique, Locking
<1>5. ASSUME NEW c \in Components, AssignPort(c) PROVE NumberInv' /\ PortsUnique'
  <2>1. /\ pc[c] = "numbered" /\ port' = [port EXCEPT ![c] = ticket[c]]
        /\ next' = next /\ ticket' = ticket
    BY <1>5 DEF AssignPort, Goes
  <2>2. \A d \in Components : pc'[d] = IF d = c THEN "assigned" ELSE pc[d]
    BY <1>5 DEF AssignPort, Goes, TypeOK
  <2>3. \A d \in Components : pc[d] \in Locking => d = c
    BY <2>1 DEF NumberInv, Locking
  <2>4. \A d \in Components : port'[d] = IF d = c THEN ticket[c] ELSE port[d]
    BY <2>1 DEF TypeOK
  <2>5. /\ BASE_PORT <= ticket[c] /\ ticket[c] < next
        /\ \A d \in Components : port[d] # ticket[c]
    BY <2>1 DEF NumberInv
  <2>6. \A d \in Components : pc'[d] \notin Locking
    BY <2>2, <2>3 DEF Locking
  <2>7. \A d \in Components : pc'[d] \in Unnumbered => d # c
    BY <2>2 DEF Unnumbered, Locking
  <2> QED BY <2>1, <2>2, <2>4, <2>5, <2>6, <2>7 DEF NumberInv, PortsUnique, Locking
<1>6. ASSUME UNCHANGED <<next, lock, ticket, port>>,
             \A d \in Components : pc'[d] = pc[d] \/ (pc'[d] \notin Locking
                /\ (pc'[d] \in Unnumbered => pc[d] \in Unnumbered))
      PROVE  NumberInv' /\ PortsUnique'
  BY <1>6 DEF NumberInv, PortsUnique, Locking
<1>7. ASSUME NEW c \in Components, Step(c) PROVE NumberInv' /\ PortsUnique'
  <2>1. CASE RegisterClient(c)
    BY <2>1, <1>6 DEF RegisterClient, Goes, directory, TypeOK, Unnumbered, Locking
  <2>2. CASE Advances(c)
    BY <2>2, <1>6 DEF Advances, InitComponent, MakeHandlers, AttachObserver, AttachCondition,
       Boots, Goes, directory, TypeOK, Unnumbered, Locking
  <2>3. CASE SendInterest(c)
    BY <2>3, <1>6 DEF SendInterest, Goes, directory, TypeOK, Unnumbered, Locking
  <2>4. CASE Update(c) \/ Handle(c)
    BY <2>4, <1>6 DEF Update, Handle, directory
  <2> QED BY <1>1, <1>2, <1>3, <1>4, <1>5, <1>7, <2>1, <2>2, <2>3, <2>4 DEF Step
<1>8. CASE RegisterGateway \/ GatewayRefused \/ ForwardPing \/ GatewayReads
  BY <1>8, <1>6 DEF RegisterGateway, GatewayRefused, ForwardPing, GatewayReads, directory
<1> QED BY <1>7, <1>8, NextCases

(* Only ClaimEntry and AssignPort write the directory.                     *)
LEMMA EntryStep ==
    ASSUME JoinInv, Next
    PROVE  EntryInv'
<1> USE DEF JoinInv
<1>0. \A i \in Slots : /\ entries[i].active \in BOOLEAN
                       /\ entries[i].owner \in Components \cup {NoOne}
                       /\ entries[i].port \in Nat
  BY DEF TypeOK, Entry
<1>1. ASSUME NEW c \in Components, ClaimEntry(c) PROVE EntryInv'
  <2>1. PICK i \in Slots :
            /\ ~entries[i].active /\ slot' = [slot EXCEPT ![c] = i]
            /\ entries' = [entries EXCEPT ![i] = [active |-> TRUE, owner |-> c, port |-> @.port]]
    BY <1>1 DEF ClaimEntry
  <2>2. pc[c] = "locked" /\ clients' = clients /\ port' = port
    BY <1>1 DEF ClaimEntry, Goes
  <2>3. \A d \in Components : pc'[d] = IF d = c THEN "claimed" ELSE pc[d]
    BY <1>1 DEF ClaimEntry, Goes, TypeOK
  <2>4. \A j \in Slots : entries'[j] =
            IF j = i THEN [active |-> TRUE, owner |-> c, port |-> 0] ELSE entries[j]
    BY <2>1 DEF TypeOK, EntryInv
  <2>5. \A d \in Components : slot'[d] = IF d = c THEN i ELSE slot[d]
    BY <2>1 DEF TypeOK
  <2>6. c \in clients /\ \A j \in Slots : ~(entries[j].active /\ entries[j].owner = c)
    BY <2>2 DEF RegistryInv, EntryInv
  <2>7. /\ \A j \in Slots : ~entries'[j].active => entries'[j].port = 0
        /\ \A j \in Slots : entries'[j].active =>
                /\ entries'[j].owner \in Components \cap clients'
                /\ entries'[j].port \in {0, port'[entries'[j].owner]}
    BY <2>2, <2>4, <2>6 DEF EntryInv
  <2>8. \A j, k \in Slots : entries'[j].active /\ entries'[k].active
            /\ entries'[j].owner = entries'[k].owner => j = k
    BY <2>4, <2>6 DEF EntryInv
  <2>9. \A d \in Components : pc'[d] \in {"forked", "registered", "locked"} =>
            \A j \in Slots : ~(entries'[j].active /\ entries'[j].owner = d)
    BY <2>3, <2>4 DEF EntryInv
  <2>10. \A d \in Components : pc'[d] \in {"claimed", "numbered"} =>
            slot'[d] \in Slots /\ entries'[slot'[d]].active /\ entries'[slot'[d]].owner = d
    BY <2>1, <2>3, <2>4, <2>5 DEF EntryInv
  <2> QED BY <2>7, <2>8, <2>9, <2>10 DEF EntryInv
<1>2. ASSUME NEW c \in Components, AssignPort(c) PROVE EntryInv'
  <2>1. /\ pc[c] = "numbered" /\ port' = [port EXCEPT ![c] = ticket[c]]
        /\ entries' = [entries EXCEPT ![slot[c]].port = ticket[c]]
        /\ slot' = slot /\ clients' = clients
    BY <1>2 DEF AssignPort, Goes
  <2>2. \A d \in Components : pc'[d] = IF d = c THEN "assigned" ELSE pc[d]
    BY <1>2 DEF AssignPort, Goes, TypeOK
  <2>3. slot[c] \in Slots /\ entries[slot[c]].active /\ entries[slot[c]].owner = c
    BY <2>1 DEF EntryInv
  <2>4. \A j \in Slots : /\ entries'[j].active = entries[j].active
                         /\ entries'[j].owner = entries[j].owner
                         /\ entries'[j].port = IF j = slot[c] THEN ticket[c] ELSE entries[j].port
    BY <2>1, <2>3 DEF TypeOK, Entry
  <2>5. \A d \in Components : port'[d] = IF d = c THEN ticket[c] ELSE port[d]
    BY <2>1 DEF TypeOK
  <2>6. \A j \in Slots : entries[j].active /\ entries[j].owner = c => j = slot[c]
    BY <2>3 DEF EntryInv
  <2>7. \A j \in Slots : ~entries'[j].active => entries'[j].port = 0
    BY <2>3, <2>4 DEF EntryInv
  <2>8. \A j \in Slots : entries'[j].active =>
                /\ entries'[j].owner \in Components \cap clients'
                /\ entries'[j].port \in {0, port'[entries'[j].owner]}
    <3> SUFFICES ASSUME NEW j \in Slots, entries'[j].active
                 PROVE  /\ entries'[j].owner \in Components \cap clients'
                        /\ entries'[j].port \in {0, port'[entries'[j].owner]}
      OBVIOUS
    <3>1. entries[j].active /\ entries[j].owner \in Components \cap clients
          /\ entries[j].port \in {0, port[entries[j].owner]}
      BY <2>4 DEF EntryInv
    <3>2. CASE j = slot[c]
      BY <3>1, <3>2, <2>1, <2>3, <2>4, <2>5
    <3>3. CASE j # slot[c]
      BY <3>1, <3>3, <2>1, <2>4, <2>5, <2>6
    <3> QED BY <3>2, <3>3
  <2>9. \A j, k \in Slots : entries'[j].active /\ entries'[k].active
            /\ entries'[j].owner = entries'[k].owner => j = k
    BY <2>4 DEF EntryInv
  <2>10. \A d \in Components : pc'[d] \in {"forked", "registered", "locked"} =>
            \A j \in Slots : ~(entries'[j].active /\ entries'[j].owner = d)
    BY <2>2, <2>4 DEF EntryInv
  <2>11. \A d \in Components : pc'[d] \in {"claimed", "numbered"} =>
            slot'[d] \in Slots /\ entries'[slot'[d]].active /\ entries'[slot'[d]].owner = d
    BY <2>1, <2>2, <2>4 DEF EntryInv
  <2> QED BY <2>7, <2>8, <2>9, <2>10, <2>11 DEF EntryInv
<1>3. ASSUME UNCHANGED <<entries, slot, port>>, clients \subseteq clients',
             \A d \in Components :
                /\ pc'[d] \in {"forked", "registered", "locked"} =>
                        pc[d] \in {"forked", "registered", "locked"}
                /\ pc'[d] \in {"claimed", "numbered"} => pc[d] \in {"claimed", "numbered"}
      PROVE  EntryInv'
  BY <1>3 DEF EntryInv
<1>4. ASSUME NEW c \in Components, Step(c) PROVE EntryInv'
  <2>1. CASE RegisterClient(c)
    BY <2>1, <1>3 DEF RegisterClient, Goes, directory, TypeOK
  <2>2. CASE Ends(c)
    BY <2>2, <1>3 DEF Ends, Dies, TypeOK
  <2>3. CASE LockDirectory(c)
    BY <2>3, <1>3 DEF LockDirectory, Goes, TypeOK
  <2>4. CASE CountPort(c)
    BY <2>4, <1>3 DEF CountPort, Goes, TypeOK
  <2>5. CASE Advances(c)
    BY <2>5, <1>3 DEF Advances, InitComponent, MakeHandlers, AttachObserver, AttachCondition,
       Boots, Goes, directory, TypeOK
  <2>6. CASE SendInterest(c)
    BY <2>6, <1>3 DEF SendInterest, Goes, directory, TypeOK
  <2>7. CASE Update(c) \/ Handle(c)
    BY <2>7, <1>3 DEF Update, Handle, directory
  <2> QED BY <1>1, <1>2, <1>4, <2>1, <2>2, <2>3, <2>4, <2>5, <2>6, <2>7 DEF Step
<1>5. CASE RegisterGateway \/ GatewayRefused \/ ForwardPing \/ GatewayReads
  BY <1>5, <1>3 DEF RegisterGateway, GatewayRefused, ForwardPing, GatewayReads, directory
<1> QED BY <1>4, <1>5, NextCases

(* A queue is empty until its owner listens, and holds only PINGs until it *)
(* has handlers.                                                           *)
LEMMA QueueStep ==
    ASSUME JoinInv, Next
    PROVE  QueueInv' /\ NoTedsBeforeHandlers'
<1> USE DEF JoinInv
<1>1. ASSUME NEW c \in Components, Ends(c) PROVE QueueInv' /\ NoTedsBeforeHandlers'
  <2>1. \A d \in Components : /\ pc'[d] = IF d = c THEN "dead" ELSE pc[d]
                             /\ queue'[d] = IF d = c THEN <<>> ELSE queue[d]
    BY <1>1 DEF Ends, Dies, TypeOK
  <2> QED BY <2>1 DEF QueueInv, NoTedsBeforeHandlers
<1>2. ASSUME NEW c \in Components, InitComponent(c) PROVE QueueInv' /\ NoTedsBeforeHandlers'
  <2>1. pc[c] = "assigned" /\ queue' = queue
    BY <1>2 DEF InitComponent, Boots, Goes
  <2>2. \A d \in Components : pc'[d] = IF d = c THEN "listening" ELSE pc[d]
    BY <1>2 DEF InitComponent, Boots, Goes, TypeOK
  <2>3. queue[c] = <<>>
    BY <2>1 DEF QueueInv, Deaf
  <2>4. \A i \in DOMAIN queue[c] : queue[c][i].kind = "PING"
    BY <2>3
  <2> QED BY <2>1, <2>2, <2>4 DEF QueueInv, NoTedsBeforeHandlers, Deaf, Unnumbered, Locking
<1>3. ASSUME queue' = queue,
             \A d \in Components : pc'[d] = pc[d]
                \/ (pc'[d] # "listening" /\ (pc'[d] \in Deaf => pc[d] \in Deaf))
      PROVE  QueueInv' /\ NoTedsBeforeHandlers'
  BY <1>3 DEF QueueInv, NoTedsBeforeHandlers
<1>4. ASSUME NEW c \in Components, Update(c) PROVE QueueInv' /\ NoTedsBeforeHandlers'
  <2> DEFINE f == NextFrame(c)
  <2>1. /\ pc' = pc /\ pc[c] \in Listening
        /\ queue' = IF Matches(c, f) THEN [queue EXCEPT ![c] = Append(queue[c], f)] ELSE queue
    BY <1>4 DEF Update
  <2>2. pc[c] \notin Deaf
    BY <2>1 DEF Deaf, Unnumbered, Locking, Listening, Handling, Subscribed
  <2>3. \A d \in Components : d # c => queue'[d] = queue[d]
    BY <2>1 DEF TypeOK
  <2>4. ASSUME pc[c] = "listening", Matches(c, f),
               NEW i \in DOMAIN queue'[c]
        PROVE  queue'[c][i].kind = "PING"
    <3>1. f.kind = "PING"
      BY <2>4 DEF Matches, Subscribed
    <3>2. queue'[c] = Append(queue[c], f) /\ queue[c] \in Seq(Frame)
      BY <2>1, <2>4 DEF TypeOK
    <3>3. f \in Frame
      BY <1>4, ReadFrame DEF Update, Reads, Processes
    <3>4. \A k \in DOMAIN queue[c] : queue[c][k].kind = "PING"
      BY <2>4 DEF NoTedsBeforeHandlers
    <3> HIDE DEF f
    <3>5. i \in 1 .. Len(queue[c]) + 1
      BY <3>2, <3>3
    <3>6. CASE i = Len(queue[c]) + 1
      BY <3>1, <3>2, <3>3, <3>6
    <3>7. CASE i \in 1 .. Len(queue[c])
      BY <3>2, <3>3, <3>4, <3>7
    <3> QED BY <3>2, <3>5, <3>6, <3>7
  <2>5. QueueInv'
    BY <2>1, <2>2, <2>3 DEF QueueInv
  <2>6. NoTedsBeforeHandlers'
    <3> HIDE DEF f
    <3> SUFFICES ASSUME NEW d \in Components, pc[d] = "listening", NEW i \in DOMAIN queue'[d]
                 PROVE  queue'[d][i].kind = "PING"
      BY <2>1 DEF NoTedsBeforeHandlers
    <3>1. CASE d = c /\ Matches(c, f)
      BY <3>1, <2>4
    <3>2. CASE d # c \/ ~Matches(c, f)
      BY <3>2, <2>1, <2>3 DEF NoTedsBeforeHandlers
    <3> QED BY <3>1, <3>2
  <2> QED BY <2>5, <2>6
<1>5. ASSUME NEW c \in Components, Handle(c) PROVE QueueInv' /\ NoTedsBeforeHandlers'
  <2>1. /\ pc' = pc /\ pc[c] \in Handling
        /\ \A d \in Components : d # c => queue'[d] = queue[d]
    BY <1>5 DEF Handle, TypeOK
  <2>2. pc[c] \notin Deaf /\ pc[c] # "listening"
    BY <2>1 DEF Deaf, Unnumbered, Locking, Handling, Subscribed
  <2> QED BY <2>1, <2>2 DEF QueueInv, NoTedsBeforeHandlers
<1>6. ASSUME NEW c \in Components, Step(c) PROVE QueueInv' /\ NoTedsBeforeHandlers'
  <2> USE DEF Deaf, Unnumbered, Locking
  <2>1. CASE RegisterClient(c)
    BY <2>1, <1>3 DEF RegisterClient, Goes, TypeOK
  <2>2. CASE LockDirectory(c)
    BY <2>2, <1>3 DEF LockDirectory, Goes, TypeOK
  <2>3. CASE ClaimEntry(c)
    BY <2>3, <1>3 DEF ClaimEntry, Goes, TypeOK
  <2>4. CASE CountPort(c)
    BY <2>4, <1>3 DEF CountPort, Goes, TypeOK
  <2>5. CASE AssignPort(c)
    BY <2>5, <1>3 DEF AssignPort, Goes, TypeOK
  <2>6. CASE MakeHandlers(c) \/ AttachObserver(c) \/ AttachCondition(c)
    BY <2>6, <1>3 DEF MakeHandlers, AttachObserver, AttachCondition, Boots, Goes, TypeOK
  <2>7. CASE SendInterest(c)
    BY <2>7, <1>3 DEF SendInterest, Goes, TypeOK
  <2> QED BY <1>1, <1>2, <1>4, <1>5, <1>6, <2>1, <2>2, <2>3, <2>4, <2>5, <2>6, <2>7
      DEF Step, Advances
<1>7. CASE RegisterGateway \/ GatewayRefused \/ ForwardPing \/ GatewayReads
  BY <1>7, <1>3 DEF RegisterGateway, GatewayRefused, ForwardPing, GatewayReads
<1> QED BY <1>6, <1>7, NextCases

LEMMA StutterInv ==
    ASSUME JoinInv, UNCHANGED vars
    PROVE  JoinInv'
<1> USE DEF vars, directory, bus
<1>1. TypeOK' /\ ReadsPublished' /\ QueueInv' /\ NoTedsBeforeHandlers'
  BY DEF JoinInv, TypeOK, ReadsPublished, QueueInv, NoTedsBeforeHandlers
<1>2. RegistryInv' /\ NumberInv' /\ PortsUnique' /\ EntryInv'
  BY DEF JoinInv, RegistryInv, NumberInv, PortsUnique, EntryInv
<1> QED BY <1>1, <1>2 DEF JoinInv

LEMMA JoinInvariant == Spec => []JoinInv
<1>1. JoinInv /\ [Next]_vars => JoinInv'
  <2>1. ASSUME JoinInv, Next PROVE JoinInv'
    BY <2>1, TypeStep, PublishedStep, RegistryStep, NumberStep, EntryStep, QueueStep DEF JoinInv
  <2> QED BY <2>1, StutterInv
<1> QED BY InitInv, <1>1, PTL DEF Spec

(* Active entries belong to different clients, and not to the one that     *)
(* holds the semaphore, so they are fewer than MAX_CLIENTS.                *)
LEMMA RoomFromInv == JoinInv => DirectoryHasRoom
<1> SUFFICES ASSUME JoinInv, NEW c \in Components, pc[c] = "locked",
                    \A i \in Slots : entries[i].active
             PROVE  FALSE
  BY DEF DirectoryHasRoom
<1> DEFINE Owners == clients \ {c}
           own == [i \in Slots |-> entries[i].owner]
<1>1. IsFiniteSet(clients) /\ Cardinality(clients) \in Nat
  <2>1. IsFiniteSet(Processes)
    BY ComponentsAssumption, FS_AddElement DEF Processes
  <2>2. clients \subseteq Processes
    BY DEF JoinInv, TypeOK
  <2>3. IsFiniteSet(clients)
    BY <2>1, <2>2, FS_Subset
  <2> QED BY <2>3, FS_CardinalityType
<1>2. c \in clients /\ Cardinality(clients) <= MAX_CLIENTS
  BY DEF JoinInv, RegistryInv
<1>3. IsFiniteSet(Owners) /\ Cardinality(Owners) = Cardinality(clients) - 1
  BY <1>1, <1>2, FS_RemoveElement
<1>4. IsFiniteSet(Slots) /\ Cardinality(Slots) = MAX_CLIENTS
  BY BoundsAssumption, FS_Interval DEF Slots
<1>5. own \in [Slots -> Owners]
  BY DEF JoinInv, EntryInv
<1>6. \A i, j \in Slots : i # j => own[i] # own[j]
  BY DEF JoinInv, EntryInv
<1>7. Cardinality(Slots) > Cardinality(Owners)
  BY <1>1, <1>2, <1>3, <1>4, BoundsAssumption
<1> HIDE DEF own, Owners
<1>8. \E i, j \in Slots : i # j /\ own[i] = own[j]
  BY <1>3, <1>4, <1>5, <1>7, FS_PigeonHole
<1> QED BY <1>6, <1>8

-----------------------------------------------------------------------------

(* The variables keep their types; in particular no semaphore goes below   *)
(* zero when the signals of a dead sender are taken back.                  *)
THEOREM TypeCorrect == Spec => []TypeOK
BY JoinInvariant, PTL DEF JoinInv

(* registerService gives no port twice, whoever is killed inside it.       *)
THEOREM PortsStayUnique == Spec => []PortsUnique
BY JoinInvariant, PTL DEF JoinInv

(* registerService finds an inactive entry of the directory whenever it    *)
(* looks for one.                                                          *)
THEOREM RoomInDirectory == Spec => []DirectoryHasRoom
BY JoinInvariant, RoomFromInv, PTL

(* receive_zerocopy reads only published frames, although the kernel takes *)
(* signals back and late joiners start at the first frame.                 *)
THEOREM ReadsOnlyPublished == Spec => []ReadsPublished
BY JoinInvariant, PTL DEF JoinInv

(* A component without handlers has no TEDS message in its queue.          *)
THEOREM HandlersFirst == Spec => []NoTedsBeforeHandlers
BY JoinInvariant, PTL DEF JoinInv
=============================================================================
