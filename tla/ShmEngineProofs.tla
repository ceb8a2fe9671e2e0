-------------------------- MODULE ShmEngineProofs --------------------------
(***************************************************************************)
(* Safety of the shared-memory ring for every number of processes, writers *)
(* and slots, with late processes and views freed in any order, and as an  *)
(* implementation of the message bus.                                      *)
(***************************************************************************)
EXTENDS ShmEngine, FiniteSetTheorems, SequenceTheorems, TLAPS

-----------------------------------------------------------------------------
(***************************************************************************)
(* The inductive invariant of the ring, in every regime.                   *)
(***************************************************************************)

Rx(c) == <<c, "rx">>
App(c) == <<c, "app">>
Unpublished == {"scan", "block", "sleep", "write", "stamp", "publish"}
Filling == {"write", "stamp", "publish"}
Releasing == {"rel", "relown", "relscan", "store"}

(* A writer that has a ticket holds one that was claimed; until it has     *)
(* published it, nobody else holds or has published the same ticket.       *)
TicketsDistinct ==
    /\ publish_sequence_id < claim_sequence_id
    /\ \A w \in Writers : wpc[w] # "idle" => ticket[w] \in 1 .. claim_sequence_id - 1
    /\ \A w \in Writers : wpc[w] \in Unpublished => ticket[w] > publish_sequence_id
    /\ \A w, x \in Writers :
          w # x /\ wpc[w] \in Unpublished /\ wpc[x] \in Unpublished
             => ticket[w] # ticket[x]

(* A process with a running receiver, or a thread in send, is registered. *)
OwnersActive ==
    /\ \A c \in Clients : running[c] => is_active[c]
    /\ \A c \in Clients : pc[Rx(c)] # "off" => is_active[c]
    /\ \A c \in Clients : pc[Rx(c)] = "exit" => ~running[c]
    /\ \A c \in Clients : registering = c => is_active[c] /\ pc[Rx(c)] = "off"
    /\ \A w \in Writers : wpc[w] # "idle" => is_active[Owner[w]]

(* A writer that has looked at the owner of an older unpublished ticket    *)
(* found it behind that ticket; a writer that fills a slot has room.       *)
NoLap ==
    /\ \A w, x \in Writers :
          /\ wpc[x] \in Unpublished /\ ticket[x] < ticket[w]
          /\ wpc[w] \in Filling \/ (wpc[w] = "scan" /\ wi[w] > Owner[x])
          => slowest[w] < ticket[x]
    /\ \A w \in Writers :
          wpc[w] \in Filling => ticket[w] - slowest[w] < BUFFER_SLOTS

(* What a writer has put in its slot stays there until it publishes. *)
FilledSlot ==
    \A w \in Writers :
        /\ wpc[w] \in {"stamp", "publish"} => frame[SlotOf(ticket[w])] = ticket[w]
        /\ wpc[w] = "publish" => sequence_id[SlotOf(ticket[w])] = ticket[w]

Notifying == {w \in Writers : wpc[w] = "notify"}

(* The tokens a process has used and may use are covered by publications. *)
TokensOf(c) ==
    LET due == next_sequence_to_read[c] + client_sem[c] + Cardinality(Notifying)
    IN  /\ due <= publish_sequence_id + 1
        /\ pc[Rx(c)] = "check" => due <= publish_sequence_id

Tokens == \A c \in Clients : TokensOf(c)

(* Views are of messages the receiver thread has already passed, and only  *)
(* the states that work on a view hold one.                                *)
ViewsOf(c) ==
    /\ next_sequence_to_read[c] >= 1
    /\ held[Rx(c)] < next_sequence_to_read[c]
    /\ held[App(c)] < next_sequence_to_read[c]
    /\ \A n \in DOMAIN data[c] : data[c][n] > 0 /\ data[c][n] < next_sequence_to_read[c]
    /\ held[Rx(c)] # 0 <=> pc[Rx(c)] \in {"deliver"} \cup Releasing
    /\ held[App(c)] # 0 <=> pc[App(c)] \in {"copy"} \cup Releasing
    /\ pc[Rx(c)] = "off" => data[c] = <<>> /\ pc[App(c)] = "off"
    /\ pc[App(c)] = "off" => pc[Rx(c)] = "off"
    /\ last_read[c] <= publish_sequence_id

ViewsPassed == \A c \in Clients : ViewsOf(c)

RingInv ==
    /\ TypeOK /\ TicketsDistinct /\ OwnersActive /\ NoLap /\ FilledSlot
    /\ Tokens /\ ViewsPassed /\ PublishedStamped

-----------------------------------------------------------------------------
(* Where the threads, the scans and the tickets index. *)
LEMMA ThreadsOfClient ==
    ASSUME NEW c \in Clients
    PROVE  /\ <<c, "rx">> \in Threads /\ <<c, "app">> \in Threads
           /\ <<c, "rx">> # <<c, "app">> /\ c # None
BY SizesAssumption DEF Clients, Threads, None

(* The index of a scan of client_registry stays within MAX_CLIENTS. *)
LEMMA ScanIndex ==
    ASSUME NEW i \in 0 .. MAX_CLIENTS, i < MAX_CLIENTS
    PROVE  i \in Clients /\ i + 1 \in 0 .. MAX_CLIENTS
BY SizesAssumption DEF Clients

(* SlotOf yields an index of the ring. *)
LEMMA SlotIndex ==
    ASSUME NEW t \in Nat PROVE SlotOf(t) \in 0 .. BUFFER_SLOTS - 1
BY SizesAssumption DEF SlotOf

(* The types of the ring are preserved by every step. *)
LEMMA TypeStep == TypeOK /\ [Next]_vars => TypeOK'
<1> SUFFICES ASSUME TypeOK, [Next]_vars PROVE TypeOK'
  OBVIOUS
<1>1. ASSUME NEW c \in Clients, RegisterActivate(c) PROVE TypeOK'
  <2>1. RegistryTypes'
    BY <1>1 DEF RegisterActivate, TypeOK, RegistryTypes, ring, registry, writers, release, readers
  <2>2. RingTypes' /\ WriterTypes' /\ ThreadTypes' /\ ReleaseTypes' /\ NicTypes'
    BY <1>1 DEF RegisterActivate, TypeOK, RingTypes, WriterTypes, ThreadTypes, ReleaseTypes, NicTypes,
        ring, registry, writers, release, readers
  <2> QED
    BY <2>1, <2>2 DEF TypeOK
<1>2. ASSUME NEW c \in Clients, RegisterStore(c) PROVE TypeOK'
  <2>1. RegistryTypes'
    BY <1>2 DEF RegisterStore, TypeOK, RegistryTypes, RingTypes, ring, registry, writers, release, readers
  <2>2. ThreadTypes'
    BY <1>2, ThreadsOfClient DEF RegisterStore, ThreadGoes, TypeOK, ThreadTypes, RxStates, AppStates, ReleaseStates, ring, registry, writers, release, readers
  <2>3. NicTypes'
    BY <1>2 DEF RegisterStore, TypeOK, NicTypes, ring, registry, writers, release, readers
  <2>4. RingTypes' /\ WriterTypes' /\ ReleaseTypes'
    BY <1>2 DEF RegisterStore, TypeOK, RingTypes, WriterTypes, ReleaseTypes,
        ring, registry, writers, release, readers
  <2> QED
    BY <2>1, <2>2, <2>3, <2>4 DEF TypeOK
<1>3. ASSUME NEW c \in Clients, Stop(c) PROVE TypeOK'
  <2>1. NicTypes'
    BY <1>3 DEF Stop, TypeOK, NicTypes, ring, registry, writers, release, readers
  <2>2. RingTypes' /\ RegistryTypes' /\ WriterTypes' /\ ThreadTypes' /\ ReleaseTypes'
    BY <1>3 DEF Stop, TypeOK, RingTypes, RegistryTypes, WriterTypes, ThreadTypes, ReleaseTypes,
        ring, registry, writers, release, readers
  <2> QED
    BY <2>1, <2>2 DEF TypeOK
<1>4. ASSUME NEW c \in Clients, Deregister(c) PROVE TypeOK'
  <2>1. RegistryTypes'
    BY <1>4 DEF Deregister, TypeOK, RegistryTypes, ring, registry, writers, release, readers
  <2>2. ThreadTypes'
    BY <1>4, ThreadsOfClient DEF Deregister, ThreadGoes, TypeOK, ThreadTypes, RxStates, AppStates, ReleaseStates, ring, registry, writers, release, readers
  <2>3. NicTypes'
    BY <1>4 DEF Deregister, TypeOK, NicTypes, ring, registry, writers, release, readers
  <2>4. RingTypes' /\ WriterTypes' /\ ReleaseTypes'
    BY <1>4 DEF Deregister, TypeOK, RingTypes, WriterTypes, ReleaseTypes,
        ring, registry, writers, release, readers
  <2> QED
    BY <2>1, <2>2, <2>3, <2>4 DEF TypeOK
<1>5. ASSUME NEW w \in Writers, Claim(w) PROVE TypeOK'
  <2>1. RingTypes'
    BY <1>5 DEF Claim, TypeOK, RingTypes, ring, registry, writers, release, readers
  <2>2. WriterTypes'
    BY <1>5, SizesAssumption DEF Claim, WriterGoes, TypeOK, WriterTypes, WriterStates, RingTypes, ring, registry, writers, release, readers
  <2>3. RegistryTypes' /\ ThreadTypes' /\ ReleaseTypes' /\ NicTypes'
    BY <1>5 DEF Claim, TypeOK, RegistryTypes, ThreadTypes, ReleaseTypes, NicTypes,
        ring, registry, writers, release, readers
  <2> QED
    BY <2>1, <2>2, <2>3 DEF TypeOK
<1>6. ASSUME NEW w \in Writers, ScanReader(w) PROVE TypeOK'
  <2>1. WriterTypes'
    BY <1>6, ScanIndex DEF ScanReader, WriterGoes, TypeOK, WriterTypes, WriterStates, RegistryTypes, ring, registry, writers, release, readers
  <2>2. RingTypes' /\ RegistryTypes' /\ ThreadTypes' /\ ReleaseTypes' /\ NicTypes'
    BY <1>6 DEF ScanReader, TypeOK, RingTypes, RegistryTypes, ThreadTypes, ReleaseTypes, NicTypes,
        ring, registry, writers, release, readers
  <2> QED
    BY <2>1, <2>2 DEF TypeOK
<1>7. ASSUME NEW w \in Writers, PassCheck(w) PROVE TypeOK'
  <2>1. RingTypes'
    BY <1>7 DEF PassCheck, TypeOK, RingTypes, ring, registry, writers, release, readers
  <2>2. WriterTypes'
    BY <1>7 DEF PassCheck, WriterGoes, TypeOK, WriterTypes, WriterStates, ring, registry, writers, release, readers
  <2>3. RegistryTypes' /\ ThreadTypes' /\ ReleaseTypes' /\ NicTypes'
    BY <1>7 DEF PassCheck, TypeOK, RegistryTypes, ThreadTypes, ReleaseTypes, NicTypes,
        ring, registry, writers, release, readers
  <2> QED
    BY <2>1, <2>2, <2>3 DEF TypeOK
<1>8. ASSUME NEW w \in Writers, FailCheck(w) PROVE TypeOK'
  <2>1. WriterTypes'
    BY <1>8 DEF FailCheck, WriterGoes, TypeOK, WriterTypes, WriterStates, ring, registry, writers, release, readers
  <2>2. RingTypes' /\ RegistryTypes' /\ ThreadTypes' /\ ReleaseTypes' /\ NicTypes'
    BY <1>8 DEF FailCheck, TypeOK, RingTypes, RegistryTypes, ThreadTypes, ReleaseTypes, NicTypes,
        ring, registry, writers, release, readers
  <2> QED
    BY <2>1, <2>2 DEF TypeOK
<1>9. ASSUME NEW w \in Writers, SetBlocked(w) PROVE TypeOK'
  <2>1. RingTypes'
    BY <1>9 DEF SetBlocked, TypeOK, RingTypes, ring, registry, writers, release, readers
  <2>2. WriterTypes'
    BY <1>9 DEF SetBlocked, WriterGoes, TypeOK, WriterTypes, WriterStates, ring, registry, writers, release, readers
  <2>3. RegistryTypes' /\ ThreadTypes' /\ ReleaseTypes' /\ NicTypes'
    BY <1>9 DEF SetBlocked, TypeOK, RegistryTypes, ThreadTypes, ReleaseTypes, NicTypes,
        ring, registry, writers, release, readers
  <2> QED
    BY <2>1, <2>2, <2>3 DEF TypeOK
<1>10. ASSUME NEW w \in Writers, WakeUp(w) PROVE TypeOK'
  <2>1. RingTypes'
    BY <1>10 DEF WakeUp, TypeOK, RingTypes, ring, registry, writers, release, readers
  <2>2. WriterTypes'
    BY <1>10, SizesAssumption DEF WakeUp, WriterGoes, TypeOK, WriterTypes, WriterStates, ring, registry, writers, release, readers
  <2>3. RegistryTypes' /\ ThreadTypes' /\ ReleaseTypes' /\ NicTypes'
    BY <1>10 DEF WakeUp, TypeOK, RegistryTypes, ThreadTypes, ReleaseTypes, NicTypes,
        ring, registry, writers, release, readers
  <2> QED
    BY <2>1, <2>2, <2>3 DEF TypeOK
<1>11. ASSUME NEW w \in Writers, WriteFrame(w) PROVE TypeOK'
  <2>1. RingTypes'
    BY <1>11, SlotIndex DEF WriteFrame, TypeOK, RingTypes, WriterTypes, ring, registry, writers, release, readers
  <2>2. WriterTypes'
    BY <1>11 DEF WriteFrame, WriterGoes, TypeOK, WriterTypes, WriterStates, ring, registry, writers, release, readers
  <2>3. RegistryTypes' /\ ThreadTypes' /\ ReleaseTypes' /\ NicTypes'
    BY <1>11 DEF WriteFrame, TypeOK, RegistryTypes, ThreadTypes, ReleaseTypes, NicTypes,
        ring, registry, writers, release, readers
  <2> QED
    BY <2>1, <2>2, <2>3 DEF TypeOK
<1>12. ASSUME NEW w \in Writers, StampSlot(w) PROVE TypeOK'
  <2>1. RingTypes'
    BY <1>12, SlotIndex DEF StampSlot, TypeOK, RingTypes, WriterTypes, ring, registry, writers, release, readers
  <2>2. WriterTypes'
    BY <1>12 DEF StampSlot, WriterGoes, TypeOK, WriterTypes, WriterStates, ring, registry, writers, release, readers
  <2>3. RegistryTypes' /\ ThreadTypes' /\ ReleaseTypes' /\ NicTypes'
    BY <1>12 DEF StampSlot, TypeOK, RegistryTypes, ThreadTypes, ReleaseTypes, NicTypes,
        ring, registry, writers, release, readers
  <2> QED
    BY <2>1, <2>2, <2>3 DEF TypeOK
<1>13. ASSUME NEW w \in Writers, Publish(w) PROVE TypeOK'
  <2>1. RingTypes'
    BY <1>13 DEF Publish, TypeOK, RingTypes, WriterTypes, ring, registry, writers, release, readers
  <2>2. WriterTypes'
    BY <1>13 DEF Publish, WriterGoes, TypeOK, WriterTypes, WriterStates, ring, registry, writers, release, readers
  <2>3. RegistryTypes' /\ ThreadTypes' /\ ReleaseTypes' /\ NicTypes'
    BY <1>13 DEF Publish, TypeOK, RegistryTypes, ThreadTypes, ReleaseTypes, NicTypes,
        ring, registry, writers, release, readers
  <2> QED
    BY <2>1, <2>2, <2>3 DEF TypeOK
<1>14. ASSUME NEW w \in Writers, Notify(w) PROVE TypeOK'
  <2>1. RegistryTypes'
    BY <1>14 DEF Notify, TypeOK, RegistryTypes, ring, registry, writers, release, readers
  <2>2. WriterTypes'
    <3>1. 0 \in 0 .. MAX_CLIENTS
      BY SizesAssumption
    <3> QED
      BY <1>14, <3>1 DEF Notify, WriterGoes, TypeOK, WriterTypes, WriterStates
  <2>3. RingTypes' /\ ThreadTypes' /\ ReleaseTypes' /\ NicTypes'
    BY <1>14 DEF Notify, TypeOK, RingTypes, ThreadTypes, ReleaseTypes, NicTypes,
        ring, registry, writers, release, readers
  <2> QED
    BY <2>1, <2>2, <2>3 DEF TypeOK
<1>15. ASSUME NEW c \in Clients, ReceiverLoop(c) PROVE TypeOK'
  <2>1. ThreadTypes'
    BY <1>15, ThreadsOfClient DEF ReceiverLoop, ThreadGoes, TypeOK, ThreadTypes, RxStates, AppStates, ReleaseStates, ring, registry, writers, release, readers
  <2>2. RingTypes' /\ RegistryTypes' /\ WriterTypes' /\ ReleaseTypes' /\ NicTypes'
    BY <1>15 DEF ReceiverLoop, TypeOK, RingTypes, RegistryTypes, WriterTypes, ReleaseTypes, NicTypes,
        ring, registry, writers, release, readers
  <2> QED
    BY <2>1, <2>2 DEF TypeOK
<1>16. ASSUME NEW c \in Clients, ReceiveWait(c) PROVE TypeOK'
  <2>1. RegistryTypes'
    BY <1>16 DEF ReceiveWait, TypeOK, RegistryTypes, ring, registry, writers, release, readers
  <2>2. ThreadTypes'
    BY <1>16, ThreadsOfClient DEF ReceiveWait, ThreadGoes, TypeOK, ThreadTypes, RxStates, AppStates, ReleaseStates, ring, registry, writers, release, readers
  <2>3. RingTypes' /\ WriterTypes' /\ ReleaseTypes' /\ NicTypes'
    BY <1>16 DEF ReceiveWait, TypeOK, RingTypes, WriterTypes, ReleaseTypes, NicTypes,
        ring, registry, writers, release, readers
  <2> QED
    BY <2>1, <2>2, <2>3 DEF TypeOK
<1>17. ASSUME NEW c \in Clients, ReceiveView(c) PROVE TypeOK'
  <2>1. ThreadTypes'
    BY <1>17, ThreadsOfClient DEF ReceiveView, ThreadGoes, TypeOK, ThreadTypes, RxStates, AppStates, ReleaseStates, NicTypes, ring, registry, writers, release, readers
  <2>2. NicTypes'
    BY <1>17 DEF ReceiveView, TypeOK, NicTypes, ring, registry, writers, release, readers
  <2>3. RingTypes' /\ RegistryTypes' /\ WriterTypes' /\ ReleaseTypes'
    BY <1>17 DEF ReceiveView, TypeOK, RingTypes, RegistryTypes, WriterTypes, ReleaseTypes,
        ring, registry, writers, release, readers
  <2> QED
    BY <2>1, <2>2, <2>3 DEF TypeOK
<1>18. ASSUME NEW c \in Clients, ReceiveMismatch(c) PROVE TypeOK'
  <2>1. ThreadTypes'
    BY <1>18, ThreadsOfClient DEF ReceiveMismatch, ThreadGoes, TypeOK, ThreadTypes, RxStates, AppStates, ReleaseStates, ring, registry, writers, release, readers
  <2>2. RingTypes' /\ RegistryTypes' /\ WriterTypes' /\ ReleaseTypes' /\ NicTypes'
    BY <1>18 DEF ReceiveMismatch, TypeOK, RingTypes, RegistryTypes, WriterTypes, ReleaseTypes, NicTypes,
        ring, registry, writers, release, readers
  <2> QED
    BY <2>1, <2>2 DEF TypeOK
<1>19. ASSUME NEW c \in Clients, QueueIncomingBuffer(c) PROVE TypeOK'
  <2>1. ThreadTypes'
    BY <1>19, ThreadsOfClient DEF QueueIncomingBuffer, ThreadGoes, TypeOK, ThreadTypes, RxStates, AppStates, ReleaseStates, ring, registry, writers, release, readers
  <2>2. NicTypes'
    <3>1. Append(data[c], held[<<c, "rx">>]) \in Seq(Nat)
      <4>1. data[c] \in Seq(Nat)
        BY DEF TypeOK, NicTypes
      <4>2. held[<<c, "rx">>] \in Nat
        BY ThreadsOfClient DEF TypeOK, ThreadTypes
      <4> QED
        BY <4>1, <4>2
    <3> QED
      BY <1>19, <3>1 DEF QueueIncomingBuffer, TypeOK, NicTypes
  <2>3. RingTypes' /\ RegistryTypes' /\ WriterTypes' /\ ReleaseTypes'
    BY <1>19 DEF QueueIncomingBuffer, TypeOK, RingTypes, RegistryTypes, WriterTypes, ReleaseTypes,
        ring, registry, writers, release, readers
  <2> QED
    BY <2>1, <2>2, <2>3 DEF TypeOK
<1>20. ASSUME NEW c \in Clients, FreeAtOnce(c) PROVE TypeOK'
  <2>1. ThreadTypes'
    BY <1>20, ThreadsOfClient DEF FreeAtOnce, ThreadGoes, TypeOK, ThreadTypes, RxStates, AppStates, ReleaseStates, ring, registry, writers, release, readers
  <2>2. RingTypes' /\ RegistryTypes' /\ WriterTypes' /\ ReleaseTypes' /\ NicTypes'
    BY <1>20 DEF FreeAtOnce, TypeOK, RingTypes, RegistryTypes, WriterTypes, ReleaseTypes, NicTypes,
        ring, registry, writers, release, readers
  <2> QED
    BY <2>1, <2>2 DEF TypeOK
<1>21. ASSUME NEW c \in Clients, PopBuffer(c) PROVE TypeOK'
  <2>1. ThreadTypes'
    <3>1. Head(data[c]) \in Nat
      BY <1>21 DEF PopBuffer, TypeOK, NicTypes
    <3> QED
      BY <1>21, <3>1, ThreadsOfClient
      DEF PopBuffer, ThreadGoes, TypeOK, ThreadTypes, AppStates
  <2>2. NicTypes'
    BY <1>21 DEF PopBuffer, TypeOK, NicTypes, ring, registry, writers, release, readers
  <2>3. RingTypes' /\ RegistryTypes' /\ WriterTypes' /\ ReleaseTypes'
    BY <1>21 DEF PopBuffer, TypeOK, RingTypes, RegistryTypes, WriterTypes, ReleaseTypes,
        ring, registry, writers, release, readers
  <2> QED
    BY <2>1, <2>2, <2>3 DEF TypeOK
<1>22. ASSUME NEW c \in Clients, CopyMessage(c) PROVE TypeOK'
  <2>1. ThreadTypes'
    BY <1>22, ThreadsOfClient DEF CopyMessage, ThreadGoes, TypeOK, ThreadTypes, RxStates, AppStates, ReleaseStates, ring, registry, writers, release, readers
  <2>2. RingTypes' /\ RegistryTypes' /\ WriterTypes' /\ ReleaseTypes' /\ NicTypes'
    BY <1>22 DEF CopyMessage, TypeOK, RingTypes, RegistryTypes, WriterTypes, ReleaseTypes, NicTypes,
        ring, registry, writers, release, readers
  <2> QED
    BY <2>1, <2>2 DEF TypeOK
<1>23. ASSUME NEW c \in Clients, NEW k \in {"rx", "app"}, ReleaseReadFlag(<<c, k>>) PROVE TypeOK'
  <2>1. ThreadTypes'
    BY <1>23, ThreadsOfClient DEF ReleaseReadFlag, ThreadGoes, AfterRelease, TypeOK, ThreadTypes, RxStates, AppStates, ReleaseStates, ring, registry, writers, release, readers
  <2>2. ReleaseTypes'
    BY <1>23 DEF ReleaseReadFlag, TypeOK, ReleaseTypes
  <2>3. RingTypes' /\ RegistryTypes' /\ WriterTypes' /\ NicTypes'
    BY <1>23 DEF ReleaseReadFlag, TypeOK, RingTypes, RegistryTypes, WriterTypes, NicTypes,
        ring, registry, writers, release, readers
  <2> QED
    BY <2>1, <2>2, <2>3 DEF TypeOK
<1>24. ASSUME NEW c \in Clients, NEW k \in {"rx", "app"}, ReleaseScan(<<c, k>>) PROVE TypeOK'
  <2>1. ReleaseTypes'
    BY <1>24, ThreadsOfClient, ScanIndex DEF ReleaseScan, TypeOK, ReleaseTypes, RegistryTypes, ring, registry, writers, release, readers
  <2>2. RingTypes' /\ RegistryTypes' /\ WriterTypes' /\ ThreadTypes' /\ NicTypes'
    BY <1>24 DEF ReleaseScan, TypeOK, RingTypes, RegistryTypes, WriterTypes, ThreadTypes, NicTypes,
        ring, registry, writers, release, readers
  <2> QED
    BY <2>1, <2>2 DEF TypeOK
<1>25. ASSUME NEW c \in Clients, NEW k \in {"rx", "app"}, ReleaseStore(<<c, k>>) PROVE TypeOK'
  <2>1. RegistryTypes'
    BY <1>25, ThreadsOfClient DEF ReleaseStore, TypeOK, RegistryTypes, ThreadTypes, ring, registry, writers, release, readers
  <2>2. ThreadTypes'
    BY <1>25, ThreadsOfClient DEF ReleaseStore, ThreadGoes, AfterRelease, TypeOK, ThreadTypes, RxStates, AppStates, ReleaseStates, ring, registry, writers, release, readers
  <2>3. ReleaseTypes'
    <3>1. 0 \in 0 .. MAX_CLIENTS
      BY SizesAssumption
    <3> QED
      BY <1>25, <3>1 DEF ReleaseStore, TypeOK, ReleaseTypes
  <2>4. RingTypes' /\ WriterTypes' /\ NicTypes'
    BY <1>25 DEF ReleaseStore, TypeOK, RingTypes, WriterTypes, NicTypes,
        ring, registry, writers, readers
  <2> QED
    BY <2>1, <2>2, <2>3, <2>4 DEF TypeOK
<1>26. ASSUME NEW c \in Clients, NEW k \in {"rx", "app"}, ReleaseSignal(<<c, k>>) PROVE TypeOK'
  <2>1. RingTypes'
    BY <1>26 DEF ReleaseSignal, TypeOK, RingTypes, ring, registry, writers, release, readers
  <2>2. ThreadTypes'
    BY <1>26, ThreadsOfClient DEF ReleaseSignal, ThreadGoes, AfterRelease, TypeOK, ThreadTypes, RxStates, AppStates, ReleaseStates, ring, registry, writers, release, readers
  <2>3. RegistryTypes' /\ WriterTypes' /\ ReleaseTypes' /\ NicTypes'
    BY <1>26 DEF ReleaseSignal, TypeOK, RegistryTypes, WriterTypes, ReleaseTypes, NicTypes,
        ring, registry, writers, release, readers
  <2> QED
    BY <2>1, <2>2, <2>3 DEF TypeOK
<1>28. ASSUME NEW c \in Clients, NEW k \in {"rx", "app"}, ReleaseReadOwn(<<c, k>>) PROVE TypeOK'
  <2>1. ThreadTypes'
    BY <1>28, ThreadsOfClient DEF ReleaseReadOwn, ThreadGoes, TypeOK, ThreadTypes, ReleaseStates, ring, registry, writers, readers
  <2>2. ReleaseTypes'
    <3>1. mine' \in [Threads -> Nat]
      BY <1>28 DEF ReleaseReadOwn, TypeOK, ReleaseTypes, RegistryTypes
    <3>2. ri' \in [Threads -> 0 .. MAX_CLIENTS]
      <4>1. 0 \in 0 .. MAX_CLIENTS
        BY SizesAssumption
      <4> QED
        BY <1>28, <4>1 DEF ReleaseReadOwn, TypeOK, ReleaseTypes
    <3>3. i_am_the_slowest' \in [Threads -> BOOLEAN]
      BY <1>28 DEF ReleaseReadOwn, TypeOK, ReleaseTypes
    <3> QED
      BY <3>1, <3>2, <3>3 DEF ReleaseTypes
  <2>3. RingTypes' /\ RegistryTypes' /\ WriterTypes' /\ NicTypes'
    BY <1>28 DEF ReleaseReadOwn, TypeOK, RingTypes, RegistryTypes, WriterTypes, NicTypes,
        ring, registry, writers, readers
  <2> QED
    BY <2>1, <2>2, <2>3 DEF TypeOK
<1>27. CASE UNCHANGED vars
  BY <1>27 DEF vars, ring, registry, writers, release, readers, TypeOK, RingTypes, RegistryTypes, WriterTypes, ThreadTypes, ReleaseTypes, NicTypes
<1> QED
  BY <1>1, <1>2, <1>3, <1>4, <1>5, <1>6, <1>7, <1>8, <1>9, <1>10, <1>11, <1>12, <1>13, <1>14, <1>15, <1>16, <1>17, <1>18, <1>19, <1>20, <1>21, <1>22, <1>23, <1>24, <1>25, <1>26, <1>27, <1>28
     DEF Next, SendStep, ReleaseStep, ReceiverStep, AppStep, RegistryStep

-----------------------------------------------------------------------------
(***************************************************************************)
(* Arithmetic of the ring: tickets less than a lap apart have different    *)
(* slots.                                                                  *)
(***************************************************************************)

(* Division with remainder, in the form the provers need. *)
LEMMA DivMod ==
    ASSUME NEW a \in Nat, NEW B \in Nat \ {0}
    PROVE  a = B * (a \div B) + (a % B) /\ a \div B \in Nat
OBVIOUS

(* Two tickets one lap apart or more are at least a ring apart. *)
LEMMA MultipleAtLeast ==
    ASSUME NEW B \in Nat \ {0}, NEW k \in Int, k >= 1 PROVE B * k >= B
OBVIOUS

(* A lap that is not ahead is no distance ahead. *)
LEMMA MultipleAtMost ==
    ASSUME NEW B \in Nat \ {0}, NEW k \in Int, k <= 0 PROVE B * k <= 0
OBVIOUS

(* Laps of the ring can be subtracted. *)
LEMMA MultipleDifference ==
    ASSUME NEW B \in Nat \ {0}, NEW k \in Int, NEW l \in Int
    PROVE  B * k - B * l = B * (k - l)
OBVIOUS

(* The slot index my_ticket_id % BUFFER_SLOTS separates two tickets that   *)
(* are less than BUFFER_SLOTS apart.                                       *)
LEMMA SlotsDiffer ==
    ASSUME NEW s \in Nat, NEW t \in Nat, s < t, t - s < BUFFER_SLOTS
    PROVE  SlotOf(s) # SlotOf(t)
<1> DEFINE B == BUFFER_SLOTS  p == s \div B  q == t \div B
<1>1. p \in Int /\ q \in Int /\ B \in Nat \ {0}
  BY SizesAssumption
<1>2. SUFFICES ASSUME s % B = t % B PROVE FALSE
  BY DEF SlotOf
<1>3. t - s = B * q - B * p
  <2>1. s = B * p + (s % B) /\ t = B * q + (t % B)
    BY DivMod, <1>1
  <2>2. B * p \in Int /\ B * q \in Int /\ s % B \in Int
    BY <1>1
  <2> HIDE DEF p, q, B
  <2> QED
    BY <2>1, <2>2, <1>2
<1> HIDE DEF p, q
<1>4. t - s = B * (q - p)
  BY <1>3, <1>1, MultipleDifference
<1>5. q - p \in Int
  BY <1>1
<1>6. CASE q - p >= 1
  BY <1>6, <1>5, <1>4, <1>1, MultipleAtLeast
<1>7. CASE q - p <= 0
  BY <1>7, <1>5, <1>4, <1>1, MultipleAtMost
<1> QED
  BY <1>5, <1>6, <1>7

-----------------------------------------------------------------------------
(***************************************************************************)
(* What a step of a thread does to the control state of every process.     *)
(***************************************************************************)

RxMoves(c, from, to) ==
    /\ pc[Rx(c)] = from
    /\ \A d \in Clients : pc'[Rx(d)] = IF d = c THEN to ELSE pc[Rx(d)]
    /\ \A d \in Clients : pc'[App(d)] = pc[App(d)]

AppMoves(c, from, to) ==
    /\ pc[App(c)] = from
    /\ \A d \in Clients : pc'[App(d)] = IF d = c THEN to ELSE pc[App(d)]
    /\ \A d \in Clients : pc'[Rx(d)] = pc[Rx(d)]

RxHolds(c, v) ==
    /\ \A d \in Clients : held'[Rx(d)] = IF d = c THEN v ELSE held[Rx(d)]
    /\ \A d \in Clients : held'[App(d)] = held[App(d)]

AppHolds(c, v) ==
    /\ \A d \in Clients : held'[App(d)] = IF d = c THEN v ELSE held[App(d)]
    /\ \A d \in Clients : held'[Rx(d)] = held[Rx(d)]

(* A step of the receiver thread of c moves no other thread. *)
LEMMA RxGoes ==
    ASSUME ThreadTypes, NEW c \in Clients, NEW from, NEW to,
           ThreadGoes(<<c, "rx">>, from, to)
    PROVE  RxMoves(c, from, to)
BY DEF ThreadTypes, ThreadGoes, RxMoves, Threads, Rx, App

(* A step of the application thread of c moves no other thread. *)
LEMMA AppGoes ==
    ASSUME ThreadTypes, NEW c \in Clients, NEW from, NEW to,
           ThreadGoes(<<c, "app">>, from, to)
    PROVE  AppMoves(c, from, to)
BY DEF ThreadTypes, ThreadGoes, AppMoves, Threads, Rx, App

(* A view that the receiver thread of c takes is held by no other thread. *)
LEMMA RxTakes ==
    ASSUME ThreadTypes, NEW c \in Clients, NEW v,
           held' = [held EXCEPT ![<<c, "rx">>] = v]
    PROVE  RxHolds(c, v)
BY DEF ThreadTypes, RxHolds, Threads, Rx, App

(* A view that the application of c takes is held by no other thread. *)
LEMMA AppTakes ==
    ASSUME ThreadTypes, NEW c \in Clients, NEW v,
           held' = [held EXCEPT ![<<c, "app">>] = v]
    PROVE  AppHolds(c, v)
BY DEF ThreadTypes, AppHolds, Threads, Rx, App

(* Only finitely many writers are about to notify. *)
LEMMA NotifyingFinite == IsFiniteSet(Notifying) /\ Cardinality(Notifying) \in Nat
BY FS_CardinalityType, FS_Subset, ThreadsAssumption DEF Notifying

(***************************************************************************)
(* Parts of the invariant a step keeps because it leaves alone what they   *)
(* are about.                                                              *)
(***************************************************************************)

(* Tokens: no token was made, and no receiver took one. *)
LEMMA TokensKept ==
    ASSUME RingInv, Notifying' = Notifying,
           UNCHANGED <<client_sem, next_sequence_to_read, publish_sequence_id>>,
           \A c \in Clients : pc'[Rx(c)] = "check" => pc[Rx(c)] = "check"
    PROVE  Tokens'
BY NotifyingFinite
   DEF RingInv, Tokens, TokensOf, TypeOK, RegistryTypes, NicTypes, RingTypes

(* OwnersActive: no process came or went, nobody started a send. *)
LEMMA OwnersKept ==
    ASSUME RingInv,
           UNCHANGED <<is_active, registering, running>>,
           \A w \in Writers : wpc'[w] # "idle" => wpc[w] # "idle",
           \A c \in Clients : pc'[Rx(c)] = "off" <=> pc[Rx(c)] = "off",
           \A c \in Clients : pc'[Rx(c)] = "exit" => pc[Rx(c)] = "exit" \/ ~running[c]
    PROVE  OwnersActive'
BY DEF RingInv, OwnersActive

(* The parts about tickets and slots: no writer moved. *)
LEMMA SendKept ==
    ASSUME RingInv, UNCHANGED <<ring, writers>>
    PROVE  /\ TicketsDistinct' /\ NoLap' /\ FilledSlot' /\ PublishedStamped'
           /\ Notifying' = Notifying
BY DEF RingInv, TicketsDistinct, NoLap, FilledSlot, PublishedStamped, Notifying,
       ring, writers

(* The parts about the views: no reader moved. *)
LEMMA ReadersKept ==
    ASSUME RingInv, UNCHANGED <<readers, last_read, publish_sequence_id>>
    PROVE  ViewsPassed'
BY DEF RingInv, ViewsPassed, ViewsOf, readers

(* WritersApart follows from NoLap and the arithmetic of the slots. *)
LEMMA Apart == RingInv => WritersApart
<1> SUFFICES ASSUME RingInv, NEW w \in Writers, NEW x \in Writers, w # x,
                    wpc[w] \in Filling, wpc[x] \in Filling
             PROVE  SlotOf(ticket[w]) # SlotOf(ticket[x])
  BY DEF WritersApart, Filling
<1>1. ticket[w] \in Nat /\ ticket[x] \in Nat /\ ticket[w] # ticket[x]
  BY DEF RingInv, TypeOK, WriterTypes, TicketsDistinct, Filling, Unpublished
<1>2. ASSUME NEW y \in Writers, NEW z \in Writers, wpc[y] \in Filling,
             wpc[z] \in Filling, ticket[y] < ticket[z]
      PROVE  ticket[z] - ticket[y] < BUFFER_SLOTS
  BY <1>2, SizesAssumption
  DEF RingInv, TypeOK, WriterTypes, NoLap, Filling, Unpublished
<1>3. CASE ticket[w] < ticket[x]
  BY <1>1, <1>2, <1>3, SlotsDiffer
<1>4. CASE ticket[x] < ticket[w]
  BY <1>1, <1>2, <1>4, SlotsDiffer
<1> QED
  BY <1>1, <1>3, <1>4

(* A step of one process leaves the parts of the others alone. *)
Untouched(d) ==
    /\ pc'[Rx(d)] = pc[Rx(d)] /\ pc'[App(d)] = pc[App(d)]
    /\ held'[Rx(d)] = held[Rx(d)] /\ held'[App(d)] = held[App(d)]
    /\ next_sequence_to_read'[d] = next_sequence_to_read[d]
    /\ client_sem'[d] = client_sem[d]
    /\ data'[d] = data[d] /\ last_read'[d] = last_read[d]
    /\ given_up'[d] = given_up[d]

(* A step of process c keeps what the invariant says of every other        *)
(* process.                                                                *)
LEMMA OneProcess ==
    ASSUME RingInv, NEW c \in Clients,
           \A d \in Clients \ {c} : Untouched(d),
           UNCHANGED publish_sequence_id, Notifying' = Notifying
    PROVE  /\ ViewsOf(c)' => ViewsPassed'
           /\ TokensOf(c)' => Tokens'
<1>1. ASSUME NEW d \in Clients \ {c} PROVE ViewsOf(d)' /\ TokensOf(d)'
  <2>1. ViewsOf(d) /\ TokensOf(d) /\ Untouched(d)
    BY DEF RingInv, ViewsPassed, Tokens
  <2> QED
    BY <2>1 DEF Untouched, ViewsOf, TokensOf
<1> QED
  BY <1>1 DEF ViewsPassed, Tokens

-----------------------------------------------------------------------------
(* Every step of send keeps the invariant of the ring. *)
LEMMA SendInv ==
    ASSUME RingInv, TypeOK', NEW w \in Writers, Claim(w) \/ SendStep(w)
    PROVE  RingInv'
<1> USE DEF RingInv
<1>0. /\ \A x \in Writers : Owner[x] \in Nat /\ Owner[x] \in Clients /\ Owner[x] < MAX_CLIENTS
      /\ ticket \in [Writers -> Nat] /\ wpc \in [Writers -> WriterStates]
      /\ slowest \in [Writers -> Nat] /\ wi \in [Writers -> 0 .. MAX_CLIENTS]
      /\ claim_sequence_id \in Nat /\ publish_sequence_id \in Nat
  <2>1. \A x \in Writers : Owner[x] \in Clients
    BY ThreadsAssumption
  <2>2. \A c \in Clients : c \in Nat /\ c < MAX_CLIENTS
    BY SizesAssumption DEF Clients
  <2> QED
    BY <2>1, <2>2 DEF TypeOK, WriterTypes, RingTypes
<1>1. CASE Claim(w)
  <2>1. TicketsDistinct'
    BY <1>1, <1>0 DEF Claim, WriterGoes, TicketsDistinct, Unpublished, ring
  <2>2. OwnersActive'
    BY <1>1, <1>0 DEF Claim, WriterGoes, OwnersActive, registry, readers
  <2>3. NoLap'
    BY <1>1, <1>0 DEF Claim, WriterGoes, NoLap, TicketsDistinct, Unpublished, Filling
  <2>4. FilledSlot'
    BY <1>1, <1>0 DEF Claim, WriterGoes, FilledSlot, ring
  <2>5. Tokens'
    <3>1. Notifying' = Notifying
      BY <1>1, <1>0 DEF Claim, WriterGoes, Notifying, WriterStates
    <3> QED
      BY <1>1, <3>1, TokensKept DEF Claim, ring, registry, readers
  <2>6. ViewsPassed'
    BY <1>1, ReadersKept DEF Claim, ring, readers
  <2>7. PublishedStamped'
    BY <1>1 DEF Claim, PublishedStamped, ring
  <2> QED
    BY <2>1, <2>2, <2>3, <2>4, <2>5, <2>6, <2>7
<1>2. CASE ScanReader(w)
  <2>1. TicketsDistinct'
    BY <1>2 DEF ScanReader, TicketsDistinct, ring
  <2>2. OwnersActive'
    BY <1>2 DEF ScanReader, OwnersActive, registry, readers
  <2>3. NoLap'
    <3>1. ASSUME NEW x \in Writers, wpc[x] \in Unpublished, ticket[x] < ticket[w],
                 wi[w] + 1 > Owner[x]
          PROVE  slowest'[w] < ticket[x]
      <4>1. CASE wi[w] > Owner[x]
        <5>1. slowest[w] < ticket[x]
          BY <4>1, <3>1, <1>2 DEF ScanReader, NoLap
        <5>2. wi[w] \in Clients /\ last_read[wi[w]] \in Nat
          BY <1>2, <1>0, ScanIndex DEF ScanReader, TypeOK, RegistryTypes
        <5> QED
          BY <5>1, <5>2, <3>1, <1>2, <1>0 DEF ScanReader
      <4>2. CASE wi[w] = Owner[x]
        <5>1. is_active[wi[w]]
          BY <4>2, <3>1, <1>0 DEF OwnersActive, Unpublished
        <5>2. last_read[wi[w]] \in Nat
          BY <4>2, <1>0 DEF TypeOK, RegistryTypes
        <5>3. last_read[wi[w]] <= publish_sequence_id
          BY <4>2, <1>0 DEF ViewsPassed, ViewsOf
        <5>4. publish_sequence_id < ticket[x]
          BY <3>1 DEF TicketsDistinct
        <5> QED
          BY <5>1, <5>2, <5>3, <5>4, <1>2, <1>0 DEF ScanReader
      <4> QED
        BY <4>1, <4>2, <3>1, <1>0
    <3>2. /\ UNCHANGED <<wpc, ticket>> /\ wpc[w] = "scan"
          /\ \A y \in Writers : y # w => slowest'[y] = slowest[y] /\ wi'[y] = wi[y]
          /\ wi'[w] = wi[w] + 1
      BY <1>2, <1>0 DEF ScanReader
    <3> QED
      BY <3>1, <3>2, <1>0 DEF NoLap, Filling
  <2>4. FilledSlot'
    BY <1>2 DEF ScanReader, FilledSlot, ring
  <2>5. Tokens'
    BY <1>2 DEF ScanReader, Tokens, TokensOf, Notifying, ring, registry, readers
  <2>6. ViewsPassed'
    BY <1>2, ReadersKept DEF ScanReader, ring, readers
  <2>7. PublishedStamped'
    BY <1>2 DEF ScanReader, PublishedStamped, ring
  <2> QED
    BY <2>1, <2>2, <2>3, <2>4, <2>5, <2>6, <2>7
<1>3. CASE PassCheck(w)
  <2>1. TicketsDistinct'
    BY <1>3, <1>0 DEF PassCheck, WriterGoes, TicketsDistinct, Unpublished, ring
  <2>2. OwnersActive'
    BY <1>3, <1>0, OwnersKept DEF PassCheck, WriterGoes, registry, readers
  <2>3. NoLap'
    BY <1>3, <1>0 DEF PassCheck, HasRoom, WriterGoes, NoLap, Unpublished, Filling
  <2>4. FilledSlot'
    BY <1>3, <1>0 DEF PassCheck, WriterGoes, FilledSlot, ring
  <2>5. Tokens'
    <3>1. Notifying' = Notifying
      BY <1>3, <1>0 DEF PassCheck, WriterGoes, Notifying, WriterStates
    <3> QED
      BY <1>3, <3>1, TokensKept DEF PassCheck, ring, registry, readers
  <2>6. ViewsPassed'
    BY <1>3, ReadersKept DEF PassCheck, ring, readers
  <2>7. PublishedStamped'
    BY <1>3 DEF PassCheck, PublishedStamped, ring
  <2> QED
    BY <2>1, <2>2, <2>3, <2>4, <2>5, <2>6, <2>7
<1>4. CASE FailCheck(w)
  <2>1. TicketsDistinct'
    BY <1>4, <1>0 DEF FailCheck, WriterGoes, TicketsDistinct, Unpublished, ring
  <2>2. OwnersActive'
    BY <1>4, <1>0, OwnersKept DEF FailCheck, WriterGoes, registry, readers
  <2>3. NoLap'
    BY <1>4, <1>0 DEF FailCheck, WriterGoes, NoLap, Unpublished, Filling
  <2>4. FilledSlot'
    BY <1>4, <1>0 DEF FailCheck, WriterGoes, FilledSlot, ring
  <2>5. Tokens'
    <3>1. Notifying' = Notifying
      BY <1>4, <1>0 DEF FailCheck, WriterGoes, Notifying, WriterStates
    <3> QED
      BY <1>4, <3>1, TokensKept DEF FailCheck, ring, registry, readers
  <2>6. ViewsPassed'
    BY <1>4, ReadersKept DEF FailCheck, ring, readers
  <2>7. PublishedStamped'
    BY <1>4 DEF FailCheck, PublishedStamped, ring
  <2> QED
    BY <2>1, <2>2, <2>3, <2>4, <2>5, <2>6, <2>7
<1>5. CASE SetBlocked(w)
  <2>1. TicketsDistinct'
    BY <1>5, <1>0 DEF SetBlocked, WriterGoes, TicketsDistinct, Unpublished, ring
  <2>2. OwnersActive'
    BY <1>5, <1>0, OwnersKept DEF SetBlocked, WriterGoes, registry, readers
  <2>3. NoLap'
    BY <1>5, <1>0 DEF SetBlocked, WriterGoes, NoLap, Unpublished, Filling
  <2>4. FilledSlot'
    BY <1>5, <1>0 DEF SetBlocked, WriterGoes, FilledSlot, ring
  <2>5. Tokens'
    <3>1. Notifying' = Notifying
      BY <1>5, <1>0 DEF SetBlocked, WriterGoes, Notifying, WriterStates
    <3> QED
      BY <1>5, <3>1, TokensKept DEF SetBlocked, ring, registry, readers
  <2>6. ViewsPassed'
    BY <1>5, ReadersKept DEF SetBlocked, ring, readers
  <2>7. PublishedStamped'
    BY <1>5 DEF SetBlocked, PublishedStamped, ring
  <2> QED
    BY <2>1, <2>2, <2>3, <2>4, <2>5, <2>6, <2>7
<1>6. CASE WakeUp(w)
  <2>1. TicketsDistinct'
    BY <1>6, <1>0 DEF WakeUp, WriterGoes, TicketsDistinct, Unpublished, ring
  <2>2. OwnersActive'
    BY <1>6, <1>0, OwnersKept DEF WakeUp, WriterGoes, registry, readers
  <2>3. NoLap'
    BY <1>6, <1>0 DEF WakeUp, WriterGoes, NoLap, Unpublished, Filling
  <2>4. FilledSlot'
    BY <1>6, <1>0 DEF WakeUp, WriterGoes, FilledSlot, ring
  <2>5. Tokens'
    <3>1. Notifying' = Notifying
      BY <1>6, <1>0 DEF WakeUp, WriterGoes, Notifying, WriterStates
    <3> QED
      BY <1>6, <3>1, TokensKept DEF WakeUp, ring, registry, readers
  <2>6. ViewsPassed'
    BY <1>6, ReadersKept DEF WakeUp, ring, readers
  <2>7. PublishedStamped'
    BY <1>6 DEF WakeUp, PublishedStamped, ring
  <2> QED
    BY <2>1, <2>2, <2>3, <2>4, <2>5, <2>6, <2>7
<1>7. CASE WriteFrame(w)
  <2>1. TicketsDistinct'
    BY <1>7, <1>0 DEF WriteFrame, WriterGoes, TicketsDistinct, Unpublished, ring
  <2>2. OwnersActive'
    BY <1>7, <1>0, OwnersKept DEF WriteFrame, WriterGoes, registry, readers
  <2>3. NoLap'
    BY <1>7, <1>0 DEF WriteFrame, WriterGoes, NoLap, Unpublished, Filling
  <2>4. FilledSlot'
    <3>1. \A x \in Writers : x # w /\ wpc[x] \in Filling
                                => SlotOf(ticket[x]) # SlotOf(ticket[w])
      BY <1>7, Apart DEF WriteFrame, WriterGoes, WritersApart, Filling
    <3>2. \A x \in Writers : SlotOf(ticket[x]) \in 0 .. BUFFER_SLOTS - 1
      BY <1>0, SlotIndex
    <3> QED
      BY <1>7, <3>1, <3>2, <1>0
      DEF WriteFrame, WriterGoes, FilledSlot, Filling, TypeOK, RingTypes
  <2>5. Tokens'
    <3>1. Notifying' = Notifying
      BY <1>7, <1>0 DEF WriteFrame, WriterGoes, Notifying, WriterStates
    <3> QED
      BY <1>7, <3>1, TokensKept DEF WriteFrame, ring, registry, readers
  <2>6. ViewsPassed'
    BY <1>7, ReadersKept DEF WriteFrame, ring, readers
  <2>7. PublishedStamped'
    <3>1. SlotOf(ticket[w]) \in 0 .. BUFFER_SLOTS - 1 /\ ticket[w] > publish_sequence_id
      BY <1>7, <1>0, SlotIndex DEF WriteFrame, WriterGoes, TicketsDistinct, Unpublished
    <3>2. \A n \in 1 .. publish_sequence_id : SlotOf(n) \in 0 .. BUFFER_SLOTS - 1
      BY <1>0, SlotIndex
    <3> QED
      BY <1>7, <3>1, <3>2, <1>0
      DEF WriteFrame, PublishedStamped, TypeOK, RingTypes
  <2> QED
    BY <2>1, <2>2, <2>3, <2>4, <2>5, <2>6, <2>7
<1>8. CASE StampSlot(w)
  <2>1. TicketsDistinct'
    BY <1>8, <1>0 DEF StampSlot, WriterGoes, TicketsDistinct, Unpublished, ring
  <2>2. OwnersActive'
    BY <1>8, <1>0, OwnersKept DEF StampSlot, WriterGoes, registry, readers
  <2>3. NoLap'
    BY <1>8, <1>0 DEF StampSlot, WriterGoes, NoLap, Unpublished, Filling
  <2>4. FilledSlot'
    <3>1. \A x \in Writers : x # w /\ wpc[x] \in Filling
                                => SlotOf(ticket[x]) # SlotOf(ticket[w])
      BY <1>8, Apart DEF StampSlot, WriterGoes, WritersApart, Filling
    <3>2. \A x \in Writers : SlotOf(ticket[x]) \in 0 .. BUFFER_SLOTS - 1
      BY <1>0, SlotIndex
    <3> QED
      BY <1>8, <3>1, <3>2, <1>0
      DEF StampSlot, WriterGoes, FilledSlot, Filling, TypeOK, RingTypes
  <2>5. Tokens'
    <3>1. Notifying' = Notifying
      BY <1>8, <1>0 DEF StampSlot, WriterGoes, Notifying, WriterStates
    <3> QED
      BY <1>8, <3>1, TokensKept DEF StampSlot, ring, registry, readers
  <2>6. ViewsPassed'
    BY <1>8, ReadersKept DEF StampSlot, ring, readers
  <2>7. PublishedStamped'
    <3>1. SlotOf(ticket[w]) \in 0 .. BUFFER_SLOTS - 1 /\ ticket[w] > publish_sequence_id
      BY <1>8, <1>0, SlotIndex DEF StampSlot, WriterGoes, TicketsDistinct, Unpublished
    <3>2. \A n \in 1 .. publish_sequence_id : SlotOf(n) \in 0 .. BUFFER_SLOTS - 1
      BY <1>0, SlotIndex
    <3> QED
      BY <1>8, <3>1, <3>2, <1>0
      DEF StampSlot, PublishedStamped, TypeOK, RingTypes
  <2> QED
    BY <2>1, <2>2, <2>3, <2>4, <2>5, <2>6, <2>7
<1>9. CASE Publish(w)
  <2>1. TicketsDistinct'
    BY <1>9, <1>0 DEF Publish, WriterGoes, TicketsDistinct, Unpublished, ring
  <2>2. OwnersActive'
    BY <1>9, <1>0, OwnersKept DEF Publish, WriterGoes, registry, readers
  <2>3. NoLap'
    BY <1>9, <1>0 DEF Publish, WriterGoes, NoLap, Unpublished, Filling
  <2>4. FilledSlot'
    BY <1>9, <1>0 DEF Publish, WriterGoes, FilledSlot, ring
  <2>5. Tokens'
    <3>1. Notifying' = Notifying \cup {w} /\ w \notin Notifying
      BY <1>9, <1>0 DEF Publish, WriterGoes, Notifying
    <3>2. Cardinality(Notifying') = Cardinality(Notifying) + 1
      BY <3>1, NotifyingFinite, FS_AddElement
    <3>3. publish_sequence_id' = publish_sequence_id + 1
      BY <1>9, <1>0 DEF Publish
    <3>4. UNCHANGED <<next_sequence_to_read, pc, client_sem>>
      BY <1>9 DEF Publish, registry, readers
    <3>5. ASSUME NEW c \in Clients
          PROVE  next_sequence_to_read[c] \in Nat /\ client_sem[c] \in Nat
      BY DEF TypeOK, RegistryTypes, NicTypes
    <3> QED
      BY <3>2, <3>3, <3>4, <3>5, <1>0, NotifyingFinite DEF Tokens, TokensOf
  <2>6. ViewsPassed'
    BY <1>9, <1>0 DEF Publish, ViewsPassed, ViewsOf, readers, TypeOK, RegistryTypes
  <2>7. PublishedStamped'
    <3>1. /\ sequence_id[SlotOf(ticket[w])] = ticket[w]
          /\ frame[SlotOf(ticket[w])] = ticket[w]
          /\ publish_sequence_id' = ticket[w] /\ publish_sequence_id = ticket[w] - 1
          /\ UNCHANGED <<sequence_id, frame>>
      BY <1>9 DEF Publish, WriterGoes, FilledSlot
    <3>2. \A n \in 1 .. ticket[w] : n = ticket[w] \/ n \in 1 .. ticket[w] - 1
      BY <1>0
    <3> QED
      BY <3>1, <3>2, <1>0 DEF PublishedStamped
  <2> QED
    BY <2>1, <2>2, <2>3, <2>4, <2>5, <2>6, <2>7
<1>10. CASE Notify(w)
  <2>1. TicketsDistinct'
    BY <1>10, <1>0 DEF Notify, WriterGoes, TicketsDistinct, Unpublished, ring
  <2>2. OwnersActive'
    BY <1>10, <1>0, OwnersKept DEF Notify, WriterGoes, registry, readers
  <2>3. NoLap'
    BY <1>10, <1>0 DEF Notify, WriterGoes, NoLap, Unpublished, Filling
  <2>4. FilledSlot'
    BY <1>10, <1>0 DEF Notify, WriterGoes, FilledSlot, ring
  <2>5. Tokens'
    <3>1. Notifying' = Notifying \ {w} /\ w \in Notifying
      BY <1>10, <1>0 DEF Notify, WriterGoes, Notifying
    <3>2. Cardinality(Notifying') = Cardinality(Notifying) - 1
      BY <3>1, NotifyingFinite, FS_RemoveElement
    <3>3. \A c \in Clients : client_sem'[c] <= client_sem[c] + 1 /\ client_sem'[c] \in Nat
      BY <1>10 DEF Notify, TypeOK, RegistryTypes
    <3>4. UNCHANGED <<next_sequence_to_read, pc, publish_sequence_id>>
      BY <1>10 DEF Notify, ring, readers
    <3>5. ASSUME NEW c \in Clients
          PROVE  next_sequence_to_read[c] \in Nat /\ client_sem[c] \in Nat
      BY DEF TypeOK, RegistryTypes, NicTypes
    <3> QED
      BY <3>2, <3>3, <3>4, <3>5, <1>0, NotifyingFinite DEF Tokens, TokensOf
  <2>6. ViewsPassed'
    BY <1>10, ReadersKept DEF Notify, ring, readers
  <2>7. PublishedStamped'
    BY <1>10 DEF Notify, PublishedStamped, ring
  <2> QED
    BY <2>1, <2>2, <2>3, <2>4, <2>5, <2>6, <2>7
<1> QED
  BY <1>1, <1>2, <1>3, <1>4, <1>5, <1>6, <1>7, <1>8, <1>9, <1>10 DEF SendStep

ReceiverMove(c) ==
    \/ ReceiverLoop(c) \/ ReceiveWait(c) \/ ReceiveView(c)
    \/ ReceiveMismatch(c) \/ QueueIncomingBuffer(c) \/ FreeAtOnce(c)
    \/ PopBuffer(c) \/ CopyMessage(c)

(* The receiver thread and the application keep the invariant of the ring. *)
LEMMA ReceiverInv ==
    ASSUME RingInv, TypeOK', NEW c \in Clients, ReceiverMove(c)
    PROVE  RingInv'
<1> USE DEF RingInv
<1>0. /\ ThreadTypes /\ next_sequence_to_read \in [Clients -> Nat]
      /\ client_sem \in [Clients -> Nat] /\ last_read \in [Clients -> Nat]
      /\ given_up \in [Clients -> Nat]
      /\ data \in [Clients -> Seq(Nat)] /\ publish_sequence_id \in Nat
      /\ is_active \in [Clients -> BOOLEAN] /\ running \in [Clients -> BOOLEAN]
      /\ \A d \in Clients : held[Rx(d)] \in Nat /\ held[App(d)] \in Nat
  BY ThreadsOfClient DEF TypeOK, ThreadTypes, NicTypes, RegistryTypes, RingTypes, Rx, App
<1>1. CASE ReceiverLoop(c)
  <2>1. /\ TicketsDistinct' /\ NoLap' /\ FilledSlot' /\ PublishedStamped'
        /\ Notifying' = Notifying
    BY <1>1, SendKept DEF ReceiverLoop, ring, writers
  <2>2. RxMoves(c, "loop", IF running[c] THEN "wait" ELSE "exit") /\ UNCHANGED held
    BY <1>1, <1>0, RxGoes, RxTakes DEF ReceiverLoop, readers
  <2>3. OwnersActive'
    BY <1>1, <2>2, OwnersKept DEF ReceiverLoop, RxMoves, AppMoves, registry, writers, readers, AfterRelease
  <2>4. Tokens'
    BY <1>1, <2>1, <2>2, TokensKept DEF ReceiverLoop, RxMoves, AppMoves, ring, registry, readers, AfterRelease
  <2>5. ViewsPassed'
    BY <1>1, <2>2, <1>0 DEF ReceiverLoop, RxMoves, AppMoves, RxHolds, AppHolds, ViewsPassed, ViewsOf, Releasing, ring, AfterRelease
  <2> QED
    BY <2>1, <2>3, <2>4, <2>5
<1>2. CASE ReceiveWait(c)
  <2>1. /\ TicketsDistinct' /\ NoLap' /\ FilledSlot' /\ PublishedStamped'
        /\ Notifying' = Notifying
    BY <1>2, SendKept DEF ReceiveWait, ring, writers
  <2>2. RxMoves(c, "wait", "check") /\ UNCHANGED held
    BY <1>2, <1>0, RxGoes, RxTakes DEF ReceiveWait, readers
  <2>3. OwnersActive'
    BY <1>2, <2>2, OwnersKept DEF ReceiveWait, RxMoves, AppMoves, registry, writers, readers, AfterRelease
  <2>4. Tokens'
    <3>0. \A d \in Clients \ {c} : Untouched(d)
      BY <1>2, <2>2, <1>0 DEF ReceiveWait, Untouched, RxMoves, AppMoves, RxHolds, AppHolds, registry, readers
    <3>1. UNCHANGED publish_sequence_id
      BY <1>2 DEF ReceiveWait, ring
    <3>2. /\ client_sem[c] > 0 /\ client_sem'[c] = client_sem[c] - 1
          /\ UNCHANGED next_sequence_to_read
      BY <1>2, <1>0 DEF ReceiveWait, readers
    <3>3. next_sequence_to_read[c] \in Nat /\ client_sem[c] \in Nat /\ TokensOf(c)
      BY <1>0 DEF Tokens
    <3>4. TokensOf(c)'
      BY <2>1, <2>2, <3>1, <3>2, <3>3, <1>0, NotifyingFinite DEF TokensOf, RxMoves
    <3> QED
      BY <3>0, <3>1, <3>4, <2>1, OneProcess
  <2>5. ViewsPassed'
    BY <1>2, <2>2, <1>0 DEF ReceiveWait, RxMoves, AppMoves, RxHolds, AppHolds, ViewsPassed, ViewsOf, Releasing, ring, AfterRelease
  <2> QED
    BY <2>1, <2>3, <2>4, <2>5
<1>3. CASE ReceiveView(c)
  <2>1. /\ TicketsDistinct' /\ NoLap' /\ FilledSlot' /\ PublishedStamped'
        /\ Notifying' = Notifying
    BY <1>3, SendKept DEF ReceiveView, ring, writers
  <2>2. RxMoves(c, "check", "deliver") /\ RxHolds(c, next_sequence_to_read[c])
    BY <1>3, <1>0, RxGoes, RxTakes DEF ReceiveView, readers
  <2>3. OwnersActive'
    BY <1>3, <2>2, OwnersKept DEF ReceiveView, RxMoves, AppMoves, registry, writers, readers, AfterRelease
  <2>4. Tokens'
    <3>0. \A d \in Clients \ {c} : Untouched(d)
      BY <1>3, <2>2, <1>0 DEF ReceiveView, Untouched, RxMoves, AppMoves, RxHolds, AppHolds, registry, readers
    <3>1. UNCHANGED publish_sequence_id
      BY <1>3 DEF ReceiveView, ring
    <3>2. /\ next_sequence_to_read'[c] = next_sequence_to_read[c] + 1
          /\ UNCHANGED client_sem
      BY <1>3, <1>0 DEF ReceiveView
    <3>3. next_sequence_to_read[c] \in Nat /\ client_sem[c] \in Nat /\ TokensOf(c)
      BY <1>0 DEF Tokens
    <3>4. TokensOf(c)'
      BY <2>1, <2>2, <3>1, <3>2, <3>3, <1>0, NotifyingFinite DEF TokensOf, RxMoves
    <3> QED
      BY <3>0, <3>1, <3>4, <2>1, OneProcess
  <2>5. ViewsPassed'
    <3>0. \A d \in Clients \ {c} : Untouched(d)
      BY <1>3, <2>2, <1>0 DEF ReceiveView, Untouched, RxMoves, AppMoves, RxHolds, AppHolds, registry, readers
    <3>1. UNCHANGED publish_sequence_id
      BY <1>3 DEF ReceiveView, ring
    <3>2. /\ next_sequence_to_read'[c] = next_sequence_to_read[c] + 1
          /\ UNCHANGED <<data, last_read>>
      BY <1>3, <1>0 DEF ReceiveView
    <3>3. /\ next_sequence_to_read[c] \in Nat /\ data[c] \in Seq(Nat)
          /\ held[App(c)] \in Nat /\ ViewsOf(c)
      BY <1>0 DEF ViewsPassed
    <3>4. /\ \A n \in DOMAIN data'[c] : data'[c][n] > 0 /\ data'[c][n] < next_sequence_to_read'[c]
          /\ held'[Rx(c)] = next_sequence_to_read[c] /\ held'[App(c)] = held[App(c)]
      BY <2>2, <3>2, <3>3 DEF ViewsOf, RxHolds
    <3>5. ViewsOf(c)'
      BY <2>2, <3>1, <3>2, <3>3, <3>4, <1>0 DEF ViewsPassed, ViewsOf, Releasing, RxMoves, AppMoves, RxHolds, AppHolds
    <3> QED
      BY <3>0, <3>1, <3>5, <2>1, OneProcess
  <2> QED
    BY <2>1, <2>3, <2>4, <2>5
<1>4. CASE ReceiveMismatch(c)
  <2>1. /\ TicketsDistinct' /\ NoLap' /\ FilledSlot' /\ PublishedStamped'
        /\ Notifying' = Notifying
    BY <1>4, SendKept DEF ReceiveMismatch, ring, writers
  <2>2. RxMoves(c, "check", "loop") /\ UNCHANGED held
    BY <1>4, <1>0, RxGoes, RxTakes DEF ReceiveMismatch, readers
  <2>3. OwnersActive'
    BY <1>4, <2>2, OwnersKept DEF ReceiveMismatch, RxMoves, AppMoves, registry, writers, readers, AfterRelease
  <2>4. Tokens'
    BY <1>4, <2>1, <2>2, TokensKept DEF ReceiveMismatch, RxMoves, AppMoves, ring, registry, readers, AfterRelease
  <2>5. ViewsPassed'
    BY <1>4, <2>2, <1>0 DEF ReceiveMismatch, RxMoves, AppMoves, RxHolds, AppHolds, ViewsPassed, ViewsOf, Releasing, ring, AfterRelease
  <2> QED
    BY <2>1, <2>3, <2>4, <2>5
<1>5. CASE QueueIncomingBuffer(c)
  <2>1. /\ TicketsDistinct' /\ NoLap' /\ FilledSlot' /\ PublishedStamped'
        /\ Notifying' = Notifying
    BY <1>5, SendKept DEF QueueIncomingBuffer, ring, writers
  <2>2. RxMoves(c, "deliver", "loop") /\ RxHolds(c, 0)
    BY <1>5, <1>0, RxGoes, RxTakes DEF QueueIncomingBuffer, readers
  <2>3. OwnersActive'
    BY <1>5, <2>2, OwnersKept DEF QueueIncomingBuffer, RxMoves, AppMoves, registry, writers, readers, AfterRelease
  <2>4. Tokens'
    BY <1>5, <2>1, <2>2, TokensKept DEF QueueIncomingBuffer, RxMoves, AppMoves, ring, registry, readers, AfterRelease
  <2>5. ViewsPassed'
    <3>0. \A d \in Clients \ {c} : Untouched(d)
      BY <1>5, <2>2, <1>0 DEF QueueIncomingBuffer, Untouched, RxMoves, AppMoves, RxHolds, AppHolds, registry, readers
    <3>1. UNCHANGED publish_sequence_id
      BY <1>5 DEF QueueIncomingBuffer, ring
    <3>2. /\ data'[c] = Append(data[c], held[Rx(c)])
          /\ UNCHANGED <<next_sequence_to_read, last_read>>
      BY <1>5, <1>0 DEF QueueIncomingBuffer, Rx
    <3>3. data[c] \in Seq(Nat) /\ held[Rx(c)] \in Nat \ {0} /\ ViewsOf(c)
      BY <2>2, <1>0 DEF ViewsPassed, ViewsOf, RxMoves
    <3>4. \A n \in DOMAIN data'[c] : data'[c][n] > 0 /\ data'[c][n] < next_sequence_to_read[c]
      BY <3>2, <3>3 DEF ViewsOf
    <3>5. ViewsOf(c)'
      BY <2>2, <3>1, <3>2, <3>3, <3>4, <1>0 DEF ViewsPassed, ViewsOf, Releasing, RxMoves, AppMoves, RxHolds, AppHolds
    <3> QED
      BY <3>0, <3>1, <3>5, <2>1, OneProcess
  <2> QED
    BY <2>1, <2>3, <2>4, <2>5
<1>6. CASE FreeAtOnce(c)
  <2>1. /\ TicketsDistinct' /\ NoLap' /\ FilledSlot' /\ PublishedStamped'
        /\ Notifying' = Notifying
    BY <1>6, SendKept DEF FreeAtOnce, ring, writers
  <2>2. RxMoves(c, "deliver", "rel") /\ UNCHANGED held
    BY <1>6, <1>0, RxGoes, RxTakes DEF FreeAtOnce, readers
  <2>3. OwnersActive'
    BY <1>6, <2>2, OwnersKept DEF FreeAtOnce, RxMoves, AppMoves, registry, writers, readers, AfterRelease
  <2>4. Tokens'
    BY <1>6, <2>1, <2>2, TokensKept DEF FreeAtOnce, RxMoves, AppMoves, ring, registry, readers, AfterRelease
  <2>5. ViewsPassed'
    BY <1>6, <2>2, <1>0 DEF FreeAtOnce, RxMoves, AppMoves, RxHolds, AppHolds, ViewsPassed, ViewsOf, Releasing, ring, AfterRelease
  <2> QED
    BY <2>1, <2>3, <2>4, <2>5
<1>7. CASE PopBuffer(c)
  <2>1. /\ TicketsDistinct' /\ NoLap' /\ FilledSlot' /\ PublishedStamped'
        /\ Notifying' = Notifying
    BY <1>7, SendKept DEF PopBuffer, ring, writers
  <2>2. AppMoves(c, "idle", "copy") /\ AppHolds(c, Head(data[c]))
    BY <1>7, <1>0, AppGoes, AppTakes DEF PopBuffer, readers
  <2>3. OwnersActive'
    BY <1>7, <2>2, OwnersKept DEF PopBuffer, RxMoves, AppMoves, registry, writers, readers, AfterRelease
  <2>4. Tokens'
    BY <1>7, <2>1, <2>2, TokensKept DEF PopBuffer, RxMoves, AppMoves, ring, registry, readers, AfterRelease
  <2>5. ViewsPassed'
    <3>0. \A d \in Clients \ {c} : Untouched(d)
      BY <1>7, <2>2, <1>0 DEF PopBuffer, Untouched, RxMoves, AppMoves, RxHolds, AppHolds, registry, readers
    <3>1. UNCHANGED publish_sequence_id
      BY <1>7 DEF PopBuffer, ring
    <3>2. /\ data'[c] = Tail(data[c]) /\ data[c] # <<>>
          /\ UNCHANGED <<next_sequence_to_read, last_read>>
      BY <1>7, <1>0 DEF PopBuffer
    <3>3. data[c] \in Seq(Nat) /\ ViewsOf(c)
      BY <1>0 DEF ViewsPassed
    <3>4. /\ \A n \in DOMAIN data'[c] : data'[c][n] > 0 /\ data'[c][n] < next_sequence_to_read[c]
          /\ Head(data[c]) < next_sequence_to_read[c] /\ Head(data[c]) > 0
      BY <3>2, <3>3 DEF ViewsOf
    <3>5. ViewsOf(c)'
      BY <2>2, <3>1, <3>2, <3>3, <3>4, <1>0 DEF ViewsPassed, ViewsOf, Releasing, RxMoves, AppMoves, RxHolds, AppHolds
    <3> QED
      BY <3>0, <3>1, <3>5, <2>1, OneProcess
  <2> QED
    BY <2>1, <2>3, <2>4, <2>5
<1>8. CASE CopyMessage(c)
  <2>1. /\ TicketsDistinct' /\ NoLap' /\ FilledSlot' /\ PublishedStamped'
        /\ Notifying' = Notifying
    BY <1>8, SendKept DEF CopyMessage, ring, writers
  <2>2. AppMoves(c, "copy", "rel") /\ UNCHANGED held
    BY <1>8, <1>0, AppGoes, AppTakes DEF CopyMessage, readers
  <2>3. OwnersActive'
    BY <1>8, <2>2, OwnersKept DEF CopyMessage, RxMoves, AppMoves, registry, writers, readers, AfterRelease
  <2>4. Tokens'
    BY <1>8, <2>1, <2>2, TokensKept DEF CopyMessage, RxMoves, AppMoves, ring, registry, readers, AfterRelease
  <2>5. ViewsPassed'
    BY <1>8, <2>2, <1>0 DEF CopyMessage, RxMoves, AppMoves, RxHolds, AppHolds, ViewsPassed, ViewsOf, Releasing, ring, AfterRelease
  <2> QED
    BY <2>1, <2>3, <2>4, <2>5
<1> QED
  BY <1>1, <1>2, <1>3, <1>4, <1>5, <1>6, <1>7, <1>8 DEF ReceiverMove

(* So does release_frame, whichever thread calls it. *)
LEMMA ReleaseInv ==
    ASSUME RingInv, TypeOK', NEW c \in Clients, ReleaseStep(<<c, "rx">>) \/ ReleaseStep(<<c, "app">>)
    PROVE  RingInv'
<1> USE DEF RingInv
<1>0. /\ ThreadTypes /\ next_sequence_to_read \in [Clients -> Nat]
      /\ client_sem \in [Clients -> Nat] /\ last_read \in [Clients -> Nat]
      /\ given_up \in [Clients -> Nat]
      /\ data \in [Clients -> Seq(Nat)] /\ publish_sequence_id \in Nat
      /\ is_active \in [Clients -> BOOLEAN] /\ running \in [Clients -> BOOLEAN]
      /\ \A d \in Clients : held[Rx(d)] \in Nat /\ held[App(d)] \in Nat
  BY ThreadsOfClient DEF TypeOK, ThreadTypes, NicTypes, RegistryTypes, RingTypes, Rx, App
<1>1. CASE ReleaseReadFlag(<<c, "rx">>)
  <2>1. /\ TicketsDistinct' /\ NoLap' /\ FilledSlot' /\ PublishedStamped'
        /\ Notifying' = Notifying
    BY <1>1, SendKept DEF ReleaseReadFlag, ring, writers
  <2>2. RxMoves(c, "rel", IF writer_is_blocked THEN "relown" ELSE "store") /\ UNCHANGED held
    BY <1>1, <1>0, RxGoes, RxTakes DEF ReleaseReadFlag, readers, AfterRelease
  <2>3. OwnersActive'
    BY <1>1, <2>2, OwnersKept DEF ReleaseReadFlag, RxMoves, AppMoves, registry, writers, readers, AfterRelease
  <2>4. Tokens'
    BY <1>1, <2>1, <2>2, TokensKept DEF ReleaseReadFlag, RxMoves, AppMoves, ring, registry, readers, AfterRelease
  <2>5. ViewsPassed'
    BY <1>1, <2>2, <1>0 DEF ReleaseReadFlag, RxMoves, AppMoves, RxHolds, AppHolds, ViewsPassed, ViewsOf, Releasing, ring, AfterRelease
  <2> QED
    BY <2>1, <2>3, <2>4, <2>5
<1>2. CASE ReleaseScan(<<c, "rx">>)
  <2>1. /\ TicketsDistinct' /\ NoLap' /\ FilledSlot' /\ PublishedStamped'
        /\ Notifying' = Notifying
    BY <1>2, SendKept DEF ReleaseScan, ring, writers
  <2>2. UNCHANGED readers
    BY <1>2 DEF ReleaseScan
  <2>3. OwnersActive'
    BY <1>2, <2>2, OwnersKept DEF ReleaseScan, registry, writers, readers
  <2>4. Tokens'
    BY <1>2, <2>1, <2>2, TokensKept DEF ReleaseScan, ring, registry, readers
  <2>5. ViewsPassed'
    BY <1>2, <2>2, ReadersKept DEF ReleaseScan, ring
  <2> QED
    BY <2>1, <2>3, <2>4, <2>5
<1>3. CASE ReleaseStore(<<c, "rx">>)
  <2>1. /\ TicketsDistinct' /\ NoLap' /\ FilledSlot' /\ PublishedStamped'
        /\ Notifying' = Notifying
    BY <1>3, SendKept DEF ReleaseStore, ring, writers
  <2>2. /\ RxMoves(c, pc[Rx(c)], IF i_am_the_slowest[Rx(c)] THEN "signal" ELSE "loop")
        /\ RxHolds(c, 0) /\ pc[Rx(c)] \in {"relscan", "store"}
    BY <1>3, <1>0, RxTakes DEF ReleaseStore, RxMoves, ThreadTypes, Threads, Rx, App, AfterRelease
  <2>3. OwnersActive'
    BY <1>3, <2>2, OwnersKept DEF ReleaseStore, RxMoves, AppMoves, registry, writers, readers, AfterRelease
  <2>4. Tokens'
    BY <1>3, <2>1, <2>2, TokensKept DEF ReleaseStore, RxMoves, AppMoves, ring, registry, readers, AfterRelease
  <2>5. ViewsPassed'
    <3>1. /\ last_read' = [last_read EXCEPT ![c] = held[Rx(c)]]
          /\ UNCHANGED <<next_sequence_to_read, data, publish_sequence_id>>
      BY <1>3 DEF ReleaseStore, Rx, App, ring
    <3>2. held[Rx(c)] <= publish_sequence_id
      BY <1>0, NotifyingFinite DEF ViewsPassed, ViewsOf, Tokens, TokensOf
    <3>3. \A d \in Clients \ {c} : Untouched(d)
      BY <1>3, <2>2, <3>1, <1>0 DEF ReleaseStore, Untouched, RxMoves, RxHolds
    <3>4. ViewsOf(c)'
      <4>1. /\ next_sequence_to_read[c] \in Nat /\ held[App(c)] \in Nat /\ ViewsOf(c)
            /\ last_read'[c] = held[Rx(c)] /\ pc[Rx(c)] \notin {"off", "check", "deliver", "copy"}
        BY <3>1, <2>2, <1>0 DEF ViewsPassed
      <4> QED
        BY <2>2, <3>1, <3>2, <4>1 DEF RxMoves, RxHolds, ViewsOf, Releasing
    <3> QED
      BY <3>1, <3>3, <3>4, <2>1, OneProcess
  <2> QED
    BY <2>1, <2>3, <2>4, <2>5
<1>4. CASE ReleaseSignal(<<c, "rx">>)
  <2>1. /\ TicketsDistinct' /\ NoLap' /\ FilledSlot' /\ PublishedStamped'
        /\ Notifying' = Notifying
    BY <1>4, SendKept DEF ReleaseSignal, ring, writers
  <2>2. RxMoves(c, "signal", "loop") /\ UNCHANGED held
    BY <1>4, <1>0, RxGoes, RxTakes DEF ReleaseSignal, readers, AfterRelease
  <2>3. OwnersActive'
    BY <1>4, <2>2, OwnersKept DEF ReleaseSignal, RxMoves, AppMoves, registry, writers, readers, AfterRelease
  <2>4. Tokens'
    BY <1>4, <2>1, <2>2, TokensKept DEF ReleaseSignal, RxMoves, AppMoves, ring, registry, readers, AfterRelease
  <2>5. ViewsPassed'
    BY <1>4, <2>2, <1>0 DEF ReleaseSignal, RxMoves, AppMoves, RxHolds, AppHolds, ViewsPassed, ViewsOf, Releasing, ring, AfterRelease
  <2> QED
    BY <2>1, <2>3, <2>4, <2>5
<1>5. CASE ReleaseReadFlag(<<c, "app">>)
  <2>1. /\ TicketsDistinct' /\ NoLap' /\ FilledSlot' /\ PublishedStamped'
        /\ Notifying' = Notifying
    BY <1>5, SendKept DEF ReleaseReadFlag, ring, writers
  <2>2. AppMoves(c, "rel", IF writer_is_blocked THEN "relown" ELSE "store") /\ UNCHANGED held
    BY <1>5, <1>0, AppGoes, AppTakes DEF ReleaseReadFlag, readers, AfterRelease
  <2>3. OwnersActive'
    BY <1>5, <2>2, OwnersKept DEF ReleaseReadFlag, RxMoves, AppMoves, registry, writers, readers, AfterRelease
  <2>4. Tokens'
    BY <1>5, <2>1, <2>2, TokensKept DEF ReleaseReadFlag, RxMoves, AppMoves, ring, registry, readers, AfterRelease
  <2>5. ViewsPassed'
    BY <1>5, <2>2, <1>0 DEF ReleaseReadFlag, RxMoves, AppMoves, RxHolds, AppHolds, ViewsPassed, ViewsOf, Releasing, ring, AfterRelease
  <2> QED
    BY <2>1, <2>3, <2>4, <2>5
<1>6. CASE ReleaseScan(<<c, "app">>)
  <2>1. /\ TicketsDistinct' /\ NoLap' /\ FilledSlot' /\ PublishedStamped'
        /\ Notifying' = Notifying
    BY <1>6, SendKept DEF ReleaseScan, ring, writers
  <2>2. UNCHANGED readers
    BY <1>6 DEF ReleaseScan
  <2>3. OwnersActive'
    BY <1>6, <2>2, OwnersKept DEF ReleaseScan, registry, writers, readers
  <2>4. Tokens'
    BY <1>6, <2>1, <2>2, TokensKept DEF ReleaseScan, ring, registry, readers
  <2>5. ViewsPassed'
    BY <1>6, <2>2, ReadersKept DEF ReleaseScan, ring
  <2> QED
    BY <2>1, <2>3, <2>4, <2>5
<1>7. CASE ReleaseStore(<<c, "app">>)
  <2>1. /\ TicketsDistinct' /\ NoLap' /\ FilledSlot' /\ PublishedStamped'
        /\ Notifying' = Notifying
    BY <1>7, SendKept DEF ReleaseStore, ring, writers
  <2>2. /\ AppMoves(c, pc[App(c)], IF i_am_the_slowest[App(c)] THEN "signal" ELSE "idle")
        /\ AppHolds(c, 0) /\ pc[App(c)] \in {"relscan", "store"}
    BY <1>7, <1>0, AppTakes DEF ReleaseStore, AppMoves, ThreadTypes, Threads, Rx, App, AfterRelease
  <2>3. OwnersActive'
    BY <1>7, <2>2, OwnersKept DEF ReleaseStore, RxMoves, AppMoves, registry, writers, readers, AfterRelease
  <2>4. Tokens'
    BY <1>7, <2>1, <2>2, TokensKept DEF ReleaseStore, RxMoves, AppMoves, ring, registry, readers, AfterRelease
  <2>5. ViewsPassed'
    <3>1. /\ last_read' = [last_read EXCEPT ![c] = held[App(c)]]
          /\ UNCHANGED <<next_sequence_to_read, data, publish_sequence_id>>
      BY <1>7 DEF ReleaseStore, Rx, App, ring
    <3>2. held[App(c)] <= publish_sequence_id
      BY <1>0, NotifyingFinite DEF ViewsPassed, ViewsOf, Tokens, TokensOf
    <3>3. \A d \in Clients \ {c} : Untouched(d)
      BY <1>7, <2>2, <3>1, <1>0 DEF ReleaseStore, Untouched, AppMoves, AppHolds
    <3>4. ViewsOf(c)'
      <4>1. /\ next_sequence_to_read[c] \in Nat /\ held[Rx(c)] \in Nat /\ ViewsOf(c)
            /\ last_read'[c] = held[App(c)] /\ pc[App(c)] \notin {"off", "check", "deliver", "copy"}
        BY <3>1, <2>2, <1>0 DEF ViewsPassed
      <4> QED
        BY <2>2, <3>1, <3>2, <4>1 DEF AppMoves, AppHolds, ViewsOf, Releasing
    <3> QED
      BY <3>1, <3>3, <3>4, <2>1, OneProcess
  <2> QED
    BY <2>1, <2>3, <2>4, <2>5
<1>8. CASE ReleaseSignal(<<c, "app">>)
  <2>1. /\ TicketsDistinct' /\ NoLap' /\ FilledSlot' /\ PublishedStamped'
        /\ Notifying' = Notifying
    BY <1>8, SendKept DEF ReleaseSignal, ring, writers
  <2>2. AppMoves(c, "signal", "idle") /\ UNCHANGED held
    BY <1>8, <1>0, AppGoes, AppTakes DEF ReleaseSignal, readers, AfterRelease
  <2>3. OwnersActive'
    BY <1>8, <2>2, OwnersKept DEF ReleaseSignal, RxMoves, AppMoves, registry, writers, readers, AfterRelease
  <2>4. Tokens'
    BY <1>8, <2>1, <2>2, TokensKept DEF ReleaseSignal, RxMoves, AppMoves, ring, registry, readers, AfterRelease
  <2>5. ViewsPassed'
    BY <1>8, <2>2, <1>0 DEF ReleaseSignal, RxMoves, AppMoves, RxHolds, AppHolds, ViewsPassed, ViewsOf, Releasing, ring, AfterRelease
  <2> QED
    BY <2>1, <2>3, <2>4, <2>5
<1>9. CASE ReleaseReadOwn(<<c, "rx">>)
  <2>1. /\ TicketsDistinct' /\ NoLap' /\ FilledSlot' /\ PublishedStamped'
        /\ Notifying' = Notifying
    BY <1>9, SendKept DEF ReleaseReadOwn, ring, writers
  <2>2. RxMoves(c, "relown", "relscan") /\ UNCHANGED held
    BY <1>9, <1>0, RxGoes DEF ReleaseReadOwn
  <2>3. OwnersActive'
    BY <1>9, <2>2, OwnersKept DEF ReleaseReadOwn, RxMoves, registry, writers
  <2>4. Tokens'
    BY <1>9, <2>1, <2>2, TokensKept DEF ReleaseReadOwn, RxMoves, ring, registry
  <2>5. ViewsPassed'
    BY <1>9, <2>2, <1>0 DEF ReleaseReadOwn, RxMoves, ViewsPassed, ViewsOf, Releasing, ring
  <2> QED
    BY <2>1, <2>3, <2>4, <2>5
<1>10. CASE ReleaseReadOwn(<<c, "app">>)
  <2>1. /\ TicketsDistinct' /\ NoLap' /\ FilledSlot' /\ PublishedStamped'
        /\ Notifying' = Notifying
    BY <1>10, SendKept DEF ReleaseReadOwn, ring, writers
  <2>2. AppMoves(c, "relown", "relscan") /\ UNCHANGED held
    BY <1>10, <1>0, AppGoes DEF ReleaseReadOwn
  <2>3. OwnersActive'
    BY <1>10, <2>2, OwnersKept DEF ReleaseReadOwn, AppMoves, registry, writers
  <2>4. Tokens'
    BY <1>10, <2>1, <2>2, TokensKept DEF ReleaseReadOwn, AppMoves, ring, registry
  <2>5. ViewsPassed'
    BY <1>10, <2>2, <1>0 DEF ReleaseReadOwn, AppMoves, ViewsPassed, ViewsOf, Releasing, ring
  <2> QED
    BY <2>1, <2>3, <2>4, <2>5
<1> QED
  BY <1>1, <1>2, <1>3, <1>4, <1>5, <1>6, <1>7, <1>8, <1>9, <1>10 DEF ReleaseStep

(* And so do registration and destruction. *)
LEMMA RegistryInv ==
    ASSUME RingInv, TypeOK', NEW c \in Clients, RegistryStep(c)
    PROVE  RingInv'
<1> USE DEF RingInv
<1>0. /\ ThreadTypes /\ next_sequence_to_read \in [Clients -> Nat]
      /\ client_sem \in [Clients -> Nat] /\ last_read \in [Clients -> Nat]
      /\ given_up \in [Clients -> Nat]
      /\ data \in [Clients -> Seq(Nat)] /\ publish_sequence_id \in Nat
      /\ is_active \in [Clients -> BOOLEAN] /\ running \in [Clients -> BOOLEAN]
      /\ \A d \in Clients : held[Rx(d)] \in Nat /\ held[App(d)] \in Nat
  BY ThreadsOfClient DEF TypeOK, ThreadTypes, NicTypes, RegistryTypes, RingTypes, Rx, App
<1>1. CASE RegisterActivate(c)
  <2>1. /\ TicketsDistinct' /\ NoLap' /\ FilledSlot' /\ PublishedStamped'
        /\ Notifying' = Notifying
    BY <1>1, SendKept DEF RegisterActivate, ring, writers
  <2>2. UNCHANGED readers
    BY <1>1 DEF RegisterActivate
  <2>3. OwnersActive'
    BY <1>1, <2>2, <1>0 DEF RegisterActivate, OwnersActive, writers, readers, TypeOK, RegistryTypes, None, Clients
  <2>4. Tokens'
    BY <1>1, <2>1, <2>2, TokensKept DEF RegisterActivate, ring, readers
  <2>5. ViewsPassed'
    BY <1>1, <2>2, ReadersKept DEF RegisterActivate, ring
  <2> QED
    BY <2>1, <2>3, <2>4, <2>5
<1>2. CASE RegisterStore(c)
  <2>1. /\ TicketsDistinct' /\ NoLap' /\ FilledSlot' /\ PublishedStamped'
        /\ Notifying' = Notifying
    BY <1>2, SendKept DEF RegisterStore, ring, writers
  <2>2. /\ \A d \in Clients : /\ pc'[Rx(d)] = IF d = c THEN "loop" ELSE pc[Rx(d)]
                              /\ pc'[App(d)] = IF d = c THEN "idle" ELSE pc[App(d)]
        /\ UNCHANGED held
    BY <1>2, <1>0 DEF RegisterStore, ThreadTypes, Threads, Rx, App
  <2>3. OwnersActive'
    <3>1. /\ is_active[c] /\ registering' = None /\ UNCHANGED <<is_active, wpc>>
          /\ \A d \in Clients : running'[d] = IF d = c THEN TRUE ELSE running[d]
      BY <1>2, <1>0 DEF RegisterStore, OwnersActive, writers
    <3> QED
      BY <2>2, <3>1, ThreadsOfClient DEF OwnersActive
  <2>4. Tokens'
    <3>1. /\ \A d \in Clients : next_sequence_to_read'[d] = IF d = c THEN 1 ELSE next_sequence_to_read[d]
          /\ UNCHANGED <<client_sem, publish_sequence_id>>
          /\ \A d \in Clients : next_sequence_to_read[d] >= 1
      BY <1>2, <1>0 DEF RegisterStore, ring, ViewsPassed, ViewsOf
    <3>2. \A d \in Clients \ {c} : Untouched(d)
      BY <1>2, <2>2, <1>0 DEF RegisterStore, Untouched
    <3>3. TokensOf(c) /\ next_sequence_to_read[c] \in Nat /\ client_sem[c] \in Nat
      BY <1>0 DEF Tokens
    <3>4. TokensOf(c)'
      BY <2>1, <2>2, <3>1, <3>3, <1>0, NotifyingFinite DEF TokensOf
    <3> QED
      BY <3>1, <3>2, <3>4, <2>1, OneProcess
  <2>5. ViewsPassed'
    <3>1. pc[Rx(c)] = "off" /\ pc[App(c)] = "off" /\ data[c] = <<>>
      BY <1>2 DEF RegisterStore, OwnersActive, ViewsPassed, ViewsOf
    <3>2. held[Rx(c)] = 0 /\ held[App(c)] = 0
      BY <3>1, <1>0 DEF ViewsPassed, ViewsOf, Releasing
    <3>3. /\ next_sequence_to_read' = [next_sequence_to_read EXCEPT ![c] = 1]
          /\ last_read' = [last_read EXCEPT ![c] = publish_sequence_id]
          /\ UNCHANGED <<data, publish_sequence_id>>
      BY <1>2 DEF RegisterStore, ring
    <3>4. \A d \in Clients \ {c} : Untouched(d)
      BY <1>2, <2>2, <1>0 DEF RegisterStore, Untouched
    <3>5. ViewsOf(c)'
      BY <2>2, <3>1, <3>2, <3>3, <1>0 DEF ViewsOf, Releasing
    <3> QED
      BY <3>3, <3>4, <3>5, <2>1, OneProcess
  <2> QED
    BY <2>1, <2>3, <2>4, <2>5
<1>3. CASE Stop(c)
  <2>1. /\ TicketsDistinct' /\ NoLap' /\ FilledSlot' /\ PublishedStamped'
        /\ Notifying' = Notifying
    BY <1>3, SendKept DEF Stop, ring, writers
  <2>2. UNCHANGED <<pc, held, next_sequence_to_read, data>>
    BY <1>3 DEF Stop
  <2>3. OwnersActive'
    BY <1>3, <2>2, <1>0 DEF Stop, OwnersActive, registry, writers
  <2>4. Tokens'
    BY <1>3, <2>1, <2>2, TokensKept DEF Stop, ring
  <2>5. ViewsPassed'
    BY <1>3, <2>2 DEF Stop, ring, ViewsPassed, ViewsOf
  <2> QED
    BY <2>1, <2>3, <2>4, <2>5
<1>4. CASE Deregister(c)
  <2>1. /\ TicketsDistinct' /\ NoLap' /\ FilledSlot' /\ PublishedStamped'
        /\ Notifying' = Notifying
    BY <1>4, SendKept DEF Deregister, ring, writers
  <2>2. /\ \A d \in Clients : /\ pc'[Rx(d)] = IF d = c THEN "off" ELSE pc[Rx(d)]
                              /\ pc'[App(d)] = IF d = c THEN "off" ELSE pc[App(d)]
        /\ UNCHANGED held
    BY <1>4, <1>0 DEF Deregister, ThreadTypes, Threads, Rx, App
  <2>3. OwnersActive'
    <3>1. /\ ~running[c] /\ UNCHANGED <<running, registering, wpc>>
          /\ registering = None
          /\ \A d \in Clients : is_active'[d] = IF d = c THEN FALSE ELSE is_active[d]
          /\ \A w \in Writers : Owner[w] = c => wpc[w] = "idle"
      BY <1>4, <1>0 DEF Deregister, OwnersActive, writers, Rx
    <3>2. \A w \in Writers : Owner[w] \in Clients
      BY ThreadsAssumption
    <3> QED
      BY <2>2, <3>1, <3>2, ThreadsOfClient DEF OwnersActive
  <2>4. Tokens'
    <3>1. /\ \A d \in Clients \ {c} : Untouched(d)
          /\ UNCHANGED <<client_sem, publish_sequence_id>>
          /\ next_sequence_to_read'[c] = 1 /\ next_sequence_to_read[c] >= 1
      BY <1>4, <2>2, <1>0 DEF Deregister, Untouched, ring, ViewsPassed, ViewsOf
    <3>2. TokensOf(c) /\ next_sequence_to_read[c] \in Nat /\ client_sem[c] \in Nat
      BY <1>0 DEF Tokens
    <3>3. TokensOf(c)'
      BY <2>1, <2>2, <3>1, <3>2, <1>0, NotifyingFinite DEF TokensOf
    <3> QED
      BY <3>1, <3>3, <2>1, OneProcess
  <2>5. ViewsPassed'
    <3>1. held[Rx(c)] = 0 /\ held[App(c)] = 0
      BY <1>4, <1>0 DEF Deregister, ViewsPassed, ViewsOf, Releasing, Rx, App
    <3>2. /\ \A d \in Clients \ {c} : Untouched(d)
          /\ UNCHANGED publish_sequence_id
      BY <1>4, <2>2, <1>0 DEF Deregister, Untouched, ring
    <3>3. /\ data'[c] = <<>> /\ next_sequence_to_read'[c] = 1
          /\ UNCHANGED last_read /\ ViewsOf(c)
      BY <1>4, <1>0 DEF Deregister, ViewsPassed
    <3>4. ViewsOf(c)'
      BY <2>2, <3>1, <3>2, <3>3, <1>0 DEF ViewsOf, Releasing
    <3> QED
      BY <3>2, <3>4, <2>1, OneProcess
  <2> QED
    BY <2>1, <2>3, <2>4, <2>5
<1> QED
  BY <1>1, <1>2, <1>3, <1>4 DEF RegistryStep

-----------------------------------------------------------------------------
(* The freshly bootstrapped block satisfies the invariant. *)
LEMMA RingInit == Init => RingInv
<1> SUFFICES ASSUME Init PROVE RingInv
  OBVIOUS
<1>1. TypeOK
  <2>1. RingTypes /\ RegistryTypes
    <3>1. RingTypes
      <4>1. claim_sequence_id \in Nat \ {0} /\ publish_sequence_id \in Nat
        BY DEF Init
      <4>2. /\ sequence_id \in [0 .. BUFFER_SLOTS - 1 -> Nat]
            /\ frame \in [0 .. BUFFER_SLOTS - 1 -> Nat]
        BY DEF Init
      <4>3. writer_wait_sem \in Nat /\ writer_is_blocked \in BOOLEAN
        BY DEF Init
      <4> QED
        BY <4>1, <4>2, <4>3 DEF RingTypes
    <3>2. is_active \in [Clients -> BOOLEAN] /\ registering \in Clients \cup {None}
      BY DEF Init
    <3>3. /\ last_read \in [Clients -> Nat] /\ client_sem \in [Clients -> Nat]
          /\ given_up \in [Clients -> Nat]
      BY DEF Init
    <3> QED
      BY <3>1, <3>2, <3>3 DEF RegistryTypes
  <2>3. WriterTypes
    BY SizesAssumption DEF Init, WriterTypes, WriterStates
  <2>2. ThreadTypes /\ ReleaseTypes /\ NicTypes
    BY SizesAssumption
    DEF Init, ThreadTypes, ReleaseTypes, NicTypes, RxStates
  <2> QED
    BY <2>1, <2>2, <2>3 DEF TypeOK
<1>2. TicketsDistinct /\ NoLap /\ FilledSlot /\ PublishedStamped
  BY DEF Init, TicketsDistinct, NoLap, FilledSlot, PublishedStamped, Filling,
         Unpublished
<1>3. \A c \in Clients : /\ pc[Rx(c)] = "off" /\ pc[App(c)] = "off"
                         /\ held[Rx(c)] = 0 /\ held[App(c)] = 0
  BY ThreadsOfClient DEF Init, Rx, App
<1>4. OwnersActive
  BY <1>3, ThreadsOfClient DEF Init, OwnersActive
<1>5. Tokens
  <2>1. Notifying = {}
    BY DEF Init, Notifying
  <2>2. Cardinality(Notifying) = 0
    BY <2>1, FS_EmptySet
  <2> QED
    BY <1>3, <2>2 DEF Init, Tokens, TokensOf
<1>6. ViewsPassed
  BY <1>3 DEF Init, ViewsPassed, ViewsOf, Releasing
<1> QED
  BY <1>1, <1>2, <1>4, <1>5, <1>6 DEF RingInv

(* Every step keeps it. *)
LEMMA RingStep == RingInv /\ [Next]_vars => RingInv'
<1> SUFFICES ASSUME RingInv, [Next]_vars PROVE RingInv'
  OBVIOUS
<1>1. TypeOK'
  BY TypeStep DEF RingInv
<1>2. CASE \E w \in Writers : Claim(w) \/ SendStep(w)
  BY <1>1, <1>2, SendInv
<1>3. CASE \E c \in Clients : RegistryStep(c)
  BY <1>1, <1>3, RegistryInv
<1>4. CASE \E c \in Clients : ReceiverMove(c)
  BY <1>1, <1>4, ReceiverInv
<1>5. CASE \E c \in Clients : ReleaseStep(<<c, "rx">>) \/ ReleaseStep(<<c, "app">>)
  BY <1>1, <1>5, ReleaseInv
<1>6. CASE UNCHANGED vars
  <2>1. UNCHANGED <<ring, writers, readers, last_read, registry, client_sem>>
    BY <1>6 DEF vars
  <2>2. /\ TicketsDistinct' /\ NoLap' /\ FilledSlot' /\ PublishedStamped'
        /\ Notifying' = Notifying
    BY <2>1, SendKept
  <2>3. ViewsPassed'
    BY <2>1, ReadersKept DEF ring
  <2>4. OwnersActive'
    BY <2>1, OwnersKept DEF registry, readers, writers
  <2>5. Tokens'
    BY <2>1, <2>2, TokensKept DEF ring, readers
  <2> QED
    BY <1>1, <2>2, <2>3, <2>4, <2>5 DEF RingInv
<1> QED
  BY <1>2, <1>3, <1>4, <1>5, <1>6 DEF Next, ReceiverStep, AppStep, ReceiverMove

(* The ring invariant holds in every reachable state, whatever the number  *)
(* of processes, threads and slots, with late registration and with views  *)
(* released in any order.                                                  *)
THEOREM RingInvariant == Spec => []RingInv
BY RingInit, RingStep, PTL DEF Spec

(* The types of the shared block and of the threads' locals. *)
THEOREM TypesHold == Spec => []TypeOK
<1>1. RingInv => TypeOK
  BY DEF RingInv
<1> QED
  BY RingInvariant, <1>1, PTL

(* Two threads inside send never fill the same slot of the ring. *)
THEOREM SendersApart == Spec => []WritersApart
BY RingInvariant, Apart, PTL

(* Every slot of a published ticket was filled with it or a later one. *)
THEOREM StreamContiguous == Spec => []PublishedStamped
<1>1. RingInv => PublishedStamped
  BY DEF RingInv
<1> QED
  BY RingInvariant, <1>1, PTL

(* A reader never has a view of a message that is not published. *)
THEOREM ReadsPublished == Spec => []OnlyPublished
<1>1. RingInv => OnlyPublished
  <2> SUFFICES ASSUME RingInv, NEW c \in Clients, NEW v \in Views(c)
               PROVE  v <= publish_sequence_id
    BY DEF OnlyPublished
  <2>1. ViewsOf(c) /\ TokensOf(c)
    BY DEF RingInv, ViewsPassed, Tokens
  <2>2. /\ next_sequence_to_read[c] \in Nat /\ client_sem[c] \in Nat
        /\ data[c] \in Seq(Nat) /\ publish_sequence_id \in Nat
        /\ held[Rx(c)] \in Nat /\ held[App(c)] \in Nat
    BY ThreadsOfClient DEF RingInv, TypeOK, NicTypes, RegistryTypes, RingTypes,
       ThreadTypes, Rx, App
  <2>3. next_sequence_to_read[c] <= publish_sequence_id + 1
    BY <2>1, <2>2, NotifyingFinite DEF TokensOf
  <2>4. v = held[Rx(c)] \/ v = held[App(c)] \/ \E n \in DOMAIN data[c] : v = data[c][n]
    BY DEF Views, Rx, App
  <2> QED
    BY <2>1, <2>2, <2>3, <2>4 DEF ViewsOf
<1> QED
  BY RingInvariant, <1>1, PTL

-----------------------------------------------------------------------------
(***************************************************************************)
(* What the ring owes a process: the messages it has not given up.         *)
(***************************************************************************)

Attached(c) == pc[Rx(c)] # "off"

(* One of the views of process c is of message n. *)
Keeps(c, n) ==
    \/ n = held[Rx(c)] \/ n = held[App(c)]
    \/ \E m \in DOMAIN data[c] : n = data[c][m]

(* The slowest reader a writer has found is behind what every process it   *)
(* has looked at has given up; a process that registered after the ticket  *)
(* was claimed has given that ticket up.                                   *)
SlowestBehind ==
    \A w \in Writers, c \in Clients :
        /\ Attached(c)
        /\ wpc[w] \in Filling \/ (wpc[w] = "scan" /\ c < wi[w])
        => slowest[w] <= given_up[c] \/ ticket[w] <= given_up[c]

(* What a process has not given up is still in the ring. *)
UnreadKept ==
    \A c \in Clients : Attached(c) =>
        \A n \in 1 .. publish_sequence_id : given_up[c] < n => ShowsFrame(n)

(* A process stores in last_read only what it gives up, and has a view of  *)
(* everything that it has received since and not given up.                 *)
NothingLost(c) ==
    Attached(c) =>
        /\ last_read[c] <= given_up[c]
        /\ \A n \in Nat :
              given_up[c] < n /\ n < next_sequence_to_read[c] => Keeps(c, n)

(* QueueInOrder, for one process. *)
QueueOf(c) ==
    /\ \A n \in DOMAIN data[c] :
          /\ held[App(c)] < data[c][n]
          /\ held[Rx(c)] # 0 => data[c][n] < held[Rx(c)]
          /\ \A m \in DOMAIN data[c] : m < n => data[c][m] < data[c][n]
    /\ held[Rx(c)] # 0 => held[App(c)] < held[Rx(c)]

Processes == \A c \in Clients : NothingLost(c) /\ QueueOf(c)

StreamInv == SlowestBehind /\ UnreadKept /\ Processes

-----------------------------------------------------------------------------
(* The types the steps below need. *)
LEMMA StreamTypes ==
    ASSUME RingInv
    PROVE  /\ \A c \in Clients : /\ c \in Nat /\ c < MAX_CLIENTS
                                  /\ last_read[c] \in Nat /\ given_up[c] \in Nat
                                  /\ next_sequence_to_read[c] \in Nat
                                  /\ data[c] \in Seq(Nat)
                                  /\ held[Rx(c)] \in Nat /\ held[App(c)] \in Nat
           /\ ThreadTypes /\ claim_sequence_id \in Nat /\ publish_sequence_id \in Nat
           /\ ticket \in [Writers -> Nat] /\ wpc \in [Writers -> WriterStates]
           /\ slowest \in [Writers -> Nat] /\ wi \in [Writers -> 0 .. MAX_CLIENTS]
           /\ last_read \in [Clients -> Nat] /\ data \in [Clients -> Seq(Nat)]
           /\ next_sequence_to_read \in [Clients -> Nat]
           /\ given_up \in [Clients -> Nat]
<1>1. \A c \in Clients : c \in Nat /\ c < MAX_CLIENTS
  BY SizesAssumption DEF Clients
<1>2. \A c \in Clients : held[Rx(c)] \in Nat /\ held[App(c)] \in Nat
  BY ThreadsOfClient DEF RingInv, TypeOK, ThreadTypes, Rx, App
<1> QED
  BY <1>1, <1>2 DEF RingInv, TypeOK, RegistryTypes, NicTypes, RingTypes, WriterTypes

(* Views and Keeps say the same of every ticket. *)
LEMMA ViewsKeep ==
    ASSUME RingInv, NEW c \in Clients, NEW n \in Nat, n # 0
    PROVE  n \in Views(c) <=> Keeps(c, n)
BY DEF Views, Keeps, Rx, App

(* A process has no view of message 0. *)
LEMMA ViewsCounted ==
    ASSUME RingInv, NEW c \in Clients, NEW v \in Views(c)
    PROVE  v \in Nat /\ v # 0
<1>1. CASE v = held[Rx(c)] \/ v = held[App(c)]
  <2>1. v # 0 \/ \E m \in DOMAIN data[c] : v = data[c][m]
    BY DEF Views, Rx, App
  <2> QED
    BY <1>1, <2>1, StreamTypes DEF RingInv, ViewsPassed, ViewsOf
<1>2. CASE \E m \in DOMAIN data[c] : v = data[c][m]
  BY <1>2, StreamTypes DEF RingInv, ViewsPassed, ViewsOf
<1> QED
  BY <1>1, <1>2 DEF Views, Rx, App

(* Steps that leave the ring and the writers alone keep what they owe to   *)
(* the processes, as long as nobody takes back what it gave up.            *)
LEMMA OwedKept ==
    ASSUME RingInv, StreamInv, UNCHANGED <<ring, writers>>,
           \A c \in Clients : Attached(c)' =>
               Attached(c) /\ given_up'[c] \in Nat /\ given_up[c] <= given_up'[c]
    PROVE  SlowestBehind' /\ UnreadKept'
<1>1. SlowestBehind'
  <2> SUFFICES ASSUME NEW w \in Writers, NEW c \in Clients, Attached(c)',
                      (wpc[w] \in Filling \/ (wpc[w] = "scan" /\ c < wi[w]))'
               PROVE  (slowest[w] <= given_up[c] \/ ticket[w] <= given_up[c])'
    BY DEF SlowestBehind
  <2>1. slowest[w] <= given_up[c] \/ ticket[w] <= given_up[c]
    BY DEF StreamInv, SlowestBehind, writers
  <2>2. /\ UNCHANGED <<slowest, ticket>> /\ given_up[c] <= given_up'[c]
        /\ given_up'[c] \in Nat /\ given_up[c] \in Nat
        /\ slowest[w] \in Nat /\ ticket[w] \in Nat
    BY StreamTypes DEF writers
  <2> QED
    BY <2>1, <2>2
<1>2. UnreadKept'
  BY StreamTypes DEF StreamInv, UnreadKept, ShowsFrame, ring
<1> QED
  BY <1>1, <1>2

(* A step of process c leaves the queues of the others alone. *)
LEMMA OneQueue ==
    ASSUME Processes, NEW c \in Clients, \A d \in Clients \ {c} : Untouched(d),
           NothingLost(c)', QueueOf(c)'
    PROVE  Processes'
<1>1. ASSUME NEW d \in Clients \ {c} PROVE NothingLost(d)' /\ QueueOf(d)'
  <2>1. NothingLost(d) /\ QueueOf(d) /\ Untouched(d)
    BY DEF Processes
  <2>2. \A n : Keeps(d, n)' <=> Keeps(d, n)
    BY <2>1 DEF Untouched, Keeps
  <2> QED
    BY <2>1, <2>2 DEF Untouched, NothingLost, QueueOf, Attached
<1> QED
  BY <1>1 DEF Processes

-----------------------------------------------------------------------------
(* A writer that fills a slot stays off everything that is owed. *)
LEMMA StaysOff ==
    ASSUME RingInv, StreamInv, NEW w \in Writers, wpc[w] \in Filling,
           NEW c \in Clients, Attached(c),
           NEW n \in 1 .. publish_sequence_id, given_up[c] < n
    PROVE  n \in Nat /\ SlotOf(n) # SlotOf(ticket[w])
<1>1. ticket[w] > publish_sequence_id /\ ticket[w] - slowest[w] < BUFFER_SLOTS
  BY DEF RingInv, TicketsDistinct, NoLap, Filling, Unpublished
<1>2. slowest[w] <= given_up[c]
  BY <1>1, StreamTypes DEF StreamInv, SlowestBehind
<1>3. n \in Nat /\ n < ticket[w] /\ ticket[w] - n < BUFFER_SLOTS
  BY <1>1, <1>2, StreamTypes, SizesAssumption
<1> QED
  BY <1>3, StreamTypes, SlotsDiffer

(* send keeps the stream: a writer that found room stays off what is owed. *)
LEMMA SendStream ==
    ASSUME RingInv, StreamInv, NEW w \in Writers, Claim(w) \/ SendStep(w)
    PROVE  StreamInv'
<1> USE StreamTypes
<1>0. UNCHANGED <<pc, held, next_sequence_to_read, data, last_read, given_up>>
  BY DEF Claim, SendStep, ScanReader, PassCheck, FailCheck, SetBlocked, WakeUp,
     WriteFrame, StampSlot, Publish, Notify, readers
<1>1. Processes'
  BY <1>0 DEF StreamInv, Processes, NothingLost, QueueOf, Keeps, Attached
<1>2. SlowestBehind'
  <2> USE <1>0 DEF StreamInv, SlowestBehind, Attached, Filling, WriterGoes
  <2>1. CASE Claim(w)
    BY <2>1 DEF Claim
  <2>2. CASE ScanReader(w)
    <3>1. /\ wi[w] \in Clients /\ wpc[w] = "scan"
          /\ slowest'[w] = IF is_active[wi[w]] /\ last_read[wi[w]] < slowest[w]
                           THEN last_read[wi[w]] ELSE slowest[w]
          /\ wi'[w] = wi[w] + 1 /\ UNCHANGED <<wpc, ticket>>
      BY <2>2, ScanIndex DEF ScanReader
    <3>2. \A x \in Writers : x # w => slowest'[x] = slowest[x] /\ wi'[x] = wi[x]
      BY <2>2 DEF ScanReader
    <3>3. ASSUME NEW c \in Clients, Attached(c), c < wi[w] + 1
          PROVE  slowest'[w] <= given_up[c] \/ ticket[w] <= given_up[c]
      <4>1. CASE c < wi[w]
        BY <4>1, <3>1, <3>3
      <4>2. CASE c = wi[w]
        <5>1. is_active[c] /\ last_read[c] <= given_up[c]
          BY <3>3 DEF RingInv, OwnersActive, Processes, NothingLost
        <5> QED
          BY <5>1, <4>2, <3>1
      <4> QED
        BY <4>1, <4>2, <3>1, <3>3
    <3> QED
      BY <3>1, <3>2, <3>3
  <2>3. CASE PassCheck(w)
    BY <2>3 DEF PassCheck
  <2>4. CASE WakeUp(w)
    BY <2>4 DEF WakeUp
  <2>5. CASE FailCheck(w) \/ SetBlocked(w)
    BY <2>5 DEF FailCheck, SetBlocked
  <2>6. CASE WriteFrame(w) \/ StampSlot(w)
    BY <2>6 DEF WriteFrame, StampSlot
  <2>7. CASE Publish(w) \/ Notify(w)
    BY <2>7 DEF Publish, Notify
  <2> QED
    BY <2>1, <2>2, <2>3, <2>4, <2>5, <2>6, <2>7 DEF SendStep
<1>3. UnreadKept'
  <2>1. CASE WriteFrame(w) \/ StampSlot(w)
    <3>1. wpc[w] \in Filling /\ UNCHANGED publish_sequence_id
      BY <2>1 DEF WriteFrame, StampSlot, WriterGoes, Filling
    <3>2. \A n \in Nat : SlotOf(n) # SlotOf(ticket[w])
                           => frame'[SlotOf(n)] = frame[SlotOf(n)]
                              /\ sequence_id'[SlotOf(n)] = sequence_id[SlotOf(n)]
      BY <2>1, SlotIndex DEF WriteFrame, StampSlot, RingInv, TypeOK, RingTypes
    <3>3. ASSUME NEW c \in Clients, Attached(c), NEW n \in 1 .. publish_sequence_id,
                 given_up[c] < n
          PROVE  ShowsFrame(n)'
      <4>1. n \in Nat /\ SlotOf(n) # SlotOf(ticket[w])
        BY <3>1, <3>3, StaysOff
      <4>2. ShowsFrame(n)
        BY <3>3 DEF StreamInv, UnreadKept
      <4> QED
        BY <4>1, <4>2, <3>2 DEF ShowsFrame
    <3> QED
      BY <1>0, <3>1, <3>3 DEF UnreadKept, Attached
  <2>2. CASE Publish(w)
    <3>1. /\ publish_sequence_id' = ticket[w] /\ publish_sequence_id = ticket[w] - 1
          /\ ShowsFrame(ticket[w]) /\ UNCHANGED <<frame, sequence_id>>
      BY <2>2 DEF Publish, WriterGoes, RingInv, FilledSlot, ShowsFrame
    <3>2. \A n \in 1 .. ticket[w] : n = ticket[w] \/ n \in 1 .. ticket[w] - 1
      OBVIOUS
    <3> QED
      BY <1>0, <3>1, <3>2 DEF StreamInv, UnreadKept, ShowsFrame, Attached
  <2>3. CASE UNCHANGED <<publish_sequence_id, frame, sequence_id>>
    BY <1>0, <2>3 DEF StreamInv, UnreadKept, ShowsFrame, Attached
  <2> QED
    BY <2>1, <2>2, <2>3 DEF SendStep, Claim, ScanReader, PassCheck, FailCheck,
       SetBlocked, WakeUp, Notify, ring
<1> QED
  BY <1>1, <1>2, <1>3 DEF StreamInv

(* The receiver thread and the application keep the stream: what is taken  *)
(* from the ring is held or queued, in order, until it is freed.           *)
LEMMA ReceiverStream ==
    ASSUME RingInv, StreamInv, NEW c \in Clients, ReceiverMove(c)
    PROVE  StreamInv'
<1> USE StreamTypes
<1>0. /\ \A d \in Clients \ {c} : Untouched(d)
      /\ UNCHANGED <<ring, writers, last_read, given_up>>
      /\ Attached(c) /\ Attached(c)'
  <2>1. UNCHANGED <<ring, writers, last_read, given_up>>
    BY DEF ReceiverMove, ReceiverLoop, ReceiveWait, ReceiveView, ReceiveMismatch,
       QueueIncomingBuffer, FreeAtOnce, PopBuffer, CopyMessage
  <2>2. /\ \A d \in Clients \ {c} : pc'[Rx(d)] = pc[Rx(d)] /\ pc'[App(d)] = pc[App(d)]
        /\ Attached(c) /\ Attached(c)'
    <3>1. CASE \E from, to \in RxStates \cup ReleaseStates :
                  from # "off" /\ to # "off" /\ ThreadGoes(<<c, "rx">>, from, to)
      BY <3>1, RxGoes DEF RxMoves, Attached
    <3>2. CASE \E from, to : from # "off" /\ ThreadGoes(<<c, "app">>, from, to)
      <4>1. PICK from, to : from # "off" /\ ThreadGoes(<<c, "app">>, from, to)
        BY <3>2
      <4>2. AppMoves(c, from, to)
        BY <4>1, AppGoes
      <4> QED
        BY <4>1, <4>2 DEF AppMoves, Attached, RingInv, ViewsPassed, ViewsOf
    <3> QED
      BY <3>1, <3>2 DEF ReceiverMove, ReceiverLoop, ReceiveWait, ReceiveView,
         ReceiveMismatch, QueueIncomingBuffer, FreeAtOnce, PopBuffer, CopyMessage,
         RxStates, ReleaseStates
  <2>3. \A d \in Clients \ {c} : held'[Rx(d)] = held[Rx(d)] /\ held'[App(d)] = held[App(d)]
    <3>1. CASE UNCHANGED held
      BY <3>1
    <3>2. CASE \E v : held' = [held EXCEPT ![<<c, "rx">>] = v]
      BY <3>2, RxTakes DEF RxHolds
    <3>3. CASE \E v : held' = [held EXCEPT ![<<c, "app">>] = v]
      BY <3>3, AppTakes DEF AppHolds
    <3> QED
      BY <3>1, <3>2, <3>3 DEF ReceiverMove, ReceiverLoop, ReceiveWait, ReceiveView,
         ReceiveMismatch, QueueIncomingBuffer, FreeAtOnce, PopBuffer, CopyMessage
  <2>4. \A d \in Clients \ {c} : /\ next_sequence_to_read'[d] = next_sequence_to_read[d]
                                  /\ client_sem'[d] = client_sem[d] /\ data'[d] = data[d]
    BY DEF ReceiverMove, ReceiverLoop, ReceiveWait, ReceiveView,
       ReceiveMismatch, QueueIncomingBuffer, FreeAtOnce, PopBuffer, CopyMessage,
       RingInv, TypeOK, RegistryTypes
  <2> QED
    BY <2>1, <2>2, <2>3, <2>4 DEF Untouched
<1>1. SlowestBehind' /\ UnreadKept'
  <2>1. \A d \in Clients : Attached(d)' => Attached(d)
    BY <1>0 DEF Untouched, Attached
  <2> QED
    BY <1>0, <2>1, OwedKept
<1>2. NothingLost(c) /\ QueueOf(c) /\ ViewsOf(c)
  BY DEF StreamInv, Processes, RingInv, ViewsPassed
<1>3. CASE ReceiveView(c)
  <2>1. /\ RxHolds(c, next_sequence_to_read[c]) /\ held[Rx(c)] = 0
        /\ next_sequence_to_read'[c] = next_sequence_to_read[c] + 1 /\ UNCHANGED data
    <3>1. pc[Rx(c)] = "check"
      BY <1>3 DEF ReceiveView, ThreadGoes, Rx
    <3>2. held[Rx(c)] = 0
      BY <3>1, <1>2 DEF ViewsOf, Releasing
    <3> QED
      BY <1>3, <3>2, RxTakes DEF ReceiveView
  <2>2. NothingLost(c)'
    <3>1. ASSUME NEW n \in Nat, given_up[c] < n, n < next_sequence_to_read[c] + 1
          PROVE  Keeps(c, n)'
      <4>1. CASE n = next_sequence_to_read[c]
        BY <4>1, <2>1 DEF Keeps, RxHolds
      <4>2. CASE n < next_sequence_to_read[c]
        <5>1. Keeps(c, n) /\ n # 0
          BY <4>2, <3>1, <1>0, <1>2 DEF NothingLost
        <5> QED
          BY <5>1, <2>1 DEF Keeps, RxHolds
      <4> QED
        BY <4>1, <4>2, <3>1
    <3>2. last_read'[c] <= given_up'[c]
      BY <1>0, <1>2 DEF NothingLost
    <3> QED
      BY <1>0, <2>1, <3>1, <3>2 DEF NothingLost
  <2>3. QueueOf(c)'
    BY <2>1, <1>2 DEF QueueOf, RxHolds, ViewsOf
  <2> QED
    BY <1>0, <1>1, <2>2, <2>3, OneQueue DEF StreamInv
<1>4. CASE QueueIncomingBuffer(c)
  <2>1. /\ RxHolds(c, 0) /\ held[Rx(c)] # 0 /\ UNCHANGED next_sequence_to_read
        /\ data'[c] = Append(data[c], held[Rx(c)])
    <3>1. pc[Rx(c)] = "deliver"
      BY <1>4 DEF QueueIncomingBuffer, ThreadGoes, Rx
    <3> QED
      BY <1>4, <3>1, <1>2, RxTakes DEF QueueIncomingBuffer, ViewsOf, Rx
  <2>2. /\ DOMAIN data[c] = 1 .. Len(data[c]) /\ Len(data[c]) \in Nat
        /\ DOMAIN data'[c] = 1 .. Len(data[c]) + 1
        /\ \A m \in DOMAIN data[c] : data'[c][m] = data[c][m]
        /\ data'[c][Len(data[c]) + 1] = held[Rx(c)]
    BY <2>1
  <2>3. NothingLost(c)'
    <3>1. ASSUME NEW n \in Nat, n # 0, Keeps(c, n) PROVE Keeps(c, n)'
      <4>1. CASE n = held[Rx(c)]
        <5>1. Len(data[c]) + 1 \in DOMAIN data'[c]
          BY <2>2
        <5> QED
          BY <4>1, <5>1, <2>2 DEF Keeps
      <4>2. CASE n = held[App(c)]
        BY <4>2, <2>1 DEF Keeps, RxHolds
      <4>3. CASE \E m \in DOMAIN data[c] : n = data[c][m]
        <5>1. PICK m \in DOMAIN data[c] : n = data[c][m]
          BY <4>3
        <5>2. m \in DOMAIN data'[c] /\ data'[c][m] = n
          BY <5>1, <2>2
        <5> QED
          BY <5>2 DEF Keeps
      <4> QED
        BY <3>1, <4>1, <4>2, <4>3 DEF Keeps
    <3> QED
      BY <1>0, <1>2, <2>1, <3>1 DEF NothingLost
  <2>4. QueueOf(c)'
    BY <2>1, <2>2, <1>2 DEF QueueOf, RxHolds
  <2> QED
    BY <1>0, <1>1, <2>3, <2>4, OneQueue DEF StreamInv
<1>5. CASE PopBuffer(c)
  <2>1. /\ AppHolds(c, data[c][1]) /\ held[App(c)] = 0 /\ UNCHANGED next_sequence_to_read
        /\ data'[c] = Tail(data[c]) /\ data[c] # <<>>
    <3>1. pc[App(c)] = "idle"
      BY <1>5 DEF PopBuffer, ThreadGoes, App
    <3>2. held[App(c)] = 0
      BY <3>1, <1>2 DEF ViewsOf, Releasing
    <3>3. AppHolds(c, Head(data[c]))
      BY <1>5, AppTakes DEF PopBuffer
    <3>4. data[c] # <<>> /\ data[c] \in Seq(Nat)
      BY <1>5 DEF PopBuffer
    <3>5. Head(data[c]) = data[c][1]
      BY <3>4
    <3> QED
      BY <1>5, <3>2, <3>3, <3>4, <3>5 DEF PopBuffer
  <2>2. /\ DOMAIN data[c] = 1 .. Len(data[c]) /\ Len(data[c]) \in Nat /\ Len(data[c]) # 0
        /\ DOMAIN data'[c] = 1 .. Len(data[c]) - 1
        /\ \A m \in 1 .. Len(data[c]) - 1 : data'[c][m] = data[c][m + 1]
    BY <2>1
  <2>3. NothingLost(c)'
    <3>1. ASSUME NEW n \in Nat, n # 0, Keeps(c, n) PROVE Keeps(c, n)'
      <4>1. CASE n = held[Rx(c)]
        BY <4>1, <2>1 DEF Keeps, AppHolds
      <4>2. CASE \E m \in DOMAIN data[c] : n = data[c][m]
        <5>1. PICK m \in DOMAIN data[c] : n = data[c][m]
          BY <4>2
        <5>2. CASE m = 1
          BY <5>1, <5>2, <2>1 DEF Keeps, AppHolds
        <5>3. CASE m # 1
          <6>1. m - 1 \in DOMAIN data'[c] /\ data'[c][m - 1] = n
            BY <5>1, <5>3, <2>2
          <6> QED
            BY <6>1 DEF Keeps
        <5> QED
          BY <5>2, <5>3
      <4> QED
        BY <3>1, <4>1, <4>2, <2>1 DEF Keeps
    <3> QED
      BY <1>0, <1>2, <2>1, <3>1 DEF NothingLost
  <2>4. QueueOf(c)'
    <3>1. /\ \A m \in 1 .. Len(data[c]) - 1 : m + 1 \in DOMAIN data[c] /\ 1 < m + 1
          /\ 1 \in DOMAIN data[c]
      BY <2>2
    <3>2. held'[App(c)] = data[c][1] /\ held'[Rx(c)] = held[Rx(c)]
      BY <2>1 DEF AppHolds
    <3>3. ASSUME NEW n \in DOMAIN data'[c]
          PROVE  /\ held'[App(c)] < data'[c][n]
                 /\ held'[Rx(c)] # 0 => data'[c][n] < held'[Rx(c)]
                 /\ \A m \in DOMAIN data'[c] : m < n => data'[c][m] < data'[c][n]
      <4>1. /\ n \in 1 .. Len(data[c]) - 1 /\ data'[c][n] = data[c][n + 1]
            /\ n + 1 \in DOMAIN data[c] /\ 1 < n + 1
        BY <2>2, <3>1
      <4>2. ASSUME NEW m \in DOMAIN data'[c], m < n PROVE data'[c][m] < data'[c][n]
        <5>1. m \in 1 .. Len(data[c]) - 1 /\ m \in Nat /\ n \in Nat
          BY <4>1, <2>2
        <5>2. m + 1 < n + 1
          BY <5>1, <4>2
        <5>3. data'[c][m] = data[c][m + 1] /\ m + 1 \in DOMAIN data[c]
          BY <5>1, <2>2, <3>1
        <5> QED
          BY <4>1, <5>2, <5>3, <1>2 DEF QueueOf
      <4> QED
        BY <4>1, <4>2, <3>1, <3>2, <1>2 DEF QueueOf
    <3>4. held'[Rx(c)] # 0 => held'[App(c)] < held'[Rx(c)]
      BY <3>1, <3>2, <1>2 DEF QueueOf
    <3> QED
      BY <3>3, <3>4 DEF QueueOf
  <2> QED
    BY <1>0, <1>1, <2>3, <2>4, OneQueue DEF StreamInv
<1>6. CASE UNCHANGED <<held, data, next_sequence_to_read>>
  <2>1. NothingLost(c)' /\ QueueOf(c)'
    BY <1>0, <1>2, <1>6 DEF NothingLost, QueueOf, Keeps
  <2> QED
    BY <1>0, <1>1, <2>1, OneQueue DEF StreamInv
<1> QED
  BY <1>3, <1>4, <1>5, <1>6 DEF ReceiverMove, ReceiverLoop, ReceiveWait,
     ReceiveMismatch, FreeAtOnce, CopyMessage

(* Freeing view v of process c: what happens to the two locals and to      *)
(* given_up, whichever thread does it.                                     *)
Frees(c, v) ==
    /\ v # 0 /\ Keeps(c, v)
    /\ \A d \in Clients \ {c} : Untouched(d)
    /\ last_read'[c] = v
    /\ given_up'[c] = IF v > given_up[c] THEN v ELSE given_up[c]
    /\ \A n \in Nat : n # 0 /\ n # v /\ Keeps(c, n) => Keeps(c, n)'
    /\ UNCHANGED <<ring, writers, next_sequence_to_read, data>>
    /\ Attached(c) /\ Attached(c)'

(* release_frame keeps the stream: storing any id gives up that message    *)
(* and the earlier ones, and takes nothing back.                           *)
LEMMA FreesStream ==
    ASSUME RingInv, StreamInv, NEW c \in Clients, NEW v \in Nat, Frees(c, v),
           QueueOf(c)'
    PROVE  StreamInv'
<1> USE StreamTypes
<1>1. /\ given_up[c] <= given_up'[c] /\ v <= given_up'[c] /\ given_up'[c] \in Nat
      /\ given_up[c] \in Nat
  BY DEF Frees
<1>2. SlowestBehind' /\ UnreadKept'
  <2>1. ASSUME NEW d \in Clients, Attached(d)'
        PROVE  Attached(d) /\ given_up'[d] \in Nat /\ given_up[d] <= given_up'[d]
    <3>1. CASE d = c
      BY <3>1, <1>1 DEF Frees
    <3>2. CASE d # c
      <4>1. Untouched(d)
        BY <3>2 DEF Frees
      <4> QED
        BY <2>1, <4>1 DEF Untouched, Attached
    <3> QED
      BY <3>1, <3>2
  <2> QED
    BY <2>1, OwedKept DEF Frees
<1>3. NothingLost(c)'
  <2>1. NothingLost(c)
    BY DEF StreamInv, Processes
  <2>2. ASSUME NEW n \in Nat, given_up'[c] < n, n < next_sequence_to_read[c]
        PROVE  Keeps(c, n)'
    <3>1. n # 0 /\ n # v /\ given_up[c] < n
      BY <2>2, <1>1
    <3> QED
      BY <3>1, <2>1, <2>2 DEF NothingLost, Frees
  <2> QED
    BY <2>2, <1>1 DEF NothingLost, Frees
<1>4. Processes'
  BY <1>3, OneQueue DEF StreamInv, Frees
<1> QED
  BY <1>2, <1>4 DEF StreamInv

(* So the receiver thread's store is a release of the view it holds. *)
LEMMA RxFrees ==
    ASSUME RingInv, StreamInv, NEW c \in Clients, ReleaseStore(<<c, "rx">>)
    PROVE  Frees(c, held[Rx(c)]) /\ held[Rx(c)] \in Nat /\ QueueOf(c)'
<1> USE StreamTypes
<1>1. /\ RxMoves(c, pc[Rx(c)], IF i_am_the_slowest[Rx(c)] THEN "signal" ELSE "loop")
      /\ RxHolds(c, 0) /\ pc[Rx(c)] \in {"relscan", "store"}
  BY RxTakes DEF ReleaseStore, RxMoves, ThreadTypes, Threads, Rx, App, AfterRelease
<1>2. held[Rx(c)] # 0 /\ QueueOf(c)
  BY <1>1 DEF RingInv, ViewsPassed, ViewsOf, Releasing, StreamInv, Processes
<1>3. /\ last_read' = [last_read EXCEPT ![c] = held[Rx(c)]]
      /\ given_up' = [given_up EXCEPT ![c] = IF held[Rx(c)] > @ THEN held[Rx(c)] ELSE @]
      /\ UNCHANGED <<ring, writers, next_sequence_to_read, data, client_sem>>
  BY DEF ReleaseStore, Rx
<1>4. \A d \in Clients \ {c} : Untouched(d)
  BY <1>1, <1>3 DEF RxMoves, RxHolds, Untouched
<1>5. Attached(c) /\ Attached(c)'
  BY <1>1 DEF RxMoves, Attached
<1>6. \A n \in Nat : n # 0 /\ n # held[Rx(c)] /\ Keeps(c, n) => Keeps(c, n)'
  BY <1>1, <1>3 DEF RxHolds, Keeps
<1>7. QueueOf(c)'
  BY <1>1, <1>2, <1>3 DEF RxHolds, QueueOf
<1> QED
  BY <1>2, <1>3, <1>4, <1>5, <1>6, <1>7 DEF Frees, Keeps

(* And so is the application's. *)
LEMMA AppFrees ==
    ASSUME RingInv, StreamInv, NEW c \in Clients, ReleaseStore(<<c, "app">>)
    PROVE  Frees(c, held[App(c)]) /\ held[App(c)] \in Nat /\ QueueOf(c)'
<1> USE StreamTypes
<1>1. /\ AppMoves(c, pc[App(c)], IF i_am_the_slowest[App(c)] THEN "signal" ELSE "idle")
      /\ AppHolds(c, 0) /\ pc[App(c)] \in {"relscan", "store"}
  BY AppTakes DEF ReleaseStore, AppMoves, ThreadTypes, Threads, Rx, App, AfterRelease
<1>2. held[App(c)] # 0 /\ QueueOf(c) /\ ViewsOf(c)
  BY <1>1 DEF RingInv, ViewsPassed, ViewsOf, Releasing, StreamInv, Processes
<1>3. /\ last_read' = [last_read EXCEPT ![c] = held[App(c)]]
      /\ given_up' = [given_up EXCEPT ![c] = IF held[App(c)] > @ THEN held[App(c)] ELSE @]
      /\ UNCHANGED <<ring, writers, next_sequence_to_read, data, client_sem>>
  BY DEF ReleaseStore, App
<1>4. \A d \in Clients \ {c} : Untouched(d)
  BY <1>1, <1>3 DEF AppMoves, AppHolds, Untouched
<1>5. Attached(c) /\ Attached(c)'
  BY <1>1, <1>2 DEF AppMoves, Attached, ViewsOf
<1>6. \A n \in Nat : n # 0 /\ n # held[App(c)] /\ Keeps(c, n) => Keeps(c, n)'
  BY <1>1, <1>3 DEF AppHolds, Keeps
<1>7. QueueOf(c)'
  BY <1>1, <1>2, <1>3 DEF AppHolds, QueueOf, ViewsOf
<1> QED
  BY <1>2, <1>3, <1>4, <1>5, <1>6, <1>7 DEF Frees, Keeps

(* The other steps of release_frame change neither views nor last_read. *)
LEMMA ReleaseQuiet ==
    ASSUME RingInv, NEW c \in Clients, NEW k \in {"rx", "app"},
           ReleaseReadFlag(<<c, k>>) \/ ReleaseReadOwn(<<c, k>>)
             \/ ReleaseScan(<<c, k>>) \/ ReleaseSignal(<<c, k>>)
    PROVE  /\ UNCHANGED <<ring, writers, last_read, given_up, held, data,
                           next_sequence_to_read>>
           /\ \A d \in Clients : Attached(d)' <=> Attached(d)
<1>1. UNCHANGED <<ring, writers, last_read, given_up, held, data, next_sequence_to_read>>
  BY DEF ReleaseReadFlag, ReleaseReadOwn, ReleaseScan, ReleaseSignal, readers
<1>2. \A d \in Clients : Attached(d)' <=> Attached(d)
  <2>1. CASE UNCHANGED pc
    BY <2>1 DEF Attached
  <2>2. CASE \E from, to \in {"rel", "relown", "relscan", "store", "signal", "loop", "idle"} :
                ThreadGoes(<<c, k>>, from, to)
    <3>1. PICK from, to \in {"rel", "relown", "relscan", "store", "signal", "loop", "idle"} :
             ThreadGoes(<<c, k>>, from, to)
      BY <2>2
    <3>2. CASE k = "rx"
      <4>1. RxMoves(c, from, to)
        BY <3>1, <3>2, RxGoes, StreamTypes
      <4> QED
        BY <3>1, <4>1 DEF RxMoves, Attached
    <3>3. CASE k = "app"
      <4>1. AppMoves(c, from, to)
        BY <3>1, <3>3, AppGoes, StreamTypes
      <4> QED
        BY <3>1, <4>1 DEF AppMoves, Attached
    <3> QED
      BY <3>2, <3>3
  <2> QED
    BY <2>1, <2>2 DEF ReleaseReadFlag, ReleaseReadOwn, ReleaseScan, ReleaseSignal,
       AfterRelease, readers
<1> QED
  BY <1>1, <1>2

(* release_frame keeps the stream, in either thread. *)
LEMMA ReleaseStream ==
    ASSUME RingInv, StreamInv, NEW c \in Clients,
           ReleaseStep(<<c, "rx">>) \/ ReleaseStep(<<c, "app">>)
    PROVE  StreamInv'
<1>1. CASE ReleaseStore(<<c, "rx">>)
  BY <1>1, RxFrees, FreesStream
<1>2. CASE ReleaseStore(<<c, "app">>)
  BY <1>2, AppFrees, FreesStream
<1>3. CASE /\ UNCHANGED <<ring, writers, last_read, given_up, held, data, next_sequence_to_read>>
           /\ \A d \in Clients : Attached(d)' <=> Attached(d)
  <2>1. SlowestBehind' /\ UnreadKept'
    BY <1>3, OwedKept, StreamTypes
  <2>2. Processes'
    BY <1>3 DEF StreamInv, Processes, NothingLost, QueueOf, Keeps
  <2> QED
    BY <2>1, <2>2 DEF StreamInv
<1> QED
  BY <1>1, <1>2, <1>3, ReleaseQuiet DEF ReleaseStep

(* A process that registers is owed nothing yet; one that leaves, nothing  *)
(* any more.                                                               *)
LEMMA RegistryStream ==
    ASSUME RingInv, StreamInv, NEW c \in Clients, RegistryStep(c)
    PROVE  StreamInv'
<1> USE StreamTypes
<1>1. CASE RegisterActivate(c) \/ Stop(c)
  <2>1. UNCHANGED <<ring, writers, last_read, given_up, pc, held, data, next_sequence_to_read>>
    BY <1>1 DEF RegisterActivate, Stop, readers
  <2>2. SlowestBehind' /\ UnreadKept'
    BY <2>1, OwedKept DEF Attached
  <2>3. Processes'
    BY <2>1 DEF StreamInv, Processes, NothingLost, QueueOf, Keeps, Attached
  <2> QED
    BY <2>2, <2>3 DEF StreamInv
<1>2. CASE RegisterStore(c)
  <2>1. /\ \A d \in Clients : pc'[Rx(d)] = IF d = c THEN "loop" ELSE pc[Rx(d)]
        /\ \A d \in Clients : pc'[App(d)] = IF d = c THEN "idle" ELSE pc[App(d)]
    BY <1>2 DEF RegisterStore, ThreadTypes, Threads, Rx, App
  <2>2. /\ given_up'[c] = claim_sequence_id - 1 /\ last_read'[c] = publish_sequence_id
        /\ next_sequence_to_read'[c] = 1
        /\ UNCHANGED <<ring, writers, held, data>>
        /\ \A d \in Clients \ {c} : Untouched(d)
    BY <1>2, <2>1 DEF RegisterStore, Untouched, RingInv, TypeOK, RegistryTypes
  <2>3. /\ publish_sequence_id <= claim_sequence_id - 1
        /\ \A w \in Writers : wpc[w] # "idle" => ticket[w] <= claim_sequence_id - 1
    BY DEF RingInv, TicketsDistinct
  <2>4. SlowestBehind'
    <3> SUFFICES ASSUME NEW w \in Writers, NEW d \in Clients, Attached(d)',
                        wpc[w] \in Filling \/ (wpc[w] = "scan" /\ d < wi[w])
                 PROVE  slowest[w] <= given_up'[d] \/ ticket[w] <= given_up'[d]
      BY <2>2 DEF SlowestBehind, writers
    <3>1. CASE d = c
      BY <3>1, <2>2, <2>3 DEF Filling
    <3>2. CASE d # c
      <4>1. Attached(d) /\ given_up'[d] = given_up[d]
        BY <3>2, <2>2 DEF Untouched, Attached
      <4> QED
        BY <4>1 DEF StreamInv, SlowestBehind
    <3> QED
      BY <3>1, <3>2
  <2>5. UnreadKept'
    <3> SUFFICES ASSUME NEW d \in Clients, Attached(d)', NEW n \in 1 .. publish_sequence_id,
                        given_up'[d] < n
                 PROVE  ShowsFrame(n)
      BY <2>2 DEF UnreadKept, ShowsFrame, ring
    <3>1. d # c
      BY <2>2, <2>3
    <3>2. Attached(d) /\ given_up'[d] = given_up[d]
      BY <3>1, <2>2 DEF Untouched, Attached
    <3> QED
      BY <3>2 DEF StreamInv, UnreadKept
  <2>6. NothingLost(c)'
    BY <2>2, <2>3 DEF NothingLost
  <2>7. QueueOf(c)'
    BY <2>2 DEF StreamInv, Processes, QueueOf
  <2> QED
    BY <2>2, <2>4, <2>5, <2>6, <2>7, OneQueue DEF StreamInv
<1>3. CASE Deregister(c)
  <2>1. /\ \A d \in Clients : pc'[Rx(d)] = IF d = c THEN "off" ELSE pc[Rx(d)]
        /\ \A d \in Clients : pc'[App(d)] = IF d = c THEN "off" ELSE pc[App(d)]
    BY <1>3 DEF Deregister, ThreadTypes, Threads, Rx, App
  <2>2. /\ UNCHANGED <<ring, writers, held>> /\ data'[c] = <<>>
        /\ \A d \in Clients \ {c} : Untouched(d)
    BY <1>3, <2>1 DEF Deregister, Untouched
  <2>3. SlowestBehind' /\ UnreadKept'
    <3>1. \A d \in Clients : Attached(d)' => Attached(d) /\ given_up'[d] = given_up[d]
      BY <2>1, <2>2 DEF Attached, Untouched
    <3> QED
      BY <2>2, <3>1, OwedKept
  <2>4. NothingLost(c)'
    BY <2>1 DEF NothingLost, Attached
  <2>5. QueueOf(c)'
    BY <2>2 DEF StreamInv, Processes, QueueOf
  <2> QED
    BY <2>2, <2>3, <2>4, <2>5, OneQueue DEF StreamInv
<1> QED
  BY <1>1, <1>2, <1>3 DEF RegistryStep

-----------------------------------------------------------------------------
(* Nobody is attached in the freshly bootstrapped block. *)
LEMMA StreamInit == Init => StreamInv
<1> SUFFICES ASSUME Init PROVE StreamInv
  OBVIOUS
<1>1. \A c \in Clients : /\ pc[Rx(c)] = "off" /\ data[c] = <<>>
                         /\ held[Rx(c)] = 0 /\ held[App(c)] = 0
  BY ThreadsOfClient DEF Init, Rx, App
<1> QED
  BY <1>1 DEF StreamInv, SlowestBehind, UnreadKept, Processes, NothingLost, QueueOf,
     Attached

(* Every step keeps the stream. *)
LEMMA StreamStep == RingInv /\ StreamInv /\ [Next]_vars => StreamInv'
<1> SUFFICES ASSUME RingInv, StreamInv, [Next]_vars PROVE StreamInv'
  OBVIOUS
<1>1. CASE \E w \in Writers : Claim(w) \/ SendStep(w)
  BY <1>1, SendStream
<1>2. CASE \E c \in Clients : RegistryStep(c)
  BY <1>2, RegistryStream
<1>3. CASE \E c \in Clients : ReceiverMove(c)
  BY <1>3, ReceiverStream
<1>4. CASE \E c \in Clients : ReleaseStep(<<c, "rx">>) \/ ReleaseStep(<<c, "app">>)
  BY <1>4, ReleaseStream
<1>5. CASE UNCHANGED vars
  BY <1>5 DEF vars, ring, writers, readers, StreamInv, SlowestBehind, UnreadKept,
     ShowsFrame, Processes, NothingLost, QueueOf, Keeps, Attached
<1> QED
  BY <1>1, <1>2, <1>3, <1>4, <1>5 DEF Next, ReceiverStep, AppStep, ReceiverMove

(* In every reachable state of send, receive_zerocopy and release_frame,   *)
(* with late registration and views freed in any order by either thread,   *)
(* everything a process has not given up is in the ring and in its hands.  *)
THEOREM StreamInvariant == Spec => [](RingInv /\ StreamInv)
<1>1. Init => RingInv /\ StreamInv
  BY RingInit, StreamInit
<1>2. RingInv /\ StreamInv /\ [Next]_vars => RingInv' /\ StreamInv'
  BY RingStep, StreamStep
<1> QED
  BY <1>1, <1>2, PTL DEF Spec

(* The views of a message its process has not given up show that message. *)
LEMMA KeptFromStream == RingInv /\ StreamInv /\ OnlyPublished => ViewKept
<1> SUFFICES ASSUME RingInv, StreamInv, OnlyPublished, NEW c \in Clients,
                    NEW v \in Views(c), v > given_up[c]
             PROVE  ShowsFrame(v)
  BY DEF ViewKept
<1>1. v \in 1 .. publish_sequence_id
  BY ViewsCounted, StreamTypes DEF OnlyPublished
<1>2. Attached(c)
  <2>1. CASE ~Attached(c)
    <3>1. held[Rx(c)] = 0 /\ held[App(c)] = 0 /\ data[c] = <<>>
      BY <2>1, StreamTypes DEF Attached, RingInv, ViewsPassed, ViewsOf, Releasing
    <3> QED
      BY <3>1, ViewsCounted, ViewsKeep DEF Keeps
  <2> QED
    BY <2>1
<1> QED
  BY <1>1, <1>2 DEF StreamInv, UnreadKept

(* A zero-copy view shows its own message until its process frees that     *)
(* message or a later one: the room check of send, with its scan of the    *)
(* registry one slot at a time, in the presence of late processes and of   *)
(* views freed in any order.                                               *)
THEOREM ViewsKept == Spec => []ViewKept
BY StreamInvariant, ReadsPublished, KeptFromStream, PTL

(* The application is given its frames in the order they were sent. *)
THEOREM QueuesInOrder == Spec => []QueueInOrder
<1>1. StreamInv => QueueInOrder
  BY DEF StreamInv, Processes, QueueOf, QueueInOrder, Rx, App
<1> QED
  BY StreamInvariant, <1>1, PTL

(* A token of the semaphore stands for a slot with the expected number. *)
LEMMA ExpectedFromStream == RingInv /\ StreamInv => NoMismatch
<1> SUFFICES ASSUME RingInv, StreamInv, NEW c \in Clients, pc[Rx(c)] = "check",
                    next_sequence_to_read[c] > given_up[c]
             PROVE  SlotIsExpected(c)
  BY DEF NoMismatch, Rx
<1>1. next_sequence_to_read[c] \in 1 .. publish_sequence_id
  BY StreamTypes, NotifyingFinite
  DEF RingInv, Tokens, TokensOf, ViewsPassed, ViewsOf, TypeOK, RegistryTypes
<1>2. ShowsFrame(next_sequence_to_read[c])
  BY <1>1 DEF StreamInv, UnreadKept, Attached
<1> QED
  BY <1>2 DEF ShowsFrame, SlotIsExpected

(* receive_zerocopy never reports a mismatch for a message claimed after   *)
(* its process registered, whatever tokens the last owner of the registry  *)
(* slot has left on the semaphore.                                         *)
THEOREM TokensMatchSlots == Spec => []NoMismatch
BY StreamInvariant, ExpectedFromStream, PTL

-----------------------------------------------------------------------------
(***************************************************************************)
(* The ring implements the message bus.                                    *)
(***************************************************************************)

(* The messages after g up to m, oldest first. *)
Interval(g, m) == [i \in 1 .. m - g |-> g + i]

(* An interval is a sequence with one element for each message. *)
LEMMA IntervalSeq ==
    ASSUME NEW g \in Nat, NEW m \in Nat, g <= m
    PROVE  Interval(g, m) \in Seq(Nat) /\ Len(Interval(g, m)) = m - g
<1>1. m - g \in Nat /\ \A i \in 1 .. m - g : g + i \in Nat
  OBVIOUS
<1> QED
  BY <1>1 DEF Interval

(* Without messages it is empty. *)
LEMMA IntervalEmpty == ASSUME NEW g \in Nat PROVE Interval(g, g) = <<>>
BY IntervalSeq, EmptySeq

(* Receiving the next message appends it. *)
LEMMA IntervalGrows ==
    ASSUME NEW g \in Nat, NEW m \in Nat, g <= m
    PROVE  Append(Interval(g, m), m + 1) = Interval(g, m + 1)
<1>1. m - g \in Nat /\ (m + 1) - g = (m - g) + 1
  OBVIOUS
<1>2. PICK k \in Nat : k = m - g
  BY <1>1
<1>3. /\ Interval(g, m) = [i \in 1 .. k |-> g + i]
      /\ Interval(g, m + 1) = [i \in 1 .. k + 1 |-> g + i]
      /\ Interval(g, m) \in Seq(Nat) /\ Len(Interval(g, m)) = k
  BY <1>1, <1>2, IntervalSeq DEF Interval
<1>4. Append(Interval(g, m), m + 1)
        = [i \in 1 .. k + 1 |-> IF i = k + 1 THEN m + 1 ELSE Interval(g, m)[i]]
  BY <1>3
<1>5. ASSUME NEW i \in 1 .. k + 1
      PROVE  (IF i = k + 1 THEN m + 1 ELSE Interval(g, m)[i]) = g + i
  BY <1>2, <1>3
<1> QED
  BY <1>3, <1>4, <1>5

(* Giving up v drops the messages up to v. *)
LEMMA IntervalShrinks ==
    ASSUME NEW g \in Nat, NEW m \in Nat, NEW v \in Nat, g < v, v <= m
    PROVE  SubSeq(Interval(g, m), v - g + 1, Len(Interval(g, m))) = Interval(v, m)
<1>1. PICK k \in Nat : k = m - g
  OBVIOUS
<1>2. PICK j \in Nat : j = v - g
  OBVIOUS
<1>3. /\ Interval(g, m) = [i \in 1 .. k |-> g + i] /\ Len(Interval(g, m)) = k
      /\ Interval(v, m) = [i \in 1 .. k - j |-> v + i] /\ j \in 1 .. k
  BY <1>1, <1>2, IntervalSeq DEF Interval
<1>4. SubSeq(Interval(g, m), j + 1, k)
        = [i \in 1 .. k - j |-> Interval(g, m)[i + j]]
  BY <1>3
<1>5. ASSUME NEW i \in 1 .. k - j PROVE Interval(g, m)[i + j] = v + i
  BY <1>1, <1>2, <1>3
<1> QED
  BY <1>2, <1>3, <1>4, <1>5

-----------------------------------------------------------------------------
(* The last message c has given up of those it reads in the stream. *)
From(c) == IF InStream(c) THEN given_up[c] ELSE 0

(* Every inbox shows what its process was sent and has not given up. *)
InboxOf(c) ==
    /\ From(c) \in Nat /\ Received(c) \in Nat /\ From(c) <= Received(c)
    /\ Inbox(c) = Interval(From(c), Received(c))

InboxRight == \A c \in Clients : InboxOf(c)

(* A step that leaves the bus of process c alone. *)
Same(c) ==
    /\ InStream(c)' = InStream(c)
    /\ From(c)' = From(c) /\ Received(c)' = Received(c)

(* What is owed to a process in the stream is what it sees. *)
LEMMA InboxFromStream == RingInv /\ StreamInv /\ ViewKept => InboxRight
<1> SUFFICES ASSUME RingInv, StreamInv, ViewKept, NEW c \in Clients
             PROVE  InboxOf(c)
  BY DEF InboxRight
<1> USE StreamTypes
<1>1. CASE InStream(c)
  <2>1. /\ From(c) = given_up[c] /\ Received(c) = next_sequence_to_read[c] - 1
        /\ From(c) \in Nat /\ Received(c) \in Nat /\ From(c) <= Received(c)
    BY <1>1 DEF From, Received, InStream
  <2>2. ASSUME NEW n \in 1 .. Received(c) - given_up[c]
        PROVE  Shown(c, given_up[c] + n) = given_up[c] + n
    <3>1. /\ given_up[c] + n \in Nat /\ given_up[c] < given_up[c] + n
          /\ given_up[c] + n < next_sequence_to_read[c]
      BY <2>1
    <3>2. PICK v \in Nat : v = given_up[c] + n
      BY <3>1
    <3>3. Keeps(c, v)
      BY <3>1, <3>2, <1>1 DEF StreamInv, Processes, NothingLost, Attached, InStream, Rx
    <3>4. v \in Views(c) /\ v > given_up[c]
      BY <3>1, <3>2, <3>3, ViewsKeep
    <3>5. frame[SlotOf(v)] = v
      BY <3>4 DEF ViewKept, ShowsFrame
    <3> QED
      BY <3>2, <3>4, <3>5 DEF Shown
  <2>3. Inbox(c) = [n \in 1 .. Received(c) - given_up[c] |-> given_up[c] + n]
    BY <1>1, <2>2 DEF Inbox
  <2> QED
    BY <2>1, <2>3 DEF InboxOf, Interval
<1>2. CASE ~InStream(c)
  <2>1. From(c) = 0 /\ Received(c) = 0
    BY <1>2 DEF From, Received
  <2>2. Inbox(c) = [n \in 1 .. 0 |-> Shown(c, given_up[c] + n)]
    BY <1>2 DEF Inbox
  <2>3. Interval(0, 0) = [n \in 1 .. 0 |-> 0 + n] /\ 1 .. 0 = {}
    BY DEF Interval
  <2>4. Inbox(c) = Interval(0, 0)
    BY <2>2, <2>3
  <2> QED
    BY <2>1, <2>4 DEF InboxOf
<1> QED
  BY <1>1, <1>2

(* The initial bus. *)
LEMMA BusStarts == Init => Bus!BusInit
<1> SUFFICES ASSUME Init PROVE Bus!BusInit
  OBVIOUS
<1>1. ASSUME NEW c \in Clients PROVE ~InStream(c)
  BY ThreadsOfClient DEF Init, InStream
<1>2. ViewKept
  <2>1. ASSUME NEW c \in Clients PROVE Views(c) = {}
    BY ThreadsOfClient DEF Init, Views
  <2> QED
    BY <2>1 DEF ViewKept
<1>3. InboxRight
  BY <1>2, RingInit, StreamInit, InboxFromStream
<1>4. ASSUME NEW c \in Clients PROVE Received(c) = 0 /\ Inbox(c) = <<>>
  BY <1>1, <1>3, IntervalEmpty DEF InboxRight, InboxOf, From, Received
<1>5. [c \in Clients |-> InStream(c)] = [c \in Clients |-> FALSE]
  <2>1. ASSUME NEW c \in Clients PROVE InStream(c) = FALSE
    BY <1>1 DEF InStream
  <2> QED
    BY <2>1
<1>6. /\ [c \in Clients |-> Received(c)] = [c \in Clients |-> 0]
      /\ [c \in Clients |-> Inbox(c)] = [c \in Clients |-> <<>>]
  BY <1>4
<1> QED
  BY <1>5, <1>6 DEF Bus!BusInit, Init

(* The bus of a process that a step leaves alone. *)
LEMMA SameInbox ==
    ASSUME InboxRight, InboxRight', NEW d \in Clients, Same(d)
    PROVE  /\ InStream(d)' = InStream(d) /\ Received(d)' = Received(d)
           /\ Inbox(d)' = Inbox(d)
<1>1. Inbox(d) = Interval(From(d), Received(d))
  BY DEF InboxRight, InboxOf
<1>2. Inbox(d)' = Interval(From(d)', Received(d)')
  BY DEF InboxRight, InboxOf, Interval
<1> QED
  BY <1>1, <1>2 DEF Same

(* A step that changes no process is no step of the bus. *)
LEMMA BusStutters ==
    ASSUME InboxRight, InboxRight', UNCHANGED publish_sequence_id,
           \A d \in Clients : Same(d)
    PROVE  UNCHANGED Bus!busVars
BY SameInbox DEF Bus!busVars

(* The step that makes the next message visible. *)
LEMMA BusPublishes ==
    ASSUME InboxRight, InboxRight', publish_sequence_id' = publish_sequence_id + 1,
           \A d \in Clients : Same(d)
    PROVE  Bus!BusNext
BY SameInbox DEF Bus!BusNext, Bus!PublishNext

(* A process enters the stream with an empty inbox. *)
LEMMA BusJoins ==
    ASSUME InboxRight, InboxRight', NEW c \in Clients, UNCHANGED publish_sequence_id,
           \A d \in Clients \ {c} : Same(d), ~InStream(c), InStream(c)',
           From(c)' = Received(c)', Received(c)' \in 0 .. publish_sequence_id
    PROVE  Bus!BusNext
<1>1. Inbox(c) = <<>>
  BY IntervalEmpty DEF InboxRight, InboxOf, From, Received
<1>2. PICK r \in Nat : r = Received(c)'
  BY DEF InboxRight, InboxOf
<1>3. Inbox(c)' = Interval(r, r)
  BY <1>2 DEF InboxRight, InboxOf, Interval
<1>4. Inbox(c)' = <<>>
  BY <1>3, IntervalEmpty
<1>5. \A d \in Clients : /\ d # c => InStream(d)' = InStream(d) /\ Received(d)' = Received(d)
                         /\ Inbox(d)' = Inbox(d)
  BY <1>1, <1>4, SameInbox
<1>6. Bus!Join(c)
  BY <1>5 DEF Bus!Join
<1> QED
  BY <1>6 DEF Bus!BusNext

(* A process that deregisters drops its inbox. *)
LEMMA BusLeaves ==
    ASSUME InboxRight, InboxRight', NEW c \in Clients, UNCHANGED publish_sequence_id,
           \A d \in Clients \ {c} : Same(d), InStream(c), ~InStream(c)'
    PROVE  Bus!BusNext
<1>1. From(c)' = 0 /\ Received(c)' = 0
  BY DEF From, Received
<1>2. Inbox(c)' = Interval(0, 0)
  BY <1>1 DEF InboxRight, InboxOf, Interval
<1>3. Inbox(c)' = <<>>
  BY <1>2, IntervalEmpty
<1>4. \A d \in Clients : d # c => /\ InStream(d)' = InStream(d)
                                  /\ Received(d)' = Received(d) /\ Inbox(d)' = Inbox(d)
  BY SameInbox
<1>5. Bus!Leave(c)
  <2>1. InStream(c)' = FALSE
    BY DEF InStream
  <2>2. [d \in Clients |-> InStream(d)]'
          = [[d \in Clients |-> InStream(d)] EXCEPT ![c] = FALSE]
    BY <1>4, <2>1
  <2>3. /\ [d \in Clients |-> Received(d)]' = [[d \in Clients |-> Received(d)] EXCEPT ![c] = 0]
        /\ [d \in Clients |-> Inbox(d)]' = [[d \in Clients |-> Inbox(d)] EXCEPT ![c] = <<>>]
    BY <1>1, <1>3, <1>4
  <2>4. [d \in Clients |-> InStream(d)][c]
    OBVIOUS
  <2> QED
    BY <2>2, <2>3, <2>4 DEF Bus!Leave
<1> QED
  BY <1>5 DEF Bus!BusNext

(* A process receives the message after the last one it received. *)
LEMMA BusDelivers ==
    ASSUME InboxRight, InboxRight', NEW c \in Clients, UNCHANGED publish_sequence_id,
           \A d \in Clients \ {c} : Same(d), InStream(c), InStream(c)',
           From(c)' = From(c), Received(c)' = Received(c) + 1,
           Received(c) < publish_sequence_id
    PROVE  Bus!BusNext
<1>1. PICK g \in Nat : g = From(c)
  BY DEF InboxRight, InboxOf
<1>2. PICK m \in Nat : m = Received(c)
  BY DEF InboxRight, InboxOf
<1>3. g <= m /\ Inbox(c) = Interval(g, m)
  BY <1>1, <1>2 DEF InboxRight, InboxOf
<1>4. Inbox(c)' = Interval(g, m + 1)
  BY <1>1, <1>2 DEF InboxRight, InboxOf, Interval
<1>5. Inbox(c)' = Append(Inbox(c), Received(c) + 1)
  BY <1>2, <1>3, <1>4, IntervalGrows
<1>6. \A d \in Clients : d # c => /\ InStream(d)' = InStream(d)
                                  /\ Received(d)' = Received(d) /\ Inbox(d)' = Inbox(d)
  BY SameInbox
<1>7. Bus!Deliver(c)
  <2>1. InStream(c)' = InStream(c)
    BY DEF InStream
  <2>2. UNCHANGED [d \in Clients |-> InStream(d)]
    BY <1>6, <2>1
  <2>3. [d \in Clients |-> Received(d)]'
          = [[d \in Clients |-> Received(d)] EXCEPT ![c] = @ + 1]
    BY <1>6
  <2>4. [d \in Clients |-> Inbox(d)]'
          = [[d \in Clients |-> Inbox(d)] EXCEPT
                ![c] = Append(@, [d \in Clients |-> Received(d)][c] + 1)]
    BY <1>5, <1>6
  <2>5. /\ [d \in Clients |-> InStream(d)][c]
        /\ [d \in Clients |-> Received(d)][c] < publish_sequence_id
    OBVIOUS
  <2> QED
    BY <2>2, <2>3, <2>4, <2>5 DEF Bus!Deliver
<1> QED
  BY <1>7 DEF Bus!BusNext

(* A process gives up the oldest of its messages. *)
LEMMA BusAcknowledges ==
    ASSUME InboxRight, InboxRight', NEW c \in Clients, UNCHANGED publish_sequence_id,
           \A d \in Clients \ {c} : Same(d), InStream(c)' = InStream(c),
           Received(c)' = Received(c), From(c) < From(c)'
    PROVE  Bus!BusNext
<1>1. PICK g \in Nat : g = From(c)
  BY DEF InboxRight, InboxOf
<1>2. PICK m \in Nat : m = Received(c)
  BY DEF InboxRight, InboxOf
<1>3. PICK v \in Nat : v = From(c)'
  BY DEF InboxRight, InboxOf
<1>4. g <= m /\ Inbox(c) = Interval(g, m) /\ g < v
  BY <1>1, <1>2, <1>3 DEF InboxRight, InboxOf
<1>5. Inbox(c)' = Interval(v, m) /\ v <= m
  BY <1>2, <1>3 DEF InboxRight, InboxOf, Interval
<1>6. /\ v - g \in 1 .. Len(Inbox(c))
      /\ Inbox(c)' = SubSeq(Inbox(c), (v - g) + 1, Len(Inbox(c)))
  <2>1. Len(Interval(g, m)) = m - g
    BY <1>4, IntervalSeq
  <2>2. v - g \in 1 .. m - g
    BY <1>4, <1>5
  <2>3. SubSeq(Interval(g, m), v - g + 1, Len(Interval(g, m))) = Interval(v, m)
    BY <1>4, <1>5, IntervalShrinks
  <2> QED
    BY <1>4, <1>5, <2>1, <2>2, <2>3
<1>7. \A d \in Clients : /\ InStream(d)' = InStream(d) /\ Received(d)' = Received(d)
                         /\ d # c => Inbox(d)' = Inbox(d)
  BY SameInbox
<1>8. Bus!Acknowledge(c)
  <2> DEFINE k == v - g
             i == [d \in Clients |-> Inbox(d)]
  <2>1. i[c] = Inbox(c) /\ k \in 1 .. Len(i[c])
    BY <1>6
  <2>2. [d \in Clients |-> Inbox(d)]' = [i EXCEPT ![c] = SubSeq(@, k + 1, Len(@))]
    BY <1>6, <1>7
  <2>3. \E n \in 1 .. Len(i[c]) :
           [d \in Clients |-> Inbox(d)]' = [i EXCEPT ![c] = SubSeq(@, n + 1, Len(@))]
    BY <2>1, <2>2
  <2>4. /\ UNCHANGED [d \in Clients |-> InStream(d)]
        /\ UNCHANGED [d \in Clients |-> Received(d)]
    BY <1>7
  <2> QED
    BY <2>3, <2>4 DEF Bus!Acknowledge
<1> QED
  BY <1>8 DEF Bus!BusNext

-----------------------------------------------------------------------------
(* A process whose receiver, position and acknowledgements a step leaves   *)
(* alone.                                                                  *)
LEMMA StaysSame ==
    ASSUME NEW d \in Clients, Attached(d)' = Attached(d),
           next_sequence_to_read'[d] = next_sequence_to_read[d],
           given_up'[d] = given_up[d]
    PROVE  Same(d)
<1>1. InStream(d)' = InStream(d)
  BY DEF InStream, Attached, Rx
<1> QED
  BY <1>1 DEF Same, From, Received

(* send: nothing but the compare-and-swap is visible on the bus. *)
LEMMA SendOnBus ==
    ASSUME RingInv, InboxRight, InboxRight', NEW w \in Writers, Claim(w) \/ SendStep(w)
    PROVE  [Bus!BusNext]_(Bus!busVars)
<1>1. UNCHANGED <<pc, next_sequence_to_read, given_up>>
  BY DEF SendStep, Claim, ScanReader, PassCheck, FailCheck, SetBlocked, WakeUp, WriteFrame,
         StampSlot, Publish, Notify, readers
<1>2. \A d \in Clients : Same(d)
  BY <1>1, StaysSame DEF Attached
<1>3. CASE Publish(w)
  <2>1. publish_sequence_id' = publish_sequence_id + 1
    BY <1>3 DEF Publish, RingInv, TypeOK, WriterTypes, RingTypes
  <2> QED
    BY <1>2, <2>1, BusPublishes
<1>4. CASE ~Publish(w)
  <2>1. UNCHANGED publish_sequence_id
    BY <1>4 DEF SendStep, Claim, ScanReader, PassCheck, FailCheck, SetBlocked, WakeUp,
                WriteFrame, StampSlot, Notify, ring
  <2> QED
    BY <1>2, <2>1, BusStutters
<1> QED
  BY <1>3, <1>4

(* Registration enters the stream at once if nothing was claimed before,   *)
(* and the destructor leaves it.                                           *)
LEMMA RegistryOnBus ==
    ASSUME RingInv, InboxRight, InboxRight', NEW c \in Clients, RegistryStep(c)
    PROVE  [Bus!BusNext]_(Bus!busVars)
<1> USE StreamTypes
<1>0. UNCHANGED publish_sequence_id
  BY DEF RegistryStep, RegisterActivate, RegisterStore, Stop, Deregister, ring
<1>1. CASE RegisterActivate(c) \/ Stop(c)
  <2>1. UNCHANGED <<pc, next_sequence_to_read, given_up>>
    BY <1>1 DEF RegisterActivate, Stop, readers
  <2> QED
    BY <1>0, <2>1, StaysSame, BusStutters DEF Attached
<1>2. CASE RegisterStore(c)
  <2>1. \A d \in Clients \ {c} : Same(d)
    <3>1. ASSUME NEW d \in Clients \ {c}
          PROVE  /\ pc'[Rx(d)] = pc[Rx(d)] /\ given_up'[d] = given_up[d]
                 /\ next_sequence_to_read'[d] = next_sequence_to_read[d]
      BY <1>2 DEF RegisterStore, ThreadTypes, Threads, Rx
    <3> QED
      BY <3>1, StaysSame DEF Attached
  <2>2. /\ given_up'[c] = claim_sequence_id - 1 /\ next_sequence_to_read'[c] = 1
        /\ pc'[<<c, "rx">>] = "loop" /\ pc[<<c, "rx">>] = "off"
    BY <1>2, ThreadsOfClient DEF RegisterStore, ThreadTypes, RingInv, OwnersActive, Rx
  <2>3. ~InStream(c) /\ claim_sequence_id \in Nat \ {0}
    BY <2>2 DEF InStream, RingInv, TypeOK, RingTypes
  <2>4. CASE claim_sequence_id = 1
    <3>1. InStream(c)'
      BY <2>2, <2>4 DEF InStream
    <3>2. From(c)' = 0 /\ Received(c)' = 0
      BY <2>2, <2>4, <3>1 DEF From, Received
    <3>3. From(c)' = Received(c)' /\ Received(c)' \in 0 .. publish_sequence_id
      BY <3>2
    <3> QED
      BY <1>0, <2>1, <2>3, <3>1, <3>3, BusJoins
  <2>5. CASE claim_sequence_id # 1
    <3>1. ~InStream(c)'
      BY <2>2, <2>3, <2>5 DEF InStream
    <3>2. Same(c)
      BY <2>3, <3>1 DEF Same, From, Received, InStream
    <3> QED
      BY <1>0, <2>1, <3>2, BusStutters
  <2> QED
    BY <2>4, <2>5
<1>3. CASE Deregister(c)
  <2>1. \A d \in Clients \ {c} : Same(d)
    <3>1. ASSUME NEW d \in Clients \ {c}
          PROVE  /\ pc'[Rx(d)] = pc[Rx(d)] /\ given_up'[d] = given_up[d]
                 /\ next_sequence_to_read'[d] = next_sequence_to_read[d]
      BY <1>3 DEF Deregister, ThreadTypes, Threads, Rx
    <3> QED
      BY <3>1, StaysSame DEF Attached
  <2>2. ~InStream(c)'
    BY <1>3, ThreadsOfClient DEF Deregister, ThreadTypes, InStream
  <2>3. CASE InStream(c)
    BY <1>0, <2>1, <2>2, <2>3, BusLeaves
  <2>4. CASE ~InStream(c)
    <3>1. Same(c)
      BY <2>2, <2>4 DEF Same, From, Received, InStream
    <3> QED
      BY <1>0, <2>1, <3>1, BusStutters
  <2> QED
    BY <2>3, <2>4
<1> QED
  BY <1>1, <1>2, <1>3 DEF RegistryStep

(* receive_zerocopy delivers the next message, or brings a late process    *)
(* into the stream; the other steps of the receiver and the application    *)
(* are not visible.                                                        *)
LEMMA ReceiverOnBus ==
    ASSUME RingInv, InboxRight, InboxRight', NEW c \in Clients, ReceiverMove(c)
    PROVE  [Bus!BusNext]_(Bus!busVars)
<1> USE StreamTypes
<1>0. UNCHANGED <<publish_sequence_id, given_up>>
  BY DEF ReceiverMove, ReceiverLoop, ReceiveWait, ReceiveView, ReceiveMismatch,
     QueueIncomingBuffer, FreeAtOnce, PopBuffer, CopyMessage, ring
<1>1. \A d \in Clients : Attached(d)' = Attached(d)
  <2>1. CASE \E from, to \in RxStates \cup ReleaseStates :
                from # "off" /\ to # "off" /\ ThreadGoes(<<c, "rx">>, from, to)
    BY <2>1, RxGoes DEF RxMoves, Attached
  <2>2. CASE \E from, to : ThreadGoes(<<c, "app">>, from, to)
    BY <2>2, AppGoes DEF AppMoves, Attached
  <2> QED
    BY <2>1, <2>2 DEF ReceiverMove, ReceiverLoop, ReceiveWait, ReceiveView,
       ReceiveMismatch, QueueIncomingBuffer, FreeAtOnce, PopBuffer, CopyMessage,
       RxStates, ReleaseStates
<1>2. CASE ReceiveView(c)
  <2>1. /\ pc[Rx(c)] = "check"
        /\ \A d \in Clients : next_sequence_to_read'[d] =
              IF d = c THEN next_sequence_to_read[c] + 1 ELSE next_sequence_to_read[d]
    BY <1>2 DEF ReceiveView, ThreadGoes, Rx
  <2>2. next_sequence_to_read[c] \in 1 .. publish_sequence_id
    BY <2>1, NotifyingFinite
    DEF RingInv, Tokens, TokensOf, ViewsPassed, ViewsOf, TypeOK, RegistryTypes
  <2>3. \A d \in Clients \ {c} : Same(d)
    BY <1>0, <1>1, <2>1, StaysSame
  <2>4. pc[<<c, "rx">>] # "off" /\ pc'[<<c, "rx">>] # "off"
    BY <1>1, <2>1 DEF Attached, Rx
  <2>5. CASE next_sequence_to_read[c] > given_up[c]
    <3>1. InStream(c) /\ InStream(c)'
      BY <1>0, <2>1, <2>4, <2>5 DEF InStream
    <3>2. From(c)' = From(c)
      BY <1>0, <3>1 DEF From
    <3>3. /\ Received(c) = next_sequence_to_read[c] - 1
          /\ Received(c)' = next_sequence_to_read'[c] - 1
      BY <3>1 DEF Received
    <3>4. Received(c)' = Received(c) + 1 /\ Received(c) < publish_sequence_id
      BY <2>1, <2>2, <3>3
    <3> QED
      BY <1>0, <2>3, <3>1, <3>2, <3>4, BusDelivers
  <2>6. CASE next_sequence_to_read[c] = given_up[c]
    <3>1. ~InStream(c) /\ InStream(c)'
      BY <1>0, <2>1, <2>4, <2>6 DEF InStream
    <3>2. From(c)' = given_up[c] /\ Received(c)' = given_up[c]
      <4>1. From(c)' = given_up'[c] /\ Received(c)' = next_sequence_to_read'[c] - 1
        BY <3>1 DEF From, Received
      <4>2. given_up'[c] = given_up[c]
        BY <1>0
      <4>3. next_sequence_to_read'[c] = next_sequence_to_read[c] + 1
        BY <2>1
      <4>4. next_sequence_to_read'[c] - 1 = given_up[c]
        BY <4>3, <2>6
      <4> QED
        BY <4>1, <4>2, <4>4
    <3>3. given_up[c] \in 0 .. publish_sequence_id
      BY <2>2, <2>6
    <3> QED
      BY <1>0, <2>3, <3>1, <3>2, <3>3, BusJoins
  <2>7. CASE next_sequence_to_read[c] < given_up[c]
    <3>1. ~InStream(c) /\ ~InStream(c)'
      BY <1>0, <2>1, <2>4, <2>7 DEF InStream
    <3>2. Same(c)
      BY <3>1 DEF Same, From, Received, InStream
    <3> QED
      BY <1>0, <2>3, <3>2, BusStutters
  <2> QED
    BY <2>5, <2>6, <2>7
<1>3. CASE UNCHANGED next_sequence_to_read
  BY <1>0, <1>1, <1>3, StaysSame, BusStutters
<1> QED
  BY <1>2, <1>3 DEF ReceiverMove, ReceiverLoop, ReceiveWait, ReceiveMismatch,
     QueueIncomingBuffer, FreeAtOnce, PopBuffer, CopyMessage

(* The store of release_frame is a cumulative acknowledgement, or repeats  *)
(* an older one.                                                           *)
LEMMA FreesOnBus ==
    ASSUME RingInv, InboxRight, InboxRight', NEW c \in Clients, NEW v \in Nat,
           Frees(c, v)
    PROVE  [Bus!BusNext]_(Bus!busVars)
<1> USE StreamTypes
<1>0. /\ UNCHANGED <<publish_sequence_id, next_sequence_to_read>>
      /\ \A d \in Clients \ {c} : Same(d)
  <2>1. \A d \in Clients \ {c} : Same(d)
    BY StaysSame DEF Frees, Untouched, Attached
  <2> QED
    BY <2>1 DEF Frees, ring
<1>1. v < next_sequence_to_read[c]
  BY DEF Frees, Keeps, RingInv, ViewsPassed, ViewsOf
<1>2. pc[<<c, "rx">>] # "off" /\ pc'[<<c, "rx">>] # "off"
  BY DEF Frees, Attached, Rx
<1>3. given_up'[c] = IF v > given_up[c] THEN v ELSE given_up[c]
  BY DEF Frees
<1>4. CASE v > given_up[c]
  <2>1. InStream(c) /\ InStream(c)'
    BY <1>0, <1>1, <1>2, <1>3, <1>4 DEF InStream
  <2>2. From(c) < From(c)' /\ Received(c)' = Received(c)
    BY <1>0, <1>3, <1>4, <2>1 DEF From, Received
  <2> QED
    BY <1>0, <2>1, <2>2, BusAcknowledges
<1>5. CASE ~(v > given_up[c])
  <2>1. Same(c)
    BY <1>0, <1>3, <1>5, StaysSame DEF Frees
  <2> QED
    BY <1>0, <2>1, BusStutters
<1> QED
  BY <1>4, <1>5

(* release_frame on the bus, in either thread. *)
LEMMA ReleaseOnBus ==
    ASSUME RingInv, StreamInv, InboxRight, InboxRight', NEW c \in Clients,
           ReleaseStep(<<c, "rx">>) \/ ReleaseStep(<<c, "app">>)
    PROVE  [Bus!BusNext]_(Bus!busVars)
<1>1. CASE ReleaseStore(<<c, "rx">>)
  BY <1>1, RxFrees, FreesOnBus
<1>2. CASE ReleaseStore(<<c, "app">>)
  BY <1>2, AppFrees, FreesOnBus
<1>3. CASE /\ UNCHANGED <<ring, writers, last_read, given_up, held, data, next_sequence_to_read>>
           /\ \A d \in Clients : Attached(d)' <=> Attached(d)
  <2>1. \A d \in Clients : Same(d)
    BY <1>3, StaysSame DEF Attached
  <2> QED
    BY <1>3, <2>1, BusStutters DEF ring
<1> QED
  BY <1>1, <1>2, <1>3, ReleaseQuiet DEF ReleaseStep

(* Every step of the ring is a step of the bus, or none. *)
LEMMA BusStep ==
    ASSUME RingInv, StreamInv, InboxRight, InboxRight', [Next]_vars
    PROVE  [Bus!BusNext]_(Bus!busVars)
<1>1. ASSUME NEW w \in Writers, Claim(w) \/ SendStep(w) PROVE [Bus!BusNext]_(Bus!busVars)
  BY <1>1, SendOnBus
<1>2. ASSUME NEW c \in Clients, RegistryStep(c) PROVE [Bus!BusNext]_(Bus!busVars)
  BY <1>2, RegistryOnBus
<1>3. ASSUME NEW c \in Clients, ReceiverMove(c) PROVE [Bus!BusNext]_(Bus!busVars)
  BY <1>3, ReceiverOnBus
<1>4. ASSUME NEW c \in Clients, ReleaseStep(<<c, "rx">>) \/ ReleaseStep(<<c, "app">>)
      PROVE  [Bus!BusNext]_(Bus!busVars)
  BY <1>4, ReleaseOnBus
<1>5. CASE UNCHANGED vars
  <2>1. UNCHANGED <<publish_sequence_id, pc, next_sequence_to_read, given_up>>
    BY <1>5 DEF vars, ring, readers
  <2> QED
    BY <2>1, StaysSame, BusStutters DEF Attached
<1> QED
  BY <1>1, <1>2, <1>3, <1>4, <1>5 DEF Next, ReceiverStep, AppStep, ReceiverMove

(* The ring, the receiver threads and the queues implement the message     *)
(* bus for every number of processes, senders and slots, with processes    *)
(* that join late, leave, and free their views in any order and from two   *)
(* threads: what a process has not given up is never lost, repeated,       *)
(* reordered or overwritten.                                               *)
THEOREM RingImplementsBus == Spec => ImplementsBus
<1>1. Init => Bus!BusInit
  BY BusStarts
<1>2. RingInv /\ StreamInv /\ InboxRight /\ InboxRight' /\ [Next]_vars
      => [Bus!BusNext]_(Bus!busVars)
  BY BusStep
<1>3. Spec => [](RingInv /\ StreamInv) /\ []InboxRight
  BY StreamInvariant, ViewsKept, InboxFromStream, PTL
<1> QED
  BY <1>1, <1>2, <1>3, PTL DEF Spec, ImplementsBus, Bus!BusSpec
=============================================================================
