-------------------------------- MODULE Ptp ---------------------------------
(***************************************************************************)
(* Clock synchronisation between a vehicle and the roadside units of its   *)
(* quadrant (api/network/ptp): the slave with its timer thread and its     *)
(* signal thread, the masters, and the frames between them.  A frame is    *)
(* delayed by at most MaxDelay, may be overtaken and may be lost; the      *)
(* system may refuse to set the clock.  The vehicle's clock runs at the    *)
(* right speed during a round.                                             *)
(***************************************************************************)
EXTENDS Integers, FiniteSets

CONSTANTS
    Masters, None,
    MasterClock,    \* per master: how far its clock is ahead of real time
    Skews,          \* how far the vehicle's clock may have drifted
    MaxDelay,       \* the longest a frame is under way
    MAX_FAULTS,     \* bound: frames that get lost, clocks that cannot be set
    MAX_TIME,       \* bound: real time
    MAX_ROUNDS      \* bound: rounds of synchronisation

ASSUME DelayAssumption == MaxDelay \in Nat /\ Skews \subseteq Nat

ASSUME MastersAssumption == None \notin Masters /\ MasterClock \in [Masters -> Nat]

VARIABLES
    now, skew,      \* real time; the vehicle's clock shows now + skew
    network,        \* the frames under way
    state, t1, t2, t3,
    timer, rx,      \* where the timer thread and the signal thread are
    rounds, faults,
    master,         \* the sender of the SYNC that was accepted last
    synced          \* history: the master the clock was last set to

slave == <<state, t1, t2, t3>>
vars == <<now, skew, network, slave, timer, rx, rounds, faults, master, synced>>

Clock == now + skew
MasterTime(m) == now + MasterClock[m]

(* A frame between the vehicle and master m, put on the wire now. *)
Frame(type, m, t) == [type |-> type, master |-> m, t |-> t, at |-> now, round |-> rounds]

Init ==
    /\ now = 0 /\ skew \in Skews
    /\ network = {}
    /\ state = "SYNCHRONIZED" /\ t1 = 0 /\ t2 = 0 /\ t3 = 0
    /\ timer = "sleep" /\ rx = "idle"
    /\ rounds = 0 /\ faults = 0
    /\ master = None /\ synced = None

Tick ==
    /\ now < MAX_TIME /\ \A f \in network : now < f.at + MaxDelay
    /\ now' = now + 1
    /\ UNCHANGED <<skew, network, slave, timer, rx, rounds, faults, master, synced>>

(* Between two rounds the clock drifts. *)
Drift ==
    /\ state = "SYNCHRONIZED"
    /\ skew' \in Skews /\ synced' = None
    /\ UNCHANGED <<now, network, slave, timer, rx, rounds, faults, master>>

Lose(f) ==
    /\ faults < MAX_FAULTS
    /\ network' = network \ {f} /\ faults' = faults + 1
    /\ UNCHANGED <<now, skew, slave, timer, rx, rounds, master, synced>>

(***************************************************************************)
(* The timer thread.  In any other state request_synchronization only      *)
(* prints a warning.                                                       *)
(***************************************************************************)

RequestSynchronization ==
    /\ timer = "sleep" /\ timer' = "send"
    /\ state = "SYNCHRONIZED" /\ state' = "AWAITING_SYNC"
    /\ rounds < MAX_ROUNDS /\ rounds' = rounds + 1
    /\ UNCHANGED <<now, skew, network, t1, t2, t3, rx, faults, master, synced>>

(* START is broadcast. *)
SendStart ==
    /\ timer = "send" /\ timer' = "sleep"
    /\ network' = network \cup {Frame("START", m, 0) : m \in Masters}
    /\ UNCHANGED <<now, skew, slave, rx, rounds, faults, master, synced>>

(***************************************************************************)
(* The masters.                                                            *)
(***************************************************************************)

ReceiveStart(f) ==
    /\ f.type = "START"
    /\ network' = (network \ {f}) \cup {Frame("SYNC", f.master, MasterTime(f.master))}
    /\ UNCHANGED <<now, skew, slave, timer, rx, rounds, faults, master, synced>>

ReceiveDelayReq(f) ==
    /\ f.type = "DELAY_REQUEST"
    /\ network' = (network \ {f})
           \cup {Frame("DELAY_RESPONSE", f.master, MasterTime(f.master))}
    /\ UNCHANGED <<now, skew, slave, timer, rx, rounds, faults, master, synced>>

(***************************************************************************)
(* The slave's signal thread.  What a handler throws is caught by          *)
(* Protocol::update, which drops the frame.                                *)
(***************************************************************************)

(* Mutant: a SYNC is accepted in every state. *)
ReceiveSyncAlways(f) ==
    /\ f.type = "SYNC" /\ rx = "idle"
    /\ network' = network \ {f}
    /\ t1' = f.t /\ t2' = Clock
    /\ state' = "AWAITING_DELAY_RESP" /\ rx' = "request" /\ master' = f.master
    /\ UNCHANGED <<now, skew, t3, timer, rounds, faults, synced>>

ReceiveSync(f) ==
    /\ f.type = "SYNC" /\ rx = "idle"
    /\ network' = network \ {f}
    /\ IF state = "AWAITING_SYNC"
       THEN /\ t1' = f.t /\ t2' = Clock
            /\ state' = "AWAITING_DELAY_RESP" /\ rx' = "request"
            /\ master' = f.master
       ELSE UNCHANGED <<t1, t2, state, rx, master>>
    /\ UNCHANGED <<now, skew, t3, timer, rounds, faults, synced>>

(* Mutant: the request is broadcast, like START. *)
BroadcastDelayReq ==
    /\ rx = "request" /\ rx' = "idle"
    /\ t3' = Clock
    /\ network' = network \cup {Frame("DELAY_REQUEST", m, 0) : m \in Masters}
    /\ UNCHANGED <<now, skew, state, t1, t2, timer, rounds, faults, master, synced>>

SendDelayReq ==
    /\ rx = "request" /\ rx' = "idle"
    /\ t3' = Clock
    /\ network' = network \cup {Frame("DELAY_REQUEST", master, 0)}
    /\ UNCHANGED <<now, skew, state, t1, t2, timer, rounds, faults, master, synced>>

(* Integer division truncates towards zero. *)
Half(x) == IF x >= 0 THEN x \div 2 ELSE -((-x) \div 2)

(* Mutant: the round trip is not halved. *)
FullOffset(t4) == (t2 - t1) - (t4 - t3)

Offset(t4) == Half((t2 - t1) - (t4 - t3))

(* Mutant: the state is not set back. *)
ReceiveDelayRespForgetful(f) ==
    /\ f.type = "DELAY_RESPONSE" /\ rx = "idle"
    /\ network' = network \ {f}
    /\ IF state = "AWAITING_DELAY_RESP"
       THEN /\ t1' = 0 /\ t2' = 0 /\ t3' = 0
            /\ skew' = skew - Offset(f.t) /\ synced' = master
            /\ UNCHANGED state
       ELSE UNCHANGED <<skew, slave, synced>>
    /\ UNCHANGED <<now, timer, rx, rounds, faults, master>>

(* receive_delay_resp and synchronize: a clock that cannot be set leaves   *)
(* the slave in its state, with its timestamps gone.                       *)
ReceiveDelayResp(f) ==
    /\ f.type = "DELAY_RESPONSE" /\ rx = "idle"
    /\ network' = network \ {f}
    /\ IF state = "AWAITING_DELAY_RESP"
       THEN /\ t1' = 0 /\ t2' = 0 /\ t3' = 0
            /\ \/ /\ skew' = skew - Offset(f.t)
                  /\ state' = "SYNCHRONIZED" /\ synced' = master
                  /\ UNCHANGED faults
               \/ /\ faults < MAX_FAULTS /\ faults' = faults + 1
                  /\ UNCHANGED <<skew, state, synced>>
       ELSE UNCHANGED <<skew, slave, synced, faults>>
    /\ UNCHANGED <<now, timer, rx, rounds, master>>

-----------------------------------------------------------------------------

Deliver(f) ==
    ReceiveStart(f) \/ ReceiveDelayReq(f) \/ ReceiveSync(f) \/ ReceiveDelayResp(f)

Next ==
    \/ Tick \/ Drift \/ RequestSynchronization \/ SendStart \/ SendDelayReq
    \/ \E f \in network : Deliver(f) \/ Lose(f)

Spec == Init /\ [][Next]_vars

(* The threads run and frames that are not lost arrive.  Rounds start when *)
(* the timer fires.                                                        *)
FairSpec ==
    /\ Spec
    /\ WF_vars(SendStart) /\ WF_vars(SendDelayReq)
    /\ WF_vars(\E f \in network : Deliver(f))

-----------------------------------------------------------------------------

FrameTypes == {"START", "SYNC", "DELAY_REQUEST", "DELAY_RESPONSE"}

(* Types; the clock and the timestamps, unsigned in the code, are never    *)
(* negative, whatever synchronize subtracts.                               *)
TypeOK ==
    /\ now \in Nat /\ skew \in Int /\ Clock \in Nat
    /\ network \subseteq [type : FrameTypes, master : Masters, t : Nat,
                          at : Nat, round : Nat]
    /\ state \in {"SYNCHRONIZED", "AWAITING_SYNC", "AWAITING_DELAY_RESP"}
    /\ t1 \in Nat /\ t2 \in Nat /\ t3 \in Nat
    /\ timer \in {"sleep", "send"} /\ rx \in {"idle", "request"}
    /\ rounds \in Nat /\ faults \in Nat
    /\ master \in Masters \cup {None} /\ synced \in Masters \cup {None}

(* The slave asks nobody who sent a DELAY_RESPONSE.  It need not: one is   *)
(* under way only while the slave waits for it, it is the only one, and it *)
(* comes from the master whose SYNC was accepted, even when other masters  *)
(* answered the START or a SYNC of an earlier round came late.             *)
NoStrayResponse ==
    \A f \in network : f.type \in {"DELAY_REQUEST", "DELAY_RESPONSE"} =>
        /\ state = "AWAITING_DELAY_RESP" /\ rx = "idle" /\ f.master = master
        /\ \A g \in network : g.type \in {"DELAY_REQUEST", "DELAY_RESPONSE"} => g = f

(* A clock that has been set is off by no more than half the largest       *)
(* delay, rounded up, from the clock of the master it was set to.          *)
SyncAccuracy ==
    synced # None =>
        LET error == skew - MasterClock[synced]
        IN  2 * error <= MaxDelay + 1 /\ -2 * error <= MaxDelay + 1

(* While nothing goes wrong, a round of synchronisation ends, so that the  *)
(* timer thread can start the next one: no order of the frames of several  *)
(* masters and rounds leaves the slave waiting for a frame nobody sends.   *)
RoundCompletes ==
    state # "SYNCHRONIZED" ~> state = "SYNCHRONIZED" \/ faults > 0
=============================================================================
