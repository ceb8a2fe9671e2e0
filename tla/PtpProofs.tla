----------------------------- MODULE PtpProofs ------------------------------
(***************************************************************************)
(* Clock synchronisation, for any number of masters, any clocks and any    *)
(* bound on the delay: responses are never mixed up, the clock that is set *)
(* is never negative and is accurate to half the delay.                    *)
(***************************************************************************)
EXTENDS Ptp, TLAPS

FrameType == [type : FrameTypes, master : Masters, t : Nat, at : Nat, round : Nat]

IsReply(f) == f.type \in {"DELAY_REQUEST", "DELAY_RESPONSE"}

(* Frames are no older than MaxDelay, and a master stamps its own time. *)
FramesInv ==
    \A f \in network :
        /\ f.at <= now /\ now <= f.at + MaxDelay
        /\ f.type \in {"SYNC", "DELAY_RESPONSE"} => f.t = f.at + MasterClock[f.master]

(* How long the accepted SYNC was under way. *)
SyncDelay == (t2 - t1) - (skew - MasterClock[master])
SyncGood == 0 <= SyncDelay /\ SyncDelay <= MaxDelay /\ SyncDelay <= now

(* How long the DELAY_REQUEST that f answers was under way. *)
RequestDelay(f) == (f.t - t3) - (MasterClock[master] - skew)

RequestInv ==
    rx = "request" =>
        /\ state = "AWAITING_DELAY_RESP" /\ master \in Masters /\ SyncGood
        /\ \A f \in network : ~IsReply(f)

ReplyInv ==
    \A f \in network : IsReply(f) =>
        /\ SyncGood
        /\ f.type = "DELAY_REQUEST" => t3 = f.at + skew
        /\ f.type = "DELAY_RESPONSE" =>
               0 <= RequestDelay(f) /\ RequestDelay(f) <= MaxDelay

PtpInv ==
    /\ TypeOK /\ FramesInv /\ NoStrayResponse
    /\ RequestInv /\ ReplyInv /\ SyncAccuracy

(* A vehicle starts with no frame under way. *)
LEMMA PtpInit == Init => PtpInv
<1> SUFFICES ASSUME Init PROVE PtpInv OBVIOUS
<1> USE DelayAssumption, MastersAssumption
<1>1. TypeOK BY DEF Init, TypeOK, Clock
<1>2. FramesInv /\ NoStrayResponse /\ ReplyInv
  BY DEF Init, FramesInv, NoStrayResponse, ReplyInv
<1>3. RequestInv /\ SyncAccuracy BY DEF Init, RequestInv, SyncAccuracy
<1> QED BY <1>1, <1>2, <1>3 DEF PtpInv

(* Without a reply under way there is nothing to know about replies. *)
LEMMA NoReplies ==
    ASSUME PtpInv, state # "AWAITING_DELAY_RESP" \/ rx = "request"
    PROVE  \A f \in network : ~IsReply(f)
BY DEF PtpInv, NoStrayResponse, IsReply

(* Time passes. *)
LEMMA TickKeeps ==
    ASSUME PtpInv, Tick
    PROVE  PtpInv'
<1> USE DelayAssumption, MastersAssumption
<1>1. now' = now + 1 /\ UNCHANGED <<skew, network, state, t1, t2, t3, timer, rx,
                                    rounds, faults, master, synced>>
  BY DEF Tick, slave
<1>2. TypeOK' BY <1>1 DEF PtpInv, TypeOK, Clock
<1>3. FramesInv'
  <2>1. \A f \in network : now < f.at + MaxDelay /\ f.at \in Nat
    BY DEF Tick, PtpInv, TypeOK
  <2>2. now \in Nat BY DEF PtpInv, TypeOK
  <2> QED BY <1>1, <2>1, <2>2 DEF PtpInv, FramesInv
<1>4. NoStrayResponse' /\ SyncAccuracy'
  BY <1>1 DEF PtpInv, NoStrayResponse, SyncAccuracy
<1>5. SyncGood /\ master \in Masters => SyncGood'
  BY <1>1 DEF SyncGood, SyncDelay, PtpInv, TypeOK
<1>6. RequestInv' BY <1>1, <1>5 DEF PtpInv, RequestInv
<1>7. ReplyInv'
  <2>1. \A f \in network : IsReply(f) => master \in Masters
    BY DEF PtpInv, TypeOK, NoStrayResponse, IsReply
  <2> QED BY <1>1, <1>5, <2>1 DEF PtpInv, ReplyInv, RequestDelay
<1> QED BY <1>2, <1>3, <1>4, <1>6, <1>7 DEF PtpInv

(* A sum that is not negative, of a natural number and an integer. *)
LEMMA NaturalSum ==
    \A a \in Nat, b \in Int : b \in Nat \/ a + b >= 0 => a + b \in Nat
OBVIOUS

(* Between rounds the drift of the clock meets no timestamp. *)
LEMMA DriftKeeps ==
    ASSUME PtpInv, Drift
    PROVE  PtpInv'
<1> USE DelayAssumption, MastersAssumption
<1>1. /\ skew' \in Skews /\ synced' = None /\ state = "SYNCHRONIZED"
      /\ UNCHANGED <<now, network, state, t1, t2, t3, timer, rx, rounds, faults,
                     master>>
  BY DEF Drift, slave
<1>2. TypeOK'
  <2>1. skew' \in Nat BY <1>1
  <2>2. now' \in Nat BY <1>1 DEF PtpInv, TypeOK
  <2>3. skew' \in Int BY <2>1
  <2>4. now' + skew' \in Nat BY <2>1, <2>2, <2>3, NaturalSum
  <2> QED BY <1>1, <2>2, <2>3, <2>4 DEF PtpInv, TypeOK, Clock
<1>3. FramesInv' /\ NoStrayResponse' /\ SyncAccuracy'
  BY <1>1 DEF PtpInv, FramesInv, NoStrayResponse, SyncAccuracy
<1>4. \A f \in network : ~IsReply(f) BY <1>1, NoReplies
<1>5. RequestInv' BY <1>1 DEF PtpInv, RequestInv
<1>6. ReplyInv' BY <1>1, <1>4 DEF ReplyInv
<1> QED BY <1>2, <1>3, <1>5, <1>6 DEF PtpInv

(* A frame that gets lost takes no fact with it. *)
LEMMA LossKeeps ==
    ASSUME PtpInv, NEW f \in network, Lose(f)
    PROVE  PtpInv'
<1>1. /\ network' = network \ {f} /\ faults' = faults + 1
      /\ UNCHANGED <<now, skew, state, t1, t2, t3, timer, rx, rounds, master, synced>>
  BY DEF Lose, slave
<1>2. TypeOK' BY <1>1 DEF PtpInv, TypeOK, Clock
<1>3. FramesInv' /\ NoStrayResponse' /\ SyncAccuracy'
  BY <1>1 DEF PtpInv, FramesInv, NoStrayResponse, SyncAccuracy
<1>4. SyncGood' = SyncGood BY <1>1 DEF SyncGood, SyncDelay
<1>5. RequestInv' BY <1>1, <1>4 DEF PtpInv, RequestInv
<1>6. ReplyInv' BY <1>1, <1>4 DEF PtpInv, ReplyInv, RequestDelay
<1> QED BY <1>2, <1>3, <1>5, <1>6 DEF PtpInv

(* The timer thread starts a round. *)
LEMMA RoundStarts ==
    ASSUME PtpInv, RequestSynchronization
    PROVE  PtpInv'
<1>1. /\ timer' = "send" /\ state = "SYNCHRONIZED" /\ state' = "AWAITING_SYNC"
      /\ rounds' = rounds + 1
      /\ UNCHANGED <<now, skew, network, t1, t2, t3, rx, faults, master, synced>>
  BY DEF RequestSynchronization
<1>2. TypeOK' BY <1>1 DEF PtpInv, TypeOK, Clock
<1>3. \A f \in network : ~IsReply(f) BY <1>1, NoReplies
<1>4. FramesInv' /\ SyncAccuracy' BY <1>1 DEF PtpInv, FramesInv, SyncAccuracy
<1>5. NoStrayResponse' /\ ReplyInv' BY <1>1, <1>3 DEF NoStrayResponse, ReplyInv, IsReply
<1>6. RequestInv' BY <1>1 DEF PtpInv, RequestInv
<1> QED BY <1>2, <1>4, <1>5, <1>6 DEF PtpInv

(* A frame that is no reply joins the network, and frames may leave it. *)
LEMMA OtherFrames ==
    ASSUME PtpInv, NEW S, network' \subseteq network \cup S,
           \A g \in S : /\ g \in FrameType /\ ~IsReply(g) /\ g.at = now
                        /\ g.type = "SYNC" => g.t = now + MasterClock[g.master],
           UNCHANGED <<now, skew, state, t1, t2, t3, rx, rounds, faults, master, synced>>,
           timer' \in {"sleep", "send"}
    PROVE  PtpInv'
<1> USE DelayAssumption, MastersAssumption
<1>1. TypeOK' BY DEF PtpInv, TypeOK, Clock, FrameType
<1>2. FramesInv'
  <2>1. now \in Nat BY DEF PtpInv, TypeOK
  <2>2. \A g \in S : g.type # "DELAY_RESPONSE" BY DEF IsReply
  <2> QED BY <2>1, <2>2 DEF PtpInv, FramesInv
<1>3. \A g \in network' : IsReply(g) => g \in network OBVIOUS
<1>4. NoStrayResponse' BY <1>3 DEF PtpInv, NoStrayResponse, IsReply
<1>5. SyncAccuracy' BY DEF PtpInv, SyncAccuracy
<1>6. SyncGood' = SyncGood BY DEF SyncGood, SyncDelay
<1>7. RequestInv' BY <1>3, <1>6 DEF PtpInv, RequestInv
<1>8. ReplyInv' BY <1>3, <1>6 DEF PtpInv, ReplyInv, RequestDelay
<1> QED BY <1>1, <1>2, <1>4, <1>5, <1>7, <1>8 DEF PtpInv

(* The START of the timer thread does not touch the signal thread. *)
LEMMA StartKeeps ==
    ASSUME PtpInv, SendStart
    PROVE  PtpInv'
<1> USE DelayAssumption, MastersAssumption
<1> DEFINE S == {Frame("START", m, 0) : m \in Masters}
<1>1. now \in Nat /\ rounds \in Nat BY DEF PtpInv, TypeOK
<1>2. \A g \in S : /\ g \in FrameType /\ ~IsReply(g) /\ g.at = now
                   /\ g.type = "SYNC" => g.t = now + MasterClock[g.master]
  BY <1>1 DEF Frame, FrameType, FrameTypes, IsReply
<1>3. network' = network \cup S /\ timer' = "sleep"
  BY DEF SendStart
<1>4. UNCHANGED <<now, skew, state, t1, t2, t3, rx, rounds, faults, master, synced>>
  BY DEF SendStart, slave
<1> HIDE DEF S
<1> QED BY <1>2, <1>3, <1>4, OtherFrames

(* A master answers a START with its own time. *)
LEMMA SyncSentKeeps ==
    ASSUME PtpInv, NEW f \in network, ReceiveStart(f)
    PROVE  PtpInv'
<1> USE DelayAssumption, MastersAssumption
<1> DEFINE S == {Frame("SYNC", f.master, MasterTime(f.master))}
<1>1. now \in Nat /\ rounds \in Nat /\ f.master \in Masters BY DEF PtpInv, TypeOK
<1>2. \A g \in S : /\ g \in FrameType /\ ~IsReply(g) /\ g.at = now
                   /\ g.type = "SYNC" => g.t = now + MasterClock[g.master]
  BY <1>1 DEF Frame, MasterTime, FrameType, FrameTypes, IsReply
<1>3. network' \subseteq network \cup S BY DEF ReceiveStart
<1>4. /\ UNCHANGED <<now, skew, state, t1, t2, t3, rx, rounds, faults, master, synced>>
      /\ timer' \in {"sleep", "send"}
  BY DEF ReceiveStart, slave, PtpInv, TypeOK
<1> HIDE DEF S
<1> QED BY <1>2, <1>3, <1>4, OtherFrames

(* The slave accepts a SYNC: its delay is between its two timestamps. *)
LEMMA SyncKeeps ==
    ASSUME PtpInv, NEW f \in network, ReceiveSync(f)
    PROVE  PtpInv'
<1> USE DelayAssumption, MastersAssumption
<1>1. CASE state # "AWAITING_SYNC"
  <2> DEFINE S == {}
  <2>1. /\ network' \subseteq network \cup S /\ timer' \in {"sleep", "send"}
        /\ UNCHANGED <<now, skew, state, t1, t2, t3, rx, rounds, faults, master, synced>>
    BY <1>1 DEF ReceiveSync, PtpInv, TypeOK
  <2>2. \A g \in S : /\ g \in FrameType /\ ~IsReply(g) /\ g.at = now
                     /\ g.type = "SYNC" => g.t = now + MasterClock[g.master]
    OBVIOUS
  <2> HIDE DEF S
  <2> QED BY <2>1, <2>2, OtherFrames
<1>2. CASE state = "AWAITING_SYNC"
  <2>1. /\ network' = network \ {f} /\ t1' = f.t /\ t2' = Clock
        /\ state' = "AWAITING_DELAY_RESP" /\ rx' = "request" /\ master' = f.master
        /\ UNCHANGED <<now, skew, t3, timer, rounds, faults, synced>>
    BY <1>2 DEF ReceiveSync
  <2>2. f.type = "SYNC" /\ f.t \in Nat /\ f.master \in Masters /\ f.at \in Nat
    BY DEF ReceiveSync, PtpInv, TypeOK
  <2>3. TypeOK' BY <2>1, <2>2 DEF PtpInv, TypeOK, Clock
  <2>4. \A g \in network' : ~IsReply(g) BY <1>2, <2>1, NoReplies
  <2>5. FramesInv' /\ SyncAccuracy'
    BY <2>1 DEF PtpInv, FramesInv, SyncAccuracy
  <2>6. NoStrayResponse' /\ ReplyInv' BY <2>4 DEF NoStrayResponse, ReplyInv, IsReply
  <2>7. f.t = f.at + MasterClock[f.master] /\ f.at <= now /\ now <= f.at + MaxDelay
    BY <2>2 DEF PtpInv, FramesInv
  <2>8. SyncGood'
    BY <2>1, <2>2, <2>7 DEF SyncGood, SyncDelay, Clock, PtpInv, TypeOK
  <2>9. RequestInv' BY <2>1, <2>2, <2>4, <2>8 DEF RequestInv
  <2> QED BY <2>3, <2>5, <2>6, <2>9 DEF PtpInv
<1> QED BY <1>1, <1>2

(* The request goes to the master of the SYNC, and is the only one. *)
LEMMA RequestKeeps ==
    ASSUME PtpInv, SendDelayReq
    PROVE  PtpInv'
<1> USE DelayAssumption, MastersAssumption
<1> DEFINE g == Frame("DELAY_REQUEST", master, 0)
<1>1. /\ rx = "request" /\ rx' = "idle" /\ t3' = Clock /\ network' = network \cup {g}
      /\ UNCHANGED <<now, skew, state, t1, t2, timer, rounds, faults, master, synced>>
  BY DEF SendDelayReq
<1>2. /\ state = "AWAITING_DELAY_RESP" /\ master \in Masters /\ SyncGood
      /\ \A f \in network : ~IsReply(f)
  BY <1>1 DEF PtpInv, RequestInv
<1>3. /\ g \in FrameType /\ g.type = "DELAY_REQUEST" /\ g.master = master
      /\ g.at = now
  BY <1>2 DEF Frame, FrameType, FrameTypes, PtpInv, TypeOK
<1> HIDE DEF g
<1>4. TypeOK' BY <1>1, <1>3 DEF PtpInv, TypeOK, Clock, FrameType
<1>5. FramesInv'
  <2>1. now \in Nat BY DEF PtpInv, TypeOK
  <2> QED BY <1>1, <1>3, <2>1 DEF PtpInv, FramesInv
<1>6. \A f \in network' : IsReply(f) => f = g BY <1>1, <1>2
<1>7. NoStrayResponse' BY <1>1, <1>2, <1>3, <1>6 DEF NoStrayResponse, IsReply
<1>8. SyncGood' BY <1>1, <1>2 DEF SyncGood, SyncDelay
<1>9. ReplyInv' BY <1>1, <1>3, <1>6, <1>8 DEF ReplyInv, Clock, IsReply
<1>10. RequestInv' /\ SyncAccuracy' BY <1>1 DEF PtpInv, RequestInv, SyncAccuracy
<1> QED BY <1>4, <1>5, <1>7, <1>9, <1>10 DEF PtpInv

(* The response carries the delay of the request. *)
LEMMA ResponseSentKeeps ==
    ASSUME PtpInv, NEW f \in network, ReceiveDelayReq(f)
    PROVE  PtpInv'
<1> USE DelayAssumption, MastersAssumption
<1> DEFINE g == Frame("DELAY_RESPONSE", f.master, MasterTime(f.master))
<1>1. /\ network' = (network \ {f}) \cup {g} /\ f.type = "DELAY_REQUEST"
      /\ UNCHANGED <<now, skew, state, t1, t2, t3, timer, rx, rounds, faults,
                     master, synced>>
  BY DEF ReceiveDelayReq, slave
<1>2. /\ state = "AWAITING_DELAY_RESP" /\ rx = "idle" /\ f.master = master
      /\ \A h \in network : IsReply(h) => h = f
  BY <1>1 DEF PtpInv, NoStrayResponse, IsReply
<1>3. now \in Nat /\ rounds \in Nat /\ f.master \in Masters /\ f.at \in Nat
  BY DEF PtpInv, TypeOK
<1>4. /\ g \in FrameType /\ g.type = "DELAY_RESPONSE" /\ g.master = master
      /\ g.at = now /\ g.t = now + MasterClock[master]
  BY <1>2, <1>3 DEF Frame, MasterTime, FrameType, FrameTypes
<1> HIDE DEF g
<1>5. TypeOK' BY <1>1, <1>4 DEF PtpInv, TypeOK, Clock, FrameType
<1>6. FramesInv' BY <1>1, <1>3, <1>4 DEF PtpInv, FramesInv
<1>7. \A h \in network' : IsReply(h) => h = g BY <1>1, <1>2
<1>8. NoStrayResponse' BY <1>1, <1>2, <1>4, <1>7 DEF NoStrayResponse, IsReply
<1>9. SyncGood /\ t3 = f.at + skew /\ f.at <= now /\ now <= f.at + MaxDelay
  BY <1>1 DEF PtpInv, ReplyInv, FramesInv, IsReply
<1>10. SyncGood' BY <1>1, <1>9 DEF SyncGood, SyncDelay
<1>11. skew \in Int /\ MasterClock[master] \in Nat
  BY <1>2, <1>3 DEF PtpInv, TypeOK
<1>12. (g.t - t3) - (MasterClock[master] - skew) = now - f.at
  BY <1>3, <1>4, <1>9, <1>11
<1>13. /\ 0 <= (g.t - t3) - (MasterClock[master] - skew)
       /\ (g.t - t3) - (MasterClock[master] - skew) <= MaxDelay
  BY <1>3, <1>9, <1>12
<1>14. ReplyInv'
  <2> SUFFICES ASSUME NEW h \in network', IsReply(h)
               PROVE  /\ SyncGood'
                      /\ h.type = "DELAY_REQUEST" => t3' = h.at + skew'
                      /\ h.type = "DELAY_RESPONSE" =>
                           /\ 0 <= (h.t - t3') - (MasterClock[master'] - skew')
                           /\ (h.t - t3') - (MasterClock[master'] - skew') <= MaxDelay
    BY DEF ReplyInv, RequestDelay, IsReply
  <2>1. h = g BY <1>7
  <2> QED BY <1>1, <1>4, <1>10, <1>13, <2>1
<1>15. RequestInv' /\ SyncAccuracy'
  BY <1>1, <1>2 DEF PtpInv, RequestInv, SyncAccuracy
<1> QED BY <1>5, <1>6, <1>8, <1>14, <1>15 DEF PtpInv

(* Halving is exact up to one. *)
LEMMA HalfBounds ==
    ASSUME NEW x \in Int
    PROVE  Half(x) \in Int /\ x - 1 <= 2 * Half(x) /\ 2 * Half(x) <= x + 1
BY DEF Half

(* The clock is set. *)
LEMMA ResponseKeeps ==
    ASSUME PtpInv, NEW f \in network, ReceiveDelayResp(f)
    PROVE  PtpInv'
<1> USE DelayAssumption, MastersAssumption
<1>1. f.type = "DELAY_RESPONSE" /\ network' = network \ {f} BY DEF ReceiveDelayResp
<1>2. /\ state = "AWAITING_DELAY_RESP" /\ rx = "idle" /\ f.master = master
      /\ \A h \in network : IsReply(h) => h = f
  BY <1>1 DEF PtpInv, NoStrayResponse, IsReply
<1>3. \A h \in network' : ~IsReply(h) BY <1>1, <1>2
<1>4. /\ t1' = 0 /\ t2' = 0 /\ t3' = 0
      /\ UNCHANGED <<now, timer, rx, rounds, master>>
      /\ faults' = faults \/ faults' = faults + 1
      /\ \/ skew' = skew - Offset(f.t) /\ state' = "SYNCHRONIZED" /\ synced' = master
         \/ UNCHANGED <<skew, state, synced>>
  BY <1>2 DEF ReceiveDelayResp
<1>5. /\ now \in Nat /\ skew \in Int /\ master \in Masters /\ f.t \in Nat
      /\ t1 \in Nat /\ t2 \in Nat /\ t3 \in Nat /\ MasterClock[master] \in Nat
  BY <1>2 DEF PtpInv, TypeOK
<1>6. SyncGood /\ 0 <= RequestDelay(f) /\ RequestDelay(f) <= MaxDelay
  BY <1>1 DEF PtpInv, ReplyInv, IsReply
<1>7. ASSUME skew' = skew - Offset(f.t), synced' = master
      PROVE  SyncAccuracy' /\ skew' \in Int /\ Clock' \in Nat
  <2> DEFINE x == (t2 - t1) - (f.t - t3)
             off == skew' - MasterClock[master]
  <2>1. x \in Int BY <1>5
  <2>2. x = 2 * (skew - MasterClock[master]) + SyncDelay - RequestDelay(f)
    BY <1>5 DEF SyncDelay, RequestDelay
  <2>3. SyncDelay \in Int /\ RequestDelay(f) \in Int
    BY <1>5 DEF SyncDelay, RequestDelay
  <2>4. Half(x) \in Int /\ x - 1 <= 2 * Half(x) /\ 2 * Half(x) <= x + 1
    BY <2>1, HalfBounds
  <2>5. skew' = skew - Half(x) BY <1>7 DEF Offset
  <2>6. /\ 2 * off <= RequestDelay(f) - SyncDelay + 1
        /\ RequestDelay(f) - SyncDelay - 1 <= 2 * off
    BY <1>5, <2>2, <2>3, <2>4, <2>5
  <2>7. skew' \in Int /\ now + skew' >= 0
    BY <1>5, <1>6, <2>3, <2>4, <2>5, <2>6 DEF SyncGood
  <2>8. 2 * off <= MaxDelay + 1 /\ -2 * off <= MaxDelay + 1
    BY <1>5, <1>6, <2>3, <2>6, <2>7 DEF SyncGood
  <2>9. SyncAccuracy' BY <1>7, <1>4, <2>8 DEF SyncAccuracy
  <2>10. Clock' = now + skew' BY <1>4 DEF Clock
  <2>11. Clock' \in Nat BY <1>5, <2>7, <2>10, NaturalSum
  <2> QED BY <2>7, <2>9, <2>11
<1>8. ASSUME UNCHANGED <<skew, state, synced>>
      PROVE  SyncAccuracy' /\ skew' \in Int /\ Clock' \in Nat
  BY <1>8, <1>4 DEF PtpInv, SyncAccuracy, TypeOK, Clock
<1>9. SyncAccuracy' /\ skew' \in Int /\ Clock' \in Nat
  BY <1>4, <1>7, <1>8
<1>10. TypeOK' BY <1>1, <1>4, <1>9 DEF PtpInv, TypeOK
<1>11. FramesInv' BY <1>1, <1>4 DEF PtpInv, FramesInv
<1>12. NoStrayResponse' /\ ReplyInv' BY <1>3 DEF NoStrayResponse, ReplyInv, IsReply
<1>13. RequestInv' BY <1>2, <1>4 DEF RequestInv
<1> QED BY <1>9, <1>10, <1>11, <1>12, <1>13 DEF PtpInv

(* Every step keeps the invariant. *)
LEMMA PtpStep ==
    ASSUME PtpInv, [Next]_vars
    PROVE  PtpInv'
<1>1. CASE UNCHANGED vars
  BY <1>1 DEF vars, slave, PtpInv, TypeOK, Clock, FramesInv, NoStrayResponse,
              RequestInv, ReplyInv, SyncAccuracy, SyncGood, SyncDelay, RequestDelay
<1>2. CASE Tick BY <1>2, TickKeeps
<1>3. CASE Drift BY <1>3, DriftKeeps
<1>4. CASE RequestSynchronization BY <1>4, RoundStarts
<1>5. CASE SendStart BY <1>5, StartKeeps
<1>6. CASE SendDelayReq BY <1>6, RequestKeeps
<1>7. ASSUME NEW f \in network, Deliver(f) \/ Lose(f) PROVE PtpInv'
  BY <1>7, SyncSentKeeps, ResponseSentKeeps, SyncKeeps, ResponseKeeps, LossKeeps
     DEF Deliver
<1> QED BY <1>1, <1>2, <1>3, <1>4, <1>5, <1>6, <1>7 DEF Next

(* The invariant of a vehicle and its masters. *)
THEOREM PtpInvariant == Spec => []PtpInv
<1>1. Init => PtpInv BY PtpInit
<1>2. PtpInv /\ [Next]_vars => PtpInv' BY PtpStep
<1> QED BY <1>1, <1>2, PTL DEF Spec

(* The clock and the timestamps, unsigned in the code, are never negative. *)
THEOREM PtpTypes == Spec => []TypeOK
<1>1. PtpInv => TypeOK BY DEF PtpInv
<1> QED BY <1>1, PtpInvariant, PTL

(* receive_delay_resp never meets the response of another master or of     *)
(* another round.                                                          *)
THEOREM ResponsesMatch == Spec => []NoStrayResponse
<1>1. PtpInv => NoStrayResponse BY DEF PtpInv
<1> QED BY <1>1, PtpInvariant, PTL

(* synchronize sets the clock to within half the delay of its master's.    *)
THEOREM ClockAccurate == Spec => []SyncAccuracy
<1>1. PtpInv => SyncAccuracy BY DEF PtpInv
<1> QED BY <1>1, PtpInvariant, PTL
=============================================================================
