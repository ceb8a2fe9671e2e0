---------------------------- MODULE RoutingProofs ----------------------------
(***************************************************************************)
(* Safety of the routing for every set of vehicles and components, however *)
(* many messages are sent.                                                 *)
(***************************************************************************)
EXTENDS Routing, SequenceTheorems, TLAPS

-----------------------------------------------------------------------------
(***************************************************************************)
(* The inductive invariant.                                                *)
(***************************************************************************)

Kinds == {"PING", "ECHO", "INTEREST", "RESPONSE"}
Latency == {"PING", "ECHO"}

(* The vehicle whose ring a process reads. *)
VehicleOf(p) == IF p \in Vehicles THEN p ELSE Home[p]

(* The messages of a set and of a list of frames, and a list that holds    *)
(* each message once.                                                      *)
Msgs(F) == {Identity(f) : f \in F}
Ids(s) == Msgs(Range(s))
Once(s) == \A i, j \in DOMAIN s : Identity(s[i]) = Identity(s[j]) => i = j

(* A message that is for other vehicles: all but the PINGs sent inside and *)
(* their ECHOes.                                                           *)
Outside(f) == f.kind \in Latency => f.ts % 2 = 1

(* What its sender puts into a frame.  A PING sent outside is echoed by    *)
(* the first port of another vehicle, one sent inside by that of its own.  *)
Made(f) ==
    /\ f \in Frame /\ f.sport = Port[f.by]
    /\ f.dport = IF f.kind \in Latency THEN BASE_PORT ELSE TYPE_BASED_ROUTING_PORT
    /\ f.kind # "ECHO" => f.sid = f.by
    /\ f.kind = "ECHO" => /\ Port[f.by] = BASE_PORT
                          /\ f.ts % 2 = 1 <=> Home[f.sid] # Home[f.by]

(* What the addresses of a frame are, by where it is: the message and the  *)
(* place determine the frame.                                              *)
RingFrame(v, f) ==
    /\ Made(f)
    /\ Home[f.by] = v => f.src = Local /\ f.dst = IF Outside(f) THEN Broadcast ELSE Local
    /\ Home[f.by] # v => f.src = Home[f.by] /\ f.dst = Local /\ Outside(f)
AirFrame(f) == Made(f) /\ f.src = Home[f.by] /\ f.dst = Broadcast /\ Outside(f)
QueueFrame(c, f) == RingFrame(Home[c], f) /\ Matches(c, f)

Forms ==
    /\ \A p \in Processes : \A f \in Range(unread[p]) : RingFrame(VehicleOf(p), f)
    /\ \A v \in Vehicles : \A f \in air[v] : AirFrame(f)
    /\ \A c \in Components : \A f \in Range(queue[c]) : QueueFrame(c, f)

(* A message that exists was sent; an ECHO answers a PING that its sender  *)
(* has queued and taken.                                                   *)
Sent(id) ==
    /\ id[1] = "PING" => id[4] \in 1 .. pinged[id[2]]
    /\ id[1] = "RESPONSE" => id[4] \in 1 .. replied[id[2]]
    /\ id[1] = "INTEREST" => interested[id[2]]
    /\ id[1] = "ECHO" => <<"PING", id[3], id[3], id[4]>> \in seen[id[2]] \ Ids(queue[id[2]])

AllSent ==
    /\ \A p \in Processes : \A id \in Ids(unread[p]) : Sent(id)
    /\ \A v \in Vehicles : \A id \in Msgs(air[v]) : Sent(id)
    /\ \A c \in Components : \A id \in seen[c] : Sent(id)

(* A process has a message at most once: in its list, or queued before. *)
ReadOnce ==
    /\ \A p \in Processes : Once(unread[p])
    /\ \A c \in Components : /\ Once(queue[c]) /\ Ids(queue[c]) \subseteq seen[c]
                             /\ Ids(unread[c]) \cap seen[c] = {}

(* A message on the air has not reached the vehicle yet. *)
AirOnce ==
    \A v \in Vehicles : \A id \in Msgs(air[v]) : Home[id[2]] # v =>
        /\ \A p \in Processes : VehicleOf(p) = v => id \notin Ids(unread[p])
        /\ \A c \in Components : Home[c] = v => id \notin seen[c]

(* A message of its own vehicle that the gateway has yet to read has not   *)
(* left the vehicle.                                                       *)
InsideFirst ==
    \A v \in Vehicles : \A id \in Ids(unread[v]) : Home[id[2]] = v =>
        /\ \A w \in Vehicles : id \notin Msgs(air[w])
        /\ \A p \in Processes : VehicleOf(p) # v => id \notin Ids(unread[p])
        /\ \A c \in Components : Home[c] # v => id \notin seen[c]

MessageIds == Kinds \X Components \X Components \X Nat
SeenType == seen \in [Components -> SUBSET MessageIds]

RouteInv ==
    /\ TypeOK /\ SeenType /\ Forms /\ AllSent
    /\ ReadOnce /\ AirOnce /\ InsideFirst
    /\ MeasuresOwn /\ DeliveredOnce

-----------------------------------------------------------------------------
(***************************************************************************)
(* Lists of frames.                                                        *)
(***************************************************************************)

(* A frame is appended. *)
LEMMA ListAppend ==
    ASSUME NEW s \in Seq(Frame), NEW f \in Frame
    PROVE  /\ Append(s, f) \in Seq(Frame)
           /\ Range(Append(s, f)) = Range(s) \cup {f}
           /\ Ids(Append(s, f)) = Ids(s) \cup {Identity(f)}
           /\ Once(s) /\ Identity(f) \notin Ids(s) => Once(Append(s, f))
<1> DEFINE t == Append(s, f)
<1>1. /\ t \in Seq(Frame) /\ Len(t) = Len(s) + 1 /\ Len(s) \in Nat
      /\ DOMAIN s = 1 .. Len(s) /\ DOMAIN t = 1 .. Len(s) + 1
      /\ \A i \in 1 .. Len(s) : t[i] = s[i]
      /\ t[Len(s) + 1] = f
  BY AppendProperties
<1> HIDE DEF t
<1>2. Range(t) = Range(s) \cup {f}
  <2>1. ASSUME NEW i \in DOMAIN t PROVE t[i] \in Range(s) \cup {f}
    <3>1. CASE i = Len(s) + 1
      BY <1>1, <3>1
    <3>2. CASE i \in 1 .. Len(s)
      BY <1>1, <3>2 DEF Range
    <3> QED BY <1>1, <3>1, <3>2
  <2>2. ASSUME NEW i \in DOMAIN s PROVE i \in DOMAIN t /\ t[i] = s[i]
    BY <1>1
  <2>3. Len(s) + 1 \in DOMAIN t
    BY <1>1
  <2> QED BY <1>1, <2>1, <2>2, <2>3 DEF Range
<1>3. Ids(t) = Ids(s) \cup {Identity(f)}
  BY <1>2 DEF Ids, Msgs
<1>4. ASSUME Once(s), Identity(f) \notin Ids(s),
             NEW i \in DOMAIN t, NEW j \in DOMAIN t, Identity(t[i]) = Identity(t[j])
      PROVE  i = j
  <2>1. ASSUME NEW k \in 1 .. Len(s) PROVE Identity(t[k]) # Identity(f)
    BY <1>1, <1>4 DEF Ids, Msgs, Range
  <2>2. CASE i \in 1 .. Len(s) /\ j \in 1 .. Len(s)
    BY <1>1, <1>4, <2>2 DEF Once
  <2>3. CASE i = Len(s) + 1
    BY <1>1, <1>4, <2>1, <2>3
  <2>4. CASE j = Len(s) + 1
    BY <1>1, <1>4, <2>1, <2>4
  <2> QED BY <1>1, <2>2, <2>3, <2>4
<1>5. Once(s) /\ Identity(f) \notin Ids(s) => Once(t)
  BY <1>4 DEF Once
<1> QED BY <1>1, <1>2, <1>3, <1>5 DEF t

(* The first frame is taken. *)
LEMMA ListTail ==
    ASSUME NEW s \in Seq(Frame), s # <<>>
    PROVE  /\ Tail(s) \in Seq(Frame) /\ Head(s) \in Range(s) /\ Head(s) \in Frame
           /\ Range(Tail(s)) \subseteq Range(s)
           /\ Ids(s) = Ids(Tail(s)) \cup {Identity(Head(s))}
           /\ Once(s) => Once(Tail(s)) /\ Identity(Head(s)) \notin Ids(Tail(s))
<1> DEFINE t == Tail(s)
<1>1. /\ t \in Seq(Frame) /\ Len(s) \in Nat \ {0} /\ Head(s) = s[1] /\ Head(s) \in Frame
      /\ DOMAIN s = 1 .. Len(s) /\ DOMAIN t = 1 .. Len(s) - 1
      /\ \A i \in 1 .. Len(s) - 1 : t[i] = s[i + 1]
  BY HeadTailProperties
<1> HIDE DEF t
<1>2. 1 \in DOMAIN s /\ Head(s) \in Range(s)
  BY <1>1 DEF Range
<1>3. ASSUME NEW i \in DOMAIN t PROVE i + 1 \in DOMAIN s /\ i + 1 # 1 /\ t[i] = s[i + 1]
  BY <1>1
<1>4. Range(t) \subseteq Range(s)
  BY <1>3 DEF Range
<1>5. Ids(s) = Ids(t) \cup {Identity(Head(s))}
  <2>1. ASSUME NEW i \in DOMAIN s PROVE s[i] \in Range(t) \cup {Head(s)}
    <3>1. CASE i = 1
      BY <1>1, <3>1
    <3>2. CASE i # 1
      <4>1. i - 1 \in DOMAIN t /\ t[i - 1] = s[(i - 1) + 1] /\ (i - 1) + 1 = i
        BY <1>1, <3>2
      <4> QED BY <4>1 DEF Range
    <3> QED BY <3>1, <3>2
  <2>2. Range(s) = Range(t) \cup {Head(s)}
    BY <1>2, <1>4, <2>1 DEF Range
  <2> QED BY <2>2 DEF Ids, Msgs
<1>6. ASSUME Once(s), NEW i \in DOMAIN t, NEW j \in DOMAIN t, Identity(t[i]) = Identity(t[j])
      PROVE  i = j
  <2>1. i + 1 = j + 1
    BY <1>3, <1>6 DEF Once
  <2> QED BY <1>1, <2>1
<1>7. ASSUME Once(s), NEW i \in DOMAIN t PROVE Identity(t[i]) # Identity(Head(s))
  <2>1. Identity(s[i + 1]) # Identity(s[1])
    BY <1>2, <1>3, <1>7 DEF Once
  <2> QED BY <1>1, <1>3, <2>1
<1>8. Once(s) => Once(t) /\ Identity(Head(s)) \notin Ids(t)
  BY <1>6, <1>7 DEF Once, Ids, Msgs, Range
<1> QED BY <1>1, <1>2, <1>4, <1>5, <1>8 DEF t

-----------------------------------------------------------------------------
(***************************************************************************)
(* What steps do to the lists.                                             *)
(***************************************************************************)

(* Who reads which ring. *)
LEMMA Places ==
    /\ \A p \in Processes : VehicleOf(p) \in Vehicles
    /\ \A p \in Processes, v \in Vehicles : p \in Aboard(v) <=> VehicleOf(p) = v
    /\ \A v \in Vehicles : v \in Processes /\ VehicleOf(v) = v
    /\ \A c \in Components : /\ c \in Processes /\ Home[c] \in Vehicles
                              /\ VehicleOf(c) = Home[c] /\ c \notin Vehicles
BY AddressesAssumption DEF Processes, Aboard, VehicleOf

(* The messages of frames are message ids, and an id tells its fields. *)
LEMMA FrameIds ==
    ASSUME NEW f \in Frame
    PROVE  /\ Identity(f) \in MessageIds
           /\ Identity(f)[1] = f.kind /\ Identity(f)[2] = f.by
           /\ Identity(f)[3] = f.sid /\ Identity(f)[4] = f.ts
BY DEF Frame, Identity, MessageIds, Kinds

(* Every message there is has an id of the right type. *)
LEMMA IdTypes ==
    ASSUME TypeOK, SeenType
    PROVE  /\ \A p \in Processes : Ids(unread[p]) \subseteq MessageIds
           /\ \A v \in Vehicles : Msgs(air[v]) \subseteq MessageIds
           /\ \A c \in Components : seen[c] \subseteq MessageIds
<1>1. ASSUME NEW F \in SUBSET Frame PROVE Msgs(F) \subseteq MessageIds
  BY FrameIds DEF Msgs
<1>2. ASSUME NEW p \in Processes PROVE Range(unread[p]) \subseteq Frame
  BY RangeOfSeq DEF TypeOK
<1> QED BY <1>1, <1>2 DEF TypeOK, SeenType, Ids

(* Publish appends the frame to what every process aboard has to read. *)
LEMMA PublishEffect ==
    ASSUME TypeOK, NEW v \in Vehicles, NEW f \in Frame, Publish(v, f)
    PROVE  /\ unread' \in [Processes -> Seq(Frame)]
           /\ \A p \in Processes :
                IF VehicleOf(p) = v
                THEN /\ Range(unread'[p]) = Range(unread[p]) \cup {f}
                     /\ Ids(unread'[p]) = Ids(unread[p]) \cup {Identity(f)}
                     /\ Once(unread[p]) /\ Identity(f) \notin Ids(unread[p]) => Once(unread'[p])
                ELSE unread'[p] = unread[p]
<1>1. ASSUME NEW p \in Processes
      PROVE  unread'[p] = IF VehicleOf(p) = v THEN Append(unread[p], f) ELSE unread[p]
  BY Places DEF Publish
<1>2. ASSUME NEW p \in Processes PROVE unread[p] \in Seq(Frame)
  BY DEF TypeOK
<1>3. unread' = [p \in Processes |-> unread'[p]]
  BY DEF Publish
<1>4. ASSUME NEW p \in Processes, VehicleOf(p) = v
      PROVE  /\ unread'[p] \in Seq(Frame)
             /\ Range(unread'[p]) = Range(unread[p]) \cup {f}
             /\ Ids(unread'[p]) = Ids(unread[p]) \cup {Identity(f)}
             /\ Once(unread[p]) /\ Identity(f) \notin Ids(unread[p]) => Once(unread'[p])
  <2> DEFINE s == unread[p]
  <2>1. s \in Seq(Frame) /\ unread'[p] = Append(s, f)
    BY <1>1, <1>2, <1>4
  <2> HIDE DEF s
  <2>2. /\ Append(s, f) \in Seq(Frame)
        /\ Range(Append(s, f)) = Range(s) \cup {f}
        /\ Ids(Append(s, f)) = Ids(s) \cup {Identity(f)}
        /\ Once(s) /\ Identity(f) \notin Ids(s) => Once(Append(s, f))
    BY <2>1, ListAppend
  <2> QED BY <2>1, <2>2, Zenon DEF s
<1>5. unread' \in [Processes -> Seq(Frame)]
  <2>1. ASSUME NEW p \in Processes PROVE unread'[p] \in Seq(Frame)
    BY <1>1, <1>2, <1>4
  <2> QED BY <1>3, <2>1
<1> QED BY <1>1, <1>4, <1>5

(* Reads takes the first frame of one process. *)
LEMMA ReadEffect ==
    ASSUME TypeOK, NEW p \in Processes, Reads(p)
    PROVE  /\ unread' \in [Processes -> Seq(Frame)]
           /\ NextFrame(p) \in Frame /\ NextFrame(p) \in Range(unread[p])
           /\ Ids(unread[p]) = Ids(unread'[p]) \cup {Identity(NextFrame(p))}
           /\ Range(unread'[p]) \subseteq Range(unread[p])
           /\ Once(unread[p]) => Once(unread'[p]) /\ Identity(NextFrame(p)) \notin Ids(unread'[p])
           /\ \A q \in Processes : q # p => unread'[q] = unread[q]
<1>1. /\ unread[p] \in Seq(Frame) /\ unread[p] # <<>> /\ unread'[p] = Tail(unread[p])
      /\ unread' = [unread EXCEPT ![p] = Tail(unread[p])]
  BY DEF TypeOK, Reads
<1>2. unread' \in [Processes -> Seq(Frame)]
  BY <1>1, ListTail DEF TypeOK
<1> QED BY <1>1, <1>2, ListTail DEF NextFrame, TypeOK

(* Frames are taken from queues, if at all. *)
Shortens(c) ==
    /\ Range(queue'[c]) \subseteq Range(queue[c])
    /\ Ids(queue'[c]) \subseteq Ids(queue[c])
    /\ Once(queue[c]) => Once(queue'[c])
QueuesShorten ==
    /\ queue' \in [Components -> Seq(Frame)]
    /\ \A c \in Components : Shortens(c)

(* Takes removes the first frame of the queue. *)
LEMMA TakeEffect ==
    ASSUME TypeOK, NEW c \in Components, NEW kinds, Takes(c, kinds)
    PROVE  /\ QueuesShorten
           /\ Head(queue[c]) \in Frame /\ Head(queue[c]) \in Range(queue[c])
           /\ Head(queue[c]).kind \in kinds
           /\ Ids(queue[c]) = Ids(queue'[c]) \cup {Identity(Head(queue[c]))}
           /\ \A d \in Components : d # c => queue'[d] = queue[d]
           /\ Once(queue[c]) => Identity(Head(queue[c])) \notin Ids(queue'[c])
<1>1. /\ queue[c] \in Seq(Frame) /\ queue[c] # <<>> /\ queue'[c] = Tail(queue[c])
      /\ queue' = [queue EXCEPT ![c] = Tail(queue[c])]
      /\ Head(queue[c]).kind \in kinds
  BY DEF TypeOK, Takes
<1>2. queue' \in [Components -> Seq(Frame)]
  BY <1>1, ListTail DEF TypeOK
<1>3. \A d \in Components : d # c => queue'[d] = queue[d]
  BY <1>1 DEF TypeOK
<1>4. \A d \in Components : Shortens(d)
  BY <1>1, <1>3, ListTail DEF Shortens
<1> QED BY <1>1, <1>2, <1>4, ListTail DEF QueuesShorten

-----------------------------------------------------------------------------
(***************************************************************************)
(* A message that was sent stays sent.                                     *)
(***************************************************************************)

(* Counters grow, and the rest of what is sent keeps its type. *)
Grows ==
    /\ messages' \in Nat /\ asked' \in [Components -> BOOLEAN]
    /\ pinged' \in [Components -> Nat] /\ replied' \in [Components -> Nat]
    /\ interested' \in [Components -> BOOLEAN]
    /\ \A c \in Components : /\ pinged[c] <= pinged'[c] /\ replied[c] <= replied'[c]
                             /\ interested[c] => interested'[c]

(* What was queued stays in the history, and does not come back. *)
NoReturn ==
    \A c \in Components : seen[c] \subseteq seen'[c] /\ Ids(queue'[c]) \cap seen[c] \subseteq Ids(queue[c])

(* Nothing un-sends a message. *)
LEMMA SentStays ==
    ASSUME TypeOK, Grows, NoReturn, NEW id \in MessageIds, Sent(id)
    PROVE  Sent(id)'
<1>1. /\ id[2] \in Components /\ id[4] \in Nat
  BY DEF MessageIds
<1>2. /\ pinged[id[2]] \in Nat /\ pinged'[id[2]] \in Nat /\ pinged[id[2]] <= pinged'[id[2]]
      /\ replied[id[2]] \in Nat /\ replied'[id[2]] \in Nat /\ replied[id[2]] <= replied'[id[2]]
      /\ interested[id[2]] => interested'[id[2]]
  BY <1>1 DEF TypeOK, Grows
<1>3. id[1] = "PING" => id[4] \in 1 .. pinged'[id[2]]
  BY <1>1, <1>2 DEF Sent
<1>4. id[1] = "RESPONSE" => id[4] \in 1 .. replied'[id[2]]
  BY <1>1, <1>2 DEF Sent
<1>5. id[1] = "INTEREST" => interested'[id[2]]
  BY <1>1, <1>2 DEF Sent
<1>6. id[1] = "ECHO" => <<"PING", id[3], id[3], id[4]>> \in seen'[id[2]] \ Ids(queue'[id[2]])
  BY <1>1 DEF Sent, NoReturn
<1> QED BY <1>3, <1>4, <1>5, <1>6 DEF Sent

(* Every message is one that was there before, or one that is sent now. *)
LEMMA AllSentStays ==
    ASSUME TypeOK, SeenType, Grows, NoReturn, NEW m, Sent(m)',
           \A p \in Processes : \A id \in Ids(unread'[p]) : id = m \/ (id \in MessageIds /\ Sent(id)),
           \A v \in Vehicles : \A id \in Msgs(air'[v]) : id \in MessageIds /\ Sent(id),
           \A c \in Components : \A id \in seen'[c] : id \in MessageIds /\ Sent(id)
    PROVE  AllSent'
BY SentStays DEF AllSent

(* Nothing is queued: what was queued before is the history still. *)
LEMMA NothingReturns ==
    ASSUME QueuesShorten, UNCHANGED seen
    PROVE  NoReturn
<1>1. ASSUME NEW c \in Components PROVE Ids(queue'[c]) \subseteq Ids(queue[c])
  BY DEF QueuesShorten, Shortens
<1> QED BY <1>1 DEF NoReturn

(* A measurement stays one of the component's own PINGs. *)
LEMMA MeasuresStay ==
    ASSUME TypeOK, MeasuresOwn, Grows, UNCHANGED rtt
    PROVE  MeasuresOwn'
<1> SUFFICES ASSUME NEW c \in Components, NEW m \in rtt[c]
             PROVE  /\ m.ts \in 1 .. pinged'[c] /\ Port[c] = BASE_PORT /\ Port[m.from] = BASE_PORT
                    /\ IF m.ts % 2 = 1 THEN Home[m.from] # Home[c] ELSE m.from = c
  BY DEF MeasuresOwn
<1>1. /\ m.ts \in 1 .. pinged[c] /\ Port[c] = BASE_PORT /\ Port[m.from] = BASE_PORT
      /\ IF m.ts % 2 = 1 THEN Home[m.from] # Home[c] ELSE m.from = c
  BY DEF MeasuresOwn
<1>2. pinged[c] \in Nat /\ pinged'[c] \in Nat /\ pinged[c] <= pinged'[c]
  BY DEF Grows, TypeOK
<1>3. m.ts \in 1 .. pinged'[c]
  BY <1>1, <1>2
<1> QED BY <1>1, <1>3

-----------------------------------------------------------------------------
(***************************************************************************)
(* A new message is put into the ring of its sender's vehicle.             *)
(***************************************************************************)

(* A message that is nowhere and was nowhere. *)
Fresh(id) ==
    /\ \A p \in Processes : id \notin Ids(unread[p])
    /\ \A v \in Vehicles : id \notin Msgs(air[v])
    /\ \A c \in Components : id \notin seen[c]

(* No new message was ever sent before. *)
LEMMA UnsentIsFresh ==
    ASSUME AllSent, NEW id, ~Sent(id)
    PROVE  Fresh(id)
BY DEF AllSent, Fresh

(* The forms of the frames after a step that publishes one. *)
LEMMA PublishForms ==
    ASSUME TypeOK, Forms, NEW v \in Vehicles, NEW f, RingFrame(v, f), Publish(v, f),
           \A w \in Vehicles : air'[w] \subseteq air[w], QueuesShorten
    PROVE  Forms'
<1>1. f \in Frame
  BY DEF RingFrame, Made
<1>2. ASSUME NEW p \in Processes, NEW g \in Range(unread'[p]) PROVE RingFrame(VehicleOf(p), g)
  <2>1. g \in Range(unread[p]) \/ (g = f /\ VehicleOf(p) = v)
    BY <1>1, <1>2, PublishEffect
  <2> QED BY <2>1 DEF Forms
<1>3. ASSUME NEW c \in Components, NEW g \in Range(queue'[c]) PROVE QueueFrame(c, g)
  BY <1>3 DEF Forms, QueuesShorten, Shortens
<1>4. ASSUME NEW w \in Vehicles, NEW g \in air'[w] PROVE AirFrame(g)
  BY <1>4 DEF Forms
<1> QED BY <1>2, <1>3, <1>4 DEF Forms, QueueFrame, Matches

(* A new message reaches everybody aboard, and nobody else, once. *)
LEMMA PublishOnce ==
    ASSUME TypeOK, ReadOnce, AirOnce, InsideFirst, QueuesShorten, UNCHANGED <<air, seen>>,
           NEW v \in Vehicles, NEW f \in Frame, Home[f.by] = v, Publish(v, f), Fresh(Identity(f))
    PROVE  (ReadOnce /\ AirOnce /\ InsideFirst)'
<1> DEFINE m == Identity(f)
<1>1. /\ \A p \in Processes : VehicleOf(p) = v => /\ Ids(unread'[p]) = Ids(unread[p]) \cup {m}
                                                  /\ Once(unread[p]) => Once(unread'[p])
      /\ \A p \in Processes : VehicleOf(p) # v => unread'[p] = unread[p]
  BY PublishEffect DEF Fresh
<1>2. Home[m[2]] = v
  BY FrameIds
<1> HIDE DEF m
<1>3. /\ \A p \in Processes : m \notin Ids(unread[p])
      /\ \A w \in Vehicles : m \notin Msgs(air[w])
      /\ \A c \in Components : m \notin seen[c]
  BY DEF Fresh, m
<1>4. ASSUME NEW p \in Processes PROVE Ids(unread'[p]) \subseteq Ids(unread[p]) \cup {m}
  BY <1>1
<1>5. ReadOnce'
  <2>1. ASSUME NEW p \in Processes PROVE Once(unread'[p])
    BY <1>1 DEF ReadOnce
  <2>2. ASSUME NEW c \in Components PROVE Ids(unread'[c]) \cap seen[c] = {}
    BY <1>3, <1>4, Places DEF ReadOnce
  <2>3. ASSUME NEW c \in Components PROVE Once(queue'[c]) /\ Ids(queue'[c]) \subseteq seen[c]
    BY DEF ReadOnce, QueuesShorten, Shortens
  <2> QED BY <2>1, <2>2, <2>3 DEF ReadOnce
<1>6. AirOnce'
  BY <1>3, <1>4 DEF AirOnce
<1>7. InsideFirst'
  <2> SUFFICES ASSUME NEW w \in Vehicles, NEW id \in Ids(unread'[w]), Home[id[2]] = w
               PROVE  /\ \A u \in Vehicles : id \notin Msgs(air[u])
                      /\ \A p \in Processes : VehicleOf(p) # w => id \notin Ids(unread'[p])
                      /\ \A c \in Components : Home[c] # w => id \notin seen[c]
    BY DEF InsideFirst
  <2>1. CASE id = m
    BY <1>1, <1>2, <1>3, <2>1
  <2>2. CASE id # m
    <3>1. id \in Ids(unread[w])
      BY <1>4, <2>2, Places
    <3> QED BY <1>4, <2>2, <3>1 DEF InsideFirst
  <2> QED BY <2>1, <2>2
<1> QED BY <1>5, <1>6, <1>7

(* Sending a message that was not sent before keeps the invariant. *)
LEMMA SendsNew ==
    ASSUME RouteInv, NEW c \in Components, NEW f, RingFrame(Home[c], f), f.by = c,
           ~Sent(Identity(f)), Sent(Identity(f))', Publish(Home[c], f), Grows, QueuesShorten,
           UNCHANGED <<air, rtt, seen, again>>
    PROVE  RouteInv'
<1>1. /\ TypeOK /\ SeenType /\ Forms /\ AllSent /\ ReadOnce /\ AirOnce /\ InsideFirst
      /\ MeasuresOwn /\ DeliveredOnce
      /\ f \in Frame /\ Home[c] \in Vehicles
  BY Places DEF RouteInv, RingFrame, Made
<1>2. Fresh(Identity(f))
  BY <1>1, UnsentIsFresh
<1>3. TypeOK' /\ SeenType'
  BY <1>1, PublishEffect DEF TypeOK, SeenType, Grows, QueuesShorten
<1>4. Forms'
  BY <1>1, PublishForms
<1>5. AllSent'
  <2>1. ASSUME NEW p \in Processes, NEW id \in Ids(unread'[p])
        PROVE  id = Identity(f) \/ (id \in MessageIds /\ Sent(id))
    <3>1. id \in Ids(unread[p]) \/ id = Identity(f)
      BY <1>1, <2>1, PublishEffect
    <3> QED BY <1>1, <3>1, IdTypes DEF AllSent
  <2>2. /\ \A v \in Vehicles : \A id \in Msgs(air'[v]) : id \in MessageIds /\ Sent(id)
        /\ \A d \in Components : \A id \in seen'[d] : id \in MessageIds /\ Sent(id)
    BY <1>1, IdTypes DEF AllSent
  <2>3. NoReturn
    BY NothingReturns
  <2> QED BY <1>1, <2>1, <2>2, <2>3, AllSentStays
<1>6. (ReadOnce /\ AirOnce /\ InsideFirst)'
  BY <1>1, <1>2, PublishOnce
<1>7. MeasuresOwn' /\ DeliveredOnce'
  BY <1>1, MeasuresStay DEF DeliveredOnce
<1> QED BY <1>3, <1>4, <1>5, <1>6, <1>7 DEF RouteInv

(* A step that sends nothing and takes nothing. *)
LEMMA NothingSent ==
    ASSUME TypeOK
    PROVE  /\ UNCHANGED queue => QueuesShorten
           /\ UNCHANGED <<messages, pinged, replied, interested, asked>> => Grows
<1>1. UNCHANGED queue => QueuesShorten
  BY DEF TypeOK, QueuesShorten, Shortens
<1>2. UNCHANGED <<messages, pinged, replied, interested, asked>> => Grows
  BY DEF TypeOK, Grows
<1> QED BY <1>1, <1>2

(* The types of what a component sends and has sent. *)
LEMMA SendTypes ==
    ASSUME TypeOK, NEW c \in Components
    PROVE  /\ pinged[c] \in Nat /\ replied[c] \in Nat /\ messages \in Nat
           /\ Port[c] \in Nat /\ Home[c] \in Vehicles
BY AddressesAssumption DEF TypeOK

(* PINGs are numbered, and alternate between outside and inside. *)
LEMMA SendPingInv ==
    ASSUME RouteInv, NEW c \in Components, SendPing(c)
    PROVE  RouteInv'
<1>n. PICK n : n = pinged[c] + 1
  OBVIOUS
<1>f. PICK f : f = [kind |-> "PING", by |-> c, sid |-> c, ts |-> n, src |-> Local,
                    sport |-> Port[c], dst |-> IF pinged[c] % 2 = 0 THEN Broadcast ELSE Local,
                    dport |-> BASE_PORT]
  OBVIOUS
<1>1. TypeOK /\ pinged[c] \in Nat /\ Port[c] \in Nat /\ messages \in Nat
  BY SendTypes DEF RouteInv
<1>2. n \in Nat /\ (n % 2 = 1 <=> pinged[c] % 2 = 0)
  BY <1>1, <1>n
<1>3. RingFrame(Home[c], f)
  <2>1. f \in Frame
    BY <1>1, <1>2, <1>f DEF Frame, BASE_PORT
  <2> QED BY <2>1, <1>2, <1>f DEF RingFrame, Made, Outside, Latency
<1>4. Identity(f) = <<"PING", c, c, n>>
  BY <1>f DEF Identity
<1>5. Publish(Home[c], f) /\ UNCHANGED <<air, rtt, seen, again>>
  BY <1>n, <1>f DEF SendPing, Send, taken, history
<1>6. pinged' = [pinged EXCEPT ![c] = n]
  BY <1>n DEF SendPing
<1>7. Grows
  <2>1. messages' \in Nat /\ UNCHANGED <<replied, interested, asked>>
    BY <1>1 DEF SendPing, Starts, taken
  <2>2. pinged' \in [Components -> Nat] /\ \A d \in Components : pinged[d] <= pinged'[d]
    BY <1>1, <1>n, <1>6 DEF TypeOK
  <2> QED BY <1>1, <2>1, <2>2 DEF Grows, TypeOK
<1>8. QueuesShorten
  BY <1>1, NothingSent DEF SendPing
<1>9. ~Sent(Identity(f)) /\ Sent(Identity(f))'
  <2>1. n \notin 1 .. pinged[c] /\ n \in 1 .. pinged'[c]
    BY <1>1, <1>n, <1>6 DEF TypeOK
  <2> QED BY <1>4, <2>1 DEF Sent
<1>10. f.by = c
  BY <1>f
<1> QED BY <1>3, <1>5, <1>7, <1>8, <1>9, <1>10, SendsNew

(* An actuator sends one INTEREST. *)
LEMMA SendInterestInv ==
    ASSUME RouteInv, NEW c \in Components, SendInterest(c)
    PROVE  RouteInv'
<1>f. PICK f : f = [kind |-> "INTEREST", by |-> c, sid |-> c, ts |-> 0, src |-> Local,
                    sport |-> Port[c], dst |-> Broadcast, dport |-> TYPE_BASED_ROUTING_PORT]
  OBVIOUS
<1>1. TypeOK /\ Port[c] \in Nat /\ messages \in Nat
  BY SendTypes DEF RouteInv
<1>2. RingFrame(Home[c], f)
  <2>1. f \in Frame
    BY <1>1, <1>f DEF Frame, TYPE_BASED_ROUTING_PORT
  <2> QED BY <2>1, <1>f DEF RingFrame, Made, Outside, Latency
<1>3. Identity(f) = <<"INTEREST", c, c, 0>>
  BY <1>f DEF Identity
<1>4. Publish(Home[c], f) /\ UNCHANGED <<air, rtt, seen, again>>
  BY <1>f DEF SendInterest, Send, taken, history
<1>5. ~interested[c] /\ interested' = [interested EXCEPT ![c] = TRUE]
  BY DEF SendInterest
<1>6. Grows
  <2>1. messages' \in Nat /\ UNCHANGED <<pinged, replied, asked>>
    BY <1>1 DEF SendInterest, Starts, taken
  <2> QED BY <1>1, <1>5, <2>1 DEF Grows, TypeOK
<1>7. QueuesShorten
  BY <1>1, NothingSent DEF SendInterest
<1>8. ~Sent(Identity(f)) /\ Sent(Identity(f))'
  <2>1. interested'[c]
    BY <1>1, <1>5 DEF TypeOK
  <2> QED BY <1>3, <1>5, <2>1 DEF Sent
<1>9. f.by = c
  BY <1>f
<1> QED BY <1>2, <1>4, <1>6, <1>7, <1>8, <1>9, SendsNew

(* RESPONSEs are numbered. *)
LEMMA SendResponseInv ==
    ASSUME RouteInv, NEW c \in Components, SendResponse(c)
    PROVE  RouteInv'
<1>n. PICK n : n = replied[c] + 1
  OBVIOUS
<1>f. PICK f : f = [kind |-> "RESPONSE", by |-> c, sid |-> c, ts |-> n, src |-> Local,
                    sport |-> Port[c], dst |-> Broadcast, dport |-> TYPE_BASED_ROUTING_PORT]
  OBVIOUS
<1>1. TypeOK /\ replied[c] \in Nat /\ Port[c] \in Nat /\ messages \in Nat
  BY SendTypes DEF RouteInv
<1>2. RingFrame(Home[c], f)
  <2>1. f \in Frame
    BY <1>1, <1>f, <1>n DEF Frame, TYPE_BASED_ROUTING_PORT
  <2> QED BY <2>1, <1>f DEF RingFrame, Made, Outside, Latency
<1>3. Identity(f) = <<"RESPONSE", c, c, n>>
  BY <1>f DEF Identity
<1>4. Publish(Home[c], f) /\ UNCHANGED <<air, rtt, seen, again>>
  BY <1>n, <1>f DEF SendResponse, Send, taken, history
<1>5. replied' = [replied EXCEPT ![c] = n]
  BY <1>n DEF SendResponse
<1>6. Grows
  <2>1. messages' \in Nat /\ UNCHANGED <<pinged, interested, asked>>
    BY <1>1 DEF SendResponse, Starts, taken
  <2>2. replied' \in [Components -> Nat] /\ \A d \in Components : replied[d] <= replied'[d]
    BY <1>1, <1>n, <1>5 DEF TypeOK
  <2> QED BY <1>1, <2>1, <2>2 DEF Grows, TypeOK
<1>7. QueuesShorten
  BY <1>1, NothingSent DEF SendResponse
<1>8. ~Sent(Identity(f)) /\ Sent(Identity(f))'
  <2>1. n \notin 1 .. replied[c] /\ n \in 1 .. replied'[c]
    BY <1>1, <1>n, <1>5 DEF TypeOK
  <2> QED BY <1>3, <2>1 DEF Sent
<1>9. f.by = c
  BY <1>f
<1> QED BY <1>2, <1>4, <1>6, <1>7, <1>8, <1>9, SendsNew

(* An ECHO answers a PING that has just left the queue: its first ECHO. *)
LEMMA TakePingInv ==
    ASSUME RouteInv, NEW c \in Components, TakePing(c)
    PROVE  RouteInv'
<1>g. PICK g : g = Head(queue[c])
  OBVIOUS
<1>f. PICK f : f = [kind |-> "ECHO", by |-> c, sid |-> g.sid, ts |-> g.ts, src |-> Local,
                    sport |-> Port[c], dst |-> IF g.src = Local THEN Local ELSE Broadcast,
                    dport |-> BASE_PORT]
  OBVIOUS
<1>1. /\ TypeOK /\ Port[c] \in Nat /\ Home[c] \in Vehicles
      /\ Takes(c, {"PING"}) /\ Publish(Home[c], f)
      /\ UNCHANGED <<air, messages, pinged, replied, interested, asked, rtt, seen, again>>
  BY <1>g, <1>f, SendTypes DEF RouteInv, TakePing, Takes, Send, sent, taken, history
<1>2. /\ QueuesShorten /\ g \in Frame /\ g.kind = "PING" /\ QueueFrame(c, g)
      /\ Identity(g) \in seen[c] /\ Identity(g) \in Ids(queue[c])
      /\ Identity(g) \notin Ids(queue'[c])
  BY <1>1, <1>g, TakeEffect DEF RouteInv, Forms, ReadOnce
<1>3. /\ Identity(g) = <<"PING", g.sid, g.sid, g.ts>> /\ g.sid = g.by
      /\ g.ts \in Nat /\ g.sid \in Components /\ Home[g.by] \in Vehicles
  BY <1>2, AddressesAssumption DEF QueueFrame, RingFrame, Made, Identity, Frame
<1>4. /\ Port[c] = BASE_PORT
      /\ g.src = Local <=> Home[g.sid] = Home[c]
      /\ g.src = Local <=> g.ts % 2 # 1
  <2>1. g.dport = BASE_PORT /\ g.dst # Broadcast /\ g.dport = Port[c]
    BY <1>2 DEF QueueFrame, RingFrame, Made, Matches, Latency, BASE_PORT, TYPE_BASED_ROUTING_PORT
  <2>2. Outside(g) <=> g.ts % 2 = 1
    BY <1>2 DEF Outside, Latency
  <2>3. Home[g.by] # Local
    BY <1>3, AddressesAssumption
  <2> QED BY <1>2, <1>3, <2>1, <2>2, <2>3 DEF QueueFrame, RingFrame
<1>5. RingFrame(Home[c], f)
  <2>1. f \in Frame
    BY <1>1, <1>3, <1>f DEF Frame, BASE_PORT
  <2> QED BY <2>1, <1>4, <1>f DEF RingFrame, Made, Outside, Latency
<1>6. Identity(f) = <<"ECHO", c, g.sid, g.ts>>
  BY <1>f DEF Identity
<1>7. Grows
  BY <1>1, NothingSent
<1>8. ~Sent(Identity(f)) /\ Sent(Identity(f))'
  <2>1. seen' = seen
    BY <1>1
  <2> QED BY <1>2, <1>3, <1>6, <2>1 DEF Sent
<1>9. f.by = c
  BY <1>f
<1> QED BY <1>1, <1>2, <1>5, <1>7, <1>8, <1>9, SendsNew

-----------------------------------------------------------------------------
(***************************************************************************)
(* Frames that are read, taken or skipped.                                 *)
(***************************************************************************)

(* Frames are read, if at all. *)
ListShortens(p) ==
    /\ Range(unread'[p]) \subseteq Range(unread[p])
    /\ Ids(unread'[p]) \subseteq Ids(unread[p])
    /\ Once(unread[p]) => Once(unread'[p])
ListsShorten ==
    /\ unread' \in [Processes -> Seq(Frame)]
    /\ \A p \in Processes : ListShortens(p)

(* Reads and steps that read nothing. *)
LEMMA ReadsShorten ==
    ASSUME TypeOK
    PROVE  /\ UNCHANGED unread => ListsShorten
           /\ \A p \in Processes : Reads(p) => ListsShorten
<1>1. UNCHANGED unread => ListsShorten
  BY DEF TypeOK, ListsShorten, ListShortens
<1>2. ASSUME NEW p \in Processes, Reads(p) PROVE ListsShorten
  <2>1. unread' \in [Processes -> Seq(Frame)] /\ ListShortens(p)
    BY <1>2, ReadEffect DEF ListShortens
  <2>2. ASSUME NEW q \in Processes, q # p PROVE ListShortens(q)
    BY <1>2, <2>2, ReadEffect DEF ListShortens
  <2> QED BY <2>1, <2>2 DEF ListsShorten
<1> QED BY <1>1, <1>2

(* The messages of fewer frames. *)
LEMMA FewerMsgs ==
    ASSUME NEW F, NEW G, F \subseteq G
    PROVE  Msgs(F) \subseteq Msgs(G)
BY DEF Msgs

(* Steps that only remove frames keep the invariant. *)
LEMMA ShortensInv ==
    ASSUME RouteInv, ListsShorten, QueuesShorten, Grows, UNCHANGED <<seen, again>>,
           air' \in [Vehicles -> SUBSET Frame], \A v \in Vehicles : air'[v] \subseteq air[v],
           rtt' \in [Components -> SUBSET [from : Components, ts : Nat]], MeasuresOwn'
    PROVE  RouteInv'
<1>1. /\ TypeOK /\ SeenType /\ Forms /\ AllSent /\ ReadOnce /\ AirOnce /\ InsideFirst
      /\ DeliveredOnce
  BY DEF RouteInv
<1>2. TypeOK' /\ SeenType' /\ DeliveredOnce'
  BY <1>1 DEF TypeOK, SeenType, DeliveredOnce, Grows, QueuesShorten, ListsShorten
<1>3. /\ \A p \in Processes : /\ Range(unread'[p]) \subseteq Range(unread[p])
                              /\ Ids(unread'[p]) \subseteq Ids(unread[p])
                              /\ Once(unread'[p])
      /\ \A c \in Components : /\ Range(queue'[c]) \subseteq Range(queue[c])
                               /\ Ids(queue'[c]) \subseteq Ids(queue[c])
                               /\ Once(queue'[c])
  <2>1. ASSUME NEW p \in Processes PROVE ListShortens(p) /\ Once(unread[p])
    BY <1>1 DEF ListsShorten, ReadOnce
  <2>2. ASSUME NEW c \in Components PROVE Shortens(c) /\ Once(queue[c])
    BY <1>1 DEF QueuesShorten, ReadOnce
  <2> QED BY <2>1, <2>2 DEF ListShortens, Shortens
<1>4. \A v \in Vehicles : Msgs(air'[v]) \subseteq Msgs(air[v])
  BY FewerMsgs
<1>5. Forms'
  BY <1>1, <1>3 DEF Forms
<1>6. AllSent'
  <2>1. NoReturn
    BY NothingReturns
  <2>2. ASSUME NEW p \in Processes, NEW id \in Ids(unread'[p]) PROVE id \in MessageIds /\ Sent(id)
    BY <1>1, <1>3, IdTypes DEF AllSent
  <2>3. ASSUME NEW v \in Vehicles, NEW id \in Msgs(air'[v]) PROVE id \in MessageIds /\ Sent(id)
    BY <1>1, <1>4, IdTypes DEF AllSent
  <2>4. ASSUME NEW c \in Components, NEW id \in seen'[c] PROVE id \in MessageIds /\ Sent(id)
    BY <1>1, IdTypes DEF AllSent
  <2> QED BY <1>1, <2>1, <2>2, <2>3, <2>4, SentStays DEF AllSent
<1>7. ReadOnce'
  BY <1>1, <1>3, Places DEF ReadOnce
<1>8. AirOnce'
  BY <1>1, <1>3, <1>4 DEF AirOnce
<1>9. InsideFirst'
  BY <1>1, <1>3, <1>4, Places DEF InsideFirst
<1> QED BY <1>2, <1>5, <1>6, <1>7, <1>8, <1>9 DEF RouteInv

(* The receiver loop records an INTEREST or a RESPONSE. *)
LEMMA TakeTedsInv ==
    ASSUME RouteInv, NEW c \in Components, TakeTeds(c)
    PROVE  RouteInv'
<1>1. /\ TypeOK /\ MeasuresOwn /\ Takes(c, {"INTEREST", "RESPONSE"})
      /\ UNCHANGED <<unread, air, messages, pinged, replied, interested, rtt, seen, again>>
      /\ asked' \in [Components -> BOOLEAN]
  BY DEF RouteInv, TakeTeds, Takes, sent, history, TypeOK
<1>2. ListsShorten /\ QueuesShorten /\ Grows
  <2>1. Grows
    BY <1>1 DEF Grows, TypeOK
  <2> QED BY <1>1, <2>1, ReadsShorten, TakeEffect
<1>3. MeasuresOwn'
  BY <1>1, <1>2, MeasuresStay
<1>4. /\ air' \in [Vehicles -> SUBSET Frame] /\ \A v \in Vehicles : air'[v] \subseteq air[v]
      /\ rtt' \in [Components -> SUBSET [from : Components, ts : Nat]]
  BY <1>1 DEF TypeOK
<1> QED BY <1>1, <1>2, <1>3, <1>4, ShortensInv

(* An ECHO that answers a PING of c itself: the PING was sent by c, the    *)
(* ECHO by a first port, of another vehicle or of this one as it should.   *)
LEMMA EchoAnswers ==
    ASSUME RouteInv, NEW c \in Components, NEW f \in Range(queue[c]), f.kind = "ECHO", f.sid = c
    PROVE  /\ f.by \in Components /\ f.ts \in 1 .. pinged[c]
           /\ Port[c] = BASE_PORT /\ Port[f.by] = BASE_PORT
           /\ IF f.ts % 2 = 1 THEN Home[f.by] # Home[c] ELSE f.by = c
<1>1. QueueFrame(c, f) /\ f \in Frame /\ f.by \in Components
  BY DEF RouteInv, Forms, QueueFrame, RingFrame, Made, Frame
<1>2. /\ f.dport = BASE_PORT /\ Port[f.by] = BASE_PORT
      /\ f.ts % 2 = 1 <=> Home[c] # Home[f.by]
  BY <1>1 DEF QueueFrame, RingFrame, Made, Latency
<1>3. Port[c] = BASE_PORT
  BY <1>1, <1>2 DEF QueueFrame, Matches, BASE_PORT, TYPE_BASED_ROUTING_PORT
<1>4. Identity(f) \in seen[c]
  BY DEF RouteInv, ReadOnce, Ids, Msgs
<1>5. Sent(Identity(f))
  BY <1>4 DEF RouteInv, AllSent
<1>6. <<"PING", c, c, f.ts>> \in seen[f.by]
  BY <1>1, <1>5, FrameIds DEF Sent
<1>7. Sent(<<"PING", c, c, f.ts>>)
  BY <1>1, <1>6 DEF RouteInv, AllSent
<1>8. f.ts \in 1 .. pinged[c]
  BY <1>7 DEF Sent
<1>9. Home[c] = Home[f.by] => f.by = c
  BY <1>1, <1>2, <1>3, AddressesAssumption
<1> QED BY <1>1, <1>2, <1>3, <1>8, <1>9

(* Every component of the first port sees ECHOes, and measures its own. *)
LEMMA TakeEchoInv ==
    ASSUME RouteInv, NEW c \in Components, TakeEcho(c)
    PROVE  RouteInv'
<1>g. PICK f : f = Head(queue[c])
  OBVIOUS
<1>1. /\ TypeOK /\ MeasuresOwn /\ Takes(c, {"ECHO"})
      /\ UNCHANGED <<unread, air, messages, pinged, replied, interested, asked, seen, again>>
      /\ rtt' = IF f.sid = c THEN [rtt EXCEPT ![c] = @ \cup {[from |-> f.by, ts |-> f.ts]}] ELSE rtt
  BY <1>g DEF RouteInv, TakeEcho, Takes, sent, history
<1>2. /\ ListsShorten /\ QueuesShorten /\ Grows
      /\ f \in Range(queue[c]) /\ f.kind = "ECHO" /\ f \in Frame
  BY <1>1, <1>g, ReadsShorten, TakeEffect, NothingSent
<1>3. CASE f.sid # c
  <2>1. UNCHANGED rtt
    BY <1>1, <1>3
  <2>2. MeasuresOwn'
    BY <1>1, <1>2, <2>1, MeasuresStay
  <2>3. /\ air' \in [Vehicles -> SUBSET Frame] /\ \A v \in Vehicles : air'[v] \subseteq air[v]
        /\ rtt' \in [Components -> SUBSET [from : Components, ts : Nat]]
    BY <1>1, <2>1 DEF TypeOK
  <2> QED BY <1>1, <1>2, <2>2, <2>3, ShortensInv
<1>4. CASE f.sid = c
  <2>1. /\ f.by \in Components /\ f.ts \in 1 .. pinged[c] /\ f.ts \in Nat
        /\ Port[c] = BASE_PORT /\ Port[f.by] = BASE_PORT
        /\ IF f.ts % 2 = 1 THEN Home[f.by] # Home[c] ELSE f.by = c
    BY <1>2, <1>4, EchoAnswers DEF Frame
  <2>2. PICK m : m = [from |-> f.by, ts |-> f.ts]
    OBVIOUS
  <2>3. m \in [from : Components, ts : Nat] /\ m.from = f.by /\ m.ts = f.ts
    BY <2>1, <2>2
  <2>4. /\ rtt' = [rtt EXCEPT ![c] = rtt[c] \cup {m}]
        /\ rtt' \in [Components -> SUBSET [from : Components, ts : Nat]]
    BY <1>1, <1>4, <2>2, <2>3 DEF TypeOK
  <2>5. MeasuresOwn'
    <3>1. ASSUME NEW d \in Components, NEW k \in rtt'[d]
          PROVE  /\ k.ts \in 1 .. pinged[d] /\ Port[d] = BASE_PORT /\ Port[k.from] = BASE_PORT
                 /\ IF k.ts % 2 = 1 THEN Home[k.from] # Home[d] ELSE k.from = d
      <4>1. k \in rtt[d] \/ (d = c /\ k = m)
        BY <1>1, <2>4 DEF TypeOK
      <4> QED BY <1>1, <2>1, <2>3, <4>1 DEF MeasuresOwn
    <3> QED BY <1>1, <3>1 DEF MeasuresOwn
  <2>6. air' \in [Vehicles -> SUBSET Frame] /\ \A v \in Vehicles : air'[v] \subseteq air[v]
    BY <1>1 DEF TypeOK
  <2> QED BY <1>1, <1>2, <2>4, <2>5, <2>6, ShortensInv
<1> QED BY <1>3, <1>4

-----------------------------------------------------------------------------
(***************************************************************************)
(* Frames that move on: into a queue, onto the air, into another ring.     *)
(***************************************************************************)

(* The queue of a component gets a frame that it has not had before. *)
LEMMA UpdateInv ==
    ASSUME RouteInv, NEW c \in Components, Update(c)
    PROVE  RouteInv'
<1>f. PICK f : f = NextFrame(c)
  OBVIOUS
<1>1. /\ TypeOK /\ SeenType /\ Forms /\ AllSent /\ ReadOnce /\ AirOnce /\ InsideFirst
      /\ MeasuresOwn /\ DeliveredOnce /\ c \in Processes /\ VehicleOf(c) = Home[c]
  BY Places DEF RouteInv
<1>2. /\ Reads(c)
      /\ UNCHANGED <<air, messages, pinged, replied, interested, asked, rtt>>
  BY DEF Update, sent, taken
<1>3. ListsShorten /\ Grows /\ MeasuresOwn'
  BY <1>1, <1>2, ReadsShorten, NothingSent, MeasuresStay
<1>4. CASE ~Matches(c, f)
  <2>1. UNCHANGED <<queue, seen, again>>
    BY <1>f, <1>4 DEF Update, history
  <2>2. QueuesShorten
    BY <1>1, <2>1, NothingSent
  <2>3. /\ air' \in [Vehicles -> SUBSET Frame] /\ \A v \in Vehicles : air'[v] \subseteq air[v]
        /\ rtt' \in [Components -> SUBSET [from : Components, ts : Nat]]
    BY <1>1, <1>2 DEF TypeOK
  <2> QED BY <1>3, <2>1, <2>2, <2>3, ShortensInv
<1>5. CASE Matches(c, f)
  <2>m. PICK m : m = Identity(f)
    OBVIOUS
  <2>1. /\ f \in Frame /\ RingFrame(Home[c], f)
        /\ m \in MessageIds /\ m \in Ids(unread[c]) /\ m \notin Ids(unread'[c]) /\ m \notin seen[c]
        /\ Sent(m)
    <3>1. /\ f \in Frame /\ f \in Range(unread[c]) /\ m \in Ids(unread[c]) /\ m \notin Ids(unread'[c])
      BY <1>1, <1>2, <1>f, <2>m, ReadEffect DEF ReadOnce
    <3>2. RingFrame(Home[c], f)
      BY <1>1, <3>1 DEF Forms
    <3>3. m \notin seen[c] /\ Sent(m) /\ m \in MessageIds
      BY <1>1, <2>m, <3>1, FrameIds DEF ReadOnce, AllSent
    <3> QED BY <3>1, <3>2, <3>3
  <2>2. /\ queue' = [queue EXCEPT ![c] = Append(queue[c], f)]
        /\ seen' = [seen EXCEPT ![c] = seen[c] \cup {m}]
        /\ again' = again
    BY <1>f, <1>5, <2>m, <2>1 DEF Update
  <2>3. /\ \A p \in Processes : /\ Range(unread'[p]) \subseteq Range(unread[p])
                                /\ Ids(unread'[p]) \subseteq Ids(unread[p])
                                /\ Once(unread'[p])
        /\ unread' \in [Processes -> Seq(Frame)]
    <3>1. ASSUME NEW p \in Processes PROVE ListShortens(p) /\ Once(unread[p])
      BY <1>1, <1>3 DEF ListsShorten, ReadOnce
    <3> QED BY <1>3, <3>1 DEF ListShortens, ListsShorten
  <2>4. /\ queue' \in [Components -> Seq(Frame)] /\ seen' \in [Components -> SUBSET MessageIds]
        /\ Range(queue'[c]) = Range(queue[c]) \cup {f} /\ Ids(queue'[c]) = Ids(queue[c]) \cup {m}
        /\ Once(queue'[c])
        /\ \A d \in Components : d # c => queue'[d] = queue[d]
        /\ \A d \in Components : seen'[d] = IF d = c THEN seen[c] \cup {m} ELSE seen[d]
    <3>1. /\ queue[c] \in Seq(Frame) /\ Once(queue[c]) /\ m \notin Ids(queue[c])
          /\ queue'[c] = Append(queue[c], f)
      BY <1>1, <2>1, <2>2 DEF TypeOK, ReadOnce
    <3>2. /\ queue'[c] \in Seq(Frame)
          /\ Range(queue'[c]) = Range(queue[c]) \cup {f} /\ Ids(queue'[c]) = Ids(queue[c]) \cup {m}
          /\ Once(queue'[c])
      <4> DEFINE s == queue[c]
      <4>1. s \in Seq(Frame) /\ Once(s) /\ Identity(f) \notin Ids(s) /\ queue'[c] = Append(s, f)
        BY <2>m, <3>1
      <4> HIDE DEF s
      <4>2. /\ Append(s, f) \in Seq(Frame) /\ Range(Append(s, f)) = Range(s) \cup {f}
            /\ Ids(Append(s, f)) = Ids(s) \cup {Identity(f)} /\ Once(Append(s, f))
        BY <2>1, <4>1, ListAppend
      <4> QED BY <2>m, <4>1, <4>2, Zenon DEF s
    <3>3. queue' \in [Components -> Seq(Frame)] /\ \A d \in Components : d # c => queue'[d] = queue[d]
      BY <1>1, <2>2, <3>1, <3>2 DEF TypeOK
    <3>4. /\ seen' \in [Components -> SUBSET MessageIds]
          /\ \A d \in Components : seen'[d] = IF d = c THEN seen[c] \cup {m} ELSE seen[d]
      BY <1>1, <2>1, <2>2 DEF SeenType
    <3> QED BY <3>2, <3>3, <3>4
  <2>5. TypeOK' /\ SeenType' /\ DeliveredOnce'
    BY <1>1, <1>2, <2>2, <2>3, <2>4 DEF TypeOK, SeenType, DeliveredOnce
  <2>6. Forms'
    <3>1. QueueFrame(c, f)
      BY <1>5, <2>1 DEF QueueFrame
    <3>2. ASSUME NEW d \in Components, NEW g \in Range(queue'[d]) PROVE QueueFrame(d, g)
      BY <1>1, <2>4, <3>1 DEF Forms
    <3> QED BY <1>1, <1>2, <2>3, <3>2 DEF Forms
  <2>7. AllSent'
    <3>1. NoReturn
      BY <2>1, <2>4 DEF NoReturn
    <3>2. ASSUME NEW p \in Processes, NEW id \in Ids(unread'[p]) PROVE id \in MessageIds /\ Sent(id)
      BY <1>1, <2>3, IdTypes DEF AllSent
    <3>3. ASSUME NEW v \in Vehicles, NEW id \in Msgs(air'[v]) PROVE id \in MessageIds /\ Sent(id)
      BY <1>1, <1>2, IdTypes DEF AllSent
    <3>4. ASSUME NEW d \in Components, NEW id \in seen'[d] PROVE id \in MessageIds /\ Sent(id)
      <4>1. id \in seen[d] \/ id = m
        BY <2>4, <3>4
      <4> QED BY <1>1, <2>1, <4>1, IdTypes DEF AllSent
    <3> QED BY <1>1, <1>3, <3>1, <3>2, <3>3, <3>4, SentStays DEF AllSent
  <2>8. ReadOnce'
    <3>1. ASSUME NEW d \in Components
          PROVE  Once(queue'[d]) /\ Ids(queue'[d]) \subseteq seen'[d]
      BY <1>1, <2>4 DEF ReadOnce
    <3>2. ASSUME NEW d \in Components PROVE Ids(unread'[d]) \cap seen'[d] = {}
      <4>1. d \in Processes /\ Ids(unread[d]) \cap seen[d] = {} /\ Ids(unread'[d]) \subseteq Ids(unread[d])
        BY <1>1, <2>3, Places DEF ReadOnce
      <4> QED BY <2>1, <2>4, <4>1
    <3> QED BY <2>3, <3>1, <3>2 DEF ReadOnce
  <2>9. AirOnce'
    <3> SUFFICES ASSUME NEW w \in Vehicles, NEW id \in Msgs(air'[w]), Home[id[2]] # w
                 PROVE  /\ \A p \in Processes : VehicleOf(p) = w => id \notin Ids(unread'[p])
                        /\ \A d \in Components : Home[d] = w => id \notin seen'[d]
      BY DEF AirOnce
    <3>1. /\ \A p \in Processes : VehicleOf(p) = w => id \notin Ids(unread[p])
          /\ \A d \in Components : Home[d] = w => id \notin seen[d]
      BY <1>1, <1>2 DEF AirOnce
    <3>2. Home[c] = w => id # m
      BY <1>1, <2>1, <3>1
    <3>3. \A p \in Processes : VehicleOf(p) = w => id \notin Ids(unread'[p])
      BY <2>3, <3>1
    <3>4. ASSUME NEW d \in Components, Home[d] = w PROVE id \notin seen'[d]
      <4>1. seen'[d] = IF d = c THEN seen[c] \cup {m} ELSE seen[d]
        BY <2>4
      <4> QED BY <3>1, <3>2, <3>4, <4>1
    <3> QED BY <3>3, <3>4
  <2>10. InsideFirst'
    <3> SUFFICES ASSUME NEW w \in Vehicles, NEW id \in Ids(unread'[w]), Home[id[2]] = w
                 PROVE  /\ \A u \in Vehicles : id \notin Msgs(air'[u])
                        /\ \A p \in Processes : VehicleOf(p) # w => id \notin Ids(unread'[p])
                        /\ \A d \in Components : Home[d] # w => id \notin seen'[d]
      BY DEF InsideFirst
    <3>1. /\ \A u \in Vehicles : id \notin Msgs(air[u])
          /\ \A p \in Processes : VehicleOf(p) # w => id \notin Ids(unread[p])
          /\ \A d \in Components : Home[d] # w => id \notin seen[d]
      BY <1>1, <2>3, Places DEF InsideFirst
    <3>2. Home[c] # w => id # m
      BY <1>1, <2>1, <3>1
    <3>3. \A p \in Processes : VehicleOf(p) # w => id \notin Ids(unread'[p])
      BY <2>3, <3>1
    <3>4. ASSUME NEW d \in Components, Home[d] # w PROVE id \notin seen'[d]
      <4>1. seen'[d] = IF d = c THEN seen[c] \cup {m} ELSE seen[d]
        BY <2>4
      <4> QED BY <3>1, <3>2, <3>4, <4>1
    <3> QED BY <1>2, <3>1, <3>3, <3>4
  <2> QED BY <1>3, <2>5, <2>6, <2>7, <2>8, <2>9, <2>10 DEF RouteInv
<1> QED BY <1>4, <1>5

(* A forwarded message leaves the gateway's list as it enters the air, and *)
(* was nowhere outside before.                                             *)
LEMMA ForwardInv ==
    ASSUME RouteInv, NEW v \in Vehicles, Forward(v)
    PROVE  RouteInv'
<1>f. PICK f : f = NextFrame(v)
  OBVIOUS
<1>1. /\ TypeOK /\ SeenType /\ Forms /\ AllSent /\ ReadOnce /\ AirOnce /\ InsideFirst
      /\ MeasuresOwn /\ DeliveredOnce /\ v \in Processes /\ VehicleOf(v) = v
  BY Places DEF RouteInv
<1>2. /\ Reads(v)
      /\ UNCHANGED <<queue, messages, pinged, replied, interested, asked, rtt, seen, again>>
  BY DEF Forward, sent, taken, history
<1>3. ListsShorten /\ QueuesShorten /\ Grows /\ MeasuresOwn'
  BY <1>1, <1>2, ReadsShorten, NothingSent, MeasuresStay
<1>4. CASE f.dst # Broadcast
  <2>1. air' = air
    BY <1>f, <1>4 DEF Forward
  <2>2. /\ air' \in [Vehicles -> SUBSET Frame] /\ \A w \in Vehicles : air'[w] \subseteq air[w]
        /\ rtt' \in [Components -> SUBSET [from : Components, ts : Nat]]
    BY <1>1, <1>2, <2>1 DEF TypeOK
  <2> QED BY <1>2, <1>3, <2>2, ShortensInv
<1>5. CASE f.dst = Broadcast
  <2>g. PICK g : g = [f EXCEPT !.src = v]
    OBVIOUS
  <2>m. PICK m : m = Identity(f)
    OBVIOUS
  <2>1. /\ f \in Frame /\ f \in Range(unread[v]) /\ m \in Ids(unread[v]) /\ m \notin Ids(unread'[v])
        /\ RingFrame(v, f)
    BY <1>1, <1>2, <1>f, <2>m, ReadEffect DEF ReadOnce, Forms
  <2>2. Home[f.by] = v /\ Outside(f)
    BY <1>5, <2>1, AddressesAssumption DEF RingFrame
  <2>3. /\ g \in Frame /\ g.by = f.by /\ g.kind = f.kind /\ g.ts = f.ts /\ g.sid = f.sid
        /\ g.sport = f.sport /\ g.dport = f.dport /\ g.dst = f.dst /\ g.src = v
    BY <2>1, <2>g DEF Frame
  <2>4. AirFrame(g)
    BY <1>5, <2>1, <2>2, <2>3 DEF AirFrame, RingFrame, Made, Outside
  <2>5. Identity(g) = m /\ m \in MessageIds /\ Home[m[2]] = v /\ Sent(m)
    <3>1. Identity(g) = m
      BY <2>3, <2>m DEF Identity
    <3> QED BY <1>1, <2>1, <2>2, <2>m, <3>1, FrameIds DEF AllSent
  <2>6. /\ air' \in [Vehicles -> SUBSET Frame]
        /\ \A w \in Vehicles : air'[w] \subseteq air[w] \cup {g}
    <3>1. PICK R \in SUBSET Vehicles :
              air' = [w \in Vehicles |-> IF w \in R THEN air[w] \cup {g} ELSE air[w]]
      BY <1>f, <1>5, <2>g DEF Forward
    <3>2. ASSUME NEW w \in Vehicles
          PROVE  air'[w] \in SUBSET Frame /\ air'[w] \subseteq air[w] \cup {g}
      BY <1>1, <2>3, <3>1 DEF TypeOK
    <3> QED BY <3>1, <3>2
  <2>7. \A w \in Vehicles : Msgs(air'[w]) \subseteq Msgs(air[w]) \cup {m}
    BY <2>5, <2>6 DEF Msgs
  <2>8. /\ \A p \in Processes : /\ Range(unread'[p]) \subseteq Range(unread[p])
                                /\ Ids(unread'[p]) \subseteq Ids(unread[p])
                                /\ Once(unread'[p])
        /\ unread' \in [Processes -> Seq(Frame)]
    <3>1. ASSUME NEW p \in Processes PROVE ListShortens(p) /\ Once(unread[p])
      BY <1>1, <1>3 DEF ListsShorten, ReadOnce
    <3> QED BY <1>3, <3>1 DEF ListShortens, ListsShorten
  <2>9. TypeOK' /\ SeenType' /\ DeliveredOnce'
    BY <1>1, <1>2, <2>6, <2>8 DEF TypeOK, SeenType, DeliveredOnce
  <2>10. Forms'
    <3>1. ASSUME NEW w \in Vehicles, NEW h \in air'[w] PROVE AirFrame(h)
      BY <1>1, <2>4, <2>6 DEF Forms
    <3> QED BY <1>1, <1>2, <2>8, <3>1 DEF Forms
  <2>11. AllSent'
    <3>1. NoReturn
      BY <1>2, <1>3, NothingReturns
    <3>2. ASSUME NEW p \in Processes, NEW id \in Ids(unread'[p]) PROVE id \in MessageIds /\ Sent(id)
      BY <1>1, <2>8, IdTypes DEF AllSent
    <3>3. ASSUME NEW w \in Vehicles, NEW id \in Msgs(air'[w]) PROVE id \in MessageIds /\ Sent(id)
      BY <1>1, <2>5, <2>7, IdTypes DEF AllSent
    <3>4. ASSUME NEW d \in Components, NEW id \in seen'[d] PROVE id \in MessageIds /\ Sent(id)
      BY <1>1, <1>2, IdTypes DEF AllSent
    <3> QED BY <1>1, <1>3, <3>1, <3>2, <3>3, <3>4, SentStays DEF AllSent
  <2>12. ReadOnce'
    BY <1>1, <1>2, <2>8, Places DEF ReadOnce
  <2>13. /\ \A w \in Vehicles : m \notin Msgs(air[w])
         /\ \A p \in Processes : VehicleOf(p) # v => m \notin Ids(unread[p])
         /\ \A c \in Components : Home[c] # v => m \notin seen[c]
    BY <1>1, <2>1, <2>5 DEF InsideFirst
  <2>14. AirOnce'
    <3> SUFFICES ASSUME NEW w \in Vehicles, NEW id \in Msgs(air'[w]), Home[id[2]] # w
                 PROVE  /\ \A p \in Processes : VehicleOf(p) = w => id \notin Ids(unread'[p])
                        /\ \A d \in Components : Home[d] = w => id \notin seen'[d]
      BY DEF AirOnce
    <3>1. CASE id \in Msgs(air[w])
      BY <1>1, <1>2, <2>8, <3>1 DEF AirOnce
    <3>2. CASE id = m
      BY <1>2, <2>5, <2>8, <2>13, <3>2
    <3> QED BY <2>7, <3>1, <3>2
  <2>15. InsideFirst'
    <3> SUFFICES ASSUME NEW w \in Vehicles, NEW id \in Ids(unread'[w]), Home[id[2]] = w
                 PROVE  /\ \A u \in Vehicles : id \notin Msgs(air'[u])
                        /\ \A p \in Processes : VehicleOf(p) # w => id \notin Ids(unread'[p])
                        /\ \A d \in Components : Home[d] # w => id \notin seen'[d]
      BY DEF InsideFirst
    <3>1. /\ \A u \in Vehicles : id \notin Msgs(air[u])
          /\ \A p \in Processes : VehicleOf(p) # w => id \notin Ids(unread[p])
          /\ \A d \in Components : Home[d] # w => id \notin seen[d]
      BY <1>1, <2>8, Places DEF InsideFirst
    <3>2. id # m
      BY <2>1, <2>5
    <3> QED BY <1>2, <2>7, <2>8, <3>1, <3>2
  <2> QED BY <1>3, <2>9, <2>10, <2>11, <2>12, <2>14, <2>15 DEF RouteInv
<1> QED BY <1>4, <1>5

(* On the air a message is one frame. *)
LEMMA AirFrameUnique ==
    ASSUME NEW f, NEW g, AirFrame(f), AirFrame(g), Identity(f) = Identity(g)
    PROVE  f = g
<1>1. /\ f \in Frame /\ g \in Frame
      /\ f.kind = g.kind /\ f.by = g.by /\ f.sid = g.sid /\ f.ts = g.ts
  BY DEF AirFrame, Made, Identity
<1>2. f.src = g.src /\ f.dst = g.dst /\ f.sport = g.sport /\ f.dport = g.dport
  BY <1>1 DEF AirFrame, Made
<1> QED BY <1>1, <1>2 DEF Frame

(* A message is accepted from the air once, into a ring it has not been in. *)
LEMMA AcceptInv ==
    ASSUME RouteInv, NEW v \in Vehicles, NEW f \in air[v], Accept(v, f)
    PROVE  RouteInv'
<1>1. /\ TypeOK /\ SeenType /\ Forms /\ AllSent /\ ReadOnce /\ AirOnce /\ InsideFirst
      /\ MeasuresOwn /\ DeliveredOnce /\ v \in Processes /\ VehicleOf(v) = v
  BY Places DEF RouteInv
<1>2. /\ air' = [air EXCEPT ![v] = air[v] \ {f}]
      /\ UNCHANGED <<queue, messages, pinged, replied, interested, asked, rtt, seen, again>>
  BY DEF Accept, sent, taken, history
<1>3. /\ air' \in [Vehicles -> SUBSET Frame] /\ \A w \in Vehicles : air'[w] \subseteq air[w]
      /\ air'[v] = air[v] \ {f}
      /\ rtt' \in [Components -> SUBSET [from : Components, ts : Nat]]
  BY <1>1, <1>2 DEF TypeOK
<1>4. QueuesShorten /\ Grows /\ MeasuresOwn'
  BY <1>1, <1>2, NothingSent, MeasuresStay
<1>5. CASE f.src = v
  <2>1. ListsShorten
    BY <1>1, <1>5, ReadsShorten DEF Accept
  <2> QED BY <1>2, <1>3, <1>4, <2>1, ShortensInv
<1>6. CASE f.src # v
  <2>g. PICK g : g = [f EXCEPT !.dst = Local]
    OBVIOUS
  <2>m. PICK m : m = Identity(f)
    OBVIOUS
  <2>1. AirFrame(f) /\ f \in Frame /\ Home[f.by] # v
    BY <1>1, <1>6 DEF Forms, AirFrame, Made
  <2>2. /\ g \in Frame /\ g.by = f.by /\ g.kind = f.kind /\ g.ts = f.ts /\ g.sid = f.sid
        /\ g.sport = f.sport /\ g.dport = f.dport /\ g.dst = Local /\ g.src = f.src
    BY <2>1, <2>g DEF Frame
  <2>3. RingFrame(v, g)
    BY <2>1, <2>2 DEF AirFrame, RingFrame, Made, Outside
  <2>4. /\ Identity(g) = m /\ m \in MessageIds /\ Home[m[2]] # v /\ m \in Msgs(air[v]) /\ Sent(m)
        /\ Publish(v, g)
    <3>1. Identity(g) = m
      BY <2>2, <2>m DEF Identity
    <3>2. m \in Msgs(air[v])
      BY <2>m DEF Msgs
    <3>3. Publish(v, g)
      BY <1>6, <2>g DEF Accept
    <3> QED BY <1>1, <2>1, <2>m, <3>1, <3>2, <3>3, FrameIds DEF AllSent
  <2>5. /\ \A w \in Vehicles : Msgs(air'[w]) \subseteq Msgs(air[w])
        /\ m \notin Msgs(air'[v])
    <3>1. ASSUME NEW h \in air'[v] PROVE Identity(h) # m
      BY <1>1, <1>3, <2>1, <2>m, AirFrameUnique DEF Forms
    <3> QED BY <1>3, <3>1, FewerMsgs DEF Msgs
  <2>6. /\ \A p \in Processes : VehicleOf(p) = v => m \notin Ids(unread[p])
        /\ \A c \in Components : Home[c] = v => m \notin seen[c]
    BY <1>1, <2>4 DEF AirOnce
  <2>7. /\ unread' \in [Processes -> Seq(Frame)]
        /\ \A p \in Processes : Once(unread'[p]) /\ Ids(unread'[p]) \subseteq Ids(unread[p]) \cup {m}
        /\ \A p \in Processes : VehicleOf(p) # v => unread'[p] = unread[p]
    <3>1. unread' \in [Processes -> Seq(Frame)]
      BY <1>1, <2>2, <2>4, PublishEffect
    <3>2. ASSUME NEW p \in Processes, VehicleOf(p) = v
          PROVE  Once(unread'[p]) /\ Ids(unread'[p]) = Ids(unread[p]) \cup {m}
      <4>1. /\ Ids(unread'[p]) = Ids(unread[p]) \cup {Identity(g)}
            /\ Once(unread[p]) /\ Identity(g) \notin Ids(unread[p]) => Once(unread'[p])
        BY <1>1, <2>2, <2>4, <3>2, PublishEffect
      <4> QED BY <1>1, <2>4, <2>6, <3>2, <4>1 DEF ReadOnce
    <3>3. ASSUME NEW p \in Processes, VehicleOf(p) # v PROVE unread'[p] = unread[p]
      BY <1>1, <2>2, <2>4, <3>3, PublishEffect
    <3>4. ASSUME NEW p \in Processes PROVE Once(unread[p])
      BY <1>1 DEF ReadOnce
    <3> QED BY <3>1, <3>2, <3>3, <3>4
  <2>8. TypeOK' /\ SeenType' /\ DeliveredOnce'
    BY <1>1, <1>2, <1>3, <2>7 DEF TypeOK, SeenType, DeliveredOnce
  <2>9. Forms'
    BY <1>1, <1>3, <1>4, <2>3, <2>4, PublishForms
  <2>10. AllSent'
    <3>1. NoReturn
      BY <1>2, <1>4, NothingReturns
    <3>2. ASSUME NEW p \in Processes, NEW id \in Ids(unread'[p]) PROVE id \in MessageIds /\ Sent(id)
      BY <1>1, <2>4, <2>7, IdTypes DEF AllSent
    <3>3. ASSUME NEW w \in Vehicles, NEW id \in Msgs(air'[w]) PROVE id \in MessageIds /\ Sent(id)
      BY <1>1, <2>5, IdTypes DEF AllSent
    <3>4. ASSUME NEW d \in Components, NEW id \in seen'[d] PROVE id \in MessageIds /\ Sent(id)
      BY <1>1, <1>2, IdTypes DEF AllSent
    <3> QED BY <1>1, <1>4, <3>1, <3>2, <3>3, <3>4, SentStays DEF AllSent
  <2>11. ReadOnce'
    <3>1. ASSUME NEW c \in Components PROVE Ids(unread'[c]) \cap seen[c] = {}
      BY <1>1, <2>6, <2>7, Places DEF ReadOnce
    <3> QED BY <1>1, <1>2, <2>7, <3>1 DEF ReadOnce
  <2>12. AirOnce'
    BY <1>1, <1>2, <2>5, <2>7 DEF AirOnce
  <2>13. InsideFirst'
    <3> SUFFICES ASSUME NEW w \in Vehicles, NEW id \in Ids(unread'[w]), Home[id[2]] = w
                 PROVE  /\ \A u \in Vehicles : id \notin Msgs(air'[u])
                        /\ \A p \in Processes : VehicleOf(p) # w => id \notin Ids(unread'[p])
                        /\ \A d \in Components : Home[d] # w => id \notin seen'[d]
      BY DEF InsideFirst
    <3>1. id \in Ids(unread[w])
      <4>1. CASE w = v
        BY <1>1, <2>4, <2>7, <4>1
      <4>2. CASE w # v
        BY <2>7, <4>2, Places
      <4> QED BY <4>1, <4>2
    <3>2. /\ \A u \in Vehicles : id \notin Msgs(air[u])
          /\ \A p \in Processes : VehicleOf(p) # w => id \notin Ids(unread[p])
          /\ \A d \in Components : Home[d] # w => id \notin seen[d]
      BY <1>1, <3>1 DEF InsideFirst
    <3>3. id # m
      BY <2>4, <3>2
    <3> QED BY <1>2, <2>5, <2>7, <3>2, <3>3
  <2> QED BY <1>4, <2>8, <2>9, <2>10, <2>11, <2>12, <2>13 DEF RouteInv
<1> QED BY <1>5, <1>6

-----------------------------------------------------------------------------
(***************************************************************************)
(* The theorems of the safety properties.                                  *)
(***************************************************************************)

(* Nothing has been sent at first. *)
LEMMA RouteStarts == Init => RouteInv
<1> SUFFICES ASSUME Init PROVE RouteInv
  OBVIOUS
<1>1. Range(<<>>) = {} /\ Ids(<<>>) = {} /\ Msgs({}) = {} /\ Once(<<>>) /\ <<>> \in Seq(Frame)
  BY DEF Range, Ids, Msgs, Once
<1>2. /\ \A p \in Processes : unread[p] = <<>>
      /\ \A v \in Vehicles : air[v] = {}
      /\ \A c \in Components : queue[c] = <<>> /\ seen[c] = {} /\ rtt[c] = {}
  BY DEF Init
<1>3. TypeOK /\ SeenType /\ DeliveredOnce
  BY <1>1 DEF Init, TypeOK, SeenType, DeliveredOnce
<1>4. Forms /\ AllSent /\ MeasuresOwn
  BY <1>1, <1>2 DEF Forms, AllSent, MeasuresOwn
<1>5. ReadOnce /\ AirOnce /\ InsideFirst
  BY <1>1, <1>2, Places DEF ReadOnce, AirOnce, InsideFirst
<1> QED BY <1>3, <1>4, <1>5 DEF RouteInv

(* A step that changes nothing. *)
LEMMA RouteStutters ==
    ASSUME RouteInv, UNCHANGED vars
    PROVE  RouteInv'
<1>1. TypeOK /\ MeasuresOwn
  BY DEF RouteInv
<1>2. UNCHANGED <<unread, air, queue, messages, pinged, replied, interested, asked, rtt, seen, again>>
  BY DEF vars, sent, taken, history
<1>3. ListsShorten /\ QueuesShorten /\ Grows /\ MeasuresOwn'
  BY <1>1, <1>2, ReadsShorten, NothingSent, MeasuresStay
<1>4. /\ air' \in [Vehicles -> SUBSET Frame] /\ \A v \in Vehicles : air'[v] \subseteq air[v]
      /\ rtt' \in [Components -> SUBSET [from : Components, ts : Nat]]
  BY <1>1, <1>2 DEF TypeOK
<1> QED BY <1>2, <1>3, <1>4, ShortensInv

(* Where every frame is, and where its message has been: the invariant of  *)
(* the gateways, the radio and the queues.                                 *)
THEOREM RouteInvariant == Spec => []RouteInv
<1>1. RouteInv /\ [Next]_vars => RouteInv'
  <2> SUFFICES ASSUME RouteInv, [Next]_vars PROVE RouteInv'
    OBVIOUS
  <2>1. ASSUME NEW c \in Components, Receive(c) PROVE RouteInv'
    BY <2>1, UpdateInv, TakePingInv, TakeEchoInv, TakeTedsInv DEF Receive
  <2>2. ASSUME NEW c \in Components, SendPing(c) \/ SendInterest(c) \/ SendResponse(c)
        PROVE  RouteInv'
    BY <2>2, SendPingInv, SendInterestInv, SendResponseInv
  <2>3. ASSUME NEW v \in Vehicles, Gateway(v) PROVE RouteInv'
    BY <2>3, ForwardInv, AcceptInv DEF Gateway
  <2>4. CASE UNCHANGED vars
    BY <2>4, RouteStutters
  <2> QED BY <2>1, <2>2, <2>3, <2>4 DEF Next
<1> QED BY <1>1, RouteStarts, PTL DEF Spec

(* The lists, the queues and the counters keep their types. *)
THEOREM RoutingTypes == Spec => []TypeOK
<1>1. RouteInv => TypeOK
  BY DEF RouteInv
<1> QED BY <1>1, RouteInvariant, PTL

(* No communicator is handed a message twice, whatever the radio reaches   *)
(* and in whatever order gateways, rings and receivers run.                *)
THEOREM MessagesDeliveredOnce == Spec => []DeliveredOnce
<1>1. RouteInv => DeliveredOnce
  BY DEF RouteInv
<1> QED BY <1>1, RouteInvariant, PTL

(* The source address of a queued message is its sender's: a gateway never *)
(* leaves LOCAL on a frame that came from outside.                         *)
THEOREM SourcesIdentify == Spec => []SourceIdentifies
<1>1. RouteInv => SourceIdentifies
  <2> SUFFICES ASSUME RouteInv, NEW c \in Components, NEW i \in DOMAIN queue[c]
               PROVE  /\ queue[c][i].src = IF Home[queue[c][i].by] = Home[c] THEN Local
                                           ELSE Home[queue[c][i].by]
                      /\ queue[c][i].sport = Port[queue[c][i].by]
    BY DEF SourceIdentifies
  <2>1. QueueFrame(c, queue[c][i])
    BY DEF RouteInv, Forms, Range
  <2> QED BY <2>1 DEF QueueFrame, RingFrame, Made
<1> QED BY <1>1, RouteInvariant, PTL

(* Every round trip that a component measures is of its own PING, and of   *)
(* the ECHO of the right side.                                             *)
THEOREM RoundTripsAreOwn == Spec => []MeasuresOwn
<1>1. RouteInv => MeasuresOwn
  BY DEF RouteInv
<1> QED BY <1>1, RouteInvariant, PTL

-----------------------------------------------------------------------------
(***************************************************************************)
(* A PING sent inside by the component of the first port is never lost: it *)
(* is on its way to that component, its ECHO is, or it was measured.  This *)
(* is what LocalPingReturns needs besides fairness.                        *)
(***************************************************************************)

(* The messages that are on their way to a component. *)
Coming(c) == Ids(unread[c]) \cup Ids(queue[c])

Kept(c, n) ==
    \/ <<"PING", c, c, n>> \in Coming(c)
    \/ <<"ECHO", c, c, n>> \in Coming(c)
    \/ [from |-> c, ts |-> n] \in rtt[c]

(* Nothing that is sent inside to the first port is lost: not by the ring, *)
(* not by Protocol::update, not by the queue.                              *)
LocalPingKept ==
    \A c \in Components : \A n \in 1 .. pinged[c] :
        Port[c] = BASE_PORT /\ n % 2 = 0 => Kept(c, n)

(* What is on its way is still, or becomes its answer or its measurement. *)
KeepsOn(c, n) == Kept(c, n) => Kept(c, n)'

(* Nothing on the way to c is removed. *)
LEMMA NothingRemoved ==
    ASSUME NEW c \in Components, Ids(unread[c]) \subseteq Ids(unread'[c]),
           Ids(queue[c]) \subseteq Ids(queue'[c]), rtt[c] \subseteq rtt'[c]
    PROVE  \A n \in Nat : KeepsOn(c, n)
<1>1. Coming(c) \subseteq Coming(c)'
  BY DEF Coming
<1> QED BY <1>1 DEF KeepsOn, Kept

(* Publishing removes nothing. *)
LEMMA PublishKeeps ==
    ASSUME TypeOK, NEW v \in Vehicles, NEW f \in Frame, Publish(v, f), NEW p \in Processes
    PROVE  /\ Ids(unread[p]) \subseteq Ids(unread'[p])
           /\ VehicleOf(p) = v => Identity(f) \in Ids(unread'[p])
<1>1. CASE VehicleOf(p) = v
  <2>1. Ids(unread'[p]) = Ids(unread[p]) \cup {Identity(f)}
    BY <1>1, PublishEffect
  <2> QED BY <2>1
<1>2. CASE VehicleOf(p) # v
  <2>1. unread'[p] = unread[p]
    BY <1>2, PublishEffect
  <2> QED BY <1>2, <2>1
<1> QED BY <1>1, <1>2

(* Senders only add. *)
LEMMA SendersKeep ==
    ASSUME TypeOK, NEW d \in Components, NEW c \in Components, NEW kind, NEW sid, NEW ts, NEW dst,
           NEW dport, Send(d, kind, sid, ts, dst, dport), UNCHANGED <<queue, rtt>>,
           kind \in Kinds, sid \in Components, ts \in Nat, dst \in {Local, Broadcast}, dport \in Nat
    PROVE  /\ \A n \in Nat : KeepsOn(c, n)
           /\ c = d => <<kind, d, sid, ts>> \in Ids(unread'[c])
<1>f. PICK f : f = [kind |-> kind, by |-> d, sid |-> sid, ts |-> ts, src |-> Local,
                    sport |-> Port[d], dst |-> dst, dport |-> dport]
  OBVIOUS
<1>1. f \in Frame /\ Identity(f) = <<kind, d, sid, ts>>
  BY <1>f, SendTypes DEF Frame, Identity, Kinds
<1>2. Publish(Home[d], f) /\ Home[d] \in Vehicles /\ c \in Processes /\ VehicleOf(c) = Home[c]
  BY <1>f, Places DEF Send
<1>3. /\ Ids(unread[c]) \subseteq Ids(unread'[c])
      /\ c = d => Identity(f) \in Ids(unread'[c])
  BY <1>1, <1>2, PublishKeeps
<1>4. \A n \in Nat : KeepsOn(c, n)
  BY <1>3, NothingRemoved
<1> QED BY <1>1, <1>3, <1>4

(* The receiver thread queues every local PING and ECHO of the first port. *)
LEMMA UpdateKeeps ==
    ASSUME RouteInv, NEW d \in Components, Update(d), NEW c \in Components, Port[c] = BASE_PORT,
           NEW n \in Nat, n % 2 = 0
    PROVE  KeepsOn(c, n)
<1>1. /\ TypeOK /\ Reads(d) /\ UNCHANGED rtt /\ c \in Processes /\ d \in Processes
  BY Places DEF RouteInv, Update, taken
<1>2. CASE c # d
  <2>1. unread'[c] = unread[c] /\ queue'[c] = queue[c]
    BY <1>1, <1>2, ReadEffect DEF Update, TypeOK
  <2> QED BY <1>1, <2>1, NothingRemoved
<1>3. CASE c = d
  <2>f. PICK f : f = NextFrame(c)
    OBVIOUS
  <2>1. /\ f \in Frame /\ f \in Range(unread[c])
        /\ Ids(unread[c]) = Ids(unread'[c]) \cup {Identity(f)}
    BY <1>1, <1>3, <2>f, ReadEffect
  <2>2. RingFrame(Home[c], f)
    BY <1>1, <2>1, Places DEF RouteInv, Forms
  <2>3. CASE Matches(c, f)
    <3>1. queue[c] \in Seq(Frame) /\ queue'[c] = Append(queue[c], f)
      BY <1>1, <1>3, <2>3, <2>f DEF Update, TypeOK
    <3>2. Ids(queue'[c]) = Ids(queue[c]) \cup {Identity(f)}
      <4> DEFINE s == queue[c]
      <4>1. s \in Seq(Frame) /\ queue'[c] = Append(s, f)
        BY <3>1
      <4> HIDE DEF s
      <4>2. Ids(Append(s, f)) = Ids(s) \cup {Identity(f)}
        BY <2>1, <4>1, ListAppend
      <4> QED BY <4>1, <4>2, Zenon DEF s
    <3>3. Coming(c) \subseteq Coming(c)'
      BY <2>1, <3>2 DEF Coming
    <3> QED BY <1>1, <3>3 DEF KeepsOn, Kept
  <2>4. CASE ~Matches(c, f)
    <3>1. queue' = queue
      BY <1>3, <2>4, <2>f DEF Update
    <3>2. ASSUME NEW kind \in Latency, Identity(f) = <<kind, c, c, n>> PROVE FALSE
      <4>1. f.kind \in Latency /\ f.by = c /\ f.ts = n
        BY <3>2 DEF Identity
      <4>2. f.dport = BASE_PORT /\ f.dst = Local
        BY <2>2, <4>1 DEF RingFrame, Made, Outside
      <4> QED BY <2>4, <4>2, AddressesAssumption DEF Matches, BASE_PORT, TYPE_BASED_ROUTING_PORT
    <3>3. /\ Identity(f) # <<"PING", c, c, n>> /\ Identity(f) # <<"ECHO", c, c, n>>
      BY <3>2 DEF Latency
    <3> QED BY <1>1, <2>1, <3>1, <3>3 DEF KeepsOn, Kept, Coming
  <2> QED BY <2>3, <2>4
<1> QED BY <1>2, <1>3

(* A PING that is taken leaves its ECHO in the ring; an ECHO that is taken *)
(* by the component it is for is measured; nothing else is taken.          *)
LEMMA TakesKeep ==
    ASSUME RouteInv, NEW d \in Components, TakePing(d) \/ TakeEcho(d) \/ TakeTeds(d),
           NEW c \in Components, NEW n \in Nat
    PROVE  KeepsOn(c, n)
<1>f. PICK f : f = Head(queue[d])
  OBVIOUS
<1>1. /\ TypeOK /\ Forms /\ c \in Processes /\ VehicleOf(c) = Home[c] /\ Home[d] \in Vehicles
      /\ Port[d] \in Nat
  BY Places, SendTypes DEF RouteInv
<1>2. /\ f \in Frame
      /\ Ids(queue[d]) = Ids(queue'[d]) \cup {Identity(f)}
      /\ \A e \in Components : e # d => queue'[e] = queue[e]
      /\ TakePing(d) => f.kind = "PING"
      /\ TakeEcho(d) => f.kind = "ECHO"
      /\ TakeTeds(d) => f.kind \in {"INTEREST", "RESPONSE"}
  BY <1>1, <1>f, TakeEffect DEF TakePing, TakeEcho, TakeTeds
<1>3. CASE TakePing(d)
  <2>g. PICK g : g = [kind |-> "ECHO", by |-> d, sid |-> f.sid, ts |-> f.ts, src |-> Local,
                      sport |-> Port[d], dst |-> IF f.src = Local THEN Local ELSE Broadcast,
                      dport |-> BASE_PORT]
    OBVIOUS
  <2>1. g \in Frame /\ Identity(g) = <<"ECHO", d, f.sid, f.ts>>
    BY <1>1, <1>2, <2>g DEF Frame, Identity, BASE_PORT
  <2>2. Publish(Home[d], g) /\ UNCHANGED rtt
    BY <1>3, <1>f, <2>g DEF TakePing, Send, taken
  <2>3. /\ Ids(unread[c]) \subseteq Ids(unread'[c])
        /\ c = d => Identity(g) \in Ids(unread'[c])
    BY <1>1, <2>1, <2>2, PublishKeeps
  <2>4. CASE c = d /\ Identity(f) = <<"PING", c, c, n>>
    <3>1. f.sid = c /\ f.ts = n
      BY <2>4 DEF Identity
    <3>2. <<"ECHO", c, c, n>> \in Coming(c)'
      BY <2>1, <2>3, <2>4, <3>1 DEF Coming
    <3> QED BY <3>2 DEF KeepsOn, Kept
  <2>5. CASE c # d
    BY <1>2, <2>2, <2>3, <2>5, NothingRemoved
  <2>6. CASE c = d /\ Identity(f) # <<"PING", c, c, n>>
    <3>1. Identity(f) # <<"ECHO", c, c, n>>
      BY <1>2, <1>3 DEF Identity
    <3> QED BY <1>2, <2>2, <2>3, <2>6, <3>1 DEF KeepsOn, Kept, Coming
  <2> QED BY <2>4, <2>5, <2>6
<1>4. CASE TakeEcho(d)
  <2>1. /\ UNCHANGED unread
        /\ rtt' = IF f.sid = d THEN [rtt EXCEPT ![d] = @ \cup {[from |-> f.by, ts |-> f.ts]}] ELSE rtt
    BY <1>4, <1>f DEF TakeEcho
  <2>2. rtt[c] \subseteq rtt'[c]
    BY <1>1, <2>1 DEF TypeOK
  <2>3. CASE c = d /\ Identity(f) = <<"ECHO", c, c, n>>
    <3>1. f.sid = c /\ f.by = c /\ f.ts = n
      BY <2>3 DEF Identity
    <3>2. [from |-> c, ts |-> n] \in rtt'[c]
      BY <1>1, <2>1, <2>3, <3>1 DEF TypeOK
    <3> QED BY <3>2 DEF KeepsOn, Kept
  <2>4. CASE c # d
    BY <1>2, <2>1, <2>2, <2>4, NothingRemoved
  <2>5. CASE c = d /\ Identity(f) # <<"ECHO", c, c, n>>
    <3>1. Identity(f) # <<"PING", c, c, n>>
      BY <1>2, <1>4 DEF Identity
    <3> QED BY <1>2, <2>1, <2>2, <2>5, <3>1 DEF KeepsOn, Kept, Coming
  <2> QED BY <2>3, <2>4, <2>5
<1>5. CASE TakeTeds(d)
  <2>1. UNCHANGED <<unread, rtt>>
    BY <1>5 DEF TakeTeds
  <2>2. Identity(f) # <<"PING", c, c, n>> /\ Identity(f) # <<"ECHO", c, c, n>>
    BY <1>2, <1>5 DEF Identity
  <2>3. <<"PING", c, c, n>> \in Ids(queue[c]) => <<"PING", c, c, n>> \in Ids(queue'[c])
    BY <1>2, <2>2
  <2>4. <<"ECHO", c, c, n>> \in Ids(queue[c]) => <<"ECHO", c, c, n>> \in Ids(queue'[c])
    BY <1>2, <2>2
  <2> QED BY <2>1, <2>3, <2>4 DEF KeepsOn, Kept, Coming
<1> QED BY <1>3, <1>4, <1>5

(* A gateway reads its own list, and only adds to those of components. *)
LEMMA GatewayKeeps ==
    ASSUME RouteInv, NEW v \in Vehicles, Gateway(v), NEW c \in Components
    PROVE  \A n \in Nat : KeepsOn(c, n)
<1>1. TypeOK /\ c \in Processes /\ v \in Processes /\ c # v
  BY Places DEF RouteInv
<1>2. CASE Forward(v)
  <2>1. unread'[c] = unread[c] /\ UNCHANGED <<queue, rtt>>
    BY <1>1, <1>2, ReadEffect DEF Forward, taken
  <2> QED BY <2>1, NothingRemoved
<1>3. ASSUME NEW f \in air[v], Accept(v, f) PROVE \A n \in Nat : KeepsOn(c, n)
  <2>1. UNCHANGED <<queue, rtt>>
    BY <1>3 DEF Accept, taken
  <2>2. CASE UNCHANGED unread
    BY <2>1, <2>2, NothingRemoved
  <2>3. CASE Publish(v, [f EXCEPT !.dst = Local])
    <3>1. [f EXCEPT !.dst = Local] \in Frame
      <4>1. f \in Frame
        BY <1>1 DEF TypeOK
      <4> QED BY <4>1 DEF Frame
    <3>2. Ids(unread[c]) \subseteq Ids(unread'[c])
      <4>g. PICK g : g = [f EXCEPT !.dst = Local]
        OBVIOUS
      <4> QED BY <1>1, <2>3, <3>1, <4>g, PublishKeeps
    <3> QED BY <2>1, <3>2, NothingRemoved
  <2> QED BY <1>3, <2>2, <2>3 DEF Accept
<1> QED BY <1>2, <1>3 DEF Gateway

(* A PING that is sent is on its way to its sender; no step loses one. *)
LEMMA KeptStep ==
    ASSUME RouteInv, LocalPingKept, [Next]_vars
    PROVE  LocalPingKept'
<1>1. TypeOK
  BY DEF RouteInv
<1>2. ASSUME NEW c \in Components, NEW n \in Nat, Port[c] = BASE_PORT, n % 2 = 0
      PROVE  /\ KeepsOn(c, n)
             /\ n \in 1 .. pinged'[c] => n \in 1 .. pinged[c] \/ <<"PING", c, c, n>> \in Coming(c)'
  <2>1. ASSUME NEW d \in Components, SendPing(d)
        PROVE  /\ KeepsOn(c, n)
               /\ n \in 1 .. pinged'[c] => n \in 1 .. pinged[c] \/ <<"PING", c, c, n>> \in Coming(c)'
    <3>n. PICK k, dst : /\ k = pinged[d] + 1
                        /\ dst = IF pinged[d] % 2 = 0 THEN Broadcast ELSE Local
      OBVIOUS
    <3>1. /\ Send(d, "PING", d, k, dst, BASE_PORT) /\ UNCHANGED <<queue, rtt>>
          /\ k \in Nat /\ dst \in {Local, Broadcast} /\ BASE_PORT \in Nat
          /\ pinged' = [pinged EXCEPT ![d] = k]
      BY <1>1, <2>1, <3>n DEF SendPing, taken, BASE_PORT, TypeOK
    <3>2. /\ KeepsOn(c, n)
          /\ c = d => <<"PING", d, d, k>> \in Ids(unread'[c])
      BY <1>1, <3>1, SendersKeep DEF Kinds
    <3>3. /\ c # d => pinged'[c] = pinged[c]
          /\ c = d /\ n \in 1 .. pinged'[c] => n \in 1 .. pinged[c] \/ n = k
      BY <1>1, <3>n, <3>1 DEF TypeOK
    <3> QED BY <3>2, <3>3 DEF Coming
  <2>2. ASSUME NEW d \in Components, SendInterest(d) PROVE KeepsOn(c, n) /\ UNCHANGED pinged
    <3>1. /\ Send(d, "INTEREST", d, 0, Broadcast, TYPE_BASED_ROUTING_PORT)
          /\ UNCHANGED <<queue, rtt, pinged>> /\ TYPE_BASED_ROUTING_PORT \in Nat
      BY <2>2 DEF SendInterest, taken, TYPE_BASED_ROUTING_PORT
    <3> QED BY <1>1, <3>1, SendersKeep DEF Kinds
  <2>3. ASSUME NEW d \in Components, SendResponse(d) PROVE KeepsOn(c, n) /\ UNCHANGED pinged
    <3>n. PICK k : k = replied[d] + 1
      OBVIOUS
    <3>1. /\ Send(d, "RESPONSE", d, k, Broadcast, TYPE_BASED_ROUTING_PORT) /\ k \in Nat
          /\ UNCHANGED <<queue, rtt, pinged>> /\ TYPE_BASED_ROUTING_PORT \in Nat
      BY <1>1, <2>3, <3>n DEF SendResponse, taken, TYPE_BASED_ROUTING_PORT, TypeOK
    <3> QED BY <1>1, <3>1, SendersKeep DEF Kinds
  <2>4. ASSUME NEW d \in Components, Receive(d) PROVE KeepsOn(c, n) /\ UNCHANGED pinged
    <3>1. UNCHANGED pinged
      BY <2>4 DEF Receive, Update, TakePing, TakeEcho, TakeTeds, Takes, sent
    <3> QED BY <1>2, <2>4, <3>1, UpdateKeeps, TakesKeep DEF Receive
  <2>5. ASSUME NEW v \in Vehicles, Gateway(v) PROVE KeepsOn(c, n) /\ UNCHANGED pinged
    BY <2>5, GatewayKeeps DEF Gateway, Forward, Accept, sent
  <2>6. CASE UNCHANGED vars
    BY <2>6, NothingRemoved DEF vars, sent, taken
  <2> QED BY <2>1, <2>2, <2>3, <2>4, <2>5, <2>6 DEF Next, vars, sent
<1> SUFFICES ASSUME NEW c \in Components, NEW n \in 1 .. pinged'[c], Port[c] = BASE_PORT, n % 2 = 0
             PROVE  Kept(c, n)'
  BY DEF LocalPingKept
<1>3. n \in Nat
  OBVIOUS
<1> QED BY <1>2, <1>3 DEF LocalPingKept, KeepsOn, Kept

(* Nothing sent inside is lost: every PING that the component of the first *)
(* port sends inside its vehicle is on its way, or its ECHO is, until its  *)
(* round trip is measured.                                                 *)
THEOREM LocalPingsKept == Spec => []LocalPingKept
<1>1. Init => LocalPingKept
  BY DEF Init, LocalPingKept
<1>2. RouteInv /\ LocalPingKept /\ [Next]_vars => LocalPingKept'
  BY KeptStep
<1> QED BY <1>1, <1>2, RouteInvariant, PTL DEF Spec

=============================================================================
