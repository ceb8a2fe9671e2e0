----------------------------- MODULE MessageBus -----------------------------
(***************************************************************************)
(* What the local bus promises its processes: one stream of messages,      *)
(* numbered in the order they are published.  From the point at which a    *)
(* process enters the stream it gets every message, in that order, each    *)
(* once, and can look at what was sent until it acknowledges that message  *)
(* or a later one: an acknowledgement is cumulative.                       *)
(***************************************************************************)
EXTENDS Naturals, Sequences

CONSTANT Processes

VARIABLES
    published,  \* how many messages are in the stream
    attached,   \* which processes are in the stream
    received,   \* how far each process has read
    inbox       \* what each process can still look at, oldest first

busVars == <<published, attached, received, inbox>>

BusInit ==
    /\ published = 0
    /\ attached = [p \in Processes |-> FALSE]
    /\ received = [p \in Processes |-> 0]
    /\ inbox = [p \in Processes |-> <<>>]

(* A process enters the stream after some message that is published. *)
Join(p) ==
    /\ ~attached[p]
    /\ attached' = [attached EXCEPT ![p] = TRUE]
    /\ \E n \in 0 .. published : received' = [received EXCEPT ![p] = n]
    /\ UNCHANGED <<published, inbox>>

Leave(p) ==
    /\ attached[p]
    /\ attached' = [attached EXCEPT ![p] = FALSE]
    /\ received' = [received EXCEPT ![p] = 0]
    /\ inbox' = [inbox EXCEPT ![p] = <<>>]
    /\ UNCHANGED published

PublishNext ==
    /\ published' = published + 1
    /\ UNCHANGED <<attached, received, inbox>>

Deliver(p) ==
    /\ attached[p] /\ received[p] < published
    /\ received' = [received EXCEPT ![p] = @ + 1]
    /\ inbox' = [inbox EXCEPT ![p] = Append(@, received[p] + 1)]
    /\ UNCHANGED <<published, attached>>

(* Acknowledging the n-th message of the inbox gives up the first n. *)
Acknowledge(p) ==
    /\ \E n \in 1 .. Len(inbox[p]) :
          inbox' = [inbox EXCEPT ![p] = SubSeq(@, n + 1, Len(@))]
    /\ UNCHANGED <<published, attached, received>>

BusNext ==
    \/ PublishNext
    \/ \E p \in Processes : Join(p) \/ Leave(p) \/ Deliver(p) \/ Acknowledge(p)

BusSpec == BusInit /\ [][BusNext]_busVars
=============================================================================
