------------------------------ MODULE Delivery ------------------------------
(***************************************************************************)
(* RabbitMQ as the message handlers of this service meet it: one queue per *)
(* kind of event, one unacknowledged message per consumer (prefetchCount   *)
(* 1), a dead letter exchange whose messages come back when they expire,   *)
(* redelivery after a crash, and the interceptor that gives up on a        *)
(* message that has come back too often.                                   *)
(*                                                                         *)
(* A queue is a set: a message that was dead-lettered or redelivered has   *)
(* lost its turn, so a handler may meet the messages in any order.         *)
(***************************************************************************)
EXTENDS Naturals, FiniteSets

CONSTANTS
    Events,       \* the messages, records with at least a kind and an origin
    RetryCount,   \* how often an event may come back before it is given up
    Replicas,     \* pods of this service, each with one consumer per queue
    MaxDeaths,    \* bound: the counter of expiries saturates here
    MaxCrashes,   \* bound: consumers that die with a message in hand
    MaxFaults     \* bound: database calls that fail

VARIABLES
    place,        \* place[e]: where the message e is
    deaths,       \* deaths[e]: the count of the 'expired' entry of x-death
    crashes,      \* crashes so far
    faults        \* failed database calls so far

Unsettled == {"delivered", "loaded", "applied"}
Settled   == {"acked", "dropped"}
Places    == {"unpublished", "queued", "parked"} \cup Unsettled \cup Settled

Init ==
    /\ place = [e \in Events |-> "unpublished"]
    /\ deaths = [e \in Events |-> 0]
    /\ crashes = 0
    /\ faults = 0

Move(e, from, to) ==
    /\ place[e] = from
    /\ place' = [place EXCEPT ![e] = to]

\* x-first-death-queue names the queue the event first died in.  An event of
\* origin "foreign" is one that another service rejected: the exchange both
\* share routes it here again when it expires, and the header names their queue.
HasDied(e) == e.origin = "own" /\ deaths[e] > 0

\* Mutants: the comparison is off by one; the interceptor never gives up.
ExhaustedOneLate(e) == HasDied(e) /\ deaths[e] > RetryCount
ExhaustedNever(e)   == FALSE

Exhausted(e) == HasDied(e) /\ deaths[e] >= RetryCount

Publish(e) ==
    /\ Move(e, "unpublished", "queued")
    /\ UNCHANGED <<deaths, crashes, faults>>

Consuming(kind) ==
    {e \in Events : e.kind = kind /\ place[e] \in Unsettled}

FreeConsumer(e) == Cardinality(Consuming(e.kind)) < Replicas

\* The handler is entered; CheckedDeliver is the same behind the interceptor.
Deliver(e) ==
    /\ FreeConsumer(e)
    /\ Move(e, "queued", "delivered")
    /\ UNCHANGED <<deaths, crashes, faults>>

CheckedDeliver(e) == ~Exhausted(e) /\ Deliver(e)

\* The interceptor returns without calling the handler: the event is acked.
Discard(e) ==
    /\ FreeConsumer(e)
    /\ Exhausted(e)
    /\ Move(e, "queued", "dropped")
    /\ UNCHANGED <<deaths, crashes, faults>>

\* A step of the handler: an event that is delivered, or whose document is
\* loaded, is loaded, applied or rejected (parked).
Handle(e, from, to) ==
    /\ Move(e, from, to)
    /\ UNCHANGED <<deaths, crashes, faults>>

\* A database call of the handler fails, or the reply to one that took effect
\* is lost, and the event goes where the handler's error path sends it.
Fault(e, to) ==
    /\ faults < MaxFaults
    /\ place[e] \in Unsettled
    /\ place' = [place EXCEPT ![e] = to]
    /\ faults' = faults + 1
    /\ UNCHANGED <<deaths, crashes>>

\* The handler returns without a Nack, and the broker sees the acknowledgement.
Ack(e) ==
    /\ Move(e, "applied", "acked")
    /\ UNCHANGED <<deaths, crashes, faults>>

\* A parked event expires and is routed to its queue again.
Expire(e) ==
    /\ Move(e, "parked", "queued")
    /\ deaths' = [deaths EXCEPT ![e] = IF @ < MaxDeaths THEN @ + 1 ELSE @]
    /\ UNCHANGED <<crashes, faults>>

\* The consumer dies before its acknowledgement: the broker redelivers.
Crash(e) ==
    /\ crashes < MaxCrashes
    /\ place[e] \in Unsettled
    /\ place' = [place EXCEPT ![e] = "queued"]
    /\ crashes' = crashes + 1
    /\ UNCHANGED <<deaths, faults>>

TypeOK ==
    /\ place \in [Events -> Places]
    /\ deaths \in [Events -> Nat]
    /\ crashes \in 0..MaxCrashes
    /\ faults \in 0..MaxFaults
=============================================================================
