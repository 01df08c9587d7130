--------------------------- MODULE EventDelivery ---------------------------
(***************************************************************************)
(* The way of a domain event from Publisher.publish to the callback of a   *)
(* Consumer, as one worker process sees it.  RabbitMQ itself is modelled   *)
(* from how the two classes use it: durable queues bound by routing key,   *)
(* persistent messages, no prefetch limit, acknowledgement by hand.        *)
(*                                                                         *)
(* The callbacks of all queues run on one event loop and end in one        *)
(* command each over one connection, so what a delivery does, it does in   *)
(* the order of the deliveries; its acknowledgement is a later step.       *)
(***************************************************************************)
EXTENDS Naturals, Sequences

CONSTANTS
    Queues,  \* the queues of the worker, one per routing key
    Bodies   \* what an event tells

VARIABLE
    log      \* the events in the order of their publication: queue, body, and
             \* where the message is: "ready" in its queue, "handled" or
             \* "failed" in the worker, or "acked"

-----------------------------------------------------------------------------
MessageStates == {"ready", "handled", "failed", "acked"}

Message == [queue : Queues, body : Bodies, state : MessageStates]

InState(i, state) == log[i].state = state

\* A queue hands out its messages in order; one that was requeued is back in
\* its old place.
IsHead(i) ==
    /\ InState(i, "ready")
    /\ \A j \in DOMAIN log :
          j < i /\ log[j].queue = log[i].queue => ~ InState(j, "ready")

-----------------------------------------------------------------------------
Publish(q, body) ==
    log' = Append(log, [queue |-> q, body |-> body, state |-> "ready"])

\* The message is given to the callback, which ends with this outcome.
Deliver(i, outcome) ==
    /\ IsHead(i)
    /\ log' = [log EXCEPT ![i].state = outcome]

\* Mutant of Ack: every message is requeued when its callback has ended.
AckRequeues(i) ==
    /\ InState(i, "handled")
    /\ log' = [log EXCEPT ![i].state = "ready"]

\* channel.ack
Ack(i) ==
    /\ InState(i, "handled")
    /\ log' = [log EXCEPT ![i].state = "acked"]

\* Mutant of Nack: channel.nack(message, false, false), without requeuing.
NackDrops(i) ==
    /\ InState(i, "failed")
    /\ log' = [log EXCEPT ![i].state = "acked"]

\* channel.nack(message, false, true)
Nack(i) ==
    /\ InState(i, "failed")
    /\ log' = [log EXCEPT ![i].state = "ready"]

\* The channel closes: the broker requeues what has not been acknowledged.
Requeue ==
    /\ \E i \in DOMAIN log : log[i].state \in {"handled", "failed"}
    /\ log' = [i \in DOMAIN log |->
                 IF log[i].state \in {"handled", "failed"}
                 THEN [log[i] EXCEPT !.state = "ready"]
                 ELSE log[i]]
=============================================================================
