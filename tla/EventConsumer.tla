---------------------------- MODULE EventConsumer ----------------------------
(***************************************************************************)
(* The RabbitMQ client of infra/docker/RabbitMQ/rabbitMQ.py: subscribers   *)
(* that share one routing key, each with a queue, a retry queue whose      *)
(* copies expire back to the main exchange, and a dead-letter queue.  A    *)
(* worker is one delivery in progress: the client prefetches several and   *)
(* the callbacks of a subscriber interleave at every await.  Copies of an  *)
(* event differ only in their retry_count, so queues are counters.         *)
(* Operators commented "Slip:" are altered forms of the operator that      *)
(* follows and take no part in the specification.                          *)
(***************************************************************************)
EXTENDS Integers, FiniteSets

CONSTANTS
  Queue,        \* subscribers' queues, all bound with the same routing key
  Event,
  Worker,       \* bound: deliveries in progress; the client prefetches 10 per queue
  Staffing,     \* how workers may be spread over the subscribers; one without any is down
  MaxRetries,   \* MAX_RETRIES: 3 by default
  MaxFaults     \* bound: lost connections, crashes and failing broker or database calls

ASSUME ConsumerAssumption ==
  /\ IsFiniteSet(Worker) /\ Staffing \subseteq [Worker -> Queue]
  /\ MaxRetries \in Nat /\ MaxFaults \in Nat

\* What tells copies apart: the queue, the event and retry_count.
Copy == Queue \X Event \X (0 .. MaxRetries + 1)

Stage == {"idle", "received", "handling", "handled", "acking", "failing", "poison", "parked",
          "routed"}

VARIABLES
  serves,      \* the queue each worker's consumer reads, settled from the start
  malformed,   \* events published by others with a body that is not JSON
  bound,       \* how many of its queues a subscriber has bound: main, retry, dlq
  main,        \* copies ready in each main queue
  retry,       \* copies waiting in each retry queue for their time to live
  dead,        \* what the dead-letter queues hold; nothing here consumes them
  task,        \* the message each worker has, its stage, and whether it may still ack it
  marked,      \* the subscribers' idempotency marks
  published,   \* history: events published
  handled,     \* history: times a subscriber's handler completed an event, up to two
  failures,    \* history: failed attempts at an event, up to the number that exhausts it
  fannedOut,   \* history: events whose retry or expiry reached several queues
  faults

setup == <<serves, malformed, bound, published>>
vars == <<setup, main, retry, dead, task, marked, handled, failures, fannedOut, faults>>

Idle == [stage |-> "idle", copy |-> <<>>, stale |-> FALSE]

Init ==
  /\ serves \in Staffing
  /\ malformed = {}
  /\ bound = [q \in Queue |-> 0]
  /\ main = [c \in Copy |-> 0] /\ retry = main /\ dead = {}
  /\ task = [w \in Worker |-> Idle]
  /\ marked = {} /\ published = {}
  /\ handled = [p \in Queue \X Event |-> 0]
  /\ failures = [e \in Event |-> 0]
  /\ fannedOut = {}
  /\ faults = 0

-----------------------------------------------------------------------------
(* The broker: exchanges route a copy to the queues bound with the key *)

\* The subscribers with at least this many queues bound: 1 main, 2 retry, 3 dead-letter.
Bound(kind) == {q \in Queue : bound[q] >= kind}

Routed(queues, to, e, n) ==
  [c \in Copy |-> IF c[1] \in to /\ c[2] = e /\ c[3] = n THEN queues[c] + 1 ELSE queues[c]]

\* Several queues may take the copy that one subscriber retries.
FanOut(to, e) ==
  fannedOut' = IF \E p, q \in to : p # q THEN fannedOut \cup {e} ELSE fannedOut

\* declare_queue binds the three queues one after the other; consumption starts afterwards.
DeclareQueue(q) ==
  /\ bound[q] < 3
  /\ bound' = [bound EXCEPT ![q] = bound[q] + 1]
  /\ UNCHANGED <<serves, malformed, published, main, retry, dead, task, marked, handled,
                 failures, fannedOut, faults>>

\* A confirmed publish that no queue is bound for is dropped by the exchange.
Publish(e, wellFormed) ==
  /\ e \notin published
  /\ malformed' = IF wellFormed THEN malformed ELSE malformed \cup {e}
  /\ published' = published \cup {e}
  /\ main' = Routed(main, Bound(1), e, 0)
  /\ UNCHANGED <<serves, bound, retry, dead, task, marked, handled, failures, fannedOut, faults>>

\* The time to live of a copy in a retry queue ends: back to the main exchange.
Expire(c) ==
  /\ retry[c] > 0
  /\ retry' = [retry EXCEPT ![c] = retry[c] - 1]
  /\ main' = Routed(main, Bound(1), c[2], c[3])
  /\ FanOut(Bound(1), c[2])
  /\ UNCHANGED <<setup, dead, task, marked, handled, failures, faults>>

Deliver(w, c) ==
  /\ task[w].stage = "idle"
  /\ bound[serves[w]] = 3
  /\ c[1] = serves[w] /\ main[c] > 0
  /\ main' = [main EXCEPT ![c] = main[c] - 1]
  /\ task' = [task EXCEPT ![w] = [stage |-> "received", copy |-> c, stale |-> FALSE]]
  /\ UNCHANGED <<setup, retry, dead, marked, handled, failures, fannedOut, faults>>

-----------------------------------------------------------------------------
(* process_message, one step from each await to the next *)

MoveTo(w, stage) == task' = [task EXCEPT ![w].stage = stage]

EventAt(w) == task[w].copy[2]
RetryCount(w) == task[w].copy[3]
Mark(w) == <<serves[w], EventAt(w)>>

UpTo(bnd, n) == IF n < bnd THEN n ELSE bnd

\* Any exception of the callback ends in _handle_failure.
Fail(w) ==
  /\ MoveTo(w, "failing")
  /\ failures' = [failures EXCEPT ![EventAt(w)] = UpTo(MaxRetries + 1, failures[EventAt(w)] + 1)]

Fault == faults < MaxFaults /\ faults' = faults + 1

\* The idempotency check and the decoding of the body.
Check(w) ==
  /\ task[w].stage = "received"
  /\ \/ Mark(w) \in marked /\ MoveTo(w, "acking") /\ UNCHANGED <<failures, faults>>
     \/ Mark(w) \notin marked /\ EventAt(w) \in malformed /\ MoveTo(w, "poison")
        /\ UNCHANGED <<failures, faults>>
     \/ Mark(w) \notin marked /\ EventAt(w) \notin malformed /\ MoveTo(w, "handling")
        /\ UNCHANGED <<failures, faults>>
     \/ Fault /\ Fail(w)
  /\ UNCHANGED <<setup, main, retry, dead, marked, handled, fannedOut>>

Handle(w) ==
  /\ task[w].stage = "handling"
  /\ \/ /\ MoveTo(w, "handled")
        /\ handled' = [handled EXCEPT ![Mark(w)] = UpTo(2, handled[Mark(w)] + 1)]
        /\ UNCHANGED failures
     \/ Fail(w) /\ UNCHANGED handled
  /\ UNCHANGED <<setup, main, retry, dead, marked, fannedOut, faults>>

MarkProcessed(w) ==
  /\ task[w].stage = "handled"
  /\ \/ MoveTo(w, "acking") /\ marked' = marked \cup {Mark(w)} /\ UNCHANGED <<failures, faults>>
     \/ Fault /\ Fail(w) /\ UNCHANGED marked
  /\ UNCHANGED <<setup, main, retry, dead, handled, fannedOut>>

\* An acknowledgement on a connection that is gone raises.
Ack(w) ==
  /\ task[w].stage = "acking"
  /\ \/ ~task[w].stale /\ task' = [task EXCEPT ![w] = Idle] /\ UNCHANGED failures
     \/ task[w].stale /\ Fail(w)
  /\ UNCHANGED <<setup, main, retry, dead, marked, handled, fannedOut, faults>>

\* A dead letter reaches every queue bound for it.
DeadLettered(e, n) == dead' = dead \cup (Bound(3) \X {e} \X {n}) /\ UNCHANGED <<retry, fannedOut>>

\* The copy that replaces the message: for a retry, or among the dead letters.
SendOnOr(w, retryIt) ==
  \/ /\ task[w].stage = "failing" /\ retryIt
     /\ retry' = Routed(retry, Bound(2), EventAt(w), RetryCount(w) + 1)
     /\ FanOut(Bound(2), EventAt(w))
     /\ UNCHANGED dead
  \/ task[w].stage = "failing" /\ ~retryIt /\ DeadLettered(EventAt(w), RetryCount(w) + 1)
  \/ task[w].stage = "poison" /\ DeadLettered(EventAt(w), RetryCount(w))

\* Slip: the last retry is given up.
SendOnEarly(w) == SendOnOr(w, RetryCount(w) + 1 < MaxRetries)

\* Slip: the count of the message is compared, not the next one.
SendOnLate(w) == SendOnOr(w, RetryCount(w) <= MaxRetries)

SendOn(w) == SendOnOr(w, RetryCount(w) + 1 <= MaxRetries)

\* _handle_failure and _route_to_dlq_explicitly publish before they acknowledge.
Reroute(w) ==
  /\ task[w].stage \in {"failing", "poison"}
  /\ SendOn(w)
  /\ MoveTo(w, IF task[w].stage = "failing" THEN "routed" ELSE "parked")
  /\ UNCHANGED <<setup, main, marked, handled, failures, faults>>

\* Slip: consumed without acknowledgements, nothing comes back.
RequeuedNone(ws) == main

\* The copies of these workers are ready again, unless the broker took them back before.
Requeued(ws) ==
  [c \in Copy |-> main[c] + Cardinality({w \in ws : ~task[w].stale /\ task[w].copy = c})]

\* The publish raises, its copy routed or not: reject with requeue, which raises in turn
\* when the message is stale; for poison that exception reaches _handle_failure.
RerouteFails(w) ==
  /\ task[w].stage \in {"failing", "poison"}
  /\ IF task[w].stale THEN UNCHANGED faults ELSE Fault
  /\ SendOn(w) \/ UNCHANGED <<retry, dead, fannedOut>>
  /\ main' = Requeued({w})
  /\ IF task[w].stale /\ task[w].stage = "poison"
     THEN Fail(w) ELSE task' = [task EXCEPT ![w] = Idle] /\ UNCHANGED failures
  /\ UNCHANGED <<setup, marked, handled>>

\* Slip: the message is put back although its copy has been sent on.
AckRoutedRequeue(w) ==
  /\ task[w].stage \in {"routed", "parked"}
  /\ main' = Requeued({w})
  /\ task' = [task EXCEPT ![w] = Idle]
  /\ UNCHANGED <<setup, retry, dead, marked, handled, failures, fannedOut, faults>>

AckRouted(w) ==
  /\ task[w].stage \in {"routed", "parked"}
  /\ IF task[w].stale /\ task[w].stage = "parked"
     THEN Fail(w) ELSE task' = [task EXCEPT ![w] = Idle] /\ UNCHANGED failures
  /\ UNCHANGED <<setup, main, retry, dead, marked, handled, fannedOut, faults>>

\* The connection of q's process goes, or the process itself: what is not acknowledged is
\* ready again.  Callbacks outlive a lost connection, with messages they cannot ack.
Disconnect(q, survive) ==
  LET mine == {w \in Worker : serves[w] = q /\ task[w].stage # "idle"}
  IN
  /\ mine # {}
  /\ Fault
  /\ main' = Requeued(mine)
  /\ task' = [w \in Worker |->
                IF w \notin mine THEN task[w]
                ELSE IF survive THEN [stage |-> task[w].stage, copy |-> task[w].copy, stale |-> TRUE]
                ELSE Idle]
  /\ UNCHANGED <<setup, retry, dead, marked, handled, failures, fannedOut>>

Proceed(w) ==
  \/ \E c \in Copy : Deliver(w, c)
  \/ Check(w) \/ Handle(w) \/ MarkProcessed(w) \/ Ack(w)
  \/ Reroute(w) \/ RerouteFails(w) \/ AckRouted(w)

Next ==
  \/ \E q \in Queue : DeclareQueue(q) \/ \E survive \in BOOLEAN : Disconnect(q, survive)
  \/ \E e \in Event : \E wellFormed \in BOOLEAN : Publish(e, wellFormed)
  \/ \E c \in Copy : Expire(c)
  \/ \E w \in Worker : Proceed(w)

\* Subscribers finish subscribing, callbacks that started go on, consumers take what is
\* ready and the broker expires what waits; nothing obliges anyone to publish.
Fairness ==
  /\ \A q \in Queue : WF_vars(DeclareQueue(q))
  /\ \A c \in Copy : WF_vars(Expire(c)) /\ WF_vars(\E w \in Worker : Deliver(w, c))
  /\ \A w \in Worker : WF_vars(Proceed(w))

Spec == Init /\ [][Next]_vars /\ Fairness

-----------------------------------------------------------------------------
(* Properties *)

TypeOK ==
  /\ serves \in Staffing /\ malformed \subseteq published
  /\ bound \in [Queue -> 0 .. 3]
  /\ main \in [Copy -> Nat] /\ retry \in [Copy -> Nat] /\ dead \subseteq Copy
  /\ task \in [Worker -> {Idle} \cup [stage: Stage \ {"idle"}, copy: Copy, stale: BOOLEAN]]
  /\ \A w \in Worker :
       task[w].stage # "idle" => task[w].copy[1] = serves[w] /\ RetryCount(w) <= MaxRetries
  /\ marked \subseteq Queue \X Event /\ published \subseteq Event
  /\ handled \in [Queue \X Event -> 0 .. 2]
  /\ failures \in [Event -> 0 .. MaxRetries + 1]
  /\ fannedOut \subseteq Event
  /\ faults \in 0 .. MaxFaults

Holds(p) ==
  \/ \E n \in 0 .. MaxRetries + 1 : main[<<p[1], p[2], n>>] > 0 \/ retry[<<p[1], p[2], n>>] > 0
  \/ \E w \in Worker : /\ task[w].stage # "idle" /\ ~task[w].stale
                       /\ serves[w] = p[1] /\ EventAt(w) = p[2]

\* The subscribers that run.
Live == {serves[w] : w \in Worker}

Settled == {p \in Live \X Event :
              handled[p] > 0 \/ \E c \in dead : p = <<c[1], c[2]>>}

Owed == {p \in Live \X Event : Holds(p)} \ Settled

Promise == INSTANCE EventDelivery WITH owed <- Owed, settled <- Settled

(* Whatever fails, and in whatever order the callbacks, the retries and the lost        *)
(* connections interleave, no subscriber loses an event: it stays in one of its queues  *)
(* or callbacks until it is handled or in the dead letters, and that comes.             *)
DeliveryKept == Promise!Spec

(* A well-formed event is dead-lettered only when its handling has failed MAX_RETRIES   *)
(* times after the first, however its copies spread over queues and callbacks.          *)
DeadLetteredWhenExhausted ==
  \A c \in dead : c[2] \in malformed \/ failures[c[2]] = MaxRetries + 1

(* A handler completes an event twice only after a fault or after a retry has fanned out*)
(* to the queues of other subscribers: the marks keep single copies apart.              *)
RepeatsHaveCause ==
  \A p \in Queue \X Event : handled[p] = 2 => faults > 0 \/ p[2] \in fannedOut
=============================================================================
