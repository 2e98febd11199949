-------------------------- MODULE EventConsumerProofs --------------------------
(***************************************************************************)
(* What the RabbitMQ client keeps for any number of subscribers, events,   *)
(* deliveries in progress, retries and faults: an event owed to a          *)
(* subscriber stays owed until it is handled or dead-lettered, only an     *)
(* event that failed on every attempt is dead-lettered, without faults or  *)
(* retries that fan out no event is handled twice, and callbacks and the   *)
(* counts of retries run out.                                              *)
(***************************************************************************)
EXTENDS EventConsumer, FiniteSetTheorems, TLAPS

Busy(w) == task[w].stage # "idle"
Ready(c) == main[c] > 0 \/ retry[c] > 0

\* What is held was published, and only subscribers that bound their queues hold it.
Origins ==
  /\ \A c \in Copy : Ready(c) => c[2] \in published
  /\ \A c \in Copy : retry[c] > 0 => bound[c[1]] >= 2
  /\ \A w \in Worker : Busy(w) => EventAt(w) \in published /\ bound[serves[w]] = 3
  /\ \A c \in dead : c[2] \in published
  /\ \A p \in Queue \X Event : handled[p] > 0 => p[2] \in published

\* A copy's count is at most the event's failures, and one less while its failure is handled.
Counts ==
  /\ \A c \in Copy : Ready(c) => c[3] <= MaxRetries /\ c[3] <= failures[c[2]]
  /\ \A w \in Worker : Busy(w) => RetryCount(w) <= failures[EventAt(w)]
  /\ \A w \in Worker : task[w].stage = "failing" => RetryCount(w) < failures[EventAt(w)]
  /\ \A w \in Worker : task[w].stage = "poison" => EventAt(w) \in malformed

\* A mark, and what is about to be marked or acknowledged, has been handled.
Processed ==
  /\ \A p \in marked : handled[p] > 0
  /\ \A w \in Worker : task[w].stage \in {"handled", "acking"} => handled[Mark(w)] > 0

\* Where an event can be that does not depend on a copy sent on already.
Firm(p) ==
  \/ \E n \in 0 .. MaxRetries + 1 : Ready(<<p[1], p[2], n>>)
  \/ \E w \in Worker : /\ task[w].stage \notin {"idle", "routed", "parked"} /\ ~task[w].stale
                       /\ serves[w] = p[1] /\ EventAt(w) = p[2]

\* What is held is settled or held firmly.
HeldFirmly == \A p \in Live \X Event : Holds(p) => p \in Settled \/ Firm(p)

\* Whoever works on an event is or was owed it, and so is someone for every retry.
WorkIsOwed ==
  /\ \A w \in Worker : Busy(w) => Mark(w) \in Owed \cup Settled
  /\ \A c \in Copy : retry[c] > 0 => \E q \in Live : <<q, c[2]>> \in Owed \cup Settled

-----------------------------------------------------------------------------
(* Copies, routing and requeueing *)

USE ConsumerAssumption

LEMMA CopyParts ==
  /\ \A c \in Copy : /\ c[1] \in Queue /\ c[2] \in Event /\ c[3] \in 0 .. MaxRetries + 1
                     /\ c = <<c[1], c[2], c[3]>>
  /\ \A q \in Queue, e \in Event, n \in 0 .. MaxRetries + 1 : <<q, e, n>> \in Copy
BY DEF Copy

LEMMA RoutedFacts ==
  ASSUME NEW queues \in [Copy -> Nat], NEW to, NEW e, NEW n
  PROVE  LET r == Routed(queues, to, e, n) IN
         /\ r \in [Copy -> Nat]
         /\ \A c \in Copy : c[1] \in to /\ c[2] = e /\ c[3] = n => r[c] > 0
         /\ \A c \in Copy : queues[c] > 0 => r[c] > 0
         /\ \A c \in Copy : r[c] > 0 => queues[c] > 0 \/ (c[1] \in to /\ c[2] = e /\ c[3] = n)
BY DEF Routed

LEMMA RequeuedFacts ==
  ASSUME main \in [Copy -> Nat], NEW ws \in SUBSET Worker
  PROVE  LET r == Requeued(ws) IN
         /\ r \in [Copy -> Nat]
         /\ \A c \in Copy : main[c] > 0 => r[c] > 0
         /\ \A c \in Copy, w \in ws : ~task[w].stale /\ task[w].copy = c => r[c] > 0
         /\ \A c \in Copy : r[c] > 0 =>
              main[c] > 0 \/ \E w \in ws : ~task[w].stale /\ task[w].copy = c
<1> DEFINE back(c) == {w \in ws : ~task[w].stale /\ task[w].copy = c}
<1>1. ASSUME NEW c \in Copy
      PROVE  /\ Cardinality(back(c)) \in Nat
             /\ Cardinality(back(c)) = 0 <=> back(c) = {}
  <2>1. IsFiniteSet(back(c))  BY FS_Subset DEF ConsumerAssumption
  <2> QED  BY <2>1, FS_CardinalityType, FS_EmptySet
<1>2. ASSUME NEW c \in Copy
      PROVE  Requeued(ws)[c] = main[c] + Cardinality(back(c))
  BY DEF Requeued
<1>3. Requeued(ws) \in [Copy -> Nat]
  <2> HIDE DEF back
  <2>1. \A c \in Copy : main[c] + Cardinality(back(c)) \in Nat  BY <1>1
  <2>2. Requeued(ws) = [c \in Copy |-> main[c] + Cardinality(back(c))]
    BY DEF Requeued, back
  <2> QED  BY <2>1, <2>2
<1>4. ASSUME NEW c \in Copy
      PROVE  Requeued(ws)[c] > 0 <=> main[c] > 0 \/ back(c) # {}
  <2> HIDE DEF back
  <2> QED  BY <1>1, <1>2
<1> QED  BY <1>3, <1>4

-----------------------------------------------------------------------------
(* Types *)

\* The part of the type invariant about callbacks.
TaskTyped ==
  /\ task \in [Worker -> {Idle} \cup [stage: Stage \ {"idle"}, copy: Copy, stale: BOOLEAN]]
  /\ \A w \in Worker : Busy(w) => task[w].copy[1] = serves[w] /\ RetryCount(w) <= MaxRetries

\* Steps of a callback that keep its message.
LEMMA MoveToType ==
  ASSUME TaskTyped, NEW w \in Worker, Busy(w), NEW s \in Stage \ {"idle"}, MoveTo(w, s),
         UNCHANGED serves
  PROVE  /\ TaskTyped'
         /\ task'[w].stage = s /\ task'[w].copy = task[w].copy /\ task'[w].stale = task[w].stale
         /\ \A v \in Worker : v # w => task'[v] = task[v]
<1>1. task[w] \in [stage: Stage \ {"idle"}, copy: Copy, stale: BOOLEAN]
  BY DEF TaskTyped, Busy, Idle
<1>2. task' = [task EXCEPT ![w] = [task[w] EXCEPT !.stage = s]]
  BY DEF MoveTo
<1>3. [task[w] EXCEPT !.stage = s] = [stage |-> s, copy |-> task[w].copy, stale |-> task[w].stale]
  BY <1>1
<1>4. task' = [task EXCEPT ![w] = [stage |-> s, copy |-> task[w].copy, stale |-> task[w].stale]]
  BY <1>2, <1>3
<1> QED  BY <1>1, <1>4 DEF TaskTyped, Busy, RetryCount

\* A callback that ends.
LEMMA IdleType ==
  ASSUME TaskTyped, NEW w \in Worker, task' = [task EXCEPT ![w] = Idle], UNCHANGED serves
  PROVE  /\ TaskTyped' /\ task'[w] = Idle /\ ~Busy(w)'
         /\ \A v \in Worker : v # w => task'[v] = task[v]
<1>1. task'[w] = Idle /\ task'[w].stage = "idle" /\ \A v \in Worker : v # w => task'[v] = task[v]
  BY DEF TaskTyped, Idle
<1>2. task' \in [Worker -> {Idle} \cup [stage: Stage \ {"idle"}, copy: Copy, stale: BOOLEAN]]
  BY DEF TaskTyped
<1> QED  BY <1>1, <1>2 DEF TaskTyped, Busy, RetryCount

LEMMA TypeParts ==
  TypeOK <=>
    /\ TaskTyped
    /\ serves \in Staffing /\ malformed \subseteq published
    /\ bound \in [Queue -> 0 .. 3]
    /\ main \in [Copy -> Nat] /\ retry \in [Copy -> Nat] /\ dead \subseteq Copy
    /\ marked \subseteq Queue \X Event /\ published \subseteq Event
    /\ handled \in [Queue \X Event -> 0 .. 2]
    /\ failures \in [Event -> 0 .. MaxRetries + 1]
    /\ fannedOut \subseteq Event
    /\ faults \in 0 .. MaxFaults
BY DEF TypeOK, TaskTyped, Busy

LEMMA TypeFromParts ==
  ASSUME TypeOK, UNCHANGED setup, TaskTyped',
         main' \in [Copy -> Nat], retry' \in [Copy -> Nat], dead' \subseteq Copy,
         marked' \subseteq Queue \X Event, handled' \in [Queue \X Event -> 0 .. 2],
         failures' \in [Event -> 0 .. MaxRetries + 1], fannedOut' \subseteq Event,
         faults' \in 0 .. MaxFaults
  PROVE  TypeOK'
BY DEF TypeOK, TaskTyped, Busy, setup

LEMMA InitType == Init => TypeOK
BY DEF Init, TypeOK, Idle

LEMMA BusyFacts ==
  ASSUME TypeOK, NEW w \in Worker, Busy(w)
  PROVE  /\ task[w] \in [stage: Stage \ {"idle"}, copy: Copy, stale: BOOLEAN]
         /\ serves[w] \in Queue /\ EventAt(w) \in Event
         /\ RetryCount(w) \in 0 .. MaxRetries
         /\ task[w].copy = <<serves[w], EventAt(w), RetryCount(w)>>
         /\ Mark(w) \in Queue \X Event
<1>1. task[w] \in [stage: Stage \ {"idle"}, copy: Copy, stale: BOOLEAN]
  BY DEF TypeOK, Busy, Idle
<1>2. serves[w] \in Queue  BY DEF TypeOK, ConsumerAssumption
<1>3. task[w].copy[1] = serves[w] /\ RetryCount(w) <= MaxRetries  BY DEF TypeOK, Busy
<1>4. task[w].copy \in Copy  BY <1>1
<1> QED  BY <1>1, <1>2, <1>3, <1>4, CopyParts DEF EventAt, RetryCount, Mark, ConsumerAssumption

LEMMA FailFacts ==
  ASSUME TypeOK, NEW w \in Worker, Busy(w), Fail(w)
  PROVE  /\ MoveTo(w, "failing")
         /\ failures' \in [Event -> 0 .. MaxRetries + 1]
         /\ \A e \in Event : failures'[e] >= failures[e]
         /\ failures[EventAt(w)] <= MaxRetries => failures'[EventAt(w)] > failures[EventAt(w)]
         /\ failures[EventAt(w)] > MaxRetries => failures'[EventAt(w)] = MaxRetries + 1
BY BusyFacts DEF Fail, UpTo, TypeOK, ConsumerAssumption

\* What is sent on reaches the retry queues, or the dead letters.
LEMMA SendOnFacts ==
  ASSUME TypeOK, NEW w \in Worker, Busy(w), SendOn(w)
  PROVE  /\ retry' \in [Copy -> Nat] /\ dead' \subseteq Copy /\ fannedOut' \subseteq Event
         /\ \/ /\ task[w].stage = "failing" /\ RetryCount(w) + 1 <= MaxRetries
               /\ retry' = Routed(retry, Bound(2), EventAt(w), RetryCount(w) + 1)
               /\ FanOut(Bound(2), EventAt(w)) /\ dead' = dead
            \/ /\ retry' = retry /\ fannedOut' = fannedOut
               /\ \/ task[w].stage = "poison"
                  \/ task[w].stage = "failing" /\ RetryCount(w) = MaxRetries
               /\ \E n \in 0 .. MaxRetries + 1 : dead' = dead \cup (Bound(3) \X {EventAt(w)} \X {n})
<1>1. EventAt(w) \in Event /\ RetryCount(w) \in 0 .. MaxRetries  BY BusyFacts
<1>2. ASSUME NEW n \in 0 .. MaxRetries + 1, DeadLettered(EventAt(w), n)
      PROVE  /\ dead' = dead \cup (Bound(3) \X {EventAt(w)} \X {n})
             /\ dead' \subseteq Copy /\ UNCHANGED <<retry, fannedOut>>
  BY <1>1, <1>2 DEF DeadLettered, Bound, Copy, TypeOK
<1>3. CASE task[w].stage = "failing" /\ RetryCount(w) + 1 <= MaxRetries
  <2>1. /\ retry' = Routed(retry, Bound(2), EventAt(w), RetryCount(w) + 1)
        /\ FanOut(Bound(2), EventAt(w)) /\ dead' = dead
    BY <1>3 DEF SendOn, SendOnOr
  <2>2. retry' \in [Copy -> Nat]  BY <2>1, RoutedFacts DEF TypeOK
  <2>3. fannedOut' \subseteq Event  BY <1>1, <2>1 DEF FanOut, TypeOK
  <2> QED  BY <1>3, <2>1, <2>2, <2>3 DEF TypeOK
<1>4. CASE task[w].stage = "failing" /\ ~(RetryCount(w) + 1 <= MaxRetries)
  <2>1. DeadLettered(EventAt(w), RetryCount(w) + 1)  BY <1>4 DEF SendOn, SendOnOr
  <2>2. RetryCount(w) = MaxRetries /\ RetryCount(w) + 1 \in 0 .. MaxRetries + 1
    BY <1>1, <1>4 DEF ConsumerAssumption
  <2> QED  BY <1>2, <1>4, <2>1, <2>2 DEF TypeOK
<1>5. CASE task[w].stage # "failing"
  <2>1. task[w].stage = "poison" /\ DeadLettered(EventAt(w), RetryCount(w))
    BY <1>5 DEF SendOn, SendOnOr
  <2>2. RetryCount(w) \in 0 .. MaxRetries + 1  BY <1>1 DEF ConsumerAssumption
  <2> QED  BY <1>2, <2>1, <2>2 DEF TypeOK
<1> QED  BY <1>3, <1>4, <1>5

\* The steps of a callback on its message, grouped by what they may change.
Stays(w) == Check(w) \/ Handle(w) \/ MarkProcessed(w)
Leaves(w) == Ack(w) \/ AckRouted(w)
Sends(w) == Reroute(w) \/ RerouteFails(w)

LEMMA StaysType ==
  ASSUME TypeOK, NEW w \in Worker, Stays(w)
  PROVE  TypeOK' /\ Busy(w) /\ \E s \in Stage \ {"idle"} : MoveTo(w, s)
<1>1. Busy(w)  BY DEF Stays, Check, Handle, MarkProcessed, Busy
<1>2. \E s \in Stage \ {"idle"} : MoveTo(w, s)
  BY DEF Stays, Check, Handle, MarkProcessed, Fail, Stage
<1>3. UNCHANGED <<setup, main, retry, dead, fannedOut>> /\ faults' \in 0 .. MaxFaults
  BY DEF Stays, Check, Handle, MarkProcessed, Fault, TypeOK
<1>4. TaskTyped'  BY <1>1, <1>2, <1>3, TypeParts, MoveToType DEF setup
<1>5. failures' \in [Event -> 0 .. MaxRetries + 1]
  BY <1>1, FailFacts DEF Stays, Check, Handle, MarkProcessed, TypeOK
<1>6. marked' \subseteq Queue \X Event
  BY <1>1, BusyFacts DEF Stays, Check, Handle, MarkProcessed, TypeOK
<1>7. handled' \in [Queue \X Event -> 0 .. 2]
  BY <1>1, BusyFacts DEF Stays, Check, Handle, MarkProcessed, TypeOK, UpTo
<1>8. TypeOK'  BY <1>3, <1>4, <1>5, <1>6, <1>7, TypeParts, TypeFromParts DEF setup
<1> QED  BY <1>1, <1>2, <1>8

\* A callback that fails although its message is not its own any more.
LEMMA FailType ==
  ASSUME TypeOK, NEW w \in Worker, Busy(w), Fail(w), UNCHANGED serves
  PROVE  /\ TaskTyped' /\ failures' \in [Event -> 0 .. MaxRetries + 1]
         /\ task'[w].stage = "failing" /\ task'[w].copy = task[w].copy
         /\ task'[w].stale = task[w].stale /\ \A v \in Worker : v # w => task'[v] = task[v]
<1>1. "failing" \in Stage \ {"idle"}  BY DEF Stage
<1> QED  BY <1>1, FailFacts, MoveToType, TypeParts

LEMMA LeavesType ==
  ASSUME TypeOK, NEW w \in Worker, Leaves(w)
  PROVE  /\ TypeOK' /\ Busy(w)
         /\ \/ task' = [task EXCEPT ![w] = Idle] /\ failures' = failures
            \/ task[w].stale /\ Fail(w)
<1>1. Busy(w)  BY DEF Leaves, Ack, AckRouted, Busy
<1>2. UNCHANGED <<setup, main, retry, dead, marked, handled, fannedOut, faults>>
  BY DEF Leaves, Ack, AckRouted
<1>3. CASE task' = [task EXCEPT ![w] = Idle] /\ failures' = failures
  BY <1>1, <1>2, <1>3, IdleType, TypeParts, TypeFromParts DEF setup
<1>4. CASE task[w].stale /\ Fail(w)
  BY <1>1, <1>2, <1>4, FailType, TypeParts, TypeFromParts DEF setup
<1> QED  BY <1>1, <1>3, <1>4 DEF Leaves, Ack, AckRouted

LEMMA SendsType ==
  ASSUME TypeOK, NEW w \in Worker, Sends(w)
  PROVE  /\ TypeOK' /\ Busy(w) /\ UNCHANGED <<setup, marked, handled>>
         /\ SendOn(w) \/ (UNCHANGED <<retry, dead, fannedOut>> /\ RerouteFails(w))
         /\ \/ /\ Reroute(w) /\ main' = main /\ failures' = failures
               /\ \E s \in {"routed", "parked"} : MoveTo(w, s)
            \/ /\ RerouteFails(w) /\ main' = Requeued({w})
               /\ \/ task' = [task EXCEPT ![w] = Idle] /\ failures' = failures
                  \/ task[w].stale /\ Fail(w)
<1>1. Busy(w) /\ UNCHANGED <<setup, marked, handled>>
  BY DEF Sends, Reroute, RerouteFails, Busy
<1>2. SendOn(w) \/ (UNCHANGED <<retry, dead, fannedOut>> /\ RerouteFails(w))
  BY DEF Sends, Reroute, RerouteFails
<1>3. retry' \in [Copy -> Nat] /\ dead' \subseteq Copy /\ fannedOut' \subseteq Event
  <2>1. CASE SendOn(w)  BY <1>1, <2>1, SendOnFacts
  <2>2. CASE UNCHANGED <<retry, dead, fannedOut>>  BY <2>2 DEF TypeOK
  <2> QED  BY <1>2, <2>1, <2>2
<1>4. CASE Reroute(w)
  <2>1. PICK s \in {"routed", "parked"} : MoveTo(w, s)  BY <1>4 DEF Reroute
  <2>2. s \in Stage \ {"idle"}  BY DEF Stage
  <2>3. TaskTyped'  BY <1>1, <2>1, <2>2, MoveToType, TypeParts DEF setup
  <2>4. UNCHANGED <<main, failures, faults>>  BY <1>4 DEF Reroute
  <2>5. TypeOK'  BY <1>1, <1>3, <2>3, <2>4, TypeParts, TypeFromParts DEF setup
  <2> QED  BY <1>1, <1>2, <1>4, <2>1, <2>4, <2>5
<1>5. CASE RerouteFails(w)
  <2>1. main' = Requeued({w}) /\ main' \in [Copy -> Nat]
    BY <1>5, RequeuedFacts DEF RerouteFails, TypeOK
  <2>2. faults' \in 0 .. MaxFaults  BY <1>5 DEF RerouteFails, Fault, TypeOK
  <2>3. CASE task' = [task EXCEPT ![w] = Idle] /\ failures' = failures
    <3>1. TaskTyped'  BY <1>1, <2>3, IdleType, TypeParts, TypeFromParts DEF setup
    <3>2. TypeOK'  BY <1>1, <1>3, <2>1, <2>2, <2>3, <3>1, TypeParts, TypeFromParts DEF setup
    <3> QED  BY <1>1, <1>2, <1>5, <2>1, <2>3, <3>2
  <2>4. CASE task[w].stale /\ Fail(w)
    <3>1. TaskTyped' /\ failures' \in [Event -> 0 .. MaxRetries + 1]
      BY <1>1, <2>4, FailType DEF setup
    <3>2. TypeOK'  BY <1>1, <1>3, <2>1, <2>2, <3>1, TypeParts, TypeFromParts DEF setup
    <3> QED  BY <1>1, <1>2, <1>5, <2>1, <2>4, <3>2
  <2> QED  BY <1>5, <2>3, <2>4 DEF RerouteFails
<1> QED  BY <1>4, <1>5 DEF Sends

LEMMA DeliverType ==
  ASSUME TypeOK, Counts, NEW w \in Worker, NEW c \in Copy, Deliver(w, c)
  PROVE  /\ TypeOK' /\ c = <<serves[w], c[2], c[3]>> /\ c[3] <= MaxRetries
         /\ task'[w] = [stage |-> "received", copy |-> c, stale |-> FALSE]
         /\ \A v \in Worker : v # w => task'[v] = task[v]
<1>1. c[3] <= MaxRetries /\ c[1] = serves[w] /\ main[c] > 0
  BY DEF Deliver, Counts, Ready
<1>2. task' = [task EXCEPT ![w] = [stage |-> "received", copy |-> c, stale |-> FALSE]]
      /\ UNCHANGED <<setup, retry, dead, marked, handled, failures, fannedOut, faults>>
  BY DEF Deliver
<1>3. [stage |-> "received", copy |-> c, stale |-> FALSE]
        \in [stage: Stage \ {"idle"}, copy: Copy, stale: BOOLEAN]
  BY DEF Stage
<1>4. main' \in [Copy -> Nat]  BY DEF Deliver, TypeOK
<1>5. /\ task'[w] = [stage |-> "received", copy |-> c, stale |-> FALSE]
      /\ \A v \in Worker : v # w => task'[v] = task[v]
      /\ task' \in [Worker -> {Idle} \cup [stage: Stage \ {"idle"}, copy: Copy, stale: BOOLEAN]]
  BY <1>2, <1>3 DEF TypeOK
<1>6. task'[w].copy[1] = serves[w] /\ task'[w].copy[3] <= MaxRetries  BY <1>1, <1>5
<1>7. TaskTyped'
  <2>1. \A v \in Worker : task'[v].stage # "idle" =>
          task'[v].copy[1] = serves[v] /\ task'[v].copy[3] <= MaxRetries
    BY <1>5, <1>6 DEF TypeOK, RetryCount
  <2> QED  BY <1>2, <1>5, <2>1 DEF TaskTyped, Busy, RetryCount, setup
<1>8. TypeOK'  BY <1>2, <1>4, <1>7, TypeParts, TypeFromParts DEF setup
<1> QED  BY <1>1, <1>5, <1>8, CopyParts

LEMMA DisconnectType ==
  ASSUME TypeOK, NEW q \in Queue, NEW survive \in BOOLEAN, Disconnect(q, survive)
  PROVE  /\ TypeOK'
         /\ main' = Requeued({w \in Worker : serves[w] = q /\ Busy(w)})
         /\ UNCHANGED <<setup, retry, dead, marked, handled, failures, fannedOut>>
         /\ \A w \in Worker :
              \/ ~(serves[w] = q /\ Busy(w)) /\ task'[w] = task[w]
              \/ /\ serves[w] = q /\ Busy(w)
                 /\ \/ task'[w] = Idle
                    \/ /\ task'[w].stage = task[w].stage /\ task'[w].copy = task[w].copy
                       /\ task'[w].stale = TRUE
<1> DEFINE mine == {w \in Worker : serves[w] = q /\ Busy(w)}
<1>1. /\ main' = Requeued(mine) /\ faults' \in 0 .. MaxFaults
      /\ task' = [w \in Worker |-> IF w \notin mine THEN task[w]
                  ELSE IF survive
                  THEN [stage |-> task[w].stage, copy |-> task[w].copy, stale |-> TRUE] ELSE Idle]
      /\ UNCHANGED <<setup, retry, dead, marked, handled, failures, fannedOut>>
  BY DEF Disconnect, Busy, Fault, TypeOK
<1>2. main' \in [Copy -> Nat]  BY <1>1, RequeuedFacts DEF TypeOK
<1>4. ASSUME NEW w \in Worker
      PROVE  /\ \/ w \notin mine /\ task'[w] = task[w]
                \/ w \in mine /\ task'[w] = Idle
                \/ /\ w \in mine
                   /\ task'[w] = [stage |-> task[w].stage, copy |-> task[w].copy, stale |-> TRUE]
  <2> HIDE DEF mine
  <2> QED  BY <1>1
<1>5. ASSUME NEW w \in Worker
      PROVE  /\ task'[w] \in {Idle} \cup [stage: Stage \ {"idle"}, copy: Copy, stale: BOOLEAN]
             /\ task'[w].stage # "idle" =>
                  task'[w].copy[1] = serves[w] /\ task'[w].copy[3] <= MaxRetries
  <2>1. CASE w \notin mine /\ task'[w] = task[w]  BY <2>1 DEF TypeOK, RetryCount
  <2>2. CASE w \in mine /\ task'[w] = Idle  BY <2>2 DEF Idle
  <2>3. CASE /\ w \in mine
             /\ task'[w] = [stage |-> task[w].stage, copy |-> task[w].copy, stale |-> TRUE]
    <3>1. task[w] \in [stage: Stage \ {"idle"}, copy: Copy, stale: BOOLEAN]  BY <2>3, BusyFacts
    <3>2. task[w].copy[1] = serves[w] /\ task[w].copy[3] <= MaxRetries
      BY <2>3 DEF TypeOK, RetryCount, Busy
    <3> QED  BY <2>3, <3>1, <3>2
  <2> QED  BY <1>4, <2>1, <2>2, <2>3
<1>6. task' \in [Worker -> {Idle} \cup [stage: Stage \ {"idle"}, copy: Copy, stale: BOOLEAN]]
  <2>1. task' = [w \in Worker |-> task'[w]]  BY <1>1
  <2> QED  BY <1>5, <2>1
<1>7. TypeOK'
  <2>1. TaskTyped'  BY <1>1, <1>5, <1>6 DEF TaskTyped, Busy, RetryCount, setup
  <2> QED  BY <1>1, <1>2, <2>1, TypeParts, TypeFromParts DEF setup
<1> QED  BY <1>1, <1>4, <1>7

\* The broker and the publishers.
LEMMA BrokerType ==
  ASSUME TypeOK,
         \/ \E q \in Queue : DeclareQueue(q)
         \/ \E e \in Event, wellFormed \in BOOLEAN : Publish(e, wellFormed)
         \/ \E c \in Copy : Expire(c)
  PROVE  TypeOK'
<1>1. CASE \E q \in Queue : DeclareQueue(q)
  BY <1>1 DEF DeclareQueue, TypeOK, RetryCount
<1>2. CASE \E e \in Event, wellFormed \in BOOLEAN : Publish(e, wellFormed)
  <2>1. main' \in [Copy -> Nat]  BY <1>2, RoutedFacts DEF Publish, TypeOK
  <2> QED  BY <1>2, <2>1 DEF Publish, TypeOK, RetryCount
<1>3. CASE \E c \in Copy : Expire(c)
  <2>1. PICK c \in Copy : Expire(c)  BY <1>3
  <2>2. main' \in [Copy -> Nat]  BY <2>1, RoutedFacts DEF Expire, TypeOK
  <2>3. fannedOut' \subseteq Event  BY <2>1, CopyParts DEF Expire, FanOut, TypeOK
  <2>4. retry' \in [Copy -> Nat]  BY <2>1 DEF Expire, TypeOK
  <2> QED  BY <2>1, <2>2, <2>3, <2>4 DEF Expire, TypeOK, setup, RetryCount
<1> QED  BY <1>1, <1>2, <1>3

-----------------------------------------------------------------------------
(* Where copies come from, what they count, and what marks mean *)

Sound == TypeOK /\ Origins /\ Counts /\ Processed

LEMMA StaysSound ==
  ASSUME Sound, NEW w \in Worker, Stays(w)
  PROVE  Origins' /\ Counts' /\ Processed'
<1>1. TypeOK /\ TypeOK' /\ Busy(w)  BY StaysType DEF Sound
<1>2. PICK s \in Stage \ {"idle"} : MoveTo(w, s)  BY <1>1, StaysType
<1>3. UNCHANGED <<setup, main, retry, dead>>
  BY DEF Stays, Check, Handle, MarkProcessed
<1>4. /\ task'[w].stage = s /\ task'[w].copy = task[w].copy
      /\ \A v \in Worker : v # w => task'[v] = task[v]
  BY <1>1, <1>2, <1>3, MoveToType, TypeParts DEF setup
<1>5. \A v \in Worker : task'[v].copy = task[v].copy /\ (task'[v].stage # "idle" => Busy(v))
  BY <1>1, <1>4 DEF Busy
<1>6. \A p \in Queue \X Event : handled'[p] >= handled[p] /\ (handled'[p] > 0 => handled[p] > 0 \/ p = Mark(w))
  BY <1>1, BusyFacts DEF Stays, Check, Handle, MarkProcessed, UpTo, TypeOK
<1>7. Origins'
  <2>1. \A p \in Queue \X Event : handled'[p] > 0 => p[2] \in published
    BY <1>1, <1>6 DEF Sound, Origins, Mark
  <2> QED  BY <1>3, <1>5, <2>1 DEF Sound, Origins, Ready, Busy, EventAt, setup
<1>8. Counts'
  <2>1. \A e \in Event : failures'[e] >= failures[e]
    BY <1>1, FailFacts DEF Stays, Check, Handle, MarkProcessed, TypeOK
  <2>2. \A e \in Event : failures[e] \in Nat /\ failures'[e] \in Nat
    BY <1>1 DEF TypeOK
  <2>3. ASSUME NEW c \in Copy, Ready(c)'
        PROVE  c[3] <= MaxRetries /\ c[3] <= failures'[c[2]]
    <3>1. Ready(c)  BY <1>3, <2>3 DEF Ready
    <3>2. c[3] \in Nat /\ c[2] \in Event /\ c[3] <= MaxRetries /\ c[3] <= failures[c[2]]
      BY <3>1, CopyParts DEF Sound, Counts
    <3> QED  BY <2>1, <2>2, <3>2
  <2>4. ASSUME NEW v \in Worker, Busy(v)'
        PROVE  RetryCount(v)' <= failures'[EventAt(v)']
    <3>1. Busy(v) /\ RetryCount(v)' = RetryCount(v) /\ EventAt(v)' = EventAt(v)
      BY <1>5, <2>4 DEF Busy, RetryCount, EventAt
    <3>2. RetryCount(v) \in Nat /\ EventAt(v) \in Event /\ RetryCount(v) <= failures[EventAt(v)]
      BY <1>1, <3>1, BusyFacts DEF Sound, Counts
    <3> QED  BY <2>1, <2>2, <3>1, <3>2
  <2>5. ASSUME NEW v \in Worker, task'[v].stage = "failing"
        PROVE  RetryCount(v)' < failures'[EventAt(v)']
    <3>1. Busy(v) /\ RetryCount(v)' = RetryCount(v) /\ EventAt(v)' = EventAt(v)
      BY <1>5, <2>5 DEF Busy, RetryCount, EventAt
    <3>2. RetryCount(v) \in 0 .. MaxRetries /\ EventAt(v) \in Event
      BY <1>1, <3>1, BusyFacts
    <3>3. CASE v # w
      <4>1. task[v].stage = "failing"  BY <1>4, <2>5, <3>3
      <4>2. RetryCount(v) < failures[EventAt(v)]  BY <4>1 DEF Sound, Counts
      <4> QED  BY <2>1, <2>2, <3>1, <3>2, <4>2
    <3>4. CASE v = w
      <4>1. Fail(w)
        BY <1>1, <1>4, <2>5, <3>4 DEF Stays, Check, Handle, MarkProcessed, MoveTo, TypeOK
      <4>2. RetryCount(w) <= failures[EventAt(w)]  BY <1>1 DEF Sound, Counts
      <4> QED  BY <1>1, <2>2, <3>1, <3>2, <3>4, <4>1, <4>2, FailFacts DEF ConsumerAssumption
    <3> QED  BY <3>3, <3>4
  <2>6. ASSUME NEW v \in Worker, task'[v].stage = "poison"
        PROVE  EventAt(v)' \in malformed'
    <3>1. Busy(v) /\ EventAt(v)' = EventAt(v) /\ malformed' = malformed
      BY <1>3, <1>5, <2>6 DEF Busy, EventAt, setup
    <3>2. CASE v # w
      BY <1>4, <2>6, <3>1, <3>2 DEF Sound, Counts
    <3>3. CASE v = w
      BY <1>1, <1>4, <2>6, <3>1, <3>3
         DEF Stays, Check, Handle, MarkProcessed, MoveTo, Fail, TypeOK
    <3> QED  BY <3>2, <3>3
  <2> QED  BY <2>3, <2>4, <2>5, <2>6 DEF Counts
<1>9. Processed'
  <2>1. \A p \in Queue \X Event : handled[p] \in Nat /\ handled'[p] \in Nat
    BY <1>1 DEF TypeOK
  <2>2. Mark(w) \in Queue \X Event  BY <1>1, BusyFacts
  <2>3. ASSUME NEW p \in marked'  PROVE handled'[p] > 0
    <3>1. p \in marked \/ (p = Mark(w) /\ task[w].stage = "handled")
      BY <2>3 DEF Stays, Check, Handle, MarkProcessed
    <3>2. p \in Queue \X Event /\ handled[p] > 0
      BY <1>1, <2>2, <3>1 DEF Sound, Processed, TypeOK
    <3> QED  BY <1>6, <2>1, <3>2
  <2>4. ASSUME NEW v \in Worker, task'[v].stage \in {"handled", "acking"}
        PROVE  handled'[Mark(v)'] > 0
    <3>1. Busy(v) /\ Mark(v)' = Mark(v)
      BY <1>3, <1>5, <2>4 DEF Mark, EventAt, setup, Busy
    <3>2. Mark(v) \in Queue \X Event  BY <1>1, <3>1, BusyFacts
    <3>3. CASE v # w
      <4>1. handled[Mark(v)] > 0  BY <1>4, <2>4, <3>3 DEF Sound, Processed
      <4> QED  BY <1>6, <2>1, <3>1, <3>2, <4>1
    <3>4. CASE v = w /\ Check(w)
      <4>1. Mark(w) \in marked
        BY <1>1, <1>4, <2>4, <3>4 DEF Check, MoveTo, Fail, TypeOK
      <4>2. handled[Mark(w)] > 0  BY <4>1 DEF Sound, Processed
      <4> QED  BY <1>6, <2>1, <3>1, <3>2, <3>4, <4>2
    <3>5. CASE v = w /\ Handle(w)
      <4>1. handled' = [handled EXCEPT ![Mark(w)] = UpTo(2, handled[Mark(w)] + 1)]
        BY <1>1, <1>4, <2>4, <3>5 DEF Handle, MoveTo, Fail, TypeOK
      <4> QED  BY <1>1, <2>1, <2>2, <3>1, <3>5, <4>1 DEF UpTo, TypeOK
    <3>6. CASE v = w /\ MarkProcessed(w)
      <4>1. handled[Mark(w)] > 0  BY <3>6 DEF MarkProcessed, Sound, Processed
      <4> QED  BY <1>6, <2>1, <3>1, <3>2, <3>6, <4>1
    <3> QED  BY <3>3, <3>4, <3>5, <3>6 DEF Stays
  <2> QED  BY <2>3, <2>4 DEF Processed
<1> QED  BY <1>7, <1>8, <1>9

\* Where a copy can come from: it was there, a callback had it, or one sent it on to retry.
ComesFrom(c) ==
  \/ Ready(c)
  \/ \E w \in Worker : Busy(w) /\ task[w].copy = c
  \/ \E w \in Worker : /\ task[w].stage = "failing" /\ RetryCount(w) + 1 <= MaxRetries
                       /\ c[2] = EventAt(w) /\ c[3] = RetryCount(w) + 1

\* What can become of a callback that neither marks nor handles.
Keeps(v) ==
  /\ Busy(v) /\ task'[v].copy = task[v].copy
  /\ \/ task'[v].stage = task[v].stage
     \/ task'[v].stage \in {"routed", "parked"}
     \/ task'[v].stage = "failing" /\ Fail(v)

Takes(v) ==
  \E c \in Copy : /\ main[c] > 0 /\ c[1] = serves[v] /\ bound[serves[v]] = 3
                  /\ task'[v].copy = c /\ task'[v].stage = "received"

LEMMA PassingSound ==
  ASSUME Sound, TypeOK', UNCHANGED <<setup, marked, handled>>,
         \A e \in Event : failures'[e] >= failures[e],
         \A c \in Copy : Ready(c)' => ComesFrom(c),
         \A c \in Copy : retry'[c] > 0 => retry[c] > 0 \/ c[1] \in Bound(2),
         \A c \in dead' : c \in dead \/ \E w \in Worker : Busy(w) /\ c[2] = EventAt(w),
         \A v \in Worker : Busy(v)' => Keeps(v) \/ Takes(v)
  PROVE  Origins' /\ Counts' /\ Processed'
<1>1. TypeOK /\ \A e \in Event : failures[e] \in Nat /\ failures'[e] \in Nat
  BY DEF Sound, TypeOK
<1>2. \A v \in Worker : task[v].stage \in {"failing", "poison", "handled", "acking"} => Busy(v)
  BY DEF Busy
<1>3. ASSUME NEW c \in Copy, ComesFrom(c)
      PROVE  c[2] \in published /\ c[3] <= MaxRetries /\ c[3] <= failures[c[2]]
  <2>1. CASE Ready(c)  BY <2>1 DEF Sound, Origins, Counts
  <2>2. CASE \E w \in Worker : Busy(w) /\ task[w].copy = c
    <3>1. PICK w \in Worker : Busy(w) /\ task[w].copy = c  BY <2>2
    <3>2. c[2] = EventAt(w) /\ c[3] = RetryCount(w)  BY <3>1 DEF EventAt, RetryCount
    <3> QED  BY <1>1, <3>1, <3>2, BusyFacts DEF Sound, Origins, Counts, ConsumerAssumption
  <2>3. CASE \E w \in Worker : /\ task[w].stage = "failing" /\ RetryCount(w) + 1 <= MaxRetries
                               /\ c[2] = EventAt(w) /\ c[3] = RetryCount(w) + 1
    <3>1. PICK w \in Worker : /\ task[w].stage = "failing" /\ RetryCount(w) + 1 <= MaxRetries
                              /\ c[2] = EventAt(w) /\ c[3] = RetryCount(w) + 1
      BY <2>3
    <3>2. Busy(w) /\ RetryCount(w) < failures[EventAt(w)] /\ EventAt(w) \in published
      BY <1>2, <3>1 DEF Sound, Counts, Origins
    <3>3. RetryCount(w) \in Nat /\ failures[EventAt(w)] \in Nat
      BY <1>1, <3>2, BusyFacts
    <3> QED  BY <3>1, <3>2, <3>3
  <2> QED  BY <1>3, <2>1, <2>2, <2>3 DEF ComesFrom
<1>4. ASSUME NEW v \in Worker, Takes(v)
      PROVE  /\ EventAt(v)' \in published /\ bound[serves[v]] = 3
             /\ RetryCount(v)' <= failures[EventAt(v)'] /\ EventAt(v)' \in Event
             /\ RetryCount(v)' \in Nat /\ task'[v].stage = "received"
  <2>1. PICK c \in Copy : /\ main[c] > 0 /\ c[1] = serves[v] /\ bound[serves[v]] = 3
                          /\ task'[v].copy = c /\ task'[v].stage = "received"
    BY <1>4 DEF Takes
  <2>2. ComesFrom(c)  BY <2>1 DEF ComesFrom, Ready
  <2>3. EventAt(v)' = c[2] /\ RetryCount(v)' = c[3]  BY <2>1 DEF EventAt, RetryCount
  <2> QED  BY <1>3, <2>1, <2>2, <2>3, CopyParts
<1>5. ASSUME NEW v \in Worker, Keeps(v)
      PROVE  /\ Busy(v) /\ EventAt(v)' = EventAt(v) /\ RetryCount(v)' = RetryCount(v)
             /\ EventAt(v) \in Event /\ RetryCount(v) \in 0 .. MaxRetries
  BY <1>1, <1>5, BusyFacts DEF Keeps, EventAt, RetryCount
<1>6. Origins'
  <2>1. \A c \in dead' : c[2] \in published'
    BY DEF Sound, Origins, setup
  <2>2. \A v \in Worker : Busy(v)' => EventAt(v)' \in published' /\ bound'[serves'[v]] = 3
    <3>1. UNCHANGED <<published, bound, serves>>  BY DEF setup
    <3>2. \A v \in Worker : Keeps(v) => EventAt(v)' \in published /\ bound[serves[v]] = 3
      BY <1>5 DEF Sound, Origins
    <3> QED  BY <1>4, <3>1, <3>2
  <2>3. \A c \in Copy : retry'[c] > 0 => bound'[c[1]] >= 2
    BY DEF Sound, Origins, Bound, setup
  <2>4. \A p \in Queue \X Event : handled'[p] > 0 => p[2] \in published'
    BY DEF Sound, Origins, setup
  <2>5. \A c \in Copy : Ready(c)' => c[2] \in published'  BY <1>3 DEF setup
  <2> QED  BY <2>1, <2>2, <2>3, <2>4, <2>5 DEF Origins
<1>7. Counts'
  <2>1. ASSUME NEW c \in Copy, Ready(c)'
        PROVE  c[3] <= MaxRetries /\ c[3] <= failures'[c[2]]
    <3>1. c[3] <= MaxRetries /\ c[3] <= failures[c[2]]  BY <1>3, <2>1
    <3>2. c[3] \in Nat /\ c[2] \in Event  BY CopyParts
    <3> QED  BY <1>1, <3>1, <3>2
  <2>2. ASSUME NEW v \in Worker, Busy(v)'
        PROVE  RetryCount(v)' <= failures'[EventAt(v)']
    <3>1. CASE Keeps(v)
      <4>1. RetryCount(v) <= failures[EventAt(v)]  BY <1>5, <3>1 DEF Sound, Counts
      <4> QED  BY <1>1, <1>5, <3>1, <4>1
    <3>2. CASE Takes(v)  BY <1>1, <1>4, <3>2
    <3> QED  BY <2>2, <3>1, <3>2
  <2>3. ASSUME NEW v \in Worker, task'[v].stage = "failing"
        PROVE  RetryCount(v)' < failures'[EventAt(v)']
    <3>1. Keeps(v)  BY <1>4, <2>3 DEF Busy
    <3>2. CASE task[v].stage = "failing"
      <4>1. RetryCount(v) < failures[EventAt(v)]  BY <3>2 DEF Sound, Counts
      <4> QED  BY <1>1, <1>5, <3>1, <4>1
    <3>3. CASE Fail(v)
      <4>1. RetryCount(v) <= failures[EventAt(v)]  BY <1>5, <3>1 DEF Sound, Counts
      <4> QED  BY <1>1, <1>5, <3>1, <3>3, <4>1, FailFacts DEF ConsumerAssumption
    <3> QED  BY <2>3, <3>1, <3>2, <3>3 DEF Keeps
  <2>4. ASSUME NEW v \in Worker, task'[v].stage = "poison"
        PROVE  EventAt(v)' \in malformed'
    <3>1. Keeps(v)  BY <1>4, <2>4 DEF Busy
    <3>2. task[v].stage = "poison"  BY <2>4, <3>1 DEF Keeps
    <3> QED  BY <1>5, <3>1, <3>2 DEF Sound, Counts, setup
  <2> QED  BY <2>1, <2>2, <2>3, <2>4 DEF Counts
<1>8. Processed'
  <2>1. ASSUME NEW v \in Worker, task'[v].stage \in {"handled", "acking"}
        PROVE  handled'[Mark(v)'] > 0
    <3>1. Keeps(v)  BY <1>4, <2>1 DEF Busy
    <3>2. task[v].stage \in {"handled", "acking"}  BY <2>1, <3>1 DEF Keeps
    <3>3. Mark(v)' = Mark(v)  BY <1>5, <3>1 DEF Mark, setup
    <3> QED  BY <3>2, <3>3 DEF Sound, Processed
  <2> QED  BY <2>1 DEF Sound, Processed
<1> QED  BY <1>6, <1>7, <1>8

LEMMA IdleNotBusy == Idle.stage = "idle"
BY DEF Idle

LEMMA LeavesSound ==
  ASSUME Sound, NEW w \in Worker, Leaves(w)
  PROVE  Origins' /\ Counts' /\ Processed'
<1>1. TypeOK /\ TypeOK' /\ Busy(w)  BY LeavesType DEF Sound
<1>2. UNCHANGED <<setup, main, retry, dead, marked, handled>>
  BY DEF Leaves, Ack, AckRouted
<1>3. \A e \in Event : failures'[e] >= failures[e]
  BY <1>1, LeavesType, FailFacts DEF Sound, TypeOK
<1>4. ASSUME NEW v \in Worker, Busy(v)'  PROVE Keeps(v)
  <2>1. CASE task' = [task EXCEPT ![w] = Idle]
    BY <1>1, <1>2, <1>4, <2>1, IdleType, TypeParts DEF Keeps, Busy, setup
  <2>2. CASE Fail(w)
    BY <1>1, <1>2, <1>4, <2>2, FailType DEF Keeps, Busy, setup
  <2> QED  BY <2>1, <2>2, LeavesType DEF Sound
<1>5. \A c \in Copy : Ready(c)' => ComesFrom(c)  BY <1>2 DEF Ready, ComesFrom
<1> QED  BY <1>1, <1>2, <1>3, <1>4, <1>5, PassingSound

LEMMA SendsSound ==
  ASSUME Sound, NEW w \in Worker, Sends(w)
  PROVE  Origins' /\ Counts' /\ Processed'
<1>1. TypeOK /\ TypeOK' /\ Busy(w) /\ UNCHANGED <<setup, marked, handled>>
  BY SendsType DEF Sound
<1>2. \A e \in Event : failures'[e] >= failures[e]
  <2>1. \A e \in Event : failures[e] \in Nat  BY <1>1 DEF TypeOK
  <2>2. failures' = failures \/ Fail(w)  BY <1>1, SendsType
  <2> QED  BY <1>1, <2>1, <2>2, FailFacts
<1>3. ASSUME NEW v \in Worker, Busy(v)'  PROVE Keeps(v)
  <2>1. CASE task' = [task EXCEPT ![w] = Idle]
    BY <1>1, <1>3, <2>1, IdleType, TypeParts DEF Keeps, Busy, setup
  <2>2. CASE Fail(w)
    BY <1>1, <1>3, <2>2, FailType DEF Keeps, Busy, setup
  <2>3. CASE \E s \in {"routed", "parked"} : MoveTo(w, s)
    <3>1. PICK s \in {"routed", "parked"} : MoveTo(w, s)  BY <2>3
    <3>2. s \in Stage \ {"idle"}  BY DEF Stage
    <3> QED  BY <1>1, <1>3, <3>1, <3>2, MoveToType, TypeParts DEF Keeps, Busy, setup
  <2> QED  BY <1>1, <2>1, <2>2, <2>3, SendsType
<1>4. \A c \in Copy : main'[c] > 0 => main[c] > 0 \/ task[w].copy = c
  <2>1. CASE main' = main  BY <2>1
  <2>2. CASE main' = Requeued({w})
    <3>1. main \in [Copy -> Nat] /\ {w} \in SUBSET Worker  BY <1>1 DEF TypeOK
    <3>2. \A c \in Copy : Requeued({w})[c] > 0 =>
            main[c] > 0 \/ \E v \in {w} : ~task[v].stale /\ task[v].copy = c
      BY <3>1, RequeuedFacts
    <3> QED  BY <2>2, <3>2
  <2> QED  BY <1>1, <2>1, <2>2, SendsType
<1>5. CASE UNCHANGED <<retry, dead>>
  <2>1. \A c \in Copy : Ready(c)' => ComesFrom(c)
    BY <1>1, <1>4, <1>5 DEF Ready, ComesFrom
  <2> QED  BY <1>1, <1>2, <1>3, <1>5, <2>1, PassingSound
<1>6. CASE SendOn(w)
  <2>1. CASE /\ task[w].stage = "failing" /\ RetryCount(w) + 1 <= MaxRetries
             /\ retry' = Routed(retry, Bound(2), EventAt(w), RetryCount(w) + 1) /\ dead' = dead
    <3>1. \A c \in Copy : retry'[c] > 0 =>
            retry[c] > 0 \/ (c[1] \in Bound(2) /\ c[2] = EventAt(w) /\ c[3] = RetryCount(w) + 1)
      BY <1>1, <2>1, RoutedFacts DEF TypeOK
    <3>2. \A c \in Copy : Ready(c)' => ComesFrom(c)
      BY <1>1, <1>4, <2>1, <3>1 DEF Ready, ComesFrom
    <3> QED  BY <1>1, <1>2, <1>3, <2>1, <3>1, <3>2, PassingSound
  <2>2. CASE /\ retry' = retry
             /\ \E n \in 0 .. MaxRetries + 1 : dead' = dead \cup (Bound(3) \X {EventAt(w)} \X {n})
    <3>1. \A c \in dead' : c \in dead \/ \E v \in Worker : Busy(v) /\ c[2] = EventAt(v)
      BY <1>1, <2>2
    <3>2. \A c \in Copy : Ready(c)' => ComesFrom(c)
      BY <1>1, <1>4, <2>2 DEF Ready, ComesFrom
    <3> QED  BY <1>1, <1>2, <1>3, <2>2, <3>1, <3>2, PassingSound
  <2> QED  BY <1>1, <1>6, <2>1, <2>2, SendOnFacts
<1> QED  BY <1>1, <1>5, <1>6, SendsType

LEMMA DeliverSound ==
  ASSUME Sound, NEW w \in Worker, NEW c \in Copy, Deliver(w, c)
  PROVE  Origins' /\ Counts' /\ Processed'
<1>1. TypeOK /\ Counts /\ TypeOK'  BY DeliverType DEF Sound
<1>2. /\ UNCHANGED <<setup, retry, dead, marked, handled, failures>>
      /\ main' = [main EXCEPT ![c] = main[c] - 1]
      /\ main[c] > 0 /\ c[1] = serves[w] /\ bound[serves[w]] = 3
  BY DEF Deliver
<1>3. \A d \in Copy : Ready(d)' => ComesFrom(d)
  BY <1>1, <1>2 DEF Ready, ComesFrom, TypeOK
<1>4. ASSUME NEW v \in Worker, Busy(v)'  PROVE Keeps(v) \/ Takes(v)
  <2>1. CASE v = w
    <3>1. task'[w] = [stage |-> "received", copy |-> c, stale |-> FALSE]  BY <1>1, DeliverType
    <3>2. task'[w].copy = c /\ task'[w].stage = "received"  BY <3>1
    <3> QED  BY <1>2, <2>1, <3>2 DEF Takes
  <2>2. CASE v # w  BY <1>1, <1>4, <2>2, DeliverType DEF Keeps, Busy
  <2> QED  BY <2>1, <2>2
<1>5. \A e \in Event : failures'[e] >= failures[e]  BY <1>1, <1>2 DEF TypeOK
<1> QED  BY <1>1, <1>2, <1>3, <1>4, <1>5, PassingSound

LEMMA DisconnectSound ==
  ASSUME Sound, NEW q \in Queue, NEW survive \in BOOLEAN, Disconnect(q, survive)
  PROVE  Origins' /\ Counts' /\ Processed'
<1>1. TypeOK /\ TypeOK' /\ UNCHANGED <<setup, retry, dead, marked, handled, failures>>
  BY DisconnectType DEF Sound
<1>2. \A c \in Copy : main'[c] > 0 => main[c] > 0 \/ \E w \in Worker : Busy(w) /\ task[w].copy = c
  <2> DEFINE mine == {w \in Worker : serves[w] = q /\ Busy(w)}
  <2>1. main' = Requeued(mine)  BY <1>1, DisconnectType
  <2>2. mine \in SUBSET Worker /\ main \in [Copy -> Nat]  BY <1>1 DEF TypeOK
  <2>3. \A c \in Copy : Requeued(mine)[c] > 0 =>
          main[c] > 0 \/ \E w \in mine : ~task[w].stale /\ task[w].copy = c
    <3> HIDE DEF mine
    <3> QED  BY <2>2, RequeuedFacts
  <2> QED  BY <2>1, <2>3
<1>3. \A c \in Copy : Ready(c)' => ComesFrom(c)
  BY <1>1, <1>2 DEF Ready, ComesFrom
<1>4. \A v \in Worker : Busy(v)' => Keeps(v)
  BY <1>1, DisconnectType, IdleNotBusy DEF Keeps, Busy
<1>5. \A e \in Event : failures'[e] >= failures[e]  BY <1>1 DEF TypeOK
<1> QED  BY <1>1, <1>3, <1>4, <1>5, PassingSound

LEMMA BrokerSound ==
  ASSUME Sound,
         \/ \E q \in Queue : DeclareQueue(q)
         \/ \E e \in Event, wellFormed \in BOOLEAN : Publish(e, wellFormed)
         \/ \E c \in Copy : Expire(c)
  PROVE  Origins' /\ Counts' /\ Processed'
<1>0. TypeOK /\ Origins /\ Counts /\ Processed  BY DEF Sound
<1>1. CASE \E q \in Queue : DeclareQueue(q)
  <2>1. PICK q \in Queue : DeclareQueue(q)  BY <1>1
  <2>2. \A p \in Queue : bound'[p] >= bound[p] /\ (bound[p] = 3 => bound'[p] = 3)
    <3>1. bound \in [Queue -> 0 .. 3] /\ bound' = [bound EXCEPT ![q] = bound[q] + 1] /\ bound[q] < 3
      BY <1>0, <2>1 DEF DeclareQueue, TypeOK
    <3> QED  BY <3>1
  <2>3. \A w \in Worker : Busy(w) => serves[w] \in Queue  BY <1>0, BusyFacts
  <2>4. UNCHANGED <<serves, malformed, published, main, retry, dead, task, marked, handled, failures>>
    BY <2>1 DEF DeclareQueue
  <2>5. \A c \in Copy : retry[c] > 0 => bound'[c[1]] >= 2
    <3>1. ASSUME NEW c \in Copy, retry[c] > 0  PROVE bound'[c[1]] >= 2
      <4>1. c[1] \in Queue  BY CopyParts
      <4>2. bound[c[1]] >= 2  BY <1>0, <3>1 DEF Origins
      <4>3. bound[c[1]] \in 0 .. 3 /\ bound'[c[1]] \in Int
        BY <1>0, <2>1, <4>1 DEF DeclareQueue, TypeOK
      <4> QED  BY <2>2, <4>1, <4>2, <4>3
    <3> QED  BY <3>1
  <2>6. Origins'  BY <1>0, <2>2, <2>3, <2>4, <2>5 DEF Origins, Ready, Busy, EventAt
  <2> QED  BY <1>0, <2>4, <2>6 DEF Counts, Processed, Ready, Busy, EventAt, RetryCount, Mark
<1>2. CASE \E e \in Event, wellFormed \in BOOLEAN : Publish(e, wellFormed)
  <2>1. PICK e \in Event, wellFormed \in BOOLEAN : Publish(e, wellFormed)  BY <1>2
  <2>2. \A c \in Copy : main'[c] > 0 => main[c] > 0 \/ (c[2] = e /\ c[3] = 0)
    BY <1>0, <2>1, RoutedFacts DEF Publish, TypeOK
  <2>3. /\ UNCHANGED <<serves, bound, retry, dead, task, marked, handled, failures>>
        /\ published' = published \cup {e} /\ malformed \subseteq malformed'
    BY <1>0, <2>1 DEF Publish
  <2>4. Origins'  BY <1>0, <2>2, <2>3 DEF Origins, Ready, Busy, EventAt
  <2>5. \A c \in Copy : Ready(c)' => c[3] <= MaxRetries /\ c[3] <= failures[c[2]]
    BY <1>0, <2>2, <2>3, CopyParts DEF Counts, Ready, ConsumerAssumption, TypeOK
  <2> QED  BY <1>0, <2>3, <2>4, <2>5 DEF Counts, Processed, Ready, Busy, EventAt, RetryCount, Mark
<1>3. CASE \E c \in Copy : Expire(c)
  <2>1. PICK c \in Copy : Expire(c)  BY <1>3
  <2>2. \A d \in Copy : main'[d] > 0 => main[d] > 0 \/ (d[2] = c[2] /\ d[3] = c[3])
    BY <1>0, <2>1, RoutedFacts DEF Expire, TypeOK
  <2>3. \A d \in Copy : retry'[d] > 0 => retry[d] > 0
    BY <1>0, <2>1 DEF Expire, TypeOK
  <2>4. /\ UNCHANGED <<setup, dead, task, marked, handled, failures>> /\ Ready(c)
    BY <1>0, <2>1 DEF Expire, Ready
  <2>5. \A d \in Copy : Ready(d)' => Ready(d) \/ (d[2] = c[2] /\ d[3] = c[3])
    BY <1>0, <2>2, <2>3 DEF Ready
  <2>6. Origins'  BY <1>0, <2>3, <2>4, <2>5 DEF Origins, Busy, EventAt, setup
  <2>7. \A d \in Copy : Ready(d)' => d[3] <= MaxRetries /\ d[3] <= failures[d[2]]
    BY <1>0, <2>4, <2>5 DEF Counts
  <2> QED  BY <1>0, <2>4, <2>6, <2>7 DEF Counts, Processed, Busy, EventAt, RetryCount, Mark, setup
<1> QED  BY <1>1, <1>2, <1>3

LEMMA InitSound == Init => Sound
BY InitType DEF Init, Sound, Origins, Counts, Processed, Ready, Busy, Idle

LEMMA SoundStep ==
  ASSUME Sound, [Next]_vars
  PROVE  Sound'
<1>1. CASE \E w \in Worker : Stays(w) \/ Leaves(w) \/ Sends(w)
  BY <1>1, StaysSound, StaysType, LeavesSound, LeavesType, SendsSound, SendsType DEF Sound
<1>2. CASE \E w \in Worker, c \in Copy : Deliver(w, c)
  BY <1>2, DeliverSound, DeliverType DEF Sound
<1>3. CASE \E q \in Queue, survive \in BOOLEAN : Disconnect(q, survive)
  BY <1>3, DisconnectSound, DisconnectType DEF Sound
<1>4. CASE \/ \E q \in Queue : DeclareQueue(q)
           \/ \E e \in Event, wellFormed \in BOOLEAN : Publish(e, wellFormed)
           \/ \E c \in Copy : Expire(c)
  BY <1>4, BrokerSound, BrokerType DEF Sound
<1>5. CASE UNCHANGED vars
  BY <1>5 DEF vars, setup, Sound, TypeOK, Origins, Counts, Processed, Ready, Busy, EventAt,
     RetryCount, Mark
<1> QED  BY <1>1, <1>2, <1>3, <1>4, <1>5 DEF Next, Proceed, Stays, Leaves, Sends

-----------------------------------------------------------------------------
(* Events stay owed *)

LEMMA PairParts ==
  \A p \in Live \X Event :
    /\ p[1] \in Live /\ p[2] \in Event /\ p = <<p[1], p[2]>>
    /\ (TypeOK => p \in Queue \X Event)
BY DEF Live, TypeOK, ConsumerAssumption

\* Firm and Holds in terms of copies.
LEMMA FirmFacts ==
  ASSUME TypeOK, NEW p \in Live \X Event
  PROVE  /\ Firm(p) <=>
              \/ \E c \in Copy : c[1] = p[1] /\ c[2] = p[2] /\ Ready(c)
              \/ \E w \in Worker : /\ task[w].stage \notin {"idle", "routed", "parked"}
                                   /\ ~task[w].stale /\ Mark(w) = p
         /\ Holds(p) <=>
              \/ \E c \in Copy : c[1] = p[1] /\ c[2] = p[2] /\ Ready(c)
              \/ \E w \in Worker : Busy(w) /\ ~task[w].stale /\ Mark(w) = p
<1>1. p[1] \in Queue /\ p[2] \in Event /\ p = <<p[1], p[2]>>
  BY PairParts
<1>2. (\E c \in Copy : c[1] = p[1] /\ c[2] = p[2] /\ Ready(c)) <=>
      (\E n \in 0 .. MaxRetries + 1 : Ready(<<p[1], p[2], n>>))
  <2>1. ASSUME NEW c \in Copy, c[1] = p[1], c[2] = p[2], Ready(c)
        PROVE  \E n \in 0 .. MaxRetries + 1 : Ready(<<p[1], p[2], n>>)
    <3>1. c[3] \in 0 .. MaxRetries + 1 /\ c = <<c[1], c[2], c[3]>>  BY CopyParts
    <3>2. Ready(<<p[1], p[2], c[3]>>)  BY <2>1, <3>1
    <3> QED  BY <3>1, <3>2
  <2>2. ASSUME NEW n \in 0 .. MaxRetries + 1, Ready(<<p[1], p[2], n>>)
        PROVE  \E c \in Copy : c[1] = p[1] /\ c[2] = p[2] /\ Ready(c)
    <3>1. <<p[1], p[2], n>> \in Copy  BY <1>1, CopyParts
    <3> QED  BY <2>2, <3>1
  <2> QED  BY <2>1, <2>2
<1>3. \A w \in Worker : Mark(w) = p <=> serves[w] = p[1] /\ EventAt(w) = p[2]
  BY <1>1 DEF Mark
<1>4. Holds(p) <=>
        \/ \E n \in 0 .. MaxRetries + 1 : Ready(<<p[1], p[2], n>>)
        \/ \E w \in Worker : Busy(w) /\ ~task[w].stale /\ serves[w] = p[1] /\ EventAt(w) = p[2]
  BY DEF Holds, Ready, Busy
<1> QED  BY <1>2, <1>3, <1>4 DEF Firm

LEMMA FirmFactsNext ==
  ASSUME TypeOK', UNCHANGED serves, NEW p \in Live \X Event
  PROVE  /\ Firm(p)' <=>
              \/ \E c \in Copy : c[1] = p[1] /\ c[2] = p[2] /\ Ready(c)'
              \/ \E w \in Worker : /\ task'[w].stage \notin {"idle", "routed", "parked"}
                                   /\ ~task'[w].stale /\ Mark(w)' = p
         /\ Holds(p)' <=>
              \/ \E c \in Copy : c[1] = p[1] /\ c[2] = p[2] /\ Ready(c)'
              \/ \E w \in Worker : Busy(w)' /\ ~task'[w].stale /\ Mark(w)' = p
<1>1. p[1] \in Queue /\ p[2] \in Event /\ p = <<p[1], p[2]>>
  BY DEF Live, TypeOK, ConsumerAssumption
<1>2. (\E c \in Copy : c[1] = p[1] /\ c[2] = p[2] /\ Ready(c)') <=>
      (\E n \in 0 .. MaxRetries + 1 : Ready(<<p[1], p[2], n>>)')
  <2>1. ASSUME NEW c \in Copy, c[1] = p[1], c[2] = p[2], Ready(c)'
        PROVE  \E n \in 0 .. MaxRetries + 1 : Ready(<<p[1], p[2], n>>)'
    <3>1. c[3] \in 0 .. MaxRetries + 1 /\ c = <<c[1], c[2], c[3]>>  BY CopyParts
    <3>2. Ready(<<p[1], p[2], c[3]>>)'  BY <2>1, <3>1 DEF Ready
    <3> QED  BY <3>1, <3>2
  <2>2. ASSUME NEW n \in 0 .. MaxRetries + 1, Ready(<<p[1], p[2], n>>)'
        PROVE  \E c \in Copy : c[1] = p[1] /\ c[2] = p[2] /\ Ready(c)'
    <3>1. PICK c \in Copy : c = <<p[1], p[2], n>>  BY <1>1, CopyParts
    <3>2. c[1] = p[1] /\ c[2] = p[2]  BY <3>1
    <3>3. Ready(c)'  BY <2>2, <3>1 DEF Ready
    <3> QED  BY <3>2, <3>3
  <2> QED  BY <2>1, <2>2
<1>3. \A w \in Worker : Mark(w)' = p <=> serves'[w] = p[1] /\ EventAt(w)' = p[2]
  BY <1>1 DEF Mark
<1>4. Holds(p)' <=>
        \/ \E n \in 0 .. MaxRetries + 1 : Ready(<<p[1], p[2], n>>)'
        \/ \E w \in Worker : Busy(w)' /\ ~task'[w].stale /\ serves'[w] = p[1] /\ EventAt(w)' = p[2]
  BY DEF Holds, Ready, Busy
<1> QED  BY <1>2, <1>3, <1>4 DEF Firm

\* What a step owes when it sends an event to some subscribers and settles others.
LEMMA OwedAfter ==
  ASSUME TypeOK, TypeOK', HeldFirmly, UNCHANGED serves, Settled \subseteq Settled',
         NEW sent \in SUBSET (Live \X Event),
         \A p \in Live \X Event : p \notin Settled' =>
           /\ Firm(p) \/ p \in sent => Firm(p)'
           /\ Holds(p)' => Holds(p) \/ p \in sent
  PROVE  Owed' = (Owed \cup sent) \ Settled' /\ HeldFirmly'
<1>1. Live' = Live  BY DEF Live
<1>2. ASSUME NEW p \in Live \X Event, p \notin Settled'
      PROVE  /\ Firm(p)' => Holds(p)'
             /\ Holds(p)' <=> p \in Owed \cup sent
             /\ Holds(p)' => Firm(p)'
  <2>1. Firm(p)' => Holds(p)'  BY FirmFactsNext DEF Busy
  <2>2. p \in Owed => Firm(p)  BY <1>2 DEF Owed, HeldFirmly
  <2>3. Holds(p) => p \in Owed  BY <1>2 DEF Owed
  <2> QED  BY <1>2, <2>1, <2>2, <2>3
<1>3. Owed \subseteq Live \X Event  BY DEF Owed
<1>4. Owed' = {p \in Live \X Event : Holds(p)'} \ Settled'  BY <1>1 DEF Owed
<1>5. \A p : p \in Owed' <=> p \in (Owed \cup sent) \ Settled'
  BY <1>2, <1>3, <1>4
<1>6. HeldFirmly'  BY <1>1, <1>2 DEF HeldFirmly
<1> QED  BY <1>5, <1>6

\* A step that keeps the promise, and what its proof relies on.
Kept == [Promise!Next]_<<Owed, Settled>> /\ HeldFirmly'

LEMMA QuietStep ==
  ASSUME TypeOK, TypeOK', HeldFirmly, UNCHANGED <<serves, handled, dead>>,
         \A p \in Live \X Event : p \notin Settled =>
           (Firm(p) => Firm(p)') /\ (Holds(p)' => Holds(p))
  PROVE  Kept
<1>1. Settled' = Settled  BY DEF Settled, Live
<1>2. \A p \in Live \X Event : p \notin Settled' =>
        (Firm(p) \/ p \in {} => Firm(p)') /\ (Holds(p)' => Holds(p) \/ p \in {})
  BY <1>1
<1>3. {} \in SUBSET (Live \X Event)  OBVIOUS
<1>4. Owed' = (Owed \cup {}) \ Settled' /\ HeldFirmly'
  BY <1>1, <1>2, <1>3, OwedAfter
<1>5. Owed' = Owed  BY <1>1, <1>4 DEF Owed
<1> QED  BY <1>1, <1>4, <1>5 DEF Kept

LEMMA LeavesKept ==
  ASSUME Sound, HeldFirmly, NEW w \in Worker, Leaves(w)
  PROVE  Kept
<1>1. TypeOK /\ TypeOK' /\ Processed /\ Busy(w)  BY LeavesType DEF Sound
<1>2. UNCHANGED <<setup, serves, main, retry, dead, handled>>
  BY DEF Leaves, Ack, AckRouted, setup
<1>3. serves[w] \in Live /\ Mark(w) \in Queue \X Event /\ EventAt(w) \in Event
  BY <1>1, BusyFacts DEF Live
<1>4. \A v \in Worker : v # w => task'[v] = task[v] /\ Mark(v)' = Mark(v)
  BY <1>1, <1>2, LeavesType, IdleType, FailType, TypeParts DEF Mark, EventAt, setup
<1>5. ~Busy(w)' \/ task'[w].stale
  BY <1>1, <1>2, LeavesType, IdleType, FailType, TypeParts DEF setup
<1>6. task[w].stage \in {"routed", "parked"} \/ task[w].stale \/ Mark(w) \in Settled
  <2>1. CASE task[w].stage = "acking"
    <3>1. handled[Mark(w)] > 0  BY <1>1, <2>1 DEF Processed
    <3> QED  BY <1>3, <3>1 DEF Settled, Mark
  <2>2. CASE task[w].stage # "acking"  BY <2>2 DEF Leaves, Ack, AckRouted
  <2> QED  BY <2>1, <2>2
<1>7. ASSUME NEW p \in Live \X Event, p \notin Settled, Firm(p)
      PROVE  Firm(p)'
  <2>1. CASE \E c \in Copy : c[1] = p[1] /\ c[2] = p[2] /\ Ready(c)
    BY <1>1, <1>2, <2>1, FirmFactsNext DEF Ready
  <2>2. CASE \E v \in Worker : /\ task[v].stage \notin {"idle", "routed", "parked"}
                              /\ ~task[v].stale /\ Mark(v) = p
    BY <1>1, <1>2, <1>4, <1>6, <1>7, <2>2, FirmFactsNext
  <2> QED  BY <1>1, <1>7, <2>1, <2>2, FirmFacts
<1>8. ASSUME NEW p \in Live \X Event, Holds(p)'
      PROVE  Holds(p)
  BY <1>1, <1>2, <1>4, <1>5, <1>8, FirmFacts, FirmFactsNext DEF Ready, Busy
<1> QED  BY <1>1, <1>2, <1>7, <1>8, QuietStep

LEMMA DeliverKept ==
  ASSUME Sound, HeldFirmly, NEW w \in Worker, NEW c \in Copy, Deliver(w, c)
  PROVE  Kept
<1>1. TypeOK /\ Counts /\ TypeOK'  BY DeliverType DEF Sound
<1>2. /\ UNCHANGED <<serves, retry, dead, handled>>
      /\ main' = [main EXCEPT ![c] = main[c] - 1] /\ main[c] > 0 /\ ~Busy(w)
  BY DEF Deliver, setup, Busy
<1>3. task'[w] = [stage |-> "received", copy |-> c, stale |-> FALSE] /\ c[1] = serves[w]
  BY <1>1, DeliverType DEF Deliver
<1>4. task'[w].stage = "received" /\ ~task'[w].stale /\ Mark(w)' = <<c[1], c[2]>>
  BY <1>2, <1>3 DEF Mark, EventAt
<1>5. \A v \in Worker : v # w => task'[v] = task[v] /\ Mark(v)' = Mark(v)
  BY <1>1, <1>2, DeliverType DEF Mark, EventAt
<1>6. \A d \in Copy : d # c => (Ready(d)' <=> Ready(d))
  BY <1>1, <1>2 DEF Ready, TypeOK
<1>7. ASSUME NEW p \in Live \X Event
      PROVE  (Firm(p) => Firm(p)') /\ (Holds(p)' => Holds(p))
  <2>1. CASE p = <<c[1], c[2]>>
    <3>1. Ready(c)  BY <1>2 DEF Ready
    <3>2. Holds(p)  BY <1>1, <2>1, <3>1, FirmFacts
    <3>3. Firm(p)'  BY <1>1, <1>2, <1>4, <2>1, FirmFactsNext
    <3> QED  BY <3>2, <3>3
  <2>2. CASE p # <<c[1], c[2]>>
    <3>1. ~(c[1] = p[1] /\ c[2] = p[2])  BY <2>2, PairParts
    <3>2. \A d \in Copy : d[1] = p[1] /\ d[2] = p[2] => (Ready(d)' <=> Ready(d))
      BY <1>6, <3>1
    <3>3. \A v \in Worker : Mark(v)' = p => v # w  BY <1>4, <2>2
    <3>4. Firm(p) => Firm(p)'
      BY <1>1, <1>2, <1>5, <3>2, FirmFacts, FirmFactsNext DEF Busy
    <3>5. Holds(p)' => Holds(p)
      BY <1>1, <1>2, <1>5, <3>2, <3>3, FirmFacts, FirmFactsNext DEF Busy
    <3> QED  BY <3>4, <3>5
  <2> QED  BY <2>1, <2>2
<1> QED  BY <1>1, <1>2, <1>7, QuietStep

LEMMA DisconnectKept ==
  ASSUME Sound, HeldFirmly, NEW q \in Queue, NEW survive \in BOOLEAN, Disconnect(q, survive)
  PROVE  Kept
<1> DEFINE mine == {w \in Worker : serves[w] = q /\ Busy(w)}
<1>1. TypeOK /\ TypeOK' /\ UNCHANGED <<setup, serves, retry, dead, handled>>
  BY DisconnectType DEF Sound, setup
<1>2. main' = Requeued(mine) /\ mine \in SUBSET Worker /\ main \in [Copy -> Nat]
  <2>1. main' = Requeued(mine)  BY <1>1, DisconnectType
  <2>2. main \in [Copy -> Nat]  BY <1>1 DEF TypeOK
  <2> QED  BY <2>1, <2>2
<1>3. /\ \A c \in Copy : main[c] > 0 => main'[c] > 0
      /\ \A c \in Copy, w \in mine : ~task[w].stale /\ task[w].copy = c => main'[c] > 0
      /\ \A c \in Copy : main'[c] > 0 =>
           main[c] > 0 \/ \E w \in mine : ~task[w].stale /\ task[w].copy = c
  <2> HIDE DEF mine
  <2> QED  BY <1>2, RequeuedFacts
<1>4. ASSUME NEW w \in mine
      PROVE  /\ w \in Worker /\ Busy(w) /\ task[w].copy \in Copy
             /\ Mark(w) = <<task[w].copy[1], task[w].copy[2]>>
  <2>1. w \in Worker /\ Busy(w)  OBVIOUS
  <2>2. task[w].copy \in Copy /\ task[w].copy[1] = serves[w]
    BY <1>1, <2>1, BusyFacts DEF TypeOK, Busy
  <2> QED  BY <2>1, <2>2 DEF Mark, EventAt
<1>5. ASSUME NEW w \in Worker
      PROVE  \/ w \notin mine /\ task'[w] = task[w] /\ Mark(w)' = Mark(w)
             \/ w \in mine /\ (~Busy(w)' \/ task'[w].stale)
  <2>1. CASE ~(serves[w] = q /\ Busy(w)) /\ task'[w] = task[w]
    BY <1>1, <2>1 DEF Mark, EventAt
  <2>2. CASE /\ serves[w] = q /\ Busy(w)
             /\ task'[w] = Idle \/ task'[w].stale = TRUE
    BY <2>2, IdleNotBusy DEF Busy
  <2>3. \/ ~(serves[w] = q /\ Busy(w)) /\ task'[w] = task[w]
        \/ /\ serves[w] = q /\ Busy(w)
           /\ task'[w] = Idle \/ task'[w].stale = TRUE
    BY <1>1, DisconnectType
  <2> QED  BY <2>1, <2>2, <2>3
<1> HIDE DEF mine
<1>6. ASSUME NEW p \in Live \X Event, Firm(p)
      PROVE  Firm(p)'
  <2>1. CASE \E c \in Copy : c[1] = p[1] /\ c[2] = p[2] /\ Ready(c)
    BY <1>1, <1>3, <2>1, FirmFactsNext DEF Ready
  <2>2. CASE \E v \in Worker : /\ task[v].stage \notin {"idle", "routed", "parked"}
                              /\ ~task[v].stale /\ Mark(v) = p
    <3>1. PICK v \in Worker : /\ task[v].stage \notin {"idle", "routed", "parked"}
                             /\ ~task[v].stale /\ Mark(v) = p
      BY <2>2
    <3>2. CASE v \in mine
      <4>1. PICK c \in Copy : c = task[v].copy /\ c[1] = p[1] /\ c[2] = p[2]
        BY <1>4, <3>1, <3>2
      <4>2. Ready(c)'  BY <1>3, <3>1, <3>2, <4>1 DEF Ready
      <4> QED  BY <1>1, <4>1, <4>2, FirmFactsNext
    <3>3. CASE v \notin mine  BY <1>1, <1>5, <3>1, <3>3, FirmFactsNext
    <3> QED  BY <3>2, <3>3
  <2> QED  BY <1>1, <1>6, <2>1, <2>2, FirmFacts
<1>7. ASSUME NEW p \in Live \X Event, Holds(p)'
      PROVE  Holds(p)
  <2>1. CASE \E c \in Copy : c[1] = p[1] /\ c[2] = p[2] /\ Ready(c)'
    <3>1. PICK c \in Copy : c[1] = p[1] /\ c[2] = p[2] /\ Ready(c)'  BY <2>1
    <3>2. CASE Ready(c)  BY <1>1, <3>1, <3>2, FirmFacts
    <3>3. CASE \E w \in mine : ~task[w].stale /\ task[w].copy = c
      <4>1. PICK w \in mine : ~task[w].stale /\ task[w].copy = c  BY <3>3
      <4>2. w \in Worker /\ Busy(w) /\ Mark(w) = p  BY <1>4, <3>1, <4>1, PairParts
      <4> QED  BY <1>1, <4>1, <4>2, FirmFacts
    <3> QED  BY <1>1, <1>3, <3>1, <3>2, <3>3 DEF Ready
  <2>2. CASE \E v \in Worker : Busy(v)' /\ ~task'[v].stale /\ Mark(v)' = p
    BY <1>1, <1>5, <2>2, FirmFacts DEF Busy
  <2> QED  BY <1>1, <1>7, <2>1, <2>2, FirmFactsNext
<1> QED  BY <1>1, <1>6, <1>7, QuietStep

LEMMA StaysKept ==
  ASSUME Sound, HeldFirmly, WorkIsOwed, NEW w \in Worker, Stays(w)
  PROVE  Kept
<1>1. TypeOK /\ TypeOK' /\ Busy(w) /\ Mark(w) \in Queue \X Event /\ Mark(w) \in Live \X Event
  BY StaysType, BusyFacts DEF Sound, Live, Mark
<1>2. UNCHANGED <<setup, serves, main, retry, dead>>
  BY DEF Stays, Check, Handle, MarkProcessed, setup
<1>3. task[w].stage \in {"received", "handling", "handled"}
  BY DEF Stays, Check, Handle, MarkProcessed
<1>4. PICK s \in {"acking", "poison", "handling", "handled", "failing"} : MoveTo(w, s)
  BY DEF Stays, Check, Handle, MarkProcessed, Fail
<1>5. s \in Stage \ {"idle"}  BY DEF Stage
<1>6. /\ task'[w].stage = s /\ task'[w].stale = task[w].stale /\ Mark(w)' = Mark(w)
      /\ \A v \in Worker : v # w => task'[v] = task[v] /\ Mark(v)' = Mark(v)
  BY <1>1, <1>2, <1>4, <1>5, MoveToType, TypeParts DEF Mark, EventAt, setup
<1>7. \A v \in Worker :
        /\ Mark(v)' = Mark(v) /\ (~task'[v].stale <=> ~task[v].stale) /\ (Busy(v)' <=> Busy(v))
        /\ task'[v].stage \notin {"idle", "routed", "parked"} <=>
             task[v].stage \notin {"idle", "routed", "parked"}
  BY <1>3, <1>6 DEF Busy
<1>8. ASSUME NEW p \in Live \X Event
      PROVE  (Firm(p)' <=> Firm(p)) /\ (Holds(p)' <=> Holds(p))
  <2>1. \A c \in Copy : Ready(c)' <=> Ready(c)  BY <1>2 DEF Ready
  <2> QED  BY <1>1, <1>2, <1>7, <2>1, FirmFacts, FirmFactsNext
<1>9. CASE handled' = handled
  BY <1>1, <1>2, <1>8, <1>9, QuietStep
<1>10. CASE handled' = [handled EXCEPT ![Mark(w)] = UpTo(2, handled[Mark(w)] + 1)]
  <2>1. handled'[Mark(w)] > 0 /\ \A p \in Queue \X Event : p # Mark(w) => handled'[p] = handled[p]
    BY <1>1, <1>10 DEF UpTo, TypeOK
  <2>2. Settled' = Settled \cup {Mark(w)}
    BY <1>1, <1>2, <2>1, PairParts DEF Settled, Live
  <2>3. Owed' = Owed \ Settled' /\ HeldFirmly'
    <3>1. Owed' = (Owed \cup {}) \ Settled' /\ HeldFirmly'
      BY <1>1, <1>2, <1>8, <2>2, OwedAfter
    <3> QED  BY <3>1
  <2>4. Owed \cap Settled = {} /\ Mark(w) \in Owed \cup Settled
    BY <1>1 DEF Owed, WorkIsOwed
  <2>5. CASE Mark(w) \in Settled
    BY <2>2, <2>3, <2>4, <2>5 DEF Kept
  <2>6. CASE Mark(w) \in Owed
    <3>1. Owed' = Owed \ {Mark(w)}  BY <2>2, <2>3, <2>4
    <3>2. Promise!Settle
      BY <1>1, <2>2, <2>6, <3>1 DEF Promise!Settle
    <3> QED  BY <2>3, <3>2 DEF Kept, Promise!Next
  <2> QED  BY <2>4, <2>5, <2>6
<1> QED  BY <1>1, <1>9, <1>10 DEF Stays, Check, Handle, MarkProcessed

\* An event that reaches some subscribers for a retry, or settles for them.
LEMMA SharedKept ==
  ASSUME TypeOK, TypeOK', HeldFirmly, UNCHANGED serves, NEW e \in Event,
         \E q \in Live : <<q, e>> \in Owed \cup Settled,
         NEW qs \in SUBSET Live,
         \/ /\ Settled' = Settled
            /\ \A p \in Live \X Event : p \notin Settled =>
                 /\ Firm(p) \/ p \in qs \X {e} => Firm(p)'
                 /\ Holds(p)' => Holds(p) \/ p \in qs \X {e}
         \/ /\ Settled' = Settled \cup (qs \X {e})
            /\ \A p \in Live \X Event : p \notin Settled' =>
                 (Firm(p) => Firm(p)') /\ (Holds(p)' => Holds(p))
  PROVE  Kept
<1>1. qs \in SUBSET Queue /\ Live \subseteq Queue
  BY DEF Live, TypeOK, ConsumerAssumption
<1>2. qs \X {e} \in SUBSET (Live \X Event)  OBVIOUS
<1>3. Owed \cap Settled = {}  BY DEF Owed
<1>4. CASE /\ Settled' = Settled
           /\ \A p \in Live \X Event : p \notin Settled =>
                /\ Firm(p) \/ p \in qs \X {e} => Firm(p)'
                /\ Holds(p)' => Holds(p) \/ p \in qs \X {e}
  <2>1. Owed' = (Owed \cup (qs \X {e})) \ Settled' /\ HeldFirmly'
    BY <1>2, <1>4, OwedAfter
  <2>2. Owed' = Owed \cup ((qs \X {e}) \ Settled)  BY <1>3, <1>4, <2>1
  <2>3. Promise!Share  BY <1>1, <1>4, <2>2 DEF Promise!Share
  <2> QED  BY <2>1, <2>3 DEF Kept, Promise!Next
<1>5. CASE /\ Settled' = Settled \cup (qs \X {e})
           /\ \A p \in Live \X Event : p \notin Settled' =>
                (Firm(p) => Firm(p)') /\ (Holds(p)' => Holds(p))
  <2>1. Owed' = (Owed \cup {}) \ Settled' /\ HeldFirmly'
    <3>1. Settled \subseteq Settled' /\ {} \in SUBSET (Live \X Event)  BY <1>5
    <3>2. \A p \in Live \X Event : p \notin Settled' =>
            (Firm(p) \/ p \in {} => Firm(p)') /\ (Holds(p)' => Holds(p) \/ p \in {})
      BY <1>5
    <3> QED  BY <3>1, <3>2, OwedAfter
  <2>2. Owed' = Owed \ (qs \X {e})  BY <1>3, <1>5, <2>1
  <2>3. Promise!Share  BY <1>1, <1>5, <2>2 DEF Promise!Share
  <2> QED  BY <2>1, <2>3 DEF Kept, Promise!Next
<1> QED  BY <1>4, <1>5

\* What sending a message on does to the events held, other than by what it sends.
LEMMA SendsHold ==
  ASSUME Sound, NEW w \in Worker, Sends(w), NEW p \in Live \X Event
  PROVE  /\ Firm(p) =>
              \/ Firm(p)'
              \/ Mark(w) = p /\ Reroute(w)
         /\ Holds(p)' =>
              \/ Holds(p)
              \/ \E c \in Copy : c[1] = p[1] /\ c[2] = p[2] /\ retry'[c] > 0 /\ ~(retry[c] > 0)
<1>1. TypeOK /\ TypeOK' /\ Busy(w) /\ UNCHANGED <<setup, serves>>
  BY SendsType DEF Sound, setup
<1>2. /\ \A v \in Worker : v # w => task'[v] = task[v] /\ Mark(v)' = Mark(v)
      /\ \/ ~Busy(w)'
         \/ /\ task'[w].stage \in {"routed", "parked", "failing"} /\ Mark(w)' = Mark(w)
            /\ task'[w].stale <=> task[w].stale
            /\ task'[w].stage = "failing" => task[w].stale
  <2>1. CASE task' = [task EXCEPT ![w] = Idle]
    BY <1>1, <2>1, IdleType, TypeParts DEF Mark, EventAt
  <2>2. CASE task[w].stale /\ Fail(w)
    BY <1>1, <2>2, FailType DEF Mark, EventAt
  <2>3. CASE \E s \in {"routed", "parked"} : MoveTo(w, s)
    <3>1. PICK s \in {"routed", "parked"} : MoveTo(w, s)  BY <2>3
    <3>2. s \in Stage \ {"idle"}  BY DEF Stage
    <3> QED  BY <1>1, <3>1, <3>2, MoveToType, TypeParts DEF Mark, EventAt
  <2> QED  BY <1>1, <2>1, <2>2, <2>3, SendsType
<1>3. /\ \A c \in Copy : main[c] > 0 => main'[c] > 0
      /\ \A c \in Copy : main'[c] > 0 => main[c] > 0 \/ (~task[w].stale /\ task[w].copy = c)
      /\ RerouteFails(w) /\ ~task[w].stale => main'[task[w].copy] > 0
  <2>0. main \in [Copy -> Nat] /\ {w} \in SUBSET Worker /\ task[w].copy \in Copy
    BY <1>1, BusyFacts DEF TypeOK
  <2>1. CASE main' = main /\ Reroute(w)
    <3>1. ~RerouteFails(w) \/ main' = Requeued({w})  BY DEF RerouteFails
    <3>2. \A v \in {w} : ~task[v].stale /\ task[v].copy = task[w].copy => Requeued({w})[task[w].copy] > 0
      BY <2>0, RequeuedFacts
    <3> QED  BY <2>1, <3>1, <3>2
  <2>2. CASE main' = Requeued({w})
    <3>1. /\ \A c \in Copy : main[c] > 0 => Requeued({w})[c] > 0
          /\ \A c \in Copy, v \in {w} : ~task[v].stale /\ task[v].copy = c => Requeued({w})[c] > 0
          /\ \A c \in Copy : Requeued({w})[c] > 0 =>
               main[c] > 0 \/ \E v \in {w} : ~task[v].stale /\ task[v].copy = c
      BY <2>0, RequeuedFacts
    <3> QED  BY <2>0, <2>2, <3>1
  <2> QED  BY <1>1, <2>1, <2>2, SendsType
<1>4. \A c \in Copy : retry[c] > 0 => retry'[c] > 0
  <2>1. retry \in [Copy -> Nat]  BY <1>1 DEF TypeOK
  <2>2. retry' = retry \/ retry' = Routed(retry, Bound(2), EventAt(w), RetryCount(w) + 1)
    BY <1>1, SendsType, SendOnFacts
  <2> QED  BY <2>1, <2>2, RoutedFacts
<1>5. task[w].copy \in Copy /\ Mark(w) = <<task[w].copy[1], task[w].copy[2]>>
  <2>1. task[w].copy \in Copy  BY <1>1, BusyFacts
  <2>2. task[w].copy[1] = serves[w]  BY <1>1 DEF TypeOK, Busy
  <2> QED  BY <2>1, <2>2 DEF Mark, EventAt
<1>6. ASSUME Firm(p), ~(Mark(w) = p /\ Reroute(w))
      PROVE  Firm(p)'
  <2>1. CASE \E c \in Copy : c[1] = p[1] /\ c[2] = p[2] /\ Ready(c)
    <3>1. PICK c \in Copy : c[1] = p[1] /\ c[2] = p[2] /\ Ready(c)  BY <2>1
    <3>2. Ready(c)'  BY <1>3, <1>4, <3>1 DEF Ready
    <3> QED  BY <1>1, <3>1, <3>2, FirmFactsNext
  <2>2. CASE \E v \in Worker : /\ task[v].stage \notin {"idle", "routed", "parked"}
                              /\ ~task[v].stale /\ Mark(v) = p
    <3>1. PICK v \in Worker : /\ task[v].stage \notin {"idle", "routed", "parked"}
                             /\ ~task[v].stale /\ Mark(v) = p
      BY <2>2
    <3>2. CASE v # w  BY <1>1, <1>2, <3>1, <3>2, FirmFactsNext
    <3>3. CASE v = w
      <4>1. RerouteFails(w)  BY <1>6, <3>1, <3>3 DEF Sends
      <4>2. PICK c \in Copy : c = task[w].copy /\ c[1] = p[1] /\ c[2] = p[2]
        BY <1>5, <3>1, <3>3
      <4>3. Ready(c)'  BY <1>3, <3>1, <3>3, <4>1, <4>2 DEF Ready
      <4> QED  BY <1>1, <4>2, <4>3, FirmFactsNext
    <3> QED  BY <3>2, <3>3
  <2> QED  BY <1>1, <1>6, <2>1, <2>2, FirmFacts
<1>7. ASSUME Holds(p)'
      PROVE  \/ Holds(p)
             \/ \E c \in Copy : c[1] = p[1] /\ c[2] = p[2] /\ retry'[c] > 0 /\ ~(retry[c] > 0)
  <2>1. CASE \E c \in Copy : c[1] = p[1] /\ c[2] = p[2] /\ Ready(c)'
    <3>1. PICK c \in Copy : c[1] = p[1] /\ c[2] = p[2] /\ Ready(c)'  BY <2>1
    <3>2. CASE Ready(c)  BY <1>1, <3>1, <3>2, FirmFacts
    <3>3. CASE ~task[w].stale /\ task[w].copy = c
      <4>1. Mark(w) = p  BY <1>5, <3>1, <3>3, PairParts
      <4> QED  BY <1>1, <3>3, <4>1, FirmFacts
    <3> QED  BY <1>3, <3>1, <3>2, <3>3 DEF Ready
  <2>2. CASE \E v \in Worker : Busy(v)' /\ ~task'[v].stale /\ Mark(v)' = p
    <3>1. PICK v \in Worker : Busy(v)' /\ ~task'[v].stale /\ Mark(v)' = p  BY <2>2
    <3>2. CASE v # w  BY <1>1, <1>2, <3>1, <3>2, FirmFacts DEF Busy
    <3>3. CASE v = w
      <4>1. ~task[w].stale /\ Mark(w) = p  BY <1>2, <3>1, <3>3
      <4> QED  BY <1>1, <4>1, FirmFacts
    <3> QED  BY <3>2, <3>3
  <2> QED  BY <1>1, <1>7, <2>1, <2>2, FirmFactsNext
<1> QED  BY <1>6, <1>7

LEMMA SendsKept ==
  ASSUME Sound, HeldFirmly, WorkIsOwed, NEW w \in Worker, Sends(w)
  PROVE  Kept
<1>1. TypeOK /\ TypeOK' /\ Busy(w) /\ UNCHANGED <<serves, bound, handled>>
  BY SendsType DEF Sound, setup
<1>2. EventAt(w) \in Event /\ serves[w] \in Live /\ Mark(w) \in Owed \cup Settled
  BY <1>1, BusyFacts DEF Live, WorkIsOwed
<1>3. \E q \in Live : <<q, EventAt(w)>> \in Owed \cup Settled
  BY <1>2 DEF Mark
<1>4. bound[serves[w]] = 3 /\ serves[w] \in Queue
  BY <1>1, BusyFacts DEF Sound, Origins
<1>5. CASE UNCHANGED <<retry, dead>> /\ RerouteFails(w)
  <2>1. ~Reroute(w) \/ SendOn(w)  BY DEF Reroute
  <2>2. CASE ~Reroute(w)
    BY <1>1, <1>5, <2>2, SendsHold, QuietStep
  <2>3. CASE SendOn(w) /\ Reroute(w)
    <3>1. task'[w].stage \in {"routed", "parked"}
      BY <1>1, <2>3 DEF Reroute, MoveTo, TypeOK
    <3>2. ~RerouteFails(w)
      BY <1>1, <3>1, IdleType, FailType, TypeParts, IdleNotBusy DEF RerouteFails, setup
    <3> QED  BY <1>5, <3>2
  <2> QED  BY <2>1, <2>2, <2>3
<1>6. CASE SendOn(w)
  <2>1. CASE /\ RetryCount(w) + 1 <= MaxRetries /\ dead' = dead
             /\ retry' = Routed(retry, Bound(2), EventAt(w), RetryCount(w) + 1)
    <3> DEFINE qs == Bound(2) \cap Live
               k == RetryCount(w) + 1
    <3>1. k \in 0 .. MaxRetries + 1 /\ retry \in [Copy -> Nat]
      BY <1>1, BusyFacts DEF TypeOK, ConsumerAssumption
    <3>2. /\ \A c \in Copy : c[1] \in Bound(2) /\ c[2] = EventAt(w) /\ c[3] = k => retry'[c] > 0
          /\ \A c \in Copy : retry'[c] > 0 =>
               retry[c] > 0 \/ (c[1] \in Bound(2) /\ c[2] = EventAt(w) /\ c[3] = k)
      BY <2>1, <3>1, RoutedFacts
    <3>3. ASSUME NEW p \in Live \X Event, p \in qs \X {EventAt(w)}
          PROVE  Firm(p)'
      <4>1. p[1] \in Queue /\ p[1] \in Bound(2) /\ p[2] = EventAt(w)  BY <3>3 DEF Bound
      <4>2. <<p[1], p[2], k>> \in Copy  BY <1>2, <3>1, <4>1, CopyParts
      <4>3. PICK c \in Copy : c[1] = p[1] /\ c[2] = p[2] /\ c[3] = k  BY <4>2
      <4>4. Ready(c)'  BY <3>2, <4>1, <4>3 DEF Ready
      <4> QED  BY <1>1, <4>3, <4>4, FirmFactsNext
    <3>4. ASSUME NEW p \in Live \X Event
          PROVE  /\ Firm(p) \/ p \in qs \X {EventAt(w)} => Firm(p)'
                 /\ Holds(p)' => Holds(p) \/ p \in qs \X {EventAt(w)}
      <4>1. Mark(w) \in qs \X {EventAt(w)}  BY <1>2, <1>4 DEF Mark, Bound
      <4>2. Firm(p) => Firm(p)'  BY <3>3, <4>1, SendsHold
      <4>3. ASSUME NEW c \in Copy, c[1] = p[1], c[2] = p[2], retry'[c] > 0, ~(retry[c] > 0)
            PROVE  p \in qs \X {EventAt(w)}
        BY <3>2, <4>3, PairParts
      <4> QED  BY <3>3, <4>2, <4>3, SendsHold
    <3>5. Settled' = Settled  BY <1>1, <2>1 DEF Settled, Live
    <3>6. qs \in SUBSET Live  OBVIOUS
    <3> HIDE DEF qs
    <3> QED  BY <1>1, <1>2, <1>3, <3>4, <3>5, <3>6, SharedKept
  <2>2. CASE /\ retry' = retry
             /\ \E n \in 0 .. MaxRetries + 1 : dead' = dead \cup (Bound(3) \X {EventAt(w)} \X {n})
    <3> DEFINE qs == Bound(3) \cap Live
    <3>1. PICK n \in 0 .. MaxRetries + 1 : dead' = dead \cup (Bound(3) \X {EventAt(w)} \X {n})
      BY <2>2
    <3>2. Settled' = Settled \cup (qs \X {EventAt(w)})
      <4>1. ASSUME NEW p \in Live \X Event
            PROVE  (\E c \in dead' : p = <<c[1], c[2]>>) <=>
                     (\E c \in dead : p = <<c[1], c[2]>>) \/ p \in qs \X {EventAt(w)}
        <5>1. ASSUME NEW c \in dead', p = <<c[1], c[2]>>, c \notin dead
              PROVE  p \in qs \X {EventAt(w)}
          <6>1. c[1] \in Bound(3) /\ c[2] = EventAt(w)  BY <3>1, <5>1
          <6> QED  BY <5>1, <6>1, PairParts
        <5>2. ASSUME p \in qs \X {EventAt(w)}
              PROVE  \E c \in dead' : p = <<c[1], c[2]>>
          <6>1. p[1] \in Bound(3) /\ p[2] = EventAt(w) /\ p = <<p[1], p[2]>>
            BY <5>2, PairParts
          <6>2. <<p[1], p[2], n>> \in dead'  BY <3>1, <6>1
          <6> QED  BY <6>1, <6>2
        <5> QED  BY <3>1, <5>1, <5>2
      <4>2. qs \X {EventAt(w)} \subseteq Live \X Event  BY <1>2
      <4>3. Live' = Live  BY <1>1 DEF Live
      <4> HIDE DEF qs
      <4> QED  BY <1>1, <4>1, <4>2, <4>3 DEF Settled
    <3>3. ASSUME NEW p \in Live \X Event, p \notin Settled'
          PROVE  (Firm(p) => Firm(p)') /\ (Holds(p)' => Holds(p))
      <4>1. Mark(w) \in qs \X {EventAt(w)}  BY <1>2, <1>4 DEF Mark, Bound
      <4>2. Mark(w) # p  BY <3>2, <3>3, <4>1
      <4> QED  BY <2>2, <4>2, SendsHold
    <3>4. qs \in SUBSET Live  OBVIOUS
    <3> HIDE DEF qs
    <3> QED  BY <1>1, <1>2, <1>3, <3>2, <3>3, <3>4, SharedKept
  <2> QED  BY <1>1, <1>6, <2>1, <2>2, SendOnFacts
<1> QED  BY <1>1, <1>5, <1>6, SendsType

LEMMA BrokerKept ==
  ASSUME Sound, HeldFirmly, WorkIsOwed,
         \/ \E q \in Queue : DeclareQueue(q)
         \/ \E e \in Event, wellFormed \in BOOLEAN : Publish(e, wellFormed)
         \/ \E c \in Copy : Expire(c)
  PROVE  Kept
<1>1. TypeOK /\ TypeOK' /\ Origins  BY BrokerType DEF Sound
<1>2. UNCHANGED <<serves, task, handled, dead>>
  BY DEF DeclareQueue, Publish, Expire, setup
<1>3. Settled' = Settled /\ Live' = Live /\ Live \subseteq Queue
  BY <1>1, <1>2 DEF Settled, Live, TypeOK, ConsumerAssumption
<1>4. \A v \in Worker : Mark(v)' = Mark(v) /\ (Busy(v)' <=> Busy(v))
  BY <1>2 DEF Mark, EventAt, Busy
<1>5. CASE \E q \in Queue : DeclareQueue(q)
  <2>1. \A c \in Copy : Ready(c)' <=> Ready(c)  BY <1>5 DEF DeclareQueue, Ready
  <2>2. \A p \in Live \X Event : (Firm(p)' <=> Firm(p)) /\ (Holds(p)' <=> Holds(p))
    BY <1>1, <1>2, <1>4, <2>1, FirmFacts, FirmFactsNext
  <2> QED  BY <1>1, <1>2, <2>2, QuietStep
<1>6. CASE \E e \in Event, wellFormed \in BOOLEAN : Publish(e, wellFormed)
  <2>1. PICK e \in Event, wellFormed \in BOOLEAN : Publish(e, wellFormed)  BY <1>6
  <2> DEFINE qs == Bound(1) \cap Live
  <2>2. main \in [Copy -> Nat] /\ main' = Routed(main, Bound(1), e, 0) /\ retry' = retry
    BY <1>1, <2>1 DEF Publish, TypeOK
  <2>3. /\ \A c \in Copy : c[1] \in Bound(1) /\ c[2] = e /\ c[3] = 0 => main'[c] > 0
        /\ \A c \in Copy : main[c] > 0 => main'[c] > 0
        /\ \A c \in Copy : main'[c] > 0 => main[c] > 0 \/ (c[1] \in Bound(1) /\ c[2] = e)
    BY <2>2, RoutedFacts
  <2>4. ASSUME NEW p \in Live \X Event
        PROVE  /\ Firm(p) \/ p \in qs \X {e} => Firm(p)'
               /\ Holds(p)' => Holds(p) \/ p \in qs \X {e}
    <3>1. ASSUME p \in qs \X {e}  PROVE Firm(p)'
      <4>1. p[1] \in Queue /\ p[1] \in Bound(1) /\ p[2] = e  BY <3>1 DEF Bound
      <4>2. 0 \in 0 .. MaxRetries + 1  BY DEF ConsumerAssumption
      <4>3. PICK c \in Copy : c[1] = p[1] /\ c[2] = p[2] /\ c[3] = 0
        <5>1. <<p[1], p[2], 0>> \in Copy  BY <4>1, <4>2, CopyParts
        <5> QED  BY <5>1
      <4>4. Ready(c)'  BY <2>3, <4>1, <4>3 DEF Ready
      <4> QED  BY <1>1, <1>2, <4>3, <4>4, FirmFactsNext
    <3>2. Firm(p) => Firm(p)'
      <4>1. \A c \in Copy : Ready(c) => Ready(c)'  BY <2>2, <2>3 DEF Ready
      <4> QED  BY <1>1, <1>2, <1>4, <4>1, FirmFacts, FirmFactsNext
    <3>3. ASSUME Holds(p)'  PROVE Holds(p) \/ p \in qs \X {e}
      <4>1. CASE \E c \in Copy : c[1] = p[1] /\ c[2] = p[2] /\ Ready(c)'
        <5>1. PICK c \in Copy : c[1] = p[1] /\ c[2] = p[2] /\ Ready(c)'  BY <4>1
        <5>2. Ready(c) \/ (c[1] \in Bound(1) /\ c[2] = e)  BY <2>2, <2>3, <5>1 DEF Ready
        <5> QED  BY <1>1, <5>1, <5>2, FirmFacts, PairParts
      <4>2. CASE \E v \in Worker : Busy(v)' /\ ~task'[v].stale /\ Mark(v)' = p
        BY <1>1, <1>2, <1>4, <4>2, FirmFacts
      <4> QED  BY <1>1, <1>2, <3>3, <4>1, <4>2, FirmFactsNext
    <3> QED  BY <3>1, <3>2, <3>3
  <2>5. ASSUME NEW q \in Queue  PROVE <<q, e>> \notin Owed \cup Settled
    <3>1. e \notin published  BY <2>1 DEF Publish
    <3>2. ASSUME <<q, e>> \in Owed  PROVE FALSE
      <4>1. <<q, e>> \in Live \X Event /\ Holds(<<q, e>>)  BY <3>2 DEF Owed
      <4>2. PICK p \in Live \X Event : p[1] = q /\ p[2] = e /\ Holds(p)  BY <4>1
      <4>3. CASE \E c \in Copy : c[1] = p[1] /\ c[2] = p[2] /\ Ready(c)
        BY <1>1, <3>1, <4>2, <4>3 DEF Origins
      <4>4. CASE \E w \in Worker : Busy(w) /\ ~task[w].stale /\ Mark(w) = p
        <5>1. PICK w \in Worker : Busy(w) /\ Mark(w) = p  BY <4>4
        <5>2. EventAt(w) = e  BY <4>2, <5>1 DEF Mark
        <5>3. EventAt(w) \in published  BY <1>1, <5>1 DEF Origins
        <5> QED  BY <3>1, <5>2, <5>3
      <4> QED  BY <1>1, <4>2, <4>3, <4>4, FirmFacts
    <3>3. ASSUME <<q, e>> \in Settled  PROVE FALSE
      <4>1. PICK p \in Live \X Event : /\ p[1] = q /\ p[2] = e
                                       /\ handled[p] > 0 \/ \E c \in dead : p = <<c[1], c[2]>>
        BY <3>3 DEF Settled
      <4>2. p \in Queue \X Event  BY <1>1, PairParts
      <4>3. handled[p] > 0 => p[2] \in published  BY <1>1, <4>2 DEF Origins
      <4>4. \A c \in dead : c[2] \in published  BY <1>1 DEF Origins
      <4>5. CASE handled[p] > 0  BY <3>1, <4>1, <4>3, <4>5
      <4>6. CASE \E c \in dead : p = <<c[1], c[2]>>
        <5>1. PICK c \in dead : p = <<c[1], c[2]>>  BY <4>6
        <5>2. c[2] = e  BY <4>1, <5>1
        <5> QED  BY <3>1, <4>4, <5>2
      <4> QED  BY <4>1, <4>5, <4>6
    <3> QED  BY <3>2, <3>3
  <2>6. qs \X {e} \in SUBSET (Live \X Event) /\ qs \in SUBSET Queue  BY <1>3
  <2>7. Owed' = (Owed \cup (qs \X {e})) \ Settled' /\ HeldFirmly'
    <3> HIDE DEF qs
    <3> QED  BY <1>1, <1>2, <1>3, <2>4, <2>6, OwedAfter
  <2>8. Owed' = Owed \cup (qs \X {e})
    <3>1. (qs \X {e}) \cap Settled = {}  BY <2>5, <2>6
    <3>2. Owed \cap Settled = {}  BY DEF Owed
    <3> HIDE DEF qs
    <3> QED  BY <1>3, <2>7, <3>1, <3>2
  <2>9. Promise!Publish
    <3> HIDE DEF qs
    <3> QED  BY <1>3, <2>5, <2>6, <2>8 DEF Promise!Publish
  <2> QED  BY <2>7, <2>9 DEF Kept, Promise!Next
<1>7. CASE \E c \in Copy : Expire(c)
  <2>1. PICK c \in Copy : Expire(c)  BY <1>7
  <2> DEFINE qs == Bound(1) \cap Live
  <2>2. /\ main \in [Copy -> Nat] /\ retry \in [Copy -> Nat] /\ retry[c] > 0
        /\ main' = Routed(main, Bound(1), c[2], c[3])
        /\ retry' = [retry EXCEPT ![c] = retry[c] - 1]
        /\ c[1] \in Queue /\ c[2] \in Event
    BY <1>1, <2>1, CopyParts DEF Expire, TypeOK
  <2>3. /\ \A d \in Copy : d[1] \in Bound(1) /\ d[2] = c[2] /\ d[3] = c[3] => main'[d] > 0
        /\ \A d \in Copy : main[d] > 0 => main'[d] > 0
        /\ \A d \in Copy : main'[d] > 0 => main[d] > 0 \/ (d[1] \in Bound(1) /\ d[2] = c[2])
        /\ \A d \in Copy : retry'[d] > 0 => retry[d] > 0
        /\ \A d \in Copy : d # c /\ retry[d] > 0 => retry'[d] > 0
    BY <2>2, RoutedFacts
  <2>4. c[1] \in Bound(1)
    <3>1. bound[c[1]] >= 2  BY <1>1, <2>2 DEF Origins
    <3>2. bound[c[1]] \in 0 .. 3  BY <1>1, <2>2 DEF TypeOK
    <3> QED  BY <2>2, <3>1, <3>2 DEF Bound
  <2>5. ASSUME NEW p \in Live \X Event
        PROVE  /\ Firm(p) \/ p \in qs \X {c[2]} => Firm(p)'
               /\ Holds(p)' => Holds(p) \/ p \in qs \X {c[2]}
    <3>1. ASSUME p \in qs \X {c[2]}  PROVE Firm(p)'
      <4>1. p[1] \in Queue /\ p[1] \in Bound(1) /\ p[2] = c[2]  BY <3>1 DEF Bound
      <4>2. PICK d \in Copy : d[1] = p[1] /\ d[2] = p[2] /\ d[3] = c[3]
        <5>1. <<p[1], p[2], c[3]>> \in Copy  BY <2>2, <4>1, CopyParts
        <5> QED  BY <5>1
      <4>3. Ready(d)'  BY <2>3, <4>1, <4>2 DEF Ready
      <4> QED  BY <1>1, <1>2, <4>2, <4>3, FirmFactsNext
    <3>2. ASSUME Firm(p)  PROVE Firm(p)'
      <4>1. CASE \E d \in Copy : d[1] = p[1] /\ d[2] = p[2] /\ Ready(d)
        <5>1. PICK d \in Copy : d[1] = p[1] /\ d[2] = p[2] /\ Ready(d)  BY <4>1
        <5>2. CASE d = c
          <6>1. p \in qs \X {c[2]}  BY <2>4, <5>1, <5>2, PairParts
          <6> QED  BY <3>1, <6>1
        <5>3. CASE d # c
          <6>1. Ready(d)'  BY <2>3, <5>1, <5>3 DEF Ready
          <6> QED  BY <1>1, <1>2, <5>1, <6>1, FirmFactsNext
        <5> QED  BY <5>2, <5>3
      <4>2. CASE \E v \in Worker : /\ task[v].stage \notin {"idle", "routed", "parked"}
                                  /\ ~task[v].stale /\ Mark(v) = p
        BY <1>1, <1>2, <1>4, <4>2, FirmFactsNext
      <4> QED  BY <1>1, <3>2, <4>1, <4>2, FirmFacts
    <3>3. ASSUME Holds(p)'  PROVE Holds(p) \/ p \in qs \X {c[2]}
      <4>1. CASE \E d \in Copy : d[1] = p[1] /\ d[2] = p[2] /\ Ready(d)'
        <5>1. PICK d \in Copy : d[1] = p[1] /\ d[2] = p[2] /\ Ready(d)'  BY <4>1
        <5>2. Ready(d) \/ (d[1] \in Bound(1) /\ d[2] = c[2])  BY <2>3, <5>1 DEF Ready
        <5> QED  BY <1>1, <5>1, <5>2, FirmFacts, PairParts
      <4>2. CASE \E v \in Worker : Busy(v)' /\ ~task'[v].stale /\ Mark(v)' = p
        BY <1>1, <1>2, <1>4, <4>2, FirmFacts
      <4> QED  BY <1>1, <1>2, <3>3, <4>1, <4>2, FirmFactsNext
    <3> QED  BY <3>1, <3>2, <3>3
  <2>6. \E q \in Live : <<q, c[2]>> \in Owed \cup Settled
    BY <2>2 DEF WorkIsOwed
  <2>7. qs \in SUBSET Live  OBVIOUS
  <2> HIDE DEF qs
  <2> QED  BY <1>1, <1>2, <1>3, <2>2, <2>5, <2>6, <2>7, SharedKept
<1> QED  BY <1>5, <1>6, <1>7

\* What was owed or settled still is.
LEMMA KeptGrows ==
  ASSUME Kept
  PROVE  Owed \cup Settled \subseteq Owed' \cup Settled'
BY DEF Kept, Promise!Next, Promise!Publish, Promise!Settle, Promise!Share

\* A callback goes on with its message or takes one that is ready.
Follows(v) ==
  \/ Busy(v) /\ task'[v].copy = task[v].copy
  \/ \E c \in Copy : main[c] > 0 /\ c[1] = serves[v] /\ task'[v].copy = c

LEMMA CallbackFollows ==
  ASSUME Sound, NEW w \in Worker, Stays(w) \/ Leaves(w) \/ Sends(w)
  PROVE  /\ UNCHANGED serves
         /\ \A v \in Worker : Busy(v)' => Follows(v)
         /\ \A c \in Copy : retry'[c] > 0 => retry[c] > 0 \/ c[2] = EventAt(w)
<1>1. TypeOK /\ TypeOK' /\ Busy(w)  BY StaysType, LeavesType, SendsType DEF Sound
<1>2. CASE Stays(w)
  <2>1. UNCHANGED <<serves, retry>>
    BY <1>2 DEF Stays, Check, Handle, MarkProcessed, setup
  <2>2. \E s \in Stage \ {"idle"} : MoveTo(w, s)  BY <1>1, <1>2, StaysType
  <2> QED  BY <1>1, <2>1, <2>2, MoveToType, TypeParts DEF Follows, Busy
<1>3. CASE Leaves(w)
  <2>1. UNCHANGED <<serves, retry>>  BY <1>3 DEF Leaves, Ack, AckRouted, setup
  <2>2. CASE task' = [task EXCEPT ![w] = Idle]
    BY <1>1, <2>1, <2>2, IdleType, TypeParts DEF Follows, Busy
  <2>3. CASE Fail(w)
    BY <1>1, <2>1, <2>3, FailType DEF Follows, Busy
  <2> QED  BY <1>1, <1>3, <2>2, <2>3, LeavesType
<1>4. CASE Sends(w)
  <2>1. UNCHANGED serves  BY <1>1, <1>4, SendsType DEF setup
  <2>2. \A v \in Worker : Busy(v)' => Follows(v)
    <3>1. CASE task' = [task EXCEPT ![w] = Idle]
      BY <1>1, <2>1, <3>1, IdleType, TypeParts DEF Follows, Busy
    <3>2. CASE Fail(w)
      BY <1>1, <2>1, <3>2, FailType DEF Follows, Busy
    <3>3. CASE \E s \in {"routed", "parked"} : MoveTo(w, s)
      <4>1. \E s \in Stage \ {"idle"} : MoveTo(w, s)  BY <3>3 DEF Stage
      <4> QED  BY <1>1, <2>1, <4>1, MoveToType, TypeParts DEF Follows, Busy
    <3> QED  BY <1>1, <1>4, <3>1, <3>2, <3>3, SendsType
  <2>3. \A c \in Copy : retry'[c] > 0 => retry[c] > 0 \/ c[2] = EventAt(w)
    <3>1. retry \in [Copy -> Nat]  BY <1>1 DEF TypeOK
    <3>2. retry' = retry \/ retry' = Routed(retry, Bound(2), EventAt(w), RetryCount(w) + 1)
      BY <1>1, <1>4, SendsType, SendOnFacts
    <3> QED  BY <3>1, <3>2, RoutedFacts
  <2> QED  BY <2>1, <2>2, <2>3
<1> QED  BY <1>2, <1>3, <1>4

LEMMA WorkStays ==
  ASSUME Sound, Sound', WorkIsOwed, Kept, UNCHANGED serves,
         \A v \in Worker : Busy(v)' => Follows(v),
         \A c \in Copy : retry'[c] > 0 =>
           retry[c] > 0 \/ \E w \in Worker : Busy(w) /\ c[2] = EventAt(w)
  PROVE  WorkIsOwed'
<1>1. TypeOK /\ TypeOK' /\ Live' = Live  BY DEF Sound, Live
<1>2. ASSUME NEW v \in Worker, Busy(v)'
      PROVE  Mark(v)' \in Owed' \cup Settled'
  <2>1. CASE Busy(v) /\ task'[v].copy = task[v].copy
    <3>1. Mark(v)' = Mark(v)  BY <2>1 DEF Mark, EventAt
    <3>2. Mark(v) \in Owed \cup Settled  BY <2>1 DEF WorkIsOwed
    <3> QED  BY <3>1, <3>2, KeptGrows
  <2>2. CASE \E c \in Copy : main[c] > 0 /\ c[1] = serves[v] /\ task'[v].copy = c
    <3>1. PICK c \in Copy : main[c] > 0 /\ c[1] = serves[v] /\ task'[v].copy = c  BY <2>2
    <3>2. Mark(v)' = <<c[1], c[2]>>  BY <3>1 DEF Mark, EventAt
    <3>3. c[2] \in Event /\ c[1] \in Live  BY <3>1, CopyParts DEF Live
    <3>4. PICK p \in Live \X Event : p = <<c[1], c[2]>> /\ p[1] = c[1] /\ p[2] = c[2]
      <4>1. <<c[1], c[2]>> \in Live \X Event  BY <3>3
      <4> QED  BY <4>1
    <3>5. Holds(p)  BY <1>1, <3>1, <3>4, FirmFacts DEF Ready
    <3>6. p \in Owed \cup Settled  BY <3>5 DEF Owed
    <3> QED  BY <3>2, <3>4, <3>6, KeptGrows
  <2> QED  BY <1>2, <2>1, <2>2 DEF Follows
<1>3. ASSUME NEW c \in Copy, retry'[c] > 0
      PROVE  \E q \in Live : <<q, c[2]>> \in Owed' \cup Settled'
  <2>1. \E q \in Live : <<q, c[2]>> \in Owed \cup Settled
    <3>1. CASE retry[c] > 0  BY <3>1 DEF WorkIsOwed
    <3>2. CASE \E w \in Worker : Busy(w) /\ c[2] = EventAt(w)
      <4>1. PICK w \in Worker : Busy(w) /\ c[2] = EventAt(w)  BY <3>2
      <4>2. Mark(w) \in Owed \cup Settled  BY <4>1 DEF WorkIsOwed
      <4> QED  BY <4>1, <4>2 DEF Mark, Live
    <3> QED  BY <1>3, <3>1, <3>2
  <2> QED  BY <2>1, KeptGrows
<1> QED  BY <1>1, <1>2, <1>3 DEF WorkIsOwed

LEMMA OwedStep ==
  ASSUME Sound, HeldFirmly, WorkIsOwed, [Next]_vars
  PROVE  Kept /\ WorkIsOwed'
<1>1. Sound'  BY SoundStep
<1>2. CASE \E w \in Worker : Stays(w) \/ Leaves(w) \/ Sends(w)
  <2>1. PICK w \in Worker : Stays(w) \/ Leaves(w) \/ Sends(w)  BY <1>2
  <2>2. Kept  BY <2>1, StaysKept, LeavesKept, SendsKept
  <2>3. Busy(w)  BY <2>1, StaysType, LeavesType, SendsType DEF Sound
  <2> QED  BY <1>1, <2>1, <2>2, <2>3, CallbackFollows, WorkStays
<1>3. CASE \E w \in Worker, c \in Copy : Deliver(w, c)
  <2>1. PICK w \in Worker, c \in Copy : Deliver(w, c)  BY <1>3
  <2>2. Kept  BY <2>1, DeliverKept
  <2>3. UNCHANGED <<serves, retry>> /\ main[c] > 0 /\ c[1] = serves[w]
    BY <2>1 DEF Deliver, setup
  <2>4. /\ task'[w] = [stage |-> "received", copy |-> c, stale |-> FALSE]
        /\ \A v \in Worker : v # w => task'[v] = task[v]
    BY <2>1, DeliverType DEF Sound
  <2>5. \A v \in Worker : Busy(v)' => Follows(v)
    BY <2>3, <2>4 DEF Busy, Follows
  <2> QED  BY <1>1, <2>2, <2>3, <2>5, WorkStays
<1>4. CASE \E q \in Queue, survive \in BOOLEAN : Disconnect(q, survive)
  <2>1. PICK q \in Queue, survive \in BOOLEAN : Disconnect(q, survive)  BY <1>4
  <2>2. Kept  BY <2>1, DisconnectKept
  <2>3. UNCHANGED <<serves, retry>>  BY <2>1, DisconnectType DEF Sound, setup
  <2>4. \A v \in Worker : Busy(v)' => Follows(v)
    BY <2>1, DisconnectType, IdleNotBusy DEF Sound, Busy, Follows
  <2> QED  BY <1>1, <2>2, <2>3, <2>4, WorkStays
<1>5. CASE \/ \E q \in Queue : DeclareQueue(q)
           \/ \E e \in Event, wellFormed \in BOOLEAN : Publish(e, wellFormed)
           \/ \E c \in Copy : Expire(c)
  <2>1. Kept  BY <1>5, BrokerKept
  <2>2. UNCHANGED <<serves, task>>  BY <1>5 DEF DeclareQueue, Publish, Expire, setup
  <2>3. \A c \in Copy : retry'[c] > 0 => retry[c] > 0
    BY <1>5 DEF DeclareQueue, Publish, Expire, Sound, TypeOK
  <2>4. \A v \in Worker : Busy(v)' => Follows(v)  BY <2>2 DEF Busy, Follows
  <2> QED  BY <1>1, <2>1, <2>2, <2>3, <2>4, WorkStays
<1>6. CASE UNCHANGED vars
  <2>1. UNCHANGED <<serves, main, retry, task, handled, dead>>  BY <1>6 DEF vars, setup
  <2>2. Settled' = Settled /\ Live' = Live  BY <2>1 DEF Settled, Live
  <2>3. Owed' = Owed /\ HeldFirmly'
    BY <2>1, <2>2 DEF Owed, Holds, Firm, HeldFirmly, Ready, EventAt
  <2>4. WorkIsOwed'  BY <2>1, <2>2, <2>3 DEF WorkIsOwed, Busy, Mark, EventAt
  <2> QED  BY <2>2, <2>3, <2>4 DEF Kept
<1> QED  BY <1>2, <1>3, <1>4, <1>5, <1>6 DEF Next, Proceed, Stays, Leaves, Sends

LEMMA InitOwed == Init => Promise!Init /\ HeldFirmly /\ WorkIsOwed
<1> SUFFICES ASSUME Init  PROVE Promise!Init /\ HeldFirmly /\ WorkIsOwed
  OBVIOUS
<1>1. TypeOK  BY InitSound DEF Sound
<1>2. (\A c \in Copy : ~Ready(c)) /\ \A w \in Worker : ~Busy(w)
  BY IdleNotBusy DEF Init, Ready, Busy
<1>3. \A p \in Live \X Event : ~Holds(p)  BY <1>1, <1>2, FirmFacts
<1>4. \A p \in Live \X Event : ~(handled[p] > 0) /\ dead = {}
  BY <1>1, PairParts DEF Init
<1>5. Owed = {} /\ Settled = {}  BY <1>3, <1>4 DEF Owed, Settled
<1>6. \A c \in Copy : ~(retry[c] > 0)  BY <1>2 DEF Ready
<1> QED  BY <1>2, <1>3, <1>5, <1>6 DEF Promise!Init, HeldFirmly, WorkIsOwed

-----------------------------------------------------------------------------
(* Dead letters *)

\* Failures are never forgotten.
LEMMA FailuresGrow ==
  ASSUME Sound, [Next]_vars
  PROVE  \A e \in Event : failures'[e] >= failures[e]
<1>1. TypeOK /\ \A e \in Event : failures[e] \in Nat  BY DEF Sound, TypeOK
<1>2. CASE failures' = failures  BY <1>1, <1>2
<1>3. CASE \E w \in Worker : Busy(w) /\ Fail(w)  BY <1>1, <1>3, FailFacts
<1> QED  BY <1>2, <1>3 DEF Next, Proceed, Check, Handle, MarkProcessed, Ack, Reroute, RerouteFails,
     AckRouted, Deliver, DeclareQueue, Disconnect, Publish, Expire, Busy, vars

LEMMA DeadLettersStep ==
  ASSUME Sound, DeadLetteredWhenExhausted, [Next]_vars
  PROVE  DeadLetteredWhenExhausted'
<1>1. TypeOK /\ TypeOK' /\ Counts  BY SoundStep DEF Sound
<1>2. \A e \in Event : failures'[e] >= failures[e]  BY FailuresGrow
<1>3. malformed \subseteq malformed'
  BY DEF Next, Proceed, Check, Handle, MarkProcessed, Ack, Reroute, RerouteFails, AckRouted,
     Deliver, DeclareQueue, Disconnect, Publish, Expire, vars, setup
<1>4. ASSUME NEW c \in dead'
      PROVE  \/ c \in dead
             \/ c[2] \in malformed
             \/ failures[c[2]] = MaxRetries + 1
  <2>1. CASE dead' = dead  BY <1>4, <2>1
  <2>2. CASE \E w \in Worker : Sends(w) /\ SendOn(w)
    <3>1. PICK w \in Worker : Sends(w) /\ SendOn(w)  BY <2>2
    <3>2. Busy(w) /\ EventAt(w) \in Event /\ RetryCount(w) \in 0 .. MaxRetries
      BY <1>1, <3>1, SendsType, BusyFacts
    <3>3. c \in dead \/ (/\ c[2] = EventAt(w)
                         /\ \/ task[w].stage = "poison"
                            \/ task[w].stage = "failing" /\ RetryCount(w) = MaxRetries)
      BY <1>1, <1>4, <3>1, <3>2, SendOnFacts
    <3>4. task[w].stage = "poison" => EventAt(w) \in malformed  BY <1>1 DEF Counts
    <3>5. task[w].stage = "failing" => RetryCount(w) < failures[EventAt(w)]
      BY <1>1 DEF Counts
    <3>6. failures[EventAt(w)] \in 0 .. MaxRetries + 1  BY <1>1, <3>2 DEF TypeOK
    <3> QED  BY <3>2, <3>3, <3>4, <3>5, <3>6
  <2> QED  BY <2>1, <2>2 DEF Next, Proceed, Check, Handle, MarkProcessed, Ack, Reroute,
       RerouteFails, AckRouted, Deliver, DeclareQueue, Disconnect, Publish, Expire, vars, Sends
<1>5. ASSUME NEW c \in dead'
      PROVE  c[2] \in malformed' \/ failures'[c[2]] = MaxRetries + 1
  <2>1. c[2] \in Event  BY <1>1, CopyParts DEF TypeOK
  <2>2. c[2] \in malformed \/ failures[c[2]] = MaxRetries + 1
    BY <1>4 DEF DeadLetteredWhenExhausted
  <2>3. failures'[c[2]] \in 0 .. MaxRetries + 1  BY <1>1, <2>1 DEF TypeOK
  <2> QED  BY <1>2, <1>3, <2>1, <2>2, <2>3
<1> QED  BY <1>5 DEF DeadLetteredWhenExhausted

-----------------------------------------------------------------------------
(* One copy, one handling *)

\* A callback that may still handle its message or send it on.
HoldsCopy(w) ==
  task[w].stage \in {"received", "handling", "handled", "acking", "failing", "poison"}

Waiting(c) == main[c] + retry[c]

\* An event that has not fanned out is in one place of each subscriber at most.
Single ==
  /\ \A c \in Copy : c[2] \notin fannedOut => Waiting(c) <= 1
  /\ \A c, d \in Copy : Waiting(c) > 0 /\ Waiting(d) > 0 /\ c[1] = d[1] /\ c[2] = d[2] =>
       c = d \/ c[2] \in fannedOut
  /\ \A c \in Copy, w \in Worker :
       Waiting(c) > 0 /\ HoldsCopy(w) /\ c[1] = serves[w] /\ c[2] = EventAt(w) =>
         c[2] \in fannedOut
  /\ \A v, w \in Worker :
       HoldsCopy(v) /\ HoldsCopy(w) /\ serves[v] = serves[w] /\ EventAt(v) = EventAt(w) =>
         v = w \/ EventAt(v) \in fannedOut

\* Such an event is handled again by nobody: the mark, or the callback about to set it, is there.
HandledOnce ==
  /\ \A w \in Worker : task[w].stage = "handling" =>
       handled[Mark(w)] = 0 \/ EventAt(w) \in fannedOut
  /\ \A p \in Queue \X Event : handled[p] > 0 =>
       \/ p[2] \in fannedOut
       \/ /\ handled[p] = 1
          /\ p \in marked \/ \E w \in Worker : task[w].stage = "handled" /\ Mark(w) = p

NoneStale == \A w \in Worker : ~task[w].stale

Faultless == faults = 0 => Single /\ HandledOnce /\ NoneStale

LEMMA WaitingType ==
  ASSUME TypeOK, NEW c \in Copy
  PROVE  Waiting(c) \in Nat /\ main[c] \in Nat /\ retry[c] \in Nat /\ (Waiting(c) > 0 <=> Ready(c))
BY DEF TypeOK, Waiting, Ready

LEMMA HoldsCopyBusy ==
  ASSUME NEW w \in Worker, HoldsCopy(w) PROVE Busy(w)
BY DEF HoldsCopy, Busy

\* Nothing is added: no copy to a queue, no message to a callback.
LEMMA SingleKept ==
  ASSUME TypeOK, TypeOK', Single, UNCHANGED serves, fannedOut \subseteq fannedOut',
         \A c \in Copy : c[2] \in fannedOut' \/ Waiting(c)' <= Waiting(c),
         \A w \in Worker : HoldsCopy(w)' => HoldsCopy(w) /\ task'[w].copy = task[w].copy
  PROVE  Single'
<1>. DEFINE W(c) == Waiting(c)   V(c) == Waiting(c)'
            H(w) == HoldsCopy(w)  I(w) == HoldsCopy(w)'
            e(w) == EventAt(w)  f(w) == EventAt(w)'
<1>1. \A c \in Copy : W(c) \in Nat /\ V(c) \in Nat
  BY WaitingType DEF TypeOK, Waiting
<1>2. \A c \in Copy : c[2] \in fannedOut' \/ V(c) <= W(c)
  OBVIOUS
<1>3. \A w \in Worker : I(w) => H(w) /\ f(w) = e(w)
  BY DEF EventAt
<1>4. /\ \A c \in Copy : c[2] \notin fannedOut => W(c) <= 1
      /\ \A c, d \in Copy : W(c) > 0 /\ W(d) > 0 /\ c[1] = d[1] /\ c[2] = d[2] =>
           c = d \/ c[2] \in fannedOut
      /\ \A c \in Copy, w \in Worker :
           W(c) > 0 /\ H(w) /\ c[1] = serves[w] /\ c[2] = e(w) => c[2] \in fannedOut
      /\ \A v, w \in Worker :
           H(v) /\ H(w) /\ serves[v] = serves[w] /\ e(v) = e(w) => v = w \/ e(v) \in fannedOut
  BY DEF Single
<1>. HIDE DEF W, V, H, I, e, f
<1>5. \A c \in Copy : c[2] \notin fannedOut' => V(c) <= 1
  BY <1>1, <1>2, <1>4
<1>6. \A c, d \in Copy : V(c) > 0 /\ V(d) > 0 /\ c[1] = d[1] /\ c[2] = d[2] =>
        c = d \/ c[2] \in fannedOut'
  BY <1>1, <1>2, <1>4
<1>7. \A c \in Copy, w \in Worker :
        V(c) > 0 /\ I(w) /\ c[1] = serves[w] /\ c[2] = f(w) => c[2] \in fannedOut'
  BY <1>1, <1>2, <1>3, <1>4
<1>8. \A v, w \in Worker :
        I(v) /\ I(w) /\ serves[v] = serves[w] /\ f(v) = f(w) => v = w \/ f(v) \in fannedOut'
  BY <1>1, <1>2, <1>3, <1>4
<1> QED  BY <1>5, <1>6, <1>7, <1>8 DEF Single, V, I, f

\* A delivery takes the one copy that was waiting.
LEMMA SingleDeliver ==
  ASSUME Sound, TypeOK', Single, NEW w \in Worker, NEW c \in Copy, Deliver(w, c)
  PROVE  Single'
<1>1. /\ TypeOK /\ c[1] = serves[w] /\ main[c] > 0
      /\ UNCHANGED <<serves, retry, fannedOut>> /\ main' = [main EXCEPT ![c] = main[c] - 1]
      /\ task[w].stage = "idle"
  BY DEF Deliver, Sound, setup
<1>2. /\ task'[w].copy = c
      /\ \A v \in Worker : v # w => task'[v] = task[v]
  <2>1. /\ task'[w] = [stage |-> "received", copy |-> c, stale |-> FALSE]
        /\ \A v \in Worker : v # w => task'[v] = task[v]
    BY DeliverType DEF Sound
  <2>. QED
    BY <2>1
<1>3. \A d \in Copy : Waiting(d)' = IF d = c THEN Waiting(d) - 1 ELSE Waiting(d)
  BY <1>1 DEF Waiting, TypeOK
<1>4. \A d \in Copy : Waiting(d) \in Nat
  BY <1>1, WaitingType
<1>5. Waiting(c) > 0
  BY <1>1, WaitingType DEF Ready
<1>. DEFINE W(d) == Waiting(d)   V(d) == Waiting(d)'
            H(v) == HoldsCopy(v)  I(v) == HoldsCopy(v)'
            e(v) == EventAt(v)  f(v) == EventAt(v)'
<1>6. \A v \in Worker : v # w => (I(v) <=> H(v)) /\ f(v) = e(v)
  BY <1>2 DEF HoldsCopy, EventAt
<1>7. f(w) = c[2]
  BY <1>2 DEF EventAt
<1>8. /\ \A d \in Copy : d[2] \notin fannedOut => W(d) <= 1
      /\ \A b, d \in Copy : W(b) > 0 /\ W(d) > 0 /\ b[1] = d[1] /\ b[2] = d[2] =>
           b = d \/ b[2] \in fannedOut
      /\ \A d \in Copy, v \in Worker :
           W(d) > 0 /\ H(v) /\ d[1] = serves[v] /\ d[2] = e(v) => d[2] \in fannedOut
      /\ \A u, v \in Worker :
           H(u) /\ H(v) /\ serves[u] = serves[v] /\ e(u) = e(v) => u = v \/ e(u) \in fannedOut
  BY DEF Single
<1>9. \A d \in Copy : V(d) = IF d = c THEN W(d) - 1 ELSE W(d)
  BY <1>3
<1>10. (\A d \in Copy : W(d) \in Nat) /\ W(c) > 0
  BY <1>4, <1>5
<1>. HIDE DEF W, V, H, I, e, f
<1>11. \A d \in Copy : d[2] \notin fannedOut => V(d) <= 1
  BY <1>8, <1>9, <1>10
<1>12. \A b, d \in Copy : V(b) > 0 /\ V(d) > 0 /\ b[1] = d[1] /\ b[2] = d[2] =>
         b = d \/ b[2] \in fannedOut
  BY <1>8, <1>9, <1>10
<1>13. \A d \in Copy, v \in Worker :
         V(d) > 0 /\ I(v) /\ d[1] = serves[v] /\ d[2] = f(v) => d[2] \in fannedOut
  <2>1. ASSUME NEW d \in Copy, V(d) > 0, d[1] = serves[w], d[2] = f(w), d[2] \notin fannedOut
        PROVE  FALSE
    <3>1. d = c
      BY <1>1, <1>7, <1>8, <1>9, <1>10, <2>1
    <3>2. W(c) <= 1 /\ W(c) \in Nat
      BY <1>8, <1>10, <2>1, <3>1
    <3>. QED
      BY <1>9, <2>1, <3>1, <3>2
  <2>2. ASSUME NEW d \in Copy, NEW v \in Worker, v # w, V(d) > 0, I(v), d[1] = serves[v],
               d[2] = f(v)
        PROVE  d[2] \in fannedOut
    <3>1. W(d) > 0
      BY <1>9, <1>10, <2>2
    <3>. QED
      BY <1>6, <1>8, <2>2, <3>1
  <2>. QED
    BY <2>1, <2>2
<1>14. \A u, v \in Worker :
         I(u) /\ I(v) /\ serves[u] = serves[v] /\ f(u) = f(v) => u = v \/ f(u) \in fannedOut
  <2>1. \A v \in Worker : v # w /\ I(v) /\ serves[v] = serves[w] /\ f(v) = f(w) => f(w) \in fannedOut
    BY <1>1, <1>6, <1>7, <1>8, <1>10
  <2>. QED
    BY <1>6, <1>8, <2>1
<1> QED  BY <1>1, <1>11, <1>12, <1>13, <1>14 DEF Single, V, I, f

\* A retry takes the place of the message that its callback gives up.
LEMMA SingleRetry ==
  ASSUME Sound, TypeOK', Single, NEW w \in Worker, Reroute(w),
         retry' = Routed(retry, Bound(2), EventAt(w), RetryCount(w) + 1),
         FanOut(Bound(2), EventAt(w))
  PROVE  Single'
<1>1. /\ TypeOK /\ Busy(w) /\ HoldsCopy(w) /\ UNCHANGED <<serves, main>>
  BY DEF Reroute, Sound, setup, Busy, HoldsCopy
<1>2. /\ ~HoldsCopy(w)' /\ \A v \in Worker : v # w => task'[v] = task[v]
  <2>1. \E s \in {"routed", "parked"} : MoveTo(w, s)
    BY DEF Reroute
  <2>2. PICK s \in {"routed", "parked"} : MoveTo(w, s)
    BY <2>1
  <2>3. s \in Stage \ {"idle"}
    BY DEF Stage
  <2>4. task'[w].stage = s /\ \A v \in Worker : v # w => task'[v] = task[v]
    BY <1>1, <2>2, <2>3, MoveToType, TypeParts
  <2>. QED
    BY <2>4 DEF HoldsCopy
<1>3. /\ serves[w] \in Bound(2) /\ EventAt(w) \in Event /\ RetryCount(w) + 1 \in Nat
      /\ fannedOut \subseteq fannedOut'
      /\ EventAt(w) \notin fannedOut' => \A q \in Bound(2) : q = serves[w]
  <2>1. bound[serves[w]] = 3 /\ serves[w] \in Queue /\ EventAt(w) \in Event /\ RetryCount(w) \in Nat
    BY <1>1, BusyFacts DEF Sound, Origins
  <2>2. serves[w] \in Bound(2)
    BY <2>1 DEF Bound
  <2>. QED
    BY <2>1, <2>2 DEF FanOut
<1>. DEFINE W(d) == Waiting(d)   V(d) == Waiting(d)'
            H(v) == HoldsCopy(v)  I(v) == HoldsCopy(v)'
            e(v) == EventAt(v)  f(v) == EventAt(v)'
            there(d) == d[1] \in Bound(2) /\ d[2] = EventAt(w) /\ d[3] = RetryCount(w) + 1
<1>4. \A d \in Copy : V(d) = IF there(d) THEN W(d) + 1 ELSE W(d)
  <2>1. \A d \in Copy : retry'[d] = IF there(d) THEN retry[d] + 1 ELSE retry[d]
    BY DEF Routed
  <2>. HIDE DEF there
  <2>. QED
    BY <1>1, <2>1 DEF Waiting, TypeOK
<1>5. \A d \in Copy : W(d) \in Nat
  BY <1>1, WaitingType
<1>6. \A v \in Worker : I(v) => v # w /\ H(v) /\ f(v) = e(v)
  BY <1>2 DEF HoldsCopy, EventAt
<1>7. /\ \A d \in Copy : d[2] \notin fannedOut => W(d) <= 1
      /\ \A b, d \in Copy : W(b) > 0 /\ W(d) > 0 /\ b[1] = d[1] /\ b[2] = d[2] =>
           b = d \/ b[2] \in fannedOut
      /\ \A d \in Copy, v \in Worker :
           W(d) > 0 /\ H(v) /\ d[1] = serves[v] /\ d[2] = e(v) => d[2] \in fannedOut
      /\ \A u, v \in Worker :
           H(u) /\ H(v) /\ serves[u] = serves[v] /\ e(u) = e(v) => u = v \/ e(u) \in fannedOut
  BY DEF Single
<1>8. H(w) /\ \A d \in Copy : there(d) => d[2] = e(w) /\ d[3] = RetryCount(w) + 1
                                          /\ (d[2] \notin fannedOut' => d[1] = serves[w])
  BY <1>1, <1>3
<1>9. \A b, d \in Copy : b[1] = d[1] /\ b[2] = d[2] /\ b[3] = d[3] => b = d
  BY CopyParts
<1>10. fannedOut \subseteq fannedOut'
  BY <1>3
<1>. HIDE DEF W, V, H, I, e, f, there
<1>11. \A d \in Copy : d[2] \notin fannedOut' /\ there(d) => W(d) = 0
  BY <1>5, <1>7, <1>8, <1>10
<1>12. \A d \in Copy : d[2] \notin fannedOut' => V(d) <= 1
  BY <1>4, <1>5, <1>7, <1>10, <1>11
<1>13. \A b, d \in Copy : V(b) > 0 /\ V(d) > 0 /\ b[1] = d[1] /\ b[2] = d[2] =>
         b = d \/ b[2] \in fannedOut'
  <2>1. ASSUME NEW b \in Copy, NEW d \in Copy, V(b) > 0, V(d) > 0, b[1] = d[1], b[2] = d[2],
               b[2] \notin fannedOut'
        PROVE  b = d
    <3>1. CASE there(b) /\ there(d)
      BY <1>8, <1>9, <2>1, <3>1
    <3>2. CASE there(b) /\ ~there(d)
      BY <1>4, <1>5, <1>7, <1>8, <1>10, <2>1, <3>2
    <3>3. CASE ~there(b) /\ there(d)
      BY <1>4, <1>5, <1>7, <1>8, <1>10, <2>1, <3>3
    <3>4. CASE ~there(b) /\ ~there(d)
      BY <1>4, <1>5, <1>7, <1>10, <2>1, <3>4
    <3>. QED
      BY <3>1, <3>2, <3>3, <3>4
  <2>. QED
    BY <2>1
<1>14. \A d \in Copy, v \in Worker :
         V(d) > 0 /\ I(v) /\ d[1] = serves[v] /\ d[2] = f(v) => d[2] \in fannedOut'
  <2>1. ASSUME NEW d \in Copy, NEW v \in Worker, V(d) > 0, I(v), d[1] = serves[v], d[2] = f(v),
               d[2] \notin fannedOut'
        PROVE  FALSE
    <3>1. CASE there(d)
      BY <1>6, <1>7, <1>8, <1>10, <2>1, <3>1
    <3>2. CASE ~there(d)
      BY <1>4, <1>6, <1>7, <1>10, <2>1, <3>2
    <3>. QED
      BY <3>1, <3>2
  <2>. QED
    BY <2>1
<1>15. \A u, v \in Worker :
         I(u) /\ I(v) /\ serves[u] = serves[v] /\ f(u) = f(v) => u = v \/ f(u) \in fannedOut'
  BY <1>6, <1>7, <1>10
<1> QED  BY <1>1, <1>12, <1>13, <1>14, <1>15 DEF Single, V, I, f

\* An event that is published was nowhere before.
LEMMA SinglePublish ==
  ASSUME Sound, TypeOK', Single, NEW e \in Event, NEW wellFormed \in BOOLEAN, Publish(e, wellFormed)
  PROVE  Single'
<1>1. /\ TypeOK /\ UNCHANGED <<serves, retry, task, fannedOut>> /\ e \notin published
      /\ main' = Routed(main, Bound(1), e, 0)
  BY DEF Publish, Sound
<1>2. \A d \in Copy : d[2] = e => Waiting(d) = 0
  BY <1>1, WaitingType DEF Sound, Origins
<1>3. \A w \in Worker : HoldsCopy(w) => EventAt(w) # e
  BY <1>1, HoldsCopyBusy DEF Sound, Origins
<1>. DEFINE W(d) == Waiting(d)   V(d) == Waiting(d)'
            there(d) == d[1] \in Bound(1) /\ d[2] = e /\ d[3] = 0
<1>4. \A d \in Copy : V(d) = IF there(d) THEN W(d) + 1 ELSE W(d)
  <2>1. \A d \in Copy : main'[d] = IF there(d) THEN main[d] + 1 ELSE main[d]
    BY <1>1 DEF Routed
  <2>. HIDE DEF there
  <2>. QED
    BY <1>1, <2>1 DEF Waiting, TypeOK
<1>5. \A d \in Copy : W(d) \in Nat
  BY <1>1, WaitingType
<1>6. /\ \A d \in Copy : d[2] \notin fannedOut => W(d) <= 1
      /\ \A b, d \in Copy : W(b) > 0 /\ W(d) > 0 /\ b[1] = d[1] /\ b[2] = d[2] =>
           b = d \/ b[2] \in fannedOut
      /\ \A d \in Copy, v \in Worker :
           W(d) > 0 /\ HoldsCopy(v) /\ d[1] = serves[v] /\ d[2] = EventAt(v) => d[2] \in fannedOut
  BY DEF Single
<1>7. \A b, d \in Copy : b[1] = d[1] /\ there(b) /\ there(d) => b = d
  BY CopyParts
<1>8. (\A d \in Copy : there(d) => d[2] = e) /\ \A d \in Copy : d[2] = e => W(d) = 0
  BY <1>2
<1>. HIDE DEF W, V, there
<1>9. \A d \in Copy : d[2] \notin fannedOut => V(d) <= 1
  BY <1>4, <1>5, <1>6, <1>8
<1>10. \A b, d \in Copy : V(b) > 0 /\ V(d) > 0 /\ b[1] = d[1] /\ b[2] = d[2] =>
         b = d \/ b[2] \in fannedOut
  <2>1. \A d \in Copy : V(d) > 0 /\ d[2] = e => there(d)
    BY <1>4, <1>8
  <2>2. \A d \in Copy : d[2] # e => V(d) = W(d)
    BY <1>4, <1>8
  <2>. QED
    BY <1>6, <1>7, <2>1, <2>2
<1>11. \A d \in Copy, v \in Worker :
         V(d) > 0 /\ HoldsCopy(v) /\ d[1] = serves[v] /\ d[2] = EventAt(v) => d[2] \in fannedOut
  BY <1>3, <1>4, <1>6, <1>8
<1>12. \A v \in Worker : (HoldsCopy(v)' <=> HoldsCopy(v)) /\ EventAt(v)' = EventAt(v)
  BY <1>1 DEF HoldsCopy, EventAt
<1> QED  BY <1>1, <1>9, <1>10, <1>11, <1>12 DEF Single, V

\* A copy that expires moves, unless it fans out.
LEMMA SingleExpire ==
  ASSUME Sound, TypeOK', Single, NEW c \in Copy, Expire(c)
  PROVE  Single'
<1>1. /\ TypeOK /\ UNCHANGED <<serves, task>> /\ retry[c] > 0
      /\ retry' = [retry EXCEPT ![c] = retry[c] - 1]
      /\ main' = Routed(main, Bound(1), c[2], c[3]) /\ FanOut(Bound(1), c[2])
  BY DEF Expire, Sound, setup
<1>2. c[1] \in Bound(1)
  <2>1. bound[c[1]] >= 2 /\ c[1] \in Queue /\ bound \in [Queue -> 0 .. 3]
    BY <1>1, CopyParts DEF Sound, Origins, TypeOK
  <2> QED  BY <2>1 DEF Bound
<1>3. /\ fannedOut \subseteq fannedOut'
      /\ c[2] \notin fannedOut' => \A q \in Bound(1) : q = c[1]
  BY <1>1, <1>2 DEF FanOut
<1>4. ASSUME NEW d \in Copy, d[2] \notin fannedOut'
      PROVE  Waiting(d)' <= Waiting(d)
  <2>1. /\ main[d] \in Nat /\ retry[d] \in Nat /\ retry[c] \in Nat
        /\ main'[d] = IF d[1] \in Bound(1) /\ d[2] = c[2] /\ d[3] = c[3] THEN main[d] + 1 ELSE main[d]
        /\ retry'[d] = IF d = c THEN retry[c] - 1 ELSE retry[d]
    BY <1>1 DEF Routed, TypeOK
  <2>2. d[1] \in Bound(1) /\ d[2] = c[2] /\ d[3] = c[3] => d = c
    BY <1>3, <1>4, CopyParts
  <2>3. CASE d = c
    BY <1>2, <2>1, <2>3 DEF Waiting
  <2>4. CASE d # c
    BY <2>1, <2>2, <2>4 DEF Waiting
  <2>. QED
    BY <2>3, <2>4
<1>5. \A w \in Worker : HoldsCopy(w)' => HoldsCopy(w) /\ task'[w].copy = task[w].copy
  BY <1>1 DEF HoldsCopy
<1> QED  BY <1>1, <1>3, <1>4, <1>5, SingleKept

\* Steps that handle and mark nothing.
LEMMA HandledKept ==
  ASSUME HandledOnce, fannedOut \subseteq fannedOut', UNCHANGED <<serves, handled, marked>>,
         \A w \in Worker :
           /\ task'[w].stage = "handling" => task[w].stage = "handling" /\ task'[w].copy = task[w].copy
           /\ task[w].stage = "handled" => task'[w].stage = "handled" /\ task'[w].copy = task[w].copy
  PROVE  HandledOnce'
<1>1. \A w \in Worker : task'[w].stage = "handling" =>
        handled[Mark(w)'] = 0 \/ EventAt(w)' \in fannedOut'
  BY DEF HandledOnce, Mark, EventAt
<1>2. ASSUME NEW p \in Queue \X Event, handled[p] > 0, p[2] \notin fannedOut'
      PROVE  /\ handled[p] = 1
             /\ p \in marked \/ \E w \in Worker : task'[w].stage = "handled" /\ Mark(w)' = p
  <2>1. /\ handled[p] = 1
        /\ p \in marked \/ \E w \in Worker : task[w].stage = "handled" /\ Mark(w) = p
    BY <1>2 DEF HandledOnce
  <2>2. ASSUME NEW w \in Worker, task[w].stage = "handled", Mark(w) = p
        PROVE  task'[w].stage = "handled" /\ Mark(w)' = p
    BY <2>2 DEF Mark, EventAt
  <2> QED  BY <2>1, <2>2
<1> QED  BY <1>1, <1>2 DEF HandledOnce

\* A callback between two awaits: with no fault only a handler's own exception fails it.
LEMMA StaysFaultless ==
  ASSUME Sound, Faultless, NEW w \in Worker, Stays(w), faults' = 0
  PROVE  Single' /\ HandledOnce' /\ NoneStale'
<1>1. /\ TypeOK /\ TypeOK' /\ Busy(w) /\ UNCHANGED <<main, retry, serves, fannedOut>> /\ faults = 0
  <2>1. faults \in Nat  BY DEF Sound, TypeOK
  <2> QED  BY <2>1, StaysType DEF Sound, Stays, Check, Handle, MarkProcessed, Fault, setup
<1>2. Single /\ HandledOnce /\ NoneStale
  BY <1>1 DEF Faultless
<1>3. PICK s \in Stage \ {"idle"} : MoveTo(w, s)
  BY <1>1, StaysType DEF Sound
<1>4. /\ task'[w].stage = s /\ task'[w].copy = task[w].copy /\ task'[w].stale = task[w].stale
      /\ \A v \in Worker : v # w => task'[v] = task[v]
  BY <1>1, <1>3, MoveToType, TypeParts
<1>5. HoldsCopy(w)
  BY DEF Stays, Check, Handle, MarkProcessed, HoldsCopy
<1>6. Single'
  <2>1. \A v \in Worker : HoldsCopy(v)' => HoldsCopy(v) /\ task'[v].copy = task[v].copy
    BY <1>4, <1>5 DEF HoldsCopy
  <2>2. \A c \in Copy : Waiting(c)' <= Waiting(c)
    BY <1>1, WaitingType DEF Waiting
  <2> QED  BY <1>1, <1>2, <2>1, <2>2, SingleKept
<1>7. NoneStale'
  BY <1>2, <1>4 DEF NoneStale
<1>8. /\ Mark(w) \in Queue \X Event /\ EventAt(w) \in Event /\ Mark(w)[2] = EventAt(w)
      /\ handled \in [Queue \X Event -> 0 .. 2]
      /\ \A v \in Worker : Mark(v)' = Mark(v) /\ EventAt(v)' = EventAt(v)
  <2>1. Mark(w) \in Queue \X Event /\ EventAt(w) \in Event
    BY <1>1, BusyFacts
  <2>2. \A v \in Worker : task'[v].copy = task[v].copy
    BY <1>4
  <2> QED  BY <1>1, <2>1, <2>2 DEF Mark, EventAt, TypeOK
\* Another callback has this message's mark only if the event has fanned out.
<1>9. ASSUME NEW v \in Worker, v # w, HoldsCopy(v), Mark(v) = Mark(w)
      PROVE  EventAt(w) \in fannedOut
  BY <1>2, <1>5, <1>9 DEF Single, Mark
<1>10. CASE Check(w)
  <2>1. UNCHANGED <<handled, marked, serves, fannedOut>> /\ task[w].stage = "received"
    BY <1>10 DEF Check, setup
  <2>2. CASE s # "handling"
    <3>1. \A v \in Worker :
            /\ task'[v].stage = "handling" => task[v].stage = "handling" /\ task'[v].copy = task[v].copy
            /\ task[v].stage = "handled" => task'[v].stage = "handled" /\ task'[v].copy = task[v].copy
      BY <1>4, <2>1, <2>2
    <3> QED  BY <1>1, <1>2, <1>6, <1>7, <2>1, <3>1, HandledKept
  <2>3. CASE s = "handling"
    <3>1. Mark(w) \notin marked
      <4>1. task'[w].stage = "handling"  BY <1>4, <2>3
      <4>2. ASSUME MoveTo(w, "acking") PROVE FALSE
        BY <1>1, <4>1, <4>2, MoveToType, TypeParts DEF Stage
      <4>3. ~Fault  BY <1>1 DEF Fault
      <4> QED  BY <1>10, <4>2, <4>3 DEF Check
    <3>2. handled[Mark(w)] = 0 \/ EventAt(w) \in fannedOut
      <4>1. ASSUME handled[Mark(w)] > 0, EventAt(w) \notin fannedOut PROVE FALSE
        <5>1. PICK v \in Worker : task[v].stage = "handled" /\ Mark(v) = Mark(w)
          BY <1>2, <1>8, <3>1, <4>1 DEF HandledOnce
        <5>2. v # w /\ HoldsCopy(v)  BY <2>1, <5>1 DEF HoldsCopy
        <5> QED  BY <1>9, <4>1, <5>1, <5>2
      <4>2. handled[Mark(w)] \in 0 .. 2  BY <1>8
      <4> QED  BY <4>1, <4>2
    <3>3. \A v \in Worker : task'[v].stage = "handling" =>
            handled'[Mark(v)'] = 0 \/ EventAt(v)' \in fannedOut'
      BY <1>1, <1>2, <1>4, <1>8, <2>1, <3>2 DEF HandledOnce
    <3>4. \A v \in Worker : task[v].stage = "handled" => task'[v].stage = "handled"
      BY <1>4, <2>1
    <3>5. HandledOnce'
      BY <1>2, <1>8, <2>1, <3>3, <3>4 DEF HandledOnce
    <3> QED  BY <1>6, <1>7, <3>5
  <2> QED  BY <2>2, <2>3
<1>11. CASE Handle(w)
  <2>1. UNCHANGED <<marked, serves, fannedOut>> /\ task[w].stage = "handling"
    BY <1>11 DEF Handle, setup
  <2>2. CASE Fail(w) /\ UNCHANGED handled
    <3>1. s # "handling"
      <4>1. MoveTo(w, "failing")  BY <2>2 DEF Fail
      <4>2. task'[w].stage = "failing"
        BY <1>1, <4>1, MoveToType, TypeParts DEF Stage
      <4> QED  BY <1>4, <4>2
    <3>2. \A v \in Worker :
            /\ task'[v].stage = "handling" => task[v].stage = "handling" /\ task'[v].copy = task[v].copy
            /\ task[v].stage = "handled" => task'[v].stage = "handled" /\ task'[v].copy = task[v].copy
      BY <1>4, <2>1, <3>1
    <3> QED  BY <1>1, <1>2, <1>6, <1>7, <2>1, <2>2, <3>2, HandledKept
  <2>3. CASE /\ MoveTo(w, "handled")
             /\ handled' = [handled EXCEPT ![Mark(w)] = UpTo(2, handled[Mark(w)] + 1)]
    <3>1. task'[w].stage = "handled"
      BY <1>1, <2>3, MoveToType, TypeParts DEF Stage
    <3>2. \A p \in Queue \X Event : p # Mark(w) => handled'[p] = handled[p]
      BY <1>8, <2>3
    <3>3. EventAt(w) \in fannedOut \/ handled'[Mark(w)] = 1
      <4>1. EventAt(w) \in fannedOut \/ handled[Mark(w)] = 0
        BY <1>2, <2>1 DEF HandledOnce
      <4>2. handled[Mark(w)] = 0 => handled'[Mark(w)] = 1
        BY <1>8, <2>3 DEF UpTo
      <4> QED  BY <4>1, <4>2
    <3>4. ASSUME NEW v \in Worker, task'[v].stage = "handling"
          PROVE  handled'[Mark(v)'] = 0 \/ EventAt(v)' \in fannedOut'
      <4>1. v # w /\ task[v].stage = "handling" /\ HoldsCopy(v)
        BY <1>4, <3>1, <3>4 DEF HoldsCopy
      <4>2. Busy(v) /\ Mark(v) \in Queue \X Event /\ Mark(v)[2] = EventAt(v)
        BY <1>1, <4>1, BusyFacts DEF Busy, Mark
      <4>3. CASE Mark(v) = Mark(w)
        BY <1>8, <1>9, <2>1, <4>1, <4>2, <4>3
      <4>4. CASE Mark(v) # Mark(w)
        BY <1>2, <1>8, <2>1, <3>2, <4>1, <4>2, <4>4 DEF HandledOnce
      <4> QED  BY <4>3, <4>4
    <3>5. ASSUME NEW p \in Queue \X Event, handled'[p] > 0, p[2] \notin fannedOut'
          PROVE  /\ handled'[p] = 1
                 /\ p \in marked' \/ \E v \in Worker : task'[v].stage = "handled" /\ Mark(v)' = p
      <4>1. CASE p = Mark(w)
        BY <1>8, <2>1, <3>1, <3>3, <3>5, <4>1
      <4>2. CASE p # Mark(w)
        <5>1. /\ handled'[p] = 1
              /\ p \in marked \/ \E v \in Worker : task[v].stage = "handled" /\ Mark(v) = p
          BY <1>2, <2>1, <3>2, <3>5, <4>2 DEF HandledOnce
        <5>2. \A v \in Worker : task[v].stage = "handled" => task'[v].stage = "handled"
          BY <1>4, <2>1
        <5> QED  BY <1>8, <2>1, <5>1, <5>2
      <4> QED  BY <4>1, <4>2
    <3>6. HandledOnce'
      BY <3>4, <3>5 DEF HandledOnce
    <3> QED  BY <1>6, <1>7, <3>6
  <2> QED  BY <1>11, <2>2, <2>3 DEF Handle
<1>12. CASE MarkProcessed(w)
  <2>1. /\ UNCHANGED <<serves, fannedOut, handled>> /\ task[w].stage = "handled"
        /\ MoveTo(w, "acking") /\ marked' = marked \cup {Mark(w)}
    <3>1. ~Fault  BY <1>1 DEF Fault
    <3> QED  BY <1>12, <3>1 DEF MarkProcessed, setup
  <2>2. task'[w].stage = "acking"
    BY <1>1, <2>1, MoveToType, TypeParts DEF Stage
  <2>3. \A v \in Worker : task'[v].stage = "handling" =>
          handled'[Mark(v)'] = 0 \/ EventAt(v)' \in fannedOut'
    BY <1>2, <1>4, <1>8, <2>1, <2>2 DEF HandledOnce
  <2>4. ASSUME NEW p \in Queue \X Event, handled'[p] > 0, p[2] \notin fannedOut'
        PROVE  /\ handled'[p] = 1
               /\ p \in marked' \/ \E v \in Worker : task'[v].stage = "handled" /\ Mark(v)' = p
    <3>1. /\ handled[p] = 1
          /\ p \in marked \/ \E v \in Worker : task[v].stage = "handled" /\ Mark(v) = p
      BY <1>2, <2>1, <2>4 DEF HandledOnce
    <3>2. ASSUME NEW v \in Worker, task[v].stage = "handled", Mark(v) = p
          PROVE  p \in marked' \/ (task'[v].stage = "handled" /\ Mark(v)' = p)
      BY <1>4, <1>8, <2>1, <3>2
    <3> QED  BY <2>1, <3>1, <3>2
  <2>5. HandledOnce'
    BY <2>3, <2>4 DEF HandledOnce
  <2> QED  BY <1>6, <1>7, <2>5
<1> QED  BY <1>10, <1>11, <1>12 DEF Stays

\* While there are no faults no connection goes, no message is stale, no publish raises.
LEMMA NoFault ==
  ASSUME Sound, Faultless, [Next]_vars, faults' = 0
  PROVE  /\ faults = 0 /\ Single /\ HandledOnce /\ NoneStale /\ ~Fault
         /\ ~\E q \in Queue, survive \in BOOLEAN : Disconnect(q, survive)
         /\ ~\E w \in Worker : RerouteFails(w)
<1>1. faults \in Nat  BY DEF Sound, TypeOK
<1>2. ~Fault  BY <1>1 DEF Fault
<1>3. ~\E q \in Queue, survive \in BOOLEAN : Disconnect(q, survive)
  BY <1>2 DEF Disconnect
<1>4. faults = 0 \/ \E w \in Worker : RerouteFails(w) /\ faults' = faults
  BY <1>1, <1>2, <1>3 DEF Next, Proceed, Check, Handle, MarkProcessed, Ack, Reroute, RerouteFails,
     AckRouted, Deliver, DeclareQueue, Publish, Expire, vars
<1>5. faults = 0  BY <1>4
<1>6. Single /\ HandledOnce /\ NoneStale  BY <1>5 DEF Faultless
<1>7. ~\E w \in Worker : RerouteFails(w)
  BY <1>2, <1>6 DEF RerouteFails, NoneStale
<1> QED  BY <1>2, <1>3, <1>5, <1>6, <1>7

\* A callback that acknowledges, or has sent its message on and does.
LEMMA LeavesFaultless ==
  ASSUME Sound, Single, HandledOnce, NoneStale, NEW w \in Worker, Leaves(w)
  PROVE  Single' /\ HandledOnce' /\ NoneStale'
<1>1. /\ TypeOK /\ TypeOK' /\ UNCHANGED <<main, retry, serves, fannedOut, handled, marked>>
      /\ task' = [task EXCEPT ![w] = Idle]
  BY LeavesType DEF Sound, NoneStale, Leaves, Ack, AckRouted, setup
<1>2. task'[w] = Idle /\ \A v \in Worker : v # w => task'[v] = task[v]
  BY <1>1, IdleType, TypeParts
<1>3. Idle.stage = "idle" /\ Idle.stale = FALSE  BY DEF Idle
<1>4. Single'
  <2>1. \A v \in Worker : HoldsCopy(v)' => HoldsCopy(v) /\ task'[v].copy = task[v].copy
    BY <1>2, <1>3 DEF HoldsCopy
  <2>2. \A c \in Copy : Waiting(c)' <= Waiting(c)
    BY <1>1, WaitingType DEF Waiting
  <2> QED  BY <1>1, <2>1, <2>2, SingleKept
<1>5. HandledOnce'
  <2>1. task[w].stage # "handled"  BY DEF Leaves, Ack, AckRouted
  <2>2. \A v \in Worker :
          /\ task'[v].stage = "handling" => task[v].stage = "handling" /\ task'[v].copy = task[v].copy
          /\ task[v].stage = "handled" => task'[v].stage = "handled" /\ task'[v].copy = task[v].copy
    BY <1>2, <1>3, <2>1
  <2> QED  BY <1>1, <2>2, HandledKept
<1>6. NoneStale'
  BY <1>2, <1>3 DEF NoneStale
<1> QED  BY <1>4, <1>5, <1>6

LEMMA RerouteFaultless ==
  ASSUME Sound, Single, HandledOnce, NoneStale, NEW w \in Worker, Reroute(w)
  PROVE  Single' /\ HandledOnce' /\ NoneStale'
<1>1. /\ TypeOK /\ TypeOK' /\ Busy(w) /\ UNCHANGED <<serves, handled, marked, main>>
      /\ task[w].stage \in {"failing", "poison"}
  BY SendsType DEF Sound, Sends, Reroute, setup
<1>2. PICK s \in {"routed", "parked"} : MoveTo(w, s)
  BY DEF Reroute
<1>3. /\ task'[w].stage = s /\ task'[w].copy = task[w].copy /\ task'[w].stale = task[w].stale
      /\ \A v \in Worker : v # w => task'[v] = task[v]
  <2>1. s \in Stage \ {"idle"}  BY DEF Stage
  <2> QED  BY <1>1, <1>2, <2>1, MoveToType, TypeParts
<1>4. \/ /\ retry' = Routed(retry, Bound(2), EventAt(w), RetryCount(w) + 1)
         /\ FanOut(Bound(2), EventAt(w))
      \/ retry' = retry /\ fannedOut' = fannedOut
  BY <1>1, SendOnFacts DEF Reroute
<1>5. fannedOut \subseteq fannedOut'
  BY <1>4 DEF FanOut
<1>6. Single'
  <2>1. CASE retry' = retry /\ fannedOut' = fannedOut
    <3>1. \A v \in Worker : HoldsCopy(v)' => HoldsCopy(v) /\ task'[v].copy = task[v].copy
      BY <1>3 DEF HoldsCopy
    <3>2. \A c \in Copy : Waiting(c)' <= Waiting(c)
      BY <1>1, <2>1, WaitingType DEF Waiting
    <3> QED  BY <1>1, <2>1, <3>1, <3>2, SingleKept
  <2> QED  BY <1>1, <1>4, <2>1, SingleRetry
<1>7. HandledOnce'
  <2>1. \A v \in Worker :
          /\ task'[v].stage = "handling" => task[v].stage = "handling" /\ task'[v].copy = task[v].copy
          /\ task[v].stage = "handled" => task'[v].stage = "handled" /\ task'[v].copy = task[v].copy
    BY <1>1, <1>3
  <2> QED  BY <1>1, <1>5, <2>1, HandledKept
<1>8. NoneStale'
  BY <1>3 DEF NoneStale
<1> QED  BY <1>6, <1>7, <1>8

LEMMA DeliverFaultless ==
  ASSUME Sound, Single, HandledOnce, NoneStale, NEW w \in Worker, NEW c \in Copy, Deliver(w, c)
  PROVE  Single' /\ HandledOnce' /\ NoneStale'
<1>1. /\ TypeOK' /\ task'[w] = [stage |-> "received", copy |-> c, stale |-> FALSE]
      /\ \A v \in Worker : v # w => task'[v] = task[v]
  BY DeliverType DEF Sound
<1>2. task'[w].stage = "received" /\ task'[w].stale = FALSE
  BY <1>1
<1>3. UNCHANGED <<serves, handled, marked, fannedOut>> /\ task[w].stage = "idle"
  BY DEF Deliver, setup
<1>4. \A v \in Worker :
        /\ task'[v].stage = "handling" => task[v].stage = "handling" /\ task'[v].copy = task[v].copy
        /\ task[v].stage = "handled" => task'[v].stage = "handled" /\ task'[v].copy = task[v].copy
  BY <1>1, <1>2, <1>3
<1>5. HandledOnce'
  BY <1>3, <1>4, HandledKept
<1>6. NoneStale'
  BY <1>1, <1>2 DEF NoneStale
<1> QED  BY <1>1, <1>5, <1>6, SingleDeliver

LEMMA BrokerFaultless ==
  ASSUME Sound, TypeOK', Single, HandledOnce, NoneStale,
         \/ \E q \in Queue : DeclareQueue(q)
         \/ \E e \in Event, wellFormed \in BOOLEAN : Publish(e, wellFormed)
         \/ \E c \in Copy : Expire(c)
         \/ UNCHANGED vars
  PROVE  Single' /\ HandledOnce' /\ NoneStale'
<1>1. UNCHANGED <<serves, handled, marked, task>> /\ fannedOut \subseteq fannedOut'
  BY DEF DeclareQueue, Publish, Expire, FanOut, vars, setup
<1>2. HandledOnce'
  BY <1>1, HandledKept
<1>3. NoneStale'
  BY <1>1 DEF NoneStale
<1>4. Single'
  <2>1. CASE UNCHANGED <<main, retry>> /\ fannedOut' = fannedOut
    <3>1. \A v \in Worker : HoldsCopy(v)' => HoldsCopy(v) /\ task'[v].copy = task[v].copy
      BY <1>1 DEF HoldsCopy
    <3>2. \A c \in Copy : Waiting(c)' <= Waiting(c)
      BY <2>1, WaitingType DEF Waiting, Sound
    <3> QED  BY <1>1, <2>1, <3>1, <3>2, SingleKept DEF Sound
  <2>2. CASE (\E q \in Queue : DeclareQueue(q)) \/ UNCHANGED vars
    BY <2>1, <2>2 DEF DeclareQueue, vars
  <2> QED  BY <2>2, SinglePublish, SingleExpire
<1> QED  BY <1>2, <1>3, <1>4

LEMMA FaultlessStep ==
  ASSUME Sound, Faultless, [Next]_vars
  PROVE  Faultless'
<1> SUFFICES ASSUME faults' = 0  PROVE Single' /\ HandledOnce' /\ NoneStale'
  BY DEF Faultless
<1>1. TypeOK'  BY SoundStep DEF Sound
<1>2. /\ Single /\ HandledOnce /\ NoneStale
      /\ ~\E q \in Queue, survive \in BOOLEAN : Disconnect(q, survive)
      /\ ~\E w \in Worker : RerouteFails(w)
  BY NoFault
<1>3. CASE \E w \in Worker : Stays(w)  BY <1>3, StaysFaultless
<1>4. CASE \E w \in Worker : Leaves(w)  BY <1>2, <1>4, LeavesFaultless
<1>5. CASE \E w \in Worker : Reroute(w)  BY <1>2, <1>5, RerouteFaultless
<1>6. CASE \E w \in Worker, c \in Copy : Deliver(w, c)  BY <1>2, <1>6, DeliverFaultless
<1>7. CASE \/ \E q \in Queue : DeclareQueue(q)
           \/ \E e \in Event, wellFormed \in BOOLEAN : Publish(e, wellFormed)
           \/ \E c \in Copy : Expire(c)
           \/ UNCHANGED vars
  BY <1>1, <1>2, <1>7, BrokerFaultless
<1> QED  BY <1>2, <1>3, <1>4, <1>5, <1>6, <1>7 DEF Next, Proceed, Stays, Leaves

LEMMA InitFaultless == Init => Faultless
<1> SUFFICES ASSUME Init  PROVE Single /\ HandledOnce /\ NoneStale
  BY DEF Faultless
<1>1. /\ main = [c \in Copy |-> 0] /\ retry = [c \in Copy |-> 0]
      /\ task = [w \in Worker |-> Idle] /\ handled = [p \in Queue \X Event |-> 0]
  BY DEF Init
<1>2. \A c \in Copy : Waiting(c) = 0  BY <1>1 DEF Waiting
<1>3. \A w \in Worker : task[w].stage = "idle" /\ task[w].stale = FALSE  BY <1>1 DEF Idle
<1>4. Single  BY <1>2, <1>3 DEF Single, HoldsCopy
<1>5. HandledOnce  BY <1>1, <1>3 DEF HandledOnce
<1> QED  BY <1>3, <1>4, <1>5 DEF NoneStale

-----------------------------------------------------------------------------
(* Theorems *)

LEMMA SpecSound == Spec => []Sound
<1>1. Init => Sound  BY InitSound
<1>2. Sound /\ [Next]_vars => Sound'  BY SoundStep
<1> QED  BY <1>1, <1>2, PTL DEF Spec

(* Queues, callbacks, marks and counters stay in their types: in particular no callback *)
(* works on a copy whose count exceeds MAX_RETRIES, however retries and requeues mix.   *)
THEOREM ConsumerTypeOK == Spec => []TypeOK
<1>1. Sound => TypeOK  BY DEF Sound
<1> QED  BY <1>1, SpecSound, PTL

(* _handle_failure dead-letters a well-formed event only when its handling has failed   *)
(* MAX_RETRIES + 1 times, over all its copies, lost connections and requeues.           *)
THEOREM ConsumerDeadLetters == Spec => []DeadLetteredWhenExhausted
<1>1. Init => DeadLetteredWhenExhausted  BY DEF Init, DeadLetteredWhenExhausted
<1>2. Sound /\ DeadLetteredWhenExhausted /\ [Next]_vars => DeadLetteredWhenExhausted'
  BY DeadLettersStep
<1> QED  BY <1>1, <1>2, SpecSound, PTL DEF Spec

(* Marks keep single copies apart: only a fault, or a retry that reached the queues of  *)
(* several subscribers, lets a handler complete an event twice, whatever callbacks      *)
(* interleave and fail.                                                                 *)
THEOREM ConsumerRepeats == Spec => []RepeatsHaveCause
<1>1. Sound /\ Faultless => RepeatsHaveCause
  <2> SUFFICES ASSUME Sound, Faultless, NEW p \in Queue \X Event, handled[p] = 2, ~(faults > 0)
               PROVE  p[2] \in fannedOut
    BY DEF RepeatsHaveCause
  <2>1. faults = 0  BY DEF Sound, TypeOK
  <2> QED  BY <2>1 DEF Faultless, HandledOnce
<1>2. Init => Faultless  BY InitFaultless
<1>3. Sound /\ Faultless /\ [Next]_vars => Faultless'  BY FaultlessStep
<1> QED  BY <1>1, <1>2, <1>3, SpecSound, PTL DEF Spec

(* The consumers implement the safety of EventDelivery: whatever fails, an event owed   *)
(* to a subscriber leaves its queues and callbacks only handled or dead-lettered.       *)
THEOREM EventsStayOwed == Spec => Promise!Init /\ [][Promise!Next]_<<Owed, Settled>>
<1>1. Init => Promise!Init /\ HeldFirmly /\ WorkIsOwed  BY InitOwed
<1>2. Sound /\ HeldFirmly /\ WorkIsOwed /\ [Next]_vars =>
        HeldFirmly' /\ WorkIsOwed' /\ [Promise!Next]_<<Owed, Settled>>
  BY OwedStep DEF Kept
<1> QED  BY <1>1, <1>2, SpecSound, PTL DEF Spec

-----------------------------------------------------------------------------
(* Progress: what the settling of DeliveryKept rests on besides fairness *)

\* The steps a callback can still take from each stage, one to the next await.
AwaitsLeft(s) ==
  IF s = "received" THEN 6
  ELSE IF s = "handling" THEN 5
  ELSE IF s \in {"handled", "poison"} THEN 4
  ELSE IF s \in {"acking", "parked"} THEN 3
  ELSE IF s = "failing" THEN 2
  ELSE IF s = "routed" THEN 1
  ELSE 0

Shortens(w) == AwaitsLeft(task'[w].stage) < AwaitsLeft(task[w].stage)

CallbackStep ==
  \A w \in Worker :
    \/ task'[w] = task[w]
    \/ ~Busy(w) /\ task'[w].stage = "received"
    \/ Busy(w) /\ Shortens(w) /\ (Busy(w)' => task'[w].copy = task[w].copy)
    \/ /\ faults' = faults + 1 /\ task'[w].stage = task[w].stage
       /\ task'[w].copy = task[w].copy /\ task'[w].stale

\* Where a copy that turns up in a queue comes from.
NewlyPublished(c) == c[3] = 0 /\ c[2] \notin published /\ c[2] \in published'
Expired(c) == \E d \in Copy : d[2] = c[2] /\ d[3] = c[3] /\ retry'[d] < retry[d]
GivenBack(c) ==
  faults' = faults + 1 /\ \E w \in Worker : Busy(w) /\ ~task[w].stale /\ task[w].copy = c
Retried(c) ==
  /\ c[3] <= MaxRetries
  /\ \E w \in Worker : /\ task[w].stage = "failing" /\ EventAt(w) = c[2] /\ RetryCount(w) + 1 = c[3]
                       /\ task'[w].stage \in {"routed", "idle"}

CopyStep ==
  \A c \in Copy : /\ main'[c] > main[c] => NewlyPublished(c) \/ Expired(c) \/ GivenBack(c)
                  /\ retry'[c] > retry[c] => Retried(c)


LEMMA AwaitsValues ==
  /\ AwaitsLeft("received") = 6 /\ AwaitsLeft("handling") = 5
  /\ AwaitsLeft("handled") = 4 /\ AwaitsLeft("poison") = 4
  /\ AwaitsLeft("acking") = 3 /\ AwaitsLeft("parked") = 3
  /\ AwaitsLeft("failing") = 2 /\ AwaitsLeft("routed") = 1 /\ AwaitsLeft("idle") = 0
  /\ \A s \in Stage \ {"idle"} : AwaitsLeft(s) > 0
  /\ {"handling", "handled", "acking", "failing", "poison", "parked", "routed"}
       \subseteq Stage \ {"idle"}
BY DEF AwaitsLeft, Stage

(* Each step of a callback on its message leaves it less to do, whatever it raises, and *)
(* leaves the other callbacks alone.                                                    *)
LEMMA ActingShortens ==
  ASSUME TypeOK, NEW w \in Worker, Stays(w) \/ Leaves(w) \/ Sends(w)
  PROVE  /\ \A v \in Worker : v # w => task'[v] = task[v]
         /\ Busy(w) /\ Shortens(w) /\ (Busy(w)' => task'[w].copy = task[w].copy)
<1> DEFINE Goal == /\ \A v \in Worker : v # w => task'[v] = task[v]
                   /\ Busy(w) /\ Shortens(w) /\ (Busy(w)' => task'[w].copy = task[w].copy)
<1>1. Busy(w) /\ TaskTyped /\ UNCHANGED serves
  BY StaysType, LeavesType, SendsType, TypeParts
     DEF Stays, Leaves, Check, Handle, MarkProcessed, Ack, AckRouted, setup
<1>2. ASSUME NEW s \in Stage \ {"idle"}, MoveTo(w, s), AwaitsLeft(s) < AwaitsLeft(task[w].stage)
      PROVE  Goal
  BY <1>1, <1>2, MoveToType DEF Shortens
<1>3. ASSUME task' = [task EXCEPT ![w] = Idle] PROVE Goal
  <2>1. task[w].stage \in Stage \ {"idle"}
    BY <1>1, BusyFacts
  <2>2. AwaitsLeft(Idle.stage) < AwaitsLeft(task[w].stage)
    BY <2>1, AwaitsValues, IdleNotBusy
  <2>. QED
    BY <1>1, <1>3, <2>2, IdleType DEF Shortens
<1>4. ASSUME Fail(w), AwaitsLeft("failing") < AwaitsLeft(task[w].stage) PROVE Goal
  BY <1>2, <1>4, AwaitsValues DEF Fail
<1>. SUFFICES Goal
  OBVIOUS
<1>. HIDE DEF Goal
<1>5. CASE Check(w)
  BY <1>2, <1>4, <1>5, AwaitsValues DEF Check
<1>6. CASE Handle(w)
  BY <1>2, <1>4, <1>6, AwaitsValues DEF Handle
<1>7. CASE MarkProcessed(w)
  BY <1>2, <1>4, <1>7, AwaitsValues DEF MarkProcessed
<1>8. CASE Ack(w)
  BY <1>3, <1>4, <1>8, AwaitsValues DEF Ack
<1>9. CASE Reroute(w)
  BY <1>2, <1>9, AwaitsValues DEF Reroute
<1>10. CASE RerouteFails(w)
  BY <1>3, <1>4, <1>10, AwaitsValues DEF RerouteFails
<1>11. CASE AckRouted(w)
  BY <1>3, <1>4, <1>11, AwaitsValues DEF AckRouted
<1>. QED
  BY <1>5, <1>6, <1>7, <1>8, <1>9, <1>10, <1>11 DEF Stays, Leaves, Sends

(* A callback takes at most six steps on a message, from one await to the next, and     *)
(* never turns back: only a lost connection touches it from outside, to end it or to    *)
(* take its message away.                                                               *)
THEOREM CallbacksRunOut == Spec => [][CallbackStep]_vars
<1>1. ASSUME Sound, [Next]_vars PROVE CallbackStep
  <2>1. TypeOK
    BY <1>1 DEF Sound
  <2>2. CASE UNCHANGED task
    BY <2>2 DEF CallbackStep
  <2>3. ASSUME NEW q \in Queue, NEW survive \in BOOLEAN, Disconnect(q, survive) PROVE CallbackStep
    <3>1. faults' = faults + 1
      BY <2>3 DEF Disconnect, Fault
    <3>2. ASSUME NEW w \in Worker, Busy(w), task'[w] = Idle PROVE Shortens(w) /\ ~Busy(w)'
      <4>1. task[w].stage \in Stage \ {"idle"}
        BY <2>1, <3>2, BusyFacts
      <4>. QED
        BY <3>2, <4>1, AwaitsValues, IdleNotBusy DEF Shortens, Busy
    <3>. QED
      BY <2>1, <2>3, <3>1, <3>2, DisconnectType DEF CallbackStep
  <2>4. ASSUME NEW w \in Worker, NEW c \in Copy, Deliver(w, c) PROVE CallbackStep
    <3>1. /\ task'[w] = [stage |-> "received", copy |-> c, stale |-> FALSE]
          /\ \A v \in Worker : v # w => task'[v] = task[v]
      BY <1>1, <2>4, DeliverType DEF Sound
    <3>2. ~Busy(w)
      BY <2>4 DEF Deliver, Busy
    <3>3. task'[w].stage = "received"
      BY <3>1
    <3>. QED
      BY <3>1, <3>2, <3>3 DEF CallbackStep
  <2>5. ASSUME NEW w \in Worker, Stays(w) \/ Leaves(w) \/ Sends(w) PROVE CallbackStep
    BY <2>1, <2>5, ActingShortens DEF CallbackStep
  <2>6. ASSUME \/ \E q \in Queue : DeclareQueue(q)
               \/ \E e \in Event : \E wellFormed \in BOOLEAN : Publish(e, wellFormed)
               \/ \E c \in Copy : Expire(c)
               \/ UNCHANGED vars
        PROVE  UNCHANGED task
    BY <2>6 DEF DeclareQueue, Publish, Expire, vars
  <2>. QED
    BY <1>1, <2>2, <2>3, <2>4, <2>5, <2>6 DEF Next, Proceed, Stays, Leaves, Sends
<1>2. Sound /\ [Next]_vars => [CallbackStep]_vars  BY <1>1
<1>. QED  BY <1>2, SpecSound, PTL DEF Spec

(* The counts of copies only rise, and end at MAX_RETRIES: a main queue gains a copy    *)
(* with the count it had, from a publisher, a retry queue or a callback that a fault    *)
(* ended, and a retry queue one with the next count, by a callback that is done with it.*)
THEOREM RetriesCountUp == Spec => [][CopyStep]_vars
<1>1. ASSUME Sound, [Next]_vars PROVE CopyStep
  <2>1. TypeOK /\ main \in [Copy -> Nat] /\ retry \in [Copy -> Nat]
    BY <1>1 DEF Sound, TypeOK
  <2>2. ASSUME NEW queues \in [Copy -> Nat], NEW to, NEW e, NEW n, NEW c \in Copy,
               Routed(queues, to, e, n)[c] > queues[c]
        PROVE  c[2] = e /\ c[3] = n
    BY <2>2 DEF Routed
  <2>3. \A c \in Copy : ~(main[c] > main[c]) /\ ~(retry[c] > retry[c])
    BY <2>1
  <2>4. ASSUME NEW ws \in SUBSET Worker, NEW c \in Copy, Requeued(ws)[c] > main[c]
        PROVE  \E w \in ws : ~task[w].stale /\ task[w].copy = c
    <3>1. SUFFICES ASSUME {w \in ws : ~task[w].stale /\ task[w].copy = c} = {} PROVE FALSE
      OBVIOUS
    <3>2. Requeued(ws)[c] = main[c] + 0
      BY <3>1, FS_EmptySet DEF Requeued
    <3>. QED
      BY <2>1, <2>4, <3>2
  <2>5. CASE UNCHANGED <<main, retry>>
    BY <2>3, <2>5 DEF CopyStep
  <2>6. ASSUME NEW e \in Event, NEW wellFormed \in BOOLEAN, Publish(e, wellFormed) PROVE CopyStep
    <3>1. /\ main' = Routed(main, Bound(1), e, 0) /\ retry' = retry
          /\ e \notin published /\ e \in published'
      BY <2>6 DEF Publish
    <3>. QED
      BY <2>1, <2>2, <2>3, <3>1 DEF CopyStep, NewlyPublished
  <2>7. ASSUME NEW d \in Copy, Expire(d) PROVE CopyStep
    <3>1. /\ main' = Routed(main, Bound(1), d[2], d[3])
          /\ retry' = [retry EXCEPT ![d] = retry[d] - 1]
      BY <2>7 DEF Expire
    <3>2. retry'[d] < retry[d] /\ \A c \in Copy : ~(retry'[c] > retry[c])
      BY <2>1, <3>1
    <3>. QED
      BY <2>1, <2>2, <3>1, <3>2 DEF CopyStep, Expired
  <2>8. ASSUME NEW w \in Worker, NEW c \in Copy, Deliver(w, c) PROVE CopyStep
    <3>1. main' = [main EXCEPT ![c] = main[c] - 1] /\ retry' = retry
      BY <2>8 DEF Deliver
    <3>. QED
      BY <2>1, <2>3, <3>1 DEF CopyStep
  <2>9. ASSUME NEW q \in Queue, NEW survive \in BOOLEAN, Disconnect(q, survive) PROVE CopyStep
    <3>. DEFINE mine == {w \in Worker : serves[w] = q /\ Busy(w)}
    <3>1. main' = Requeued(mine) /\ retry' = retry
      BY <2>1, <2>9, DisconnectType
    <3>2. faults' = faults + 1
      BY <2>9 DEF Disconnect, Fault
    <3>3. mine \in SUBSET Worker /\ \A w \in mine : Busy(w)
      OBVIOUS
    <3>. HIDE DEF mine
    <3>. QED
      BY <2>3, <2>4, <3>1, <3>2, <3>3 DEF CopyStep, GivenBack
  <2>10. ASSUME NEW w \in Worker, Sends(w) PROVE CopyStep
    <3>1. Busy(w)
      BY <2>1, <2>10, SendsType
    <3>2. ASSUME NEW c \in Copy, main'[c] > main[c] PROVE GivenBack(c)
      <4>1. RerouteFails(w) /\ main' = Requeued({w})
        BY <2>1, <2>3, <2>10, <3>2, SendsType
      <4>2. ~task[w].stale /\ task[w].copy = c
        BY <2>4, <3>2, <4>1
      <4>3. faults' = faults + 1
        BY <4>1, <4>2 DEF RerouteFails, Fault
      <4>. QED
        BY <3>1, <4>2, <4>3 DEF GivenBack
    <3>3. ASSUME NEW c \in Copy, retry'[c] > retry[c] PROVE Retried(c)
      <4>1. /\ task[w].stage = "failing" /\ RetryCount(w) + 1 <= MaxRetries
            /\ retry' = Routed(retry, Bound(2), EventAt(w), RetryCount(w) + 1)
        BY <2>1, <2>3, <2>10, <3>1, <3>3, SendsType, SendOnFacts
      <4>2. c[2] = EventAt(w) /\ c[3] = RetryCount(w) + 1
        BY <2>1, <2>2, <3>3, <4>1
      <4>3. task'[w].stage \in {"routed", "idle"}
        <5>1. UNCHANGED serves /\ TaskTyped
          BY <2>1, <2>10, SendsType, TypeParts DEF setup
        <5>2. CASE Reroute(w)
          <6>1. MoveTo(w, "routed")
            BY <4>1, <5>2 DEF Reroute
          <6>. QED
            BY <3>1, <5>1, <6>1, MoveToType, AwaitsValues
        <5>3. CASE RerouteFails(w)
          <6>1. task' = [task EXCEPT ![w] = Idle]
            BY <4>1, <5>3 DEF RerouteFails
          <6>. QED
            BY <5>1, <6>1, IdleType, IdleNotBusy
        <5>. QED
          BY <2>10, <5>2, <5>3 DEF Sends
      <4>. QED
        BY <4>1, <4>2, <4>3 DEF Retried
    <3>. QED
      BY <3>2, <3>3 DEF CopyStep
  <2>11. ASSUME NEW w \in Worker, Stays(w) \/ Leaves(w) PROVE UNCHANGED <<main, retry>>
    BY <2>11 DEF Stays, Leaves, Check, Handle, MarkProcessed, Ack, AckRouted
  <2>12. ASSUME (\E q \in Queue : DeclareQueue(q)) \/ UNCHANGED vars PROVE UNCHANGED <<main, retry>>
    BY <2>12 DEF DeclareQueue, vars
  <2>. QED
    BY <1>1, <2>5, <2>6, <2>7, <2>8, <2>9, <2>10, <2>11, <2>12
       DEF Next, Proceed, Stays, Leaves, Sends
<1>2. Sound /\ [Next]_vars => [CopyStep]_vars  BY <1>1
<1>. QED  BY <1>2, SpecSound, PTL DEF Spec
=============================================================================
