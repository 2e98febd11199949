---------------------------- MODULE EventDelivery ----------------------------
(***************************************************************************)
(* What the RabbitMQ client promises to those who subscribe with it: an    *)
(* event published while a subscriber's queue exists stays owed to that    *)
(* subscriber until it is settled, that is handled or parked in the dead   *)
(* letters, and every event owed is settled in the end.  Handling it more  *)
(* than once is allowed.                                                   *)
(***************************************************************************)
CONSTANTS Queue, Event

VARIABLES
  owed,      \* pairs <<queue, event>> not handled and not dead-lettered yet
  settled    \* pairs handled or dead-lettered, for good

Init == owed = {} /\ settled = {}

\* An event is published once, to the queues there are.
Publish ==
  \E e \in Event, qs \in SUBSET Queue :
    /\ \A q \in Queue : <<q, e>> \notin owed \cup settled
    /\ owed' = owed \cup (qs \X {e})
    /\ settled' = settled

\* Handled by one subscriber, or dead-lettered by the broker for several.
Settle ==
  \E done \in SUBSET (Queue \X Event) :
    /\ owed \cap done # {}
    /\ settled' = settled \cup done
    /\ owed' = owed \ done

\* What one subscriber retries or gives up reaches the others too, late ones included.
Share ==
  \E e \in Event, qs \in SUBSET Queue :
    /\ \E p \in Queue : <<p, e>> \in owed \cup settled
    /\ \/ owed' = owed \cup ((qs \X {e}) \ settled) /\ settled' = settled
       \/ settled' = settled \cup (qs \X {e}) /\ owed' = owed \ (qs \X {e})

Next == Publish \/ Settle \/ Share

Spec == Init /\ [][Next]_<<owed, settled>> /\ WF_<<owed, settled>>(Settle)
=============================================================================
