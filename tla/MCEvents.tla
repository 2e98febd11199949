------------------------------ MODULE MCEvents ------------------------------
(***************************************************************************)
(* Instance of EventConsumer: two subscribers of one key and two deliveries*)
(* in progress, of one subscriber while the other is down, or one of each. *)
(***************************************************************************)
EXTENDS EventConsumer, TLC

CONSTANTS q1, q2, w1, w2

MCStaffing == {w1 :> q1 @@ w2 :> q1, w1 :> q1 @@ w2 :> q2}
=============================================================================
