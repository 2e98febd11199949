---------------------------- MODULE MCResilience ----------------------------
(***************************************************************************)
(* Instance of Resilience: three tasks share a breaker that opens at two   *)
(* failures; the dependency goes down once and two tasks are cancelled.    *)
(***************************************************************************)
EXTENDS Resilience
=============================================================================
