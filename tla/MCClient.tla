------------------------------ MODULE MCClient ------------------------------
(***************************************************************************)
(* Instance of ContractClient: two writes and a read in threads of their   *)
(* own.  The threads of a kind are interchangeable, but liveness is checked*)
(* too, so no symmetry is used.                                            *)
(***************************************************************************)
EXTENDS ContractClient
=============================================================================
