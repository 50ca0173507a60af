------------------------------ MODULE MCIOPool ------------------------------
(* A small instance of IOPool for TLC. *)
EXTENDS IOPool
=============================================================================
