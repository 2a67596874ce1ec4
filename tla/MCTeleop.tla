------------------------------- MODULE MCTeleop -------------------------------
(***************************************************************************)
(* Teleop on a small instance: speeds of -1, 0 and 1 increments.           *)
(***************************************************************************)
EXTENDS Teleop
=============================================================================
