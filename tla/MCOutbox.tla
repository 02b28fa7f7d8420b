------------------------------ MODULE MCOutbox ------------------------------
(***************************************************************************)
(* The instance of Outbox for TLC: Outbox.cfg gives the constants values.  *)
(* It has liveness properties, so the pods are not declared symmetric.     *)
(***************************************************************************)
EXTENDS Outbox
=============================================================================
