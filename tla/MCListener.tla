----------------------------- MODULE MCListener -----------------------------
(* Instances of Listener for TLC. *)
EXTENDS ListenerProperties

CONSTANTS d1
=============================================================================
