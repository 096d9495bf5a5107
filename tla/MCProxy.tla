------------------------------ MODULE MCProxy ------------------------------
(* Instances of Proxy for TLC. *)
EXTENDS Proxy

CONSTANTS c1, d1

Sub == [type |-> SubscribeAdverts, flags |-> 1, valid |-> TRUE]
SubRequests == {Sub}
=============================================================================
