------------------------------ MODULE MCServer ------------------------------
(* Instances of Server for TLC. *)
EXTENDS ServerProperties, TLC

CONSTANTS c1, c2

Req(t)    == [type |-> t, flags |-> 0, valid |-> TRUE]
Bad(t)    == [Req(t) EXCEPT !.valid = FALSE]
Sub(f)    == [Req(SubscribeAdverts) EXCEPT !.flags = f]
Unknown   == 8   \* a PingResponse: the server has no arm for it

\* Everything a session tells apart, for a single connection.
AllRequests ==
  {Req(t) : t \in Answered} \union
  {Sub(0), Sub(1), Req(UnsubscribeAdverts), Req(Unknown)} \union
  {Bad(HelloRequest), Bad(SubscribeAdverts)}

\* One request of each kind whose effects differ, for longer sessions.
CoreRequests ==
  {Req(PingRequest), Req(DisconnectRequest), Sub(0), Sub(3),
   Req(UnsubscribeAdverts), Bad(SubscribeAdverts)}

FewRequests == {Req(PingRequest), Sub(1), Req(DisconnectRequest)}

LiveRequests == {Req(ListEntitiesRequest), Sub(1), Req(DisconnectRequest)}

=============================================================================
