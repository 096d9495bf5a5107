------------------------------ MODULE Messages ------------------------------
(***************************************************************************)
(* The ESPHome API messages the proxy exchanges with a client, reduced to  *)
(* their ids and to the fields the server looks at: what handle_client     *)
(* (src/server.rs) and the handlers (src/handlers.rs) tell apart.          *)
(***************************************************************************)
EXTENDS Integers, Sequences

(* Message ids: the arms of the match in handle_client, and the ids        *)
(* get_message_id returns for the messages the handlers answer with.       *)

HelloRequest        == 1
ConnectRequest      == 3
DisconnectRequest   == 5
PingRequest         == 7
DeviceInfoRequest   == 9
ListEntitiesRequest == 11
SubscribeAdverts    == 66
ConnectionsFree     == 80
UnsubscribeAdverts  == 87

Answered == {HelloRequest, ConnectRequest, DisconnectRequest, PingRequest,
             DeviceInfoRequest, ListEntitiesRequest, ConnectionsFree}

ListEntitiesDone   == 19
DisconnectResponse == 6
LegacyAdvert       == 67
RawAdvert          == 93

ReplyTo(t) == IF t = ListEntitiesRequest THEN ListEntitiesDone ELSE t + 1

\* A request: its id, the flags field of a subscription, and whether
\* parse_from_bytes accepts the payload.
Request == [type : Nat, flags : Nat, valid : BOOLEAN]

\* Requests whose encoding may have a payload; the rest are a bare header.
HasPayload(r) ==
  \/ ~r.valid
  \/ r.type \in {HelloRequest, ConnectRequest}
  \/ r.type = SubscribeAdverts /\ r.flags # 0

\* A frame written to a client: a reply (pos = -1) or an advert.
Frame    == [id : Nat, pos : Int]
Reply(t) == [id |-> ReplyTo(t), pos |-> -1]
NoFrame  == [id |-> 0, pos |-> -1]
IsAdvert(f) == f.id \in {LegacyAdvert, RawAdvert}

SubscriptionFlags == [regular : BOOLEAN, raw : BOOLEAN]
none == [regular |-> FALSE, raw |-> FALSE]

\* Mutant: the bit read the wrong way round.
from_flags_inverted(n) == [regular |-> n % 2 = 1, raw |-> n % 2 = 0]

\* Bit 0 asks for raw adverts.
from_flags(n) == [regular |-> n % 2 = 0, raw |-> n % 2 = 1]

\* The message an advert is forwarded in under flags f; raw comes first.
AdvertId(f) == IF f.raw THEN RawAdvert ELSE LegacyAdvert
=============================================================================
