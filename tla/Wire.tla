-------------------------------- MODULE Wire --------------------------------
(***************************************************************************)
(* Frames byte by byte: what the code generated from api.proto             *)
(* (src/api/api.rs) makes of the messages that the proxy and its clients   *)
(* exchange, and encode_response (src/handlers.rs) around it.              *)
(*                                                                         *)
(* The generated code of a message stands here as its table of fields; the *)
(* protobuf library it calls is external.  A message is a record of the    *)
(* fields that are given, and the others have their defaults               *)
(* (..Default::default()).  Messages nest once.  A text is the sequence    *)
(* that stands for it in RawAdv, and packed lists are always empty.        *)
(***************************************************************************)
EXTENDS RawAdv, Messages

Field(n, name, kind) ==
  [n |-> n, name |-> name, kind |-> kind, repeated |-> FALSE, of |-> <<>>]
Repeated(f)         == [f EXCEPT !.repeated = TRUE]
Uint(n, name)       == Field(n, name, "uint")
Sint(n, name)       == Field(n, name, "sint")
Text(n, name)       == Field(n, name, "bytes")
Nested(n, name, of) == [Field(n, name, "message") EXCEPT !.of = of]

-----------------------------------------------------------------------------
(* api.rs: the fields of the messages, in the order they are written in.   *)

\* DisconnectRequest, DisconnectResponse, PingRequest, PingResponse,
\* DeviceInfoRequest, ListEntitiesRequest, ListEntitiesDoneResponse and
\* SubscribeBluetoothConnectionsFreeRequest.
NoFields == <<>>

HelloRequestFields ==
  <<Text(1, "client_info"), Uint(2, "api_version_major"),
    Uint(3, "api_version_minor")>>

HelloResponseFields ==
  <<Uint(1, "api_version_major"), Uint(2, "api_version_minor"),
    Text(3, "server_info"), Text(4, "name")>>

ConnectRequestFields  == <<Text(1, "password")>>
ConnectResponseFields == <<Uint(1, "invalid_password")>>

AreaInfoFields   == <<Uint(1, "area_id"), Text(2, "name")>>
DeviceInfoFields == <<Uint(1, "device_id"), Text(2, "name"),
                      Uint(3, "area_id")>>

DeviceInfoResponseFields ==
  <<Uint(1, "uses_password"), Text(2, "name"), Text(3, "mac_address"),
    Text(4, "esphome_version"), Text(5, "compilation_time"), Text(6, "model"),
    Uint(7, "has_deep_sleep"), Text(8, "project_name"),
    Text(9, "project_version"), Uint(10, "webserver_port"),
    Uint(11, "legacy_bluetooth_proxy_version"),
    Uint(15, "bluetooth_proxy_feature_flags"), Text(12, "manufacturer"),
    Text(13, "friendly_name"), Uint(14, "legacy_voice_assistant_version"),
    Uint(17, "voice_assistant_feature_flags"), Text(16, "suggested_area"),
    Text(18, "bluetooth_mac_address"), Uint(19, "api_encryption_supported"),
    Repeated(Nested(20, "devices", DeviceInfoFields)),
    Repeated(Nested(21, "areas", AreaInfoFields)),
    Nested(22, "area", AreaInfoFields)>>

SubscribeAdvertsFields == <<Uint(1, "flags")>>

\* `key' is the field uuid.
ServiceDataFields ==
  <<Text(1, "key"), Text(2, "legacy_data"), Text(3, "data")>>

LegacyAdvertFields ==
  <<Uint(1, "address"), Text(2, "name"), Sint(3, "rssi"),
    Repeated(Text(4, "service_uuids")),
    Repeated(Nested(5, "service_data", ServiceDataFields)),
    Repeated(Nested(6, "manufacturer_data", ServiceDataFields)),
    Uint(7, "address_type")>>

RawAdvertisementFields ==
  <<Uint(1, "address"), Sint(2, "rssi"), Uint(3, "address_type"),
    Text(4, "data")>>

RawAdvertFields ==
  <<Repeated(Nested(1, "advertisements", RawAdvertisementFields))>>

ConnectionsFreeFields ==
  <<Uint(1, "free"), Uint(2, "limit"), Text(3, "allocated")>>

-----------------------------------------------------------------------------
(* The protobuf library; SubSize, SubBytes and SubMessage say what is made *)
(* of a message within a message.                                          *)

Varint(n) ==
  LET from[k \in Nat] == IF k < 128 THEN <<k>>
                         ELSE <<128 + (k % 128)>> \o from[k \div 128]
  IN from[n]

VarintSize(n) ==
  LET size[k \in Nat] == IF k < 128 THEN 1 ELSE 1 + size[k \div 128]
  IN size[n]

\* A small number of either sign as a small one without.
zigzag(n)   == IF n >= 0 THEN 2 * n ELSE -2 * n - 1
unzigzag(n) == IF n % 2 = 0 THEN n \div 2 ELSE -((n + 1) \div 2)

IsNumber(f) == f.kind \in {"uint", "sint"}
Tag(f)      == 8 * f.n + (IF IsNumber(f) THEN 0 ELSE 2)
Default(f)  == IF IsNumber(f) THEN 0 ELSE <<>>
Value(f, m) == IF f.name \in DOMAIN m THEN m[f.name] ELSE Default(f)

\* The values of a field that are written: not the default of a single one.
Written(f, m) ==
  IF f.repeated THEN Value(f, m)
  ELSE IF Value(f, m) = Default(f) THEN <<>> ELSE <<Value(f, m)>>

Total(numbers) == Number(1, numbers)

SizeOf(fields, m, SubSize(_, _)) ==
  LET size(f, v) ==
        LET len == IF f.kind = "message" THEN SubSize(f.of, v) ELSE Len(v)
        IN CASE f.kind = "uint" -> VarintSize(v)
             [] f.kind = "sint" -> VarintSize(zigzag(v))
             [] OTHER           -> VarintSize(len) + len
      all(f) ==
        LET w == Written(f, m)
        IN Total([i \in DOMAIN w |-> VarintSize(Tag(f)) + size(f, w[i])])
  IN Total([i \in DOMAIN fields |-> all(fields[i])])

BytesOf(fields, m, SubBytes(_, _)) ==
  LET prefixed(bytes) == Varint(Len(bytes)) \o bytes
      body(f, v) == CASE f.kind = "uint"    -> Varint(v)
                      [] f.kind = "sint"    -> Varint(zigzag(v))
                      [] f.kind = "bytes"   -> prefixed(v)
                      [] f.kind = "message" -> prefixed(SubBytes(f.of, v))
      all(f) ==
        LET w == Written(f, m)
        IN FlattenSeq([i \in DOMAIN w |-> Varint(Tag(f)) \o body(f, w[i])])
  IN FlattenSeq([i \in DOMAIN fields |-> all(fields[i])])

\* A varint ends in the first byte that has no continuation bit.
HasVarint(bytes) == \E k \in DOMAIN bytes : bytes[k] < 128

VarintEnd(bytes) ==
  CHOOSE k \in DOMAIN bytes :
    bytes[k] < 128 /\ \A j \in 1..(k - 1) : bytes[j] >= 128

\* The varint that bytes start with, seven bits of it in a byte and the least
\* significant ones first, and the bytes after it.
ReadVarint(bytes) ==
  LET k == VarintEnd(bytes)
  IN [value |-> Number(128, Reverse([j \in 1..k |-> bytes[j] % 128])),
      rest  |-> SubSeq(bytes, k + 1, Len(bytes))]

\* No field has this tag: the bytes are cut off.
Cut == [tag |-> 0, value |-> 0]

\* At most n of the values on the wire, each with its tag, in order.
FirstItems[n \in Nat] ==
  [bytes \in Bytes |->
    LET tag    == ReadVarint(bytes)
        arg    == ReadVarint(tag.rest)
        number == tag.value % 8 = 0
        length == IF number THEN 0 ELSE arg.value
    IN IF bytes = <<>> THEN <<>>
       ELSE IF n = 0 \/ ~HasVarint(bytes) THEN <<Cut>>
       ELSE IF ~HasVarint(tag.rest) \/ length > Len(arg.rest) THEN <<Cut>>
       ELSE <<[tag   |-> tag.value,
               value |-> IF number THEN arg.value
                         ELSE SubSeq(arg.rest, 1, length)]>>
              \o FirstItems[n - 1][SubSeq(arg.rest, length + 1, Len(arg.rest))]]

Items(bytes) == FirstItems[Len(bytes)][bytes]

\* The values that have this tag.
ValuesOf(tag, items) ==
  FlattenSeq([i \in DOMAIN items |->
                IF items[i].tag = tag THEN <<items[i].value>> ELSE <<>>])

\* The bytes are read as m, without a field that the reader does not know.  The
\* last value of a single field counts, and every one of a repeated field; a
\* field that is not there has its default.
IsReadAs(fields, bytes, m, SubIsReadAs(_, _, _)) ==
  \A items \in {Items(bytes)} :
    /\ \A i \in DOMAIN items : \E f \in ToSet(fields) : items[i].tag = Tag(f)
    /\ \A f \in ToSet(fields) : \A all \in {ValuesOf(Tag(f), items)} :
       \A got \in {IF f.repeated \/ all = <<>> THEN all ELSE <<Last(all)>>} :
       \A want \in {IF f.repeated THEN Value(f, m)
                    ELSE IF got = <<>> /\ Value(f, m) = Default(f) THEN <<>>
                    ELSE <<Value(f, m)>>} :
         /\ Len(got) = Len(want)
         /\ \A i \in DOMAIN got :
              CASE f.kind = "sint"    -> unzigzag(got[i]) = want[i]
                [] f.kind = "message" -> SubIsReadAs(f.of, got[i], want[i])
                [] OTHER              -> got[i] = want[i]

-----------------------------------------------------------------------------
(* The generated functions, which call themselves for a message within     *)
(* another one, and encode_response.                                       *)

\* Mutant: what a message within the message takes is not counted.
compute_size_flat(fields, m) ==
  LET zero(f, v) == 0 IN SizeOf(fields, m, zero)

compute_size(fields, m) ==
  LET outer(f, v) == 0
      inner(f, v) == SizeOf(f, v, outer)
  IN SizeOf(fields, m, inner)

write_to(fields, m) ==
  LET outer(f, v) == <<>>
      inner(f, v) == BytesOf(f, v, outer)
  IN BytesOf(fields, m, inner)

merge_from(fields, bytes, m) ==
  LET outer(f, b, v) == FALSE
      inner(f, b, v) == IsReadAs(f, b, v, outer)
  IN IsReadAs(fields, bytes, m, inner)

encode_response(msg_type, fields, m) ==
  <<0>> \o Varint(compute_size(fields, m)) \o Varint(msg_type)
    \o write_to(fields, m)

-----------------------------------------------------------------------------
(* handlers.rs: what is sent                                               *)

Word == <<76, 66>>   \* a text whose letters do not matter

hello_request ==
  [api_version_major |-> 1, api_version_minor |-> 10, server_info |-> Word,
   name |-> Word]

device_info_request ==
  [name |-> Word, mac_address |-> Word, esphome_version |-> Word,
   compilation_time |-> Word, model |-> Word,
   legacy_bluetooth_proxy_version |-> 5, bluetooth_proxy_feature_flags |-> 32,
   friendly_name |-> Word, bluetooth_mac_address |-> Word,
   api_encryption_supported |-> 0]

subscribe_bluetooth_connections_free_request == [free |-> 0, limit |-> 0]

-----------------------------------------------------------------------------
\* The frame of a message says how long it is, so that the next one is found,
\* and from it the other end reads the message.
ReadsBack(msg_type, fields, m) ==
  \A frame  \in {encode_response(msg_type, fields, m)} :
  \A length \in {ReadVarint(Tail(frame))} :
  \A type   \in {ReadVarint(length.rest)} :
    /\ length.value = Len(type.rest)
    /\ type.value = msg_type
    /\ merge_from(fields, type.rest, m)

\* Requests, replies and adverts come out of their frames as they went in, and
\* the next frame is found: negative signal strengths, fields at their defaults,
\* messages in messages and lengths of more than one byte included (compute_size,
\* write_to and merge_from under encode_response).
FramesReadBack ==
  /\ ReadsBack(HelloRequest, HelloRequestFields, [client_info |-> Word])
  /\ ReadsBack(ReplyTo(HelloRequest), HelloResponseFields, hello_request)
  /\ ReadsBack(ConnectRequest, ConnectRequestFields, [password |-> Word])
  /\ ReadsBack(ReplyTo(ConnectRequest), ConnectResponseFields, NoFields)
  /\ ReadsBack(PingRequest, NoFields, NoFields)
  /\ ReadsBack(ReplyTo(DeviceInfoRequest), DeviceInfoResponseFields,
               device_info_request)
  /\ ReadsBack(ReplyTo(ConnectionsFree), ConnectionsFreeFields,
               subscribe_bluetooth_connections_free_request)
  /\ \A flags \in {0, 1} :
       ReadsBack(SubscribeAdverts, SubscribeAdvertsFields, [flags |-> flags])
  /\ \A advert \in {build_advertisement} \ {NoAdvert} :
       /\ ReadsBack(LegacyAdvert, LegacyAdvertFields, advert.legacy)
       /\ ReadsBack(RawAdvert, RawAdvertFields,
                    [advertisements |-> <<advert.raw>>])
=============================================================================
