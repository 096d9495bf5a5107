--------------------------- MODULE RawAdvProperties ---------------------------
(***************************************************************************)
(* What is required of RawAdv, in terms of what a client makes of the two  *)
(* forms of an advert: the reader of AD structures below is the Bluetooth  *)
(* Core Specification's (Vol 3, Part C, 11), not the proxy's.              *)
(***************************************************************************)
EXTENDS RawAdv

advert == build_advertisement
Built  == advert # NoAdvert

First(s, n)     == SubSeq(s, 1, n)
After(s, n)     == SubSeq(s, n + 1, Len(s))
Chunk(s, n, i)  == SubSeq(s, n * (i - 1) + 1, n * i)

\* The structures among the first n of a packet: a length, which counts the
\* type, a type and a payload; a length of zero or one that leaves the packet
\* ends it.
Read[n \in Nat] ==
  [data \in Bytes |->
     IF n = 0 \/ data = <<>> THEN {}
     ELSE IF data[1] = 0 \/ data[1] >= Len(data) THEN {}
     ELSE {[type |-> data[2], payload |-> SubSeq(data, 3, data[1] + 1)]}
            \union Read[n - 1][After(data, data[1] + 1)]]

Structures(data) == Read[Len(data)][data]

\* The payloads of the structures of a type.
Payloads(data, type) ==
  {s.payload : s \in {r \in Structures(data) : r.type = type}}

\* The 128-bit UUID an identifier stands for.
Expand(id) ==
  CASE Len(id) = 2  -> <<0, 0>> \o id \o BASE_UUID_SUFFIX
    [] Len(id) = 4  -> id \o BASE_UUID_SUFFIX
    [] Len(id) = 16 -> id

ReadUuids(data) ==
  UNION {UNION {{Expand(Reverse(Chunk(p, n, i))) : i \in 1..(Len(p) \div n)} :
                  p \in Payloads(data, ListType[n])} : n \in Sizes}

ReadServiceData(data) ==
  UNION {{[key |-> Expand(Reverse(First(p, n))), data |-> After(p, n)] :
            p \in Payloads(data, ServiceDataType[n])} : n \in Sizes}

ReadManufacturerData(data) ==
  {[key |-> p[1] + 256 * p[2], data |-> After(p, 2)] : p \in Payloads(data, 255)}

\* The n parts of an address, from its number.
Shown[n \in Nat] ==
  [number \in Nat |->
     IF n = 0 THEN <<>>
     ELSE Append(Shown[n - 1][number \div 256], PartOf(number % 256))]

Signed(byte) == IF byte < 128 THEN byte ELSE byte - 256

-----------------------------------------------------------------------------
\* No list of UUIDs is longer than the length of a structure can say.
ListsFit == \A n \in Sizes : Len(UuidBytes(Get("UUIDs", <<>>), n)) <= 254

\* Entries with a UUID that can be read.
Readable(dict) == {e \in ToSet(dict) : Len(e.key) = 16}

\* Every byte of the packet is one (the casts in push_ad and of tx_power).
TypeOK ==
  /\ DOMAIN props \subseteq Keys
  /\ \A k \in DOMAIN props : props[k] \in Values[k]
  /\ build_raw_advertisement_data \in Bytes

\* A client that subscribed to raw adverts and one that did not make the same
\* of an advert: its name, services, service data and manufacturer data, where
\* int(uuid, 16) is how aioesphomeapi reads a company's identifier (comment in
\* extract_service_data), as long as the lists of UUIDs fit their structures.
FormsAgree ==
  LET data   == advert.raw.data
      legacy == advert.legacy
  IN Built /\ ListsFit =>
       /\ Payloads(data, 9) \subseteq {legacy.name}
       /\ legacy.name # <<>> => Payloads(data, 9) # {}
       /\ ReadUuids(data) = {u \in ToSet(legacy.service_uuids) : Len(u) = 16}
       /\ ReadServiceData(data) = Readable(legacy.service_data)
       /\ ReadManufacturerData(data)
            = {[e EXCEPT !.key = Number(16, e.key)] :
                 e \in ToSet(legacy.manufacturer_data)}
       /\ \A f \in {"address", "address_type", "rssi"} :
            advert.raw[f] = legacy[f]

\* On the air no UUID is longer than it has to be: no 32-bit form of a 16-bit
\* UUID, no 128-bit form of either ("matching how such UUIDs are actually
\* encoded over the air", parse_uuid).
ShortestForm ==
  LET ids(n) == {Reverse(First(p, n)) : p \in UNION {
                   Payloads(build_raw_advertisement_data, t) :
                     t \in {ListType[n], ServiceDataType[n]}}}
  IN ListsFit =>
       /\ \A id \in ids(4)  : First(id, 2) # <<0, 0>>
       /\ \A id \in ids(16) : After(id, 4) # BASE_UUID_SUFFIX

\* The power a client reads is the one BlueZ has, sign included, or none if it
\* is not one a packet can carry (i8::try_from in build_raw_advertisement_data).
TxPowerReadsBack ==
  ListsFit =>
    {Signed(p[1]) : p \in Payloads(build_raw_advertisement_data, 10)}
      = {t \in {Get("TxPower", 128)} : t \in -128..127}

\* The number in an advert is the device's address, and what the proxy shows
\* of an adapter is the text BlueZ gave (parse_ble_address; parse_mac and
\* format_mac).
AddressReadsBack ==
  Built =>
    LET text == props["Address"]
    IN /\ text = Shown[MacLength][advert.legacy.address]
       /\ format_mac(parse_mac(text)) = text

\* "the payload bytes of service/manufacturer data are byte-exact" (comment on
\* build_raw_advertisement_data): they can be read back.
ByteExact ==
  LET data == build_raw_advertisement_data
  IN /\ ReadServiceData(data) = Readable(Get("ServiceData", <<>>))
     /\ ReadManufacturerData(data) = ToSet(Get("ManufacturerData", <<>>))
=============================================================================
