------------------------------- MODULE RawAdv -------------------------------
(***************************************************************************)
(* How BlueZ's properties of a device become an advert (build_advertisement*)
(* of src/ble.rs) and the bytes of its raw form (src/raw_adv.rs).          *)
(*                                                                         *)
(* BlueZ keeps the last value of every property it has heard, over all the *)
(* packets of a device, and drops RSSI and TX power when a scan ends: that *)
(* is the state.  The code is a function of it.  Bytes are numbers below   *)
(* 256 and have their real sizes.  A UUID's text is the sequence of its    *)
(* bytes (16 of them in a canonical text), a MAC's the sequence of its     *)
(* parts, two hexadecimal digits each.                                     *)
(***************************************************************************)
EXTENDS Integers, Sequences, SequencesExt, FiniteSets, Functions

CONSTANTS
  Values,    \* property name -> the values BlueZ may give it
  MacLength  \* parts of a MAC address

Byte  == 0..255
Bytes == Seq(Byte)
Digit == 0..15
UInt16 == 0..(256 * 256 - 1)   \* u16
Int16  == -(128 * 256)..(128 * 256 - 1)

Keys == {"Address", "AddressType", "RSSI", "Name", "UUIDs", "ServiceData",
         "ManufacturerData", "TxPower"}

Entry(Key) == [key : Key, data : Bytes]

\* The D-Bus types of the properties; a dictionary is the sequence of its
\* entries in the order in which it is walked.
Typed ==
  [Address          |-> [1..MacLength -> Digit \X Digit],
   AddressType      |-> {"public", "random"},
   RSSI             |-> Int16,
   Name             |-> Bytes,
   UUIDs            |-> Seq(Bytes),
   ServiceData      |-> Seq(Entry(Bytes)),
   ManufacturerData |-> Seq(Entry(UInt16)),
   TxPower          |-> Int16]

ASSUME RawAdvAssumption ==
  /\ MacLength \in 1..8   \* the number is a u64
  /\ DOMAIN Values = Keys
  /\ \A k \in Keys : \A v \in Values[k] : v \in Typed[k]

VARIABLE props   \* Device1's properties: a function on the names present

Init == props = <<>>

\* A packet of the device says v of the property k.
Heard(k, v) ==
  props' = [j \in DOMAIN props \union {k} |-> IF j = k THEN v ELSE props[j]]

\* The scan has ended.
Invalidated == props' = Restrict(props, DOMAIN props \ {"RSSI", "TxPower"})

Next == Invalidated \/ \E k \in Keys : \E v \in Values[k] : Heard(k, v)

Spec == Init /\ [][Next]_props

\* props.get(k), or `default' if there is none.
Get(k, default) == IF k \in DOMAIN props THEN props[k] ELSE default

-----------------------------------------------------------------------------
(* raw_adv.rs *)

BASE_UUID_SUFFIX == <<0, 0, 16, 0, 128, 0, 0, 128, 95, 155, 52, 251>>

\* Mutant: no 16-bit form.
parse_uuid_no_16(text) ==
  IF Len(text) # 16 THEN <<>>
  ELSE IF SubSeq(text, 5, 16) # BASE_UUID_SUFFIX THEN text
  ELSE SubSeq(text, 1, 4)

\* A ShortUuid is its 2, 4 or 16 bytes, most significant first; <<>> is None.
parse_uuid(text) ==
  IF Len(text) # 16 THEN <<>>
  ELSE IF SubSeq(text, 5, 16) # BASE_UUID_SUFFIX THEN text
  ELSE IF text[1] = 0 /\ text[2] = 0 THEN SubSeq(text, 3, 4)
  ELSE SubSeq(text, 1, 4)

\* Mutant: no cast of the length to a byte.
push_ad_uncast(type, payload) == <<Len(payload) + 1, type>> \o payload

\* The length counts the type and is cast to a byte.
push_ad(type, payload) == <<(Len(payload) + 1) % 256, type>> \o payload

\* A value came in one AD structure, the length of which was a byte; the UUIDs
\* alone are gathered from several.
ASSUME ReceivedAssumption ==
  /\ \A v \in Values["Name"] : Len(v) <= 254
  /\ \A v \in Values["ServiceData"] : \A e \in ToSet(v) :
       Len(parse_uuid(e.key)) + Len(e.data) <= 254
  /\ \A v \in Values["ManufacturerData"] : \A e \in ToSet(v) :
       Len(e.data) <= 252

\* The identifiers of n bytes among the UUIDs, each least significant byte
\* first; no list is pushed when there is none.
UuidBytes(uuids, n) ==
  FlattenSeq([i \in DOMAIN uuids |->
    LET id == parse_uuid(uuids[i]) IN IF Len(id) = n THEN Reverse(id) ELSE <<>>])

UuidList(uuids, n, type) ==
  LET list == UuidBytes(uuids, n)
  IN IF list = <<>> THEN <<>> ELSE push_ad(type, list)

\* AD types: complete lists of UUIDs, and service data, by size of the UUID.
Sizes           == {2, 4, 16}
ListType        == [n \in Sizes |-> CASE n = 2 -> 3 [] n = 4 -> 5 [] n = 16 -> 7]
ServiceDataType == [n \in Sizes |-> CASE n = 2 -> 22 [] n = 4 -> 32 [] n = 16 -> 33]

push_uuid_list_ad(uuids) ==
  UuidList(uuids, 2, ListType[2]) \o UuidList(uuids, 4, ListType[4])
    \o UuidList(uuids, 16, ListType[16])

push_service_data_ad(dict) ==
  FlattenSeq([i \in DOMAIN dict |->
    LET id == parse_uuid(dict[i].key)
    IN IF id = <<>> THEN <<>>
       ELSE push_ad(ServiceDataType[Len(id)], Reverse(id) \o dict[i].data)])

\* The company's identifier, least significant byte first, and its data.
push_manufacturer_data_ad(dict) ==
  FlattenSeq([i \in DOMAIN dict |->
    push_ad(255, <<dict[i].key % 256, dict[i].key \div 256>> \o dict[i].data)])

\* Mutant: `as i8' in place of i8::try_from.
TxPowerAdTruncated(tx_power) == push_ad(10, <<tx_power % 256>>)

\* A power that is not an i8 is left out.
TxPowerAd(tx_power) ==
  IF tx_power \in -128..127 THEN push_ad(10, <<tx_power % 256>>) ELSE <<>>

build_raw_advertisement_data ==
  (IF "Name" \in DOMAIN props THEN push_ad(9, props["Name"]) ELSE <<>>)
    \o push_uuid_list_ad(Get("UUIDs", <<>>))
    \o push_service_data_ad(Get("ServiceData", <<>>))
    \o push_manufacturer_data_ad(Get("ManufacturerData", <<>>))
    \o (IF "TxPower" \in DOMAIN props THEN TxPowerAd(props["TxPower"]) ELSE <<>>)

-----------------------------------------------------------------------------
(* ble.rs and utils.rs *)

\* u8::from_str_radix(part, 16), and {b:02X}.
ByteOf(part)  == 16 * part[1] + part[2]
PartOf(byte)  == <<byte \div 16, byte % 16>>

\* The adapter's own address: read by get_adapter_mac, shown by the handlers.
parse_mac(text) == [i \in DOMAIN text |-> ByteOf(text[i])]
format_mac(mac) == [i \in DOMAIN mac |-> PartOf(mac[i])]

\* The number with these digits, the most significant first.
Number(base, digits) ==
  LET first[i \in 0..Len(digits)] ==
        IF i = 0 THEN 0 ELSE base * first[i - 1] + digits[i]
  IN first[Len(digits)]

\* Mutant: shifted by one digit only.
parse_ble_address_digit(text) == Number(16, parse_mac(text))

\* The address as a number, its parts shifted in one after the other.
parse_ble_address(text) == Number(256, parse_mac(text))

\* Mutant: the company's identifier in decimal.
company_id_decimal(id) ==
  <<id \div 1000, (id \div 100) % 10, (id \div 10) % 10, id % 10>>

\* {id:04x}: the digits of its two bytes.
company_id(id) == PartOf(id \div 256) \o PartOf(id % 256)

\* Service data goes out as it is.
extract_manufacturer_data(dict) ==
  [i \in DOMAIN dict |-> [key |-> company_id(dict[i].key), data |-> dict[i].data]]

NoAdvert == [legacy |-> <<>>, raw |-> <<>>]

build_advertisement ==
  LET address      == parse_ble_address(props["Address"])
      address_type == IF Get("AddressType", "") = "random" THEN 1 ELSE 0
      rssi         == Get("RSSI", -127)
  IN IF "Address" \notin DOMAIN props THEN NoAdvert
     ELSE [legacy |->
             [address           |-> address,
              address_type      |-> address_type,
              rssi              |-> rssi,
              name              |-> Get("Name", <<>>),
              service_uuids     |-> Get("UUIDs", <<>>),
              service_data      |-> Get("ServiceData", <<>>),
              manufacturer_data |->
                extract_manufacturer_data(Get("ManufacturerData", <<>>))],
           raw |->
             [address      |-> address,
              address_type |-> address_type,
              rssi         |-> rssi,
              data         |-> build_raw_advertisement_data]]
=============================================================================
