---------------------------- MODULE RawAdvProofs ----------------------------
(***************************************************************************)
(* Proofs about RawAdv for all values that BlueZ may give: what an advert  *)
(* carries is read back from either of its forms.                          *)
(***************************************************************************)
EXTENDS RawAdvProperties, SequenceTheorems, Induction

-----------------------------------------------------------------------------
(* Sequences of bytes.                                                     *)

\* The bytes of one sequence and then of another.
LEMMA Appended ==
  ASSUME NEW s \in Bytes, NEW t \in Bytes
  PROVE  /\ s \o t \in Bytes
         /\ Len(s) \in Nat /\ Len(t) \in Nat
         /\ Len(s \o t) = Len(s) + Len(t)
         /\ \A i \in 1..Len(s) : (s \o t)[i] = s[i]
         /\ \A i \in 1..Len(t) : (s \o t)[Len(s) + i] = t[i]
BY DEF Bytes

\* A part of a sequence is one.
LEMMA Part ==
  ASSUME NEW s \in Bytes, NEW m \in Nat, NEW n \in Nat, m <= n, n <= Len(s)
  PROVE  /\ SubSeq(s, m + 1, n) \in Bytes
         /\ Len(SubSeq(s, m + 1, n)) = n - m
         /\ \A i \in 1..(n - m) : SubSeq(s, m + 1, n)[i] = s[m + i]
BY DEF Bytes

\* Two sequences of the same bytes are the same.
LEMMA SameBytes ==
  ASSUME NEW s \in Bytes, NEW t \in Bytes, Len(s) = Len(t),
         \A i \in 1..Len(s) : s[i] = t[i]
  PROVE  s = t
BY SeqEqual DEF Bytes

\* Reversing twice changes nothing.
LEMMA Reversed ==
  ASSUME NEW s \in Bytes
  PROVE  /\ Reverse(s) \in Bytes
         /\ Len(Reverse(s)) = Len(s)
         /\ Reverse(Reverse(s)) = s
<1>1. Len(s) \in Nat /\ s \in [1..Len(s) -> Byte]
  BY DEF Bytes
<1>2. ASSUME NEW r \in Bytes
      PROVE  /\ Reverse(r) \in Bytes
             /\ Len(Reverse(r)) = Len(r)
             /\ \A i \in 1..Len(r) : Reverse(r)[i] = r[(Len(r) - i) + 1]
  <2>1. PICK n \in Nat : n = Len(r)
    BY DEF Bytes
  <2>2. \A i \in 1..n : (n - i) + 1 \in 1..n /\ r[(n - i) + 1] \in Byte
    BY <2>1 DEF Bytes
  <2>3. Reverse(r) = [i \in 1..n |-> r[(n - i) + 1]]
    BY <2>1 DEF Reverse
  <2>4. Reverse(r) \in [1..n -> Byte]
    BY <2>2, <2>3
  <2> QED BY <2>1, <2>3, <2>4 DEF Bytes
<1>3. /\ Reverse(s) \in Bytes /\ Len(Reverse(s)) = Len(s)
      /\ Reverse(Reverse(s)) \in Bytes
      /\ Len(Reverse(Reverse(s))) = Len(s)
  BY <1>2
<1>4. ASSUME NEW i \in 1..Len(s) PROVE Reverse(Reverse(s))[i] = s[i]
  <2>1. (Len(s) - i) + 1 \in 1..Len(s)
        /\ (Len(s) - ((Len(s) - i) + 1)) + 1 = i
    BY <1>1
  <2> QED BY <1>2, <1>3, <2>1
<1> QED BY <1>3, <1>4, SameBytes

\* The sequences of ss after each other are the last of the sequences that
\* start from none and grow by the next.
GrowsIn(f, ss, n, S) ==
  /\ f \in [0..n -> Seq(S)]
  /\ f[0] = <<>>
  /\ \A i \in 1..n : f[i] = f[i - 1] \o ss[i]

LEMMA JoinedIn ==
  ASSUME NEW S, NEW n \in Nat, NEW ss \in [1..n -> Seq(S)]
  PROVE  \E f : GrowsIn(f, ss, n, S) /\ FlattenSeq(ss) = f[n]
<1> DEFINE step == [x \in Nat \X Seq(S) |->
                      IF x[1] < n THEN x[2] \o ss[x[1] + 1] ELSE <<>>]
<1>1. PICK g : Starts(g, n, <<>>, step, Seq(S))
  <2>1. <<>> \in Seq(S)
    OBVIOUS
  <2>2. step \in [Nat \X Seq(S) -> Seq(S)]
    <3>1. ASSUME NEW i \in Nat, NEW s \in Seq(S)
          PROVE  (IF i < n THEN s \o ss[i + 1] ELSE <<>>) \in Seq(S)
      <4>1. i < n => ss[i + 1] \in Seq(S)
        OBVIOUS
      <4> QED BY <2>1, <4>1
    <3> QED BY <3>1
  <2> HIDE DEF step
  <2> QED BY <2>1, <2>2, StartsExist
<1>2. g \in [0..n -> Seq(S)] /\ g[0] = <<>>
  BY <1>1 DEF Starts
<1>3. ASSUME NEW i \in 1..n PROVE g[i] = g[i - 1] \o ss[i]
  <2>1. i - 1 \in 0..(n - 1) /\ i - 1 \in Nat /\ i - 1 < n /\ (i - 1) + 1 = i
    OBVIOUS
  <2>2. g[i - 1] \in Seq(S)
    BY <1>2, <2>1
  <2>3. g[(i - 1) + 1] = step[<<i - 1, g[i - 1]>>]
    BY <1>1, <2>1 DEF Starts
  <2>4. step[<<i - 1, g[i - 1]>>] = g[i - 1] \o ss[(i - 1) + 1]
    BY <2>1, <2>2
  <2> QED BY <2>1, <2>3, <2>4
<1>4. GrowsIn(g, ss, n, S)
  BY <1>2, <1>3 DEF GrowsIn
<1>5. Len(ss) = n /\ ss \in Seq(Seq(S))
  OBVIOUS
<1> DEFINE F(h) == [i \in 1..Len(ss) |->
                      IF i = 1 THEN ss[i] ELSE h[i - 1] \o ss[i]]
           h0 == [i \in 1..n |-> g[i]]
           flat == CHOOSE h : h = F(h)
<1>6. h0 = F(h0)
  <2>1. ASSUME NEW i \in 1..n
        PROVE  g[i] = IF i = 1 THEN ss[i] ELSE h0[i - 1] \o ss[i]
    <3>1. CASE i = 1
      <4>1. g[1] = <<>> \o ss[1] /\ ss[1] \in Seq(S)
        <5>1. 1 - 1 = 0
          OBVIOUS
        <5> QED BY <1>2, <1>3, <3>1, <5>1
      <4> QED BY <4>1, <3>1, ConcatEmptySeq
    <3>2. CASE i # 1
      <4>1. i - 1 \in 1..n
        BY <3>2
      <4> QED BY <4>1, <3>2, <1>3
    <3> QED BY <3>1, <3>2
  <2> HIDE DEF step
  <2> QED BY <1>5, <2>1
<1>7. flat = F(flat)
  <2> HIDE DEF F, h0
  <2> QED BY <1>6, Zenon DEF flat
<1>8. FlattenSeq(ss) = IF Len(ss) = 0 THEN ss ELSE flat[Len(ss)]
  BY Zenon DEF FlattenSeq
<1>9. \A i \in 1..n : flat[i] = IF i = 1 THEN ss[i] ELSE flat[i - 1] \o ss[i]
  <2> HIDE DEF flat, step
  <2> QED BY <1>5, <1>7
<1> HIDE DEF flat, F, step
<1> DEFINE T == {i \in Nat : i \in 1..n => flat[i] = g[i]}
<1>10. 0 \in T
  OBVIOUS
<1>11. ASSUME NEW i \in Nat, i \in T PROVE i + 1 \in T
  <2> SUFFICES ASSUME i + 1 \in 1..n PROVE flat[i + 1] = g[i + 1]
    OBVIOUS
  <2>1. g[i + 1] = g[i] \o ss[i + 1]
    <3>1. (i + 1) - 1 = i
      OBVIOUS
    <3> QED BY <1>3, <3>1
  <2>2. CASE i = 0
    <3>1. flat[1] = ss[1]
      BY <1>9, <2>2
    <3>2. ss[1] \in Seq(S)
      BY <2>2
    <3>3. <<>> \o ss[1] = ss[1]
      BY <3>2, ConcatEmptySeq
    <3>4. i + 1 = 1 /\ g[i] = <<>>
      BY <1>2, <2>2
    <3> QED BY <2>1, <3>1, <3>3, <3>4, Zenon
  <2>3. CASE i # 0
    <3>1. i \in 1..n /\ i + 1 # 1 /\ (i + 1) - 1 = i
      BY <2>3
    <3>2. flat[i + 1] = flat[i] \o ss[i + 1]
      BY <1>9, <3>1
    <3> QED BY <1>11, <2>1, <3>1, <3>2
  <2> QED BY <2>2, <2>3
<1>12. n \in T
  <2> HIDE DEF T
  <2> QED BY <1>10, <1>11, Induct
<1>13. FlattenSeq(ss) = g[n]
  <2>1. CASE n = 0
    <3>1. ss = <<>>
      BY <2>1
    <3> QED BY <3>1, <2>1, <1>2, <1>5, <1>8
  <2>2. CASE n # 0
    BY <2>2, <1>5, <1>8, <1>12
  <2> QED BY <2>1, <2>2
<1> QED BY <1>4, <1>13

\* Of bytes.
Grows(f, ss, n) ==
  /\ f \in [0..n -> Bytes]
  /\ f[0] = <<>>
  /\ \A i \in 1..n : f[i] = f[i - 1] \o ss[i]

LEMMA Joined ==
  ASSUME NEW n \in Nat, NEW ss \in [1..n -> Bytes]
  PROVE  \E f : Grows(f, ss, n) /\ FlattenSeq(ss) = f[n]
BY JoinedIn DEF Grows, GrowsIn, Bytes

-----------------------------------------------------------------------------
(* Types.                                                                  *)

\* A property is known with a value that BlueZ gave it.
Known ==
  /\ DOMAIN props \subseteq Keys
  /\ \A k \in DOMAIN props : props[k] \in Values[k]

\* Every value has its type.
LEMMA Given ==
  ASSUME Known
  PROVE  /\ "Name" \in DOMAIN props => props["Name"] \in Bytes
         /\ Get("UUIDs", <<>>) \in Seq(Bytes)
         /\ Get("ServiceData", <<>>) \in Seq(Entry(Bytes))
         /\ Get("ManufacturerData", <<>>) \in Seq(Entry(UInt16))
         /\ "TxPower" \in DOMAIN props => props["TxPower"] \in Int16
<1>1. \A k \in DOMAIN props : props[k] \in Typed[k]
  BY RawAdvAssumption DEF Known
<1>2. /\ Typed["Name"] = Bytes
      /\ Typed["UUIDs"] = Seq(Bytes)
      /\ Typed["ServiceData"] = Seq(Entry(Bytes))
      /\ Typed["ManufacturerData"] = Seq(Entry(UInt16))
      /\ Typed["TxPower"] = Int16
  BY DEF Typed
<1>3. <<>> \in Seq(Bytes) /\ <<>> \in Seq(Entry(Bytes))
      /\ <<>> \in Seq(Entry(UInt16))
  OBVIOUS
<1>4. ASSUME NEW k
      PROVE  /\ k \in DOMAIN props => props[k] \in Typed[k]
             /\ \A d \in Typed[k] : Get(k, d) \in Typed[k]
  BY <1>1 DEF Get
<1>5. "Name" \in DOMAIN props => props["Name"] \in Bytes
  BY <1>2, <1>4, Zenon
<1>6. Get("UUIDs", <<>>) \in Seq(Bytes)
  BY <1>2, <1>3, <1>4, Zenon
<1>7. Get("ServiceData", <<>>) \in Seq(Entry(Bytes))
  BY <1>2, <1>3, <1>4, Zenon
<1>8. Get("ManufacturerData", <<>>) \in Seq(Entry(UInt16))
  BY <1>2, <1>3, <1>4, Zenon
<1>9. "TxPower" \in DOMAIN props => props["TxPower"] \in Int16
  BY <1>2, <1>4, Zenon
<1> QED BY <1>5, <1>6, <1>7, <1>8, <1>9

\* A structure is made of bytes.
LEMMA PushBytes ==
  ASSUME NEW type \in Byte, NEW payload \in Bytes
  PROVE  /\ push_ad(type, payload) \in Bytes
         /\ Len(push_ad(type, payload)) = Len(payload) + 2
<1>1. (Len(payload) + 1) % 256 \in Byte /\ Len(payload) \in Nat
  <2>1. Len(payload) \in Nat
    BY DEF Bytes
  <2>2. \A k \in Nat : (k + 1) % 256 \in Byte
    BY DEF Byte
  <2> QED BY <2>1, <2>2
<1>2. PICK b \in Byte : b = (Len(payload) + 1) % 256
  BY <1>1
<1>3. <<b, type>> \in Bytes /\ Len(<<b, type>>) = 2
  BY DEF Bytes
<1>4. <<b, type>> \o payload \in Bytes
      /\ Len(<<b, type>> \o payload) = 2 + Len(payload)
  BY <1>3, Appended
<1> QED BY <1>1, <1>2, <1>4 DEF push_ad

\* A UUID has a form of 2, 4 or 16 bytes or none.
LEMMA Parsed ==
  ASSUME NEW text \in Bytes
  PROVE  /\ parse_uuid(text) \in Bytes
         /\ Len(text) = 16 => Len(parse_uuid(text)) \in Sizes
         /\ Len(text) # 16 => parse_uuid(text) = <<>>
         /\ Len(parse_uuid(text)) \in Sizes => Len(text) = 16
<1>1. CASE Len(text) # 16
  <2>1. parse_uuid(text) = <<>>
    BY <1>1, Zenon DEF parse_uuid
  <2>2. <<>> \in Bytes /\ Len(<<>>) = 0
    BY DEF Bytes
  <2> QED BY <1>1, <2>1, <2>2 DEF Sizes
<1>2. CASE Len(text) = 16
  <2>1. SubSeq(text, 3, 4) \in Bytes /\ Len(SubSeq(text, 3, 4)) = 2
    <3>1. PICK m \in Nat, n \in Nat : m = 2 /\ n = 4
      OBVIOUS
    <3>2. m <= n /\ n <= Len(text) /\ m + 1 = 3 /\ n - m = 2
      BY <1>2, <3>1
    <3>3. SubSeq(text, m + 1, n) \in Bytes
          /\ Len(SubSeq(text, m + 1, n)) = n - m
      BY <3>2, Part
    <3> QED BY <3>1, <3>2, <3>3
  <2>2. SubSeq(text, 1, 4) \in Bytes /\ Len(SubSeq(text, 1, 4)) = 4
    <3>1. PICK m \in Nat, n \in Nat : m = 0 /\ n = 4
      OBVIOUS
    <3>2. m <= n /\ n <= Len(text) /\ m + 1 = 1 /\ n - m = 4
      BY <1>2, <3>1
    <3>3. SubSeq(text, m + 1, n) \in Bytes
          /\ Len(SubSeq(text, m + 1, n)) = n - m
      BY <3>2, Part
    <3> QED BY <3>1, <3>2, <3>3
  <2>3. \/ parse_uuid(text) = text
        \/ parse_uuid(text) = SubSeq(text, 3, 4)
        \/ parse_uuid(text) = SubSeq(text, 1, 4)
    BY <1>2 DEF parse_uuid
  <2> QED BY <1>2, <2>1, <2>2, <2>3 DEF Sizes
<1> QED BY <1>1, <1>2

LEMMA TypesAreBytes ==
  ASSUME NEW n \in Sizes
  PROVE  ListType[n] \in {3, 5, 7} /\ ServiceDataType[n] \in {22, 32, 33}
BY DEF Sizes, ListType, ServiceDataType

\* What push_uuid_list_ad, push_service_data_ad and push_manufacturer_data_ad
\* write for one UUID or one entry.
UuidPart(uuids, n, i) ==
  LET id == parse_uuid(uuids[i]) IN IF Len(id) = n THEN Reverse(id) ELSE <<>>

ServicePayload(e) == Reverse(parse_uuid(e.key)) \o e.data
ServicePart(e) ==
  LET id == parse_uuid(e.key)
  IN IF id = <<>> THEN <<>>
     ELSE push_ad(ServiceDataType[Len(id)], Reverse(id) \o e.data)

CompanyPayload(e) == <<e.key % 256, e.key \div 256>> \o e.data
CompanyPart(e)    == push_ad(255, CompanyPayload(e))

\* The sequences joined are sequences of bytes.
LEMMA JoinedBytes ==
  ASSUME NEW n \in Nat, NEW ss \in [1..n -> Bytes]
  PROVE  FlattenSeq(ss) \in Bytes
<1>1. PICK f : Grows(f, ss, n) /\ FlattenSeq(ss) = f[n]
  BY Joined
<1> QED BY <1>1 DEF Grows

\* The identifier of an entry and its data.
LEMMA EntryParts ==
  /\ \A e \in Entry(Bytes) :
       /\ e.key \in Bytes /\ e.data \in Bytes
       /\ e = [key |-> e.key, data |-> e.data]
  /\ \A e \in Entry(UInt16) :
       /\ e.key \in UInt16 /\ e.data \in Bytes
       /\ e = [key |-> e.key, data |-> e.data]
BY DEF Entry

\* The two bytes of a company.
LEMMA CompanyBytes ==
  ASSUME NEW k \in UInt16
  PROVE  /\ k \in Nat
         /\ k % 256 \in Byte /\ k \div 256 \in Byte
         /\ (k % 256) + 256 * (k \div 256) = k
         /\ <<k % 256, k \div 256>> \in Bytes
         /\ Len(<<k % 256, k \div 256>>) = 2
<1>1. /\ k \in Nat
      /\ k % 256 \in Byte /\ k \div 256 \in Byte
      /\ (k % 256) + 256 * (k \div 256) = k
  <2>1. k \in Nat /\ k <= 256 * 256 - 1
    BY DEF UInt16
  <2>2. /\ k % 256 \in 0..255 /\ k \div 256 \in Nat
        /\ k = 256 * (k \div 256) + (k % 256)
    BY <2>1
  <2>3. PICK q \in Nat, r \in 0..255 :
          q = k \div 256 /\ r = k % 256 /\ k = 256 * q + r
    BY <2>2
  <2>4. q <= 255
    BY <2>1, <2>3
  <2> QED BY <2>1, <2>3, <2>4 DEF Byte
<1>2. PICK a \in Byte, b \in Byte : a = k % 256 /\ b = k \div 256
  BY <1>1
<1>3. <<a, b>> \in Bytes /\ Len(<<a, b>>) = 2
  BY DEF Bytes
<1> QED BY <1>1, <1>2, <1>3

\* What is written for one is made of bytes.
LEMMA PartBytes ==
  /\ \A uuids \in Seq(Bytes) : \A n : \A i \in 1..Len(uuids) :
       UuidPart(uuids, n, i) \in Bytes
  /\ \A e \in Entry(Bytes) :
       ServicePart(e) \in Bytes /\ ServicePayload(e) \in Bytes
  /\ \A e \in Entry(UInt16) :
       CompanyPart(e) \in Bytes /\ CompanyPayload(e) \in Bytes
<1>0. <<>> \in Bytes
  BY DEF Bytes
<1>1. ASSUME NEW uuids \in Seq(Bytes), NEW n, NEW i \in 1..Len(uuids)
      PROVE  UuidPart(uuids, n, i) \in Bytes
  <2>1. uuids[i] \in Bytes
    OBVIOUS
  <2>2. Reverse(parse_uuid(uuids[i])) \in Bytes
    BY <2>1, Parsed, Reversed
  <2> QED BY <1>0, <2>2 DEF UuidPart
<1>2. ASSUME NEW e \in Entry(Bytes)
      PROVE  ServicePart(e) \in Bytes /\ ServicePayload(e) \in Bytes
  <2>1. e.key \in Bytes /\ e.data \in Bytes
    BY EntryParts
  <2>2. PICK id \in Bytes : id = parse_uuid(e.key)
    BY <2>1, Parsed
  <2>3. Reverse(id) \in Bytes
    BY Reversed
  <2>4. Reverse(id) \o e.data \in Bytes
    BY <2>1, <2>3, Appended
  <2>5. ASSUME id # <<>>
        PROVE  push_ad(ServiceDataType[Len(id)], Reverse(id) \o e.data) \in Bytes
    <3>1. Len(id) \in Sizes
      BY <2>1, <2>2, <2>5, Parsed
    <3>2. ServiceDataType[Len(id)] \in Byte
      BY <3>1, TypesAreBytes DEF Byte
    <3> QED BY <2>4, <3>2, PushBytes
  <2> QED BY <1>0, <2>2, <2>4, <2>5 DEF ServicePart, ServicePayload
<1>3. ASSUME NEW e \in Entry(UInt16)
      PROVE  CompanyPart(e) \in Bytes /\ CompanyPayload(e) \in Bytes
  <2>1. e.key \in UInt16 /\ e.data \in Bytes
    BY EntryParts
  <2>2. <<e.key % 256, e.key \div 256>> \in Bytes
    BY <2>1, CompanyBytes
  <2>3. CompanyPayload(e) \in Bytes
    BY <2>1, <2>2, Appended DEF CompanyPayload
  <2>4. 255 \in Byte
    BY DEF Byte
  <2> QED BY <2>3, <2>4, PushBytes DEF CompanyPart
<1> QED BY <1>1, <1>2, <1>3

\* Every kind of structure is made of bytes.
LEMMA FieldBytes ==
  /\ \A uuids \in Seq(Bytes) : \A n : UuidBytes(uuids, n) \in Bytes
  /\ \A dict \in Seq(Entry(Bytes)) : push_service_data_ad(dict) \in Bytes
  /\ \A dict \in Seq(Entry(UInt16)) : push_manufacturer_data_ad(dict) \in Bytes
  /\ \A t \in Int16 : TxPowerAd(t) \in Bytes
<1>1. ASSUME NEW uuids \in Seq(Bytes), NEW n
      PROVE  UuidBytes(uuids, n) \in Bytes
  <2> DEFINE ss == [i \in DOMAIN uuids |-> UuidPart(uuids, n, i)]
  <2>1. Len(uuids) \in Nat /\ ss \in [1..Len(uuids) -> Bytes]
    BY PartBytes
  <2>2. UuidBytes(uuids, n) = FlattenSeq(ss)
    BY Zenon DEF UuidBytes, UuidPart
  <2> HIDE DEF ss
  <2> QED BY <2>1, <2>2, JoinedBytes
<1>2. ASSUME NEW dict \in Seq(Entry(Bytes))
      PROVE  push_service_data_ad(dict) \in Bytes
  <2> DEFINE ss == [i \in DOMAIN dict |-> ServicePart(dict[i])]
  <2>1. Len(dict) \in Nat /\ ss \in [1..Len(dict) -> Bytes]
    BY PartBytes
  <2>2. push_service_data_ad(dict) = FlattenSeq(ss)
    BY Zenon DEF push_service_data_ad, ServicePart
  <2> HIDE DEF ss
  <2> QED BY <2>1, <2>2, JoinedBytes
<1>3. ASSUME NEW dict \in Seq(Entry(UInt16))
      PROVE  push_manufacturer_data_ad(dict) \in Bytes
  <2> DEFINE ss == [i \in DOMAIN dict |-> CompanyPart(dict[i])]
  <2>1. Len(dict) \in Nat /\ ss \in [1..Len(dict) -> Bytes]
    BY PartBytes
  <2>2. push_manufacturer_data_ad(dict) = FlattenSeq(ss)
    BY Zenon DEF push_manufacturer_data_ad, CompanyPart, CompanyPayload
  <2> HIDE DEF ss
  <2> QED BY <2>1, <2>2, JoinedBytes
<1>4. ASSUME NEW t \in Int16
      PROVE  TxPowerAd(t) \in Bytes
  <2>1. t % 256 \in Byte /\ 10 \in Byte
    <3>1. t \in Int
      BY DEF Int16
    <3> QED BY <3>1 DEF Byte
  <2>2. <<t % 256>> \in Bytes
    BY <2>1 DEF Bytes
  <2>3. push_ad(10, <<t % 256>>) \in Bytes
    BY <2>1, <2>2, PushBytes
  <2>4. <<>> \in Bytes
    BY DEF Bytes
  <2> QED BY <2>3, <2>4 DEF TxPowerAd
<1> QED BY <1>1, <1>2, <1>3, <1>4

\* So is the packet.
LEMMA PacketBytes ==
  ASSUME Known
  PROVE  build_raw_advertisement_data \in Bytes
<1> DEFINE name   == IF "Name" \in DOMAIN props THEN push_ad(9, props["Name"])
                     ELSE <<>>
           list(n) == UuidList(Get("UUIDs", <<>>), n, ListType[n])
           power  == IF "TxPower" \in DOMAIN props THEN TxPowerAd(props["TxPower"])
                     ELSE <<>>
<1>0. <<>> \in Bytes
  BY DEF Bytes
<1>1. name \in Bytes
  <2>1. 9 \in Byte
    BY DEF Byte
  <2> QED BY <1>0, <2>1, Given, PushBytes
<1>2. \A n \in Sizes : list(n) \in Bytes
  <2> SUFFICES ASSUME NEW n \in Sizes PROVE list(n) \in Bytes
    OBVIOUS
  <2>1. UuidBytes(Get("UUIDs", <<>>), n) \in Bytes
    BY Given, FieldBytes
  <2>2. ListType[n] \in Byte
    BY TypesAreBytes DEF Byte
  <2>3. push_ad(ListType[n], UuidBytes(Get("UUIDs", <<>>), n)) \in Bytes
    BY <2>1, <2>2, PushBytes
  <2> QED BY <1>0, <2>3 DEF UuidList
<1>3. power \in Bytes
  BY <1>0, Given, FieldBytes
<1>4. /\ push_service_data_ad(Get("ServiceData", <<>>)) \in Bytes
      /\ push_manufacturer_data_ad(Get("ManufacturerData", <<>>)) \in Bytes
  BY Given, FieldBytes
<1>5. push_uuid_list_ad(Get("UUIDs", <<>>)) = (list(2) \o list(4)) \o list(16)
  BY Zenon DEF push_uuid_list_ad
<1>6. build_raw_advertisement_data =
        (((name \o push_uuid_list_ad(Get("UUIDs", <<>>)))
            \o push_service_data_ad(Get("ServiceData", <<>>)))
           \o push_manufacturer_data_ad(Get("ManufacturerData", <<>>)))
          \o power
  BY Zenon DEF build_raw_advertisement_data
<1> HIDE DEF name, list, power
<1>7. (list(2) \o list(4)) \o list(16) \in Bytes
  <2>1. list(2) \in Bytes /\ list(4) \in Bytes /\ list(16) \in Bytes
    BY <1>2 DEF Sizes
  <2>2. list(2) \o list(4) \in Bytes
    BY <2>1, Appended
  <2> QED BY <2>1, <2>2, Appended
<1>8. push_uuid_list_ad(Get("UUIDs", <<>>)) \in Bytes
  BY <1>5, <1>7, Zenon
<1>9. ASSUME NEW a \in Bytes, NEW b \in Bytes, NEW c \in Bytes, NEW d \in Bytes,
             NEW e \in Bytes
      PROVE  (((a \o b) \o c) \o d) \o e \in Bytes
  <2>1. a \o b \in Bytes
    BY Appended
  <2>2. (a \o b) \o c \in Bytes
    BY <2>1, Appended
  <2>3. ((a \o b) \o c) \o d \in Bytes
    BY <2>2, Appended
  <2> QED BY <2>3, Appended
<1> QED BY <1>1, <1>3, <1>4, <1>6, <1>8, <1>9, Zenon

\* What BlueZ says is known from then on, until it forgets it.
LEMMA StaysKnown == Spec => []Known
<1>1. Init => Known
  BY DEF Init, Known
<1>2. ASSUME Known, [Next]_props PROVE Known'
  <2>1. CASE Invalidated
    <3>1. /\ DOMAIN props' \subseteq DOMAIN props
          /\ \A k \in DOMAIN props' : props'[k] = props[k]
      BY <2>1 DEF Invalidated, Restrict
    <3> QED BY <1>2, <3>1 DEF Known
  <2>2. ASSUME NEW k \in Keys, NEW v \in Values[k], Heard(k, v)
        PROVE  Known'
    <3>1. DOMAIN props' = DOMAIN props \union {k}
      BY <2>2 DEF Heard
    <3>2. \A j \in DOMAIN props' : props'[j] = IF j = k THEN v ELSE props[j]
      BY <2>2 DEF Heard
    <3> QED BY <1>2, <3>1, <3>2 DEF Known
  <2>3. CASE UNCHANGED props
    BY <1>2, <2>3 DEF Known
  <2> QED BY <1>2, <2>1, <2>2, <2>3 DEF Next
<1> QED BY <1>1, <1>2, PTL DEF Spec

\* TypeOK: what is known of a device is what BlueZ gave, and every element of
\* the packet built from it is a byte.
THEOREM PacketsAreBytes == Spec => []TypeOK
<1>1. Known => TypeOK
  BY PacketBytes DEF TypeOK, Known
<1> QED BY <1>1, StaysKnown, PTL

-----------------------------------------------------------------------------
(* Addresses.                                                              *)

\* The number of digits is the last of the numbers that start from zero and
\* take one digit more.
Counts(f, base, digits, n) ==
  /\ f \in [0..n -> Nat]
  /\ f[0] = 0
  /\ \A i \in 1..n : f[i] = base * f[i - 1] + digits[i]

LEMMA Counted ==
  ASSUME NEW base \in Nat, NEW n \in Nat, NEW digits \in [1..n -> Nat]
  PROVE  \E f : Counts(f, base, digits, n) /\ Number(base, digits) = f[n]
<1> DEFINE step == [x \in Nat \X Nat |->
                      IF x[1] < n THEN base * x[2] + digits[x[1] + 1] ELSE 0]
<1>1. PICK g : Starts(g, n, 0, step, Nat)
  <2>1. step \in [Nat \X Nat -> Nat]
    <3>1. ASSUME NEW i \in Nat, NEW k \in Nat
          PROVE  (IF i < n THEN base * k + digits[i + 1] ELSE 0) \in Nat
      <4>1. i < n => digits[i + 1] \in Nat
        OBVIOUS
      <4>2. base * k \in Nat
        OBVIOUS
      <4> QED BY <4>1, <4>2
    <3> QED BY <3>1
  <2> HIDE DEF step
  <2> QED BY <2>1, StartsExist
<1>2. g \in [0..n -> Nat] /\ g[0] = 0
  BY <1>1 DEF Starts
<1>3. ASSUME NEW i \in 1..n PROVE g[i] = base * g[i - 1] + digits[i]
  <2>1. i - 1 \in 0..(n - 1) /\ i - 1 \in Nat /\ i - 1 < n /\ (i - 1) + 1 = i
    OBVIOUS
  <2>2. g[i - 1] \in Nat
    BY <1>2, <2>1
  <2>3. g[(i - 1) + 1] = step[<<i - 1, g[i - 1]>>]
    BY <1>1, <2>1 DEF Starts
  <2>4. step[<<i - 1, g[i - 1]>>] = base * g[i - 1] + digits[(i - 1) + 1]
    BY <2>1, <2>2
  <2> HIDE DEF step
  <2> QED BY <2>1, <2>3, <2>4, Zenon
<1>4. Counts(g, base, digits, n)
  BY <1>2, <1>3 DEF Counts
<1>5. Len(digits) = n
  OBVIOUS
<1> DEFINE F(h) == [i \in 0..Len(digits) |->
                      IF i = 0 THEN 0 ELSE base * h[i - 1] + digits[i]]
           first == CHOOSE h : h = F(h)
<1> HIDE DEF step
<1>6. g = F(g)
  <2>1. \A i \in 0..n : g[i] = IF i = 0 THEN 0 ELSE base * g[i - 1] + digits[i]
    <3>1. \A i \in 0..n : i # 0 => i \in 1..n
      OBVIOUS
    <3> QED BY <1>2, <1>3, <3>1, Zenon
  <2> QED BY <1>2, <1>5, <2>1
<1>7. first = F(first)
  <2> HIDE DEF F
  <2> QED BY <1>6, Zenon DEF first
<1>8. Number(base, digits) = first[Len(digits)]
  BY Zenon DEF Number
<1> HIDE DEF first
<1>9. \A i \in 0..n :
        first[i] = IF i = 0 THEN 0 ELSE base * first[i - 1] + digits[i]
  BY <1>5, <1>7
<1> HIDE DEF F
<1> DEFINE T == {i \in Nat : i \in 0..n => first[i] = g[i]}
<1>10. 0 \in T
  BY <1>2, <1>9
<1>11. ASSUME NEW i \in Nat, i \in T PROVE i + 1 \in T
  <2> SUFFICES ASSUME i + 1 \in 0..n PROVE first[i + 1] = g[i + 1]
    OBVIOUS
  <2>1. /\ i \in 0..n /\ i + 1 \in 1..n /\ i + 1 # 0 /\ (i + 1) - 1 = i
    OBVIOUS
  <2>2. first[i] = g[i]
    BY <1>11, <2>1
  <2>3. first[i + 1] = base * first[(i + 1) - 1] + digits[i + 1]
    BY <1>9, <2>1, Zenon
  <2>4. g[i + 1] = base * g[(i + 1) - 1] + digits[i + 1]
    BY <1>3, <2>1
  <2> QED BY <2>1, <2>2, <2>3, <2>4, Zenon
<1>12. n \in T
  <2> HIDE DEF T
  <2> QED BY <1>10, <1>11, Induct
<1>13. first[n] = g[n]
  <2>1. n \in 0..n
    OBVIOUS
  <2> QED BY <1>12, <2>1
<1> QED BY <1>4, <1>5, <1>8, <1>13

\* No parts of an address, or one after the others.
LEMMA ShownStep ==
  \A n \in Nat : \A a \in Nat :
    /\ Shown[0][a] = <<>>
    /\ Shown[n + 1][a] = Append(Shown[n][a \div 256], PartOf(a % 256))
<1> DEFINE Parts == Nat \X Nat
           S == [Nat -> Seq(Parts)]
           none == [a \in Nat |-> <<>>]
           next(g) == [a \in Nat |-> Append(g[a \div 256], PartOf(a % 256))]
           step == [x \in Nat \X S |-> next(x[2])]
<1>1. \A a \in Nat : a \div 256 \in Nat /\ PartOf(a % 256) \in Parts
  <2>1. ASSUME NEW a \in Nat PROVE a \div 256 \in Nat /\ a % 256 \in Nat
    OBVIOUS
  <2>2. ASSUME NEW b \in Nat PROVE PartOf(b) \in Parts
    BY DEF PartOf
  <2> HIDE DEF Parts
  <2> QED BY <2>1, <2>2
<1> HIDE DEF Parts
<1>2. \A g \in S : next(g) \in S
  BY <1>1
<1>3. PICK f : Iterates(f, none, step, S)
  <2>1. none \in S
    OBVIOUS
  <2>2. step \in [Nat \X S -> S]
    <3> HIDE DEF S, next
    <3> QED BY <1>2
  <2> HIDE DEF S, none, step
  <2> QED BY <2>1, <2>2, Recursion
<1>4. /\ f \in [Nat -> S] /\ f[0] = none
      /\ \A n \in Nat : f[n + 1] = next(f[n])
  <2>1. /\ f \in [Nat -> S] /\ f[0] = none
        /\ \A n \in Nat : f[n + 1] = step[<<n, f[n]>>]
    BY <1>3 DEF Iterates
  <2>2. \A n \in Nat : \A g \in S : step[<<n, g>>] = next(g)
    OBVIOUS
  <2> HIDE DEF S, none, step, next
  <2> QED BY <2>1, <2>2
<1> DEFINE F(g) == [n \in Nat |->
                      [number \in Nat |->
                         IF n = 0 THEN <<>>
                         ELSE Append(g[n - 1][number \div 256],
                                     PartOf(number % 256))]]
<1>5. f = F(f)
  <2>1. ASSUME NEW n \in Nat PROVE f[n] = F(f)[n]
    <3>1. CASE n = 0
      BY <3>1, <1>4
    <3>2. CASE n # 0
      <4>1. n - 1 \in Nat /\ n = (n - 1) + 1
        BY <3>2
      <4>2. f[n] = next(f[n - 1])
        BY <4>1, <1>4, Zenon
      <4> QED BY <3>2, <4>2
    <3> QED BY <3>1, <3>2
  <2> HIDE DEF S
  <2> QED BY <1>4, <2>1
<1>6. Shown = F(Shown)
  BY <1>5, Zenon DEF Shown
<1>7. ASSUME NEW n \in Nat, NEW a \in Nat
      PROVE  Shown[n][a] = IF n = 0 THEN <<>>
                           ELSE Append(Shown[n - 1][a \div 256], PartOf(a % 256))
  <2>1. F(Shown)[n] = [number \in Nat |->
                         IF n = 0 THEN <<>>
                         ELSE Append(Shown[n - 1][number \div 256],
                                     PartOf(number % 256))]
    OBVIOUS
  <2>2. F(Shown)[n][a] = IF n = 0 THEN <<>>
                         ELSE Append(Shown[n - 1][a \div 256], PartOf(a % 256))
    BY <2>1, Zenon
  <2> HIDE DEF F
  <2>3. Shown[n] = F(Shown)[n]
    BY <1>6, Zenon
  <2> QED BY <2>2, <2>3, Zenon
<1> HIDE DEF F, S, none, step, next
<1> SUFFICES ASSUME NEW n \in Nat, NEW a \in Nat
             PROVE  /\ Shown[0][a] = <<>>
                    /\ Shown[n + 1][a]
                         = Append(Shown[n][a \div 256], PartOf(a % 256))
  OBVIOUS
<1>8. Shown[0][a] = <<>>
  BY <1>7
<1>9. PICK m \in Nat : m = n + 1 /\ m # 0 /\ m - 1 = n
  OBVIOUS
<1>10. PICK q, r : q = a \div 256 /\ r = PartOf(a % 256)
  OBVIOUS
<1>11. Shown[m][a] = Append(Shown[n][q], r)
  <2>1. Shown[m][a] = IF m = 0 THEN <<>>
                      ELSE Append(Shown[m - 1][a \div 256], PartOf(a % 256))
    BY <1>7
  <2>2. Shown[m][a] = Append(Shown[m - 1][a \div 256], PartOf(a % 256))
    BY <1>9, <2>1
  <2> QED BY <1>9, <1>10, <2>2
<1> QED BY <1>8, <1>9, <1>10, <1>11

\* The byte shifted in last is the remainder.
LEMMA ByteAdded ==
  \A k \in Nat : \A b \in Byte : \A a \in Nat :
    a = 256 * k + b => a \div 256 = k /\ a % 256 = b
<1> SUFFICES ASSUME NEW k \in Nat, NEW b \in Byte, NEW a \in Nat, a = 256 * k + b
             PROVE  a \div 256 = k /\ a % 256 = b
  OBVIOUS
<1>1. /\ a \div 256 \in Nat /\ a % 256 \in 0..255
      /\ a = 256 * (a \div 256) + (a % 256)
  OBVIOUS
<1>2. PICK q \in Nat, r \in 0..255 :
        q = a \div 256 /\ r = a % 256 /\ a = 256 * q + r
  BY <1>1
<1>3. q = k /\ r = b
  BY <1>2 DEF Byte
<1> QED BY <1>2, <1>3

\* A part is written as it was read.
LEMMA PartReadsBack ==
  ASSUME NEW p \in Digit \X Digit
  PROVE  ByteOf(p) \in Byte /\ PartOf(ByteOf(p)) = p
<1>1. PICK a \in Digit, b \in Digit : p = <<a, b>>
  OBVIOUS
<1>2. ByteOf(p) = 16 * a + b
  BY <1>1 DEF ByteOf
<1>3. (16 * a + b) \div 16 = a /\ (16 * a + b) % 16 = b
      /\ 16 * a + b \in Byte
  BY DEF Digit, Byte
<1> QED BY <1>1, <1>2, <1>3 DEF PartOf

\* And so are the parts of an address.
LEMMA TextReadsBack ==
  ASSUME NEW n \in Nat, NEW text \in [1..n -> Digit \X Digit]
  PROVE  /\ parse_ble_address(text) \in Nat
         /\ Shown[n][parse_ble_address(text)] = text
         /\ format_mac(parse_mac(text)) = text
<1>1. \A i \in 1..n : ByteOf(text[i]) \in Byte /\ PartOf(ByteOf(text[i])) = text[i]
  BY PartReadsBack
<1>2. parse_mac(text) \in [1..n -> Nat]
      /\ \A i \in 1..n : parse_mac(text)[i] = ByteOf(text[i])
  <2>1. DOMAIN text = 1..n
    OBVIOUS
  <2>2. parse_mac(text) = [i \in 1..n |-> ByteOf(text[i])]
    BY <2>1, Zenon DEF parse_mac
  <2>3. \A i \in 1..n : ByteOf(text[i]) \in Nat
    <3>1. Byte \subseteq Nat
      BY DEF Byte
    <3> QED BY <1>1, <3>1
  <2> QED BY <2>2, <2>3
<1>3. format_mac(parse_mac(text)) = text
  <2>1. format_mac(parse_mac(text)) = [i \in 1..n |-> PartOf(parse_mac(text)[i])]
    BY <1>2 DEF format_mac
  <2>2. \A i \in 1..n : PartOf(parse_mac(text)[i]) = text[i]
    BY <1>1, <1>2
  <2> QED BY <2>1, <2>2
<1>4. PICK f : /\ Counts(f, 256, parse_mac(text), n)
               /\ Number(256, parse_mac(text)) = f[n]
  BY <1>2, Counted
<1> DEFINE T == {i \in Nat : i <= n => Shown[i][f[i]] = [j \in 1..i |-> text[j]]}
<1>5. 0 \in T
  <2>1. f[0] = 0 /\ 0 \in Nat
    BY <1>4 DEF Counts
  <2>2. Shown[0][0] = <<>>
    BY ShownStep
  <2>3. [j \in 1..0 |-> text[j]] = <<>>
    OBVIOUS
  <2> QED BY <2>1, <2>2, <2>3
<1>6. ASSUME NEW i \in Nat, i \in T PROVE i + 1 \in T
  <2> SUFFICES ASSUME i + 1 <= n
               PROVE  Shown[i + 1][f[i + 1]] = [j \in 1..(i + 1) |-> text[j]]
    OBVIOUS
  <2>1. i \in 0..n /\ i + 1 \in 1..n /\ (i + 1) - 1 = i /\ i <= n
    OBVIOUS
  <2>2. PICK k \in Nat : k = f[i]
    BY <1>4, <2>1 DEF Counts
  <2>3. PICK b \in Byte : b = ByteOf(text[i + 1]) /\ b = parse_mac(text)[i + 1]
                          /\ PartOf(b) = text[i + 1]
    BY <1>1, <1>2, <2>1
  <2>4. f[i + 1] = 256 * k + b
    BY <1>4, <2>1, <2>2, <2>3 DEF Counts
  <2>5. PICK a \in Nat : a = 256 * k + b
    BY DEF Byte
  <2>6. Shown[i + 1][a] = Append(Shown[i][k], PartOf(b))
    <3>1. a \div 256 = k /\ a % 256 = b
      BY <2>5, ByteAdded
    <3>2. Shown[i + 1][a] = Append(Shown[i][a \div 256], PartOf(a % 256))
      BY ShownStep
    <3> QED BY <3>1, <3>2
  <2>7. Shown[i][k] = [j \in 1..i |-> text[j]]
    BY <1>6, <2>1, <2>2
  <2>8. Append([j \in 1..i |-> text[j]], text[i + 1])
          = [j \in 1..(i + 1) |-> text[j]]
    OBVIOUS
  <2>9. f[i + 1] = a
    BY <2>4, <2>5
  <2> QED BY <2>3, <2>6, <2>7, <2>8, <2>9, Zenon
<1>7. n \in T
  <2> HIDE DEF T
  <2> QED BY <1>5, <1>6, Induct
<1>8. [j \in 1..n |-> text[j]] = text
  OBVIOUS
<1>9. f[n] \in Nat
  BY <1>4 DEF Counts
<1> QED BY <1>3, <1>4, <1>7, <1>8, <1>9 DEF parse_ble_address

\* What an advert consists of.
LEMMA BuiltFields ==
  ASSUME Built
  PROVE  /\ "Address" \in DOMAIN props
         /\ advert.legacy.address = parse_ble_address(props["Address"])
BY DEF Built, advert, build_advertisement

\* AddressReadsBack for every length of an address.
THEOREM AddressesReadBack == Spec => []AddressReadsBack
<1>1. ASSUME Known, Built
      PROVE  LET text == props["Address"]
             IN /\ text = Shown[MacLength][advert.legacy.address]
                /\ format_mac(parse_mac(text)) = text
  <2>1. /\ "Address" \in DOMAIN props
        /\ advert.legacy.address = parse_ble_address(props["Address"])
    BY <1>1, BuiltFields
  <2>2. props["Address"] \in [1..MacLength -> Digit \X Digit]
    BY <1>1, <2>1, RawAdvAssumption DEF Known, Typed
  <2>3. MacLength \in Nat
    BY RawAdvAssumption
  <2> QED BY <2>1, <2>2, <2>3, TextReadsBack
<1>2. Known => AddressReadsBack
  BY <1>1 DEF AddressReadsBack
<1> QED BY <1>2, StaysKnown, PTL

-----------------------------------------------------------------------------
(* Reading AD structures.                                                  *)

Structure == [type : Byte, payload : Bytes]

\* A packet that begins with a whole structure, this structure and the rest.
Whole(data) == data # <<>> /\ data[1] # 0 /\ data[1] < Len(data)
Lead(data) == [type |-> data[2], payload |-> SubSeq(data, 3, data[1] + 1)]
Rest(data)  == After(data, data[1] + 1)

\* Its first byte and its length are numbers.
LEMMA FirstByte ==
  ASSUME NEW data \in Bytes, data # <<>>
  PROVE  data[1] \in Byte /\ data[1] \in Nat /\ Len(data) \in Nat /\ Len(data) >= 1
<1>1. Len(data) \in Nat /\ Len(data) >= 1 /\ data[1] \in Byte
  BY DEF Bytes
<1>2. Byte \subseteq Nat
  BY DEF Byte
<1> QED BY <1>1, <1>2

LEMMA WholeParts ==
  ASSUME NEW data \in Bytes, Whole(data)
  PROVE  /\ Lead(data) \in Structure
         /\ Rest(data) \in Bytes
         /\ Len(Rest(data)) \in Nat /\ Len(Rest(data)) < Len(data)
<1>1. Len(data) \in Nat /\ Len(data) >= 1 /\ data[1] \in Byte
  BY DEF Whole, Bytes
<1>2. data[1] \in Nat /\ data[1] # 0 /\ data[1] < Len(data)
  <2>1. Byte \subseteq Nat
    BY DEF Byte
  <2> QED BY <1>1, <2>1 DEF Whole
<1>3. PICK two \in Nat, n \in Nat : two = 2 /\ n = data[1] + 1
  <2>1. data[1] + 1 \in Nat
    BY <1>2
  <2> QED BY <2>1
<1>4. SubSeq(data, two + 1, n) \in Bytes
  <2>1. two <= n /\ n <= Len(data)
    BY <1>1, <1>2, <1>3
  <2> QED BY <2>1, Part
<1>5. Lead(data) \in Structure
  <2>1. data[2] \in Byte
    <3>1. 2 \in 1..Len(data)
      BY <1>1, <1>2
    <3> QED BY <3>1 DEF Bytes
  <2>2. two + 1 = 3
    BY <1>3
  <2>3. SubSeq(data, 3, data[1] + 1) \in Bytes
    BY <1>3, <1>4, <2>2
  <2> QED BY <2>1, <2>3 DEF Lead, Structure
<1>6. /\ SubSeq(data, n + 1, Len(data)) \in Bytes
      /\ Len(SubSeq(data, n + 1, Len(data))) = Len(data) - n
  <2>1. n <= Len(data) /\ Len(data) <= Len(data)
    BY <1>1, <1>2, <1>3
  <2> QED BY <1>1, <2>1, Part
<1>7. Rest(data) = SubSeq(data, n + 1, Len(data))
  BY <1>3 DEF Rest, After
<1>8. Len(data) - n \in Nat /\ Len(data) - n < Len(data)
  BY <1>1, <1>2, <1>3
<1> QED BY <1>5, <1>6, <1>7, <1>8

\* No structures, or the first and those of the rest.
LEMMA ReadStep ==
  \A n \in Nat : \A data \in Bytes :
    /\ Read[0][data] = {}
    /\ Read[n + 1][data] = IF Whole(data) THEN {Lead(data)} \union Read[n][Rest(data)]
                           ELSE {}
<1> DEFINE S == [Bytes -> SUBSET Structure]
           none == [data \in Bytes |-> {}]
           next(g) == [data \in Bytes |->
                         IF Whole(data) THEN {Lead(data)} \union g[Rest(data)]
                         ELSE {}]
           step == [x \in Nat \X S |-> next(x[2])]
<1>1. \A g \in S : next(g) \in S
  BY WholeParts
<1>2. PICK f : Iterates(f, none, step, S)
  <2>1. none \in S
    OBVIOUS
  <2>2. step \in [Nat \X S -> S]
    <3> HIDE DEF S, next
    <3> QED BY <1>1
  <2> HIDE DEF S, none, step
  <2> QED BY <2>1, <2>2, Recursion
<1>3. /\ f \in [Nat -> S] /\ f[0] = none
      /\ \A n \in Nat : f[n + 1] = next(f[n])
  <2>1. /\ f \in [Nat -> S] /\ f[0] = none
        /\ \A n \in Nat : f[n + 1] = step[<<n, f[n]>>]
    BY <1>2 DEF Iterates
  <2>2. \A n \in Nat : \A g \in S : step[<<n, g>>] = next(g)
    OBVIOUS
  <2> HIDE DEF S, none, step, next
  <2> QED BY <2>1, <2>2
<1> DEFINE F(g) == [n \in Nat |->
     [data \in Bytes |->
        IF n = 0 \/ data = <<>> THEN {}
        ELSE IF data[1] = 0 \/ data[1] >= Len(data) THEN {}
        ELSE {[type |-> data[2], payload |-> SubSeq(data, 3, data[1] + 1)]}
               \union g[n - 1][After(data, data[1] + 1)]]]
           G(g) == [n \in Nat |->
     [data \in Bytes |->
        IF n = 0 THEN {}
        ELSE IF Whole(data) THEN {Lead(data)} \union g[n - 1][Rest(data)]
        ELSE {}]]
<1>4. \A g : F(g) = G(g)
  <2> SUFFICES ASSUME NEW g PROVE F(g) = G(g)
    OBVIOUS
  <2>0. ASSUME NEW n \in Nat, NEW data \in Bytes
        PROVE  (IF n = 0 \/ data = <<>> THEN {}
                ELSE IF data[1] = 0 \/ data[1] >= Len(data) THEN {}
                ELSE {[type |-> data[2], payload |-> SubSeq(data, 3, data[1] + 1)]}
                       \union g[n - 1][After(data, data[1] + 1)])
               = (IF n = 0 THEN {}
                  ELSE IF Whole(data)
                       THEN {Lead(data)} \union g[n - 1][Rest(data)]
                  ELSE {})
    <3>1. data # <<>> /\ ~(data[1] = 0 \/ data[1] >= Len(data)) <=> Whole(data)
      BY FirstByte DEF Whole
    <3>2. CASE n = 0 \/ ~Whole(data)
      BY <3>1, <3>2, Zenon
    <3>3. CASE n # 0 /\ Whole(data)
      BY <3>1, <3>3, Zenon DEF Lead, Rest
    <3> QED BY <3>2, <3>3, Zenon
  <2> QED BY <2>0
<1>5. f = G(f)
  <2>1. ASSUME NEW n \in Nat PROVE f[n] = G(f)[n]
    <3>1. CASE n = 0
      BY <3>1, <1>3
    <3>2. CASE n # 0
      <4>1. n - 1 \in Nat /\ n = (n - 1) + 1
        BY <3>2
      <4>2. f[n] = next(f[n - 1])
        BY <4>1, <1>3, Zenon
      <4> QED BY <3>2, <4>2
    <3> QED BY <3>1, <3>2
  <2> HIDE DEF S
  <2> QED BY <1>3, <2>1
<1>6. f = F(f)
  <2> HIDE DEF F, G
  <2> QED BY <1>4, <1>5
<1>7. Read = F(Read)
  BY <1>6, Zenon DEF Read
<1>8. Read = G(Read)
  <2> HIDE DEF F, G
  <2> QED BY <1>4, <1>7
<1> HIDE DEF F, S, none, step, next
<1>9. ASSUME NEW n \in Nat, NEW data \in Bytes
      PROVE  Read[n][data] =
               IF n = 0 THEN {}
               ELSE IF Whole(data)
                    THEN {Lead(data)} \union Read[n - 1][Rest(data)]
               ELSE {}
  <2>1. G(Read)[n] = [d \in Bytes |->
           IF n = 0 THEN {}
           ELSE IF Whole(d) THEN {Lead(d)} \union Read[n - 1][Rest(d)]
           ELSE {}]
    OBVIOUS
  <2>2. G(Read)[n][data] =
           IF n = 0 THEN {}
           ELSE IF Whole(data) THEN {Lead(data)} \union Read[n - 1][Rest(data)]
           ELSE {}
    BY <2>1, Zenon
  <2> HIDE DEF G
  <2>3. Read[n] = G(Read)[n]
    BY <1>8, Zenon
  <2> QED BY <2>2, <2>3, Zenon
<1> HIDE DEF G
<1> SUFFICES ASSUME NEW n \in Nat, NEW data \in Bytes
             PROVE  /\ Read[0][data] = {}
                    /\ Read[n + 1][data] =
                         IF Whole(data) THEN {Lead(data)} \union Read[n][Rest(data)]
                         ELSE {}
  OBVIOUS
<1>10. Read[0][data] = {}
  BY <1>9
<1>11. n + 1 \in Nat /\ n + 1 # 0 /\ (n + 1) - 1 = n
  OBVIOUS
<1>12. Read[n + 1][data] =
         IF Whole(data) THEN {Lead(data)} \union Read[(n + 1) - 1][Rest(data)]
         ELSE {}
  BY <1>9, <1>11, Zenon
<1> QED BY <1>10, <1>11, <1>12, Zenon

\* A packet has no more structures than bytes.
LEMMA ReadAll ==
  \A data \in Bytes : \A n \in Nat :
    Len(data) <= n => Read[n][data] = Structures(data)
<1> DEFINE Good(data) == \A n \in Nat : Len(data) <= n => Read[n][data] = Structures(data)
           T == {k \in Nat : \A data \in Bytes : Len(data) <= k => Good(data)}
<1>0. \A data \in Bytes : Len(data) \in Nat
  BY DEF Bytes
<1>1. ASSUME NEW data \in Bytes, ~Whole(data) PROVE Good(data)
  <2>1. ASSUME NEW n \in Nat PROVE Read[n][data] = {}
    <3>1. CASE n = 0
      BY <3>1, ReadStep
    <3>2. CASE n # 0
      <4>1. PICK m \in Nat : n = m + 1
        <5>1. n - 1 \in Nat /\ n = (n - 1) + 1
          BY <3>2
        <5> QED BY <5>1
      <4> QED BY <4>1, <1>1, ReadStep
    <3> QED BY <3>1, <3>2
  <2> QED BY <1>0, <2>1 DEF Structures
<1>2. 0 \in T
  <2>1. \A data \in Bytes : Len(data) <= 0 => data = <<>>
    BY DEF Bytes
  <2>2. \A data \in Bytes : data = <<>> => ~Whole(data)
    BY DEF Whole
  <2> HIDE DEF Good
  <2> QED BY <1>1, <2>1, <2>2
<1>3. ASSUME NEW k \in Nat, k \in T PROVE k + 1 \in T
  <2>1. \A data \in Bytes : Len(data) <= k => Good(data)
    BY <1>3
  <2> SUFFICES ASSUME NEW data \in Bytes, Len(data) <= k + 1 PROVE Good(data)
    OBVIOUS
  <2>2. CASE Whole(data)
    <3>1. /\ Rest(data) \in Bytes /\ Len(Rest(data)) \in Nat
          /\ Len(Rest(data)) < Len(data) /\ Len(data) \in Nat
      BY <1>0, <2>2, WholeParts
    <3>2. Good(Rest(data))
      <4>1. Len(Rest(data)) <= k
        BY <3>1
      <4> HIDE DEF Good
      <4> QED BY <2>1, <3>1, <4>1
    <3>3. ASSUME NEW n \in Nat, Len(data) <= n
          PROVE  Read[n][data] = {Lead(data)} \union Structures(Rest(data))
      <4>1. PICK m \in Nat : n = m + 1
        <5>1. n - 1 \in Nat /\ n = (n - 1) + 1
          BY <3>1, <3>3
        <5> QED BY <5>1
      <4>2. Len(Rest(data)) <= m
        BY <3>1, <3>3, <4>1
      <4>3. Read[m][Rest(data)] = Structures(Rest(data))
        BY <3>2, <4>2
      <4>4. Read[m + 1][data] = {Lead(data)} \union Read[m][Rest(data)]
        BY <2>2, ReadStep
      <4> QED BY <4>1, <4>3, <4>4, Zenon
    <3>4. Structures(data) = {Lead(data)} \union Structures(Rest(data))
      <4>1. Len(data) <= Len(data)
        BY <3>1
      <4>2. Read[Len(data)][data] = {Lead(data)} \union Structures(Rest(data))
        BY <3>1, <3>3, <4>1
      <4> QED BY <4>2, Zenon DEF Structures
    <3> QED BY <3>3, <3>4
  <2>3. CASE ~Whole(data)
    BY <2>3, <1>1
  <2> QED BY <2>2, <2>3
<1>4. \A k \in T : \A data \in Bytes : Len(data) <= k => Good(data)
  OBVIOUS
<1>5. \A k \in Nat : k <= k
  OBVIOUS
<1> HIDE DEF T, Good
<1>6. \A data \in Bytes : Good(data)
  <2>1. Nat \subseteq T
    BY <1>2, <1>3, Induct
  <2> QED BY <1>0, <1>4, <1>5, <2>1
<1> QED BY <1>6 DEF Good

\* The structures of a packet are its first and those of the rest, if it has
\* a first.
LEMMA StructuresStep ==
  ASSUME NEW data \in Bytes
  PROVE  Structures(data) = IF Whole(data)
                            THEN {Lead(data)} \union Structures(Rest(data))
                            ELSE {}
<1>0. PICK n \in Nat : n = Len(data)
  BY DEF Bytes
<1>1. n <= n + 1 /\ n + 1 \in Nat
  OBVIOUS
<1>2. Structures(data) = Read[n + 1][data]
  BY <1>0, <1>1, ReadAll
<1>3. Read[n + 1][data] = IF Whole(data)
                          THEN {Lead(data)} \union Read[n][Rest(data)]
                          ELSE {}
  BY ReadStep
<1>4. ASSUME Whole(data) PROVE Read[n][Rest(data)] = Structures(Rest(data))
  <2>1. Rest(data) \in Bytes /\ Len(Rest(data)) <= n
    BY <1>0, <1>4, WholeParts
  <2> QED BY <2>1, ReadAll
<1> QED BY <1>2, <1>3, <1>4

\* The structure that push_ad writes is read back in front of whatever follows.
LEMMA PushRead ==
  ASSUME NEW type \in Byte, NEW payload \in Bytes, Len(payload) <= 254,
         NEW rest \in Bytes
  PROVE  Structures(push_ad(type, payload) \o rest)
           = {[type |-> type, payload |-> payload]} \union Structures(rest)
<1>1. PICK n \in Nat : n = Len(payload)
  BY DEF Bytes
<1>2. PICK head \in Bytes : /\ head = <<n + 1, type>>
                            /\ Len(head) = 2 /\ head[1] = n + 1 /\ head[2] = type
                            /\ push_ad(type, payload) = head \o payload
  <2>1. PICK b \in Nat : b = n + 1 /\ b \in 0..255
    BY <1>1
  <2>2. ASSUME NEW k \in 0..255 PROVE k % 256 = k
    OBVIOUS
  <2>3. push_ad(type, payload) = <<b, type>> \o payload
    BY <1>1, <2>1, <2>2 DEF push_ad
  <2>4. <<b, type>> \in Bytes
    BY <2>1 DEF Byte, Bytes
  <2> QED BY <2>1, <2>3, <2>4
<1> DEFINE ad == head \o payload
           data == ad \o rest
<1>3. /\ ad \in Bytes /\ Len(ad) = 2 + n
      /\ ad[1] = n + 1 /\ ad[2] = type
      /\ \A i \in 1..n : ad[2 + i] = payload[i]
  <2>1. /\ head \o payload \in Bytes
        /\ Len(head \o payload) = Len(head) + Len(payload)
        /\ \A i \in 1..Len(head) : (head \o payload)[i] = head[i]
        /\ \A i \in 1..Len(payload) :
             (head \o payload)[Len(head) + i] = payload[i]
    BY Appended
  <2>2. /\ ad \in Bytes /\ Len(ad) = 2 + n
        /\ \A i \in 1..2 : ad[i] = head[i]
        /\ \A i \in 1..n : ad[2 + i] = payload[i]
    BY <1>1, <1>2, <2>1
  <2> HIDE DEF ad
  <2>3. ad[1] = head[1] /\ ad[2] = head[2]
    BY <2>2
  <2> QED BY <1>2, <2>2, <2>3
<1> HIDE DEF ad
<1>4. PICK k \in Nat : k = Len(rest)
  BY DEF Bytes
<1>5. /\ data \in Bytes /\ Len(data) = 2 + n + k
      /\ \A i \in 1..(2 + n) : data[i] = ad[i]
      /\ \A i \in 1..k : data[2 + n + i] = rest[i]
  <2>1. /\ ad \o rest \in Bytes
        /\ Len(ad \o rest) = Len(ad) + Len(rest)
        /\ \A i \in 1..Len(ad) : (ad \o rest)[i] = ad[i]
        /\ \A i \in 1..Len(rest) : (ad \o rest)[Len(ad) + i] = rest[i]
    BY <1>3, Appended
  <2> QED BY <1>3, <1>4, <2>1
<1> HIDE DEF data
<1>6. data[1] = n + 1 /\ data[2] = type
  <2>1. 1 \in 1..(2 + n) /\ 2 \in 1..(2 + n)
    OBVIOUS
  <2> QED BY <1>3, <1>5, <2>1
<1>7. Whole(data)
  <2>1. data # <<>>
    <3>1. Len(data) # 0
      BY <1>5
    <3> QED BY <3>1
  <2>2. data[1] # 0 /\ data[1] < Len(data)
    BY <1>5, <1>6
  <2> QED BY <2>1, <2>2 DEF Whole
<1>8. PICK two \in Nat, m \in Nat : two = 2 /\ m = n + 2 /\ two <= m /\ m <= Len(data)
                                    /\ two + 1 = 3 /\ m = (n + 1) + 1 /\ m - two = n
                                    /\ Len(data) \in Nat /\ Len(data) - m = k
  <2>1. n + 2 \in Nat
    OBVIOUS
  <2> QED BY <2>1, <1>5
<1>9. SubSeq(data, 3, data[1] + 1) = payload
  <2>1. /\ SubSeq(data, two + 1, m) \in Bytes
        /\ Len(SubSeq(data, two + 1, m)) = m - two
        /\ \A i \in 1..(m - two) : SubSeq(data, two + 1, m)[i] = data[two + i]
    <3>1. data \in Bytes /\ two <= m /\ m <= Len(data)
      BY <1>5, <1>8
    <3> QED BY <3>1, Part
  <2>2. PICK p \in Bytes : /\ p = SubSeq(data, 3, data[1] + 1)
                           /\ Len(p) = n
                           /\ \A i \in 1..n : p[i] = data[2 + i]
    BY <1>6, <1>8, <2>1
  <2>3. ASSUME NEW i \in 1..n PROVE p[i] = payload[i]
    <3>1. 2 + i \in 1..(2 + n)
      OBVIOUS
    <3> QED BY <1>3, <1>5, <2>2, <3>1
  <2>4. p = payload
    BY <1>1, <2>2, <2>3, SameBytes
  <2> QED BY <2>2, <2>4
<1>10. Rest(data) = rest
  <2>1. /\ SubSeq(data, m + 1, Len(data)) \in Bytes
        /\ Len(SubSeq(data, m + 1, Len(data))) = Len(data) - m
        /\ \A i \in 1..(Len(data) - m) :
             SubSeq(data, m + 1, Len(data))[i] = data[m + i]
    <3>1. data \in Bytes /\ m <= Len(data) /\ Len(data) \in Nat
          /\ Len(data) <= Len(data)
      BY <1>5, <1>8
    <3> QED BY <3>1, Part
  <2>2. PICK r \in Bytes : /\ r = Rest(data)
                           /\ Len(r) = k
                           /\ \A i \in 1..k : r[i] = data[m + i]
    BY <1>6, <1>8, <2>1 DEF Rest, After
  <2>3. ASSUME NEW i \in 1..k PROVE r[i] = rest[i]
    <3>1. m + i = 2 + n + i
      BY <1>8
    <3> QED BY <1>5, <2>2, <3>1
  <2>4. r = rest
    BY <1>4, <2>2, <2>3, SameBytes
  <2> QED BY <2>2, <2>4
<1>11. Lead(data) = [type |-> type, payload |-> payload]
  BY <1>6, <1>9 DEF Lead
<1>12. Structures(data)
         = {[type |-> type, payload |-> payload]} \union Structures(rest)
  BY <1>5, <1>7, <1>10, <1>11, StructuresStep
<1> QED BY <1>2, <1>12, Zenon DEF data, ad

\* Bytes that stand for the structures S wherever they are.
Packs(data, S) ==
  /\ data \in Bytes
  /\ \A rest \in Bytes : Structures(data \o rest) = S \union Structures(rest)

LEMMA PacksNone == Packs(<<>>, {})
<1>1. <<>> \in Bytes /\ \A rest \in Bytes : <<>> \o rest = rest
  BY ConcatEmptySeq DEF Bytes
<1> QED BY <1>1 DEF Packs

LEMMA PacksOne ==
  ASSUME NEW type \in Byte, NEW payload \in Bytes, Len(payload) <= 254
  PROVE  Packs(push_ad(type, payload), {[type |-> type, payload |-> payload]})
BY PushBytes, PushRead DEF Packs

LEMMA PacksBoth ==
  ASSUME NEW a, NEW b, NEW A, NEW B, Packs(a, A), Packs(b, B)
  PROVE  Packs(a \o b, A \union B)
<1>1. a \in Bytes /\ b \in Bytes
  BY DEF Packs
<1>2. a \o b \in Bytes
  BY <1>1, Appended
<1>3. ASSUME NEW rest \in Bytes
      PROVE  Structures((a \o b) \o rest) = (A \union B) \union Structures(rest)
  <2>1. (a \o b) \o rest = a \o (b \o rest)
    BY <1>1, ConcatAssociative DEF Bytes
  <2>2. b \o rest \in Bytes
    BY <1>1, Appended
  <2>3. Structures(a \o (b \o rest)) = A \union Structures(b \o rest)
    BY <2>2 DEF Packs
  <2>4. Structures(b \o rest) = B \union Structures(rest)
    BY DEF Packs
  <2> QED BY <2>1, <2>3, <2>4
<1> QED BY <1>2, <1>3 DEF Packs

LEMMA PacksAll ==
  ASSUME NEW n \in Nat, NEW ss \in [1..n -> Bytes], NEW SS,
         \A i \in 1..n : Packs(ss[i], SS[i])
  PROVE  Packs(FlattenSeq(ss), UNION {SS[i] : i \in 1..n})
<1>1. PICK f : Grows(f, ss, n) /\ FlattenSeq(ss) = f[n]
  BY Joined
<1> DEFINE T == {i \in Nat : i <= n => Packs(f[i], UNION {SS[j] : j \in 1..i})}
<1>2. 0 \in T
  <2>1. f[0] = <<>> /\ UNION {SS[j] : j \in 1..0} = {}
    BY <1>1 DEF Grows
  <2> QED BY <2>1, PacksNone
<1>3. ASSUME NEW i \in Nat, i \in T PROVE i + 1 \in T
  <2> SUFFICES ASSUME i + 1 <= n
               PROVE  Packs(f[i + 1], UNION {SS[j] : j \in 1..(i + 1)})
    OBVIOUS
  <2>1. i + 1 \in 1..n /\ (i + 1) - 1 = i /\ i <= n
    OBVIOUS
  <2>2. Packs(f[i], UNION {SS[j] : j \in 1..i})
    BY <1>3, <2>1
  <2>3. f[i + 1] = f[i] \o ss[i + 1]
    BY <1>1, <2>1 DEF Grows
  <2>4. Packs(f[i] \o ss[i + 1], (UNION {SS[j] : j \in 1..i}) \union SS[i + 1])
    BY <2>1, <2>2, PacksBoth
  <2>5. (UNION {SS[j] : j \in 1..i}) \union SS[i + 1]
          = UNION {SS[j] : j \in 1..(i + 1)}
    <3>1. 1..(i + 1) = (1..i) \union {i + 1}
      OBVIOUS
    <3> QED BY <3>1
  <2> QED BY <2>3, <2>4, <2>5
<1>4. n \in T
  <2> HIDE DEF T
  <2> QED BY <1>2, <1>3, Induct
<1> QED BY <1>1, <1>4

-----------------------------------------------------------------------------
(* The structures of a packet.                                             *)

Uuids         == Get("UUIDs", <<>>)
ServiceData   == Get("ServiceData", <<>>)
CompanyData   == Get("ManufacturerData", <<>>)
WithId        == {e \in ToSet(ServiceData) : parse_uuid(e.key) # <<>>}
PowerIsSent   == "TxPower" \in DOMAIN props /\ props["TxPower"] \in -128..127

AdsOf(t, T) == {[type |-> t, payload |-> v] : v \in T}
Carried(S)  == {s.payload : s \in S}

NameAds    == AdsOf(9, {props[k] : k \in DOMAIN props \intersect {"Name"}})
ListAds(n) == AdsOf(ListType[n], {UuidBytes(Uuids, n)} \ {<<>>})
ServiceAd(e) == [type    |-> ServiceDataType[Len(parse_uuid(e.key))],
                 payload |-> ServicePayload(e)]
ServiceAds == {ServiceAd(e) : e \in WithId}
CompanyAd(e) == [type |-> 255, payload |-> CompanyPayload(e)]
CompanyAds == {CompanyAd(e) : e \in ToSet(CompanyData)}
PowerAd    == [type |-> 10, payload |-> <<props["TxPower"] % 256>>]
PowerAds   == IF PowerIsSent THEN {PowerAd} ELSE {}

\* Every value fits a structure.
LEMMA Fits ==
  ASSUME Known
  PROVE  /\ "Name" \in DOMAIN props => Len(props["Name"]) <= 254
         /\ \A e \in ToSet(ServiceData) :
              /\ e \in Entry(Bytes)
              /\ Len(ServicePayload(e)) <= 254
         /\ \A e \in ToSet(CompanyData) :
              /\ e \in Entry(UInt16)
              /\ Len(CompanyPayload(e)) <= 254
<1>1. "Name" \in DOMAIN props => Len(props["Name"]) <= 254
  BY ReceivedAssumption DEF Known
<1>2. ASSUME NEW e \in ToSet(ServiceData)
      PROVE  e \in Entry(Bytes) /\ Len(ServicePayload(e)) <= 254
  <2>1. ServiceData \in Seq(Entry(Bytes))
    BY Given DEF ServiceData
  <2>2. e \in Entry(Bytes)
    BY <2>1 DEF ToSet
  <2>3. "ServiceData" \in DOMAIN props
    BY DEF ServiceData, Get, ToSet
  <2>4. ServiceData \in Values["ServiceData"]
    BY <2>3 DEF ServiceData, Get, Known
  <2>5. Len(parse_uuid(e.key)) + Len(e.data) <= 254
    BY <2>4, ReceivedAssumption
  <2>6. e.key \in Bytes /\ e.data \in Bytes
    BY <2>2, EntryParts
  <2>7. /\ Reverse(parse_uuid(e.key)) \in Bytes
        /\ Len(Reverse(parse_uuid(e.key))) = Len(parse_uuid(e.key))
    BY <2>6, Parsed, Reversed
  <2>8. PICK a \in Bytes, b \in Bytes :
          a = Reverse(parse_uuid(e.key)) /\ b = e.data
    BY <2>6, <2>7
  <2>9. Len(a \o b) = Len(a) + Len(b)
    BY Appended
  <2>10. Len(ServicePayload(e)) = Len(parse_uuid(e.key)) + Len(e.data)
    BY <2>7, <2>8, <2>9, Zenon DEF ServicePayload
  <2> QED BY <2>2, <2>5, <2>10
<1>3. ASSUME NEW e \in ToSet(CompanyData)
      PROVE  e \in Entry(UInt16) /\ Len(CompanyPayload(e)) <= 254
  <2>1. CompanyData \in Seq(Entry(UInt16))
    BY Given DEF CompanyData
  <2>2. e \in Entry(UInt16)
    BY <2>1 DEF ToSet
  <2>3. "ManufacturerData" \in DOMAIN props
    BY DEF CompanyData, Get, ToSet
  <2>4. CompanyData \in Values["ManufacturerData"]
    BY <2>3 DEF CompanyData, Get, Known
  <2>5. Len(e.data) <= 252
    BY <2>4, ReceivedAssumption
  <2>6. e.key \in UInt16 /\ e.data \in Bytes
    BY <2>2, EntryParts
  <2>7. PICK two \in Bytes : /\ Len(two) = 2
                             /\ CompanyPayload(e) = two \o e.data
    BY <2>6, CompanyBytes DEF CompanyPayload
  <2>8. PICK b \in Bytes : b = e.data
    BY <2>6
  <2>9. Len(two \o b) = Len(two) + Len(b) /\ Len(b) \in Nat
    BY Appended
  <2>10. Len(b) <= 252 /\ CompanyPayload(e) = two \o b
    BY <2>5, <2>7, <2>8, Zenon
  <2>11. Len(two \o b) <= 254
    BY <2>7, <2>9, <2>10
  <2> QED BY <2>2, <2>10, <2>11
<1> QED BY <1>1, <1>2, <1>3

\* What each part of build_raw_advertisement_data writes stands for.
LEMMA PacksName ==
  ASSUME Known
  PROVE  Packs(IF "Name" \in DOMAIN props THEN push_ad(9, props["Name"]) ELSE <<>>,
               NameAds)
<1>1. CASE "Name" \in DOMAIN props
  <2>1. NameAds = {[type |-> 9, payload |-> props["Name"]]}
    BY <1>1 DEF NameAds, AdsOf
  <2>2. 9 \in Byte
    BY DEF Byte
  <2>3. Packs(push_ad(9, props["Name"]), {[type |-> 9, payload |-> props["Name"]]})
    BY <1>1, <2>2, Given, Fits, PacksOne
  <2> QED BY <1>1, <2>1, <2>3
<1>2. CASE "Name" \notin DOMAIN props
  <2>1. NameAds = {}
    BY <1>2 DEF NameAds, AdsOf
  <2> QED BY <1>2, <2>1, PacksNone
<1> QED BY <1>1, <1>2

LEMMA PacksList ==
  ASSUME Known, ListsFit, NEW n \in Sizes
  PROVE  Packs(UuidList(Uuids, n, ListType[n]), ListAds(n))
<1>1. PICK list \in Bytes : list = UuidBytes(Uuids, n) /\ Len(list) <= 254
  BY Given, FieldBytes DEF Uuids, ListsFit
<1>2. CASE list = <<>>
  <2>1. ListAds(n) = {} /\ UuidList(Uuids, n, ListType[n]) = <<>>
    BY <1>1, <1>2 DEF ListAds, AdsOf, UuidList
  <2> QED BY <2>1, PacksNone
<1>3. CASE list # <<>>
  <2>1. /\ ListAds(n) = {[type |-> ListType[n], payload |-> list]}
        /\ UuidList(Uuids, n, ListType[n]) = push_ad(ListType[n], list)
    BY <1>1, <1>3 DEF ListAds, AdsOf, UuidList
  <2>2. ListType[n] \in Byte
    BY TypesAreBytes DEF Byte
  <2> QED BY <1>1, <2>1, <2>2, PacksOne
<1> QED BY <1>2, <1>3

LEMMA PacksService ==
  ASSUME Known
  PROVE  Packs(push_service_data_ad(ServiceData), ServiceAds)
<1> DEFINE ads(e) == IF parse_uuid(e.key) = <<>> THEN {} ELSE {ServiceAd(e)}
           n      == Len(ServiceData)
           ss     == [i \in DOMAIN ServiceData |-> ServicePart(ServiceData[i])]
           SS     == [i \in 1..n |-> ads(ServiceData[i])]
<1>1. /\ n \in Nat /\ DOMAIN ServiceData = 1..n
      /\ \A i \in 1..n : ServiceData[i] \in Entry(Bytes)
  BY Given DEF ServiceData
<1>2. ASSUME NEW e \in ToSet(ServiceData) PROVE Packs(ServicePart(e), ads(e))
  <2>1. CASE parse_uuid(e.key) = <<>>
    BY <2>1, PacksNone DEF ServicePart
  <2>2. CASE parse_uuid(e.key) # <<>>
    <3>1. e \in Entry(Bytes) /\ Len(ServicePayload(e)) <= 254
      BY <1>2, Fits
    <3>2. ServicePayload(e) \in Bytes /\ e.key \in Bytes
      BY <3>1, PartBytes, EntryParts
    <3>3. Len(parse_uuid(e.key)) \in Sizes
      BY <2>2, <3>2, Parsed
    <3>4. ServiceDataType[Len(parse_uuid(e.key))] \in Byte
      BY <3>3, TypesAreBytes DEF Byte
    <3>5. ServicePart(e) = push_ad(ServiceDataType[Len(parse_uuid(e.key))],
                                   ServicePayload(e))
      BY <2>2 DEF ServicePart, ServicePayload
    <3>6. Packs(push_ad(ServiceDataType[Len(parse_uuid(e.key))],
                        ServicePayload(e)), {ServiceAd(e)})
      BY <3>1, <3>2, <3>4, PacksOne DEF ServiceAd
    <3> QED BY <2>2, <3>5, <3>6
  <2> QED BY <2>1, <2>2
<1>3. ss \in [1..n -> Bytes]
  BY <1>1, PartBytes
<1>4. ASSUME NEW i \in 1..n PROVE Packs(ss[i], SS[i])
  <2>1. ServiceData[i] \in ToSet(ServiceData)
    BY <1>1 DEF ToSet
  <2>2. Packs(ServicePart(ServiceData[i]), ads(ServiceData[i]))
    BY <1>2, <2>1
  <2>3. ss[i] = ServicePart(ServiceData[i]) /\ SS[i] = ads(ServiceData[i])
    BY <1>1
  <2> QED BY <2>2, <2>3, Zenon
<1>5. push_service_data_ad(ServiceData) = FlattenSeq(ss)
  BY Zenon DEF push_service_data_ad, ServicePart
<1>6. UNION {SS[i] : i \in 1..n} = ServiceAds
  BY <1>1 DEF ServiceAds, WithId, ToSet
<1> HIDE DEF ss, SS, n
<1>7. Packs(FlattenSeq(ss), UNION {SS[i] : i \in 1..n})
  BY <1>1, <1>3, <1>4, PacksAll
<1> QED BY <1>5, <1>6, <1>7, Zenon

LEMMA PacksCompany ==
  ASSUME Known
  PROVE  Packs(push_manufacturer_data_ad(CompanyData), CompanyAds)
<1> DEFINE n  == Len(CompanyData)
           ss == [i \in DOMAIN CompanyData |-> CompanyPart(CompanyData[i])]
           SS == [i \in 1..n |-> {CompanyAd(CompanyData[i])}]
<1>1. /\ n \in Nat /\ DOMAIN CompanyData = 1..n
      /\ \A i \in 1..n : CompanyData[i] \in Entry(UInt16)
  BY Given DEF CompanyData
<1>2. ASSUME NEW e \in ToSet(CompanyData)
      PROVE  Packs(CompanyPart(e), {CompanyAd(e)})
  <2>1. e \in Entry(UInt16) /\ Len(CompanyPayload(e)) <= 254
    BY <1>2, Fits
  <2>2. CompanyPayload(e) \in Bytes
    BY <2>1, PartBytes
  <2>3. 255 \in Byte
    BY DEF Byte
  <2> QED BY <2>1, <2>2, <2>3, PacksOne DEF CompanyPart, CompanyAd
<1>3. ss \in [1..n -> Bytes]
  BY <1>1, PartBytes
<1>4. ASSUME NEW i \in 1..n PROVE Packs(ss[i], SS[i])
  <2>1. CompanyData[i] \in ToSet(CompanyData)
    BY <1>1 DEF ToSet
  <2>2. Packs(CompanyPart(CompanyData[i]), {CompanyAd(CompanyData[i])})
    BY <1>2, <2>1
  <2>3. ss[i] = CompanyPart(CompanyData[i]) /\ SS[i] = {CompanyAd(CompanyData[i])}
    BY <1>1
  <2> QED BY <2>2, <2>3, Zenon
<1>5. push_manufacturer_data_ad(CompanyData) = FlattenSeq(ss)
  BY Zenon DEF push_manufacturer_data_ad, CompanyPart, CompanyPayload
<1>6. UNION {SS[i] : i \in 1..n} = CompanyAds
  BY <1>1 DEF CompanyAds, ToSet
<1> HIDE DEF ss, SS, n
<1>7. Packs(FlattenSeq(ss), UNION {SS[i] : i \in 1..n})
  BY <1>1, <1>3, <1>4, PacksAll
<1> QED BY <1>5, <1>6, <1>7, Zenon

LEMMA PacksPower ==
  ASSUME Known
  PROVE  Packs(IF "TxPower" \in DOMAIN props THEN TxPowerAd(props["TxPower"])
               ELSE <<>>, PowerAds)
<1>1. CASE PowerIsSent
  <2>1. "TxPower" \in DOMAIN props /\ props["TxPower"] \in -128..127
    BY <1>1 DEF PowerIsSent
  <2>2. PICK b \in Byte : b = props["TxPower"] % 256
    BY <2>1 DEF Byte
  <2>3. <<b>> \in Bytes /\ Len(<<b>>) <= 254 /\ 10 \in Byte
    BY DEF Bytes, Byte
  <2>4. Packs(push_ad(10, <<b>>), {[type |-> 10, payload |-> <<b>>]})
    BY <2>3, PacksOne
  <2> QED BY <1>1, <2>1, <2>2, <2>4 DEF TxPowerAd, PowerAds, PowerAd
<1>2. CASE ~PowerIsSent
  BY <1>2, PacksNone DEF PowerIsSent, PowerAds, TxPowerAd
<1> QED BY <1>1, <1>2

\* The structures of a packet are those of its parts.
LEMMA PacketStructures ==
  ASSUME Known, ListsFit
  PROVE  Structures(build_raw_advertisement_data)
           = (((NameAds \union ((ListAds(2) \union ListAds(4)) \union ListAds(16)))
                 \union ServiceAds) \union CompanyAds) \union PowerAds
<1> DEFINE name   == IF "Name" \in DOMAIN props THEN push_ad(9, props["Name"])
                     ELSE <<>>
           list(n) == UuidList(Uuids, n, ListType[n])
           power  == IF "TxPower" \in DOMAIN props THEN TxPowerAd(props["TxPower"])
                     ELSE <<>>
           lists  == (list(2) \o list(4)) \o list(16)
           data   == (((name \o lists) \o push_service_data_ad(ServiceData))
                        \o push_manufacturer_data_ad(CompanyData)) \o power
           Lists  == (ListAds(2) \union ListAds(4)) \union ListAds(16)
           All    == (((NameAds \union Lists) \union ServiceAds) \union CompanyAds)
                        \union PowerAds
<1>1. push_uuid_list_ad(Uuids) = lists
  BY Zenon DEF push_uuid_list_ad
<1>2. build_raw_advertisement_data = data
  BY <1>1, Zenon
     DEF build_raw_advertisement_data, Uuids, ServiceData, CompanyData
<1>3. Packs(name, NameAds) /\ Packs(power, PowerAds)
  BY PacksName, PacksPower
<1>4. \A n \in Sizes : Packs(list(n), ListAds(n))
  BY PacksList
<1> HIDE DEF name, list, power
<1>5. Packs(lists, Lists)
  <2>1. Packs(list(2), ListAds(2)) /\ Packs(list(4), ListAds(4))
        /\ Packs(list(16), ListAds(16))
    BY <1>4 DEF Sizes
  <2>2. Packs(list(2) \o list(4), ListAds(2) \union ListAds(4))
    BY <2>1, PacksBoth
  <2> QED BY <2>1, <2>2, PacksBoth
<1> HIDE DEF lists, Lists
<1>6. Packs(name \o lists, NameAds \union Lists)
  BY <1>3, <1>5, PacksBoth
<1>7. Packs((name \o lists) \o push_service_data_ad(ServiceData),
            (NameAds \union Lists) \union ServiceAds)
  BY <1>6, PacksService, PacksBoth
<1>8. Packs(((name \o lists) \o push_service_data_ad(ServiceData))
              \o push_manufacturer_data_ad(CompanyData),
            ((NameAds \union Lists) \union ServiceAds) \union CompanyAds)
  BY <1>7, PacksCompany, PacksBoth
<1>9. Packs(data, All)
  BY <1>3, <1>8, PacksBoth
<1> HIDE DEF data, All
<1>10. <<>> \in Bytes /\ data \in Bytes /\ data \o <<>> = data
  BY <1>9, ConcatEmptySeq DEF Packs, Bytes
<1>11. Structures(<<>>) = {}
  <2>1. ~Whole(<<>>)
    BY DEF Whole
  <2> QED BY <1>10, <2>1, StructuresStep
<1>12. Structures(data) = All
  BY <1>9, <1>10, <1>11 DEF Packs
<1> QED BY <1>2, <1>12 DEF All, Lists

\* Those of a type come from one part.
Data == build_raw_advertisement_data

OfLength(n) == {e \in WithId : Len(parse_uuid(e.key)) = n}

LEMMA AdTypes ==
  ASSUME Known
  PROVE  /\ \A s \in NameAds : s.type = 9
         /\ \A n \in Sizes : \A s \in ListAds(n) : s.type = ListType[n]
         /\ \A e \in WithId : /\ Len(parse_uuid(e.key)) \in Sizes
                              /\ e \in Entry(Bytes)
                              /\ e.key \in Bytes /\ Len(e.key) = 16
         /\ \A s \in ServiceAds : s.type \in {22, 32, 33}
         /\ \A s \in CompanyAds : s.type = 255
         /\ \A s \in PowerAds : s.type = 10
<1>1. \A s \in NameAds : s.type = 9
  BY DEF NameAds, AdsOf
<1>2. \A n \in Sizes : \A s \in ListAds(n) : s.type = ListType[n]
  BY DEF ListAds, AdsOf
<1>3. ASSUME NEW e \in WithId
      PROVE  /\ Len(parse_uuid(e.key)) \in Sizes
             /\ e \in Entry(Bytes)
             /\ e.key \in Bytes /\ Len(e.key) = 16
  <2>1. e \in Entry(Bytes) /\ parse_uuid(e.key) # <<>>
    BY Fits DEF WithId
  <2>2. e.key \in Bytes
    BY <2>1, EntryParts
  <2> QED BY <2>1, <2>2, Parsed
<1>4. \A s \in ServiceAds : s.type \in {22, 32, 33}
  BY <1>3, TypesAreBytes DEF ServiceAds, ServiceAd
<1>5. \A s \in CompanyAds : s.type = 255
  BY DEF CompanyAds, CompanyAd
<1>6. \A s \in PowerAds : s.type = 10
  BY DEF PowerAds, PowerAd
<1> QED BY <1>1, <1>2, <1>3, <1>4, <1>5, <1>6

LEMMA TypesDiffer ==
  /\ \A n \in Sizes : \A m \in Sizes : ListType[n] = ListType[m] => n = m
  /\ \A n \in Sizes : \A m \in Sizes :
       ServiceDataType[n] = ServiceDataType[m] => n = m
BY DEF Sizes, ListType, ServiceDataType

LEMMA CarriedBack ==
  /\ \A T : \A t : Carried(AdsOf(t, T)) = T
  /\ \A T : Carried({ServiceAd(e) : e \in T}) = {ServicePayload(e) : e \in T}
  /\ \A T : Carried({CompanyAd(e) : e \in T}) = {CompanyPayload(e) : e \in T}
<1>1. ASSUME NEW T, NEW t PROVE Carried(AdsOf(t, T)) = T
  <2>1. \A v \in T : [type |-> t, payload |-> v].payload = v
    OBVIOUS
  <2> QED BY <2>1, Zenon DEF Carried, AdsOf
<1>2. /\ \A e : ServiceAd(e).payload = ServicePayload(e)
      /\ \A e : CompanyAd(e).payload = CompanyPayload(e)
  BY DEF ServiceAd, CompanyAd
<1>3. ASSUME NEW T
      PROVE  /\ Carried({ServiceAd(e) : e \in T}) = {ServicePayload(e) : e \in T}
             /\ Carried({CompanyAd(e) : e \in T}) = {CompanyPayload(e) : e \in T}
  BY <1>2, Zenon DEF Carried
<1> QED BY <1>1, <1>3, Zenon

LEMMA PacketPayloads ==
  ASSUME Known, ListsFit
  PROVE  /\ Payloads(Data, 9) = {props[k] : k \in DOMAIN props \intersect {"Name"}}
         /\ \A n \in Sizes :
              /\ Payloads(Data, ListType[n]) = {UuidBytes(Uuids, n)} \ {<<>>}
              /\ Payloads(Data, ServiceDataType[n])
                   = {ServicePayload(e) : e \in OfLength(n)}
         /\ Payloads(Data, 255) = {CompanyPayload(e) : e \in ToSet(CompanyData)}
         /\ Payloads(Data, 10) = IF PowerIsSent THEN {<<props["TxPower"] % 256>>}
                                 ELSE {}
<1> DEFINE Ads(t) == {r \in Structures(Data) : r.type = t}
<1>0. \A t : Payloads(Data, t) = Carried(Ads(t))
  BY Zenon DEF Payloads, Carried
<1>1. \A s : s \in Structures(Data) <=>
        \/ s \in NameAds \/ \E n \in Sizes : s \in ListAds(n)
        \/ s \in ServiceAds \/ s \in CompanyAds \/ s \in PowerAds
  BY PacketStructures DEF Sizes, Data
<1>2. /\ \A s \in NameAds : s.type = 9
      /\ \A n \in Sizes : \A s \in ListAds(n) : s.type = ListType[n]
      /\ \A s \in ServiceAds : s.type \in {22, 32, 33}
      /\ \A s \in CompanyAds : s.type = 255
      /\ \A s \in PowerAds : s.type = 10
      /\ \A n \in Sizes : ListType[n] \in {3, 5, 7}
  BY AdTypes, TypesAreBytes
<1>3. Ads(9) = NameAds
  BY <1>1, <1>2
<1>4. Ads(255) = CompanyAds
  BY <1>1, <1>2
<1>5. Ads(10) = PowerAds
  BY <1>1, <1>2
<1>6. ASSUME NEW n \in Sizes PROVE Ads(ListType[n]) = ListAds(n)
  BY <1>1, <1>2, TypesDiffer
<1>7. ASSUME NEW n \in Sizes
      PROVE  Ads(ServiceDataType[n]) = {ServiceAd(e) : e \in OfLength(n)}
  <2>1. ServiceDataType[n] \in {22, 32, 33}
    BY TypesAreBytes
  <2>2. Ads(ServiceDataType[n]) = {s \in ServiceAds : s.type = ServiceDataType[n]}
    BY <1>1, <1>2, <2>1
  <2>3. \A e \in WithId : /\ Len(parse_uuid(e.key)) \in Sizes
                          /\ ServiceAd(e).type = ServiceDataType[Len(parse_uuid(e.key))]
    BY AdTypes DEF ServiceAd
  <2>4. \A e \in WithId : ServiceAd(e).type = ServiceDataType[n] <=> e \in OfLength(n)
    BY <2>3, TypesDiffer, Zenon DEF OfLength
  <2>5. \A e \in OfLength(n) : e \in WithId
    BY DEF OfLength
  <2> HIDE DEF Ads
  <2> QED BY <2>2, <2>4, <2>5 DEF ServiceAds
<1> HIDE DEF Ads
<1>8. Payloads(Data, 9) = {props[k] : k \in DOMAIN props \intersect {"Name"}}
  <2>1. Payloads(Data, 9) = Carried(NameAds)
    BY <1>0, <1>3, Zenon
  <2>2. Carried(NameAds) = {props[k] : k \in DOMAIN props \intersect {"Name"}}
    BY CarriedBack, Zenon DEF NameAds
  <2> QED BY <2>1, <2>2
<1>9. Payloads(Data, 255) = {CompanyPayload(e) : e \in ToSet(CompanyData)}
  <2>1. Payloads(Data, 255) = Carried(CompanyAds)
    BY <1>0, <1>4, Zenon
  <2>2. Carried(CompanyAds) = {CompanyPayload(e) : e \in ToSet(CompanyData)}
    BY CarriedBack, Zenon DEF CompanyAds
  <2> QED BY <2>1, <2>2
<1>10. Payloads(Data, 10) = IF PowerIsSent THEN {<<props["TxPower"] % 256>>} ELSE {}
  <2>1. Payloads(Data, 10) = Carried(PowerAds)
    BY <1>0, <1>5, Zenon
  <2>2. Carried(PowerAds) = IF PowerIsSent
                                          THEN {<<props["TxPower"] % 256>>} ELSE {}
    <3>1. Carried({PowerAd}) = {PowerAd.payload}
      BY DEF Carried
    <3>2. PowerAd.payload = <<props["TxPower"] % 256>>
      BY DEF PowerAd
    <3>3. Carried({}) = {}
      BY DEF Carried
    <3>4. PowerAds = IF PowerIsSent THEN {PowerAd} ELSE {}
      BY Zenon DEF PowerAds
    <3>5. CASE PowerIsSent
      BY <3>1, <3>2, <3>4, <3>5
    <3>6. CASE ~PowerIsSent
      BY <3>3, <3>4, <3>6
    <3> QED BY <3>5, <3>6
  <2> QED BY <2>1, <2>2
<1>11. ASSUME NEW n \in Sizes
       PROVE  Payloads(Data, ListType[n]) = {UuidBytes(Uuids, n)} \ {<<>>}
  <2>1. Payloads(Data, ListType[n]) = Carried(ListAds(n))
    BY <1>0, <1>6, Zenon
  <2>2. Carried(ListAds(n)) = {UuidBytes(Uuids, n)} \ {<<>>}
    BY CarriedBack, Zenon DEF ListAds
  <2> QED BY <2>1, <2>2
<1>12. ASSUME NEW n \in Sizes
       PROVE  Payloads(Data, ServiceDataType[n])
                = {ServicePayload(e) : e \in OfLength(n)}
  <2>1. Payloads(Data, ServiceDataType[n]) = Carried({ServiceAd(e) : e \in OfLength(n)})
    BY <1>0, <1>7, Zenon
  <2>2. Carried({ServiceAd(e) : e \in OfLength(n)}) = 
          {ServicePayload(e) : e \in OfLength(n)}
    BY CarriedBack, Zenon
  <2> QED BY <2>1, <2>2
<1> QED BY <1>8, <1>9, <1>10, <1>11, <1>12

-----------------------------------------------------------------------------
(* The power.                                                              *)

LEMMA SignReadsBack ==
  ASSUME NEW t \in -128..127
  PROVE  Signed(t % 256) = t
<1>1. CASE t >= 0
  <2>1. t % 256 = t
    BY <1>1
  <2> QED BY <1>1, <2>1 DEF Signed
<1>2. CASE t < 0
  <2>1. t % 256 = t + 256
    BY <1>2
  <2>2. PICK b \in Int : b = t % 256
    BY <2>1
  <2>3. b = t + 256 /\ ~(b < 128)
    BY <2>1, <2>2, <1>2
  <2> QED BY <2>2, <2>3 DEF Signed
<1> QED BY <1>1, <1>2

\* TxPowerReadsBack for every power that BlueZ may give.
THEOREM PowerReadsBack == Spec => []TxPowerReadsBack
<1>1. ASSUME Known, ListsFit
      PROVE  {Signed(p[1]) : p \in Payloads(build_raw_advertisement_data, 10)}
               = {t \in {Get("TxPower", 128)} : t \in -128..127}
  <2>1. Payloads(Data, 10) = IF PowerIsSent THEN {<<props["TxPower"] % 256>>}
                             ELSE {}
    BY <1>1, PacketPayloads
  <2>2. CASE PowerIsSent
    <3>1. PICK t \in -128..127 : t = props["TxPower"] /\ Get("TxPower", 128) = t
      BY <2>2 DEF PowerIsSent, Get
    <3>2. PICK b : b = t % 256
      OBVIOUS
    <3>3. Payloads(Data, 10) = {<<b>>}
      BY <2>1, <2>2, <3>1, <3>2
    <3>4. {Signed(p[1]) : p \in {<<b>>}} = {Signed(b)}
      OBVIOUS
    <3>5. Signed(b) = t
      BY <3>2, SignReadsBack
    <3>6. {x \in {Get("TxPower", 128)} : x \in -128..127} = {t}
      BY <3>1
    <3> QED BY <3>3, <3>4, <3>5, <3>6, Zenon DEF Data
  <2>3. CASE ~PowerIsSent
    <3>1. Get("TxPower", 128) \notin -128..127
      BY <2>3 DEF PowerIsSent, Get
    <3> QED BY <2>1, <2>3, <3>1 DEF Data
  <2> QED BY <2>2, <2>3
<1>2. Known => TxPowerReadsBack
  BY <1>1, Zenon DEF TxPowerReadsBack
<1> QED BY <1>2, StaysKnown, PTL

-----------------------------------------------------------------------------
(* The UUIDs of a list.                                                    *)

\* Where chunks of n bytes start and end.
LEMMA Places ==
  ASSUME NEW n \in Sizes, NEW i \in Nat, NEW m \in Nat, i < m
  PROVE  /\ n \in Nat
         /\ n * i \in Nat /\ n * (i + 1) \in Nat /\ n * m \in Nat
         /\ n * (i + 1) = n * i + n
         /\ n * (i + 1) <= n * m
<1>1. CASE n = 2
  BY <1>1
<1>2. CASE n = 4
  BY <1>2
<1>3. CASE n = 16
  BY <1>3
<1> QED BY <1>1, <1>2, <1>3 DEF Sizes

LEMMA ChunkCount ==
  ASSUME NEW n \in Sizes, NEW m \in Nat
  PROVE  (n * m) \div n = m /\ n * m \in Nat /\ n * 0 = 0
<1>1. CASE n = 2
  BY <1>1
<1>2. CASE n = 4
  BY <1>2
<1>3. CASE n = 16
  BY <1>3
<1> QED BY <1>1, <1>2, <1>3 DEF Sizes

IsChunk(s, n, i) ==
  /\ Chunk(s, n, i + 1) \in Bytes
  /\ Len(Chunk(s, n, i + 1)) = n
  /\ \A j \in 1..n : Chunk(s, n, i + 1)[j] = s[n * i + j]

LEMMA ChunkBytes ==
  ASSUME NEW n \in Sizes, NEW m \in Nat, NEW i \in Nat, i < m,
         NEW s \in Bytes, n * m <= Len(s)
  PROVE  IsChunk(s, n, i)
<1>1. /\ n \in Nat
      /\ n * i \in Nat /\ n * (i + 1) \in Nat /\ n * m \in Nat
      /\ n * (i + 1) = n * i + n
      /\ n * (i + 1) <= n * m
  BY Places
<1>2. PICK a \in Nat, b \in Nat : a = n * i /\ b = n * (i + 1)
  BY <1>1
<1>3. PICK l \in Nat : l = n * m
  BY <1>1
<1>4. b = a + n /\ a <= b /\ b <= Len(s) /\ b - a = n
  <2>1. b = a + n /\ b <= l /\ l <= Len(s) /\ n \in Nat
    BY <1>1, <1>2, <1>3
  <2>2. Len(s) \in Nat
    BY DEF Bytes
  <2> QED BY <2>1, <2>2
<1>5. /\ SubSeq(s, a + 1, b) \in Bytes
      /\ Len(SubSeq(s, a + 1, b)) = b - a
      /\ \A j \in 1..(b - a) : SubSeq(s, a + 1, b)[j] = s[a + j]
  BY <1>4, Part
<1>6. (i + 1) - 1 = i
  OBVIOUS
<1>7. Chunk(s, n, i + 1) = SubSeq(s, a + 1, b)
  BY <1>2, <1>6, Zenon DEF Chunk
<1> QED BY <1>2, <1>4, <1>5, <1>7 DEF IsChunk

\* A sequence of n bytes is the last chunk of what it is appended to.
LEMMA ChunkAdded ==
  ASSUME NEW n \in Sizes, NEW m \in Nat,
         NEW s \in Bytes, Len(s) = n * m,
         NEW t \in Bytes, Len(t) = n
  PROVE  /\ Len(s \o t) = n * (m + 1)
         /\ \A i \in Nat : i < m => Chunk(s \o t, n, i + 1) = Chunk(s, n, i + 1)
         /\ Chunk(s \o t, n, m + 1) = t
<1>1. PICK l \in Nat : l = n * m
  BY ChunkCount
<1>2. n \in Nat /\ m < m + 1 /\ m + 1 \in Nat
  BY DEF Sizes
<1>3. n * (m + 1) = l + n
  BY <1>1, <1>2, Places
<1>4. PICK u \in Bytes : /\ u = s \o t
                         /\ Len(u) = l + n
                         /\ \A i \in 1..l : u[i] = s[i]
                         /\ \A i \in 1..n : u[l + i] = t[i]
  <2>1. /\ s \o t \in Bytes
        /\ Len(s \o t) = Len(s) + Len(t)
        /\ \A i \in 1..Len(s) : (s \o t)[i] = s[i]
        /\ \A i \in 1..Len(t) : (s \o t)[Len(s) + i] = t[i]
    BY Appended
  <2> QED BY <1>1, <2>1
<1>5. n * (m + 1) <= Len(u) /\ n * m <= Len(s)
  BY <1>1, <1>2, <1>3, <1>4
<1> PICK m1 \in Nat : m1 = m + 1
  BY <1>2
<1>6. ASSUME NEW i \in Nat, i < m
      PROVE  Chunk(u, n, i + 1) = Chunk(s, n, i + 1)
  <2>1. i < m1 /\ n * m1 <= Len(u)
    BY <1>5, <1>6
  <2>2. /\ Chunk(u, n, i + 1) \in Bytes
        /\ Len(Chunk(u, n, i + 1)) = n
        /\ \A j \in 1..n : Chunk(u, n, i + 1)[j] = u[n * i + j]
    <3>1. IsChunk(u, n, i)
      BY <2>1, ChunkBytes
    <3> QED BY <3>1 DEF IsChunk
  <2>3. /\ Chunk(s, n, i + 1) \in Bytes
        /\ Len(Chunk(s, n, i + 1)) = n
        /\ \A j \in 1..n : Chunk(s, n, i + 1)[j] = s[n * i + j]
    <3>1. IsChunk(s, n, i)
      BY <1>5, <1>6, ChunkBytes
    <3> QED BY <3>1 DEF IsChunk
  <2>4. ASSUME NEW j \in 1..n PROVE u[n * i + j] = s[n * i + j]
    <3>0. n * i \in Nat /\ n * (i + 1) = n * i + n /\ n * (i + 1) <= n * m
      BY <1>6, Places
    <3>1. PICK a \in Nat : a = n * i /\ a + n <= l
      BY <1>1, <3>0
    <3>2. a + j \in 1..l
      BY <1>2, <3>1
    <3>3. u[a + j] = s[a + j]
      BY <1>4, <3>2
    <3> QED BY <3>1, <3>3
  <2>5. ASSUME NEW j \in 1..n
        PROVE  Chunk(u, n, i + 1)[j] = Chunk(s, n, i + 1)[j]
    BY <2>2, <2>3, <2>4, Zenon
  <2>6. PICK c \in Bytes, d \in Bytes :
          c = Chunk(u, n, i + 1) /\ d = Chunk(s, n, i + 1)
    BY <2>2, <2>3
  <2>7. Len(c) = n /\ Len(d) = n /\ \A j \in 1..n : c[j] = d[j]
    BY <2>2, <2>3, <2>5, <2>6, Zenon
  <2>8. c = d
    BY <2>7, SameBytes
  <2> QED BY <2>6, <2>8
<1>7. Chunk(u, n, m + 1) = t
  <2>0. m < m1 /\ n * m1 <= Len(u)
    BY <1>5
  <2>1. /\ Chunk(u, n, m + 1) \in Bytes
        /\ Len(Chunk(u, n, m + 1)) = n
        /\ \A j \in 1..n : Chunk(u, n, m + 1)[j] = u[n * m + j]
    <3>1. IsChunk(u, n, m)
      BY <2>0, ChunkBytes
    <3> QED BY <3>1 DEF IsChunk
  <2>2. PICK c \in Bytes : c = Chunk(u, n, m + 1)
    BY <2>1
  <2>3. Len(c) = n /\ \A j \in 1..n : c[j] = t[j]
    BY <1>1, <1>4, <2>1, <2>2, Zenon
  <2>4. c = t
    BY <2>3, SameBytes
  <2> QED BY <2>2, <2>4
<1> QED BY <1>3, <1>4, <1>6, <1>7, Zenon

\* Sequences of n bytes are the chunks of all of them.
LEMMA ChunksBack ==
  ASSUME NEW n \in Sizes, NEW k \in Nat, NEW ss \in [1..k -> Bytes],
         \A i \in 1..k : ss[i] = <<>> \/ Len(ss[i]) = n
  PROVE  /\ {Chunk(FlattenSeq(ss), n, i) : i \in 1..(Len(FlattenSeq(ss)) \div n)}
              = {ss[i] : i \in 1..k} \ {<<>>}
         /\ \E m \in Nat : Len(FlattenSeq(ss)) = n * m
<1>1. PICK f : Grows(f, ss, k) /\ FlattenSeq(ss) = f[k]
  BY Joined
<1> DEFINE Some(i) == {ss[j] : j \in 1..i} \ {<<>>}
           Cut(s, m) == {Chunk(s, n, j + 1) : j \in 0..(m - 1)}
           Good(i) == \E m \in Nat : Len(f[i]) = n * m /\ Cut(f[i], m) = Some(i)
           T == {i \in Nat : i <= k => Good(i)}
<1>2. 0 \in T
  <2>1. f[0] = <<>> /\ Len(<<>>) = 0
    BY <1>1 DEF Grows
  <2>2. Len(f[0]) = n * 0
    BY <2>1, ChunkCount
  <2>3. Cut(f[0], 0) = {} /\ Some(0) = {}
    OBVIOUS
  <2> QED BY <2>2, <2>3
<1>3. ASSUME NEW i \in Nat, i \in T PROVE i + 1 \in T
  <2> SUFFICES ASSUME i + 1 <= k PROVE Good(i + 1)
    OBVIOUS
  <2>1. i + 1 \in 1..k /\ i \in 0..k /\ i + 1 \in 0..k /\ (i + 1) - 1 = i /\ i <= k
    OBVIOUS
  <2>2. PICK m \in Nat : Len(f[i]) = n * m /\ Cut(f[i], m) = Some(i)
    BY <1>3, <2>1
  <2>3. PICK s \in Bytes, t \in Bytes : s = f[i] /\ t = ss[i + 1] /\ f[i + 1] = s \o t
    BY <1>1, <2>1 DEF Grows
  <2>4. Some(i + 1) = Some(i) \union ({t} \ {<<>>})
    <3>1. 1..(i + 1) = (1..i) \union {i + 1}
      OBVIOUS
    <3> QED BY <2>3, <3>1
  <2>5. CASE t = <<>>
    <3>1. s \o <<>> = s
      BY ConcatEmptySeq DEF Bytes
    <3>2. f[i + 1] = f[i] /\ Some(i + 1) = Some(i)
      BY <2>3, <2>4, <2>5, <3>1
    <3> HIDE DEF Cut, Some
    <3> QED BY <2>2, <3>2
  <2>6. CASE t # <<>>
    <3>1. Len(t) = n /\ Len(s) = n * m
      BY <2>1, <2>2, <2>3, <2>6
    <3>2. /\ Len(s \o t) = n * (m + 1)
          /\ \A j \in Nat : j < m => Chunk(s \o t, n, j + 1) = Chunk(s, n, j + 1)
          /\ Chunk(s \o t, n, m + 1) = t
      BY <3>1, ChunkAdded
    <3>3. 0..((m + 1) - 1) = (0..(m - 1)) \union {m}
          /\ \A j \in 0..(m - 1) : j \in Nat /\ j < m
      OBVIOUS
    <3>4. Cut(s \o t, m + 1) = Cut(s, m) \union {t}
      BY <3>2, <3>3
    <3>5. m + 1 \in Nat
      OBVIOUS
    <3> HIDE DEF Cut, Some
    <3>6. Cut(f[i + 1], m + 1) = Some(i + 1)
      BY <2>2, <2>3, <2>4, <2>6, <3>4
    <3>7. Len(f[i + 1]) = n * (m + 1)
      BY <2>3, <3>2
    <3> QED BY <3>5, <3>6, <3>7
  <2> QED BY <2>5, <2>6
<1>4. Good(k)
  <2> HIDE DEF Good
  <2>1. k \in T
    <3> HIDE DEF T
    <3> QED BY <1>2, <1>3, Induct
  <2> QED BY <2>1
<1>5. PICK m \in Nat : Len(f[k]) = n * m /\ Cut(f[k], m) = Some(k)
  BY <1>4
<1>6. Len(f[k]) \div n = m
  BY <1>5, ChunkCount
<1>7. {Chunk(f[k], n, i) : i \in 1..m} = Cut(f[k], m)
  <2>1. \A i \in 1..m : i - 1 \in 0..(m - 1) /\ (i - 1) + 1 = i
    OBVIOUS
  <2>2. \A i \in 0..(m - 1) : i + 1 \in 1..m
    OBVIOUS
  <2> QED BY <2>1, <2>2
<1> HIDE DEF Cut
<1> QED BY <1>1, <1>5, <1>6, <1>7, Zenon

-----------------------------------------------------------------------------
(* The forms of a UUID.                                                    *)

\* A sequence is its first part and the rest.
LEMMA Split ==
  ASSUME NEW s \in Bytes, NEW m \in Nat, m <= Len(s)
  PROVE  /\ First(s, m) \in Bytes /\ After(s, m) \in Bytes
         /\ Len(First(s, m)) = m /\ Len(After(s, m)) = Len(s) - m
         /\ \A i \in 1..m : First(s, m)[i] = s[i]
         /\ \A i \in 1..(Len(s) - m) : After(s, m)[i] = s[m + i]
         /\ First(s, m) \o After(s, m) = s
<1>1. PICK n \in Nat : n = Len(s) /\ m <= n
  BY DEF Bytes
<1>2. PICK a \in Bytes : /\ a = First(s, m) /\ Len(a) = m
                         /\ \A i \in 1..m : a[i] = s[i]
  <2>1. PICK z \in Nat : z = 0 /\ z <= m /\ z + 1 = 1 /\ m - z = m
    OBVIOUS
  <2>2. /\ SubSeq(s, z + 1, m) \in Bytes
        /\ Len(SubSeq(s, z + 1, m)) = m - z
        /\ \A i \in 1..(m - z) : SubSeq(s, z + 1, m)[i] = s[z + i]
    BY <2>1, Part
  <2>3. PICK a \in Bytes : a = SubSeq(s, 1, m)
    BY <2>1, <2>2
  <2>4. Len(a) = m /\ \A i \in 1..m : a[i] = s[z + i]
    BY <2>1, <2>2, <2>3
  <2>5. \A i \in 1..m : z + i = i
    BY <2>1
  <2> QED BY <2>3, <2>4, <2>5 DEF First
<1>3. PICK b \in Bytes : /\ b = After(s, m) /\ Len(b) = n - m
                         /\ \A i \in 1..(n - m) : b[i] = s[m + i]
  <2>1. n <= Len(s)
    BY <1>1
  <2>2. /\ SubSeq(s, m + 1, n) \in Bytes
        /\ Len(SubSeq(s, m + 1, n)) = n - m
        /\ \A i \in 1..(n - m) : SubSeq(s, m + 1, n)[i] = s[m + i]
    BY <1>1, <2>1, Part
  <2> QED BY <1>1, <2>2 DEF After
<1>4. a \o b = s
  <2>1. PICK c \in Bytes : /\ c = a \o b /\ Len(c) = n
                           /\ \A i \in 1..m : c[i] = a[i]
                           /\ \A i \in 1..(n - m) : c[m + i] = b[i]
    <3>1. /\ a \o b \in Bytes
          /\ Len(a \o b) = Len(a) + Len(b)
          /\ \A i \in 1..Len(a) : (a \o b)[i] = a[i]
          /\ \A i \in 1..Len(b) : (a \o b)[Len(a) + i] = b[i]
      BY Appended
    <3>2. Len(a) + Len(b) = n
      BY <1>1, <1>2, <1>3
    <3>3. PICK c \in Bytes : c = a \o b
      BY <3>1
    <3>4. Len(c) = n
      BY <3>1, <3>2, <3>3, Zenon
    <3>5. /\ \A i \in 1..m : c[i] = a[i]
          /\ \A i \in 1..(n - m) : c[m + i] = b[i]
      BY <1>2, <1>3, <3>1, <3>3, Zenon
    <3> QED BY <3>3, <3>4, <3>5
  <2>2. ASSUME NEW i \in 1..n PROVE c[i] = s[i]
    <3>1. CASE i <= m
      BY <1>2, <2>1, <3>1
    <3>2. CASE ~(i <= m)
      <4>1. i - m \in 1..(n - m) /\ m + (i - m) = i
        BY <3>2
      <4> QED BY <1>3, <2>1, <4>1
    <3> QED BY <3>1, <3>2
  <2>3. c = s
    BY <1>1, <2>1, <2>2, SameBytes
  <2> QED BY <2>1, <2>3
<1> QED BY <1>1, <1>2, <1>3, <1>4

\* The first of two sequences is taken off again.
LEMMA Parted ==
  ASSUME NEW s \in Bytes, NEW t \in Bytes, NEW n \in Nat, Len(s) = n
  PROVE  First(s \o t, n) = s /\ After(s \o t, n) = t
<1>1. PICK k \in Nat : k = Len(t)
  BY DEF Bytes
<1>2. PICK u \in Bytes : /\ u = s \o t /\ Len(u) = n + k
                         /\ \A i \in 1..n : u[i] = s[i]
                         /\ \A i \in 1..k : u[n + i] = t[i]
  <2>1. /\ s \o t \in Bytes
        /\ Len(s \o t) = Len(s) + Len(t)
        /\ \A i \in 1..Len(s) : (s \o t)[i] = s[i]
        /\ \A i \in 1..Len(t) : (s \o t)[Len(s) + i] = t[i]
    BY Appended
  <2> QED BY <1>1, <2>1
<1>3. n <= Len(u) /\ Len(u) - n = k
  BY <1>2
<1>4. PICK a \in Bytes, b \in Bytes :
        /\ a = First(u, n) /\ b = After(u, n)
        /\ Len(a) = n /\ Len(b) = k
        /\ \A i \in 1..n : a[i] = u[i]
        /\ \A i \in 1..k : b[i] = u[n + i]
  <2>1. /\ First(u, n) \in Bytes /\ After(u, n) \in Bytes
        /\ Len(First(u, n)) = n /\ Len(After(u, n)) = Len(u) - n
        /\ \A i \in 1..n : First(u, n)[i] = u[i]
        /\ \A i \in 1..(Len(u) - n) : After(u, n)[i] = u[n + i]
    BY <1>3, Split
  <2> QED BY <1>3, <2>1
<1>5. a = s
  BY <1>2, <1>4, SameBytes
<1>6. b = t
  <2>1. Len(b) = Len(t) /\ \A i \in 1..Len(b) : b[i] = t[i]
    BY <1>1, <1>2, <1>4, Zenon
  <2> QED BY <2>1, SameBytes
<1> QED BY <1>2, <1>4, <1>5, <1>6

\* A form stands for the UUID that it was made of, and is its shortest.
LEMMA Forms ==
  ASSUME NEW text \in Bytes, Len(text) = 16,
         NEW id, id = parse_uuid(text)
  PROVE  /\ Expand(id) = text
         /\ Len(id) = 4  => First(id, 2) # <<0, 0>>
         /\ Len(id) = 16 => After(id, 4) # BASE_UUID_SUFFIX
<1>1. PICK a \in Bytes, b \in Bytes :
        /\ a = SubSeq(text, 1, 4) /\ Len(a) = 4
        /\ b = SubSeq(text, 5, 16) /\ b = After(text, 4) /\ Len(b) = 12
        /\ \A i \in 1..4 : a[i] = text[i]
        /\ a \o b = text
  <2>1. PICK m \in Nat : m = 4 /\ m <= Len(text) /\ Len(text) - m = 12 /\ m + 1 = 5
    OBVIOUS
  <2>2. /\ First(text, m) \in Bytes /\ After(text, m) \in Bytes
        /\ Len(First(text, m)) = m /\ Len(After(text, m)) = Len(text) - m
        /\ \A i \in 1..m : First(text, m)[i] = text[i]
        /\ First(text, m) \o After(text, m) = text
    BY <2>1, Split
  <2>3. First(text, m) = SubSeq(text, 1, 4) /\ After(text, m) = SubSeq(text, 5, 16)
    BY <2>1 DEF First, After
  <2>4. After(text, m) = After(text, 4)
    BY <2>1
  <2> QED BY <2>1, <2>2, <2>3, <2>4
<1>2. PICK c \in Bytes, d \in Bytes :
        /\ c = First(a, 2) /\ Len(c) = 2
        /\ d = After(a, 2) /\ Len(d) = 2
        /\ c[1] = text[1] /\ c[2] = text[2]
        /\ d[1] = text[3] /\ d[2] = text[4]
        /\ c \o d = a
  <2>1. PICK m \in Nat : m = 2 /\ m <= Len(a) /\ Len(a) - m = 2
    BY <1>1
  <2>2. /\ First(a, m) \in Bytes /\ After(a, m) \in Bytes
        /\ Len(First(a, m)) = m /\ Len(After(a, m)) = Len(a) - m
        /\ \A i \in 1..m : First(a, m)[i] = a[i]
        /\ \A i \in 1..(Len(a) - m) : After(a, m)[i] = a[m + i]
        /\ First(a, m) \o After(a, m) = a
    BY <2>1, Split
  <2>3. PICK c \in Bytes, d \in Bytes : c = First(a, m) /\ d = After(a, m)
    BY <2>2
  <2>4. /\ Len(c) = 2 /\ Len(d) = 2 /\ c \o d = a
        /\ \A i \in 1..2 : c[i] = a[i]
        /\ \A i \in 1..2 : d[i] = a[2 + i]
    BY <2>1, <2>2, <2>3
  <2>5. /\ c[1] = a[1] /\ c[2] = a[2]
        /\ d[1] = a[3] /\ d[2] = a[4]
    BY <2>4
  <2>6. /\ c[1] = text[1] /\ c[2] = text[2]
        /\ d[1] = text[3] /\ d[2] = text[4]
    BY <1>1, <2>5
  <2> QED BY <2>1, <2>3, <2>4, <2>6
<1>3. SubSeq(text, 3, 4) = d
  <2>1. PICK m \in Nat, n \in Nat : m = 2 /\ n = 4
    OBVIOUS
  <2>2. m <= n /\ n <= Len(text) /\ m + 1 = 3 /\ n - m = 2
    BY <2>1
  <2>3. /\ SubSeq(text, m + 1, n) \in Bytes
        /\ Len(SubSeq(text, m + 1, n)) = n - m
        /\ \A i \in 1..(n - m) : SubSeq(text, m + 1, n)[i] = text[m + i]
    BY <2>2, Part
  <2>4. PICK e \in Bytes : e = SubSeq(text, 3, 4)
    BY <2>1, <2>2, <2>3
  <2>5. Len(e) = 2 /\ \A i \in 1..2 : e[i] = text[2 + i]
    BY <2>1, <2>2, <2>3, <2>4
  <2>6. e[1] = text[3] /\ e[2] = text[4]
    BY <2>5
  <2>7. \A i \in 1..2 : e[i] = d[i]
    BY <1>2, <2>6
  <2>8. e = d
    BY <1>2, <2>5, <2>7, SameBytes
  <2> QED BY <2>4, <2>8
<1>4. c = <<0, 0>> <=> text[1] = 0 /\ text[2] = 0
  <2>1. <<0, 0>> \in Bytes /\ Len(<<0, 0>>) = 2
    BY DEF Bytes, Byte
  <2>2. PICK z \in Bytes : z = <<0, 0>> /\ Len(z) = 2 /\ z[1] = 0 /\ z[2] = 0
    BY <2>1
  <2>3. ASSUME c[1] = 0, c[2] = 0 PROVE c = z
    <3>1. \A i \in 1..2 : c[i] = z[i]
      BY <2>2, <2>3
    <3> QED BY <1>2, <2>2, <3>1, SameBytes
  <2> QED BY <1>2, <2>2, <2>3
<1>5. id = IF b # BASE_UUID_SUFFIX THEN text
           ELSE IF text[1] = 0 /\ text[2] = 0 THEN d ELSE a
  BY <1>1, <1>3, Zenon DEF parse_uuid
<1>6. CASE b # BASE_UUID_SUFFIX
  <2>1. id = text /\ Len(id) = 16
    BY <1>5, <1>6
  <2>2. Expand(id) = id
    BY <2>1 DEF Expand
  <2> QED BY <1>1, <1>6, <2>1, <2>2
<1>7. CASE b = BASE_UUID_SUFFIX /\ text[1] = 0 /\ text[2] = 0
  <2>1. id = d /\ Len(id) = 2
    BY <1>2, <1>5, <1>7
  <2>2. Expand(id) = (<<0, 0>> \o id) \o BASE_UUID_SUFFIX
    <3> HIDE DEF BASE_UUID_SUFFIX
    <3> QED BY <2>1 DEF Expand
  <2>3. <<0, 0>> \o id = a
    BY <1>2, <1>4, <1>7, <2>1
  <2>4. Expand(id) = text
    BY <1>1, <1>7, <2>2, <2>3, Zenon
  <2>5. Len(id) # 4 /\ Len(id) # 16
    BY <2>1
  <2> QED BY <2>4, <2>5, Zenon
<1>8. CASE b = BASE_UUID_SUFFIX /\ ~(text[1] = 0 /\ text[2] = 0)
  <2>1. id = a /\ Len(id) = 4
    BY <1>1, <1>5, <1>8
  <2>2. Expand(id) = id \o BASE_UUID_SUFFIX
    BY <2>1 DEF Expand
  <2>3. First(id, 2) # <<0, 0>>
    BY <1>2, <1>4, <1>8, <2>1
  <2>4. Expand(id) = text
    BY <1>1, <1>8, <2>1, <2>2, Zenon
  <2>5. Len(id) # 16
    BY <2>1
  <2> QED BY <2>3, <2>4, <2>5, Zenon
<1> QED BY <1>6, <1>7, <1>8

\* The identifiers in a list, and the identifier before service data.
Chunks(list, n) == {Chunk(list, n, i) : i \in 1..(Len(list) \div n)}
WithForm(n) == {w \in ToSet(Uuids) : Len(parse_uuid(w)) = n}
Listed(n)   == {Reverse(parse_uuid(u)) : u \in WithForm(n)}

LEMMA ListedUuids ==
  ASSUME Known, NEW n \in Sizes, NEW list, list = UuidBytes(Uuids, n)
  PROVE  /\ Chunks(list, n) = Listed(n)
         /\ \E m \in Nat : Len(list) = n * m
<1>1. Uuids \in Seq(Bytes)
  BY Given DEF Uuids
<1>2. PICK k \in Nat : k = Len(Uuids) /\ DOMAIN Uuids = 1..k
  BY <1>1
<1> DEFINE ss == [i \in DOMAIN Uuids |-> UuidPart(Uuids, n, i)]
<1>3. ss \in [1..k -> Bytes] /\ \A i \in 1..k : ss[i] = UuidPart(Uuids, n, i)
  BY <1>1, <1>2, PartBytes
<1>4. list = FlattenSeq(ss)
  BY Zenon DEF UuidBytes, UuidPart
<1> HIDE DEF ss
<1>5. ASSUME NEW i \in 1..k
      PROVE  /\ Uuids[i] \in Bytes
             /\ Len(parse_uuid(Uuids[i])) = n =>
                  /\ ss[i] = Reverse(parse_uuid(Uuids[i]))
                  /\ Len(ss[i]) = n /\ ss[i] # <<>>
             /\ Len(parse_uuid(Uuids[i])) # n => ss[i] = <<>>
  <2>1. Uuids[i] \in Bytes
    BY <1>1, <1>2
  <2>2. Len(Reverse(parse_uuid(Uuids[i]))) = Len(parse_uuid(Uuids[i]))
    BY <2>1, Parsed, Reversed
  <2>3. n # 0 /\ Len(<<>>) = 0
    BY DEF Sizes
  <2>4. ss[i] = IF Len(parse_uuid(Uuids[i])) = n THEN Reverse(parse_uuid(Uuids[i]))
                ELSE <<>>
    BY <1>3, Zenon DEF UuidPart
  <2> QED BY <2>1, <2>2, <2>3, <2>4, Zenon
<1>6. /\ {Chunk(FlattenSeq(ss), n, i) : i \in 1..(Len(FlattenSeq(ss)) \div n)}
           = {ss[i] : i \in 1..k} \ {<<>>}
      /\ \E m \in Nat : Len(FlattenSeq(ss)) = n * m
  BY <1>3, <1>5, ChunksBack
<1>7. \A w : w \in ToSet(Uuids) <=> \E i \in 1..k : w = Uuids[i]
  BY <1>2 DEF ToSet
<1>8. {ss[i] : i \in 1..k} \ {<<>>} = Listed(n)
  <2>1. ASSUME NEW i \in 1..k, ss[i] # <<>>
        PROVE  /\ Uuids[i] \in ToSet(Uuids)
               /\ Len(parse_uuid(Uuids[i])) = n
               /\ ss[i] = Reverse(parse_uuid(Uuids[i]))
    BY <1>5, <1>7, <2>1, Zenon
  <2>2. ASSUME NEW u \in ToSet(Uuids), Len(parse_uuid(u)) = n
        PROVE  \E i \in 1..k : ss[i] = Reverse(parse_uuid(u)) /\ ss[i] # <<>>
    BY <1>5, <1>7, <2>2, Zenon
  <2> QED BY <2>1, <2>2 DEF Listed, WithForm
<1> QED BY <1>4, <1>6, <1>8, Zenon DEF Chunks

LEMMA ServiceUuid ==
  ASSUME Known, NEW n \in Sizes, NEW e \in OfLength(n)
  PROVE  /\ Reverse(First(ServicePayload(e), n)) = parse_uuid(e.key)
         /\ After(ServicePayload(e), n) = e.data
         /\ e.key \in Bytes /\ Len(e.key) = 16
         /\ e = [key |-> e.key, data |-> e.data]
<1>1. e \in WithId /\ Len(parse_uuid(e.key)) = n
  BY DEF OfLength
<1>2. e \in Entry(Bytes) /\ e.key \in Bytes /\ Len(e.key) = 16
  BY <1>1, AdTypes
<1>3. e.data \in Bytes /\ e = [key |-> e.key, data |-> e.data]
  BY <1>2, EntryParts
<1>4. PICK id \in Bytes, r \in Bytes, d \in Bytes :
        /\ id = parse_uuid(e.key) /\ d = e.data
        /\ r = Reverse(id) /\ Reverse(r) = id /\ Len(r) = n
  <2>1. parse_uuid(e.key) \in Bytes
    BY <1>2, Parsed
  <2>2. PICK id \in Bytes : id = parse_uuid(e.key)
    BY <2>1
  <2>3. Reverse(id) \in Bytes /\ Reverse(Reverse(id)) = id /\ Len(Reverse(id)) = Len(id)
    BY Reversed
  <2> QED BY <1>1, <1>3, <2>2, <2>3
<1>5. n \in Nat
  BY DEF Sizes
<1>6. First(r \o d, n) = r /\ After(r \o d, n) = d
  BY <1>4, <1>5, Parted
<1>7. ServicePayload(e) = r \o d
  BY <1>4, Zenon DEF ServicePayload
<1> QED BY <1>2, <1>3, <1>4, <1>6, <1>7, Zenon

\* What a list of UUIDs and the service data start with is the form of a UUID.
LEMMA IdsAreForms ==
  ASSUME Known, ListsFit, NEW n \in Sizes,
         NEW p \in Payloads(Data, ListType[n])
                     \union Payloads(Data, ServiceDataType[n])
  PROVE  \E text \in Bytes : /\ Len(text) = 16
                             /\ Reverse(First(p, n)) = parse_uuid(text)
                             /\ Len(parse_uuid(text)) = n
<1>1. CASE p \in Payloads(Data, ListType[n])
  <2>1. p = UuidBytes(Uuids, n) /\ p # <<>>
    BY <1>1, PacketPayloads
  <2>2. PICK list \in Bytes : list = p
    BY <2>1, Given, FieldBytes DEF Uuids
  <2>3. Chunks(list, n) = Listed(n)
    BY <2>1, <2>2, ListedUuids
  <2>4. PICK m \in Nat : Len(list) = n * m
    BY <2>1, <2>2, ListedUuids
  <2>5. Len(list) \div n = m /\ m # 0
    <3>1. Len(list) # 0
      BY <2>1, <2>2 DEF Bytes
    <3>2. (n * m) \div n = m /\ n * 0 = 0
      BY ChunkCount
    <3> QED BY <2>4, <3>1, <3>2
  <2>6. 1 \in 1..m
    BY <2>5
  <2>7. Chunk(list, n, 1) = First(list, n)
    <3>1. n * (1 - 1) + 1 = 1 /\ n * 1 = n
      BY DEF Sizes
    <3> QED BY <3>1, Zenon DEF Chunk, First
  <2>8. PICK u \in ToSet(Uuids) : /\ Len(parse_uuid(u)) = n
                                  /\ First(list, n) = Reverse(parse_uuid(u))
    <3>1. First(list, n) \in Listed(n)
      BY <2>3, <2>5, <2>6, <2>7 DEF Chunks
    <3> QED BY <3>1 DEF Listed, WithForm
  <2>9. u \in Bytes
    <3>1. Uuids \in Seq(Bytes)
      BY Given DEF Uuids
    <3> QED BY <3>1 DEF ToSet
  <2>10. Reverse(Reverse(parse_uuid(u))) = parse_uuid(u) /\ Len(u) = 16
    BY <2>8, <2>9, Parsed, Reversed
  <2> QED BY <2>2, <2>8, <2>9, <2>10
<1>2. CASE p \in Payloads(Data, ServiceDataType[n])
  <2>1. PICK e \in OfLength(n) : p = ServicePayload(e)
    <3>1. Payloads(Data, ServiceDataType[n])
            = {ServicePayload(e) : e \in OfLength(n)}
      BY PacketPayloads, Zenon
    <3> QED BY <1>2, <3>1
  <2>2. /\ Reverse(First(p, n)) = parse_uuid(e.key)
        /\ e.key \in Bytes /\ Len(e.key) = 16
    BY <2>1, ServiceUuid
  <2> QED BY <2>1, <2>2 DEF OfLength
<1> QED BY <1>1, <1>2

\* ShortestForm for all UUIDs that BlueZ may give.
THEOREM FormsAreShortest == Spec => []ShortestForm
<1>1. ASSUME Known, ListsFit
      PROVE  LET ids(n) == {Reverse(First(p, n)) : p \in UNION {
                              Payloads(build_raw_advertisement_data, t) :
                                t \in {ListType[n], ServiceDataType[n]}}}
             IN /\ \A id \in ids(4)  : First(id, 2) # <<0, 0>>
                /\ \A id \in ids(16) : After(id, 4) # BASE_UUID_SUFFIX
  <2>1. ASSUME NEW n \in Sizes,
               NEW p \in UNION {Payloads(build_raw_advertisement_data, t) :
                                  t \in {ListType[n], ServiceDataType[n]}}
        PROVE  /\ n = 4  => First(Reverse(First(p, n)), 2) # <<0, 0>>
               /\ n = 16 => After(Reverse(First(p, n)), 4) # BASE_UUID_SUFFIX
    <3>1. p \in Payloads(Data, ListType[n]) \union Payloads(Data, ServiceDataType[n])
      BY DEF Data
    <3>2. PICK text \in Bytes : /\ Len(text) = 16
                                /\ Reverse(First(p, n)) = parse_uuid(text)
                                /\ Len(parse_uuid(text)) = n
      BY <1>1, <3>1, IdsAreForms
    <3>3. PICK id : id = parse_uuid(text)
      OBVIOUS
    <3>4. /\ Len(id) = 4  => First(id, 2) # <<0, 0>>
          /\ Len(id) = 16 => After(id, 4) # BASE_UUID_SUFFIX
      BY <3>2, <3>3, Forms
    <3> QED BY <3>2, <3>3, <3>4, Zenon
  <2>2. 4 \in Sizes /\ 16 \in Sizes
    BY DEF Sizes
  <2>3. ASSUME NEW p \in UNION {Payloads(build_raw_advertisement_data, t) :
                                  t \in {ListType[4], ServiceDataType[4]}}
        PROVE  First(Reverse(First(p, 4)), 2) # <<0, 0>>
    BY <2>1, <2>2
  <2>4. ASSUME NEW p \in UNION {Payloads(build_raw_advertisement_data, t) :
                                  t \in {ListType[16], ServiceDataType[16]}}
        PROVE  After(Reverse(First(p, 16)), 4) # BASE_UUID_SUFFIX
    BY <2>1, <2>2
  <2> QED BY <2>3, <2>4, Zenon
<1>2. Known => ShortestForm
  BY <1>1, Zenon DEF ShortestForm
<1> QED BY <1>2, StaysKnown, PTL

-----------------------------------------------------------------------------
(* The two forms of an advert.                                             *)

\* A UUID is in the list of its form and nowhere else.
LEMMA UuidsRead ==
  ASSUME Known, ListsFit
  PROVE  ReadUuids(Data) = {u \in ToSet(Uuids) : Len(u) = 16}
<1> DEFINE Of(n) == UNION {{Expand(Reverse(Chunk(p, n, i))) :
                              i \in 1..(Len(p) \div n)} :
                             p \in Payloads(Data, ListType[n])}
<1>1. \A u \in ToSet(Uuids) : u \in Bytes
  <2>1. Uuids \in Seq(Bytes)
    BY Given DEF Uuids
  <2> QED BY <2>1 DEF ToSet
<1>2. ASSUME NEW n \in Sizes PROVE Of(n) = WithForm(n)
  <2>1. PICK list \in Bytes : list = UuidBytes(Uuids, n)
    BY Given, FieldBytes DEF Uuids
  <2>2. Chunks(list, n) = Listed(n)
    BY <2>1, ListedUuids
  <2>3. ASSUME NEW u \in WithForm(n)
        PROVE  Expand(Reverse(Reverse(parse_uuid(u)))) = u
    <3>1. u \in Bytes /\ Len(parse_uuid(u)) = n
      BY <1>1 DEF WithForm
    <3>2. Len(u) = 16 /\ Reverse(Reverse(parse_uuid(u))) = parse_uuid(u)
      BY <3>1, Parsed, Reversed
    <3>3. PICK id : id = parse_uuid(u)
      OBVIOUS
    <3>4. Expand(id) = u
      BY <3>1, <3>2, <3>3, Forms
    <3> QED BY <3>2, <3>3, <3>4, Zenon
  <2>4. {Expand(Reverse(x)) : x \in Listed(n)} = WithForm(n)
    BY <2>3, Zenon DEF Listed
  <2>0. Payloads(Data, ListType[n]) = {list} \ {<<>>}
    <3>1. Payloads(Data, ListType[n]) = {UuidBytes(Uuids, n)} \ {<<>>}
      BY <1>2, PacketPayloads
    <3> QED BY <2>1, <3>1
  <2>5. CASE list = <<>>
    <3>1. Payloads(Data, ListType[n]) = {}
      BY <2>0, <2>5
    <3>2. Of(n) = {}
      BY <3>1
    <3>3. Chunks(list, n) = {}
      <4>1. Len(<<>>) \div n = 0
        <5>1. Len(<<>>) = n * 0
          BY ChunkCount
        <5>2. (n * 0) \div n = 0
          BY ChunkCount
        <5> QED BY <5>1, <5>2, Zenon
      <4> QED BY <2>5, <4>1 DEF Chunks
    <3>4. WithForm(n) = {}
      BY <2>2, <2>4, <3>3
    <3> QED BY <3>2, <3>4
  <2>6. CASE list # <<>>
    <3>1. Payloads(Data, ListType[n]) = {list}
      BY <2>0, <2>6
    <3>2. Of(n) = {Expand(Reverse(Chunk(list, n, i))) : i \in 1..(Len(list) \div n)}
      BY <3>1
    <3>3. {Expand(Reverse(Chunk(list, n, i))) : i \in 1..(Len(list) \div n)}
            = {Expand(Reverse(x)) : x \in Chunks(list, n)}
      BY Zenon DEF Chunks
    <3> HIDE DEF Of
    <3> QED BY <2>2, <2>4, <3>2, <3>3, Zenon
  <2> QED BY <2>5, <2>6
<1>3. ReadUuids(Data) = UNION {Of(n) : n \in Sizes}
  BY Zenon DEF ReadUuids
<1>4. \A u \in ToSet(Uuids) : Len(u) = 16 <=> \E n \in Sizes : u \in WithForm(n)
  BY <1>1, Parsed, Zenon DEF WithForm
<1>5. \A n \in Sizes : \A u \in WithForm(n) : u \in ToSet(Uuids)
  BY DEF WithForm
<1> HIDE DEF Of
<1>6. \A u : u \in ReadUuids(Data) <=> \E n \in Sizes : u \in WithForm(n)
  BY <1>2, <1>3
<1> QED BY <1>4, <1>5, <1>6

\* So is service data in the structures of its form.
LEMMA ServiceRead ==
  ASSUME Known, ListsFit
  PROVE  ReadServiceData(Data) = Readable(ServiceData)
<1> DEFINE entry(n, p) == [key  |-> Expand(Reverse(First(p, n))),
                           data |-> After(p, n)]
           Of(n) == {entry(n, p) : p \in Payloads(Data, ServiceDataType[n])}
<1>1. ASSUME NEW n \in Sizes, NEW e \in OfLength(n)
      PROVE  entry(n, ServicePayload(e)) = e
  <2>1. /\ Reverse(First(ServicePayload(e), n)) = parse_uuid(e.key)
        /\ After(ServicePayload(e), n) = e.data
        /\ e.key \in Bytes /\ Len(e.key) = 16
        /\ e = [key |-> e.key, data |-> e.data]
    BY <1>1, ServiceUuid
  <2>2. PICK text, id :
          text \in Bytes /\ text = e.key /\ Len(text) = 16 /\ id = parse_uuid(text)
    BY <2>1
  <2>3. Expand(id) = text
    BY <2>2, Forms
  <2> QED BY <2>1, <2>2, <2>3, Zenon
<1>2. ASSUME NEW n \in Sizes PROVE Of(n) = OfLength(n)
  <2>1. Payloads(Data, ServiceDataType[n]) = {ServicePayload(e) : e \in OfLength(n)}
    BY <1>2, PacketPayloads
  <2> HIDE DEF entry
  <2>2. Of(n) = {entry(n, ServicePayload(e)) : e \in OfLength(n)}
    BY <2>1
  <2> QED BY <1>1, <1>2, <2>2
<1>3. ReadServiceData(Data) = UNION {Of(n) : n \in Sizes}
  BY Zenon DEF ReadServiceData
<1>4. ASSUME NEW e \in ToSet(ServiceData)
      PROVE  Len(e.key) = 16 <=> \E n \in Sizes : e \in OfLength(n)
  <2>1. e \in Entry(Bytes)
    BY Fits
  <2>2. e.key \in Bytes
    BY <2>1, EntryParts
  <2>3. /\ Len(e.key) = 16 => Len(parse_uuid(e.key)) \in Sizes
        /\ Len(e.key) # 16 => parse_uuid(e.key) = <<>>
    BY <2>2, Parsed
  <2>4. Len(<<>>) = 0 /\ 0 \notin Sizes
    BY DEF Sizes
  <2> QED BY <2>3, <2>4 DEF OfLength, WithId
<1>5. \A n \in Sizes : \A e \in OfLength(n) : e \in ToSet(ServiceData)
  BY DEF OfLength, WithId
<1> HIDE DEF Of, entry
<1>6. \A e : e \in ReadServiceData(Data) <=> \E n \in Sizes : e \in OfLength(n)
  BY <1>2, <1>3
<1> QED BY <1>4, <1>5, <1>6 DEF Readable

\* And manufacturer data.
LEMMA CompanyRead ==
  ASSUME Known, ListsFit
  PROVE  ReadManufacturerData(Data) = ToSet(CompanyData)
<1> DEFINE entry(p) == [key |-> p[1] + 256 * p[2], data |-> After(p, 2)]
<1>1. ASSUME NEW e \in ToSet(CompanyData) PROVE entry(CompanyPayload(e)) = e
  <2>1. e \in Entry(UInt16)
    BY <1>1, Fits
  <2>2. e.key \in UInt16 /\ e.data \in Bytes /\ e = [key |-> e.key, data |-> e.data]
    BY <2>1, EntryParts
  <2>3. PICK a \in Byte, b \in Byte, d \in Bytes :
          /\ a = e.key % 256 /\ b = e.key \div 256 /\ d = e.data
          /\ a + 256 * b = e.key
    <3>1. /\ e.key % 256 \in Byte /\ e.key \div 256 \in Byte
          /\ (e.key % 256) + 256 * (e.key \div 256) = e.key
      BY <2>2, CompanyBytes
    <3> QED BY <2>2, <3>1
  <2>4. PICK two \in Bytes : /\ two = <<a, b>> /\ Len(two) = 2
                             /\ two[1] = a /\ two[2] = b
    <3>1. <<a, b>> \in Bytes
      BY DEF Bytes
    <3> QED BY <3>1
  <2>5. PICK n \in Nat : n = 2
    OBVIOUS
  <2>6. After(two \o d, n) = d
    BY <2>4, <2>5, Parted
  <2>7. (two \o d)[1] = a /\ (two \o d)[2] = b
    <3>1. \A i \in 1..Len(two) : (two \o d)[i] = two[i]
      BY Appended
    <3>2. 1 \in 1..Len(two) /\ 2 \in 1..Len(two)
      BY <2>4
    <3> QED BY <2>4, <3>1, <3>2
  <2>8. CompanyPayload(e) = two \o d
    BY <2>3, <2>4, Zenon DEF CompanyPayload
  <2>9. After(CompanyPayload(e), 2) = d
    BY <2>5, <2>6, <2>8
  <2>10. CompanyPayload(e)[1] = a /\ CompanyPayload(e)[2] = b
    BY <2>7, <2>8
  <2>11. entry(CompanyPayload(e)) = [key |-> a + 256 * b, data |-> d]
    BY <2>9, <2>10
  <2> HIDE DEF entry
  <2> QED BY <2>2, <2>3, <2>11
<1>2. ReadManufacturerData(Data) = {entry(p) : p \in Payloads(Data, 255)}
  BY Zenon DEF ReadManufacturerData
<1>3. Payloads(Data, 255) = {CompanyPayload(e) : e \in ToSet(CompanyData)}
  BY PacketPayloads
<1> HIDE DEF entry
<1>4. {entry(p) : p \in {CompanyPayload(e) : e \in ToSet(CompanyData)}}
        = {entry(CompanyPayload(e)) : e \in ToSet(CompanyData)}
  OBVIOUS
<1>5. {entry(CompanyPayload(e)) : e \in ToSet(CompanyData)} = ToSet(CompanyData)
  BY <1>1
<1> QED BY <1>2, <1>3, <1>4, <1>5, Zenon

\* A company's identifier is read from its four digits.
LEMMA CompanyReadsBack ==
  ASSUME NEW k \in UInt16
  PROVE  Number(16, company_id(k)) = k
<1>1. PICK a \in Byte, b \in Byte :
        a = k \div 256 /\ b = k % 256 /\ b + 256 * a = k
  <2>1. /\ k % 256 \in Byte /\ k \div 256 \in Byte
        /\ (k % 256) + 256 * (k \div 256) = k
    BY CompanyBytes
  <2> QED BY <2>1
<1>2. PICK p \in Nat, q \in Nat, r \in Nat, t \in Nat :
        /\ PartOf(a) = <<p, q>> /\ PartOf(b) = <<r, t>>
        /\ 16 * p + q = a /\ 16 * r + t = b
  <2>1. ASSUME NEW x \in Byte
        PROVE  /\ x \div 16 \in Nat /\ x % 16 \in Nat
               /\ 16 * (x \div 16) + (x % 16) = x
    BY DEF Byte
  <2> QED BY <2>1 DEF PartOf
<1>3. PICK digits \in [1..4 -> Nat] :
        /\ digits = company_id(k)
        /\ digits[1] = p /\ digits[2] = q /\ digits[3] = r /\ digits[4] = t
  <2>1. company_id(k) = <<p, q>> \o <<r, t>>
    BY <1>1, <1>2, Zenon DEF company_id
  <2>2. PICK u \in Seq(Nat), v \in Seq(Nat) :
          /\ u = <<p, q>> /\ Len(u) = 2 /\ u[1] = p /\ u[2] = q
          /\ v = <<r, t>> /\ Len(v) = 2 /\ v[1] = r /\ v[2] = t
    <3>1. <<p, q>> \in Seq(Nat) /\ <<r, t>> \in Seq(Nat)
      OBVIOUS
    <3> QED BY <3>1
  <2>3. /\ u \o v \in Seq(Nat) /\ Len(u \o v) = 4
        /\ (u \o v)[1] = u[1] /\ (u \o v)[2] = u[2]
        /\ (u \o v)[3] = v[1] /\ (u \o v)[4] = v[2]
    BY <2>2
  <2>4. PICK c \in Seq(Nat) : /\ c = company_id(k) /\ Len(c) = 4
                              /\ c[1] = p /\ c[2] = q /\ c[3] = r /\ c[4] = t
    BY <2>1, <2>2, <2>3
  <2>5. c \in [1..4 -> Nat]
    BY <2>4
  <2> QED BY <2>4, <2>5
<1>4. PICK n \in Nat, base \in Nat : n = 4 /\ base = 16
  OBVIOUS
<1>5. PICK f : Counts(f, base, digits, n) /\ Number(base, digits) = f[n]
  <2>1. digits \in [1..n -> Nat]
    BY <1>4
  <2> QED BY <2>1, Counted
<1>6. /\ f[0] = 0
      /\ f[1] = 16 * f[0] + p /\ f[2] = 16 * f[1] + q
      /\ f[3] = 16 * f[2] + r /\ f[4] = 16 * f[3] + t
  <2>1. \A i \in 1..4 : f[i] = 16 * f[i - 1] + digits[i]
    BY <1>4, <1>5 DEF Counts
  <2>2. f[0] = 0
    BY <1>5 DEF Counts
  <2> QED BY <1>3, <2>1, <2>2
<1>7. f[1] = p
  BY <1>6
<1>8. f[2] = a
  BY <1>2, <1>6, <1>7
<1>9. f[4] = 16 * (16 * a + r) + t
  BY <1>6, <1>8
<1>10. 16 * (16 * a + r) + t = 256 * a + b
  BY <1>2 DEF Byte
<1>11. f[4] = k
  BY <1>1, <1>9, <1>10
<1> QED BY <1>3, <1>4, <1>5, <1>11

\* What extract_manufacturer_data makes of an entry.
LEMMA ExtractedRead ==
  ASSUME NEW dict \in Seq(Entry(UInt16))
  PROVE  {[e EXCEPT !.key = Number(16, e.key)] :
            e \in ToSet(extract_manufacturer_data(dict))} = ToSet(dict)
<1> DEFINE shown(e) == [key |-> company_id(e.key), data |-> e.data]
           read(e)  == [e EXCEPT !.key = Number(16, e.key)]
           out      == [i \in DOMAIN dict |-> shown(dict[i])]
<1>1. ASSUME NEW e \in Entry(UInt16) PROVE read(shown(e)) = e
  <2>1. e.key \in UInt16 /\ e = [key |-> e.key, data |-> e.data]
    BY EntryParts
  <2>2. Number(16, company_id(e.key)) = e.key
    BY <2>1, CompanyReadsBack
  <2>3. \A x, y, z : [[key |-> x, data |-> y] EXCEPT !.key = z]
                       = [key |-> z, data |-> y]
    OBVIOUS
  <2>4. PICK x : x = company_id(e.key)
    OBVIOUS
  <2>5. shown(e) = [key |-> x, data |-> e.data] /\ shown(e).key = x
    BY <2>4
  <2>6. read(shown(e)) = [key |-> Number(16, x), data |-> e.data]
    BY <2>3, <2>5
  <2> QED BY <2>1, <2>2, <2>4, <2>6
<1>2. \A i \in DOMAIN dict : dict[i] \in Entry(UInt16)
  OBVIOUS
<1>3. extract_manufacturer_data(dict) = out
  BY Zenon DEF extract_manufacturer_data
<1> HIDE DEF read, shown
<1>4. /\ \A e : e \in ToSet(out) <=> \E i \in DOMAIN dict : e = shown(dict[i])
      /\ \A e : e \in ToSet(dict) <=> \E i \in DOMAIN dict : e = dict[i]
  BY DEF ToSet
<1> HIDE DEF out
<1>5. {read(e) : e \in ToSet(out)} = ToSet(dict)
  BY <1>1, <1>2, <1>4
<1> QED BY <1>3, <1>5, Zenon DEF read

\* What the advert has in its two forms.
LEMMA AdvertFields ==
  ASSUME Built
  PROVE  /\ advert.raw.data = Data
         /\ advert.legacy.name = Get("Name", <<>>)
         /\ advert.legacy.service_uuids = Uuids
         /\ advert.legacy.service_data = ServiceData
         /\ advert.legacy.manufacturer_data = extract_manufacturer_data(CompanyData)
         /\ \A f \in {"address", "address_type", "rssi"} :
              advert.raw[f] = advert.legacy[f]
<1>1. "Address" \in DOMAIN props
  BY BuiltFields
<1>2. PICK address, type, rssi, extracted :
        advert =
          [legacy |->
             [address           |-> address,
              address_type      |-> type,
              rssi              |-> rssi,
              name              |-> Get("Name", <<>>),
              service_uuids     |-> Uuids,
              service_data      |-> ServiceData,
              manufacturer_data |-> extracted],
           raw |->
             [address      |-> address,
              address_type |-> type,
              rssi         |-> rssi,
              data         |-> Data]]
        /\ extracted = extract_manufacturer_data(CompanyData)
  BY <1>1, Zenon
     DEF advert, build_advertisement, Data, Uuids, ServiceData, CompanyData
<1> HIDE DEF advert
<1> QED BY <1>2

\* FormsAgree for all that BlueZ may know of a device.
THEOREM TheFormsAgree == Spec => []FormsAgree
<1>1. ASSUME Known, Built, ListsFit
      PROVE  /\ Payloads(advert.raw.data, 9) \subseteq {advert.legacy.name}
             /\ advert.legacy.name # <<>> => Payloads(advert.raw.data, 9) # {}
             /\ ReadUuids(advert.raw.data)
                  = {u \in ToSet(advert.legacy.service_uuids) : Len(u) = 16}
             /\ ReadServiceData(advert.raw.data)
                  = Readable(advert.legacy.service_data)
             /\ ReadManufacturerData(advert.raw.data)
                  = {[e EXCEPT !.key = Number(16, e.key)] :
                       e \in ToSet(advert.legacy.manufacturer_data)}
             /\ \A f \in {"address", "address_type", "rssi"} :
                  advert.raw[f] = advert.legacy[f]
  <2>1. /\ advert.raw.data = Data
        /\ advert.legacy.name = Get("Name", <<>>)
        /\ advert.legacy.service_uuids = Uuids
        /\ advert.legacy.service_data = ServiceData
        /\ advert.legacy.manufacturer_data = extract_manufacturer_data(CompanyData)
        /\ \A f \in {"address", "address_type", "rssi"} :
             advert.raw[f] = advert.legacy[f]
    BY <1>1, AdvertFields
  <2>2. Payloads(Data, 9) = {props[k] : k \in DOMAIN props \intersect {"Name"}}
    BY <1>1, PacketPayloads
  <2>3. /\ Payloads(Data, 9) \subseteq {Get("Name", <<>>)}
        /\ Get("Name", <<>>) # <<>> => Payloads(Data, 9) # {}
    BY <2>2 DEF Get
  <2>4. /\ ReadUuids(Data) = {u \in ToSet(Uuids) : Len(u) = 16}
        /\ ReadServiceData(Data) = Readable(ServiceData)
        /\ ReadManufacturerData(Data) = ToSet(CompanyData)
    BY <1>1, UuidsRead, ServiceRead, CompanyRead
  <2>5. {[e EXCEPT !.key = Number(16, e.key)] :
           e \in ToSet(extract_manufacturer_data(CompanyData))} = ToSet(CompanyData)
    <3>1. CompanyData \in Seq(Entry(UInt16))
      BY <1>1, Given DEF CompanyData
    <3> QED BY <3>1, ExtractedRead
  <2> QED BY <2>1, <2>3, <2>4, <2>5, Zenon
<1>2. Known => FormsAgree
  BY <1>1, Zenon DEF FormsAgree
<1> QED BY <1>2, StaysKnown, PTL
=============================================================================
