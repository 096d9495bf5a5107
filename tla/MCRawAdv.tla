------------------------------ MODULE MCRawAdv ------------------------------
(* Instances of RawAdv for TLC. *)
EXTENDS RawAdvProperties, Wire

Repeat(x, n) == [i \in 1..n |-> x]

Bit16   == <<0, 0, 252, 210>> \o BASE_UUID_SUFFIX
Bit32   == <<7, 0, 252, 210>> \o BASE_UUID_SUFFIX
Bit32b  == <<0, 7, 252, 210>> \o BASE_UUID_SUFFIX
Bit128  == <<0, 0, 252, 210>> \o Repeat(9, 12)
NoUuid  == <<252, 210>>

Data(k, d) == [key |-> k, data |-> d]

\* UUIDs of every size, and lists that just fit a structure or just do not, as
\* those of a peripheral with that many services.
MCValues ==
  [k \in Keys |->
    CASE k = "Address"     -> {<< <<10, 0>>, <<0, 15>>, <<15, 15>> >>}
      [] k = "AddressType" -> {"public", "random"}
      [] k = "RSSI"        -> {-70}
      [] k = "Name"        -> {<<65>>, Repeat(66, 248)}
      [] k = "UUIDs"       -> {<<Bit128, Bit16, Bit32, NoUuid>>,
                               <<Bit32b, Bit16, Bit128, Bit16>>,
                               Repeat(Bit16, 127), Repeat(Bit16, 128),
                               Repeat(Bit128, 15), Repeat(Bit128, 16)}
      [] k = "ServiceData" -> {<<Data(Bit16, <<0>>), Data(Bit128, <<1, 2>>)>>,
                               <<Data(Bit32b, <<>>), Data(NoUuid, <<3>>)>>}
      [] k = "ManufacturerData" -> {<<Data(76, <<2, 21>>), Data(65535, <<>>)>>}
      [] k = "TxPower"     -> {-20, 127, 300}]
=============================================================================
