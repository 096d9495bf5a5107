----------------------------- MODULE MCFraming -----------------------------
(* An instance of Framing for TLC: two-bit digits and five-bit words, so   *)
(* that, as with 7 and 64, the last byte of a varint is used in part.      *)
EXTENDS Framing

\* 5 and 18 need a type of two and of three bytes.
SomeTypes == {1, 5, 18}

\* No payload, one that looks like framing, and one with a two-byte length.
SomePayloads == {<<>>, <<0>>, <<5, 0>>, <<0, 1, 1, 7>>}
=============================================================================
