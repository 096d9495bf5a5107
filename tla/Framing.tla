------------------------------ MODULE Framing ------------------------------
(***************************************************************************)
(* The plaintext framing of the API (src/proto.rs, and encode_response of  *)
(* src/handlers.rs): how the bytes of a connection become messages.        *)
(*                                                                         *)
(* A frame is a zero byte, the varint length of the payload, the varint    *)
(* message type and the payload.  TCP delivers the bytes in pieces of any  *)
(* size; handle_client appends each piece to buf and calls next_message    *)
(* until it returns None.                                                  *)
(*                                                                         *)
(* A byte has one continuation bit and a digit below Base: Base is 128 in  *)
(* the code, Word is 2^64, TypeWord 2^32 and Groups, the bytes             *)
(* decode_varint reads before it gives up, is 10.  Clients are conforming: what they send is frames.  *)
(***************************************************************************)
EXTENDS Integers, Sequences, FiniteSetsExt, SequencesExt

CONSTANTS
  Base,      \* values of a varint digit
  Groups,    \* most bytes of a varint
  Word,      \* values of the integer a varint is decoded to
  TypeWord,  \* values of the integer a type is cast to
  Types,     \* message types the client sends
  Payloads,  \* payloads the client sends
  MaxMsgs    \* bound: messages sent in a behaviour

Byte == 0..(2 * Base - 1)

\* Base ^ k
Power[k \in Nat] == IF k = 0 THEN 1 ELSE Base * Power[k - 1]

ASSUME FramingAssumption ==
  /\ Base \in Nat \ {0, 1}
  /\ Groups \in Nat \ {0}
  /\ Word \in Nat /\ Word <= Power[Groups]
  /\ TypeWord \in Nat \ {0} /\ TypeWord <= Word
  /\ Types \subseteq 0..(TypeWord - 1)
  /\ Payloads \subseteq {p \in Seq(Byte) : Len(p) < Word}
  /\ MaxMsgs \in Nat

-----------------------------------------------------------------------------
(* Varints *)

\* The digit loop of encode_varint, least significant digit first.
encode_varint[value \in Nat] ==
  IF value < Base THEN <<value>>
  ELSE <<Base + (value % Base)>> \o encode_varint[value \div Base]

\* The number whose first n digits these are, `result' of decode_varint.
Number[n \in Nat] ==
  [digits \in Seq(Nat) |->
     IF n = 0 \/ digits = <<>> THEN 0
     ELSE Head(digits) + Base * Number[n - 1][Tail(digits)]]

\* The bytes without the continuation bit.
Ends(bytes) == {i \in 1..Len(bytes) : bytes[i] < Base}

\* Mutant: the continuation bit stays in the digit.
decode_varint_unmasked(bytes) ==
  LET size   == Min(Ends(bytes))
      digits == [i \in 1..size |-> bytes[i]]
  IN IF Ends(bytes) = {} \/ size > Groups THEN <<>>
     ELSE <<Number[size][digits] % Word, size>>

\* Ok((value, size)) as a pair; <<>> stands for both errors, an incomplete
\* varint and one that is too long, which next_message does not tell apart.
decode_varint(bytes) ==
  LET size   == Min(Ends(bytes))
      digits == [i \in 1..size |-> bytes[i] % Base]
  IN IF Ends(bytes) = {} \/ size > Groups THEN <<>>
     ELSE <<Number[size][digits] % Word, size>>

-----------------------------------------------------------------------------
(* Frames *)

Message == [type : Types, payload : Payloads]

encode_response(m) ==
  <<0>> \o encode_varint[Len(m.payload)] \o encode_varint[m.type] \o m.payload

\* The bytes of the first n of the messages.
Encodings[n \in Nat] ==
  [ms \in Seq(Message) |->
     IF n = 0 \/ ms = <<>> THEN <<>>
     ELSE encode_response(Head(ms)) \o Encodings[n - 1][Tail(ms)]]

Encoding(ms) == Encodings[Len(ms)][ms]

NoMessage == [kind |-> "None"]
Panic     == [kind |-> "Panic"]

\* The length is checked against the bytes after it before the type, which
\* the length does not count, has been skipped: split_to asks for more than
\* buf holds if only bytes of the type's size are missing, and panics.
next_message(bytes) ==
  LET length  == decode_varint(Tail(bytes))
      body    == 1 + length[2]
      type    == decode_varint(SubSeq(bytes, body + 1, Len(bytes)))
      payload == body + type[2]
      end     == payload + length[1]
  IN IF \/ bytes = <<>> \/ Head(bytes) # 0
        \/ length = <<>>
        \/ Len(bytes) < body + length[1]
        \/ type = <<>>
     THEN NoMessage
     ELSE IF Len(bytes) < end THEN Panic
     ELSE [kind |-> "Some",
           msg  |-> [type    |-> type[1] % TypeWord,
                     payload |-> SubSeq(bytes, payload + 1, end)],
           rest |-> SubSeq(bytes, end + 1, Len(bytes))]

-----------------------------------------------------------------------------
VARIABLES
  msgs,    \* messages the client has sent
  wire,    \* bytes sent and not yet read
  buf,     \* bytes read and not yet taken
  handed,  \* messages next_message has returned
  task     \* "read", "parse" or "panicked"

vars == <<msgs, wire, buf, handed, task>>

Init ==
  /\ msgs = <<>>
  /\ wire = <<>>
  /\ buf = <<>>
  /\ handed = <<>>
  /\ task = "read"

Send(m) ==
  /\ Len(msgs) < MaxMsgs
  /\ msgs' = Append(msgs, m)
  /\ wire' = wire \o encode_response(m)
  /\ UNCHANGED <<buf, handed, task>>

\* stream.read_buf(&mut buf) returns Ok(n).
ReadBuf(n) ==
  /\ task = "read"
  /\ n <= Len(wire)
  /\ buf' = buf \o SubSeq(wire, 1, n)
  /\ wire' = SubSeq(wire, n + 1, Len(wire))
  /\ task' = "parse"
  /\ UNCHANGED <<msgs, handed>>

\* Mutant: `if let' in place of `while let'.
NextMessageOnce ==
  /\ task = "parse"
  /\ \E next \in {next_message(buf)} :
       /\ next.kind # "Panic"
       /\ handed' = IF next.kind = "Some" THEN Append(handed, next.msg)
                    ELSE handed
       /\ buf' = IF next.kind = "Some" THEN next.rest ELSE buf
  /\ task' = "read"
  /\ UNCHANGED <<msgs, wire>>

\* One turn of `while let Some((msg_type, payload)) = next_message(&mut buf)'.
NextMessage ==
  /\ task = "parse"
  /\ \E next \in {next_message(buf)} :
       \/ /\ next.kind = "Some"
          /\ handed' = Append(handed, next.msg)
          /\ buf' = next.rest
          /\ UNCHANGED task
       \/ /\ next.kind = "None"
          /\ task' = "read"
          /\ UNCHANGED <<buf, handed>>
       \/ /\ next.kind = "Panic"
          /\ task' = "panicked"
          /\ UNCHANGED <<buf, handed>>
  /\ UNCHANGED <<msgs, wire>>

Read == \E n \in 1..Len(wire) : ReadBuf(n)

Next == (\E m \in Message : Send(m)) \/ Read \/ NextMessage

\* TCP delivers what was sent, and a task that can run does.
Spec == Init /\ [][Next]_vars /\ WF_vars(Read) /\ WF_vars(NextMessage)

-----------------------------------------------------------------------------
TypeOK ==
  /\ msgs \in Seq(Message)
  /\ wire \in Seq(Byte)
  /\ buf \in Seq(Byte)
  /\ handed \in Seq(Message)
  /\ task \in {"read", "parse", "panicked"}

\* Bytes are neither lost, doubled nor taken from the wrong place: what has
\* been taken is a prefix of the messages sent, and what has not is in buf and
\* on the wire, byte for byte, wherever the reads were cut (split_to and
\* split_off in next_message).
NothingLost ==
  /\ IsPrefix(handed, msgs)
  /\ Encoding(SubSeq(msgs, Len(handed) + 1, Len(msgs))) = buf \o wire

\* The loop stops only when it must: while it waits for bytes, buf does not
\* hold a whole message (None against the checks of next_message).
WaitsOnlyForMore ==
  task = "read" /\ Len(handed) < Len(msgs) =>
    Len(buf) < Len(encode_response(msgs[Len(handed) + 1]))

\* A varint is read back whatever follows it in the buffer, and no proper
\* prefix of one is taken for a number, nor anything that does not end within
\* Groups bytes (decode_varint against encode_varint, and its "Varint too long").
VarintsReadBack ==
  /\ \A v \in 0..(Word - 1) :
       LET code == encode_varint[v] IN
         /\ decode_varint(code \o buf) = <<v, Len(code)>>
         /\ \A n \in 0..(Len(code) - 1) :
              decode_varint(SubSeq(code, 1, n)) = <<>>
  /\ \A long \in [1..Groups -> Base..(2 * Base - 1)] :
       decode_varint(long \o buf) = <<>>

\* The task panics only over a message with a payload of which no more is
\* missing than its type is long: the one way Server lets a read be torn.
PanicIsTorn ==
  task = "panicked" =>
    LET m       == msgs[Len(handed) + 1]
        missing == Len(encode_response(m)) - Len(buf)
    IN m.payload # <<>> /\ missing \in 1..Len(encode_varint[m.type])

\* Every message sent is handed to the dispatcher, or the task has panicked.
EveryMessageHanded ==
  \A n \in 1..MaxMsgs :
    Len(msgs) >= n ~> (Len(handed) >= n \/ task = "panicked")

\* "make sure buffer contains entire message" (src/proto.rs:60): a frame of
\* which a part is still on the way is waited for.
EntireMessageInBuffer == task # "panicked"
=============================================================================
